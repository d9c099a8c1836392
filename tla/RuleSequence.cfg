SPECIFICATION Spec
CONSTANTS
  brute = brute
  scan = scan
  touch = touch
  drop = drop
  web = web
  db = db
  passwd = passwd
  tmp = tmp
  Unset = Unset
  NoContainer = NoContainer
  NoKind = NoKind
  MaxPort = 2
  DefaultWindow = 2
  Rules <- MCRules
  Kinds <- MCKinds
  Lag = 1
  MaxTime = 3
  MaxEvents = 4
INVARIANTS
  TrackerFoundOrCreated
CHECK_DEADLOCK FALSE

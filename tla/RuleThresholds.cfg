SPECIFICATION Spec
CONSTANTS
  brute = brute
  scan = scan
  touch = touch
  drop = drop
  web = web
  db = db
  passwd = passwd
  tmp = tmp
  Unset = Unset
  NoContainer = NoContainer
  NoKind = NoKind
  MaxPort = 2
  DefaultWindow = 2
  Rules <- MCRules
  Kinds <- MCKinds
  Lag = 2
  MaxTime = 4
  MaxEvents = 4
INVARIANTS
  TypeOK
  NoMissedBurst
  NoFalseBurst
CHECK_DEADLOCK FALSE

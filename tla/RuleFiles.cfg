SPECIFICATION MCSpec
CONSTANTS
  top = top
  sub = sub
  r1 = r1
  r2 = r2
  note = note
  web = web
  db = db
  Unset = Unset
  NoContainer = NoContainer
  MaxPort = 2
  Entries = {top, sub, r1, r2, note}
  Root = top
  Kind <- MCKind
  Children <- MCChildren
  Contents <- MCContents
  Events <- MCEvents
INVARIANTS
  NoRuleLeftOut
  PortMeaning
PROPERTY
  MatchSurvivesIgnorance
CHECK_DEADLOCK FALSE

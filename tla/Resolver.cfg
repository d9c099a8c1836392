SPECIFICATION FairEnrichSpec
CONSTANTS
  web = web
  db = db
  Containers = {web, db}
  NoOne = NoOne
  MaxStarts = 2
  MaxErrors = 1
  MaxTraced = 1
INVARIANTS
  TypeOK
  CacheTruthful
  UnknownExplained
  NamesRight
  KnownEventsKept
PROPERTIES
  KnownStaysKnown
  StartNoticed
CHECK_DEADLOCK FALSE

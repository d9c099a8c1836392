SPECIFICATION Spec
CONSTANTS
  c1 = c1
  c2 = c2
  c3 = c3
  f = f
  web = web
  proxy = proxy
  db = db
  Events = {c1, c2, c3, f}
  NetEvents = {c1, c2, c3}
  LocalEvents = {f}
  Containers = {web, proxy, db}
  NoContainer = NoContainer
  NoEvent = NoEvent
  SrcOf <- MCSrcOf
  DstOf <- MCDstOf
  Known = {web, proxy}
  FilterSet = TRUE
  Matching = {db}
  MaxFired = 1
  Cap = 1
  AlertCap = 1
INVARIANT FilterRespected

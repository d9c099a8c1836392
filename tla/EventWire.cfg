SPECIFICATION Spec
CONSTANTS
  conn = conn
  acc = acc
  long = long
  edge = edge
  short = short
  run = run
  None = None
  Calls = {conn, acc, long, edge, short, run}
  TypeOf <- MCTypeOf
  TextLen <- MCTextLen
  Slots = 1
INVARIANT EventFaithful
CHECK_DEADLOCK FALSE

SPECIFICATION Spec
CONSTANTS
  Events = {e1, e2, e3}
  Cap = 1
  AlertCap = 1
CHECK_DEADLOCK FALSE
INVARIANT NilAfterLast
PROPERTY AllPrinted

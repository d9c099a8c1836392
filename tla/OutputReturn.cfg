SPECIFICATION Spec
CONSTANTS
  Events = {e1, e2}
  Cap = 1
  AlertCap = 1
CHECK_DEADLOCK FALSE
PROPERTY ReturnsWhenClosed

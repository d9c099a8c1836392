SPECIFICATION Spec
CONSTANTS
  a1 = a1
  a2 = a2
  t1 = t1
  n1 = n1
  n2 = n2
  l1 = l1
  Attempts = {a1, a2}
  Locals = {}
  Tuples <- MCTuples
  Netns <- MCNetns
  TupleOf <- MCTupleOf
  NetnsOf <- MCLoopbackNetns
  ConnectIPv4 = {a1, a2}
  AcceptIPv4 = {a1, a2}
  ResetQueued = {}
  CgroupOf <- MCCgroupOf
  RingSlots = 2
  OutputCap = 1
  MaxClock = 1
  Timeout = 1
  WallAtBoot <- MCWallAtBoot
  BootTimes <- MCExactBoot
  NoEntry = NoEntry
  NoRecord = NoRecord
  NoEvent = NoEvent
INVARIANT AttributionSound

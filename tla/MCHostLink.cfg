SPECIFICATION Spec
CONSTANTS
  MaxCalls = 4
  MaxRuns = 2
  MaxUnits = 4
  Packet = 2
  Attempts = 3
CHECK_DEADLOCK FALSE
INVARIANTS
  BytesInOrder
  CallsLeaveNothing
  UsersOutlived

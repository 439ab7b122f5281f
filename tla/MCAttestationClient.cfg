CONSTANTS
  TicksPerMs = 2
  MaxTime = 8
  MaxRoundTrip = 2
  Uncertainty = 0
  MaxEvents = 1
  Timeout = 5
  Lifetime = 5
  Records = 2
  MaxRuns = 2
SPECIFICATION Spec
INVARIANTS  GatedBeforeExpiry 
CHECK_DEADLOCK FALSE

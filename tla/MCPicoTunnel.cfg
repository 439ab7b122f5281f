SPECIFICATION FairSpec
CONSTANTS
  MaxSessions = 2
  MaxConnections = 2
  HostBytes = 2
  GatewayBytes = 1
  Ring = 2
  Threshold = 2
  MaxQueries = 1
  BatchSteps = 1
INVARIANTS  NoOrphan HeldBytesHaveADeadline
PROPERTY DeadPumpRestarts
CHECK_DEADLOCK FALSE

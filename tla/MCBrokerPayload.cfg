SPECIFICATION BrokerSpec
CONSTANTS
  Window = 2
  MaxData = 2
INVARIANT PayloadUntilNextRequest

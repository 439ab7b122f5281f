SPECIFICATION BrokerSpec
CONSTANTS
  Window = 2
  MaxData = 4
INVARIANTS NothingLeaks WireInOrder

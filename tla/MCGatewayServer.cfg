SPECIFICATION GatewaySpec
CONSTANTS
    Digests = {d1}
    Publishers = {p1, p2}
    Workers = {w1, w2}
    MaxConnections = 1
INVARIANTS
    NeverWedged
    PublishedStaysOpen
    ActiveStaysOpen
    StoreOutlivesHandlers
PROPERTY ServeReturns

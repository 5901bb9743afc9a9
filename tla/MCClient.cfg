\* Three callers, an unset URI so that Ping fails and domain operations do not.
CONSTANTS
    Callers = {monitor, c1, c2}
    Monitor = monitor
    Nobody = Nobody
    FailureLimit = 2
    SuccessThresh = 2
    ResetTimeout = 1
    Connections = {n1, n2, n3}
    NoConnection = NoConnection
    MaxConnections = 1
    UriSet = FALSE
SPECIFICATION ClientFairSpec
INVARIANTS ClientTypeOK NoPoolWait SingleConnection
PROPERTIES ImplementsBreaker

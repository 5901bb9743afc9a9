\* LIBVIRT_MAX_POOLING=0: every operation waits for a connection in vain.
CONSTANTS
    Callers = {monitor, c1, c2}
    Monitor = monitor
    Nobody = Nobody
    FailureLimit = 2
    SuccessThresh = 2
    ResetTimeout = 1
    Connections = {n1, n2, n3}
    NoConnection = NoConnection
    MaxConnections = 0
    UriSet = FALSE
SPECIFICATION ClientFairSpec
PROPERTY EmptyPoolTrips

\* Three users for two connections; five objects let every user hold one that
\* Close forgot while the buffer fills again.
CONSTANTS
    Users = {u1, u2, u3}
    Connections = {c1, c2, c3, c4, c5}
    Nobody = Nobody
    NoConnection = NoConnection
    MaxConnections = 2
SPECIFICATION FairSpec
INVARIANTS Exclusive CapacityKept WaitIsFutile
PROPERTIES Released

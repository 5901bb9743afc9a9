\* Two clients and the cleanup share two ids; three session objects always
\* leave one free for a new session.
CONSTANTS
    SessionIDs = {k1, k2}
    Sessions = {s1, s2, s3}
    Requests = {r1, r2}
    Cleaner = Cleaner
    Nobody = Nobody
    NoSession = NoSession
    IdleTimeout = 1
SPECIFICATION Spec
INVARIANTS TypeOK NoOrphan RegistryUsable NoCircularWait
PROPERTIES ClosedIsFinal CleanupJustified
SYMMETRY Symmetry

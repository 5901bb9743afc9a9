\* Two clients compete for one id with each other and with the cleanup.
CONSTANTS
    SessionIDs = {k1}
    Sessions = {s1, s2}
    Requests = {r1, r2}
    Cleaner = Cleaner
    Nobody = Nobody
    NoSession = NoSession
    IdleTimeout = 1
SPECIFICATION FairSpec
PROPERTIES RequestsReturn StaleSessionGoes ImplementsLifecycle

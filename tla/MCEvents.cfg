SPECIFICATION Spec
CONSTANTS
    Domains = {d1, d2}
    States = {"running", "shutoff"}
    Absent = Absent
    NoDomain = NoDomain
    Capacity = 1
INVARIANTS TypeOK FeedAccurate
PROPERTIES ShutdownEnds Informed
\* After the shutdown nothing is left to do.
CHECK_DEADLOCK FALSE

\* The monitor and two more callers; limit and threshold of 2 let successes and
\* failures alternate below either.
CONSTANTS
    Callers = {monitor, c1, c2}
    Monitor = monitor
    Nobody = Nobody
    FailureLimit = 2
    SuccessThresh = 2
    ResetTimeout = 1
SPECIFICATION FairSpec
INVARIANTS TripsOnStreaks OpenIsQuiet
PROPERTIES CallsReturn Recovery Trip

\* Two requests, one of a user and one of nobody, share an address; a window of
\* two ticks is as long as the cleanup's patience, one of three ticks longer.
CONSTANTS
    Users = {u1}
    IPs = {a1}
    Anonymous = Anonymous
    Prefix = Prefix
    Requests = {r1, r2}
    UserMax = 1
    IPMax = 1
    Windows = {2, 3}
    MaxAge = 1
    Horizon = 3
SYMMETRY RequestSymmetry
SPECIFICATION Spec
INVARIANTS TypeOK RateBounded
PROPERTIES ImplementsEager

\* Two users.
CONSTANTS
    Users = {u1, u2}
    IPs = {a1}
    Anonymous = Anonymous
    Prefix = Prefix
    Requests = {r1, r2}
    UserMax = 1
    IPMax = 1
    Windows = {2}
    MaxAge = 2
    Horizon = 3
SPECIFICATION Spec
PROPERTY FreshUserServed

SPECIFICATION Spec
CONSTANTS
    Users = {u1, u2}
    Emails = {e1, e2}
    Passwords = {p1, p2}
    Names = {n1, n2}
    Requests = {r1, r2}
    NoRow = NoRow
SYMMETRY Symmetry
INVARIANT TypeOK
PROPERTIES ImplementsTable UndoneByRaceOnly PasswordChangeEarned

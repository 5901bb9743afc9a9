------------------------------ MODULE Accounts ------------------------------
(***************************************************************************)
(* UserService (backend/internal/service/user.go) over UserRepository      *)
(* (repository/user.go) and the table users, with the handlers that call   *)
(* it in cmd/server/main.go.                                               *)
(*                                                                         *)
(* Each request runs on a goroutine of its own.  A query is one atomic     *)
(* step of the database; no operation uses a transaction, so that other    *)
(* requests come between its queries.  Requests that end with an error     *)
(* before they write are left out, they change nothing.  So are is_admin   *)
(* and is_active: Register sets them and no code changes them.             *)
(***************************************************************************)
CONSTANTS
    Users,      \* ids of rows
    Emails,
    Passwords,  \* those Validate accepts; a hash goes by its password
    Names,      \* values of full_name
    Requests,   \* goroutines serving HTTP requests
    NoRow       \* an id that is not used yet

VARIABLES
    users,      \* the table users
    req,        \* what each request is doing, and its local variables
    stale       \* history: what it relies on in the row it read was changed since

vars == <<users, req, stale>>

\* The columns that Update writes, and the row around them.
Profiles == [name : Names, secret : BOOLEAN, enabled : BOOLEAN]
Rows     == [live : BOOLEAN, email : Emails, password : Passwords,
             profile : Profiles, lastLogin : BOOLEAN]
Idle     == [op |-> "idle"]
Reads    == {"confirm", "disable", "update"}

\* What the abstract table has in its rows next to the key.
Columns == Passwords \X Profiles \X BOOLEAN

ASSUME AccountsAssumption ==
    NoRow \notin Rows \cup [live : BOOLEAN, columns : Columns]

Inserts    == [op : {"create"}, row : Rows]
Stamps     == [op : {"stamp"}, id : Users]
Edits      == [op : Reads, id : Users, profile : Profiles]
Rekeys     == [op : {"password"}, id : Users, current : Passwords, new : Passwords]

\* The types of the state.  A row with the second factor enabled has a secret:
\* Login dereferences it.
TypeOK ==
    /\ users \in [Users -> Rows \cup {NoRow}]
    /\ req \in [Requests -> {Idle} \cup Inserts \cup Stamps \cup Edits \cup Rekeys]
    /\ stale \in [Requests -> BOOLEAN]
    /\ \A u \in Users : users[u] # NoRow /\ users[u].profile.enabled
                        => users[u].profile.secret

Init ==
    /\ users = [u \in Users |-> NoRow]
    /\ req = [r \in Requests |-> Idle]
    /\ stale = [r \in Requests |-> FALSE]

Live(u) == users[u] # NoRow /\ users[u].live

\* A request that works on the row u.
On(r, u) == req[r].op \in Reads \cup {"stamp", "password"} /\ req[r].id = u

Do(r, step) == req' = [req EXCEPT ![r] = step]

-----------------------------------------------------------------------------
(* UserRepository.                                                         *)

\* What a request relies on is the same in both rows: the password it verified,
\* or the columns it writes back as it read them.
Intact(op, old, new) ==
    /\ op = "password" => new.password = old.password
    /\ op = "update" => /\ new.profile.secret = old.profile.secret
                        /\ new.profile.enabled = old.profile.enabled
    /\ op \in {"confirm", "disable"} => new.profile.name = old.profile.name

\* The row u becomes `row'.
Put(u, row) ==
    /\ users' = [users EXCEPT ![u] = row]
    /\ stale' = [r \in Requests |->
                   stale[r] \/ (On(r, u) /\ ~Intact(req[r].op, users[u], row))]

Keep == UNCHANGED <<users, stale>>

\* A SELECT of the row u for the request r.
Got(r, u) ==
    /\ Live(u)
    /\ stale' = [stale EXCEPT ![r] = FALSE]
    /\ UNCHANGED users

\* Mistake (Next does not use it): the query selects no columns of the second
\* factor.
GetNoTOTP(u) == [users[u].profile EXCEPT !.secret = FALSE, !.enabled = FALSE]

\* What GetByID selects of the columns that Update writes.
Get(u) == users[u].profile

\* Mistake: Update writes deleted rows too.
UpdateDeleted(u, profile) == Put(u, [users[u] EXCEPT !.profile = profile])

\* Update.
Update(u, profile) ==
    IF Live(u) THEN Put(u, [users[u] EXCEPT !.profile = profile]) ELSE Keep

\* The unique constraint on the email holds for deleted rows as well.
Taken(e) == \E u \in Users : users[u] # NoRow /\ users[u].email = e

-----------------------------------------------------------------------------
(* UserService.                                                            *)

\* Register looks for a live row with the email.  It goes on if there is none,
\* and also if the query fails, as it ignores that error: whatever is in the table,
Register(r, e, p, n) ==
    /\ req[r] = Idle
    /\ Do(r, [op |-> "create",
              row |-> [live |-> TRUE, email |-> e, password |-> p,
                       profile |-> [name |-> n, secret |-> FALSE, enabled |-> FALSE],
                       lastLogin |-> FALSE]])
    /\ Keep

\* ... and inserts one under a fresh id, if the constraint allows it.
Create(r) ==
    /\ req[r].op = "create"
    /\ IF Taken(req[r].row.email) THEN Keep
       ELSE \E u \in Users : users[u] = NoRow /\ Put(u, req[r].row)
    /\ Do(r, Idle)

\* Login finds the row by its email and verifies the password, and the code
\* if the second factor is enabled,
Login(r, u) ==
    /\ req[r] = Idle /\ Got(r, u)
    /\ Do(r, [op |-> "stamp", id |-> u])

\* ... and stores the time.
UpdateLastLogin(r) ==
    /\ req[r].op = "stamp"
    /\ LET u == req[r].id IN
       IF Live(u) THEN Put(u, [users[u] EXCEPT !.lastLogin = TRUE]) ELSE Keep
    /\ Do(r, Idle)

\* ConfirmTOTP, DisableTOTP and UpdateUser read the row,
Read(r, u, op) ==
    /\ req[r] = Idle /\ Got(r, u)
    /\ Do(r, [op |-> op, id |-> u, profile |-> Get(u)])

\* ... change the copy and write it: a confirmation whose code VerifyToken took,
ConfirmTOTP(r) ==
    /\ req[r].op = "confirm"
    /\ Update(req[r].id, [req[r].profile EXCEPT !.secret = TRUE, !.enabled = TRUE])
    /\ Do(r, Idle)

\* Mistake: the flag stays when the secret goes.
DisableSecretOnly(r) ==
    /\ req[r].op = "disable"
    /\ Update(req[r].id, [req[r].profile EXCEPT !.secret = FALSE])
    /\ Do(r, Idle)

\* ... the end of the second factor,
DisableTOTP(r) ==
    /\ req[r].op = "disable"
    /\ Update(req[r].id, [req[r].profile EXCEPT !.secret = FALSE, !.enabled = FALSE])
    /\ Do(r, Idle)

\* ... another name.
UpdateUser(r, n) ==
    /\ req[r].op = "update"
    /\ Update(req[r].id, [req[r].profile EXCEPT !.name = n])
    /\ Do(r, Idle)

\* Mistake: the current password is not verified.
ChangeUnverified(r, u, current, new) ==
    /\ req[r] = Idle /\ Got(r, u)
    /\ Do(r, [op |-> "password", id |-> u, current |-> current, new |-> new])

\* ChangePassword reads the row and verifies the current password,
ChangePassword(r, u, current, new) ==
    /\ req[r] = Idle /\ Got(r, u) /\ current = users[u].password
    /\ Do(r, [op |-> "password", id |-> u, current |-> current, new |-> new])

\* ... and writes the hash of the new one.
UpdatePassword(r) ==
    /\ req[r].op = "password"
    /\ LET u == req[r].id IN
       IF Live(u) THEN Put(u, [users[u] EXCEPT !.password = req[r].new]) ELSE Keep
    /\ Do(r, Idle)

\* A request ends without its write: the query fails, or VerifyToken does not
\* take the code.
Fail(r) ==
    /\ req[r] # Idle
    /\ Do(r, Idle) /\ Keep

\* DeleteUser is one query.
DeleteUser(u) ==
    /\ Live(u) /\ Put(u, [users[u] EXCEPT !.live = FALSE])
    /\ UNCHANGED req

Next ==
    \/ \E r \in Requests :
          \/ \E e \in Emails, p \in Passwords, n \in Names : Register(r, e, p, n)
          \/ \E u \in Users : Login(r, u) \/ \E op \in Reads : Read(r, u, op)
          \/ \E u \in Users, current, new \in Passwords :
                ChangePassword(r, u, current, new)
          \/ Create(r) \/ UpdateLastLogin(r) \/ ConfirmTOTP(r)
          \/ DisableTOTP(r) \/ UpdatePassword(r) \/ Fail(r)
          \/ \E n \in Names : UpdateUser(r, n)
    \/ \E u \in Users : DeleteUser(u)

Spec == Init /\ [][Next]_vars

-----------------------------------------------------------------------------
(* What must hold.                                                         *)

\* The row of an email, as the abstract table has it.
RowOf(e) ==
    IF Taken(e)
    THEN LET row == users[CHOOSE u \in Users : users[u] # NoRow /\ users[u].email = e]
         IN  [live |-> row.live,
              columns |-> <<row.password, row.profile, row.lastLogin>>]
    ELSE NoRow

Table == INSTANCE SoftTable WITH Keys <- Emails,
                                 table <- [e \in Emails |-> RowOf(e)]

\* The users are a table with soft deletes however the queries of the requests
\* interleave: two registrations never both get an email, the email of a
\* deleted account stays taken, no late write reaches a deleted account.
ImplementsTable == Table!Spec

\* A request that writes back the whole profile changes what it is not about
\* only if another request has changed just that since it read the row: UpdateUser
\* the second factor, ConfirmTOTP and DisableTOTP the name.
UndoneByRaceOnly ==
    [][\A r \in Requests :
          req[r].op \in Reads /\ req'[r] = Idle /\ ~stale[r]
          => Intact(req[r].op, users[req[r].id], users'[req[r].id])]_vars

\* A password is only changed by a request that named it, or that named an
\* earlier one and was overtaken by another change of the password; no other
\* write excuses it, and a profile that is written back never brings an old
\* password back.
PasswordChangeEarned ==
    [][\A u \in Users : Live(u) /\ users'[u].password # users[u].password =>
          \E r \in Requests :
             /\ req[r].op = "password" /\ req[r].id = u /\ req'[r] = Idle
             /\ users'[u].password = req[r].new
             /\ stale[r] \/ req[r].current = users[u].password]_vars
=============================================================================

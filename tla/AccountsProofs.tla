--------------------------- MODULE AccountsProofs ---------------------------
(***************************************************************************)
(* Proofs about Accounts: the type invariant, the action properties, and   *)
(* that the users implement the abstract table.                            *)
(***************************************************************************)
EXTENDS Accounts, TLAPS

\* No two rows of the table t have the same email.
Unique(t) == \A u, w \in Users :
                t[u] # NoRow /\ t[w] # NoRow /\ t[u].email = t[w].email => u = w

Copying(r) == req[r].op \in Reads /\ ~stale[r]
Verified(r) == req[r].op = "password" /\ ~stale[r]

\* What a request relies on still is in its row as long as nobody has changed
\* just that; and no copy has the second factor enabled without a secret.
CopyCurrent ==
    \A r \in Requests :
        /\ req[r].op \in Reads /\ req[r].profile.enabled => req[r].profile.secret
        /\ req[r].op = "create" => req[r].row.live /\ ~req[r].row.profile.enabled
        /\ Copying(r) => /\ users[req[r].id] # NoRow
                         /\ Intact(req[r].op, users[req[r].id], req[r])
        /\ Verified(r) => /\ users[req[r].id] # NoRow
                          /\ req[r].current = users[req[r].id].password

Typed ==
    /\ users \in [Users -> Rows \cup {NoRow}]
    /\ req \in [Requests -> {Idle} \cup Inserts \cup Stamps \cup Edits \cup Rekeys]
    /\ stale \in [Requests -> BOOLEAN]

SecretThere == \A u \in Users : users[u] # NoRow /\ users[u].profile.enabled
                                => users[u].profile.secret

IInv == Typed /\ SecretThere /\ Unique(users) /\ CopyCurrent

-----------------------------------------------------------------------------

\* The shape of a request tells what it carries.
LEMMA Shapes ==
    ASSUME Typed, NEW r \in Requests
    PROVE  /\ req[r].op = "create" => req[r].row \in Rows
           /\ req[r].op \in Reads \cup {"stamp", "password"} => req[r].id \in Users
           /\ req[r].op \in Reads => req[r].profile \in Profiles
           /\ req[r].op = "password" => req[r].new \in Passwords
  BY DEF Typed, Idle, Inserts, Stamps, Edits, Rekeys, Reads

\* What writing one row under its own email, or under one nobody has, keeps.
LEMMA PutKeeps ==
    ASSUME Typed, SecretThere, Unique(users),
           NEW u \in Users, NEW row \in Rows,
           \/ users[u] # NoRow /\ row.email = users[u].email
           \/ ~Taken(row.email),
           row.profile.enabled => row.profile.secret,
           Put(u, row)
    PROVE  /\ users' \in [Users -> Rows \cup {NoRow}]
           /\ stale' \in [Requests -> BOOLEAN]
           /\ SecretThere' /\ Unique(users)'
  BY AccountsAssumption DEF Typed, SecretThere, Unique, Put, Taken

LEMMA InitIInv == Init => IInv
  BY AccountsAssumption
  DEF Init, IInv, Typed, SecretThere, Unique, CopyCurrent, Copying, Verified,
      Idle, Reads

-----------------------------------------------------------------------------

\* A write ends the request r; copies that rely on what it changed are stale.
LEMMA WriteKeeps ==
    ASSUME IInv, NEW r \in Requests, NEW u \in Users, NEW row \in Rows,
           \/ users[u] # NoRow /\ row.email = users[u].email
           \/ ~Taken(row.email),
           row.profile.enabled => row.profile.secret,
           Put(u, row), Do(r, Idle)
    PROVE  IInv'
<1>1. /\ users' \in [Users -> Rows \cup {NoRow}]
      /\ stale' \in [Requests -> BOOLEAN]
      /\ SecretThere' /\ Unique(users)'
  BY PutKeeps DEF IInv
<1>2. Typed'
  BY <1>1 DEF IInv, Typed, Do
<1>3. ASSUME NEW q \in Requests
      PROVE  req'[q] = IF q = r THEN Idle ELSE req[q]
  BY DEF IInv, Typed, Do
<1>4. ASSUME NEW q \in Requests, q # r, ~stale'[q],
             req[q].op \in Reads \cup {"password"}
      PROVE  /\ ~stale[q] /\ req[q].id \in Users
             /\ Intact(req[q].op, users[req[q].id], users'[req[q].id])
  BY <1>4, Shapes DEF IInv, Typed, Put, On, Intact
<1>5. users[u] # NoRow => row # NoRow
  BY AccountsAssumption
<1>6. CopyCurrent'
  BY <1>1, <1>3, <1>4, <1>5
     DEF IInv, CopyCurrent, Copying, Verified, Idle, Reads, Intact, Put, Typed
<1> QED
  BY <1>1, <1>2, <1>6 DEF IInv

\* A request that ends, or goes on, without a write.
LEMMA KeepKeeps ==
    ASSUME IInv, NEW r \in Requests, Keep,
           NEW step, Do(r, step),
           \/ step = Idle
           \/ step \in Inserts /\ step.row.live /\ ~step.row.profile.enabled
    PROVE  IInv'
<1>1. ASSUME NEW q \in Requests
      PROVE  req'[q] = IF q = r THEN step ELSE req[q]
  BY DEF IInv, Typed, Do
<1>2. Typed'
  BY DEF IInv, Typed, Do, Keep
<1>3. CopyCurrent'
  BY <1>1 DEF IInv, CopyCurrent, Copying, Verified, Idle, Inserts, Reads, Keep
<1> QED
  BY <1>2, <1>3 DEF IInv, Keep, SecretThere, Unique

\* A SELECT gives the request r a copy of the row u that is current.
LEMMA ReadKeeps ==
    ASSUME IInv, NEW r \in Requests, NEW u \in Users, Got(r, u),
           NEW step, Do(r, step),
           \/ step \in Stamps
           \/ step \in Edits /\ step.id = u /\ step.profile = users[u].profile
           \/ step \in Rekeys /\ step.id = u /\ step.current = users[u].password
    PROVE  IInv'
<1>1. ASSUME NEW q \in Requests
      PROVE  /\ req'[q] = IF q = r THEN step ELSE req[q]
             /\ stale'[q] = IF q = r THEN FALSE ELSE stale[q]
  BY DEF IInv, Typed, Do, Got
<1>2. Typed'
  BY DEF IInv, Typed, Do, Got
<1>3. users[u] # NoRow /\ users' = users
  BY DEF Got, Live
<1>4. /\ step.op \in Reads => /\ step.id = u /\ step.profile = users[u].profile
                              /\ step.profile.enabled => step.profile.secret
      /\ step.op # "create"
      /\ step.op = "password" => step.id = u /\ step.current = users[u].password
  BY <1>3 DEF IInv, SecretThere, Stamps, Edits, Rekeys, Reads
<1>5. step.op \in Reads => Intact(step.op, users[u], step)
  BY <1>4 DEF Intact, Reads
<1>6. CopyCurrent'
  BY <1>1, <1>3, <1>4, <1>5 DEF IInv, CopyCurrent, Copying, Verified
<1> QED
  BY <1>2, <1>3, <1>6 DEF IInv, SecretThere, Unique

-----------------------------------------------------------------------------
(* The five things a step may be.                                          *)

\* A request begins or ends without a query that writes or reads a row.
Passes(r) == /\ Keep
             /\ \/ Do(r, Idle) /\ req[r].op \notin {"idle"}
                \/ /\ req[r] = Idle
                   /\ \E step \in Inserts : /\ step.row.live
                                            /\ ~step.row.profile.enabled
                                            /\ Do(r, step)

Looks(r, u) == /\ req[r] = Idle /\ Got(r, u)
               /\ \E step \in Stamps \cup Edits \cup Rekeys :
                     /\ step \in Edits => step.id = u /\ step.profile = users[u].profile
                     /\ step \in Rekeys => step.id = u /\ step.current = users[u].password
                     /\ Do(r, step)

Adds(r, u) == /\ req[r].op = "create" /\ req[r].row \in Rows
              /\ req[r].row.live /\ ~req[r].row.profile.enabled
              /\ users[u] = NoRow /\ ~Taken(req[r].row.email)
              /\ Put(u, req[r].row) /\ Do(r, Idle)

\* What a request may change of a row, given its copy.
Changed(r, old, row) ==
    /\ row \in Rows /\ row.live /\ row.email = old.email
    /\ row.profile.enabled => row.profile.secret
    /\ req[r].op # "password" => row.password = old.password
    /\ req[r].op = "password" => row.password = req[r].new
    /\ req[r].op = "update" => /\ row.profile.secret = req[r].profile.secret
                               /\ row.profile.enabled = req[r].profile.enabled
    /\ req[r].op \in {"confirm", "disable"} =>
          /\ row.profile.name = req[r].profile.name
          /\ row.profile.enabled = (req[r].op = "confirm")
    /\ req[r].op \in {"stamp", "password"} => row.profile = old.profile

Writes(r, u, row) ==
    /\ req[r].op \in Reads \cup {"stamp", "password"} /\ u = req[r].id
    /\ Live(u) /\ Changed(r, users[u], row)
    /\ Put(u, row) /\ Do(r, Idle)

\* Update, by a request whose new profile is as Changed wants it.
LEMMA UpdateCases ==
    ASSUME IInv, NEW r \in Requests, req[r].op \in Reads,
           NEW profile \in Profiles, profile.enabled => profile.secret,
           req[r].op = "update" => /\ profile.secret = req[r].profile.secret
                                   /\ profile.enabled = req[r].profile.enabled,
           req[r].op \in {"confirm", "disable"} =>
              /\ profile.name = req[r].profile.name
              /\ profile.enabled = (req[r].op = "confirm"),
           Update(req[r].id, profile), Do(r, Idle)
    PROVE  Passes(r) \/ \E u \in Users, row \in Rows : Writes(r, u, row)
<1> DEFINE u == req[r].id
           row == [users[u] EXCEPT !.profile = profile]
<1>1. u \in Users
  BY Shapes DEF IInv
<1>2. CASE Live(u)
  <2>1. users[u] \in Rows
    BY <1>1, <1>2 DEF IInv, Typed, Live
  <2>2. Changed(r, users[u], row) /\ row \in Rows
    BY <2>1, <1>2 DEF Changed, Rows, Live, Reads
  <2> QED
    BY <1>1, <1>2, <2>2 DEF Writes, Update
<1>3. CASE ~Live(u)
  BY <1>3 DEF Passes, Update, Reads
<1> QED
  BY <1>2, <1>3

\* A step of the requests is one of them.
LEMMA StepCases ==
    ASSUME IInv, Next
    PROVE  \/ \E r \in Requests :
                 \/ Passes(r)
                 \/ \E u \in Users : Looks(r, u) \/ Adds(r, u)
                 \/ \E u \in Users, row \in Rows : Writes(r, u, row)
           \/ \E u \in Users : DeleteUser(u)
<1>1. ASSUME NEW r \in Requests, NEW e \in Emails, NEW p \in Passwords,
             NEW n \in Names, Register(r, e, p, n)
      PROVE  Passes(r)
  <2> DEFINE row == [live |-> TRUE, email |-> e, password |-> p,
                     profile |-> [name |-> n, secret |-> FALSE, enabled |-> FALSE],
                     lastLogin |-> FALSE]
             step == [op |-> "create", row |-> row]
  <2>1. step \in Inserts /\ step.row.live /\ ~step.row.profile.enabled
    BY DEF Inserts, Rows, Profiles
  <2> QED
    BY <1>1, <2>1 DEF Passes, Register
<1>2. ASSUME NEW r \in Requests, NEW u \in Users, Login(r, u)
      PROVE  Looks(r, u)
  <2>1. /\ [op |-> "stamp", id |-> u] \in Stamps
        /\ [op |-> "stamp", id |-> u] \notin Edits \cup Rekeys
    BY DEF Stamps, Edits, Rekeys, Reads
  <2> QED
    BY <1>2, <2>1 DEF Looks, Login
<1>3. ASSUME NEW r \in Requests, NEW u \in Users, NEW op \in Reads, Read(r, u, op)
      PROVE  Looks(r, u)
  <2> DEFINE step == [op |-> op, id |-> u, profile |-> users[u].profile]
  <2>1. users[u].profile \in Profiles
    BY <1>3 DEF IInv, Typed, Rows, Read, Got, Live
  <2>2. step \in Edits /\ step \notin Rekeys
    BY <2>1 DEF Edits, Rekeys, Reads
  <2> QED
    BY <1>3, <2>2 DEF Looks, Read, Get
<1>4. ASSUME NEW r \in Requests, NEW u \in Users, NEW current \in Passwords,
             NEW new \in Passwords, ChangePassword(r, u, current, new)
      PROVE  Looks(r, u)
  <2> DEFINE step == [op |-> "password", id |-> u, current |-> current, new |-> new]
  <2>1. step \in Rekeys /\ step \notin Edits
    BY DEF Edits, Rekeys, Reads
  <2> QED
    BY <1>4, <2>1 DEF Looks, ChangePassword
<1>5. ASSUME NEW r \in Requests, Create(r)
      PROVE  Passes(r) \/ \E u \in Users : Adds(r, u)
  BY <1>5, Shapes DEF IInv, CopyCurrent, Create, Passes, Adds
<1>6. ASSUME NEW r \in Requests, UpdateLastLogin(r)
      PROVE  Passes(r) \/ \E u \in Users, row \in Rows : Writes(r, u, row)
  <2> DEFINE u == req[r].id
             row == [users[u] EXCEPT !.lastLogin = TRUE]
  <2>1. CASE Live(u)
    <3>1. u \in Users /\ users[u] \in Rows /\ SecretThere
      BY <1>6, <2>1, Shapes DEF IInv, Typed, Live, UpdateLastLogin
    <3>2. Changed(r, users[u], row) /\ row \in Rows
      BY <1>6, <2>1, <3>1 DEF Changed, Rows, Live, UpdateLastLogin, SecretThere
    <3> QED
      BY <1>6, <2>1, <3>1, <3>2 DEF Writes, UpdateLastLogin
  <2> QED
    BY <1>6, <2>1 DEF Passes, UpdateLastLogin
<1>7. ASSUME NEW r \in Requests, UpdatePassword(r)
      PROVE  Passes(r) \/ \E u \in Users, row \in Rows : Writes(r, u, row)
  <2> DEFINE u == req[r].id
             row == [users[u] EXCEPT !.password = req[r].new]
  <2>1. CASE Live(u)
    <3>1. u \in Users /\ users[u] \in Rows /\ SecretThere /\ req[r].new \in Passwords
      BY <1>7, <2>1, Shapes DEF IInv, Typed, Live, UpdatePassword
    <3>2. Changed(r, users[u], row) /\ row \in Rows
      BY <1>7, <2>1, <3>1 DEF Changed, Rows, Live, UpdatePassword, SecretThere
    <3> QED
      BY <1>7, <2>1, <3>1, <3>2 DEF Writes, UpdatePassword
  <2> QED
    BY <1>7, <2>1 DEF Passes, UpdatePassword
<1>8. ASSUME NEW r \in Requests, ConfirmTOTP(r) \/ DisableTOTP(r)
      PROVE  Passes(r) \/ \E u \in Users, row \in Rows : Writes(r, u, row)
  <2>1. req[r].op \in {"confirm", "disable"} /\ req[r].op \in Reads
    BY <1>8 DEF ConfirmTOTP, DisableTOTP, Reads
  <2>2. req[r].profile \in Profiles
    BY <2>1, Shapes DEF IInv
  <2>3. CASE ConfirmTOTP(r)
    BY <2>1, <2>2, <2>3, UpdateCases DEF ConfirmTOTP, Profiles
  <2>4. CASE DisableTOTP(r)
    BY <2>1, <2>2, <2>4, UpdateCases DEF DisableTOTP, Profiles
  <2> QED
    BY <1>8, <2>3, <2>4
<1>9. ASSUME NEW r \in Requests, NEW n \in Names, UpdateUser(r, n)
      PROVE  Passes(r) \/ \E u \in Users, row \in Rows : Writes(r, u, row)
  <2>1. req[r].op = "update" /\ req[r].op \in Reads
    BY <1>9 DEF UpdateUser, Reads
  <2>2. /\ req[r].profile \in Profiles
        /\ req[r].profile.enabled => req[r].profile.secret
    BY <2>1, Shapes DEF IInv, CopyCurrent
  <2> QED
    BY <1>9, <2>1, <2>2, UpdateCases DEF UpdateUser, Profiles
<1>10. ASSUME NEW r \in Requests, Fail(r)
       PROVE  Passes(r)
  <2>1. req[r].op # "idle"
    BY <1>10 DEF Fail, IInv, Typed, Inserts, Stamps, Edits, Rekeys, Reads
  <2> QED
    BY <1>10, <2>1 DEF Fail, Passes
<1> QED
  BY <1>1, <1>2, <1>3, <1>4, <1>5, <1>6, <1>7, <1>8, <1>9, <1>10 DEF Next

-----------------------------------------------------------------------------

LEMMA StepKeeps == IInv /\ [Next]_vars => IInv'
<1> SUFFICES ASSUME IInv, [Next]_vars PROVE IInv'
  OBVIOUS
<1>1. ASSUME NEW r \in Requests, Passes(r) PROVE IInv'
  BY <1>1, KeepKeeps DEF Passes
<1>2. ASSUME NEW r \in Requests, NEW u \in Users, Looks(r, u) PROVE IInv'
  BY <1>2, ReadKeeps DEF Looks
<1>3. ASSUME NEW r \in Requests, NEW u \in Users, Adds(r, u) PROVE IInv'
  BY <1>3, WriteKeeps DEF Adds
<1>4. ASSUME NEW r \in Requests, NEW u \in Users, NEW row \in Rows, Writes(r, u, row)
      PROVE  IInv'
  BY <1>4, WriteKeeps DEF Writes, Changed, Live
<1>5. ASSUME NEW u \in Users, DeleteUser(u) PROVE IInv'
  <2> DEFINE row == [users[u] EXCEPT !.live = FALSE]
  <2>1. users[u] \in Rows /\ users[u] # NoRow
    BY <1>5 DEF DeleteUser, Live, IInv, Typed
  <2>2. row \in Rows /\ row.email = users[u].email /\ row.profile = users[u].profile
    BY <2>1 DEF Rows
  <2>3. /\ users' \in [Users -> Rows \cup {NoRow}]
        /\ stale' \in [Requests -> BOOLEAN]
        /\ SecretThere' /\ Unique(users)'
    BY <1>5, <2>1, <2>2, PutKeeps DEF DeleteUser, IInv, SecretThere
  <2>4. ASSUME NEW q \in Requests, ~stale'[q], req[q].op \in Reads \cup {"password"}
        PROVE  /\ ~stale[q] /\ req[q].id \in Users
               /\ Intact(req[q].op, users[req[q].id], users'[req[q].id])
    BY <1>5, <2>1, <2>2, <2>4, Shapes DEF DeleteUser, IInv, Typed, Put, On, Intact
  <2>5. \A w \in Users : users[w] # NoRow => users'[w] # NoRow
    BY <1>5, <2>1, <2>2, AccountsAssumption DEF DeleteUser, Put, IInv, Typed
  <2>6. CopyCurrent'
    BY <1>5, <2>4, <2>5 DEF DeleteUser, IInv, CopyCurrent, Copying, Verified, Intact
  <2> QED
    BY <1>5, <2>3, <2>6 DEF DeleteUser, IInv, Typed
<1>6. CASE UNCHANGED vars
  BY <1>6 DEF vars, IInv, Typed, SecretThere, Unique, CopyCurrent, Copying, Verified
<1> QED
  BY <1>1, <1>2, <1>3, <1>4, <1>5, <1>6, StepCases

\* The invariant of the users and its requests: emails are unique, the second
\* factor is never enabled without a secret, and what a request relies on is
\* what the row holds unless somebody has changed it since.
THEOREM Invariance == Spec => []IInv
  BY InitIInv, StepKeeps, PTL DEF Spec

\* A state has its types in every execution, and Login finds a secret in every
\* row whose second factor is enabled.
THEOREM TypeCorrect == Spec => []TypeOK
<1>1. IInv => TypeOK
  BY DEF IInv, Typed, SecretThere, TypeOK
<1> QED
  BY <1>1, Invariance, PTL

\* ConfirmTOTP, DisableTOTP and UpdateUser undo what they are not about only
\* when another request has changed just that in the meantime.
THEOREM RaceOnly == Spec => UndoneByRaceOnly
<1> DEFINE Fair(r) ==
       req[r].op \in Reads /\ req'[r] = Idle /\ ~stale[r]
          => Intact(req[r].op, users[req[r].id], users'[req[r].id])
<1>1. ASSUME IInv, [Next]_vars, NEW r \in Requests PROVE Fair(r)
  <2> SUFFICES ASSUME req[r].op \in Reads, req'[r] = Idle, ~stale[r] PROVE Fair(r)
    OBVIOUS
  <2>1. /\ req[r].id \in Users /\ req[r] # Idle
        /\ Intact(req[r].op, users[req[r].id], req[r])
    BY <1>1, Shapes DEF IInv, CopyCurrent, Copying, Idle, Reads
  <2>2. ASSUME NEW q \in Requests, Passes(q) \/ \E u \in Users : Looks(q, u)
        PROVE  users' = users
    BY <2>2 DEF Passes, Looks, Keep, Got
  <2>3. ASSUME NEW q \in Requests, NEW u \in Users, Adds(q, u) PROVE q = r /\ FALSE
    <3>1. q = r
      BY <1>1, <2>1, <2>3 DEF Adds, Do, IInv, Typed
    <3> QED
      BY <2>3, <3>1 DEF Adds, Reads
  <2>4. ASSUME NEW q \in Requests, NEW u \in Users, NEW row \in Rows, Writes(q, u, row)
        PROVE  Fair(r)
    <3>1. q = r
      BY <1>1, <2>1, <2>4 DEF Writes, Do, IInv, Typed
    <3>2. u = req[r].id /\ users'[u] = row /\ Changed(r, users[u], row)
      BY <1>1, <2>4, <3>1 DEF Writes, Put, IInv, Typed
    <3> QED
      BY <2>1, <3>2 DEF Changed, Reads, Intact
  <2>5. ASSUME NEW u \in Users, DeleteUser(u) PROVE FALSE
    BY <2>1, <2>5 DEF DeleteUser
  <2>6. ASSUME users' = users PROVE Fair(r)
    BY <2>1, <2>6 DEF Intact
  <2> QED
    BY <1>1, <2>2, <2>3, <2>4, <2>5, <2>6, StepCases DEF vars
<1>2. IInv /\ [Next]_vars => [\A r \in Requests : Fair(r)]_vars
  BY <1>1
<1> QED
  BY <1>2, Invariance, PTL DEF Spec, UndoneByRaceOnly

\* Nobody's password is changed but by a request that knows it, or by one that
\* knew it when another change of the password overtook it.
THEOREM PasswordEarned == Spec => PasswordChangeEarned
<1> DEFINE Earned(u) == Live(u) /\ users'[u].password # users[u].password =>
          \E r \in Requests :
             /\ req[r].op = "password" /\ req[r].id = u /\ req'[r] = Idle
             /\ users'[u].password = req[r].new
             /\ stale[r] \/ req[r].current = users[u].password
<1>1. ASSUME IInv, [Next]_vars, NEW u \in Users PROVE Earned(u)
  <2> SUFFICES ASSUME Live(u), users'[u].password # users[u].password
               PROVE  Earned(u)
    OBVIOUS
  <2>1. ASSUME NEW r \in Requests, Passes(r) \/ \E w \in Users : Looks(r, w)
        PROVE  FALSE
    BY <2>1 DEF Passes, Looks, Keep, Got
  <2>2. ASSUME NEW r \in Requests, NEW w \in Users, Adds(r, w) PROVE FALSE
    BY <1>1, <2>2 DEF Adds, Put, Live, IInv, Typed
  <2>3. ASSUME NEW r \in Requests, NEW w \in Users, NEW row \in Rows, Writes(r, w, row)
        PROVE  Earned(u)
    <3>1. w = u /\ users'[u] = row
      BY <1>1, <2>3 DEF Writes, Put, IInv, Typed
    <3>2. req[r].op = "password" /\ req[r].id = u /\ row.password = req[r].new
      BY <2>3, <3>1 DEF Writes, Changed
    <3>3. stale[r] \/ req[r].current = users[u].password
      BY <1>1, <3>2 DEF IInv, CopyCurrent, Verified
    <3>4. req'[r] = Idle
      BY <1>1, <2>3 DEF Writes, Do, IInv, Typed
    <3> QED
      BY <3>1, <3>2, <3>3, <3>4
  <2>4. ASSUME NEW w \in Users, DeleteUser(w) PROVE FALSE
    <3>1. w = u /\ users'[u] = [users[u] EXCEPT !.live = FALSE] /\ users[u] \in Rows
      BY <1>1, <2>4 DEF DeleteUser, Put, IInv, Typed, Live
    <3> QED
      BY <3>1 DEF Rows
  <2>5. CASE UNCHANGED vars
    BY <2>5 DEF vars
  <2> QED
    BY <1>1, <2>1, <2>2, <2>3, <2>4, <2>5, StepCases
<1>2. IInv /\ [Next]_vars => [\A u \in Users : Earned(u)]_vars
  BY <1>1
<1> QED
  BY <1>2, Invariance, PTL DEF Spec, PasswordChangeEarned

\* The second factor of an account is switched on by a confirmation of that
\* account and off by a request to disable it; an UpdateUser that writes back the
\* profile it read switches it only if another request has switched it, or
\* changed its secret, since.
SecondFactorEarned ==
    [][\A u \in Users :
          Live(u) /\ users'[u].profile.enabled # users[u].profile.enabled =>
             \E r \in Requests :
                /\ req[r].op \in Reads /\ req[r].id = u /\ req'[r] = Idle
                /\ req[r].op = "confirm" => users'[u].profile.enabled
                /\ req[r].op = "disable" => ~users'[u].profile.enabled
                /\ req[r].op = "update"  => stale[r]]_vars

\* Only the requests that are about the second factor switch it, and an
\* UpdateUser that read the row before another request changed the factor.
THEOREM SecondFactorSafe == Spec => SecondFactorEarned
<1> DEFINE Earned(u) ==
       Live(u) /\ users'[u].profile.enabled # users[u].profile.enabled =>
          \E r \in Requests :
             /\ req[r].op \in Reads /\ req[r].id = u /\ req'[r] = Idle
             /\ req[r].op = "confirm" => users'[u].profile.enabled
             /\ req[r].op = "disable" => ~users'[u].profile.enabled
             /\ req[r].op = "update"  => stale[r]
<1>1. ASSUME IInv, [Next]_vars, NEW u \in Users PROVE Earned(u)
  <2> SUFFICES ASSUME Live(u), users'[u].profile.enabled # users[u].profile.enabled
               PROVE  Earned(u)
    OBVIOUS
  <2>1. ASSUME NEW r \in Requests, Passes(r) \/ \E w \in Users : Looks(r, w)
        PROVE  FALSE
    BY <2>1 DEF Passes, Looks, Keep, Got
  <2>2. ASSUME NEW r \in Requests, NEW w \in Users, Adds(r, w) PROVE FALSE
    BY <1>1, <2>2 DEF Adds, Put, Live, IInv, Typed
  <2>3. ASSUME NEW r \in Requests, NEW w \in Users, NEW row \in Rows, Writes(r, w, row)
        PROVE  Earned(u)
    <3>1. w = u /\ users'[u] = row
      BY <1>1, <2>3 DEF Writes, Put, IInv, Typed
    <3>2. req[r].id = u /\ Changed(r, users[u], row)
      BY <2>3, <3>1 DEF Writes
    <3>3. req[r].op \in Reads
      BY <2>3, <3>1, <3>2 DEF Writes, Changed
    <3>4. req[r].op = "update" => stale[r]
      BY <1>1, <3>1, <3>2, <3>3 DEF Changed, IInv, CopyCurrent, Copying, Intact
    <3>5. req'[r] = Idle
      BY <1>1, <2>3 DEF Writes, Do, IInv, Typed
    <3> QED
      BY <3>1, <3>2, <3>3, <3>4, <3>5 DEF Changed
  <2>4. ASSUME NEW w \in Users, DeleteUser(w) PROVE FALSE
    <3>1. w = u /\ users'[u] = [users[u] EXCEPT !.live = FALSE] /\ users[u] \in Rows
      BY <1>1, <2>4 DEF DeleteUser, Put, IInv, Typed, Live
    <3> QED
      BY <3>1 DEF Rows
  <2>5. CASE UNCHANGED vars
    BY <2>5 DEF vars
  <2> QED
    BY <1>1, <2>1, <2>2, <2>3, <2>4, <2>5, StepCases
<1>2. IInv /\ [Next]_vars => [\A u \in Users : Earned(u)]_vars
  BY <1>1
<1> QED
  BY <1>2, Invariance, PTL DEF Spec, SecondFactorEarned

-----------------------------------------------------------------------------
(* The refinement.                                                         *)

\* RowOf, of any table t.
Has(t, e, u) == t[u] # NoRow /\ t[u].email = e
Rec(row)     == [live |-> row.live, columns |-> <<row.password, row.profile, row.lastLogin>>]
RowIn(t, e)  == IF \E u \in Users : Has(t, e, u)
                THEN Rec(t[CHOOSE u \in Users : Has(t, e, u)])
                ELSE NoRow

\* With unique emails it does not matter which row CHOOSE takes.
LEMMA RowInIs ==
    ASSUME NEW t \in [Users -> Rows \cup {NoRow}], Unique(t),
           NEW e \in Emails, NEW u \in Users, Has(t, e, u)
    PROVE  RowIn(t, e) = Rec(t[u])
<1> DEFINE w == CHOOSE w \in Users : Has(t, e, w)
<1>1. w \in Users /\ Has(t, e, w)
  OBVIOUS
<1>2. w = u
  BY <1>1 DEF Unique, Has
<1> QED
  BY <1>2 DEF RowIn

\* A new row, or a row with its old email, changes the answer for its email only.
LEMMA Replaced ==
    ASSUME NEW t \in [Users -> Rows \cup {NoRow}], Unique(t),
           NEW u \in Users, NEW row \in Rows,
           \/ Has(t, row.email, u)
           \/ t[u] = NoRow /\ \A w \in Users : ~Has(t, row.email, w),
           NEW e \in Emails
    PROVE  RowIn([t EXCEPT ![u] = row], e) =
              IF e = row.email THEN Rec(row) ELSE RowIn(t, e)
<1> DEFINE t2 == [t EXCEPT ![u] = row]
<1>1. t2 \in [Users -> Rows \cup {NoRow}] /\ Unique(t2)
  BY AccountsAssumption DEF Unique, Has
<1>2. CASE e = row.email
  <2>1. Has(t2, e, u) /\ t2[u] = row
    BY <1>2, AccountsAssumption DEF Has
  <2> QED
    BY <1>1, <1>2, <2>1, RowInIs
<1>3. CASE e # row.email
  <2>1. \A w \in Users : Has(t2, e, w) <=> Has(t, e, w)
    BY <1>3, AccountsAssumption DEF Has
  <2>2. CASE \E w \in Users : Has(t, e, w)
    <3>1. PICK w \in Users : Has(t, e, w)
      BY <2>2
    <3>2. t2[w] = t[w]
      BY <1>3, <3>1 DEF Has
    <3> QED
      BY <1>1, <1>3, <2>1, <3>1, <3>2, RowInIs
  <2>3. CASE ~\E w \in Users : Has(t, e, w)
    BY <1>3, <2>1, <2>3 DEF RowIn
  <2> QED
    BY <2>2, <2>3
<1> QED
  BY <1>2, <1>3

LEMMA RowOfIs ==
    ASSUME NEW e \in Emails
    PROVE  RowOf(e) = RowIn(users, e) /\ RowOf(e)' = RowIn(users', e)
<1>1. RowOf(e) = RowIn(users, e)
  BY DEF RowOf, RowIn, Taken, Has, Rec
<1>2. RowOf(e)' = RowIn(users', e)
  BY DEF RowOf, RowIn, Taken, Has, Rec
<1> QED
  BY <1>1, <1>2

\* What Put does to the abstract table.
LEMMA PutMaps ==
    ASSUME IInv, NEW u \in Users, NEW row \in Rows, Put(u, row),
           \/ users[u] # NoRow /\ users[u].email = row.email
           \/ users[u] = NoRow /\ ~Taken(row.email)
    PROVE  /\ [e \in Emails |-> RowOf(e)]' =
                 [[e \in Emails |-> RowOf(e)] EXCEPT ![row.email] = Rec(row)]
           /\ users[u] # NoRow => RowOf(row.email) = Rec(users[u])
           /\ users[u] = NoRow => RowOf(row.email) = NoRow
<1>1. users \in [Users -> Rows \cup {NoRow}] /\ Unique(users)
  BY DEF IInv, Typed
<1>2. row.email \in Emails
  BY DEF Rows
<1>3. \/ Has(users, row.email, u)
      \/ users[u] = NoRow /\ \A w \in Users : ~Has(users, row.email, w)
  BY DEF Has, Taken
<1>4. ASSUME NEW e \in Emails
      PROVE  RowOf(e)' = IF e = row.email THEN Rec(row) ELSE RowOf(e)
  <2>1. users' = [users EXCEPT ![u] = row]
    BY DEF Put
  <2>2. RowIn([users EXCEPT ![u] = row], e) =
           IF e = row.email THEN Rec(row) ELSE RowIn(users, e)
    BY <1>1, <1>3, Replaced
  <2> QED
    BY <2>1, <2>2, RowOfIs
<1>5. users[u] # NoRow => RowOf(row.email) = Rec(users[u])
  BY <1>1, <1>2, <1>3, RowInIs, RowOfIs
<1>6. users[u] = NoRow => RowOf(row.email) = NoRow
  BY <1>2, <1>3, RowOfIs DEF RowIn, Has
<1>7. [e \in Emails |-> RowOf(e)]' = [e \in Emails |-> RowOf(e)']
  OBVIOUS
<1> QED
  BY <1>4, <1>5, <1>6, <1>7

LEMMA RecIs ==
    ASSUME NEW row \in Rows
    PROVE  /\ Rec(row) = Table!Row(row.live, <<row.password, row.profile, row.lastLogin>>)
           /\ <<row.password, row.profile, row.lastLogin>> \in Columns
           /\ Rec(row) # NoRow
  BY AccountsAssumption DEF Rec, Table!Row, Columns, Rows

LEMMA WriteMaps ==
    ASSUME IInv, NEW u \in Users, NEW row \in Rows, Put(u, row),
           Live(u), row.email = users[u].email,
           row.live \/ row = [users[u] EXCEPT !.live = FALSE]
    PROVE  Table!Next
<1> DEFINE c == <<row.password, row.profile, row.lastLogin>>
           k == row.email
<1>1. users[u] \in Rows /\ users[u] # NoRow /\ users[u].live
  BY DEF IInv, Typed, Live
<1>2. k \in Emails
  BY DEF Rows
<1>3. /\ [e \in Emails |-> RowOf(e)]' =
            [[e \in Emails |-> RowOf(e)] EXCEPT ![k] = Rec(row)]
      /\ RowOf(k) = Rec(users[u])
  BY <1>1, PutMaps
<1>4. Table!Live(k)
  <2>1. Rec(users[u]) # NoRow
    BY <1>1, RecIs
  <2>2. Rec(users[u]).live
    BY <1>1 DEF Rec
  <2> QED
    BY <1>2, <1>3, <2>1, <2>2 DEF Table!Live
<1>5. CASE row.live
  <2>1. Rec(row) = Table!Row(TRUE, c) /\ c \in Columns
    BY <1>5, RecIs
  <2>2. Table!Write(k, c)
    BY <1>3, <1>4, <2>1 DEF Table!Write
  <2> QED
    BY <1>2, <2>1, <2>2 DEF Table!Next
<1>6. CASE row = [users[u] EXCEPT !.live = FALSE]
  <2>1. Rec(row) = Table!Row(FALSE, Rec(users[u]).columns)
    BY <1>1, <1>6 DEF Rows, Rec, Table!Row
  <2>2. Table!Delete(k)
    BY <1>2, <1>3, <1>4, <2>1 DEF Table!Delete
  <2> QED
    BY <1>2, <2>2 DEF Table!Next
<1> QED
  BY <1>5, <1>6

\* Whatever requests do to each other, the users are a table with unique emails
\* and soft deletes.
THEOREM TableImplemented == Spec => ImplementsTable
<1>1. Init => Table!Init
  BY DEF Init, Table!Init, RowOf, Taken
<1>2. IInv /\ [Next]_vars => [Table!Next]_([e \in Emails |-> RowOf(e)])
  <2> SUFFICES ASSUME IInv, [Next]_vars
               PROVE  Table!Next \/ UNCHANGED [e \in Emails |-> RowOf(e)]
    OBVIOUS
  <2>1. ASSUME users' = users PROVE UNCHANGED [e \in Emails |-> RowOf(e)]
    BY <2>1, RowOfIs
  <2>2. ASSUME NEW r \in Requests, Passes(r) \/ \E u \in Users : Looks(r, u)
        PROVE  users' = users
    BY <2>2 DEF Passes, Looks, Keep, Got
  <2>3. ASSUME NEW r \in Requests, NEW u \in Users, Adds(r, u) PROVE Table!Next
    <3> DEFINE row == req[r].row
               c   == <<row.password, row.profile, row.lastLogin>>
    <3>1. row \in Rows /\ row.live /\ row.email \in Emails
      BY <2>3 DEF Adds, Rows
    <3>2. /\ [e \in Emails |-> RowOf(e)]' =
                [[e \in Emails |-> RowOf(e)] EXCEPT ![row.email] = Rec(row)]
          /\ RowOf(row.email) = NoRow
      BY <2>3, <3>1, PutMaps DEF Adds
    <3>3. Rec(row) = Table!Row(TRUE, c) /\ c \in Columns
      BY <3>1, RecIs
    <3>4. Table!Insert(row.email, c)
      BY <3>1, <3>2, <3>3 DEF Table!Insert
    <3> QED
      BY <3>1, <3>3, <3>4 DEF Table!Next
  <2>4. ASSUME NEW r \in Requests, NEW u \in Users, NEW row \in Rows, Writes(r, u, row)
        PROVE  Table!Next
    BY <2>4, WriteMaps DEF Writes, Changed
  <2>5. ASSUME NEW u \in Users, DeleteUser(u) PROVE Table!Next
    <3> DEFINE row == [users[u] EXCEPT !.live = FALSE]
    <3>1. row \in Rows /\ row.email = users[u].email
      BY <2>5 DEF DeleteUser, Live, IInv, Typed, Rows
    <3> QED
      BY <2>5, <3>1, WriteMaps DEF DeleteUser
  <2> QED
    BY <2>1, <2>2, <2>3, <2>4, <2>5, StepCases DEF vars
<1> QED
  BY <1>1, <1>2, Invariance, PTL DEF Spec, ImplementsTable, Table!Spec
=============================================================================

--------------------------- MODULE VMAccessProofs ---------------------------
(***************************************************************************)
(* Proofs about VMAccess: the type invariant, the action properties, and   *)
(* that the tables keep the promises of SoftTable and Rights.              *)
(***************************************************************************)
EXTENDS VMAccess, TLAPS

\* No two rows of the table t have the same libvirt id.
Unique(t) == \A v, w \in VMs :
                t[v] # NoRow /\ t[w] # NoRow /\ t[v].libvirtID = t[w].libvirtID => v = w

Updates   == [op : {"update"}, id : VMs, copy : Copies]
ReadBacks == [op : {"readback"}, id : VMs]

Typed ==
    /\ vms \in [VMs -> Rows \cup {NoRow}]
    /\ perms \in [Pairs -> Grants \cup {NoRow}]
    /\ req \in [Requests -> {Idle} \cup Updates \cup ReadBacks]
    /\ stale \in [Requests -> BOOLEAN]

\* A grant refers to a row: rows stay for ever.
Refers == \A p \in Pairs : perms[p] # NoRow => vms[p[2]] # NoRow

\* A copy has the power state of its row until somebody changes that.
CopyCurrent == \A r \in Requests :
    req[r].op = "update" /\ ~stale[r] =>
        vms[req[r].id] # NoRow /\ req[r].copy.power = vms[req[r].id].power

IInv == Typed /\ Refers /\ Unique(vms) /\ CopyCurrent

-----------------------------------------------------------------------------

LEMMA Shapes ==
    ASSUME Typed, NEW r \in Requests
    PROVE  req[r].op = "update" => req[r].id \in VMs /\ req[r].copy \in Copies
  BY DEF Typed, Idle, Updates, ReadBacks

\* What writing a row under its own libvirt id, or under a new one, keeps.
LEMMA PutKeeps ==
    ASSUME IInv, NEW v \in VMs, NEW row \in Rows, Put(v, row),
           \/ vms[v] # NoRow /\ row.libvirtID = vms[v].libvirtID
           \/ ~Taken(row.libvirtID)
    PROVE  /\ vms' \in [VMs -> Rows \cup {NoRow}]
           /\ stale' \in [Requests -> BOOLEAN]
           /\ perms' \in [Pairs -> Grants \cup {NoRow}]
           /\ Refers' /\ Unique(vms)'
           /\ \A q \in Requests : req[q].op = "update" /\ ~stale'[q] =>
                 /\ ~stale[q]
                 /\ vms[req[q].id] # NoRow =>
                       /\ vms'[req[q].id] # NoRow
                       /\ vms'[req[q].id].power = vms[req[q].id].power
<1>1. /\ vms' \in [VMs -> Rows \cup {NoRow}]
      /\ stale' \in [Requests -> BOOLEAN]
      /\ perms' \in [Pairs -> Grants \cup {NoRow}]
  BY DEF IInv, Typed, Put
<1>2. Unique(vms)'
  BY AccessAssumption DEF IInv, Typed, Unique, Put, Taken
<1>3. Refers'
  BY AccessAssumption DEF IInv, Typed, Refers, Put, Pairs
<1>4. ASSUME NEW q \in Requests, req[q].op = "update", ~stale'[q]
      PROVE  /\ ~stale[q]
             /\ vms[req[q].id] # NoRow =>
                   /\ vms'[req[q].id] # NoRow
                   /\ vms'[req[q].id].power = vms[req[q].id].power
  BY <1>4, Shapes, AccessAssumption DEF IInv, Typed, Put, Outdated
<1> QED
  BY <1>1, <1>2, <1>3, <1>4

\* ... by an operation of one query, or by a request that goes on or ends.
LEMMA WriteKeeps ==
    ASSUME IInv, NEW v \in VMs, NEW row \in Rows, Put(v, row),
           \/ vms[v] # NoRow /\ row.libvirtID = vms[v].libvirtID
           \/ ~Taken(row.libvirtID),
           \/ UNCHANGED req
           \/ \E r \in Requests, step \in {Idle} \cup ReadBacks : Do(r, step)
    PROVE  IInv'
<1>1. /\ vms' \in [VMs -> Rows \cup {NoRow}]
      /\ stale' \in [Requests -> BOOLEAN]
      /\ perms' \in [Pairs -> Grants \cup {NoRow}]
      /\ Refers' /\ Unique(vms)'
      /\ \A q \in Requests : req[q].op = "update" /\ ~stale'[q] =>
            /\ ~stale[q]
            /\ vms[req[q].id] # NoRow =>
                  /\ vms'[req[q].id] # NoRow
                  /\ vms'[req[q].id].power = vms[req[q].id].power
  BY PutKeeps
<1>2. Typed' /\ \A q \in Requests : req'[q].op = "update" => req'[q] = req[q]
  <2>1. CASE UNCHANGED req
    BY <1>1, <2>1 DEF IInv, Typed
  <2>2. ASSUME NEW r \in Requests, NEW step \in {Idle} \cup ReadBacks, Do(r, step)
        PROVE  Typed' /\ \A q \in Requests : req'[q].op = "update" => req'[q] = req[q]
    <3>1. step.op # "update"
      BY DEF Idle, ReadBacks
    <3> QED
      BY <1>1, <2>2, <3>1 DEF IInv, Typed, Do
  <2> QED
    BY <2>1, <2>2
<1>3. CopyCurrent'
  BY <1>1, <1>2 DEF IInv, CopyCurrent
<1> QED
  BY <1>1, <1>2, <1>3 DEF IInv

\* A step of a request that leaves the tables alone.
LEMMA KeepKeeps ==
    ASSUME IInv, NEW r \in Requests, Keep, Do(r, Idle)
    PROVE  IInv'
<1>1. Typed'
  BY DEF IInv, Typed, Do, Keep
<1>2. CopyCurrent'
  BY DEF IInv, Typed, CopyCurrent, Do, Keep, Idle
<1> QED
  BY <1>1, <1>2 DEF IInv, Keep, Refers, Unique

LEMMA ReadKeeps ==
    ASSUME IInv, NEW r \in Requests, NEW v \in VMs, ReadVM(r, v)
    PROVE  IInv'
<1> DEFINE step == [op |-> "update", id |-> v, copy |-> Get(v)]
<1>1. step \in Updates /\ vms[v] # NoRow
  BY DEF IInv, Typed, ReadVM, Live, Updates, Get, Rows, Copies
<1>2. ASSUME NEW q \in Requests
      PROVE  /\ req'[q] = IF q = r THEN step ELSE req[q]
             /\ stale'[q] = IF q = r THEN FALSE ELSE stale[q]
  BY DEF IInv, Typed, Do, ReadVM
<1>3. Typed'
  BY <1>1 DEF IInv, Typed, Do, ReadVM
<1>4. step.id = v /\ step.copy.power = vms[v].power
  BY DEF Get
<1>5. CopyCurrent'
  BY <1>1, <1>2, <1>4 DEF IInv, CopyCurrent, ReadVM
<1> QED
  BY <1>3, <1>5 DEF IInv, ReadVM, Refers, Unique

\* The steps of PermissionService, and of the clock.
LEMMA GrantsKeep ==
    ASSUME IInv, UNCHANGED <<vms, req, stale>>,
           perms' \in [Pairs -> Grants \cup {NoRow}],
           \A p \in Pairs : perms'[p] # NoRow => perms[p] # NoRow \/ vms[p[2]] # NoRow
    PROVE  IInv'
<1>1. Typed' /\ Refers'
  BY DEF IInv, Typed, Refers
<1> QED
  BY <1>1 DEF IInv, Unique, CopyCurrent

\* Ticked, of any grants.
Ticked(g) == IF g # NoRow /\ g.left \in 1 .. MaxLeft
             THEN [g EXCEPT !.left = @ - 1] ELSE g

LEMMA TickIs ==
    ASSUME IInv, Tick, NEW p \in Pairs
    PROVE  /\ perms'[p] = Ticked(perms[p])
           /\ perms[p] \in Grants \cup {NoRow}
           /\ Ticked(perms[p]) \in Grants \cup {NoRow}
           /\ Ticked(perms[p]) # NoRow <=> perms[p] # NoRow
<1>1. perms'[p] = Ticked(perms[p]) /\ perms[p] \in Grants \cup {NoRow}
  BY DEF IInv, Typed, Tick, Ticked
<1>2. ASSUME NEW g \in Grants
      PROVE  Ticked(g) \in Grants
  BY AccessAssumption DEF Ticked, Grants, Never
<1> QED
  BY <1>1, <1>2, AccessAssumption DEF Ticked

LEMMA GrantStepsKeep ==
    ASSUME IInv
    PROVE  /\ \A p \in Pairs, level \in Levels, left \in 0 .. Never :
                 GrantAccess(p, level, left) => IInv'
           /\ \A p \in Pairs : RevokeAccess(p) => IInv'
           /\ Tick => IInv'
<1>1. ASSUME NEW p \in Pairs, NEW level \in Levels, NEW left \in 0 .. Never,
             GrantAccess(p, level, left)
      PROVE  IInv'
  <2>1. [level |-> level, left |-> left] \in Grants
    BY DEF Grants
  <2> QED
    BY <1>1, <2>1, GrantsKeep DEF GrantAccess, IInv, Typed
<1>2. ASSUME NEW p \in Pairs, RevokeAccess(p) PROVE IInv'
  BY <1>2, GrantsKeep DEF RevokeAccess, IInv, Typed
<1>3. ASSUME Tick PROVE IInv'
  <2>1. perms' \in [Pairs -> Grants \cup {NoRow}]
    <3>1. perms' = [p \in Pairs |-> Ticked(perms[p])]
      BY <1>3 DEF Tick, Ticked
    <3> QED
      BY <1>3, <3>1, TickIs
  <2>2. ASSUME NEW p \in Pairs, perms'[p] # NoRow PROVE perms[p] # NoRow
    BY <1>3, <2>2, TickIs
  <2> QED
    BY <1>3, <2>1, <2>2, GrantsKeep DEF Tick
<1> QED
  BY <1>1, <1>2, <1>3

-----------------------------------------------------------------------------

\* What a step does to the table of VMs.
Adds(v, row)   == /\ row \in Rows /\ row.live /\ vms[v] = NoRow
                  /\ ~Taken(row.libvirtID) /\ Put(v, row) /\ UNCHANGED req
Writes(v, row) == /\ row \in Rows /\ Live(v) /\ row.libvirtID = vms[v].libvirtID
                  /\ Put(v, row)
                  /\ row.live \/ row = [vms[v] EXCEPT !.live = FALSE]
                  /\ \/ UNCHANGED req
                     \/ \E r \in Requests, step \in {Idle} \cup ReadBacks : Do(r, step)

\* The steps of VMService.
LEMMA StepCases ==
    ASSUME IInv, Next
    PROVE  \/ \E v \in VMs, row \in Rows : Adds(v, row) \/ Writes(v, row)
           \/ \E r \in Requests : \/ Keep /\ Do(r, Idle)
                                  \/ \E v \in VMs : ReadVM(r, v)
           \/ \E p \in Pairs : \/ \E level \in Levels, left \in 0 .. Never :
                                      GrantAccess(p, level, left)
                               \/ RevokeAccess(p)
           \/ Tick
<1>1. ASSUME NEW v \in VMs, NEW l \in LibvirtIDs, NEW c \in Configs, CreateVM(v, l, c)
      PROVE  \E row \in Rows : Adds(v, row)
  <2> DEFINE row == [live |-> TRUE, libvirtID |-> l, config |-> c, power |-> Stopped]
  <2>1. row \in Rows
    BY AccessAssumption DEF Rows
  <2>2. Adds(v, row)
    BY <1>1, <2>1 DEF CreateVM, Adds
  <2> QED
    BY <2>1, <2>2
<1>2. ASSUME NEW v \in VMs, DeleteVM(v) PROVE \E row \in Rows : Writes(v, row)
  <2> DEFINE row == [vms[v] EXCEPT !.live = FALSE]
  <2>1. row \in Rows /\ row.libvirtID = vms[v].libvirtID
    BY <1>2 DEF DeleteVM, Live, IInv, Typed, Rows
  <2>2. Writes(v, row)
    BY <1>2, <2>1 DEF DeleteVM, Writes
  <2> QED
    BY <2>1, <2>2
<1>3. ASSUME NEW r \in Requests, NEW v \in VMs, NEW s \in Powers, UpdatePowerState(r, v, s)
      PROVE  \E row \in Rows : Writes(v, row)
  <2> DEFINE row == [vms[v] EXCEPT !.power = s]
  <2>1. row \in Rows /\ row.libvirtID = vms[v].libvirtID /\ row.live
    BY <1>3 DEF UpdatePowerState, Live, IInv, Typed, Rows
  <2>2. [op |-> "readback", id |-> v] \in ReadBacks
    BY DEF ReadBacks
  <2>3. Writes(v, row)
    BY <1>3, <2>1, <2>2 DEF UpdatePowerState, Writes
  <2> QED
    BY <2>1, <2>3
<1>4. ASSUME NEW r \in Requests, NEW c \in Configs, UpdateVM(r, c)
      PROVE  (Keep /\ Do(r, Idle)) \/ \E v \in VMs, row \in Rows : Writes(v, row)
  <2> DEFINE v   == req[r].id
             row == [vms[v] EXCEPT !.config = c, !.power = req[r].copy.power]
  <2>1. v \in VMs /\ req[r].copy.power \in Powers
    BY <1>4, Shapes DEF UpdateVM, IInv, Copies
  <2>2. CASE Live(v)
    <3>1. row \in Rows /\ row.libvirtID = vms[v].libvirtID /\ row.live
      BY <2>1, <2>2 DEF Live, IInv, Typed, Rows
    <3>2. Writes(v, row)
      BY <1>4, <2>2, <3>1 DEF UpdateVM, Writes
    <3> QED
      BY <2>1, <3>1, <3>2
  <2> QED
    BY <1>4, <2>2 DEF UpdateVM
<1> QED
  BY <1>1, <1>2, <1>3, <1>4 DEF Next, ReadBack, Fail

LEMMA InitIInv == Init => IInv
  BY DEF Init, IInv, Typed, Refers, Unique, CopyCurrent, Idle

LEMMA StepKeeps == IInv /\ [Next]_vars => IInv'
<1>1. ASSUME IInv, NEW v \in VMs, NEW row \in Rows, Adds(v, row) \/ Writes(v, row)
      PROVE  IInv'
  BY <1>1, WriteKeeps DEF Adds, Writes, Live
<1>2. ASSUME IInv, UNCHANGED vars PROVE IInv'
  BY <1>2 DEF vars, IInv, Typed, Refers, Unique, CopyCurrent
<1> QED
  BY <1>1, <1>2, StepCases, KeepKeeps, ReadKeeps, GrantStepsKeep

\* The invariant: libvirt ids are unique, grants refer to rows, and a copy has
\* the power state of its row until somebody changes that.
THEOREM Invariance == Spec => []IInv
  BY InitIInv, StepKeeps, PTL DEF Spec

\* A state has its types in every execution.
THEOREM TypeCorrect == Spec => []TypeOK
<1>1. IInv => TypeOK
  BY DEF IInv, Typed, Refers, TypeOK, Updates, ReadBacks
<1> QED
  BY <1>1, Invariance, PTL

\* UpdateVM changes the power state only if another request changed it since.
THEOREM RaceOnly == Spec => PowerUndoneByRaceOnly
<1> DEFINE Kept(r) == req[r].op = "update" /\ req'[r] = Idle /\ ~stale[r]
                      => vms'[req[r].id].power = vms[req[r].id].power
<1>1. ASSUME IInv, [Next]_vars, NEW r \in Requests PROVE Kept(r)
  <2> SUFFICES ASSUME req[r].op = "update", req'[r] = Idle, ~stale[r]
               PROVE  vms'[req[r].id].power = vms[req[r].id].power
    OBVIOUS
  <2>1. /\ req[r].id \in VMs /\ vms[req[r].id] \in Rows
        /\ req[r].copy.power = vms[req[r].id].power
    BY <1>1, Shapes DEF IInv, Typed, CopyCurrent
  <2>2. req'[r] # req[r]
    BY <1>1 DEF Idle
  <2>3. ASSUME NEW q \in Requests, q # r, NEW step, Do(q, step)
        PROVE  FALSE
    BY <1>1, <2>2, <2>3 DEF Do, IInv, Typed
  <2>4. ASSUME NEW q \in Requests, NEW c \in Configs, UpdateVM(q, c)
        PROVE  vms'[req[r].id].power = vms[req[r].id].power
    <3>1. q = r
      BY <2>3, <2>4 DEF UpdateVM
    <3> QED
      BY <1>1, <2>1, <2>4, <3>1 DEF UpdateVM, Put, Keep, IInv, Typed, Rows
  <2>5. ASSUME NEW q \in Requests, ReadBack(q) \/ Fail(q)
        PROVE  vms'[req[r].id].power = vms[req[r].id].power
    BY <2>5 DEF ReadBack, Fail, Keep
  <2>6. ASSUME NEW q \in Requests, NEW v \in VMs,
               ReadVM(q, v) \/ \E s \in Powers : UpdatePowerState(q, v, s)
        PROVE  FALSE
    <3>1. q # r
      BY <1>1, <2>2, <2>6 DEF ReadVM, UpdatePowerState
    <3>2. PICK step : Do(q, step)
      BY <2>6 DEF ReadVM, UpdatePowerState
    <3> QED
      BY <2>3, <3>1, <3>2
  <2>7. ASSUME NEW v \in VMs,
               \/ \E l \in LibvirtIDs, c \in Configs : CreateVM(v, l, c)
               \/ DeleteVM(v)
        PROVE  FALSE
    BY <2>2, <2>7 DEF CreateVM, DeleteVM
  <2>8. ASSUME \/ \E p \in Pairs :
                     \/ \E level \in Levels, left \in 0 .. Never : GrantAccess(p, level, left)
                     \/ RevokeAccess(p)
               \/ Tick
        PROVE  FALSE
    BY <2>2, <2>8 DEF GrantAccess, RevokeAccess, Tick
  <2>9. CASE UNCHANGED vars
    BY <2>9 DEF vars
  <2>10. CASE Next
    <3>1. \/ \E q \in Requests : \/ \E c \in Configs : UpdateVM(q, c)
                                 \/ ReadBack(q) \/ Fail(q)
      BY <2>6, <2>7, <2>8, <2>10 DEF Next
    <3> QED
      BY <2>4, <2>5, <3>1
  <2> QED
    BY <1>1, <2>9, <2>10
<1>2. IInv /\ [Next]_vars => [\A r \in Requests : Kept(r)]_vars
  BY <1>1
<1> QED
  BY <1>2, Invariance, PTL DEF Spec, PowerUndoneByRaceOnly

\* A user gets a right by a grant only, and a grant that has expired is in the
\* way of the next one until it is revoked; the user keeps the right until it is
\* revoked or has its last tick, whatever becomes of the VM.
AccessChangeEarned ==
    [][\A p \in Pairs, level \in Levels :
          /\ ~CheckAccess(p, level) /\ CheckAccess(p, level)' => perms[p] = NoRow
          /\ CheckAccess(p, level) /\ ~CheckAccess(p, level)'
             => perms'[p] = NoRow \/ perms[p].left = 1]_vars

\* Rights come by a grant to a pair without a row, and go by a revocation or in time.
THEOREM AccessSafe == Spec => AccessChangeEarned
<1> DEFINE Earned(p, level) ==
       /\ ~CheckAccess(p, level) /\ CheckAccess(p, level)' => perms[p] = NoRow
       /\ CheckAccess(p, level) /\ ~CheckAccess(p, level)'
          => perms'[p] = NoRow \/ perms[p].left = 1
<1>1. ASSUME IInv, [Next]_vars, NEW p \in Pairs, NEW level \in Levels
      PROVE  Earned(p, level)
  <2>1. ASSUME perms'[p] = perms[p] PROVE Earned(p, level)
    BY <2>1 DEF CheckAccess, InForce
  <2>2. ASSUME NEW q \in Pairs, NEW l \in Levels, NEW left \in 0 .. Never,
               GrantAccess(q, l, left)
        PROVE  Earned(p, level)
    <3>1. CASE q = p
      BY <2>2, <3>1 DEF GrantAccess, CheckAccess, InForce
    <3>2. CASE q # p
      BY <1>1, <2>1, <2>2, <3>2 DEF GrantAccess, IInv, Typed
    <3> QED
      BY <3>1, <3>2
  <2>3. ASSUME NEW q \in Pairs, RevokeAccess(q) PROVE Earned(p, level)
    <3>1. CASE q = p
      BY <1>1, <2>3, <3>1 DEF RevokeAccess, CheckAccess, InForce, IInv, Typed
    <3>2. CASE q # p
      BY <1>1, <2>1, <2>3, <3>2 DEF RevokeAccess, IInv, Typed
    <3> QED
      BY <3>1, <3>2
  <2>4. CASE Tick
    <3>1. /\ perms'[p] = Ticked(perms[p])
          /\ perms[p] \in Grants \cup {NoRow} /\ perms'[p] # NoRow <=> perms[p] # NoRow
      BY <1>1, <2>4, TickIs
    <3>2. CASE perms[p] # NoRow /\ perms[p].left \in 1 .. MaxLeft
      <4>1. /\ perms'[p].level = perms[p].level
            /\ perms'[p].left = perms[p].left - 1
        BY <3>1, <3>2 DEF Ticked, Grants
      <4>2. perms'[p] # NoRow /\ perms[p].left > 0
        BY <3>1, <3>2, AccessAssumption
      <4>3. perms'[p].left > 0 \/ perms[p].left = 1
        BY <3>2, <4>1, AccessAssumption
      <4> QED
        BY <3>2, <4>1, <4>2, <4>3 DEF CheckAccess, InForce
    <3>3. CASE ~(perms[p] # NoRow /\ perms[p].left \in 1 .. MaxLeft)
      BY <2>1, <3>1, <3>3 DEF Ticked
    <3> QED
      BY <3>2, <3>3
  <2>5. ASSUME \/ \E v \in VMs, row \in Rows : Adds(v, row) \/ Writes(v, row)
               \/ Keep \/ \E r \in Requests, v \in VMs : ReadVM(r, v)
               \/ UNCHANGED vars
        PROVE  perms'[p] = perms[p]
    BY <2>5 DEF Adds, Writes, Put, Keep, ReadVM, vars
  <2> QED
    BY <1>1, <2>1, <2>2, <2>3, <2>4, <2>5, StepCases
<1>2. IInv /\ [Next]_vars => [\A p \in Pairs, level \in Levels : Earned(p, level)]_vars
  BY <1>1
<1> QED
  BY <1>2, Invariance, PTL DEF Spec, AccessChangeEarned

-----------------------------------------------------------------------------
(* The table of VMs.                                                       *)

\* RowOf, of any table t.
Has(t, l, v) == t[v] # NoRow /\ t[v].libvirtID = l
Rec(row)     == [live |-> row.live, columns |-> <<row.config, row.power>>]
RowIn(t, l)  == IF \E v \in VMs : Has(t, l, v)
                THEN Rec(t[CHOOSE v \in VMs : Has(t, l, v)])
                ELSE NoRow

\* With unique ids it does not matter which row CHOOSE takes.
LEMMA RowInIs ==
    ASSUME NEW t \in [VMs -> Rows \cup {NoRow}], Unique(t),
           NEW l \in LibvirtIDs, NEW v \in VMs, Has(t, l, v)
    PROVE  RowIn(t, l) = Rec(t[v])
<1> DEFINE w == CHOOSE w \in VMs : Has(t, l, w)
<1>1. w \in VMs /\ Has(t, l, w)
  OBVIOUS
<1>2. w = v
  BY <1>1 DEF Unique, Has
<1> QED
  BY <1>2 DEF RowIn

\* A new row, or a row with its old id, changes the answer for its id only.
LEMMA Replaced ==
    ASSUME NEW t \in [VMs -> Rows \cup {NoRow}], Unique(t),
           NEW v \in VMs, NEW row \in Rows,
           \/ Has(t, row.libvirtID, v)
           \/ t[v] = NoRow /\ \A w \in VMs : ~Has(t, row.libvirtID, w),
           NEW l \in LibvirtIDs
    PROVE  RowIn([t EXCEPT ![v] = row], l) =
              IF l = row.libvirtID THEN Rec(row) ELSE RowIn(t, l)
<1> DEFINE t2 == [t EXCEPT ![v] = row]
<1>1. t2 \in [VMs -> Rows \cup {NoRow}] /\ Unique(t2)
  BY AccessAssumption DEF Unique, Has
<1>2. CASE l = row.libvirtID
  <2>1. Has(t2, l, v) /\ t2[v] = row
    BY <1>2, AccessAssumption DEF Has
  <2> QED
    BY <1>1, <1>2, <2>1, RowInIs
<1>3. CASE l # row.libvirtID
  <2>1. \A w \in VMs : Has(t2, l, w) <=> Has(t, l, w)
    BY <1>3, AccessAssumption DEF Has
  <2>2. CASE \E w \in VMs : Has(t, l, w)
    <3>1. PICK w \in VMs : Has(t, l, w)
      BY <2>2
    <3>2. t2[w] = t[w]
      BY <1>3, <3>1 DEF Has
    <3> QED
      BY <1>1, <1>3, <2>1, <3>1, <3>2, RowInIs
  <2>3. CASE ~\E w \in VMs : Has(t, l, w)
    BY <1>3, <2>1, <2>3 DEF RowIn
  <2> QED
    BY <2>2, <2>3
<1> QED
  BY <1>2, <1>3

LEMMA RowOfIs ==
    ASSUME NEW l \in LibvirtIDs
    PROVE  RowOf(l) = RowIn(vms, l) /\ RowOf(l)' = RowIn(vms', l)
<1>1. RowOf(l) = RowIn(vms, l)
  BY DEF RowOf, RowIn, Taken, Has, Rec
<1>2. RowOf(l)' = RowIn(vms', l)
  BY DEF RowOf, RowIn, Taken, Has, Rec
<1> QED
  BY <1>1, <1>2

\* What Put does to the abstract table.
LEMMA PutMaps ==
    ASSUME IInv, NEW v \in VMs, NEW row \in Rows, Put(v, row),
           \/ vms[v] # NoRow /\ vms[v].libvirtID = row.libvirtID
           \/ vms[v] = NoRow /\ ~Taken(row.libvirtID)
    PROVE  /\ [l \in LibvirtIDs |-> RowOf(l)]' =
                 [[l \in LibvirtIDs |-> RowOf(l)] EXCEPT ![row.libvirtID] = Rec(row)]
           /\ vms[v] # NoRow => RowOf(row.libvirtID) = Rec(vms[v])
           /\ vms[v] = NoRow => RowOf(row.libvirtID) = NoRow
<1>1. vms \in [VMs -> Rows \cup {NoRow}] /\ Unique(vms)
  BY DEF IInv, Typed
<1>2. row.libvirtID \in LibvirtIDs
  BY DEF Rows
<1>3. \/ Has(vms, row.libvirtID, v)
      \/ vms[v] = NoRow /\ \A w \in VMs : ~Has(vms, row.libvirtID, w)
  BY DEF Has, Taken
<1>4. ASSUME NEW l \in LibvirtIDs
      PROVE  RowOf(l)' = IF l = row.libvirtID THEN Rec(row) ELSE RowOf(l)
  <2>1. vms' = [vms EXCEPT ![v] = row]
    BY DEF Put
  <2>2. RowIn([vms EXCEPT ![v] = row], l) =
           IF l = row.libvirtID THEN Rec(row) ELSE RowIn(vms, l)
    BY <1>1, <1>3, Replaced
  <2> QED
    BY <2>1, <2>2, RowOfIs
<1>5. vms[v] # NoRow => RowOf(row.libvirtID) = Rec(vms[v])
  BY <1>1, <1>2, <1>3, RowInIs, RowOfIs
<1>6. vms[v] = NoRow => RowOf(row.libvirtID) = NoRow
  BY <1>2, <1>3, RowOfIs DEF RowIn, Has
<1>7. [l \in LibvirtIDs |-> RowOf(l)]' = [l \in LibvirtIDs |-> RowOf(l)']
  OBVIOUS
<1> QED
  BY <1>4, <1>5, <1>6, <1>7

LEMMA RecIs ==
    ASSUME NEW row \in Rows
    PROVE  /\ Rec(row) = Table!Row(row.live, <<row.config, row.power>>)
           /\ <<row.config, row.power>> \in Configs \X Powers
           /\ Rec(row) # NoRow
  BY AccessAssumption DEF Rec, Table!Row, Rows

LEMMA AddMaps ==
    ASSUME IInv, NEW v \in VMs, NEW row \in Rows, Adds(v, row)
    PROVE  Table!Next
<1> DEFINE c == <<row.config, row.power>>
<1>1. row.live /\ row.libvirtID \in LibvirtIDs
  BY DEF Adds, Rows
<1>2. /\ [l \in LibvirtIDs |-> RowOf(l)]' =
            [[l \in LibvirtIDs |-> RowOf(l)] EXCEPT ![row.libvirtID] = Rec(row)]
      /\ RowOf(row.libvirtID) = NoRow
  BY PutMaps DEF Adds
<1>3. Rec(row) = Table!Row(TRUE, c) /\ c \in Configs \X Powers
  BY <1>1, RecIs
<1>4. Table!Insert(row.libvirtID, c)
  BY <1>1, <1>2, <1>3 DEF Table!Insert
<1> QED
  BY <1>1, <1>3, <1>4 DEF Table!Next

LEMMA WriteMaps ==
    ASSUME IInv, NEW v \in VMs, NEW row \in Rows, Writes(v, row)
    PROVE  Table!Next
<1> DEFINE c == <<row.config, row.power>>
           k == row.libvirtID
<1>1. vms[v] \in Rows /\ vms[v] # NoRow /\ vms[v].live
  BY DEF Writes, IInv, Typed, Live
<1>2. k \in LibvirtIDs
  BY DEF Rows
<1>3. /\ [l \in LibvirtIDs |-> RowOf(l)]' =
            [[l \in LibvirtIDs |-> RowOf(l)] EXCEPT ![k] = Rec(row)]
      /\ RowOf(k) = Rec(vms[v])
  BY <1>1, PutMaps DEF Writes
<1>4. Table!Live(k)
  <2>1. Rec(vms[v]) # NoRow
    BY <1>1, RecIs
  <2>2. Rec(vms[v]).live
    BY <1>1 DEF Rec
  <2> QED
    BY <1>2, <1>3, <2>1, <2>2 DEF Table!Live
<1>5. CASE row.live
  <2>1. Rec(row) = Table!Row(TRUE, c) /\ c \in Configs \X Powers
    BY <1>5, RecIs
  <2>2. Table!Write(k, c)
    BY <1>3, <1>4, <2>1 DEF Table!Write
  <2> QED
    BY <1>2, <2>1, <2>2 DEF Table!Next
<1>6. CASE row = [vms[v] EXCEPT !.live = FALSE]
  <2>1. Rec(row) = Table!Row(FALSE, Rec(vms[v]).columns)
    BY <1>1, <1>6 DEF Rows, Rec, Table!Row
  <2>2. Table!Delete(k)
    BY <1>2, <1>3, <1>4, <2>1 DEF Table!Delete
  <2> QED
    BY <1>2, <2>2 DEF Table!Next
<1> QED
  BY <1>5, <1>6 DEF Writes

LEMMA TableStep ==
    IInv /\ [Next]_vars => [Table!Next]_([l \in LibvirtIDs |-> RowOf(l)])
<1> SUFFICES ASSUME IInv, [Next]_vars
             PROVE  Table!Next \/ UNCHANGED [l \in LibvirtIDs |-> RowOf(l)]
  OBVIOUS
<1>1. ASSUME vms' = vms PROVE UNCHANGED [l \in LibvirtIDs |-> RowOf(l)]
  BY <1>1, RowOfIs
<1>2. ASSUME NEW r \in Requests, Keep \/ \E v \in VMs : ReadVM(r, v)
      PROVE  vms' = vms
  BY <1>2 DEF ReadVM, Keep
<1>3. ASSUME NEW p \in Pairs,
             \/ \E level \in Levels, left \in 0 .. Never : GrantAccess(p, level, left)
             \/ RevokeAccess(p)
      PROVE  vms' = vms
  BY <1>3 DEF GrantAccess, RevokeAccess
<1>4. CASE Tick \/ UNCHANGED vars
  BY <1>1, <1>4 DEF Tick, vars
<1> QED
  BY <1>1, <1>2, <1>3, <1>4, StepCases, AddMaps, WriteMaps

-----------------------------------------------------------------------------
(* The rights.                                                             *)

\* RightOf, of any grant or of none.
Right(g) == LET on == g # NoRow /\ g.left > 0
            IN  [may  |-> {level \in Levels : on /\ Rank[g.level] >= Rank[level]},
                 left |-> IF on THEN g.left ELSE 0]

LEMMA RightOfIs ==
    ASSUME NEW p \in Pairs
    PROVE  RightOf(p) = Right(perms[p]) /\ RightOf(p)' = Right(perms'[p])
<1>1. RightOf(p) = Right(perms[p])
  BY DEF RightOf, Right, CheckAccess, InForce
<1>2. RightOf(p)' = Right(perms'[p])
  BY DEF RightOf, Right, CheckAccess, InForce
<1> QED
  BY <1>1, <1>2

\* A grant in force is a right at its level; one that has ended is none.
LEMMA RightIs ==
    /\ Right(NoRow) = Ledger!None
    /\ \A g \in Grants :
          Right(g) = IF g.left > 0 THEN [may |-> Ledger!Within(g.level), left |-> g.left]
                     ELSE Ledger!None
<1>1. Right(NoRow) = Ledger!None
  BY DEF Right, Ledger!None
<1>2. ASSUME NEW g \in Grants
      PROVE  Right(g) = IF g.left > 0
                        THEN [may |-> Ledger!Within(g.level), left |-> g.left]
                        ELSE Ledger!None
  <2>1. g # NoRow /\ g.level \in Levels /\ g.left \in Nat
    BY AccessAssumption DEF Grants, Never
  <2>2. {level \in Levels : Rank[g.level] >= Rank[level]} = Ledger!Within(g.level)
    <3>1. CASE g.level = "view"
      BY <3>1 DEF Levels, Rank, Ledger!Within, Ledger!Levels
    <3>2. CASE g.level = "control"
      BY <3>2 DEF Levels, Rank, Ledger!Within, Ledger!Levels
    <3>3. CASE g.level = "admin"
      BY <3>3 DEF Levels, Rank, Ledger!Within, Ledger!Levels
    <3> QED
      BY <2>1, <3>1, <3>2, <3>3 DEF Levels
  <2> QED
    BY <2>1, <2>2 DEF Right, Ledger!None
<1> QED
  BY <1>1, <1>2

LEMMA TickMaps ==
    ASSUME NEW g \in Grants \cup {NoRow}
    PROVE  Right(Ticked(g)) = Ledger!After(Right(g))
<1>1. CASE g = NoRow
  BY <1>1, RightIs, AccessAssumption DEF Ticked, Ledger!After, Ledger!None, Never
<1>2. CASE g \in Grants
  <2>1. /\ g # NoRow /\ g.left \in 0 .. Never
        /\ Ticked(g) = IF g.left \in 1 .. MaxLeft
                       THEN [level |-> g.level, left |-> g.left - 1] ELSE g
    BY <1>2, AccessAssumption DEF Grants, Ticked
  <2>2. CASE g.left \in 1 .. MaxLeft
    <3>1. Ticked(g) \in Grants /\ Ticked(g).level = g.level /\ Ticked(g).left = g.left - 1
      BY <1>2, <2>1, <2>2, AccessAssumption DEF Grants, Never
    <3>2. Right(g) = [may |-> Ledger!Within(g.level), left |-> g.left]
      BY <1>2, <2>2, RightIs, AccessAssumption
    <3>3. Right(Ticked(g)) = IF g.left - 1 > 0
                             THEN [may |-> Ledger!Within(g.level), left |-> g.left - 1]
                             ELSE Ledger!None
      BY <3>1, RightIs
    <3>4. g.left \in Nat /\ g.left # Never /\ g.left > 0
      BY <2>2, AccessAssumption DEF Never
    <3>5. Ledger!After(Right(g)) = IF g.left = 1 THEN Ledger!None
                                   ELSE [Right(g) EXCEPT !.left = g.left - 1]
      BY <3>2, <3>4 DEF Ledger!After
    <3>6. [Right(g) EXCEPT !.left = g.left - 1] =
             [may |-> Ledger!Within(g.level), left |-> g.left - 1]
      BY <3>2
    <3>7. CASE g.left = 1
      BY <3>3, <3>5, <3>7
    <3>8. CASE g.left # 1
      <4>1. g.left - 1 > 0 /\ g.left # 1
        BY <3>4, <3>8
      <4> QED
        BY <3>3, <3>5, <3>6, <4>1
    <3> QED
      BY <3>7, <3>8
  <2>3. CASE g.left = 0
    BY <1>2, <2>1, <2>3, RightIs, AccessAssumption DEF Ledger!After, Ledger!None, Never
  <2>4. CASE g.left = Never
    <3>1. Right(g) = [may |-> Ledger!Within(g.level), left |-> Never]
      BY <1>2, <2>4, RightIs, AccessAssumption DEF Never
    <3>2. Ledger!After(Right(g)) = Right(g)
      BY <3>1 DEF Ledger!After
    <3>3. g.left \notin 1 .. MaxLeft
      BY <2>4, AccessAssumption DEF Never
    <3> QED
      BY <2>1, <3>2, <3>3
  <2> QED
    BY <2>1, <2>2, <2>3, <2>4, AccessAssumption DEF Never
<1> QED
  BY <1>1, <1>2

LEMMA LedgerStep ==
    IInv /\ [Next]_vars => [Ledger!Next]_([p \in Pairs |-> RightOf(p)])
<1> SUFFICES ASSUME IInv, [Next]_vars
             PROVE  Ledger!Next \/ UNCHANGED [p \in Pairs |-> RightOf(p)]
  OBVIOUS
<1>1. ASSUME perms' = perms PROVE UNCHANGED [p \in Pairs |-> RightOf(p)]
  BY <1>1, RightOfIs
<1>2. ASSUME NEW p \in Pairs, NEW level \in Levels, NEW left \in 0 .. Never,
             GrantAccess(p, level, left)
      PROVE  Ledger!Next \/ UNCHANGED [q \in Pairs |-> RightOf(q)]
  <2> DEFINE g == [level |-> level, left |-> left]
  <2>1. g \in Grants /\ left \in Nat
    BY AccessAssumption DEF Grants, Never
  <2>2. ASSUME NEW q \in Pairs
        PROVE  perms'[q] = IF q = p THEN g ELSE perms[q]
    BY <1>2 DEF GrantAccess, IInv, Typed
  <2>3. RightOf(p) = Ledger!None
    BY <1>2, RightOfIs, RightIs DEF GrantAccess
  <2>4. [q \in Pairs |-> RightOf(q)]' = [[q \in Pairs |-> RightOf(q)] EXCEPT ![p] = Right(g)]
    BY <2>2, RightOfIs
  <2>5. CASE left > 0
    <3>1. Right(g) = [may |-> Ledger!Within(level), left |-> left]
      BY <2>1, <2>5, RightIs
    <3>2. Ledger!Give(p, level, left)
      BY <2>3, <2>4, <2>5, <3>1 DEF Ledger!Give
    <3>3. level \in Ledger!Levels /\ left \in 1 .. Never
      BY <2>1, <2>5, AccessAssumption DEF Levels, Ledger!Levels, Never
    <3> QED
      BY <3>2, <3>3 DEF Ledger!Next
  <2>6. CASE left = 0
    <3>1. Right(g) = RightOf(p)
      BY <2>1, <2>3, <2>6, RightIs
    <3> QED
      BY <2>4, <3>1
  <2> QED
    BY <2>1, <2>5, <2>6
<1>3. ASSUME NEW p \in Pairs, RevokeAccess(p)
      PROVE  Ledger!Next
  <2>1. ASSUME NEW q \in Pairs
        PROVE  perms'[q] = IF q = p THEN NoRow ELSE perms[q]
    BY <1>3 DEF RevokeAccess, IInv, Typed
  <2>2. [q \in Pairs |-> RightOf(q)]' =
           [[q \in Pairs |-> RightOf(q)] EXCEPT ![p] = Ledger!None]
    BY <2>1, RightOfIs, RightIs
  <2> QED
    BY <2>2 DEF Ledger!Take, Ledger!Next
<1>4. CASE Tick
  <2>1. ASSUME NEW p \in Pairs
        PROVE  RightOf(p)' = Ledger!After(RightOf(p))
    BY <1>4, <2>1, RightOfIs, TickIs, TickMaps
  <2>2. Ledger!Tick
    BY <2>1 DEF Ledger!Tick
  <2> QED
    BY <2>2 DEF Ledger!Next
<1>5. ASSUME NEW v \in VMs, NEW row \in Rows, Adds(v, row) \/ Writes(v, row)
      PROVE  perms' = perms
  BY <1>5 DEF Adds, Writes, Put
<1>6. ASSUME NEW r \in Requests, Keep \/ \E v \in VMs : ReadVM(r, v)
      PROVE  perms' = perms
  BY <1>6 DEF ReadVM, Keep
<1>7. CASE UNCHANGED vars
  BY <1>1, <1>7 DEF vars
<1> QED
  BY <1>1, <1>2, <1>3, <1>4, <1>5, <1>6, <1>7, StepCases

\* VMs are a table with soft deletes, and CheckAccess answers as if rights were
\* taken away the moment they end.
THEOREM PromisesImplemented == Spec => ImplementsPromises
<1>1. Init => Table!Init
  BY DEF Init, Table!Init, RowOf, Taken
<1>2. Init => Ledger!Init
  <2> SUFFICES ASSUME Init PROVE Ledger!Init
    OBVIOUS
  <2>1. ASSUME NEW p \in Pairs PROVE RightOf(p) = Ledger!None
    BY RightOfIs, RightIs DEF Init
  <2> QED
    BY <2>1 DEF Ledger!Init
<1> QED
  BY <1>1, <1>2, TableStep, LedgerStep, Invariance, PTL
  DEF Spec, ImplementsPromises, Table!Spec, Ledger!Spec
=============================================================================

------------------------------ MODULE VMAccess ------------------------------
(***************************************************************************)
(* VMService and PermissionService (backend/internal/service/vm.go and     *)
(* permission.go) over their repositories, the tables virtual_machines and *)
(* permissions, and the handlers that call them in cmd/server/main.go.     *)
(*                                                                         *)
(* As in Accounts a query is one atomic step, an operation with two        *)
(* queries is two steps, and requests that only read, or end with an error *)
(* before they write, are left out.                                        *)
(***************************************************************************)
EXTENDS Naturals

CONSTANTS
    Users,       \* ids of rows of the table users
    VMs,         \* ids of rows of the table virtual_machines
    LibvirtIDs,
    Configs,     \* name, hostname and metadata of a VM
    Powers,      \* values of PowerState; Stopped is among them
    Stopped,
    Requests,    \* goroutines serving HTTP requests
    NoRow,       \* an id that is not used yet, a pair without a live grant
    MaxLeft      \* the longest time a grant is given for, if it has an end

Rows   == [live : BOOLEAN, libvirtID : LibvirtIDs, config : Configs, power : Powers]
Copies == [config : Configs, power : Powers]
Levels == {"view", "control", "admin"}
Never  == MaxLeft + 1
Grants == [level : Levels, left : 0 .. Never]
Idle   == [op |-> "idle"]
Pairs  == Users \X VMs

ASSUME AccessAssumption ==
    /\ NoRow \notin Rows \cup Grants \cup [live : BOOLEAN, columns : Configs \X Powers]
    /\ Stopped \in Powers
    /\ MaxLeft \in Nat

VARIABLES
    vms,         \* the table virtual_machines
    perms,       \* per pair the row of permissions that is not revoked, and
                 \* the ticks until expires_at
    req,         \* what each request is doing, and its local variables
    stale        \* history: the power state it read was changed in the row since

vars == <<vms, perms, req, stale>>

\* The types of the state; a grant is for a VM that has a row.
TypeOK ==
    /\ vms \in [VMs -> Rows \cup {NoRow}]
    /\ perms \in [Pairs -> Grants \cup {NoRow}]
    /\ req \in [Requests ->
          {Idle} \cup [op : {"update"}, id : VMs, copy : Copies]
                 \cup [op : {"readback"}, id : VMs]]
    /\ stale \in [Requests -> BOOLEAN]
    /\ \A p \in Pairs : perms[p] # NoRow => vms[p[2]] # NoRow

Init ==
    /\ vms = [v \in VMs |-> NoRow] /\ perms = [p \in Pairs |-> NoRow]
    /\ req = [r \in Requests |-> Idle] /\ stale = [r \in Requests |-> FALSE]

Live(v)     == vms[v] # NoRow /\ vms[v].live
Taken(l)    == \E v \in VMs : vms[v] # NoRow /\ vms[v].libvirtID = l
Do(r, step) == req' = [req EXCEPT ![r] = step]

\* The request r will write back a power state the row v has no more.
Outdated(r, v, row) ==
    req[r].op = "update" /\ req[r].id = v /\ row.power # vms[v].power

-----------------------------------------------------------------------------
(* Virtual machines.                                                       *)

\* The row v becomes `row'.
Put(v, row) ==
    /\ vms' = [vms EXCEPT ![v] = row]
    /\ stale' = [r \in Requests |-> stale[r] \/ Outdated(r, v, row)]
    /\ UNCHANGED perms

Keep == UNCHANGED <<vms, perms, stale>>

\* CreateVM inserts a row with a fresh id; libvirt_id is unique, deleted rows
\* included.
CreateVM(v, l, c) ==
    /\ vms[v] = NoRow /\ ~Taken(l)
    /\ Put(v, [live |-> TRUE, libvirtID |-> l, config |-> c, power |-> Stopped])
    /\ UNCHANGED req

\* Mistake (Next does not use it): GetByID does not select the power state.
GetConfig(v) == [config |-> vms[v].config, power |-> Stopped]

\* What GetByID selects of the columns that Update writes.
Get(v) == [config |-> vms[v].config, power |-> vms[v].power]

\* UpdateVM reads the row,
ReadVM(r, v) ==
    /\ req[r] = Idle /\ Live(v)
    /\ Do(r, [op |-> "update", id |-> v, copy |-> Get(v)])
    /\ stale' = [stale EXCEPT ![r] = FALSE]
    /\ UNCHANGED <<vms, perms>>

\* ... changes the copy and writes all of it, the power state included.
UpdateVM(r, c) ==
    /\ req[r].op = "update"
    /\ LET v == req[r].id IN
       IF Live(v)
       THEN Put(v, [vms[v] EXCEPT !.config = c, !.power = req[r].copy.power])
       ELSE Keep
    /\ Do(r, Idle)

\* UpdatePowerState writes the state of a live row,
UpdatePowerState(r, v, s) ==
    /\ req[r] = Idle /\ Live(v)
    /\ Put(v, [vms[v] EXCEPT !.power = s])
    /\ Do(r, [op |-> "readback", id |-> v])

\* ... and answers with a row it reads in another query: the row may have
\* changed, or be gone.
ReadBack(r) ==
    /\ req[r].op = "readback"
    /\ Do(r, Idle) /\ Keep

\* The query that writes fails.
Fail(r) ==
    /\ req[r].op = "update"
    /\ Do(r, Idle) /\ Keep

\* DeleteVM is one query; the grants for the VM stay.
DeleteVM(v) ==
    /\ Live(v) /\ Put(v, [vms[v] EXCEPT !.live = FALSE])
    /\ UNCHANGED req

-----------------------------------------------------------------------------
(* Permissions.                                                            *)

\* Mistake: a grant that is there, in force or expired, is replaced.
GrantOver(p, level, left) ==
    /\ vms[p[2]] # NoRow
    /\ perms' = [perms EXCEPT ![p] = [level |-> level, left |-> left]]
    /\ UNCHANGED <<vms, req, stale>>

\* Mistake: the table has no foreign key.
GrantUnreferenced(p, level, left) ==
    /\ perms[p] = NoRow
    /\ perms' = [perms EXCEPT ![p] = [level |-> level, left |-> left]]
    /\ UNCHANGED <<vms, req, stale>>

\* GrantAccess inserts a row that does not expire before now.  The VM must have
\* a row, live or not, and the pair no grant that is not revoked: an expired one
\* is in the way as well.
GrantAccess(p, level, left) ==
    /\ vms[p[2]] # NoRow /\ perms[p] = NoRow
    /\ perms' = [perms EXCEPT ![p] = [level |-> level, left |-> left]]
    /\ UNCHANGED <<vms, req, stale>>

RevokeAccess(p) ==
    /\ perms[p] # NoRow
    /\ perms' = [perms EXCEPT ![p] = NoRow]
    /\ UNCHANGED <<vms, req, stale>>

\* The condition of all queries of permissions.
InForce(p) == perms[p] # NoRow /\ perms[p].left > 0

Rank == [view |-> 1, control |-> 2, admin |-> 3]

\* CheckAccess with hasAccess.
CheckAccess(p, required) == InForce(p) /\ Rank[perms[p].level] >= Rank[required]

\* Time passes: grants with an end come closer to it.
Tick ==
    /\ \E p \in Pairs : perms[p] # NoRow /\ perms[p].left \in 1 .. MaxLeft
    /\ perms' = [p \in Pairs |->
          IF perms[p] # NoRow /\ perms[p].left \in 1 .. MaxLeft
          THEN [perms[p] EXCEPT !.left = @ - 1] ELSE perms[p]]
    /\ UNCHANGED <<vms, req, stale>>

Next ==
    \/ \E v \in VMs : \/ \E l \in LibvirtIDs, c \in Configs : CreateVM(v, l, c)
                      \/ DeleteVM(v)
    \/ \E r \in Requests :
          \/ \E v \in VMs : ReadVM(r, v) \/ \E s \in Powers : UpdatePowerState(r, v, s)
          \/ \E c \in Configs : UpdateVM(r, c)
          \/ ReadBack(r) \/ Fail(r)
    \/ \E p \in Pairs :
          \/ \E level \in Levels, left \in 0 .. Never : GrantAccess(p, level, left)
          \/ RevokeAccess(p)
    \/ Tick

Spec == Init /\ [][Next]_vars

-----------------------------------------------------------------------------
(* What must hold.                                                         *)

\* The row of a libvirt id, as the abstract table has it.
RowOf(l) ==
    IF Taken(l)
    THEN LET row == vms[CHOOSE v \in VMs : vms[v] # NoRow /\ vms[v].libvirtID = l]
         IN  [live |-> row.live, columns |-> <<row.config, row.power>>]
    ELSE NoRow

\* The right CheckAccess grants to a pair, at every level it may be asked for.
RightOf(p) == [may  |-> {level \in Levels : CheckAccess(p, level)},
               left |-> IF InForce(p) THEN perms[p].left ELSE 0]

Table  == INSTANCE SoftTable WITH Keys <- LibvirtIDs, Columns <- Configs \X Powers,
                                  table <- [l \in LibvirtIDs |-> RowOf(l)]
Ledger == INSTANCE Rights WITH Forever <- Never,
                               right <- [p \in Pairs |-> RightOf(p)]

\* VMs are a table with soft deletes however requests interleave, and
\* permissions, which expire without a trace, answer as rights would that are
\* taken away the moment they end: an expired grant never comes back to life.
ImplementsPromises == Table!Spec /\ Ledger!Spec

\* UpdateVM, which writes back the power state it read, changes it only if
\* another request has changed the power state in the meantime; a change of the
\* configuration or a deletion does not excuse it.
PowerUndoneByRaceOnly ==
    [][\A r \in Requests :
          req[r].op = "update" /\ req'[r] = Idle /\ ~stale[r]
          => vms'[req[r].id].power = vms[req[r].id].power]_vars
=============================================================================

--------------------------- MODULE ConnectionPool ---------------------------
(***************************************************************************)
(* ConnectionPool of backend/internal/libvirt/client.go: a mutex, a list   *)
(* of the connections made so far, of which only the length matters, and a *)
(* channel that buffers the available ones.  GetConnection waits for a     *)
(* connection, up to connectionTimeout, without letting go of the mutex.   *)
(***************************************************************************)
EXTENDS Naturals, Sequences, FiniteSets

CONSTANTS
    Users,            \* goroutines that take and give back connections
    Connections,      \* Connection objects; an unused one is reused
    Nobody,           \* owner of a free lock
    NoConnection,     \* "none in hand"
    MaxConnections    \* maxConnections

ASSUME PoolAssumption ==
    /\ IsFiniteSet(Users)
    /\ Nobody \notin Users
    /\ NoConnection \notin Connections
    /\ MaxConnections \in Nat

VARIABLES
    total,      \* len(conns)
    avail,      \* the buffer of availableConns
    held,       \* the connection each user has in hand
    poolMu      \* owner of the pool's mutex, when it waits with it locked

vars == <<total, avail, held, poolMu>>

Holders == {u \in Users : held[u] # NoConnection}
Available == {avail[i] : i \in 1 .. Len(avail)}
InUse == {held[u] : u \in Holders}

\* A user never waits for the pool with a connection in hand.
TypeOK ==
    /\ total \in 0 .. MaxConnections
    /\ avail \in Seq(Connections) /\ Len(avail) <= MaxConnections
    /\ held \in [Users -> Connections \cup {NoConnection}]
    /\ poolMu \in Users \cup {Nobody}
    /\ poolMu # Nobody => held[poolMu] = NoConnection

Init ==
    /\ total = 0
    /\ avail = <<>>
    /\ held = [u \in Users |-> NoConnection]
    /\ poolMu = Nobody

Take(u, c) == held' = [held EXCEPT ![u] = c]

-----------------------------------------------------------------------------
(* Mistakes this code could have contained; Next uses none of them.        *)

\* A connection is handed out but stays available.
GetAvailableCopy(u) ==
    /\ poolMu = Nobody /\ held[u] = NoConnection
    /\ avail # <<>>
    /\ Take(u, Head(avail))
    /\ UNCHANGED <<total, avail, poolMu>>

\* A connection given back is forgotten, as when the caller's error path
\* skips ReleaseConnection.
ReleaseForgotten(u) ==
    /\ poolMu = Nobody /\ held[u] # NoConnection
    /\ Take(u, NoConnection)
    /\ UNCHANGED <<total, avail, poolMu>>

\* ReleaseConnection does not take the mutex.
ReleaseUnlocked(u) ==
    /\ held[u] # NoConnection
    /\ avail' = IF Len(avail) < MaxConnections THEN Append(avail, held[u]) ELSE avail
    /\ Take(u, NoConnection)
    /\ UNCHANGED <<total, poolMu>>

\* GetConnection waits without a timeout.
GetTimeoutNever(u) ==
    /\ poolMu = u
    /\ avail # <<>>
    /\ Take(u, Head(avail)) /\ avail' = Tail(avail)
    /\ poolMu' = Nobody
    /\ UNCHANGED total

-----------------------------------------------------------------------------

\* GetConnection finds a buffered connection.
GetAvailable(u) ==
    /\ poolMu = Nobody /\ held[u] = NoConnection
    /\ avail # <<>>
    /\ Take(u, Head(avail)) /\ avail' = Tail(avail)
    /\ UNCHANGED <<total, poolMu>>

\* GetConnection makes one.
GetNew(u) ==
    /\ poolMu = Nobody /\ held[u] = NoConnection
    /\ avail = <<>> /\ total < MaxConnections
    /\ \E c \in Connections \ InUse : Take(u, c)
    /\ total' = total + 1
    /\ UNCHANGED <<avail, poolMu>>

\* GetConnection starts to wait, keeping the mutex.
GetWait(u) ==
    /\ poolMu = Nobody /\ held[u] = NoConnection
    /\ avail = <<>> /\ total >= MaxConnections
    /\ poolMu' = u
    /\ UNCHANGED <<total, avail, held>>

\* The wait ends: a connection is received from the channel, or the timeout
\* fires; when both could happen the select chooses either.
GetWaitEnds(u) ==
    /\ poolMu = u
    /\ held' \in {held} \cup (IF avail = <<>> THEN {}
                              ELSE {[held EXCEPT ![u] = Head(avail)]})
    /\ avail' = IF held' = held THEN avail ELSE Tail(avail)
    /\ poolMu' = Nobody
    /\ UNCHANGED total

\* ReleaseConnection: dropped when the channel is full.
Release(u) ==
    /\ poolMu = Nobody /\ held[u] # NoConnection
    /\ avail' = IF Len(avail) < MaxConnections THEN Append(avail, held[u]) ELSE avail
    /\ Take(u, NoConnection)
    /\ UNCHANGED <<total, poolMu>>

\* Close drains the channel and forgets the connections, those in use too.
Close ==
    /\ poolMu = Nobody
    /\ avail' = <<>> /\ total' = 0
    /\ UNCHANGED <<held, poolMu>>

Get(u) == GetAvailable(u) \/ GetNew(u) \/ GetWait(u)

Next == Close \/ \E u \in Users : Get(u) \/ GetWaitEnds(u) \/ Release(u)

Spec == Init /\ [][Next]_vars

\* The timeout fires; who wants to give a connection back gets the mutex.
FairSpec == Spec /\ \A u \in Users : WF_vars(GetWaitEnds(u)) /\ SF_vars(Release(u))

-----------------------------------------------------------------------------
(* What must hold.                                                         *)

\* A connection is in one place: with one user, or once in the buffer.
Exclusive ==
    /\ \A u, v \in Holders : held[u] = held[v] => u = v
    /\ \A i, j \in 1 .. Len(avail) : avail[i] = avail[j] => i = j
    /\ InUse \cap Available = {}

\* The pool does not leak its capacity: every connection that counts against
\* the limit can be had now or is in use, although ReleaseConnection may drop
\* connections and Close forgets those in use.
CapacityKept == total <= Len(avail) + Cardinality(Holders)

\* Nobody is ever served by waiting: the waiter has the mutex that giving a
\* connection back needs, so the buffer stays empty until the timeout.
WaitIsFutile == poolMu # Nobody => avail = <<>>

\* A connection given back leaves its user, however long others wait.
Released == \A u \in Users : held[u] # NoConnection ~> held[u] = NoConnection
=============================================================================

---------------------------- MODULE LibvirtClient ----------------------------
(***************************************************************************)
(* LibvirtClient and DomainManager (backend/internal/libvirt): every       *)
(* operation runs inside CircuitBreaker.Call, takes a connection from the  *)
(* pool, does its work, gives the connection back and returns the result   *)
(* to the breaker.  The domain operations of this code always succeed;     *)
(* Ping fails when the URI is not set; both fail when the pool times out.  *)
(* The breaker is extended, the pool instantiated; names that start with   *)
(* Client are those of the whole.                                          *)
(***************************************************************************)
EXTENDS CircuitBreaker, Sequences, FiniteSets

CONSTANTS
    Connections, NoConnection, MaxConnections,   \* of ConnectionPool
    UriSet      \* LIBVIRT_URI is not empty

ASSUME ClientAssumption ==
    /\ IsFiniteSet(Callers)
    /\ NoConnection \notin Connections /\ MaxConnections \in Nat
    /\ UriSet \in BOOLEAN

VARIABLES
    total, avail, held, poolMu,   \* of ConnectionPool
    stage       \* how far each caller is inside its operation

Pool == INSTANCE ConnectionPool WITH Users <- Callers

poolVars   == <<total, avail, held, poolMu>>
clientVars == <<vars, poolVars, stage>>

Stages == {"out", "get", "wait", "use", "ok", "error", "done", "failed"}

\* The types of both components; an operation is under way exactly while the
\* breaker runs it, and has a connection between GetConnection and release.
ClientTypeOK ==
    /\ TypeOK
    /\ Pool!TypeOK
    /\ stage \in [Callers -> Stages]
    /\ \A c \in Callers : stage[c] # "out" <=> pc[c] = "running"
    /\ \A c \in Callers : held[c] # NoConnection <=> stage[c] \in {"use", "ok", "error"}
    /\ \A c \in Callers : stage[c] = "wait" <=> poolMu = c

ClientInit == Init /\ Pool!Init /\ stage = [c \in Callers |-> "out"]

Advance(c, s) == stage' = [stage EXCEPT ![c] = s]

-----------------------------------------------------------------------------
(* Mistakes this code could have contained; Next uses none of them.        *)

\* The connection is not given back when the operation fails.
GiveBackOnSuccess(c) ==
    /\ \/ stage[c] = "ok" /\ Pool!Release(c) /\ Advance(c, "done")
       \/ stage[c] = "error" /\ Advance(c, "failed") /\ UNCHANGED poolVars
    /\ UNCHANGED vars

\* The result of the operation never reaches the breaker.
ReturnLost(c) ==
    /\ stage[c] \in {"done", "failed"}
    /\ Advance(c, "out")
    /\ UNCHANGED <<vars, poolVars>>

\* The breaker is asked for its state, but not held, during an operation.
EnterUnguarded(c) ==
    /\ pc[c] = "waiting"
    /\ state # "open"
    /\ holder' = c /\ pc' = [pc EXCEPT ![c] = "running"]
    /\ Advance(c, "get")
    /\ UNCHANGED <<state, failureCount, successCount, since, streak, poolVars>>

-----------------------------------------------------------------------------

\* A goroutine starts an operation, or asks for the breaker's state.
Start(c) == Ask(c) /\ UNCHANGED <<poolVars, stage>>

\* circuitBreaker.Call, or GetState, gets the mutex.
EnterCall(c) ==
    /\ Enter(c)
    /\ Advance(c, IF pc'[c] = "running" THEN "get" ELSE "out")
    /\ UNCHANGED poolVars

\* pool.GetConnection gives a connection or starts to wait for one.
GetConnection(c) ==
    /\ stage[c] = "get"
    /\ Pool!Get(c)
    /\ Advance(c, IF poolMu' = c THEN "wait" ELSE "use")
    /\ UNCHANGED vars

\* GetConnection's wait ends; without a connection the operation fails.
WaitEnds(c) ==
    /\ stage[c] = "wait"
    /\ Pool!GetWaitEnds(c)
    /\ Advance(c, IF held'[c] = NoConnection THEN "failed" ELSE "use")
    /\ UNCHANGED vars

\* The work: a domain operation, which succeeds, or Ping, which needs the URI.
Use(c) ==
    /\ stage[c] = "use"
    /\ \/ Advance(c, "ok")
       \/ ~UriSet /\ Advance(c, "error")
    /\ UNCHANGED <<vars, poolVars>>

\* The deferred pool.ReleaseConnection.
GiveBack(c) ==
    /\ stage[c] \in {"ok", "error"}
    /\ Pool!Release(c)
    /\ Advance(c, IF stage[c] = "ok" THEN "done" ELSE "failed")
    /\ UNCHANGED vars

\* The function returns to circuitBreaker.Call.
Return(c) ==
    /\ \/ stage[c] = "done" /\ Succeed(c)
       \/ stage[c] = "failed" /\ Fail(c)
    /\ Advance(c, "out")
    /\ UNCHANGED poolVars

\* LibvirtClient.Close, which main defers, with operations still under way.
Close == Pool!Close /\ UNCHANGED <<vars, stage>>

ClientTick == Tick /\ UNCHANGED <<poolVars, stage>>

Work(c) == GetConnection(c) \/ WaitEnds(c) \/ Use(c) \/ GiveBack(c) \/ Return(c)

ClientNext ==
    ClientTick \/ Close \/ \E c \in Callers : Start(c) \/ EnterCall(c) \/ Work(c)

ClientSpec == ClientInit /\ [][ClientNext]_clientVars

\* Who waits for the breaker's mutex gets it; inside, an operation only waits
\* for the pool, whose waits time out.
ClientFairSpec ==
    /\ ClientSpec
    /\ \A c \in Callers : SF_clientVars(EnterCall(c)) /\ WF_clientVars(Work(c))
    /\ WF_clientVars(ClientTick)
    /\ SF_clientVars(Start(Monitor) /\ pc'[Monitor] = "waiting")

-----------------------------------------------------------------------------
(* What must hold.                                                         *)

\* With room for one connection no operation ever waits for one, whatever the
\* number of callers: calls are serial, and each gives its connection back
\* before the breaker lets the next one in.
NoPoolWait == MaxConnections >= 1 => poolMu = Nobody

\* No connection is in use while the breaker is free, and no two ever are.
SingleConnection == \A c \in Callers : held[c] # NoConnection => holder = c

\* Around the pool and the operations the breaker still is the breaker: its
\* fair specification holds, the end of every protected call included.
ImplementsBreaker == FairSpec

\* A pool without room for any connection trips the breaker again and again:
\* each operation times out, and the breaker counts it.
EmptyPoolTrips == MaxConnections = 0 => []<>(state = "open")
=============================================================================

------------------------ MODULE LibvirtClientProofs ------------------------
(***************************************************************************)
(* Proofs about CircuitBreaker, for every number of callers, every limit,  *)
(* threshold and timeout, and about LibvirtClient: it is a run of the      *)
(* breaker and a run of the pool at once, so what is proved of each holds  *)
(* in it; together they give what neither has alone.                       *)
(***************************************************************************)
EXTENDS LibvirtClient, TLAPS

PoolProofs == INSTANCE ConnectionPoolProofs WITH Users <- Callers

-----------------------------------------------------------------------------
(* The breaker around any function.                                        *)

\* The failure count never runs ahead of the failures in a row, except that
\* the history stops counting at the limit.
CountIsStreak == failureCount <= streak \/ FailureLimit <= streak

\* While the breaker is closed the counter is the streak.
ClosedCountsAll == state = "closed" /\ FailureLimit >= 1 => failureCount = streak

\* The threshold is reached only by the success that closes the breaker.
ProbesCounted == state = "half-open" => successCount < SuccessThresh

BreakerInv == /\ TypeOK /\ CountIsStreak /\ ClosedCountsAll /\ ProbesCounted
              /\ TripsOnStreaks /\ OpenIsQuiet

\* The breaker starts closed with nothing counted.
LEMMA BreakerInit == Init => BreakerInv
  BY BreakerAssumption DEF Init, BreakerInv, TypeOK, Ages, CountIsStreak,
     ClosedCountsAll, ProbesCounted, TripsOnStreaks, OpenIsQuiet

\* No step of a caller, and no passing of time, breaks the invariant.
LEMMA BreakerStep == BreakerInv /\ [Next]_vars => BreakerInv'
<1> SUFFICES ASSUME BreakerInv, [Next]_vars PROVE BreakerInv'
  OBVIOUS
<1> USE BreakerAssumption DEF BreakerInv, TypeOK, Ages, CountIsStreak, ClosedCountsAll,
        ProbesCounted, TripsOnStreaks, OpenIsQuiet
<1>1. CASE Tick
  BY <1>1 DEF Tick, Older
<1>2. ASSUME NEW c \in Callers, Ask(c) PROVE BreakerInv'
  BY <1>2 DEF Ask, Goto
<1>3. ASSUME NEW c \in Callers, Reject(c) \/ GetState(c) PROVE BreakerInv'
  BY <1>3 DEF Reject, GetState, Goto
<1>4. ASSUME NEW c \in Callers, Admit(c) PROVE BreakerInv'
  BY <1>4 DEF Admit, Goto
<1>5. ASSUME NEW c \in Callers, Probe(c) PROVE BreakerInv'
  BY <1>5 DEF Probe, Goto
<1>6. ASSUME NEW c \in Callers, Succeed(c) PROVE BreakerInv'
  <2>1. CASE state = "half-open"
    BY <1>6, <2>1 DEF Succeed, Goto
  <2>2. CASE state # "half-open"
    BY <1>6, <2>2 DEF Succeed, Goto
  <2> QED BY <2>1, <2>2
<1>7. ASSUME NEW c \in Callers, Fail(c) PROVE BreakerInv'
  <2>1. CASE failureCount + 1 >= FailureLimit
    BY <1>7, <2>1 DEF Fail, Goto, Longer
  <2>2. CASE failureCount + 1 < FailureLimit
    BY <1>7, <2>2 DEF Fail, Goto, Longer
  <2> QED BY <2>1, <2>2
<1>8. CASE UNCHANGED vars
  BY <1>8 DEF vars
<1> QED BY <1>1, <1>2, <1>3, <1>4, <1>5, <1>6, <1>7, <1>8 DEF Next, Enter, Finish

\* The invariant holds throughout.
THEOREM BreakerInvariance == Spec => []BreakerInv
  BY BreakerInit, BreakerStep, PTL DEF Spec

\* Type correctness of the breaker.
THEOREM BreakerTypeCorrect == Spec => []TypeOK
<1>1. BreakerInv => TypeOK
  BY DEF BreakerInv
<1> QED BY <1>1, BreakerInvariance, PTL

\* Whatever the callers do, an open breaker means FailureLimit failures in a row,
\* and a closed one fewer.
THEOREM BreakerTripsOnStreaks == Spec => []TripsOnStreaks
<1>1. BreakerInv => TripsOnStreaks
  BY DEF BreakerInv
<1> QED BY <1>1, BreakerInvariance, PTL

\* Nobody is inside the protected function while the breaker is open.
THEOREM OpenProtects == Spec => []OpenIsQuiet
<1>1. BreakerInv => OpenIsQuiet
  BY DEF BreakerInv
<1> QED BY <1>1, BreakerInvariance, PTL

-----------------------------------------------------------------------------
(* The composition is a run of each component.                             *)

\* The constants are as the pool assumes.
LEMMA Assumed == PoolProofs!PoolAssumption
<1>1. PoolProofs!IsFiniteSet(Callers)
  BY ClientAssumption DEF IsFiniteSet, PoolProofs!IsFiniteSet
<1> QED BY <1>1, ClientAssumption, BreakerAssumption DEF PoolProofs!PoolAssumption

\* A step of the client is a step of the breaker or leaves it alone.
LEMMA BreakerSteps == [ClientNext]_clientVars => [Next]_vars
<1> SUFFICES ASSUME [ClientNext]_clientVars PROVE [Next]_vars
  OBVIOUS
<1>1. CASE ClientTick
  BY <1>1 DEF ClientTick, Next
<1>2. CASE Close \/ UNCHANGED clientVars
  BY <1>2 DEF Close, clientVars
<1>3. ASSUME NEW c \in Callers, Start(c) \/ EnterCall(c) \/ Return(c)
      PROVE  Next
  BY <1>3 DEF Start, EnterCall, Return, Next, Finish
<1>4. ASSUME NEW c \in Callers,
             GetConnection(c) \/ WaitEnds(c) \/ Use(c) \/ GiveBack(c)
      PROVE  UNCHANGED vars
  BY <1>4 DEF GetConnection, WaitEnds, Use, GiveBack
<1> QED BY <1>1, <1>2, <1>3, <1>4 DEF ClientNext, Work

\* What the breaker sees is a run of the breaker: pool and operations never
\* change its fields but by Call's own steps.
THEOREM BreakerInside == ClientSpec => Spec
<1>1. ClientInit => Init
  BY DEF ClientInit
<1> QED BY <1>1, BreakerSteps, PTL DEF ClientSpec, Spec

\* A step of the client is a step of the pool or leaves it alone.
LEMMA PoolSteps == [ClientNext]_clientVars => [Pool!Next]_(Pool!vars)
<1> SUFFICES ASSUME [ClientNext]_clientVars PROVE [Pool!Next]_(Pool!vars)
  OBVIOUS
<1>1. CASE Close
  BY <1>1 DEF Close, Pool!Next
<1>2. CASE ClientTick \/ UNCHANGED clientVars
  BY <1>2 DEF ClientTick, clientVars, poolVars, Pool!vars
<1>3. ASSUME NEW c \in Callers, GetConnection(c) \/ WaitEnds(c) \/ GiveBack(c)
      PROVE  Pool!Next
  BY <1>3 DEF GetConnection, WaitEnds, GiveBack, Pool!Next
<1>4. ASSUME NEW c \in Callers, Start(c) \/ EnterCall(c) \/ Use(c) \/ Return(c)
      PROVE  UNCHANGED Pool!vars
  BY <1>4 DEF Start, EnterCall, Use, Return, poolVars, Pool!vars
<1> QED BY <1>1, <1>2, <1>3, <1>4 DEF ClientNext, Work

\* What the pool sees is a run of the pool.
THEOREM PoolInside == ClientSpec => Pool!Spec
<1>1. ClientInit => Pool!Init
  BY DEF ClientInit
<1> QED BY <1>1, PoolSteps, PTL DEF ClientSpec, Pool!Spec

\* What the pool's invariant says here.
PoolFacts ==
    /\ Pool!TypeOK
    /\ total \in Nat /\ avail \in Seq(Connections)
    /\ held \in [Callers -> Connections \cup {NoConnection}]
    /\ poolMu \in Callers \cup {Nobody}
    /\ poolMu # Nobody => avail = <<>>
    /\ (\A c \in Callers : held[c] = NoConnection) => total <= Len(avail)

\* The pool's theorem, for the pool inside.
LEMMA PoolHolds == ClientSpec => []PoolFacts
<1>1. Pool!Spec => PoolProofs!Spec
  BY PTL DEF Pool!Spec, PoolProofs!Spec, Pool!Init, PoolProofs!Init,
     Pool!vars, PoolProofs!vars, Pool!Next, PoolProofs!Next, Pool!Get, PoolProofs!Get,
     Pool!GetAvailable, PoolProofs!GetAvailable, Pool!GetNew, PoolProofs!GetNew,
     Pool!GetWait, PoolProofs!GetWait, Pool!GetWaitEnds, PoolProofs!GetWaitEnds,
     Pool!Release, PoolProofs!Release, Pool!Close, PoolProofs!Close,
     Pool!Take, PoolProofs!Take, Pool!InUse, PoolProofs!InUse,
     Pool!Holders, PoolProofs!Holders
<1>2. PoolProofs!IInv => PoolFacts
  <2> SUFFICES ASSUME PoolProofs!IInv PROVE PoolFacts
    OBVIOUS
  <2>1. (\A c \in Callers : held[c] = NoConnection) => total <= Len(avail)
    <3> SUFFICES ASSUME \A c \in Callers : held[c] = NoConnection
                 PROVE  total <= Len(avail)
      OBVIOUS
    <3>1. PoolProofs!Holders = {}
      BY DEF PoolProofs!Holders
    <3>2. PoolProofs!Cardinality(PoolProofs!Holders) = 0
      BY <3>1, PoolProofs!FS_EmptySet, Assumed
    <3> QED
      BY <3>2, ClientAssumption
         DEF PoolProofs!IInv, PoolProofs!CapacityKept, PoolProofs!TypeOK
  <2>2. Pool!TypeOK
    BY DEF PoolProofs!IInv, PoolProofs!TypeOK, Pool!TypeOK
  <2> QED
    BY <2>1, <2>2, ClientAssumption
       DEF PoolProofs!IInv, PoolProofs!TypeOK, PoolProofs!WaitIsFutile, PoolFacts
<1> QED BY <1>1, <1>2, PoolInside, PoolProofs!Invariance, Assumed, PTL

\* The breaker's invariant holds inside the client.
LEMMA BreakerHere == ClientSpec => []BreakerInv
  BY BreakerInside, BreakerInvariance

-----------------------------------------------------------------------------
(* What they give together.                                                *)

\* A caller is inside its operation exactly while the breaker runs it, and
\* has a connection exactly between GetConnection and ReleaseConnection.
Staged ==
    /\ stage \in [Callers -> Stages]
    /\ \A c \in Callers : stage[c] # "out" <=> pc[c] = "running"
    /\ \A c \in Callers : held[c] # NoConnection <=> stage[c] \in {"use", "ok", "error"}
    /\ \A c \in Callers : stage[c] = "wait" <=> poolMu = c

IInv == Staged /\ NoPoolWait

\* Nobody is inside at first.
LEMMA InitInv == ClientInit => IInv
  BY BreakerAssumption, ClientAssumption
     DEF ClientInit, Init, Pool!Init, IInv, Staged, Stages, NoPoolWait

\* No step breaks it.  The step that matters is GetConnection's: the caller is
\* the only one inside, so all connections are in the pool, and an empty pool
\* has room for a new one.
LEMMA StepInv == IInv /\ BreakerInv /\ PoolFacts /\ [ClientNext]_clientVars => IInv'
<1> SUFFICES ASSUME IInv, BreakerInv, PoolFacts, [ClientNext]_clientVars PROVE IInv'
  OBVIOUS
<1>0. /\ pc \in [Callers -> {"idle", "waiting", "reading", "running"}]
      /\ holder \in Callers \cup {Nobody}
      /\ \A c \in Callers : pc[c] = "running" <=> holder = c
  BY DEF BreakerInv, TypeOK
<1> USE <1>0, BreakerAssumption, ClientAssumption
    DEF IInv, Staged, Stages, NoPoolWait, PoolFacts, Advance
<1>1. CASE ClientTick
  BY <1>1 DEF ClientTick, Tick, poolVars
<1>2. CASE Close
  BY <1>2 DEF Close, Pool!Close, vars
<1>3. ASSUME NEW c \in Callers, Start(c) PROVE IInv'
  BY <1>3 DEF Start, Ask, Goto, poolVars
<1>4. ASSUME NEW c \in Callers, EnterCall(c) PROVE IInv'
  BY <1>4 DEF EnterCall, Enter, Reject, Admit, Probe, GetState, Goto, poolVars
<1>5. ASSUME NEW c \in Callers, GetConnection(c) PROVE IInv'
  <2>1. CASE Pool!GetAvailable(c) \/ Pool!GetNew(c)
    BY <1>5, <2>1 DEF GetConnection, Pool!GetAvailable, Pool!GetNew, Pool!Take, vars
  <2>2. CASE Pool!GetWait(c)
    <3>1. \A d \in Callers : held[d] = NoConnection
      BY <1>5 DEF GetConnection
    <3>2. MaxConnections < 1
      BY <2>2, <3>1 DEF Pool!GetWait
    <3> QED BY <1>5, <2>2, <3>2 DEF GetConnection, Pool!GetWait, vars
  <2> QED BY <1>5, <2>1, <2>2 DEF GetConnection, Pool!Get
<1>6. ASSUME NEW c \in Callers, WaitEnds(c) PROVE IInv'
  BY <1>6 DEF WaitEnds, Pool!GetWaitEnds, vars
<1>7. ASSUME NEW c \in Callers, Use(c) PROVE IInv'
  BY <1>7 DEF Use, vars, poolVars
<1>8. ASSUME NEW c \in Callers, GiveBack(c) PROVE IInv'
  BY <1>8 DEF GiveBack, Pool!Release, Pool!Take, vars
<1>9. ASSUME NEW c \in Callers, Return(c) PROVE IInv'
  BY <1>9 DEF Return, Succeed, Fail, Goto, poolVars
<1>10. CASE UNCHANGED clientVars
  BY <1>10 DEF clientVars, vars, poolVars
<1> QED
  BY <1>1, <1>2, <1>3, <1>4, <1>5, <1>6, <1>7, <1>8, <1>9, <1>10 DEF ClientNext, Work

\* The invariant of the composition.
THEOREM Invariance == ClientSpec => []IInv
  BY InitInv, StepInv, BreakerHere, PoolHolds, PTL DEF ClientSpec

\* The state has its types: the breaker's, the pool's, and the stages that tie
\* them together.
THEOREM TypeCorrect == ClientSpec => []ClientTypeOK
<1>1. IInv /\ BreakerInv /\ PoolFacts => ClientTypeOK
  BY DEF IInv, Staged, BreakerInv, PoolFacts, ClientTypeOK
<1> QED BY <1>1, Invariance, BreakerHere, PoolHolds, PTL

\* With room for one connection nobody ever waits for one, for any number of
\* callers and any size of the pool.
THEOREM NobodyWaits == ClientSpec => []NoPoolWait
<1>1. IInv => NoPoolWait
  BY DEF IInv
<1> QED BY <1>1, Invariance, PTL

\* At most one connection is in use, by the caller inside the breaker.
THEOREM OneConnection == ClientSpec => []SingleConnection
<1>1. IInv /\ BreakerInv => SingleConnection
  BY DEF IInv, Staged, BreakerInv, TypeOK, SingleConnection
<1> QED BY <1>1, Invariance, BreakerHere, PTL

\* Locks nest without contention: whoever is about to take the pool's mutex or
\* has it, finds it free or his own.  So the owner of the breaker's mutex only
\* ever waits for a timer, and all who queue for the breaker wait for him alone.
PoolMutexPrivate ==
    \A c \in Callers : stage[c] # "out" => holder = c /\ poolMu \in {Nobody, c}

\* No operation waits for the pool's mutex, for any size of the pool.
THEOREM NobodyBlocksInside == ClientSpec => []PoolMutexPrivate
<1>1. IInv /\ BreakerInv /\ PoolFacts => PoolMutexPrivate
  BY DEF IInv, Staged, BreakerInv, TypeOK, PoolFacts, PoolMutexPrivate
<1> QED BY <1>1, Invariance, BreakerHere, PoolHolds, PTL

-----------------------------------------------------------------------------
(* A pool without room for any connection, LIBVIRT_MAX_POOLING = 0.        *)

\* With no room in the pool no operation gets as far as its work.
NothingServed ==
    MaxConnections = 0 => \A c \in Callers : stage[c] \in {"out", "get", "wait", "failed"}

\* Every operation fails in the pool.
THEOREM NoneServed == ClientSpec => []NothingServed
<1>1. ClientInit => NothingServed
  BY DEF ClientInit, NothingServed
<1>2. IInv /\ PoolFacts /\ NothingServed /\ [ClientNext]_clientVars => NothingServed'
  <2> SUFFICES ASSUME IInv, PoolFacts, NothingServed, [ClientNext]_clientVars,
                      MaxConnections = 0
               PROVE  NothingServed'
    BY DEF NothingServed
  <2>1. avail = <<>> /\ total >= MaxConnections
    BY DEF PoolFacts, Pool!TypeOK
  <2>2. stage \in [Callers -> Stages] /\ held \in [Callers -> Connections \cup {NoConnection}]
    BY DEF IInv, Staged, PoolFacts
  <2> USE DEF NothingServed, Advance
  <2>3. CASE ClientTick \/ Close \/ UNCHANGED clientVars
    BY <2>3 DEF ClientTick, Close, clientVars
  <2>4. ASSUME NEW c \in Callers, Start(c) \/ EnterCall(c) \/ Return(c)
        PROVE  NothingServed'
    BY <2>2, <2>4 DEF Start, EnterCall, Return
  <2>5. ASSUME NEW c \in Callers, GetConnection(c) PROVE NothingServed'
    <3>1. Pool!GetWait(c)
      BY <2>1, <2>5 DEF GetConnection, Pool!Get, Pool!GetAvailable, Pool!GetNew, PoolFacts
    <3> QED BY <2>2, <2>5, <3>1 DEF GetConnection, Pool!GetWait
  <2>6. ASSUME NEW c \in Callers, WaitEnds(c) PROVE NothingServed'
    <3>1. held' = held /\ held[c] = NoConnection
      BY <2>1, <2>6 DEF WaitEnds, Pool!GetWaitEnds, IInv, Staged
    <3> QED BY <2>2, <2>6, <3>1 DEF WaitEnds
  <2>7. ASSUME NEW c \in Callers, Use(c) \/ GiveBack(c) PROVE FALSE
    BY <2>7 DEF Use, GiveBack
  <2> QED BY <2>3, <2>4, <2>5, <2>6, <2>7 DEF ClientNext, Work
<1> QED BY <1>1, <1>2, Invariance, PoolHolds, PTL DEF ClientSpec

\* So the breaker, once it has left "closed", never closes again: no probe can
\* succeed, however often it is tried.
NeverRecovers ==
    [][MaxConnections = 0 /\ state # "closed" => state' # "closed"]_clientVars

\* An empty pool takes the client out of service for good.
THEOREM EmptyPoolNeverRecovers == ClientSpec => NeverRecovers
<1> DEFINE Stays == MaxConnections = 0 /\ state # "closed" => state' # "closed"
<1>1. NothingServed /\ [ClientNext]_clientVars => [Stays]_clientVars
  <2> SUFFICES ASSUME NothingServed, ClientNext, MaxConnections = 0, state # "closed"
               PROVE  state' # "closed"
    OBVIOUS
  <2>1. CASE ClientTick \/ Close
    BY <2>1 DEF ClientTick, Tick, Close, vars
  <2>2. ASSUME NEW c \in Callers, Start(c) \/ EnterCall(c) PROVE state' # "closed"
    BY <2>2 DEF Start, Ask, EnterCall, Enter, Reject, Admit, Probe, GetState
  <2>3. ASSUME NEW c \in Callers,
               GetConnection(c) \/ WaitEnds(c) \/ Use(c) \/ GiveBack(c)
        PROVE  state' # "closed"
    BY <2>3 DEF GetConnection, WaitEnds, Use, GiveBack, vars
  <2>4. ASSUME NEW c \in Callers, Return(c) PROVE state' # "closed"
    BY <2>4 DEF NothingServed, Return, Fail
  <2> QED BY <2>1, <2>2, <2>3, <2>4 DEF ClientNext, Work
<1> QED BY <1>1, NoneServed, PTL DEF ClientSpec, NeverRecovers
=============================================================================

------------------------ MODULE ConnectionPoolProofs ------------------------
(* Proofs about ConnectionPool for every finite set of users and every size *)
(* of the pool.                                                             *)
EXTENDS ConnectionPool, FiniteSetTheorems, SequenceTheorems, TLAPS

IInv == TypeOK /\ Exclusive /\ CapacityKept /\ WaitIsFutile

\* Taking a connection makes one more holder.
LEMMA TakeCounts ==
  ASSUME TypeOK, NEW u \in Users, held[u] = NoConnection,
         NEW c \in Connections, Take(u, c)
  PROVE  /\ Holders' = Holders \cup {u}
         /\ Cardinality(Holders') = Cardinality(Holders) + 1
         /\ Cardinality(Holders) \in Nat
<1>1. Holders' = Holders \cup {u} /\ u \notin Holders
  BY PoolAssumption DEF TypeOK, Take, Holders
<1>2. IsFiniteSet(Holders)
  BY PoolAssumption, FS_Subset DEF Holders
<1> QED BY <1>1, <1>2, FS_AddElement, FS_CardinalityType

\* Giving one back makes one holder less.
LEMMA DropCounts ==
  ASSUME TypeOK, NEW u \in Users, held[u] # NoConnection, Take(u, NoConnection)
  PROVE  /\ Holders' = Holders \ {u}
         /\ Cardinality(Holders') = Cardinality(Holders) - 1
         /\ Cardinality(Holders) \in Nat /\ Cardinality(Holders') \in Nat
<1>1. Holders' = Holders \ {u} /\ u \in Holders
  BY DEF TypeOK, Take, Holders
<1>2. IsFiniteSet(Holders)
  BY PoolAssumption, FS_Subset DEF Holders
<1>3. IsFiniteSet(Holders')
  BY <1>1, <1>2, FS_RemoveElement
<1> QED BY <1>1, <1>2, <1>3, FS_RemoveElement, FS_CardinalityType

\* A new pool has made nothing and lent nothing.
LEMMA InitInv == Init => IInv
<1> SUFFICES ASSUME Init PROVE IInv
  OBVIOUS
<1>1. Holders = {}
  BY DEF Init, Holders
<1> QED
  BY <1>1, PoolAssumption, FS_EmptySet
     DEF Init, IInv, TypeOK, Exclusive, CapacityKept, WaitIsFutile, InUse, Available

\* GetConnection hands over the first buffered connection.
LEMMA GetAvailableInv ==
  ASSUME IInv, NEW u \in Users, GetAvailable(u)
  PROVE  IInv'
<1>1. /\ Head(avail) \in Connections /\ Tail(avail) \in Seq(Connections)
      /\ Len(Tail(avail)) = Len(avail) - 1
      /\ Head(avail) = avail[1]
      /\ \A i \in 1 .. Len(Tail(avail)) : Tail(avail)[i] = avail[i + 1]
  BY DEF IInv, TypeOK, GetAvailable
<1>2. TypeOK'
  BY <1>1, PoolAssumption DEF IInv, TypeOK, GetAvailable, Take
<1>3. Exclusive'
  <2>1. Head(avail) \in Available /\ Len(avail) \in Nat \ {0}
    BY <1>1, EmptySeq DEF IInv, TypeOK, GetAvailable, Available
  <2>2. Available' \subseteq Available /\ Head(avail) \notin Available'
    BY <1>1, <2>1 DEF IInv, Exclusive, GetAvailable, Available
  <2>3. InUse' \subseteq InUse \cup {Head(avail)}
    BY <1>1 DEF IInv, TypeOK, GetAvailable, Take, Holders, InUse
  <2>4. \A v, w \in Holders' : held'[v] = held'[w] => v = w
    BY <1>1, <2>1 DEF IInv, TypeOK, Exclusive, GetAvailable, Take, Holders, InUse
  <2>5. \A i, j \in 1 .. Len(avail') : avail'[i] = avail'[j] => i = j
    BY <1>1, <2>1 DEF IInv, Exclusive, GetAvailable
  <2> QED BY <2>1, <2>2, <2>3, <2>4, <2>5 DEF IInv, Exclusive
<1>4. CapacityKept'
  BY <1>1, TakeCounts DEF IInv, TypeOK, CapacityKept, GetAvailable
<1>5. WaitIsFutile'
  BY DEF WaitIsFutile, GetAvailable
<1> QED BY <1>2, <1>3, <1>4, <1>5 DEF IInv

\* GetConnection makes a connection nobody has.
LEMMA GetNewInv ==
  ASSUME IInv, NEW u \in Users, GetNew(u)
  PROVE  IInv'
<1> PICK c \in Connections \ InUse : Take(u, c)
  BY DEF GetNew
<1>1. TypeOK'
  BY PoolAssumption DEF IInv, TypeOK, GetNew, Take
<1>2. Exclusive'
  BY DEF IInv, TypeOK, Exclusive, GetNew, Take, Holders, InUse, Available
<1>3. CapacityKept'
  BY TakeCounts DEF IInv, TypeOK, CapacityKept, GetNew
<1>4. WaitIsFutile'
  BY DEF WaitIsFutile, GetNew
<1> QED BY <1>1, <1>2, <1>3, <1>4 DEF IInv

\* The wait starts with an empty buffer.
LEMMA GetWaitInv ==
  ASSUME IInv, NEW u \in Users, GetWait(u)
  PROVE  IInv'
<1>1. TypeOK' /\ Exclusive' /\ WaitIsFutile'
  BY DEF IInv, TypeOK, Exclusive, WaitIsFutile, GetWait, Holders, InUse, Available
<1>2. CapacityKept'
  BY DEF IInv, CapacityKept, GetWait, Holders
<1> QED BY <1>1, <1>2 DEF IInv

\* As the buffer stayed empty, the wait can only end in its timeout.
LEMMA GetWaitEndsInv ==
  ASSUME IInv, NEW u \in Users, GetWaitEnds(u)
  PROVE  IInv' /\ held' = held
<1>1. avail = <<>> /\ held' = held /\ avail' = avail
  BY PoolAssumption DEF IInv, WaitIsFutile, GetWaitEnds
<1>2. TypeOK' /\ Exclusive' /\ WaitIsFutile'
  BY <1>1 DEF IInv, TypeOK, Exclusive, WaitIsFutile, GetWaitEnds, Holders, InUse, Available
<1>3. CapacityKept'
  BY <1>1 DEF IInv, CapacityKept, GetWaitEnds, Holders
<1> QED BY <1>1, <1>2, <1>3 DEF IInv

\* A connection given back is buffered, or dropped from a full buffer - which
\* alone is as long as the pool may get.
LEMMA ReleaseInv ==
  ASSUME IInv, NEW u \in Users, Release(u)
  PROVE  IInv'
<1>1. held[u] \in Connections
  BY DEF IInv, TypeOK, Release
<1>2. CASE Len(avail) < MaxConnections
  <2>1. /\ avail' \in Seq(Connections) /\ Len(avail') = Len(avail) + 1
        /\ avail'[Len(avail) + 1] = held[u]
        /\ \A i \in 1 .. Len(avail) : avail'[i] = avail[i]
    BY <1>1, <1>2 DEF IInv, TypeOK, Release
  <2>2. TypeOK'
    BY <1>2, <2>1, PoolAssumption DEF IInv, TypeOK, Release, Take
  <2>3. Exclusive'
    <3>1. Available' = Available \cup {held[u]} /\ held[u] \notin Available
      BY <1>1, <2>1 DEF IInv, TypeOK, Exclusive, Release, Holders, InUse, Available
    <3>2. InUse' = InUse \ {held[u]}
      BY <1>1 DEF IInv, TypeOK, Exclusive, Release, Take, Holders, InUse
    <3>3. \A v, w \in Holders' : held'[v] = held'[w] => v = w
      BY DEF IInv, TypeOK, Exclusive, Release, Take, Holders
    <3>4. \A i, j \in 1 .. Len(avail') : avail'[i] = avail'[j] => i = j
      BY <2>1, <3>1 DEF IInv, TypeOK, Exclusive, Available
    <3> QED BY <3>1, <3>2, <3>3, <3>4 DEF IInv, Exclusive
  <2>4. CapacityKept'
    BY <2>1, DropCounts DEF IInv, TypeOK, CapacityKept, Release
  <2>5. WaitIsFutile'
    BY DEF WaitIsFutile, Release
  <2> QED BY <2>2, <2>3, <2>4, <2>5 DEF IInv
<1>3. CASE ~(Len(avail) < MaxConnections)
  <2>1. avail' = avail /\ Len(avail) = MaxConnections
    BY <1>3, PoolAssumption DEF IInv, TypeOK, Release
  <2>2. TypeOK'
    BY <2>1 DEF IInv, TypeOK, Release, Take
  <2>3. Exclusive'
    BY <2>1 DEF IInv, TypeOK, Exclusive, Release, Take, Holders, InUse, Available
  <2>4. CapacityKept'
    <3>1. Cardinality(Holders') \in Nat
      BY DropCounts DEF IInv, Release
    <3>2. total' \in 0 .. MaxConnections
      BY <2>2 DEF TypeOK
    <3> QED BY <2>1, <3>1, <3>2, PoolAssumption DEF CapacityKept
  <2>5. WaitIsFutile'
    BY DEF WaitIsFutile, Release
  <2> QED BY <2>2, <2>3, <2>4, <2>5 DEF IInv
<1> QED BY <1>2, <1>3

\* Close starts the count again.
LEMMA CloseInv ==
  ASSUME IInv, Close
  PROVE  IInv'
<1>1. TypeOK' /\ Exclusive' /\ WaitIsFutile'
  BY PoolAssumption
     DEF IInv, TypeOK, Exclusive, WaitIsFutile, Close, Holders, InUse, Available
<1>2. Cardinality(Holders') \in Nat
  BY PoolAssumption, FS_Subset, FS_CardinalityType DEF Holders
<1>3. CapacityKept'
  BY <1>2 DEF CapacityKept, Close
<1> QED BY <1>1, <1>3 DEF IInv

\* No step breaks the invariant.
LEMMA StepInv == IInv /\ [Next]_vars => IInv'
<1> SUFFICES ASSUME IInv, [Next]_vars PROVE IInv'
  OBVIOUS
<1>1. CASE UNCHANGED vars
  <2>1. TypeOK' /\ Exclusive' /\ WaitIsFutile'
    BY <1>1 DEF IInv, TypeOK, Exclusive, WaitIsFutile, vars, Holders, InUse, Available
  <2>2. CapacityKept'
    BY <1>1 DEF IInv, CapacityKept, vars, Holders
  <2> QED BY <2>1, <2>2 DEF IInv
<1> QED
  BY <1>1, GetAvailableInv, GetNewInv, GetWaitInv, GetWaitEndsInv, ReleaseInv,
     CloseInv DEF Next, Get

\* The invariant holds throughout.
THEOREM Invariance == Spec => []IInv
  BY InitInv, StepInv, PTL DEF Spec

\* The state has its types, and who waits for the pool has no connection.
THEOREM TypeCorrect == Spec => []TypeOK
<1>1. IInv => TypeOK
  BY DEF IInv
<1> QED BY <1>1, Invariance, PTL

\* No connection is ever in two places, for any number of users.
THEOREM ExclusiveAlways == Spec => []Exclusive
<1>1. IInv => Exclusive
  BY DEF IInv
<1> QED BY <1>1, Invariance, PTL

\* The pool never loses capacity.
THEOREM CapacityAlways == Spec => []CapacityKept
<1>1. IInv => CapacityKept
  BY DEF IInv
<1> QED BY <1>1, Invariance, PTL

\* Waiting for a connection never succeeds.
THEOREM WaitingIsFutile == Spec => []WaitIsFutile
<1>1. IInv => WaitIsFutile
  BY DEF IInv
<1> QED BY <1>1, Invariance, PTL
=============================================================================

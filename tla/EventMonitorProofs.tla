------------------------- MODULE EventMonitorProofs -------------------------
(***************************************************************************)
(* Proofs about EventMonitor: the type invariant and the accuracy of the   *)
(* feed, for every capacity of the queue, and what a shutdown leaves.      *)
(***************************************************************************)
EXTENDS EventMonitor, TLAPS

\* A poll compares listed domains only.
TodoListed == \A d \in todo : listed[d] # Absent

\* What FeedAccurate says of one domain.
Accurate(d) ==
    /\ \A i \in DOMAIN queue : Latest(d, i) => queue[i].type \in RightTypes(d)
    /\ (\A i \in DOMAIN queue : queue[i].domain # d) => heard[d] \in RightTypes(d)

\* main takes the steps of its shutdown in order: a goroutine ends only when it
\* was told to, and main is down only when no bus runs.
ShutdownOrdered ==
    /\ mon = "ended" => MonitorDone
    /\ bus = "ended" => BusDone
    /\ stage = "down" => bus # "running"

IInv == TypeOK /\ TodoListed /\ FeedAccurate

-----------------------------------------------------------------------------

LEMMA TypesRight ==
    ASSUME NEW s \in States
    PROVE  stateToEventType(s) \in Types /\ s # Absent
  BY MonitorAssumption DEF stateToEventType, Types, DomainStates

LEMMA PublishTypes ==
    ASSUME TypeOK, NEW d \in Domains \cup {NoDomain}, NEW type \in Types,
           Publish(d, type)
    PROVE  /\ queue' \in Seq(Events) /\ Len(queue') <= Capacity
           /\ lost' \subseteq Domains \cup {NoDomain}
<1>1. [domain |-> d, type |-> type] \in Events
  BY DEF Events
<1> QED
  BY <1>1, MonitorAssumption DEF TypeOK, Publish

\* Publishing about d says nothing about the others.
LEMMA PublishOthers ==
    ASSUME TypeOK, NEW d \in Domains \cup {NoDomain}, NEW type \in Types,
           Publish(d, type), UNCHANGED heard,
           NEW e \in Domains, e # d, e \notin lost', UNCHANGED stateCache[e],
           FeedAccurate
    PROVE  Accurate(e)'
<1>1. e \notin lost /\ Accurate(e)
  BY DEF Publish, FeedAccurate, Accurate
<1>2. RightTypes(e)' = RightTypes(e)
  BY DEF RightTypes
<1>3. CASE UNCHANGED queue
  BY <1>1, <1>2, <1>3 DEF Accurate, Latest
<1>4. CASE queue' = Append(queue, [domain |-> d, type |-> type])
  <2> DEFINE n == Len(queue)
  <2>1. /\ n \in Nat /\ DOMAIN queue = 1 .. n /\ DOMAIN queue' = 1 .. n + 1
        /\ \A i \in 1 .. n : queue'[i] = queue[i]
        /\ queue'[n + 1].domain = d
    BY <1>4 DEF TypeOK
  <2> HIDE DEF n
  <2>2. ASSUME NEW i \in DOMAIN queue', Latest(e, i)'
        PROVE  queue'[i].type \in RightTypes(e)'
    <3>1. i \in 1 .. n
      BY <2>1, <2>2 DEF Latest
    <3>2. Latest(e, i)
      BY <2>1, <2>2, <3>1 DEF Latest
    <3> QED
      BY <1>1, <1>2, <2>1, <3>1, <3>2 DEF Accurate
  <2>3. ASSUME \A i \in DOMAIN queue' : queue'[i].domain # e
        PROVE  heard'[e] \in RightTypes(e)'
    <3>1. \A i \in DOMAIN queue : queue[i].domain # e
      BY <2>1, <2>3
    <3> QED
      BY <1>1, <1>2, <3>1 DEF Accurate
  <2> QED
    BY <2>2, <2>3 DEF Accurate
<1> QED
  BY <1>3, <1>4 DEF Publish

\* Publishing a type that is right about d, if nothing is lost.
LEMMA PublishRight ==
    ASSUME TypeOK, NEW d \in Domains, NEW type \in Types, Publish(d, type),
           d \notin lost', type \in RightTypes(d)'
    PROVE  Accurate(d)'
<1> DEFINE n == Len(queue)
<1>1. queue' = Append(queue, [domain |-> d, type |-> type])
  BY DEF Publish
<1>2. /\ n \in Nat /\ DOMAIN queue' = 1 .. n + 1
      /\ queue'[n + 1].domain = d /\ queue'[n + 1].type = type
  BY <1>1 DEF TypeOK
<1> HIDE DEF n
<1>3. ASSUME NEW i \in DOMAIN queue', Latest(d, i)'
      PROVE  i = n + 1
  BY <1>2, <1>3 DEF Latest
<1> QED
  BY <1>2, <1>3 DEF Accurate

-----------------------------------------------------------------------------

LEMMA InitIInv == Init => IInv
  BY MonitorAssumption
  DEF Init, IInv, TypeOK, TodoListed, FeedAccurate, RightTypes, Latest, Types

\* Steps that touch neither the cache nor the feed.
LEMMA QuietKeeps ==
    ASSUME IInv, UNCHANGED <<stateCache, heard, feed>>, TypeOK', TodoListed'
    PROVE  IInv'
  BY DEF IInv, FeedAccurate, Latest, RightTypes, feed

\* A step that publishes about d, and writes the cache of d only.
LEMMA PublishKeeps ==
    ASSUME IInv, TypeOK', TodoListed', UNCHANGED heard,
           NEW d \in Domains \cup {NoDomain}, NEW type \in Types, Publish(d, type),
           \A e \in Domains \ {d} : stateCache'[e] = stateCache[e],
           d \in Domains => type \in RightTypes(d)'
    PROVE  IInv'
<1>1. ASSUME NEW e \in Domains, e \notin lost'
      PROVE  Accurate(e)'
  <2>1. CASE e = d
    BY <1>1, <2>1, PublishRight DEF IInv
  <2>2. CASE e # d
    BY <1>1, <2>2, PublishOthers DEF IInv
  <2> QED
    BY <2>1, <2>2
<1> QED
  BY <1>1 DEF IInv, FeedAccurate, Accurate

LEMMA CompareKeeps ==
    ASSUME IInv, NEW d \in Domains, Compare(d)
    PROVE  IInv'
<1>1. listed[d] \in States /\ stateToEventType(listed[d]) \in Types /\ listed[d] # Absent
  BY TypesRight DEF IInv, TypeOK, TodoListed, Compare
<1>2. stateCache'[d] = listed[d] /\ \A e \in Domains \ {d} : stateCache'[e] = stateCache[e]
  BY DEF IInv, TypeOK, Compare
<1>3. TodoListed'
  BY DEF IInv, TypeOK, TodoListed, Compare
<1>4. CASE stateCache[d] = listed[d]
  <2>1. UNCHANGED <<stateCache, heard, feed>>
    BY <1>4 DEF Compare, IInv, TypeOK
  <2>2. TypeOK'
    BY <2>1 DEF Compare, IInv, TypeOK, feed
  <2> QED
    BY <1>3, <2>1, <2>2, QuietKeeps
<1>5. CASE stateCache[d] # listed[d]
  <2>1. Publish(d, stateToEventType(listed[d])) /\ UNCHANGED heard
    BY <1>5 DEF Compare
  <2>2. /\ queue' \in Seq(Events) /\ Len(queue') <= Capacity
        /\ lost' \subseteq Domains \cup {NoDomain}
    BY <1>1, <2>1, PublishTypes DEF IInv
  <2>3. TypeOK'
    BY <2>2 DEF Compare, IInv, TypeOK
  <2>4. stateToEventType(listed[d]) \in RightTypes(d)'
    BY <1>1, <1>2 DEF RightTypes
  <2> QED
    BY <1>1, <1>2, <1>3, <2>1, <2>3, <2>4, PublishKeeps
<1> QED
  BY <1>4, <1>5

LEMMA VanishKeeps ==
    ASSUME IInv, NEW d \in Domains, Vanish(d)
    PROVE  IInv'
<1>1. stateCache'[d] = Absent /\ \A e \in Domains \ {d} : stateCache'[e] = stateCache[e]
  BY DEF IInv, TypeOK, Vanish
<1>2. "domain_stopped" \in Types /\ Publish(d, "domain_stopped") /\ UNCHANGED heard
  BY DEF Vanish, Types
<1>3. /\ queue' \in Seq(Events) /\ Len(queue') <= Capacity
      /\ lost' \subseteq Domains \cup {NoDomain}
  BY <1>2, PublishTypes DEF IInv
<1>4. TypeOK' /\ TodoListed'
  BY <1>3 DEF Vanish, IInv, TypeOK, TodoListed
<1>5. "domain_stopped" \in RightTypes(d)'
  BY <1>1 DEF RightTypes
<1> QED
  BY <1>1, <1>2, <1>4, <1>5, PublishKeeps

LEMMA ListFailsKeeps ==
    ASSUME IInv, ListFails
    PROVE  IInv'
<1>1. "connection_lost" \in Types /\ Publish(NoDomain, "connection_lost") /\ UNCHANGED heard
  BY DEF ListFails, Types
<1>2. /\ queue' \in Seq(Events) /\ Len(queue') <= Capacity
      /\ lost' \subseteq Domains \cup {NoDomain}
  BY <1>1, PublishTypes DEF IInv
<1>3. TypeOK' /\ TodoListed' /\ UNCHANGED stateCache
  BY <1>2 DEF ListFails, IInv, TypeOK, TodoListed
<1> QED
  BY <1>1, <1>3, PublishKeeps, MonitorAssumption

\* The event that leaves the queue becomes the last one dispatched.
LEMMA DispatchKeeps ==
    ASSUME IInv, Dispatch
    PROVE  IInv'
<1> DEFINE n == Len(queue)
<1>1. /\ n \in Nat /\ n > 0 /\ queue[1] \in Events /\ Head(queue) = queue[1]
      /\ DOMAIN queue = 1 .. n /\ DOMAIN queue' = 1 .. n - 1
      /\ \A i \in 1 .. n - 1 : queue'[i] = queue[i + 1]
      /\ queue' \in Seq(Events) /\ Len(queue') = n - 1
  BY DEF IInv, TypeOK, Dispatch
<1>2. TypeOK' /\ TodoListed'
  <2>1. heard' \in [Domains -> Types \cup {"none"}]
    BY <1>1 DEF Dispatch, IInv, TypeOK, Events
  <2> QED
    BY <1>1, <2>1, MonitorAssumption DEF Dispatch, IInv, TypeOK, TodoListed, monitor
<1> HIDE DEF n
<1>3. ASSUME NEW e \in Domains, e \notin lost'
      PROVE  Accurate(e)'
  <2>1. e \notin lost /\ Accurate(e) /\ RightTypes(e)' = RightTypes(e)
    BY <1>3 DEF Dispatch, IInv, FeedAccurate, Accurate, RightTypes, monitor
  <2>2. heard'[e] = IF e = queue[1].domain THEN queue[1].type ELSE heard[e]
    BY <1>1 DEF Dispatch
  <2>3. ASSUME NEW i \in DOMAIN queue', Latest(e, i)'
        PROVE  queue'[i].type \in RightTypes(e)'
    <3>1. i \in 1 .. n - 1 /\ i + 1 \in 1 .. n /\ queue'[i] = queue[i + 1]
      BY <1>1, <2>3
    <3>2. ASSUME NEW j \in 1 .. n, j > i + 1 PROVE queue[j].domain # e
      <4>1. j - 1 \in 1 .. n - 1 /\ j - 1 > i /\ queue'[j - 1] = queue[(j - 1) + 1]
        BY <1>1, <3>1, <3>2
      <4>2. (j - 1) + 1 = j
        BY <3>2
      <4> QED
        BY <1>1, <2>3, <4>1, <4>2 DEF Latest
    <3>3. Latest(e, i + 1)
      BY <1>1, <2>3, <3>1, <3>2 DEF Latest
    <3> QED
      BY <1>1, <2>1, <3>1, <3>3 DEF Accurate
  <2>4. ASSUME \A i \in DOMAIN queue' : queue'[i].domain # e
        PROVE  heard'[e] \in RightTypes(e)'
    <3>1. ASSUME NEW j \in 1 .. n, j > 1 PROVE queue[j].domain # e
      <4>1. j - 1 \in 1 .. n - 1 /\ queue'[j - 1] = queue[(j - 1) + 1]
        BY <1>1, <3>1
      <4>2. (j - 1) + 1 = j
        BY <3>1
      <4> QED
        BY <1>1, <2>4, <4>1, <4>2
    <3>2. CASE queue[1].domain = e
      <4>1. 1 \in DOMAIN queue /\ Latest(e, 1)
        BY <1>1, <3>1, <3>2 DEF Latest
      <4> QED
        BY <2>1, <2>2, <3>2, <4>1 DEF Accurate
    <3>3. CASE queue[1].domain # e
      <4>1. \A j \in DOMAIN queue : queue[j].domain # e
        BY <1>1, <3>1, <3>3
      <4> QED
        BY <2>1, <2>2, <3>3, <4>1 DEF Accurate
    <3> QED
      BY <3>2, <3>3
  <2> QED
    BY <2>3, <2>4 DEF Accurate
<1> QED
  BY <1>2, <1>3 DEF IInv, FeedAccurate, Accurate

LEMMA StepKeeps == IInv /\ [Next]_vars => IInv'
<1> SUFFICES ASSUME IInv, [Next]_vars PROVE IInv'
  OBVIOUS
<1>1. ASSUME Begin \/ Tick \/ MonitorEnd \/ Listed \/ PollEnd PROVE IInv'
  <2>1. UNCHANGED <<stateCache, heard, feed>>
    BY <1>1 DEF Begin, Tick, MonitorEnd, Listed, PollEnd
  <2>2. TypeOK' /\ TodoListed'
    BY <1>1
    DEF IInv, TypeOK, TodoListed, Begin, Tick, MonitorEnd, Listed, PollEnd, feed
  <2> QED
    BY <2>1, <2>2, QuietKeeps
<1>2. ASSUME BusEnd \/ Signal \/ MonitorStopped \/ BusStopped \/ UNCHANGED vars
      PROVE  IInv'
  <2>1. UNCHANGED <<stateCache, heard, feed>>
    BY <1>2 DEF BusEnd, Signal, MonitorStopped, BusStopped, vars, monitor
  <2>2. TypeOK' /\ TodoListed'
    BY <1>2
    DEF IInv, TypeOK, TodoListed, BusEnd, Signal, MonitorStopped, BusStopped, vars,
        monitor, feed
  <2> QED
    BY <2>1, <2>2, QuietKeeps
<1> QED
  BY <1>1, <1>2, CompareKeeps, VanishKeeps, ListFailsKeeps, DispatchKeeps DEF Next, Poll

THEOREM Invariance == Spec => []IInv
  BY InitIInv, StepKeeps, PTL DEF Spec

\* The state has its types; the queue never holds more than its capacity.
THEOREM TypeCorrect == Spec => []TypeOK
  BY Invariance, PTL DEF IInv

\* The last word about a domain that lost no event is right, for every capacity.
THEOREM FeedRight == Spec => []FeedAccurate
  BY Invariance, PTL DEF IInv

LEMMA InitOrdered == Init => ShutdownOrdered
  BY DEF Init, ShutdownOrdered

LEMMA StepOrdered == ShutdownOrdered /\ TypeOK /\ [Next]_vars => ShutdownOrdered'
<1> SUFFICES ASSUME ShutdownOrdered, TypeOK, [Next]_vars PROVE ShutdownOrdered'
  OBVIOUS
<1> USE DEF ShutdownOrdered, MonitorDone, BusDone
<1>1. ASSUME Begin \/ MonitorEnd \/ Poll PROVE ShutdownOrdered'
  BY <1>1 DEF Begin, MonitorEnd, Poll, Tick, Listed, ListFails, PollEnd, Compare, Vanish
<1>2. ASSUME Dispatch \/ BusEnd PROVE ShutdownOrdered'
  BY <1>2 DEF Dispatch, BusEnd, monitor
<1>3. ASSUME Signal \/ MonitorStopped PROVE ShutdownOrdered'
  BY <1>3 DEF Signal, MonitorStopped, monitor
<1>4. ASSUME BusStopped PROVE ShutdownOrdered'
  BY <1>4 DEF BusStopped, monitor
<1>5. CASE UNCHANGED vars
  BY <1>5 DEF vars, monitor
<1> QED
  BY <1>1, <1>2, <1>3, <1>4, <1>5 DEF Next

\* When main is down no listener is called any more and no bus comes back, even
\* if the goroutine of the monitor is scheduled only now and publishes.
DownIsQuiet == [][stage = "down" => UNCHANGED <<stage, bus, heard>>]_vars

\* The shutdown of the server leaves nobody who calls listeners.
THEOREM ShutdownQuiet == Spec => []ShutdownOrdered /\ DownIsQuiet
<1>1. ShutdownOrdered /\ [Next]_vars => [stage = "down" => UNCHANGED <<stage, bus, heard>>]_vars
  <2> SUFFICES ASSUME ShutdownOrdered, [Next]_vars, stage = "down"
               PROVE  UNCHANGED <<stage, bus, heard>>
    OBVIOUS
  <2>1. bus # "running"
    BY DEF ShutdownOrdered
  <2>2. ASSUME Begin \/ MonitorEnd \/ Poll PROVE UNCHANGED <<stage, bus, heard>>
    BY <2>2 DEF Begin, MonitorEnd, Poll, Tick, Listed, ListFails, PollEnd, Compare, Vanish
  <2>3. ~(Dispatch \/ BusEnd \/ Signal \/ MonitorStopped \/ BusStopped)
    BY <2>1 DEF Dispatch, BusEnd, Signal, MonitorStopped, BusStopped
  <2> QED
    BY <2>2, <2>3 DEF Next, vars
<1> QED
  BY <1>1, InitOrdered, StepOrdered, TypeCorrect, PTL DEF Spec, DownIsQuiet
=============================================================================

---------------------------- MODULE EventMonitor ----------------------------
(***************************************************************************)
(* EventMonitor and EventBus of backend/internal/libvirt/events.go, and    *)
(* the part of cmd/server/main.go that starts and stops them.  The monitor *)
(* polls the list of domains, compares it with its cache and publishes an  *)
(* event for each difference; the bus queues the events and hands them to  *)
(* listeners.                                                              *)
(*                                                                         *)
(* The calls of the listeners run on goroutines of their own, touch no     *)
(* state of the bus and may end in any order; `heard' is what the bus gave *)
(* them last.                                                              *)
(***************************************************************************)
EXTENDS Naturals, Sequences

CONSTANTS
    Domains,    \* names of domains
    States,     \* the states the hypervisor reports in an instance
    Absent,     \* the state of a domain that is not listed, or not cached
    NoDomain,   \* the domain of an event about the connection
    Capacity    \* bufferSize of NewEventBus

DomainStates == {"nostate", "running", "blocked", "paused", "shutdown",
                 "shutoff", "crashed", "pmsuspend"}

ASSUME MonitorAssumption ==
    /\ States \subseteq DomainStates /\ Absent \notin DomainStates
    /\ NoDomain \notin Domains
    /\ Capacity \in Nat \ {0}

VARIABLES
    stage,      \* how far main is: serving, and the two Stops of its end
    mon,        \* the goroutine of EventMonitor.Start
    listed,     \* the latest answer of ListDomains
    todo,       \* the listed domains the poll has yet to compare
    stateCache, \* EventMonitor.stateCache
    queue,      \* EventBus.queue
    bus,        \* the goroutine of EventBus.Start, if anybody starts it
    heard,      \* history: the type of the last event dispatched per domain
    lost        \* history: the domains whose latest event was dropped

monitor == <<mon, listed, todo, stateCache>>
feed    == <<queue, lost>>
vars    == <<stage, monitor, bus, heard, feed>>

Types  == {"domain_started", "domain_stopped", "domain_paused",
           "domain_crashed", "connection_lost", ""}
Events == [domain : Domains \cup {NoDomain}, type : Types]

\* The types of the state; the channel holds no more than it was made for.
TypeOK ==
    /\ stage \in {"serving", "stopMonitor", "stopBus", "down"}
    /\ mon \in {"unborn", "waiting", "listing", "comparing", "ended"}
    /\ listed \in [Domains -> States \cup {Absent}]
    /\ todo \subseteq Domains
    /\ stateCache \in [Domains -> States \cup {Absent}]
    /\ queue \in Seq(Events) /\ Len(queue) <= Capacity
    /\ bus \in {"off", "running", "ended"}
    /\ heard \in [Domains -> Types \cup {"none"}]
    /\ lost \subseteq Domains \cup {NoDomain}

\* EventMonitor.stateToEventType.
stateToEventType(s) ==
    CASE s = "running" -> "domain_started"
      [] s = "paused"  -> "domain_paused"
      [] s = "shutoff" -> "domain_stopped"
      [] s = "crashed" -> "domain_crashed"
      [] OTHER         -> ""

\* The server starts no bus, other users of the package may.
Init ==
    /\ stage = "serving" /\ mon = "unborn" /\ bus \in {"off", "running"}
    /\ listed = [d \in Domains |-> Absent] /\ todo = {}
    /\ stateCache = [d \in Domains |-> Absent]
    /\ queue = <<>> /\ heard = [d \in Domains |-> "none"] /\ lost = {}

MonitorDone == stage # "serving"
BusDone     == stage \in {"stopBus", "down"}

-----------------------------------------------------------------------------
(* Publishing.                                                             *)

\* Mistake (Next does not use it): Publish waits for room in the queue.
PublishBlocking(d, type) ==
    /\ Len(queue) < Capacity
    /\ queue' = Append(queue, [domain |-> d, type |-> type])
    /\ lost' = lost \ {d}

\* Mistake: Publish does not look at the length of the queue.
PublishUnbounded(d, type) ==
    /\ Len(queue) <= Capacity
    /\ queue' = Append(queue, [domain |-> d, type |-> type])
    /\ lost' = lost \ {d}

\* EventBus.Publish never waits: the event goes into the queue, or nowhere if
\* the queue is full; when the bus is closed as well, select takes either case.
Publish(d, type) ==
    \/ /\ Len(queue) < Capacity
       /\ queue' = Append(queue, [domain |-> d, type |-> type])
       /\ lost' = lost \ {d}
    \/ /\ Len(queue) = Capacity \/ BusDone
       /\ lost' = lost \cup {d}
       /\ UNCHANGED queue

-----------------------------------------------------------------------------
(* The goroutine of the monitor.                                           *)

\* `go eventMonitor.Start' is scheduled, perhaps after Stop.
Begin ==
    /\ mon = "unborn" /\ mon' = "waiting"
    /\ UNCHANGED <<stage, listed, todo, stateCache, bus, heard, feed>>

\* The ticker fires; select may take it even when done is closed.
Tick ==
    /\ mon = "waiting" /\ mon' = "listing"
    /\ UNCHANGED <<stage, listed, todo, stateCache, bus, heard, feed>>

\* Start finds done closed.
MonitorEnd ==
    /\ mon = "waiting" /\ MonitorDone /\ mon' = "ended"
    /\ UNCHANGED <<stage, listed, todo, stateCache, bus, heard, feed>>

\* pollDomainStates has a list of domains and locks the mutex.
Listed ==
    /\ mon = "listing" /\ mon' = "comparing"
    /\ listed' \in [Domains -> States \cup {Absent}]
    /\ todo' = {d \in Domains : listed'[d] # Absent}
    /\ UNCHANGED <<stage, stateCache, bus, heard, feed>>

\* ... or no list: the cache stays as it is.
ListFails ==
    /\ mon = "listing" /\ mon' = "waiting"
    /\ Publish(NoDomain, "connection_lost")
    /\ UNCHANGED <<stage, listed, todo, stateCache, bus, heard>>

\* Mistake: only domains new to the cache are published.
CompareNew(d) ==
    /\ mon = "comparing" /\ d \in todo
    /\ todo' = todo \ {d}
    /\ stateCache' = [stateCache EXCEPT ![d] = listed[d]]
    /\ IF stateCache[d] # Absent
       THEN UNCHANGED feed
       ELSE Publish(d, stateToEventType(listed[d]))
    /\ UNCHANGED <<stage, mon, listed, bus, heard>>

\* One round of the first loop.  The cache is written before Publish, whose
\* error nobody reads.
Compare(d) ==
    /\ mon = "comparing" /\ d \in todo
    /\ todo' = todo \ {d}
    /\ stateCache' = [stateCache EXCEPT ![d] = listed[d]]
    /\ IF stateCache[d] = listed[d]
       THEN UNCHANGED feed
       ELSE Publish(d, stateToEventType(listed[d]))
    /\ UNCHANGED <<stage, mon, listed, bus, heard>>

\* Mistake: the second loop looks for vanished domains among those shut off.
GoneShutoff ==
    {d \in Domains : listed[d] = Absent /\ stateCache[d] = "shutoff"}

\* What the second loop takes out of the cache; a domain that was shut off
\* stays there when it is undefined.
Gone == {d \in Domains : /\ listed[d] = Absent
                         /\ stateCache[d] \notin {Absent, "shutoff"}}

\* One round of the second loop that finds such a domain.
Vanish(d) ==
    /\ mon = "comparing" /\ todo = {} /\ d \in Gone
    /\ stateCache' = [stateCache EXCEPT ![d] = Absent]
    /\ Publish(d, "domain_stopped")
    /\ UNCHANGED <<stage, mon, listed, todo, bus, heard>>

\* pollDomainStates unlocks the mutex.
PollEnd ==
    /\ mon = "comparing" /\ todo = {} /\ Gone = {} /\ mon' = "waiting"
    /\ UNCHANGED <<stage, listed, todo, stateCache, bus, heard, feed>>

-----------------------------------------------------------------------------
(* The goroutine of the bus, and the end of main.                          *)

\* EventBus.Start takes an event and dispatches it.
Dispatch ==
    /\ bus = "running" /\ queue # <<>>
    /\ queue' = Tail(queue)
    /\ heard' = [d \in Domains |-> IF d = Head(queue).domain
                                   THEN Head(queue).type ELSE heard[d]]
    /\ UNCHANGED <<stage, monitor, bus, lost>>

\* It finds done closed; events in the queue are dropped with it.
BusEnd ==
    /\ bus = "running" /\ BusDone /\ bus' = "ended"
    /\ UNCHANGED <<stage, monitor, heard, feed>>

\* main gets a signal and closes done of the monitor,
Signal ==
    /\ stage = "serving" /\ stage' = "stopMonitor"
    /\ UNCHANGED <<monitor, bus, heard, feed>>

\* ... waits for the goroutine of the monitor and closes done of the bus,
MonitorStopped ==
    /\ stage = "stopMonitor" /\ mon \in {"unborn", "ended"}
    /\ stage' = "stopBus"
    /\ UNCHANGED <<monitor, bus, heard, feed>>

\* ... and waits for the goroutine of the bus.
BusStopped ==
    /\ stage = "stopBus" /\ bus \in {"off", "ended"}
    /\ stage' = "down"
    /\ UNCHANGED <<monitor, bus, heard, feed>>

Poll == \/ Tick \/ Listed \/ ListFails \/ PollEnd
        \/ \E d \in Domains : Compare(d) \/ Vanish(d)

Next ==
    \/ Begin \/ MonitorEnd \/ Poll
    \/ Dispatch \/ BusEnd
    \/ Signal \/ MonitorStopped \/ BusStopped

\* The goroutines run, the ticker ticks, ListDomains answers; a select that
\* finds done closed again and again takes it in the end.
Fairness ==
    /\ WF_vars(Begin) /\ WF_vars(Poll) /\ SF_vars(MonitorEnd)
    /\ WF_vars(Dispatch) /\ SF_vars(BusEnd)
    /\ WF_vars(MonitorStopped) /\ WF_vars(BusStopped)

Spec == Init /\ [][Next]_vars /\ Fairness

-----------------------------------------------------------------------------
(* What must hold.                                                         *)

\* The event types that are right about a domain the cache holds as it does.
RightTypes(d) == IF stateCache[d] = Absent
                 THEN {"none", "domain_stopped"}
                 ELSE {stateToEventType(stateCache[d])}

Latest(d, i) == /\ queue[i].domain = d
                /\ \A j \in DOMAIN queue : j > i => queue[j].domain # d

\* The feed is right: unless the latest event of a domain was dropped, the
\* last word about it, in the queue or dispatched, is the state that the cache
\* holds.  A drop is repaired by the next change of that domain only.
FeedAccurate ==
    \A d \in Domains \ lost :
        /\ \A i \in DOMAIN queue : Latest(d, i) => queue[i].type \in RightTypes(d)
        /\ (\A i \in DOMAIN queue : queue[i].domain # d)
           => heard[d] \in RightTypes(d)

\* A shutdown ends: neither Stop waits for ever, full queue or not.
ShutdownEnds == stage = "stopMonitor" ~> stage = "down"

\* While the bus runs, a domain that stays in one state and loses no event is
\* reported in that state in the end.
Informed ==
    \A d \in Domains, s \in States \cup {Absent} :
        <>[](stage = "serving" /\ bus = "running" /\ listed[d] = s /\ d \notin lost)
        => <>[](heard[d] \in IF s = Absent THEN {"none", "domain_stopped"}
                             ELSE {stateToEventType(s)})
=============================================================================

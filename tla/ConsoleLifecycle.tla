-------------------------- MODULE ConsoleLifecycle --------------------------
(***************************************************************************)
(* What the console package promises of a session, without locks, requests *)
(* or time: Create -> Connect -> Active -> Disconnect -> Close.  A session *)
(* is created under a free id, connected at most once, leaves the registry *)
(* before it is closed, and is closed for good; a session that left the    *)
(* registry does not stay open.                                            *)
(***************************************************************************)
CONSTANTS SessionIDs, Sessions, NoSession

VARIABLES
    registry,   \* the session registered under each id, or NoSession
    phase       \* "closed" is also the phase of an object not in use

vars == <<registry, phase>>

InRegistry(s) == \E k \in SessionIDs : registry[k] = s

Init ==
    /\ registry = [k \in SessionIDs |-> NoSession]
    /\ phase = [s \in Sessions |-> "closed"]

Create(k, s) ==
    /\ registry[k] = NoSession
    /\ phase[s] = "closed"
    /\ registry' = [registry EXCEPT ![k] = s]
    /\ phase' = [phase EXCEPT ![s] = "created"]

Establish(s) ==
    /\ phase[s] = "created"
    /\ phase' = [phase EXCEPT ![s] = "connected"]
    /\ UNCHANGED registry

Retire(k) ==
    /\ registry[k] # NoSession
    /\ registry' = [registry EXCEPT ![k] = NoSession]
    /\ UNCHANGED phase

Finish(s) ==
    /\ phase[s] # "closed"
    /\ ~InRegistry(s)
    /\ phase' = [phase EXCEPT ![s] = "closed"]
    /\ UNCHANGED registry

Next ==
    \/ \E k \in SessionIDs : Retire(k) \/ \E s \in Sessions : Create(k, s)
    \/ \E s \in Sessions : Establish(s) \/ Finish(s)

SafeSpec == Init /\ [][Next]_vars

Spec == SafeSpec /\ \A s \in Sessions : WF_vars(Finish(s))
=============================================================================

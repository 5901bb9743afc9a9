--------------------------- MODULE ConsoleManager ---------------------------
(***************************************************************************)
(* The registry of console sessions (backend/internal/console): the        *)
(* ConsoleManager and its sessions map, the ConsoleSession objects, the    *)
(* VNCProxy each session owns, the HTTP handlers that use them, each on a  *)
(* goroutine of its own, and the cleanup goroutine.                        *)
(*                                                                         *)
(* Locks.  cm.mu is `cmMu'.  A goroutine that needs cs.mu or vp.mu for one *)
(* assignment takes and releases it inside one action; only Connect keeps  *)
(* both while it does something slow, the TCP dial, so `dialer[s]' stands  *)
(* for the owner of s's cs.mu and vp.mu.                                   *)
(*                                                                         *)
(* Time.  `idle[s]' is the age of s.lastActivity in ticks, cut off at      *)
(* IdleTimeout + 1; that age also stands for the zero time of a session    *)
(* that never was active.                                                  *)
(***************************************************************************)
EXTENDS Naturals

CONSTANTS
    SessionIDs,   \* the session ids clients use (path value session_id)
    Sessions,     \* ConsoleSession objects; an unreferenced one is reused
    Requests,     \* goroutines serving HTTP requests
    Cleaner,      \* the goroutine of StartCleanupRoutine
    Nobody,       \* owner of a free lock
    NoSession,    \* "not in the map", and a goroutine's nil session
    IdleTimeout   \* ticks of inactivity after which a session is stale

ASSUME ConsoleAssumption ==
    /\ Cleaner \notin Requests
    /\ Nobody \notin Requests \cup {Cleaner}
    /\ NoSession \notin Sessions
    /\ IdleTimeout \in Nat

VARIABLES
    sessions,     \* ConsoleManager.sessions
    cmMu,         \* owner of ConsoleManager.mu
    closed,       \* ConsoleSession.closed
    isConnected,  \* VNCProxy.isConnected
    remote,       \* VNCProxy.remoteConn: nil, open, dropped by the VM, shut
    idle,         \* age of ConsoleSession.lastActivity
    dialer,       \* owner of the session's cs.mu and vp.mu during a dial
    pc,           \* where each goroutine is
    id,           \* the session id of each request
    sess,         \* the session each goroutine has in hand
    todo,         \* ids the running CleanupInactive has yet to visit
    expired,      \* sessions that were stale at its `now'
    overtaken     \* history: the session it is about to remove was connected
                  \* or used since it was tested; no guard reads this

manager == <<sessions, cmMu>>
object  == <<closed, isConnected, remote, idle>>
control == <<pc, id, sess>>
cleanup == <<todo, expired, overtaken>>
vars    == <<manager, object, dialer, control, cleanup>>

Actors == Requests \cup {Cleaner}
Ages   == 0 .. IdleTimeout + 1

RequestPC == {"idle", "create", "connect", "dial", "delete", "close",
              "get", "decode", "activity", "route", "peek", "stats"}
CleanupLoop == {"scan", "test", "age", "remove", "close"}
CleanerPC == {"idle", "lock"} \cup CleanupLoop

\* Where a goroutine is about to use the session it has in hand.
InHand == {"connect", "dial", "close", "decode", "activity", "route", "stats",
           "test", "age", "remove"}

\* The types of the state; no goroutine dereferences a nil session.
TypeOK ==
    /\ sessions \in [SessionIDs -> Sessions \cup {NoSession}]
    /\ cmMu \in Actors \cup {Nobody}
    /\ closed \in [Sessions -> BOOLEAN]
    /\ isConnected \in [Sessions -> BOOLEAN]
    /\ remote \in [Sessions -> {"none", "open", "lost", "shut"}]
    /\ idle \in [Sessions -> Ages]
    /\ dialer \in [Sessions -> Requests \cup {Nobody}]
    /\ pc \in [Actors -> RequestPC \cup CleanerPC]
    /\ \A t \in Requests : pc[t] \in RequestPC
    /\ pc[Cleaner] \in CleanerPC
    /\ id \in [Requests -> SessionIDs]
    /\ sess \in [Actors -> Sessions \cup {NoSession}]
    /\ todo \subseteq SessionIDs
    /\ expired \subseteq Sessions
    /\ overtaken \in BOOLEAN
    /\ \A a \in Actors : pc[a] \in InHand => sess[a] # NoSession

Registered(s) == \E k \in SessionIDs : sessions[k] = s
Referenced(s) == Registered(s) \/ \E a \in Actors : sess[a] = s
ManagerFree   == cmMu = Nobody
SessionFree(s) == dialer[s] = Nobody

\* No session exists yet: unused objects look like closed ones.
Init ==
    /\ sessions = [k \in SessionIDs |-> NoSession]
    /\ cmMu = Nobody
    /\ closed = [s \in Sessions |-> TRUE]
    /\ isConnected = [s \in Sessions |-> FALSE]
    /\ remote = [s \in Sessions |-> "none"]
    /\ idle = [s \in Sessions |-> IdleTimeout + 1]
    /\ dialer = [s \in Sessions |-> Nobody]
    /\ pc = [a \in Actors |-> "idle"]
    /\ id \in [Requests -> SessionIDs]
    /\ sess = [a \in Actors |-> NoSession]
    /\ todo = {}
    /\ expired = {}
    /\ overtaken = FALSE

-----------------------------------------------------------------------------
(* Steps shared by the handlers.                                           *)

Goto(a, label) == pc' = [pc EXCEPT ![a] = label]

\* The handler returns: its goroutine holds no session any more.
Return(t) ==
    /\ Goto(t, "idle")
    /\ sess' = [sess EXCEPT ![t] = NoSession]

\* NewConsoleSession: open, not connected, lastActivity the zero time.
NewConsoleSession(s) ==
    /\ closed' = [closed EXCEPT ![s] = FALSE]
    /\ isConnected' = [isConnected EXCEPT ![s] = FALSE]
    /\ remote' = [remote EXCEPT ![s] = "none"]
    /\ idle' = [idle EXCEPT ![s] = IdleTimeout + 1]

\* ConsoleSession.Close with VNCProxy.Close, under cs.mu and vp.mu.
Close(s) ==
    /\ SessionFree(s)
    /\ IF closed[s]
       THEN UNCHANGED <<closed, isConnected, remote>>
       ELSE /\ closed' = [closed EXCEPT ![s] = TRUE]
            /\ IF remote[s] = "none"
               THEN UNCHANGED <<isConnected, remote>>
               ELSE /\ isConnected' = [isConnected EXCEPT ![s] = FALSE]
                    /\ remote' = [remote EXCEPT ![s] = "shut"]

\* ConsoleSession.IsActive, under cs.mu and vp.mu.
IsActive(s) == ~closed[s] /\ isConnected[s]

\* Mistake (Next does not use it): a cleanup that runs decides by the
\* ages it found when it read the clock.
TouchUnseen(s) ==
    /\ idle' = [idle EXCEPT ![s] = 0]
    /\ expired' = expired
    /\ overtaken' = (overtaken \/ (pc[Cleaner] = "remove" /\ sess[Cleaner] = s))

\* lastActivity = time.Now(): young, and not stale for a running cleanup.
Touch(s) ==
    /\ idle' = [idle EXCEPT ![s] = 0]
    /\ expired' = expired \ {s}
    /\ overtaken' = (overtaken \/ (pc[Cleaner] = "remove" /\ sess[Cleaner] = s))

-----------------------------------------------------------------------------
(* Mistakes this code could have contained; Next uses none of them.        *)

\* CreateSession without its test for an existing id.
CreateSessionUnchecked(t) ==
    /\ pc[t] = "create"
    /\ ManagerFree
    /\ \E s \in Sessions :
          /\ ~Referenced(s)
          /\ NewConsoleSession(s)
          /\ sessions' = [sessions EXCEPT ![id[t]] = s]
          /\ sess' = [sess EXCEPT ![t] = s]
    /\ Goto(t, "connect")
    /\ UNCHANGED <<cmMu, dialer, id, cleanup>>

\* Connect without its test of closed.
ConnectUnchecked(t) ==
    /\ pc[t] = "connect"
    /\ SessionFree(sess[t])
    /\ dialer' = [dialer EXCEPT ![sess[t]] = t]
    /\ Goto(t, "dial")
    /\ UNCHANGED <<manager, object, id, sess, cleanup>>

\* A failed dial returns without unlocking the session.
DialFailLocked(t) ==
    /\ pc[t] = "dial"
    /\ Goto(t, "delete")
    /\ UNCHANGED <<manager, object, dialer, id, sess, cleanup>>

\* GetSession without its test for a missing id.
GetSessionUnchecked(t) ==
    /\ pc[t] \in {"get", "peek"}
    /\ ManagerFree
    /\ sess' = [sess EXCEPT ![t] = sessions[id[t]]]
    /\ Goto(t, IF pc[t] = "get" THEN "decode" ELSE "stats")
    /\ UNCHANGED <<manager, object, dialer, id, cleanup>>

\* CloseSession only deletes the entry.
CloseRemovedNot(t) ==
    /\ pc[t] = "close"
    /\ SessionFree(sess[t])
    /\ cmMu' = Nobody
    /\ Return(t)
    /\ UNCHANGED <<sessions, object, dialer, id, cleanup>>

\* The cleanup closes a session but leaves it in the map.
CleanupRemoveKeeps ==
    /\ pc[Cleaner] = "remove"
    /\ overtaken' = FALSE
    /\ Goto(Cleaner, "close")
    /\ UNCHANGED <<manager, object, dialer, id, sess, todo, expired>>

\* The cleanup only looks at IsActive.
CleanupAgeUntimed ==
    /\ pc[Cleaner] = "age"
    /\ sess' = [sess EXCEPT ![Cleaner] = NoSession]
    /\ Goto(Cleaner, "scan")
    /\ UNCHANGED <<manager, object, dialer, id, cleanup>>

-----------------------------------------------------------------------------
(* HTTP requests.                                                          *)

\* A request for id k arrives: connect, disconnect, message or stats.
Arrive(t, k) ==
    /\ pc[t] = "idle"
    /\ id' = [id EXCEPT ![t] = k]
    /\ \E op \in {"create", "delete", "get", "peek"} : Goto(t, op)
    /\ UNCHANGED <<manager, object, dialer, sess, cleanup>>

\* HandleConnect calls CreateSession: 409 when the id is in the map.
CreateSession(t) ==
    /\ pc[t] = "create"
    /\ ManagerFree
    /\ \/ /\ sessions[id[t]] # NoSession
          /\ Return(t)
          /\ UNCHANGED <<sessions, object>>
       \/ /\ sessions[id[t]] = NoSession
          /\ \E s \in Sessions :
                /\ ~Referenced(s)
                /\ NewConsoleSession(s)
                /\ sessions' = [sessions EXCEPT ![id[t]] = s]
                /\ sess' = [sess EXCEPT ![t] = s]
          /\ Goto(t, "connect")
    /\ UNCHANGED <<cmMu, dialer, id, cleanup>>

\* ConsoleSession.Connect takes cs.mu: a closed session is an error, which
\* HandleConnect answers with CloseSession(sessionID); otherwise it dials.
Connect(t) ==
    /\ pc[t] = "connect"
    /\ SessionFree(sess[t])
    /\ \/ /\ closed[sess[t]]
          /\ Goto(t, "delete")
          /\ UNCHANGED dialer
       \/ /\ ~closed[sess[t]]
          /\ dialer' = [dialer EXCEPT ![sess[t]] = t]
          /\ Goto(t, "dial")
    /\ UNCHANGED <<manager, object, id, sess, cleanup>>

\* VNCProxy.Connect succeeds; Connect sets lastActivity and unlocks.
DialOk(t) ==
    /\ pc[t] = "dial"
    /\ isConnected' = [isConnected EXCEPT ![sess[t]] = TRUE]
    /\ remote' = [remote EXCEPT ![sess[t]] = "open"]
    /\ Touch(sess[t])
    /\ dialer' = [dialer EXCEPT ![sess[t]] = Nobody]
    /\ Return(t)
    /\ UNCHANGED <<manager, closed, id, todo>>

\* The dial is refused, or the 10 s context or the client's request ends:
\* HandleConnect goes on to CloseSession(sessionID).
DialFail(t) ==
    /\ pc[t] = "dial"
    /\ dialer' = [dialer EXCEPT ![sess[t]] = Nobody]
    /\ Goto(t, "delete")
    /\ UNCHANGED <<manager, object, id, sess, cleanup>>

\* CloseSession(sessionID), from HandleDisconnect or a failed HandleConnect:
\* removes whatever session the id names now and keeps cm.mu to close it.
CloseSession(t) ==
    /\ pc[t] = "delete"
    /\ ManagerFree
    /\ \/ /\ sessions[id[t]] = NoSession
          /\ Return(t)
          /\ UNCHANGED <<manager>>
       \/ /\ sessions[id[t]] # NoSession
          /\ cmMu' = t
          /\ sess' = [sess EXCEPT ![t] = sessions[id[t]]]
          /\ sessions' = [sessions EXCEPT ![id[t]] = NoSession]
          /\ Goto(t, "close")
    /\ UNCHANGED <<object, dialer, id, cleanup>>

\* ... session.Close() waits for cs.mu, then CloseSession releases cm.mu.
CloseRemoved(t) ==
    /\ pc[t] = "close"
    /\ Close(sess[t])
    /\ cmMu' = Nobody
    /\ Return(t)
    /\ UNCHANGED <<sessions, idle, dialer, id, cleanup>>

\* GetSession, for a message ("get") or for the statistics ("peek").
GetSession(t) ==
    /\ pc[t] \in {"get", "peek"}
    /\ ManagerFree
    /\ \/ /\ sessions[id[t]] = NoSession
          /\ Return(t)
       \/ /\ sessions[id[t]] # NoSession
          /\ sess' = [sess EXCEPT ![t] = sessions[id[t]]]
          /\ Goto(t, IF pc[t] = "get" THEN "decode" ELSE "stats")
    /\ UNCHANGED <<manager, object, dialer, id, cleanup>>

\* HandleMessage reads the body, with no lock: it goes on with a valid one ...
DecodeMessage(t) ==
    /\ pc[t] = "decode"
    /\ Goto(t, "activity")
    /\ UNCHANGED <<manager, object, dialer, id, sess, cleanup>>

\* ... and answers 400 to any other.
RejectMessage(t) ==
    /\ pc[t] = "decode"
    /\ Return(t)
    /\ UNCHANGED <<manager, object, dialer, id, cleanup>>

\* UpdateActivity, whatever became of the session; then a key, pointer or
\* statistics message goes on, an unknown or invalid one is answered 400.
UpdateActivity(t) ==
    /\ pc[t] = "activity"
    /\ SessionFree(sess[t])
    /\ Touch(sess[t])
    /\ Return(t) \/ (Goto(t, "route") /\ UNCHANGED sess)
    /\ UNCHANGED <<manager, closed, isConnected, remote, dialer, id, todo>>

\* HandleKeyEvent, HandlePointerEvent or GetStats under the session's locks;
\* the reply tells whether the proxy is connected.
Reply(t) ==
    /\ pc[t] \in {"route", "stats"}
    /\ SessionFree(sess[t])
    /\ Return(t)
    /\ UNCHANGED <<manager, object, dialer, id, cleanup>>

-----------------------------------------------------------------------------
(* The cleanup goroutine.                                                  *)

\* The ticker fires.
CleanupTick ==
    /\ pc[Cleaner] = "idle"
    /\ Goto(Cleaner, "lock")
    /\ UNCHANGED <<manager, object, dialer, id, sess, cleanup>>

\* CleanupInactive takes cm.mu and reads the clock.
CleanupStart ==
    /\ pc[Cleaner] = "lock"
    /\ ManagerFree
    /\ cmMu' = Cleaner
    /\ todo' = {k \in SessionIDs : sessions[k] # NoSession}
    /\ expired' = {s \in Sessions : idle[s] > IdleTimeout}
    /\ Goto(Cleaner, "scan")
    /\ UNCHANGED <<sessions, object, dialer, id, sess, overtaken>>

\* The loop comes to its next entry.
CleanupVisit(k) ==
    /\ pc[Cleaner] = "scan"
    /\ k \in todo
    /\ todo' = todo \ {k}
    /\ sess' = [sess EXCEPT ![Cleaner] = sessions[k]]
    /\ Goto(Cleaner, "test")
    /\ UNCHANGED <<manager, object, dialer, id, expired, overtaken>>

\* !session.IsActive(): cs.mu is free again when the answer is used.
CleanupTest ==
    /\ pc[Cleaner] = "test"
    /\ SessionFree(sess[Cleaner])
    /\ Goto(Cleaner, IF IsActive(sess[Cleaner]) THEN "age" ELSE "remove")
    /\ UNCHANGED <<manager, object, dialer, id, sess, cleanup>>

\* ... || now.Sub(session.lastActivity) > timeout, without cs.mu.
CleanupAge ==
    /\ pc[Cleaner] = "age"
    /\ \/ /\ sess[Cleaner] \in expired
          /\ Goto(Cleaner, "remove")
          /\ UNCHANGED sess
       \/ /\ sess[Cleaner] \notin expired
          /\ sess' = [sess EXCEPT ![Cleaner] = NoSession]
          /\ Goto(Cleaner, "scan")
    /\ UNCHANGED <<manager, object, dialer, id, cleanup>>

\* delete(cm.sessions, sessionID), whatever was done to the session meanwhile.
CleanupRemove ==
    /\ pc[Cleaner] = "remove"
    /\ \E k \in SessionIDs :
          /\ sessions[k] = sess[Cleaner]
          /\ sessions' = [sessions EXCEPT ![k] = NoSession]
    /\ overtaken' = FALSE
    /\ Goto(Cleaner, "close")
    /\ UNCHANGED <<cmMu, object, dialer, id, sess, todo, expired>>

\* ... and its session.Close().
CleanupClose ==
    /\ pc[Cleaner] = "close"
    /\ Close(sess[Cleaner])
    /\ sess' = [sess EXCEPT ![Cleaner] = NoSession]
    /\ Goto(Cleaner, "scan")
    /\ UNCHANGED <<manager, idle, dialer, id, cleanup>>

\* Every entry was visited: CleanupInactive returns.
CleanupEnd ==
    /\ pc[Cleaner] = "scan"
    /\ todo = {}
    /\ cmMu' = Nobody
    /\ expired' = {}
    /\ Goto(Cleaner, "idle")
    /\ UNCHANGED <<sessions, object, dialer, id, sess, todo, overtaken>>

-----------------------------------------------------------------------------
(* The environment.                                                        *)

\* The VM's side of the TCP connection goes away; nobody reads the socket.
RemoteDrop(s) ==
    /\ remote[s] = "open"
    /\ remote' = [remote EXCEPT ![s] = "lost"]
    /\ UNCHANGED <<manager, closed, isConnected, idle, dialer, control, cleanup>>

\* Time passes.
Tick ==
    /\ \E s \in Sessions : idle[s] <= IdleTimeout
    /\ idle' = [s \in Sessions |->
                  IF idle[s] <= IdleTimeout THEN idle[s] + 1 ELSE idle[s]]
    /\ UNCHANGED <<manager, closed, isConnected, remote, dialer, control, cleanup>>

-----------------------------------------------------------------------------

\* The request steps that need cm.mu ...
Acquire(t) == CreateSession(t) \/ CloseSession(t) \/ GetSession(t)

\* ... and those that need nothing, or only a lock a dial can hold.
Proceed(t) == \/ Connect(t) \/ DialOk(t) \/ DialFail(t) \/ CloseRemoved(t)
              \/ DecodeMessage(t) \/ RejectMessage(t) \/ UpdateActivity(t)
              \/ Reply(t)

CleanupProceed == \/ \E k \in SessionIDs : CleanupVisit(k)
                  \/ CleanupTest \/ CleanupAge \/ CleanupRemove
                  \/ CleanupClose \/ CleanupEnd

Next ==
    \/ \E t \in Requests : \/ \E k \in SessionIDs : Arrive(t, k)
                           \/ Acquire(t)
                           \/ Proceed(t)
    \/ CleanupTick \/ CleanupStart \/ CleanupProceed
    \/ \E s \in Sessions : RemoteDrop(s)
    \/ Tick

Spec == Init /\ [][Next]_vars

\* A Go mutex is starvation free, so whoever waits for cm.mu while it is free
\* again and again gets it: strong fairness.  Dials end (10 s context), the
\* other steps only need their goroutine to be scheduled, and the ticker never
\* stops and neither does time: weak fairness.  Requests need not arrive and VMs
\* need not drop their connections.
Fairness ==
    /\ \A t \in Requests : SF_vars(Acquire(t)) /\ WF_vars(Proceed(t))
    /\ SF_vars(CleanupStart)
    /\ WF_vars(CleanupTick) /\ WF_vars(CleanupProceed) /\ WF_vars(Tick)

FairSpec == Spec /\ Fairness

-----------------------------------------------------------------------------
(* What must hold.                                                         *)

BeingClosed(s) == \E a \in Actors : pc[a] = "close" /\ sess[a] = s

\* No session leaks.  A session that is not closed, so every session with a
\* TCP connection to a VM or a dial under way, can be reached by its id or is
\* in the hands of the goroutine that is about to close it - whatever the
\* order in which connects, disconnects and the cleanup meet.
NoOrphan ==
    \A s \in Sessions :
        /\ ~closed[s] => Registered(s) \/ BeingClosed(s)
        /\ remote[s] \in {"open", "lost"} \/ ~SessionFree(s) => ~closed[s]

\* The map only offers usable sessions: an id never names a closed session,
\* and no session is registered under two ids.
RegistryUsable ==
    \A k \in SessionIDs : sessions[k] # NoSession =>
        /\ ~closed[sessions[k]]
        /\ \A j \in SessionIDs : sessions[j] = sessions[k] => j = k

\* Goroutine a is about to take a lock that goroutine b has.
WaitsFor(a, b) ==
    \/ pc[a] \in {"create", "delete", "get", "peek", "lock"} /\ cmMu = b
    \/ pc[a] \in {"connect", "close", "activity", "route", "stats", "test"}
       /\ dialer[sess[a]] = b

\* Nobody waits in a circle, although cm.mu is kept while cs.mu is waited for:
\* whoever is waited for dials, which ends by itself, or has cm.mu and waits for
\* nobody but one who dials.  In particular no lock is left behind by a goroutine
\* that went on.
NoCircularWait ==
    \A a, b \in Actors : WaitsFor(a, b) =>
        \/ pc[b] = "dial"
        \/ pc[b] \in CleanupLoop /\ \A c \in Actors : WaitsFor(b, c) => pc[c] = "dial"

\* Closing is final.  While any goroutine still holds a closed session (a
\* connect that was overtaken by a disconnect or by the cleanup), the session
\* stays closed and no TCP connection is opened for it.
ClosedIsFinal ==
    [][\A s \in Sessions : closed[s] /\ Referenced(s) =>
          closed'[s] /\ remote'[s] = remote[s]]_vars

\* The cleanup tests a session under cs.mu, reads its age without, and deletes
\* it later; connects and messages need only cs.mu, so they come in between,
\* and the clock it compares with was read before its loop.  Still it takes a
\* connected session that has not been idle for longer than the timeout out of
\* the map only if the session was connected or used after it had been judged:
\* a connect or a message that came before saves its session.
CleanupJustified ==
    [][\A k \in SessionIDs :
          /\ cmMu = Cleaner /\ sessions[k] # NoSession /\ sessions'[k] = NoSession
          /\ ~overtaken
          => ~isConnected[sessions[k]] \/ idle[sessions[k]] > IdleTimeout]_vars

\* Every request is answered, whatever the cleanup, the other requests and
\* their dials do: waiting for cm.mu while its owner waits for cs.mu, which a
\* dial holds, ends.
RequestsReturn == \A t \in Requests : pc[t] # "idle" ~> pc[t] = "idle"

\* A registered session that is idle beyond the timeout does not stay: it is
\* closed or it becomes active again.
StaleSessionGoes ==
    \A s \in Sessions :
        ~closed[s] /\ idle[s] > IdleTimeout ~> closed[s] \/ idle[s] <= IdleTimeout

\* The refinement mapping to what the package promises of one session: the
\* map is the registry, the flags of a session are its phase.
Lifecycle == INSTANCE ConsoleLifecycle WITH
    registry <- sessions,
    phase <- [s \in Sessions |-> IF closed[s] THEN "closed"
                                 ELSE IF isConnected[s] THEN "connected"
                                 ELSE "created"]

\* The locked, interleaved code implements the lifecycle, and a session that
\* was taken out of the map is always closed in the end.
ImplementsLifecycle == Lifecycle!Spec
=============================================================================

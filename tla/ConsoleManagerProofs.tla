------------------------ MODULE ConsoleManagerProofs ------------------------
(***************************************************************************)
(* Proofs about ConsoleManager for every number of ids, sessions and       *)
(* requests and every timeout.  All of them rest on one inductive          *)
(* invariant, IInv, whose parts say who owns which lock and which session. *)
(***************************************************************************)
EXTENDS ConsoleManager, TLAPS

\* cm.mu is owned by the request that closes a session or by the cleanup during
\* its loop, and by nobody else.
ManagerOwned ==
    /\ \A t \in Requests : cmMu = t <=> pc[t] = "close"
    /\ cmMu = Cleaner <=> pc[Cleaner] \in CleanupLoop

\* A session's locks are taken exactly by the request that dials for it.
DialOwned ==
    \A t \in Requests, s \in Sessions :
        dialer[s] = t <=> pc[t] = "dial" /\ sess[t] = s

\* Only the request that created a session connects it, and only once; a dial
\* is never under way for a closed session.
ConnectOwned ==
    \A t \in Requests : pc[t] \in {"connect", "dial"} =>
        /\ remote[sess[t]] = "none"
        /\ pc[t] = "dial" => ~closed[sess[t]]
        /\ \A u \in Requests :
              u # t /\ pc[u] \in {"connect", "dial"} => sess[u] # sess[t]

\* isConnected says that there is a connection Close has not shut, and a
\* closed session has none.
ConnectionKnown ==
    \A s \in Sessions :
        /\ isConnected[s] <=> remote[s] \in {"open", "lost"}
        /\ isConnected[s] => ~closed[s]

\* A session about to be closed is out of the map, and every open session is
\* in the map or about to be closed.
RemovedFirst ==
    /\ \A a \in Actors : pc[a] = "close" => ~Registered(sess[a])
    /\ \A s \in Sessions : ~closed[s] => Registered(s) \/ BeingClosed(s)

\* The loop of the cleanup only visits entries that are in the map, the one it
\* looks at is still there and not visited again, and it calls stale only what
\* is still stale.
CleanupKnows ==
    /\ pc[Cleaner] \in CleanupLoop => \A k \in todo : sessions[k] # NoSession
    /\ pc[Cleaner] \in {"test", "age", "remove"} =>
          Registered(sess[Cleaner]) /\ \A k \in todo : sessions[k] # sess[Cleaner]
    /\ \A s \in expired : idle[s] > IdleTimeout

\* The session about to be removed is stale or not connected, unless somebody
\* connected or used it since that was found.
Judged ==
    pc[Cleaner] = "remove" /\ ~overtaken =>
        ~isConnected[sess[Cleaner]] \/ idle[sess[Cleaner]] > IdleTimeout

IInv == /\ TypeOK /\ ManagerOwned /\ DialOwned /\ ConnectOwned
        /\ ConnectionKnown /\ RemovedFirst /\ RegistryUsable /\ CleanupKnows /\ Judged

-----------------------------------------------------------------------------
(* One lemma for each action: it preserves every part of the invariant.    *)

\* What does not touch the cleanup, the map, a flag or an age keeps what the
\* cleanup knows.
LEMMA CleanupUndisturbed ==
  ASSUME IInv, UNCHANGED <<sessions, idle, todo, expired, overtaken>>,
         \A s \in Sessions : isConnected'[s] => isConnected[s],
         pc'[Cleaner] = pc[Cleaner], sess'[Cleaner] = sess[Cleaner]
  PROVE  CleanupKnows' /\ Judged'
<1>1. pc[Cleaner] = "remove" => sess[Cleaner] \in Sessions
  BY DEF IInv, TypeOK, InHand, Actors
<1> QED BY <1>1 DEF IInv, CleanupKnows, Judged, Registered

\* Without cm.mu a step finds the cleanup outside its loop.
LEMMA CleanupOutside ==
  ASSUME IInv, ManagerFree, pc'[Cleaner] = pc[Cleaner],
         \A s \in expired' : idle'[s] > IdleTimeout
  PROVE  CleanupKnows' /\ Judged'
<1>1. pc[Cleaner] \notin CleanupLoop
  BY ConsoleAssumption DEF IInv, ManagerOwned, ManagerFree
<1> QED BY <1>1 DEF CleanupKnows, Judged, CleanupLoop

\* A new request only notes what it asks for.
LEMMA ArriveInv ==
  ASSUME NEW t \in Requests, NEW k \in SessionIDs, IInv, Arrive(t, k)
  PROVE  IInv'
<1> USE DEF IInv, Arrive, Goto, manager, object, cleanup
<1>1. TypeOK'
  BY ConsoleAssumption
     DEF TypeOK, Actors, Ages, RequestPC, CleanerPC, CleanupLoop, InHand
<1>2. DialOwned' /\ ConnectOwned' /\ ConnectionKnown' /\ RemovedFirst' /\
     RegistryUsable'
  BY DEF DialOwned, ConnectOwned, ConnectionKnown, RemovedFirst,
         RegistryUsable, Registered, BeingClosed, Actors
<1>3. ManagerOwned'
  BY ConsoleAssumption DEF ManagerOwned, TypeOK, Actors, CleanupLoop
<1>4. CleanupKnows' /\ Judged'
  <2>1. pc'[Cleaner] = pc[Cleaner] /\ sess'[Cleaner] = sess[Cleaner]
    BY ConsoleAssumption DEF TypeOK, Actors
  <2> QED BY <2>1, CleanupUndisturbed
<1> QED BY <1>1, <1>2, <1>3, <1>4

\* CreateSession: the session taken is nobody's, so no lock is held for it, nobody
\* connects it and nobody is about to close it.
LEMMA CreateSessionInv ==
  ASSUME NEW t \in Requests, IInv, CreateSession(t)
  PROVE  IInv'
<1> USE DEF IInv, CreateSession, Goto, Return, NewConsoleSession, Referenced,
        Registered, Actors, ManagerFree, object, cleanup
<1>1. TypeOK'
  <2>1. CASE sessions[id[t]] # NoSession
    BY <2>1 DEF TypeOK, Ages, RequestPC, CleanerPC, CleanupLoop, InHand
  <2>2. CASE sessions[id[t]] = NoSession
    <3>1. PICK s \in Sessions :
             /\ NewConsoleSession(s)
             /\ sessions' = [sessions EXCEPT ![id[t]] = s]
             /\ sess' = [sess EXCEPT ![t] = s]
      BY <2>2
    <3>2. pc' = [pc EXCEPT ![t] = "connect"]
      BY <2>2
    <3>3. UNCHANGED <<cmMu, dialer, id, cleanup>>
      OBVIOUS
    <3> HIDE DEF CreateSession
    <3> QED
      BY <3>1, <3>2, <3>3, ConsoleAssumption
         DEF TypeOK, Ages, RequestPC, CleanerPC, CleanupLoop, InHand
  <2> QED BY <2>1, <2>2
<1>2. ManagerOwned'
  BY ConsoleAssumption DEF ManagerOwned, TypeOK, Actors, CleanupLoop
<1>3. DialOwned'
  BY DEF DialOwned, TypeOK
<1>4. ConnectOwned'
  BY DEF ConnectOwned, TypeOK, InHand
<1>5. ConnectionKnown'
  BY DEF ConnectionKnown, TypeOK
<1>6. RemovedFirst'
  BY ConsoleAssumption DEF RemovedFirst, TypeOK, BeingClosed
<1>7. RegistryUsable'
  BY DEF RegistryUsable, TypeOK
<1>8. CleanupKnows' /\ Judged'
  <2>1. pc'[Cleaner] = pc[Cleaner]
    BY ConsoleAssumption DEF TypeOK, Actors
  <2>2. \A s \in expired' : idle'[s] > IdleTimeout
    BY ConsoleAssumption DEF CleanupKnows, TypeOK
  <2> QED BY <2>1, <2>2, CleanupOutside DEF ManagerFree
<1> QED BY <1>1, <1>2, <1>3, <1>4, <1>5, <1>6, <1>7, <1>8

\* Connect takes the locks of an open session, or gives up on a closed one.
LEMMA ConnectInv ==
  ASSUME NEW t \in Requests, IInv, Connect(t)
  PROVE  IInv'
<1> USE DEF IInv, Connect, Goto, SessionFree, manager, object, cleanup
<1>1. TypeOK'
  BY ConsoleAssumption
     DEF TypeOK, Actors, Ages, RequestPC, CleanerPC, CleanupLoop, InHand
<1>2. ManagerOwned'
  BY ConsoleAssumption DEF ManagerOwned, TypeOK, Actors, CleanupLoop
<1>3. DialOwned'
  BY ConsoleAssumption DEF DialOwned, TypeOK, Actors
<1>4. ConnectOwned'
  BY DEF ConnectOwned, TypeOK, Actors
<1>5. RemovedFirst'
  BY DEF RemovedFirst, TypeOK, Registered, BeingClosed, Actors
<1>6. CleanupKnows' /\ Judged'
  <2>1. pc'[Cleaner] = pc[Cleaner] /\ sess'[Cleaner] = sess[Cleaner]
    BY ConsoleAssumption DEF TypeOK, Actors
  <2> QED BY <2>1, CleanupUndisturbed
<1>7. ConnectionKnown' /\ RegistryUsable'
  BY DEF ConnectionKnown, RegistryUsable
<1> QED BY <1>1, <1>2, <1>3, <1>4, <1>5, <1>6, <1>7

\* A dial only ever ends for a session that is still open.
LEMMA DialOkInv ==
  ASSUME NEW t \in Requests, IInv, DialOk(t)
  PROVE  IInv'
<1> USE DEF IInv, DialOk, Return, Goto, Touch, manager
<1>1. TypeOK'
  BY ConsoleAssumption
     DEF TypeOK, Actors, Ages, RequestPC, CleanerPC, CleanupLoop, InHand
<1>2. DialOwned'
  BY ConsoleAssumption DEF DialOwned, TypeOK, Actors
<1>3. ConnectOwned'
  BY DEF ConnectOwned, TypeOK, Actors
<1>4. ConnectionKnown'
  BY DEF ConnectionKnown, TypeOK, ConnectOwned, Actors
<1>5. ManagerOwned'
  BY ConsoleAssumption DEF ManagerOwned, TypeOK, Actors, CleanupLoop
<1>6. RemovedFirst' /\ RegistryUsable'
  BY DEF RemovedFirst, RegistryUsable, Registered, BeingClosed, Actors
<1>7. CleanupKnows' /\ Judged'
  <2>1. pc'[Cleaner] = pc[Cleaner] /\ sess'[Cleaner] = sess[Cleaner]
    BY ConsoleAssumption DEF TypeOK, Actors
  <2>2. CleanupKnows'
    BY <2>1 DEF CleanupKnows, Registered, TypeOK
  <2>3. Judged'
    BY <2>1 DEF Judged, TypeOK, InHand, Actors
  <2> QED BY <2>2, <2>3
<1> QED BY <1>1, <1>2, <1>3, <1>4, <1>5, <1>6, <1>7

\* A failed dial releases the locks.
LEMMA DialFailInv ==
  ASSUME NEW t \in Requests, IInv, DialFail(t)
  PROVE  IInv'
<1> USE DEF IInv, DialFail, Goto, manager, object, cleanup
<1>1. TypeOK'
  BY ConsoleAssumption
     DEF TypeOK, Actors, Ages, RequestPC, CleanerPC, CleanupLoop, InHand
<1>2. DialOwned'
  BY ConsoleAssumption DEF DialOwned, TypeOK, Actors
<1>3. ConnectOwned' /\ ConnectionKnown' /\ RemovedFirst' /\ RegistryUsable'
  BY DEF ConnectOwned, ConnectionKnown, RemovedFirst, RegistryUsable,
         Registered, BeingClosed, Actors
<1>4. ManagerOwned'
  BY ConsoleAssumption DEF ManagerOwned, TypeOK, Actors, CleanupLoop
<1>5. CleanupKnows' /\ Judged'
  <2>1. pc'[Cleaner] = pc[Cleaner] /\ sess'[Cleaner] = sess[Cleaner]
    BY ConsoleAssumption DEF TypeOK, Actors
  <2> QED BY <2>1, CleanupUndisturbed
<1> QED BY <1>1, <1>2, <1>3, <1>4, <1>5

\* CloseSession takes a session out of the map; as no other id names it, it is
\* out for good.
LEMMA CloseSessionInv ==
  ASSUME NEW t \in Requests, IInv, CloseSession(t)
  PROVE  IInv'
<1> USE DEF IInv, CloseSession, Goto, Return, ManagerFree, manager, object, cleanup
<1>1. TypeOK'
  BY ConsoleAssumption
     DEF TypeOK, Actors, Ages, RequestPC, CleanerPC, CleanupLoop, InHand
<1>2. ManagerOwned'
  BY ConsoleAssumption DEF ManagerOwned, TypeOK, Actors, CleanupLoop
<1>3. DialOwned'
  BY DEF DialOwned, TypeOK, Actors
<1>4. ConnectOwned'
  BY DEF ConnectOwned, TypeOK, Actors
<1>5. RemovedFirst'
  BY DEF RemovedFirst, TypeOK, RegistryUsable, Registered, BeingClosed, Actors,
         InHand
<1>6. RegistryUsable'
  BY DEF RegistryUsable, TypeOK, Actors
<1>7. CleanupKnows' /\ Judged'
  <2>1. pc'[Cleaner] = pc[Cleaner]
    BY ConsoleAssumption DEF TypeOK, Actors
  <2>2. \A s \in expired' : idle'[s] > IdleTimeout
    BY ConsoleAssumption DEF CleanupKnows, TypeOK
  <2> QED BY <2>1, <2>2, CleanupOutside DEF ManagerFree
<1>8. ConnectionKnown'
  BY DEF ConnectionKnown
<1> QED BY <1>1, <1>2, <1>3, <1>4, <1>5, <1>6, <1>7, <1>8

\* The session closed is out of the map, and nobody dials for it.
LEMMA CloseRemovedInv ==
  ASSUME NEW t \in Requests, IInv, CloseRemoved(t)
  PROVE  IInv'
<1> USE DEF IInv, CloseRemoved, Return, Goto, Close, SessionFree, cleanup
<1>1. TypeOK'
  BY ConsoleAssumption
     DEF TypeOK, Actors, Ages, RequestPC, CleanerPC, CleanupLoop, InHand
<1>2. ManagerOwned'
  BY ConsoleAssumption DEF ManagerOwned, TypeOK, Actors
<1>3. ConnectOwned'
  BY ConsoleAssumption DEF ConnectOwned, TypeOK, DialOwned, Actors, InHand
<1>4. ConnectionKnown'
  BY DEF ConnectionKnown, TypeOK, Actors
<1>5. RemovedFirst'
  BY DEF RemovedFirst, TypeOK, Registered, BeingClosed, Actors
<1>6. RegistryUsable'
  BY DEF RegistryUsable, TypeOK, RemovedFirst, Registered, BeingClosed, Actors
<1>7. DialOwned'
  BY DEF DialOwned
<1>8. CleanupKnows' /\ Judged'
  <2>1. pc'[Cleaner] = pc[Cleaner] /\ sess'[Cleaner] = sess[Cleaner]
    BY ConsoleAssumption DEF TypeOK, Actors
  <2>2. \A s \in Sessions : isConnected'[s] => isConnected[s]
    BY DEF TypeOK
  <2> QED BY <2>1, <2>2, CleanupUndisturbed
<1> QED BY <1>1, <1>2, <1>3, <1>4, <1>5, <1>6, <1>7, <1>8

\* GetSession hands out a registered session.
LEMMA GetSessionInv ==
  ASSUME NEW t \in Requests, IInv, GetSession(t)
  PROVE  IInv'
<1> USE DEF IInv, GetSession, Goto, Return, ManagerFree, manager, object, cleanup
<1>1. TypeOK'
  BY ConsoleAssumption
     DEF TypeOK, Actors, Ages, RequestPC, CleanerPC, CleanupLoop, InHand
<1>2. ManagerOwned'
  BY ConsoleAssumption DEF ManagerOwned, TypeOK, Actors, CleanupLoop
<1>3. DialOwned'
  BY DEF DialOwned, TypeOK, Actors
<1>4. ConnectOwned'
  BY DEF ConnectOwned, TypeOK, Actors
<1>5. RemovedFirst'
  BY DEF RemovedFirst, TypeOK, Registered, BeingClosed, Actors
<1>6. CleanupKnows' /\ Judged'
  <2>1. pc'[Cleaner] = pc[Cleaner] /\ sess'[Cleaner] = sess[Cleaner]
    BY ConsoleAssumption DEF TypeOK, Actors
  <2> QED BY <2>1, CleanupUndisturbed
<1>7. ConnectionKnown' /\ RegistryUsable'
  BY DEF ConnectionKnown, RegistryUsable
<1> QED BY <1>1, <1>2, <1>3, <1>4, <1>5, <1>6, <1>7

\* UpdateActivity makes a session young, also for a cleanup that is under way.
LEMMA UpdateActivityInv ==
  ASSUME NEW t \in Requests, IInv, UpdateActivity(t)
  PROVE  IInv'
<1> USE DEF IInv, UpdateActivity, Goto, Touch, SessionFree, manager
<1>0. PICK l \in {"idle", "route"}, h \in Sessions \cup {NoSession} :
         /\ pc' = [pc EXCEPT ![t] = l] /\ sess' = [sess EXCEPT ![t] = h]
         /\ l = "route" => h # NoSession
  <2>1. sess[t] \in Sessions /\ sess = [sess EXCEPT ![t] = sess[t]]
    BY ConsoleAssumption DEF TypeOK, InHand, Actors
  <2> QED BY <2>1, ConsoleAssumption DEF Return
<1>1. TypeOK'
  BY <1>0, ConsoleAssumption
     DEF TypeOK, Actors, Ages, RequestPC, CleanerPC, CleanupLoop, InHand
<1>2. ManagerOwned'
  BY <1>0, ConsoleAssumption DEF ManagerOwned, TypeOK, Actors, CleanupLoop
<1>3. DialOwned' /\ ConnectOwned' /\ ConnectionKnown' /\ RemovedFirst' /\
     RegistryUsable'
  BY <1>0, ConsoleAssumption
     DEF DialOwned, ConnectOwned, ConnectionKnown, RemovedFirst, RegistryUsable,
         Registered, BeingClosed, TypeOK, Actors
<1>4. CleanupKnows' /\ Judged'
  <2>1. pc'[Cleaner] = pc[Cleaner] /\ sess'[Cleaner] = sess[Cleaner]
    BY <1>0, ConsoleAssumption DEF TypeOK, Actors
  <2>2. CleanupKnows'
    BY <2>1 DEF CleanupKnows, Registered, TypeOK
  <2>3. Judged'
    BY <2>1 DEF Judged, TypeOK, InHand, Actors
  <2> QED BY <2>2, <2>3
<1> QED BY <1>1, <1>2, <1>3, <1>4

\* A decoded message changes nothing.
LEMMA DecodeMessageInv ==
  ASSUME NEW t \in Requests, IInv, DecodeMessage(t)
  PROVE  IInv'
<1> USE DEF IInv, DecodeMessage, Goto, manager, object, cleanup
<1>1. TypeOK'
  BY ConsoleAssumption
     DEF TypeOK, Actors, Ages, RequestPC, CleanerPC, CleanupLoop, InHand
<1>2. DialOwned' /\ ConnectOwned' /\ ConnectionKnown' /\ RemovedFirst' /\
     RegistryUsable'
  BY ConsoleAssumption DEF DialOwned, ConnectOwned, ConnectionKnown,
         RemovedFirst, RegistryUsable, Registered, BeingClosed,
         TypeOK, Actors
<1>3. ManagerOwned'
  BY ConsoleAssumption DEF ManagerOwned, TypeOK, Actors, CleanupLoop
<1>4. CleanupKnows' /\ Judged'
  <2>1. pc'[Cleaner] = pc[Cleaner] /\ sess'[Cleaner] = sess[Cleaner]
    BY ConsoleAssumption DEF TypeOK, Actors
  <2> QED BY <2>1, CleanupUndisturbed
<1> QED BY <1>1, <1>2, <1>3, <1>4

\* A rejected message changes nothing.
LEMMA RejectMessageInv ==
  ASSUME NEW t \in Requests, IInv, RejectMessage(t)
  PROVE  IInv'
<1> USE DEF IInv, RejectMessage, Return, Goto, manager, object, cleanup
<1>1. TypeOK'
  BY ConsoleAssumption
     DEF TypeOK, Actors, Ages, RequestPC, CleanerPC, CleanupLoop, InHand
<1>2. DialOwned' /\ ConnectOwned' /\ ConnectionKnown' /\ RemovedFirst' /\
     RegistryUsable'
  BY DEF DialOwned, ConnectOwned, ConnectionKnown, RemovedFirst,
         RegistryUsable, Registered, BeingClosed, Actors
<1>3. ManagerOwned'
  BY ConsoleAssumption DEF ManagerOwned, TypeOK, Actors, CleanupLoop
<1>4. CleanupKnows' /\ Judged'
  <2>1. pc'[Cleaner] = pc[Cleaner] /\ sess'[Cleaner] = sess[Cleaner]
    BY ConsoleAssumption DEF TypeOK, Actors
  <2> QED BY <2>1, CleanupUndisturbed
<1> QED BY <1>1, <1>2, <1>3, <1>4

\* A reply changes nothing.
LEMMA ReplyInv ==
  ASSUME NEW t \in Requests, IInv, Reply(t)
  PROVE  IInv'
<1> USE DEF IInv, Reply, Return, Goto, SessionFree, manager, object, cleanup
<1>1. TypeOK'
  BY ConsoleAssumption
     DEF TypeOK, Actors, Ages, RequestPC, CleanerPC, CleanupLoop, InHand
<1>2. DialOwned' /\ ConnectOwned' /\ ConnectionKnown' /\ RemovedFirst' /\
     RegistryUsable'
  BY DEF DialOwned, ConnectOwned, ConnectionKnown, RemovedFirst,
         RegistryUsable, Registered, BeingClosed, Actors
<1>3. ManagerOwned'
  BY ConsoleAssumption DEF ManagerOwned, TypeOK, Actors, CleanupLoop
<1>4. CleanupKnows' /\ Judged'
  <2>1. pc'[Cleaner] = pc[Cleaner] /\ sess'[Cleaner] = sess[Cleaner]
    BY ConsoleAssumption DEF TypeOK, Actors
  <2> QED BY <2>1, CleanupUndisturbed
<1> QED BY <1>1, <1>2, <1>3, <1>4

\* The ticker starts the cleanup.
LEMMA CleanupTickInv ==
  ASSUME IInv, CleanupTick
  PROVE  IInv'
<1> USE DEF IInv, CleanupTick, Goto, manager, object, cleanup
<1>1. TypeOK'
  BY ConsoleAssumption
     DEF TypeOK, Actors, Ages, RequestPC, CleanerPC, CleanupLoop, InHand
<1>2. DialOwned' /\ ConnectOwned' /\ ConnectionKnown' /\
     RemovedFirst' /\ RegistryUsable' /\ CleanupKnows' /\ Judged'
  BY ConsoleAssumption DEF DialOwned, ConnectOwned, ConnectionKnown, RemovedFirst,
         RegistryUsable, CleanupKnows, Judged, Registered, BeingClosed,
         TypeOK, Actors, CleanupLoop
<1>3. ManagerOwned'
  BY ConsoleAssumption DEF ManagerOwned, TypeOK, Actors, CleanupLoop
<1> QED BY <1>1, <1>2, <1>3

\* The cleanup notes what is registered and what is stale.
LEMMA CleanupStartInv ==
  ASSUME IInv, CleanupStart
  PROVE  IInv'
<1> USE DEF IInv, CleanupStart, Goto, ManagerFree, object
<1>1. TypeOK'
  BY ConsoleAssumption
     DEF TypeOK, Actors, Ages, RequestPC, CleanerPC, CleanupLoop, InHand
<1>2. ManagerOwned'
  BY ConsoleAssumption DEF ManagerOwned, TypeOK, Actors, CleanupLoop
<1>3. DialOwned' /\ ConnectOwned' /\ ConnectionKnown' /\ RemovedFirst' /\
     RegistryUsable' /\ CleanupKnows' /\ Judged'
  BY DEF DialOwned, ConnectOwned, ConnectionKnown, RemovedFirst, RegistryUsable,
         CleanupKnows, Judged, Registered, BeingClosed, Actors
<1> QED BY <1>1, <1>2, <1>3

\* The cleanup's loop comes to an entry and will not come to it again.
LEMMA CleanupVisitInv ==
  ASSUME NEW k \in SessionIDs, IInv, CleanupVisit(k)
  PROVE  IInv'
<1> USE DEF IInv, CleanupVisit, Goto, CleanupLoop, manager, object
<1>1. TypeOK'
  BY DEF TypeOK, CleanupKnows, Actors, Ages, RequestPC, CleanerPC, CleanupLoop, InHand
<1>2. ManagerOwned'
  BY ConsoleAssumption DEF ManagerOwned, TypeOK, Actors
<1>3. DialOwned' /\ ConnectOwned'
  BY ConsoleAssumption DEF DialOwned, ConnectOwned, TypeOK, Actors
<1>4. RemovedFirst'
  BY DEF RemovedFirst, TypeOK, Registered, BeingClosed, Actors
<1>5. CleanupKnows'
  BY DEF CleanupKnows, RegistryUsable, Registered, TypeOK, Actors
<1>6. ConnectionKnown' /\ RegistryUsable' /\ Judged'
  BY DEF ConnectionKnown, RegistryUsable, Judged, TypeOK, Actors
<1> QED BY <1>1, <1>2, <1>3, <1>4, <1>5, <1>6

\* A session that is not active will be removed.
LEMMA CleanupTestInv ==
  ASSUME IInv, CleanupTest
  PROVE  IInv'
<1> USE DEF IInv, CleanupTest, Goto, CleanupLoop, manager, object, cleanup
<1>1. TypeOK'
  BY DEF TypeOK, Actors, Ages, RequestPC, CleanerPC, CleanupLoop, InHand
<1>2. ManagerOwned'
  BY ConsoleAssumption DEF ManagerOwned, TypeOK, Actors
<1>3. DialOwned' /\ ConnectOwned'
  BY ConsoleAssumption DEF DialOwned, ConnectOwned, TypeOK, Actors
<1>4. RemovedFirst'
  BY DEF RemovedFirst, TypeOK, Registered, BeingClosed, Actors
<1>5. CleanupKnows'
  BY DEF CleanupKnows, Registered, TypeOK, Actors
<1>6. Judged'
  BY DEF Judged, IsActive, ConnectionKnown, TypeOK, Actors, InHand
<1>7. ConnectionKnown' /\ RegistryUsable'
  BY DEF ConnectionKnown, RegistryUsable
<1> QED BY <1>1, <1>2, <1>3, <1>4, <1>5, <1>6, <1>7

\* An active session will be removed only if it is stale.
LEMMA CleanupAgeInv ==
  ASSUME IInv, CleanupAge
  PROVE  IInv'
<1> USE DEF IInv, CleanupAge, Goto, CleanupLoop, manager, object, cleanup
<1>1. TypeOK'
  BY DEF TypeOK, Actors, Ages, RequestPC, CleanerPC, CleanupLoop, InHand
<1>2. ManagerOwned'
  BY ConsoleAssumption DEF ManagerOwned, TypeOK, Actors
<1>3. DialOwned' /\ ConnectOwned'
  BY ConsoleAssumption DEF DialOwned, ConnectOwned, TypeOK, Actors
<1>4. RemovedFirst'
  BY DEF RemovedFirst, TypeOK, Registered, BeingClosed, Actors
<1>5. CleanupKnows'
  BY DEF CleanupKnows, Registered, TypeOK, Actors
<1>6. Judged'
  BY DEF Judged, CleanupKnows, TypeOK, Actors
<1>7. ConnectionKnown' /\ RegistryUsable'
  BY DEF ConnectionKnown, RegistryUsable
<1> QED BY <1>1, <1>2, <1>3, <1>4, <1>5, <1>6, <1>7

\* The cleanup removes the entry it looks at; as no other id names the session,
\* it is out of the map.
LEMMA CleanupRemoveInv ==
  ASSUME IInv, CleanupRemove
  PROVE  IInv'
<1> USE DEF IInv, CleanupRemove, Goto, CleanupLoop, object
<1>1. TypeOK'
  BY DEF TypeOK, Actors, Ages, RequestPC, CleanerPC, CleanupLoop, InHand
<1>2. ManagerOwned'
  BY ConsoleAssumption DEF ManagerOwned, TypeOK, Actors
<1>3. DialOwned' /\ ConnectOwned'
  BY ConsoleAssumption DEF DialOwned, ConnectOwned, TypeOK, Actors
<1>4. RemovedFirst'
  <2>1. PICK k \in SessionIDs : /\ sessions[k] = sess[Cleaner]
                               /\ sessions' = [sessions EXCEPT ![k] = NoSession]
    OBVIOUS
  <2>2. sess[Cleaner] \in Sessions /\ sess' = sess
    BY DEF TypeOK, Actors, InHand
  <2>3. \A s \in Sessions : Registered(s)' <=> Registered(s) /\ s # sess[Cleaner]
    BY <2>1, <2>2, ConsoleAssumption DEF Registered, RegistryUsable, TypeOK
  <2>4. \A a \in Actors : pc'[a] = IF a = Cleaner THEN "close" ELSE pc[a]
    BY DEF TypeOK
  <2>5. \A a \in Actors : pc'[a] = "close" => sess[a] \in Sessions
    BY <2>2, <2>4 DEF TypeOK, InHand
  <2>6. \A a \in Actors : pc'[a] = "close" => ~Registered(sess[a])'
    BY <2>2, <2>3, <2>4, <2>5 DEF RemovedFirst
  <2>7. \A s \in Sessions : BeingClosed(s) => BeingClosed(s)'
    BY <2>2, <2>4 DEF BeingClosed
  <2>8. BeingClosed(sess[Cleaner])'
    BY <2>2, <2>4 DEF BeingClosed, Actors
  <2> QED
    BY <2>2, <2>3, <2>6, <2>7, <2>8 DEF RemovedFirst
<1>5. RegistryUsable'
  BY DEF RegistryUsable, TypeOK, Actors
<1>6. CleanupKnows'
  BY DEF CleanupKnows, TypeOK, Actors
<1>7. Judged' /\ ConnectionKnown'
  BY DEF Judged, ConnectionKnown, TypeOK, Actors
<1> QED BY <1>1, <1>2, <1>3, <1>4, <1>5, <1>6, <1>7

\* The cleanup closes the session it has removed.
LEMMA CleanupCloseInv ==
  ASSUME IInv, CleanupClose
  PROVE  IInv'
<1> USE DEF IInv, CleanupClose, Goto, Close, SessionFree, manager, cleanup
<1>1. TypeOK'
  BY ConsoleAssumption
     DEF TypeOK, Actors, Ages, RequestPC, CleanerPC, CleanupLoop, InHand
<1>2. ConnectOwned'
  BY ConsoleAssumption DEF ConnectOwned, TypeOK, DialOwned, Actors, InHand
<1>3. ConnectionKnown'
  BY DEF ConnectionKnown, TypeOK, Actors
<1>4. RemovedFirst'
  BY DEF RemovedFirst, TypeOK, Registered, BeingClosed, Actors
<1>5. RegistryUsable'
  BY DEF RegistryUsable, TypeOK, RemovedFirst, Registered, BeingClosed, Actors
<1>6. ManagerOwned' /\ DialOwned'
  BY ConsoleAssumption DEF ManagerOwned, DialOwned, TypeOK, Actors, CleanupLoop
<1>7. CleanupKnows' /\ Judged'
  BY DEF CleanupKnows, Judged, TypeOK, Actors, CleanupLoop
<1> QED BY <1>1, <1>2, <1>3, <1>4, <1>5, <1>6, <1>7

\* At its end the cleanup releases the registry.
LEMMA CleanupEndInv ==
  ASSUME IInv, CleanupEnd
  PROVE  IInv'
<1> USE DEF IInv, CleanupEnd, Goto, object
<1>1. TypeOK'
  BY ConsoleAssumption
     DEF TypeOK, Actors, Ages, RequestPC, CleanerPC, CleanupLoop, InHand
<1>2. ManagerOwned'
  BY ConsoleAssumption DEF ManagerOwned, TypeOK, Actors, CleanupLoop
<1>3. DialOwned' /\ ConnectOwned' /\ ConnectionKnown' /\ RemovedFirst' /\
     RegistryUsable' /\ CleanupKnows' /\ Judged'
  BY DEF DialOwned, ConnectOwned, ConnectionKnown, RemovedFirst, RegistryUsable,
         CleanupKnows, Judged, Registered, BeingClosed, Actors
<1> QED BY <1>1, <1>2, <1>3

\* A dropped connection still is one.
LEMMA RemoteDropInv ==
  ASSUME NEW s \in Sessions, IInv, RemoteDrop(s)
  PROVE  IInv'
<1> USE DEF IInv, RemoteDrop, manager, control, cleanup
<1>1. TypeOK'
  BY ConsoleAssumption
     DEF TypeOK, Actors, Ages, RequestPC, CleanerPC, CleanupLoop, InHand
<1>2. ManagerOwned' /\ DialOwned' /\ ConnectOwned' /\ ConnectionKnown' /\
     RemovedFirst' /\ RegistryUsable' /\ CleanupKnows' /\ Judged'
  BY DEF ManagerOwned, DialOwned, ConnectOwned, ConnectionKnown, RemovedFirst,
         RegistryUsable, CleanupKnows, Judged, Registered, BeingClosed, Actors
<1> QED BY <1>1, <1>2

\* Time makes stale sessions no younger.
LEMMA TickInv ==
  ASSUME IInv, Tick
  PROVE  IInv'
<1> USE DEF IInv, Tick, manager, control, cleanup
<1>1. TypeOK'
  BY ConsoleAssumption
     DEF TypeOK, Actors, Ages, RequestPC, CleanerPC, CleanupLoop, InHand
<1>2. CleanupKnows' /\ Judged'
  <2>1. \A s \in Sessions : idle[s] > IdleTimeout => idle'[s] > IdleTimeout
    BY ConsoleAssumption DEF TypeOK, Ages
  <2>2. pc[Cleaner] = "remove" => sess[Cleaner] \in Sessions
    BY DEF TypeOK, InHand, Actors
  <2> QED BY <2>1, <2>2 DEF CleanupKnows, Judged, Registered, TypeOK
<1>3. ManagerOwned' /\ DialOwned' /\ ConnectOwned' /\ ConnectionKnown' /\
     RemovedFirst' /\ RegistryUsable'
  BY DEF ManagerOwned, DialOwned, ConnectOwned, ConnectionKnown, RemovedFirst,
         RegistryUsable, Registered, BeingClosed, Actors
<1> QED BY <1>1, <1>2, <1>3

-----------------------------------------------------------------------------
(* The invariant and what follows from it.                                 *)

\* No session exists at first, and no lock is held.
LEMMA InitInv == Init => IInv
<1> SUFFICES ASSUME Init PROVE IInv
  OBVIOUS
<1>1. TypeOK
  <2>1. pc \in [Actors -> RequestPC \cup CleanerPC] /\ \A a \in Actors : pc[a] = "idle"
    BY DEF Init, RequestPC
  <2>2. idle \in [Sessions -> Ages]
    BY ConsoleAssumption DEF Init, Ages
  <2> QED BY <2>1, <2>2, ConsoleAssumption
             DEF Init, TypeOK, Actors, RequestPC, CleanerPC, InHand
<1>2. ManagerOwned /\ DialOwned /\ ConnectOwned /\ CleanupKnows /\ Judged
  BY ConsoleAssumption
     DEF Init, ManagerOwned, DialOwned, ConnectOwned, CleanupKnows, Judged,
         CleanupLoop, Actors
<1>3. ConnectionKnown /\ RemovedFirst /\ RegistryUsable
  BY DEF Init, ConnectionKnown, RemovedFirst, RegistryUsable
<1> QED BY <1>1, <1>2, <1>3 DEF IInv

\* No step breaks the invariant.
LEMMA StepInv == IInv /\ [Next]_vars => IInv'
<1> SUFFICES ASSUME IInv, [Next]_vars PROVE IInv'
  OBVIOUS
<1>1. CASE Next
  BY <1>1, ArriveInv, CreateSessionInv, ConnectInv, DialOkInv, DialFailInv,
     CloseSessionInv, CloseRemovedInv, GetSessionInv, UpdateActivityInv,
     DecodeMessageInv, RejectMessageInv, ReplyInv, CleanupTickInv, CleanupStartInv,
     CleanupVisitInv, CleanupTestInv, CleanupAgeInv, CleanupRemoveInv, CleanupCloseInv, CleanupEndInv, RemoteDropInv, TickInv
     DEF Next, Acquire, Proceed, CleanupProceed
<1>2. CASE UNCHANGED vars
  BY <1>2 DEF vars, manager, object, control, cleanup, IInv, TypeOK, ManagerOwned,
              DialOwned, ConnectOwned, ConnectionKnown, RemovedFirst,
              RegistryUsable, CleanupKnows, Judged, Registered, BeingClosed
<1> QED BY <1>1, <1>2

\* The invariant holds throughout.
THEOREM Invariance == Spec => []IInv
  BY InitInv, StepInv, PTL DEF Spec

\* Type correctness: no goroutine ever uses a nil session.
THEOREM TypeCorrect == Spec => []TypeOK
<1>1. IInv => TypeOK
  BY DEF IInv
<1> QED BY <1>1, Invariance, PTL

\* No session leaks, for any number of clients, ids and sessions.
THEOREM NoSessionLeaks == Spec => []NoOrphan
<1>1. ASSUME IInv PROVE NoOrphan
  <2> SUFFICES ASSUME NEW s \in Sessions
               PROVE  /\ ~closed[s] => Registered(s) \/ BeingClosed(s)
                      /\ remote[s] \in {"open", "lost"} \/ ~SessionFree(s) => ~closed[s]
    BY DEF NoOrphan
  <2>1. ~closed[s] => Registered(s) \/ BeingClosed(s)
    BY <1>1 DEF IInv, RemovedFirst
  <2>2. remote[s] \in {"open", "lost"} => ~closed[s]
    BY <1>1 DEF IInv, ConnectionKnown
  <2>3. ~SessionFree(s) => ~closed[s]
    BY <1>1 DEF IInv, TypeOK, DialOwned, ConnectOwned, SessionFree
  <2> QED BY <2>1, <2>2, <2>3
<1> QED BY <1>1, Invariance, PTL

\* The map only offers usable sessions.
THEOREM RegistryStaysUsable == Spec => []RegistryUsable
<1>1. IInv => RegistryUsable
  BY DEF IInv
<1> QED BY <1>1, Invariance, PTL

-----------------------------------------------------------------------------
(* Steps.                                                                  *)

\* Of all steps only seven touch the map, the sessions' flags or their TCP
\* connections.
LEMMA StepKinds ==
  ASSUME [Next]_vars
  PROVE  \/ \E t \in Requests : CreateSession(t) \/ DialOk(t)
                                \/ CloseSession(t) \/ CloseRemoved(t)
         \/ CleanupClose \/ CleanupRemove
         \/ \E s \in Sessions : RemoteDrop(s)
         \/ UNCHANGED <<sessions, closed, isConnected, remote>>
<1> DEFINE Quiet == UNCHANGED <<sessions, closed, isConnected, remote>>
<1>1. \A t \in Requests, k \in SessionIDs : Arrive(t, k) => Quiet
  BY DEF Arrive, manager, object
<1>2. \A t \in Requests : Connect(t) \/ DialFail(t) \/ GetSession(t) => Quiet
  BY DEF Connect, DialFail, GetSession, manager, object
<1>3. \A t \in Requests : (\/ UpdateActivity(t) \/ DecodeMessage(t)
                           \/ RejectMessage(t) \/ Reply(t)) => Quiet
  BY DEF UpdateActivity, DecodeMessage, RejectMessage, Reply, manager, object
<1>4. CleanupTick \/ CleanupStart \/ CleanupEnd \/ Tick \/ UNCHANGED vars => Quiet
  BY DEF CleanupTick, CleanupStart, CleanupEnd, Tick, vars, manager, object
<1>5. ASSUME CleanupTest \/ CleanupAge \/ \E k \in SessionIDs : CleanupVisit(k)
      PROVE  Quiet
  BY <1>5 DEF CleanupVisit, CleanupTest, CleanupAge, manager, object
<1> QED BY <1>1, <1>2, <1>3, <1>4, <1>5 DEF Next, Acquire, Proceed, CleanupProceed

\* A new session gets an object nobody refers to, which therefore is closed.
LEMMA CreateKind ==
  ASSUME IInv, NEW t \in Requests, CreateSession(t)
  PROVE  \/ UNCHANGED <<sessions, closed, isConnected, remote>>
         \/ \E s \in Sessions :
               /\ ~Referenced(s) /\ closed[s] /\ sessions[id[t]] = NoSession
               /\ sessions' = [sessions EXCEPT ![id[t]] = s]
               /\ NewConsoleSession(s)
<1>1. \A s \in Sessions : ~Referenced(s) => closed[s]
  BY DEF IInv, RemovedFirst, Referenced, BeingClosed
<1> QED BY <1>1 DEF CreateSession, object

\* The two places that close a session.
LEMMA CloseKind ==
  ASSUME IInv, CleanupClose \/ \E t \in Requests : CloseRemoved(t)
  PROVE  /\ sessions' = sessions
         /\ \E s \in Sessions : ~Registered(s) /\ Close(s)
<1>1. CASE CleanupClose
  <2>1. sess[Cleaner] \in Sessions /\ ~Registered(sess[Cleaner])
    BY <1>1 DEF IInv, TypeOK, RemovedFirst, CleanupClose, InHand, Actors
  <2> QED BY <1>1, <2>1 DEF CleanupClose, manager
<1>2. ASSUME NEW t \in Requests, CloseRemoved(t)
      PROVE  /\ sessions' = sessions
             /\ \E s \in Sessions : ~Registered(s) /\ Close(s)
  <2>1. sess[t] \in Sessions /\ ~Registered(sess[t])
    BY <1>2 DEF IInv, TypeOK, RemovedFirst, CloseRemoved, InHand, Actors
  <2> QED BY <1>2, <2>1 DEF CloseRemoved
<1> QED BY <1>1, <1>2

\* Closing is final.
THEOREM ClosedStaysClosed == Spec => ClosedIsFinal
<1> DEFINE Final == \A s \in Sessions :
              closed[s] /\ Referenced(s) => closed'[s] /\ remote'[s] = remote[s]
<1>1. ASSUME IInv, [Next]_vars PROVE Final
  <2> SUFFICES ASSUME NEW s \in Sessions, closed[s], Referenced(s)
               PROVE  closed'[s] /\ remote'[s] = remote[s]
    OBVIOUS
  <2>1. ASSUME NEW t \in Requests, CreateSession(t)
        PROVE  closed'[s] /\ remote'[s] = remote[s]
    BY <1>1, <2>1, CreateKind DEF IInv, TypeOK, NewConsoleSession
  <2>2. ASSUME NEW t \in Requests, DialOk(t)
        PROVE  closed'[s] /\ remote'[s] = remote[s]
    <3>1. sess[t] # s
      BY <1>1, <2>2 DEF IInv, ConnectOwned, DialOk
    <3> QED BY <1>1, <2>2, <3>1 DEF IInv, TypeOK, DialOk
  <2>3. CASE CleanupClose \/ \E t \in Requests : CloseRemoved(t)
    BY <1>1, <2>3, CloseKind DEF IInv, TypeOK, Close
  <2>4. CASE (\E t \in Requests : CloseSession(t)) \/ CleanupRemove
    BY <2>4 DEF CloseSession, CleanupRemove, object
  <2>5. ASSUME NEW r \in Sessions, RemoteDrop(r)
        PROVE  closed'[s] /\ remote'[s] = remote[s]
    BY <1>1, <2>5 DEF IInv, TypeOK, ConnectionKnown, RemoteDrop
  <2> QED BY <1>1, <2>1, <2>2, <2>3, <2>4, <2>5, StepKinds
<1>2. IInv /\ [Next]_vars => [Final]_vars
  BY <1>1
<1> QED BY <1>2, Invariance, PTL DEF Spec, ClosedIsFinal

\* The cleanup removes nothing but what is stale or not connected, or was so
\* when it was judged.
THEOREM CleanupIsJustified == Spec => CleanupJustified
<1> DEFINE Justified == \A k \in SessionIDs :
          /\ cmMu = Cleaner /\ sessions[k] # NoSession /\ sessions'[k] = NoSession
          /\ ~overtaken
          => ~isConnected[sessions[k]] \/ idle[sessions[k]] > IdleTimeout
<1>1. ASSUME IInv, [Next]_vars PROVE Justified
  <2> SUFFICES ASSUME NEW k \in SessionIDs, sessions[k] # NoSession,
                      sessions'[k] = NoSession, cmMu = Cleaner, ~overtaken
               PROVE  ~isConnected[sessions[k]] \/ idle[sessions[k]] > IdleTimeout
    OBVIOUS
  <2>1. ASSUME NEW t \in Requests, CreateSession(t) \/ CloseSession(t) PROVE FALSE
    BY <2>1, ConsoleAssumption DEF CreateSession, CloseSession, ManagerFree
  <2>2. CASE CleanupClose \/ \E t \in Requests : CloseRemoved(t) \/ DialOk(t)
    BY <2>2 DEF CleanupClose, CloseRemoved, DialOk, manager
  <2>3. CASE CleanupRemove
    <3>1. sessions[k] = sess[Cleaner]
      BY <1>1, <2>3 DEF IInv, TypeOK, CleanupRemove
    <3> QED BY <1>1, <2>3, <3>1 DEF IInv, Judged, CleanupRemove
  <2>4. CASE \E s \in Sessions : RemoteDrop(s)
    BY <2>4 DEF RemoteDrop, manager
  <2> QED BY <1>1, <2>1, <2>2, <2>3, <2>4, StepKinds
<1>2. IInv /\ [Next]_vars => [Justified]_vars
  BY <1>1
<1> QED BY <1>2, Invariance, PTL DEF Spec, CleanupJustified

-----------------------------------------------------------------------------
(* Locks.                                                                  *)

\* Who is waited for has cm.mu to close a session or to clean up, or dials.
LEMMA LockOwners ==
  ASSUME IInv, NEW a \in Actors, NEW b \in Actors, WaitsFor(a, b)
  PROVE  \/ pc[b] = "dial"
         \/ pc[b] \in CleanupLoop /\ cmMu = b
<1>1. CASE cmMu = b
  BY <1>1, ConsoleAssumption DEF IInv, ManagerOwned, TypeOK, Actors, CleanupLoop
<1>2. ASSUME NEW s \in Sessions, dialer[s] = b PROVE pc[b] = "dial"
  BY <1>2, ConsoleAssumption DEF IInv, DialOwned, TypeOK, Actors
<1>3. CASE pc[a] \in {"connect", "close", "activity", "route", "stats", "test"}
           /\ dialer[sess[a]] = b
  <2>1. sess[a] \in Sessions
    BY <1>3 DEF IInv, TypeOK, InHand
  <2> QED BY <1>2, <1>3, <2>1
<1> QED BY <1>1, <1>3 DEF WaitsFor

\* The owner of cm.mu only ever waits for the lock of a session.
LEMMA ManagerWaitsForDials ==
  ASSUME IInv, NEW b \in Actors, NEW c \in Actors,
         pc[b] \in CleanupLoop, WaitsFor(b, c)
  PROVE  pc[c] = "dial"
<1>1. ASSUME NEW s \in Sessions, dialer[s] = c PROVE pc[c] = "dial"
  BY <1>1, ConsoleAssumption DEF IInv, DialOwned, TypeOK, Actors
<1>2. pc[b] \in {"close", "test"} /\ dialer[sess[b]] = c
  BY DEF WaitsFor, CleanupLoop
<1>3. sess[b] \in Sessions
  BY <1>2 DEF IInv, TypeOK, InHand
<1> QED BY <1>1, <1>2, <1>3

\* No deadlock, for any number of requests: a chain of waiting goroutines ends
\* after at most two steps, at one whose dial ends by itself.
THEOREM NoDeadlock == Spec => []NoCircularWait
<1>1. IInv => NoCircularWait
  BY LockOwners, ManagerWaitsForDials DEF NoCircularWait
<1> QED BY <1>1, Invariance, PTL

-----------------------------------------------------------------------------
(* The code implements the lifecycle of a session.                         *)

Phase == [s \in Sessions |-> IF closed[s] THEN "closed"
                             ELSE IF isConnected[s] THEN "connected"
                             ELSE "created"]

\* Each step of the code is one step of the lifecycle or none.
LEMMA StepRefines ==
  ASSUME IInv, [Next]_vars
  PROVE  [Lifecycle!Next]_(Lifecycle!vars)
<1> DEFINE Stutter == sessions' = sessions /\ Phase' = Phase
           Step == [Lifecycle!Next]_(Lifecycle!vars)
<1>1. Stutter => Step
  BY DEF Lifecycle!vars, Phase
<1>2. ASSUME NEW t \in Requests, CreateSession(t) PROVE Step
  <2>1. CASE UNCHANGED <<sessions, closed, isConnected, remote>>
    BY <1>1, <2>1 DEF Phase
  <2>2. ASSUME NEW s \in Sessions, closed[s], sessions[id[t]] = NoSession,
               sessions' = [sessions EXCEPT ![id[t]] = s], NewConsoleSession(s)
        PROVE  Lifecycle!Create(id[t], s)
    <3>1. Phase' = [Phase EXCEPT ![s] = "created"]
      BY <2>2 DEF IInv, TypeOK, NewConsoleSession, Phase
    <3> QED BY <2>2, <3>1 DEF Lifecycle!Create, Phase
  <2>3. id[t] \in SessionIDs
    BY DEF IInv, TypeOK
  <2> QED BY <1>2, <2>1, <2>2, <2>3, CreateKind DEF Lifecycle!Next
<1>3. ASSUME NEW t \in Requests, DialOk(t) PROVE Step
  <2>1. sess[t] \in Sessions /\ ~closed[sess[t]] /\ ~isConnected[sess[t]]
    BY <1>3 DEF IInv, TypeOK, ConnectOwned, ConnectionKnown, DialOk, InHand, Actors
  <2>2. Phase' = [Phase EXCEPT ![sess[t]] = "connected"] /\ sessions' = sessions
    BY <1>3, <2>1 DEF IInv, TypeOK, DialOk, Phase, manager
  <2>3. Lifecycle!Establish(sess[t])
    BY <2>1, <2>2 DEF Lifecycle!Establish, Phase
  <2> QED BY <2>1, <2>3 DEF Lifecycle!Next, Lifecycle!Establish
<1>4. ASSUME NEW k \in SessionIDs, sessions[k] # NoSession, Phase' = Phase,
             sessions' = [sessions EXCEPT ![k] = NoSession]
      PROVE  Step
  BY <1>4 DEF Lifecycle!Next, Lifecycle!Retire, Phase
<1>5. ASSUME NEW t \in Requests, CloseSession(t) PROVE Step
  <2>1. id[t] \in SessionIDs /\ Phase' = Phase
    BY <1>5 DEF IInv, TypeOK, CloseSession, Phase, object
  <2> QED BY <1>1, <1>4, <1>5, <2>1 DEF CloseSession, manager
<1>6. CASE CleanupRemove
  <2>1. sess[Cleaner] # NoSession /\ Phase' = Phase
    BY <1>6 DEF IInv, TypeOK, CleanupRemove, Phase, object, Actors, InHand
  <2> QED BY <1>4, <1>6, <2>1 DEF CleanupRemove
<1>7. CASE CleanupClose \/ \E t \in Requests : CloseRemoved(t)
  <2>1. sessions' = sessions
    BY <1>7, CloseKind
  <2>2. PICK s \in Sessions : ~Registered(s) /\ Close(s)
    BY <1>7, CloseKind
  <2>3. CASE closed[s]
    BY <1>1, <2>1, <2>2, <2>3 DEF Close, Phase
  <2>4. CASE ~closed[s]
    <3>1. Phase' = [Phase EXCEPT ![s] = "closed"]
      BY <2>2, <2>4 DEF IInv, TypeOK, Close, Phase
    <3>2. Lifecycle!Finish(s)
      BY <2>1, <2>2, <2>4, <3>1
         DEF Lifecycle!Finish, Lifecycle!InRegistry, Registered, Phase
    <3> QED BY <2>2, <3>2 DEF Lifecycle!Next
  <2> QED BY <2>3, <2>4
<1>8. ASSUME NEW s \in Sessions, RemoteDrop(s) PROVE Step
  BY <1>1, <1>8 DEF RemoteDrop, Phase, manager
<1> QED BY <1>1, <1>2, <1>3, <1>5, <1>6, <1>7, <1>8, StepKinds DEF Phase

\* The locked, interleaved code implements the safety part of the lifecycle.
THEOREM LifecycleImplemented == Spec => Lifecycle!SafeSpec
<1>1. Init => Lifecycle!Init
  BY DEF Init, Lifecycle!Init
<1>2. IInv /\ [Next]_vars => [Lifecycle!Next]_(Lifecycle!vars)
  BY StepRefines
<1> QED BY <1>1, <1>2, Invariance, PTL DEF Spec, Lifecycle!SafeSpec
=============================================================================

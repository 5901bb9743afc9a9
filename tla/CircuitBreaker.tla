--------------------------- MODULE CircuitBreaker ---------------------------
(***************************************************************************)
(* CircuitBreaker of backend/internal/libvirt/client.go.  Call keeps the   *)
(* breaker's mutex while the wrapped function runs, so calls are serial;   *)
(* the function is a parameter of the code, hence each call succeeds or    *)
(* fails freely.                                                           *)
(***************************************************************************)
EXTENDS Integers

CONSTANTS
    Callers,        \* goroutines that call the breaker
    Monitor,        \* the one that never stops calling: the event monitor
    Nobody,         \* owner of a free lock
    FailureLimit,   \* failureLimit, from LIBVIRT_CIRCUIT_LIMIT
    SuccessThresh,  \* successThresh
    ResetTimeout    \* resetTimeout, in ticks

ASSUME BreakerAssumption ==
    /\ Monitor \in Callers
    /\ Nobody \notin Callers
    /\ FailureLimit \in Int
    /\ SuccessThresh \in Nat \ {0}
    /\ ResetTimeout \in Nat

VARIABLES
    state, failureCount, successCount,   \* the fields of CircuitBreaker
    since,      \* age of lastFailTime in ticks, cut off at ResetTimeout + 1
    holder,     \* owner of cb.mutex
    pc,         \* where each caller is
    streak      \* history: failures since the last success, up to FailureLimit

vars == <<state, failureCount, successCount, since, holder, pc, streak>>

Ages == 0 .. ResetTimeout + 1
Older(age) == IF age <= ResetTimeout THEN age + 1 ELSE age

TypeOK ==
    /\ state \in {"closed", "open", "half-open"}
    /\ failureCount \in Nat
    /\ successCount \in 0 .. SuccessThresh
    /\ since \in Ages
    /\ holder \in Callers \cup {Nobody}
    /\ pc \in [Callers -> {"idle", "waiting", "reading", "running"}]
    /\ \A c \in Callers : pc[c] = "running" <=> holder = c
    /\ streak \in Nat

Init ==
    /\ state = "closed"
    /\ failureCount = 0 /\ successCount = 0
    /\ since = ResetTimeout + 1
    /\ holder = Nobody
    /\ pc = [c \in Callers |-> "idle"]
    /\ streak = 0

\* One more failure in a row.
Longer == IF streak < FailureLimit THEN streak + 1 ELSE streak

Goto(c, label) == pc' = [pc EXCEPT ![c] = label]

-----------------------------------------------------------------------------
(* Mistakes this code could have contained; Next uses none of them.        *)

\* The function runs without the mutex.
AdmitUnlocked(c) ==
    /\ pc[c] = "waiting" /\ holder = Nobody
    /\ state # "open"
    /\ Goto(c, "running")
    /\ UNCHANGED <<state, failureCount, successCount, since, holder, streak>>

\* A rejected call counts as a failure: it restarts the reset timeout.
RejectRestarting(c) ==
    /\ pc[c] = "waiting" /\ holder = Nobody
    /\ state = "open" /\ since <= ResetTimeout
    /\ since' = 0
    /\ Goto(c, "idle")
    /\ UNCHANGED <<state, failureCount, successCount, holder, streak>>

\* A success does not reset the failure count.
SucceedKeeping(c) ==
    /\ pc[c] = "running"
    /\ streak' = 0
    /\ IF state = "half-open"
       THEN /\ successCount' = successCount + 1
            /\ state' = IF successCount' >= SuccessThresh THEN "closed" ELSE state
       ELSE UNCHANGED <<state, successCount>>
    /\ holder' = Nobody /\ Goto(c, "idle")
    /\ UNCHANGED <<failureCount, since>>

\* A failure returns with the mutex locked.
FailLocked(c) ==
    /\ pc[c] = "running"
    /\ failureCount' = failureCount + 1
    /\ streak' = Longer
    /\ since' = 0
    /\ state' = IF failureCount' >= FailureLimit THEN "open" ELSE state
    /\ Goto(c, "idle")
    /\ UNCHANGED <<successCount, holder>>

\* Failures only count in the closed state.
FailLenient(c) ==
    /\ pc[c] = "running"
    /\ failureCount' = IF state = "closed" THEN failureCount + 1 ELSE failureCount
    /\ streak' = Longer
    /\ since' = 0
    /\ state' = IF failureCount' >= FailureLimit THEN "open" ELSE state
    /\ holder' = Nobody /\ Goto(c, "idle")
    /\ UNCHANGED successCount

-----------------------------------------------------------------------------

\* A goroutine calls Call, or GetState.
Ask(c) ==
    /\ pc[c] = "idle"
    /\ Goto(c, "waiting") \/ Goto(c, "reading")
    /\ UNCHANGED <<state, failureCount, successCount, since, holder, streak>>

GetState(c) ==
    /\ pc[c] = "reading" /\ holder = Nobody
    /\ Goto(c, "idle")
    /\ UNCHANGED <<state, failureCount, successCount, since, holder, streak>>

\* Open and too young: Call fails at once.
Reject(c) ==
    /\ pc[c] = "waiting" /\ holder = Nobody
    /\ state = "open" /\ since <= ResetTimeout
    /\ Goto(c, "idle")
    /\ UNCHANGED <<state, failureCount, successCount, since, holder, streak>>

\* Closed or half-open: Call starts the function.
Admit(c) ==
    /\ pc[c] = "waiting" /\ holder = Nobody
    /\ state # "open"
    /\ holder' = c /\ Goto(c, "running")
    /\ UNCHANGED <<state, failureCount, successCount, since, streak>>

\* Open for longer than resetTimeout: half-open, and Call starts the function.
Probe(c) ==
    /\ pc[c] = "waiting" /\ holder = Nobody
    /\ state = "open" /\ since > ResetTimeout
    /\ state' = "half-open"
    /\ successCount' = 0 /\ failureCount' = 0
    /\ holder' = c /\ Goto(c, "running")
    /\ UNCHANGED <<since, streak>>

\* The function returned nil.
Succeed(c) ==
    /\ pc[c] = "running"
    /\ failureCount' = 0 /\ streak' = 0
    /\ IF state = "half-open"
       THEN /\ successCount' = successCount + 1
            /\ state' = IF successCount' >= SuccessThresh THEN "closed" ELSE state
       ELSE UNCHANGED <<state, successCount>>
    /\ holder' = Nobody /\ Goto(c, "idle")
    /\ UNCHANGED since

\* The function returned an error.
Fail(c) ==
    /\ pc[c] = "running"
    /\ failureCount' = failureCount + 1
    /\ streak' = Longer
    /\ since' = 0
    /\ state' = IF failureCount' >= FailureLimit THEN "open" ELSE state
    /\ holder' = Nobody /\ Goto(c, "idle")
    /\ UNCHANGED successCount

\* Time passes.
Tick ==
    /\ since <= ResetTimeout
    /\ since' = Older(since)
    /\ UNCHANGED <<state, failureCount, successCount, holder, pc, streak>>

Enter(c)  == Reject(c) \/ Admit(c) \/ Probe(c) \/ GetState(c)
Finish(c) == Succeed(c) \/ Fail(c)

Next == Tick \/ \E c \in Callers : Ask(c) \/ Enter(c) \/ Finish(c)

Spec == Init /\ [][Next]_vars

\* Who waits for the mutex gets it (Go mutexes do not starve), the function
\* returns, time passes, and the event monitor polls for ever.
FairSpec ==
    /\ Spec
    /\ \A c \in Callers : SF_vars(Enter(c)) /\ WF_vars(Finish(c))
    /\ WF_vars(Tick)
    /\ SF_vars(Ask(Monitor) /\ pc'[Monitor] = "waiting")

-----------------------------------------------------------------------------
(* What must hold.                                                         *)

\* The breaker trips on consecutive failures, no sooner and no later: while it is
\* open, the last FailureLimit calls that ran the function, whoever made them,
\* all failed; while it is closed, fewer failures than that came in a row.
TripsOnStreaks ==
    /\ state = "open" => streak >= FailureLimit
    /\ state = "closed" /\ FailureLimit >= 1 => streak < FailureLimit

\* While the breaker is open nobody is inside the protected function.
OpenIsQuiet == state = "open" => \A c \in Callers : pc[c] # "running"

\* Every call returns, although all of them queue behind the one that runs.
CallsReturn == \A c \in Callers : pc[c] # "idle" ~> pc[c] = "idle"

\* Once calls stop failing the breaker closes, for good.
Recovery == <>[][\A c \in Callers : ~Fail(c)]_vars => <>[](state = "closed")

\* While every call fails the breaker keeps coming back to open.
Trip == <>[][\A c \in Callers : ~Succeed(c)]_vars => []<>(state = "open")
=============================================================================

----------------------------- MODULE RateLimiter -----------------------------
(***************************************************************************)
(* RateLimiter and TokenBucket of backend/internal/security/ratelimit.go,  *)
(* and withRateLimit of cmd/server/main.go, which asks it about every      *)
(* request: a bucket per user identifier, then a bucket per client IP.     *)
(*                                                                         *)
(* Tokens are counted in units of 1/window, time in ticks, so that the     *)
(* refill rate maxRequests / window is maxRequests units a tick.  `age' is *)
(* the age of lastRefill, cut off at Oldest.  The window comes unvalidated *)
(* from the environment (config.go:136) while the cleanup's age is fixed   *)
(* at an hour, so either may be the longer one.                            *)
(***************************************************************************)
EXTENDS Integers

CONSTANTS
    Users,      \* users, each with a token of its own
    IPs,        \* client addresses
    Anonymous,  \* who a request without a token comes from
    Prefix,     \* the first 16 characters of a token
    Requests,   \* goroutines serving HTTP requests
    UserMax, IPMax, \* the limits of NewRateLimiter
    Windows,    \* the windows it may be given
    MaxAge,     \* the age at which the cleanup drops a bucket
    Horizon     \* how long the history variables observe

ASSUME LimiterAssumption ==
    /\ Prefix \notin IPs
    /\ Anonymous \notin Users
    /\ UserMax \in Nat /\ IPMax \in Nat /\ Windows \subseteq Nat \ {0}
    /\ MaxAge \in Nat /\ Horizon \in Nat

VARIABLES
    window,     \* RateLimiter.window, set once by NewRateLimiter
    tokens,     \* RateLimitBucket.tokens, or Missing
    age,        \* the age of RateLimitBucket.lastRefill
    pc, who, ip,    \* where each request is, who sent it, and from where
    sweep,      \* the map the cleanup goroutine looks at next
    verdict,    \* history: the latest answer of AllowRequest
    watched, passed, since, dropped,
                \* history: in the latest `since' ticks the bucket `watched'
                \* has granted `passed' requests and was dropped `dropped'
                \* times
    served      \* history: the users whose bucket has granted a request of theirs

limiter == <<tokens, age>>
control == <<pc, who, ip>>
history == <<watched, passed, since, dropped>>
vars    == <<window, limiter, control, sweep, verdict, history, served>>

\* perUser and perIP are two maps; a key of the first is a token's prefix or
\* an address.
UserBuckets == {"user"} \X (IPs \cup {Prefix})
IPBuckets   == {"ip"} \X IPs
Buckets     == UserBuckets \cup IPBuckets

Limit   == [b \in Buckets |-> IF b \in UserBuckets THEN UserMax ELSE IPMax]
Full(b) == Limit[b] * window
Missing == -1

\* The age, in ticks, from which the cleanup drops a bucket, and the age from
\* which neither the cleanup nor a refill sees a difference any more.
Patience == MaxAge + 1
Oldest   == IF window > Patience THEN window ELSE Patience
Ages     == 0 .. Oldest

\* Tokens stay within the bucket.
TypeOK ==
    /\ window \in Windows
    /\ tokens \in [Buckets -> Int] /\ age \in [Buckets -> Ages]
    /\ \A b \in Buckets : tokens[b] \in {Missing} \cup 0 .. Full(b)
    /\ pc \in [Requests -> {"idle", "user", "ip", "pass"}]
    /\ who \in [Requests -> Users \cup {Anonymous}]
    /\ ip \in [Requests -> IPs]
    /\ sweep \in {"user", "ip"}
    /\ verdict \in {"none", "granted", "refused"}
    /\ watched \in Buckets /\ passed \in Nat /\ since \in 0 .. Horizon
    /\ dropped \in Nat /\ served \subseteq Users

Init ==
    /\ window \in Windows
    /\ tokens = [b \in Buckets |-> Missing] /\ age = [b \in Buckets |-> 0]
    /\ pc = [r \in Requests |-> "idle"]
    /\ who = [r \in Requests |-> Anonymous] /\ ip \in [Requests -> IPs]
    /\ sweep = "user" /\ verdict = "none"
    /\ watched \in Buckets /\ passed = 0 /\ since = 0
    /\ dropped = 0 /\ served = {}

\* The tokens of a bucket with the refill that is due; a missing bucket is
\* made full.
Refilled(b) ==
    IF tokens[b] = Missing \/ tokens[b] + age[b] * Limit[b] > Full(b)
    THEN Full(b)
    ELSE tokens[b] + age[b] * Limit[b]

\* withRateLimit names a user by the first characters of the token.  They
\* encode the header, which is the same in all tokens of generateAccessToken.
UserBucket(r) == <<"user", IF who[r] = Anonymous THEN ip[r] ELSE Prefix>>
IPBucket(r)   == <<"ip", ip[r]>>

Goto(r, label) == pc' = [pc EXCEPT ![r] = label]

-----------------------------------------------------------------------------

\* Mistake (Next does not use it): part of a token is enough.
GrantFraction(b) ==
    /\ Refilled(b) > 0
    /\ tokens' = [tokens EXCEPT ![b] = Refilled(b) - window]
    /\ age' = [age EXCEPT ![b] = 0]
    /\ verdict' = "granted"
    /\ passed' = IF b = watched THEN passed + 1 ELSE passed
    /\ UNCHANGED <<watched, since, dropped>>

\* Mistake: a refused request moves lastRefill without adding the tokens due.
RefuseForgetting(b) ==
    /\ Refilled(b) < window
    /\ age' = [age EXCEPT ![b] = 0]
    /\ verdict' = "refused"
    /\ UNCHANGED <<tokens, history>>

\* TokenBucket.AllowRequest takes a token.
Grant(b) ==
    /\ Refilled(b) >= window
    /\ tokens' = [tokens EXCEPT ![b] = Refilled(b) - window]
    /\ age' = [age EXCEPT ![b] = 0]
    /\ verdict' = "granted"
    /\ passed' = IF b = watched THEN passed + 1 ELSE passed
    /\ UNCHANGED <<watched, since, dropped>>

\* ... or finds less than a whole one.
Refuse(b) ==
    /\ Refilled(b) < window
    /\ tokens' = [tokens EXCEPT ![b] = Refilled(b)]
    /\ age' = [age EXCEPT ![b] = 0]
    /\ verdict' = "refused"
    /\ UNCHANGED history

\* Mistake: a bucket is dropped one tick too soon.
ExpiredSooner(b) == age[b] >= MaxAge /\ tokens[b] # Missing

\* TokenBucket.Cleanup drops the buckets that were not asked for too long.
Expired(b) == age[b] > MaxAge

Drop(Old) ==
    /\ tokens' = [b \in Buckets |-> IF b \in Old THEN Missing ELSE tokens[b]]
    /\ age' = [b \in Buckets |-> IF b \in Old THEN 0 ELSE age[b]]
    /\ dropped' = IF watched \in Old THEN dropped + 1 ELSE dropped
    /\ UNCHANGED <<watched, passed, since>>

-----------------------------------------------------------------------------

\* A request of user u, or of nobody, comes in from address a.
Arrive(r, u, a) ==
    /\ pc[r] = "idle"
    /\ Goto(r, "user")
    /\ who' = [who EXCEPT ![r] = u] /\ ip' = [ip EXCEPT ![r] = a]
    /\ UNCHANGED <<window, limiter, sweep, verdict, history, served>>

\* RateLimiter.Allow asks the user's bucket first,
AllowUser(r) ==
    /\ pc[r] = "user"
    /\ \/ Grant(UserBucket(r)) /\ Goto(r, "ip")
          /\ served' = served \cup ({who[r]} \cap Users)
       \/ Refuse(UserBucket(r)) /\ Goto(r, "idle") /\ UNCHANGED served
    /\ UNCHANGED <<window, who, ip, sweep>>

\* ... then, in another critical section, the bucket of the address.
AllowIP(r) ==
    /\ pc[r] = "ip"
    /\ \/ Grant(IPBucket(r)) /\ Goto(r, "pass")
       \/ Refuse(IPBucket(r)) /\ Goto(r, "idle")
    /\ UNCHANGED <<window, who, ip, sweep, served>>

\* The handler runs and answers.
Handle(r) ==
    /\ pc[r] = "pass"
    /\ Goto(r, "idle")
    /\ UNCHANGED <<window, limiter, who, ip, sweep, verdict, history, served>>

\* The cleanup goroutine drops old buckets of one map, then of the other.
Cleanup ==
    /\ \/ sweep = "user" /\ sweep' = "ip"
          /\ Drop({b \in UserBuckets : Expired(b)})
       \/ sweep = "ip" /\ sweep' = "user"
          /\ Drop({b \in IPBuckets : Expired(b)})
    /\ UNCHANGED <<window, control, verdict, served>>

\* Time passes; at its horizon the observation starts again.
Tick ==
    /\ age' = [b \in Buckets |-> IF tokens[b] # Missing /\ age[b] < Oldest
                                 THEN age[b] + 1 ELSE age[b]]
    /\ \/ since < Horizon /\ since' = since + 1
          /\ UNCHANGED <<watched, passed, dropped>>
       \/ since = Horizon /\ since' = 0 /\ passed' = 0 /\ dropped' = 0
          /\ watched' \in Buckets
    /\ UNCHANGED <<window, tokens, control, sweep, verdict, served>>

Next ==
    \/ \E r \in Requests :
          \/ \E u \in Users \cup {Anonymous}, a \in IPs : Arrive(r, u, a)
          \/ AllowUser(r) \/ AllowIP(r) \/ Handle(r)
    \/ Cleanup \/ Tick

Spec == Init /\ [][Next]_vars

-----------------------------------------------------------------------------
(* What must hold.                                                         *)

\* The ticks of refill a bucket is given for nothing each time the cleanup
\* drops it: none, unless the window is longer than the cleanup's patience.
Forgiven == IF window > Patience THEN window - Patience ELSE 0

\* Over any stretch of time a bucket grants no more than its size, what comes
\* back in that time, and what the cleanup gave it for nothing; and the cleanup
\* drops it at most once in each stretch of its patience (and once more).  So
\* the limit is exact for every window up to the cleanup's age, however grants,
\* refusals, refills and cleanups alternate.
RateBounded ==
    /\ passed * window <= Limit[watched] * (window + since + dropped * Forgiven)
    /\ dropped * Patience <= since + Patience

\* The lazy buckets answer every request as eager ones would: a refusal loses no
\* refill, and a cleanup fills a bucket early only when the window is the longer
\* one, and then only a bucket that nobody asked for as long as the cleanup waits.
Eager == INSTANCE EagerBuckets WITH credit <- [b \in Buckets |-> Refilled(b)]

ImplementsEager == Eager!Spec

-----------------------------------------------------------------------------
(* A claim of docs/SECURITY.md the code does not meet.                     *)

\* "UserRateLimit: 100 requests/minute per user": a user is refused by the
\* user's limit only after a request of that user was granted.
FreshUserServed ==
    [][\A r \in Requests :
          pc[r] = "user" /\ pc'[r] = "idle" /\ who[r] \in Users
          => who[r] \in served]_vars
=============================================================================

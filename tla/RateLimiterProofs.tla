-------------------------- MODULE RateLimiterProofs --------------------------
(***************************************************************************)
(* Proofs about RateLimiter for every limit, window and cleanup age,       *)
(* whichever of the two is longer, and any number of clients.              *)
(***************************************************************************)
EXTENDS RateLimiter, TLAPS

\* A bucket just made has had no time to age.
MissingIsNew == \A b \in Buckets : tokens[b] = Missing => age[b] = 0

\* What was granted and what could be granted now came from the full bucket at
\* the start of the observation, from the refill since then, and from what the
\* cleanup gave away.
Account == passed * window + Refilled(watched)
             <= Limit[watched] * (window + since + dropped * Forgiven)

\* Before the watched bucket is dropped again it has to grow old again.
Spaced == dropped > 0 => (dropped - 1) * Patience + age[watched] <= since

IInv == TypeOK /\ MissingIsNew /\ Account /\ Spaced

\* Limits are natural numbers.
LEMMA LimitType == ASSUME NEW b \in Buckets PROVE Limit[b] \in Nat
  BY LimiterAssumption DEF Limit

\* The bounds on ages, and what a cleanup gives away, are natural numbers.
LEMMA ParameterType ==
  ASSUME TypeOK
  PROVE  /\ window \in Nat \ {0} /\ MaxAge \in Nat /\ Horizon \in Nat
         /\ Patience \in Nat /\ Patience = MaxAge + 1
         /\ Oldest \in Nat /\ window <= Oldest /\ Patience <= Oldest
         /\ Oldest = window \/ Oldest = Patience
         /\ Forgiven \in Nat /\ window <= Patience + Forgiven
         /\ 0 \in Ages
<1>1. window \in Nat \ {0} /\ MaxAge \in Nat /\ Horizon \in Nat
  BY LimiterAssumption DEF TypeOK
<1> QED BY <1>1 DEF Patience, Oldest, Forgiven, Ages

\* The parameters do not change while the limiter runs.
LEMMA Fixed ==
  ASSUME window' = window
  PROVE  /\ Limit' = Limit /\ Oldest' = Oldest /\ Ages' = Ages
         /\ Forgiven' = Forgiven
         /\ \A b \in Buckets : Full(b)' = Full(b)
  BY DEF Limit, Oldest, Ages, Forgiven, Full

\* A bucket is never more than full.
LEMMA RefilledType ==
  ASSUME TypeOK, NEW b \in Buckets
  PROVE  /\ Full(b) \in Nat /\ Full(b) = Limit[b] * window
         /\ Refilled(b) \in 0 .. Full(b)
<1>1. Limit[b] \in Nat /\ window \in Nat /\ age[b] \in Nat
  BY LimitType, ParameterType DEF TypeOK, Ages
<1>2. Full(b) \in Nat /\ age[b] * Limit[b] \in Nat
  BY <1>1 DEF Full
<1>3. tokens[b] \in Int /\ tokens[b] \in {Missing} \cup 0 .. Full(b)
  BY DEF TypeOK
<1> QED BY <1>2, <1>3 DEF Refilled, Missing, Full

\* A bucket that was not asked for n ticks has the refill of n ticks or is full.
LEMMA Rested ==
  ASSUME TypeOK, NEW b \in Buckets, NEW n \in Nat, tokens[b] # Missing,
         n <= age[b]
  PROVE  Refilled(b) = Full(b) \/ Refilled(b) >= Limit[b] * n
<1> DEFINE a == age[b]
           l == Limit[b]
           t == tokens[b]
<1>1. /\ l \in Nat /\ a \in Nat /\ Full(b) \in Nat
      /\ t \in 0 .. Full(b)
  BY LimitType, ParameterType, RefilledType DEF TypeOK, Ages
<1>2. l * n <= a * l /\ a * l \in Nat /\ l * n \in Nat
  BY <1>1
<1> HIDE DEF a, l, t
<1> QED BY <1>1, <1>2 DEF Refilled, a, l, t

\* A tick adds what one tick of time refills; old buckets are full.
LEMMA RefillTick ==
  ASSUME TypeOK, MissingIsNew, Tick, NEW b \in Buckets
  PROVE  Refilled(b)' = IF Refilled(b) + Limit[b] <= Full(b)
                        THEN Refilled(b) + Limit[b] ELSE Full(b)
<1> DEFINE a == age[b]
           l == Limit[b]
           t == tokens[b]
<1>1. /\ l \in Nat /\ window \in Nat /\ Oldest \in Nat
      /\ a \in 0 .. Oldest
      /\ t \in {Missing} \cup 0 .. Full(b)
      /\ Full(b) = l * window /\ Full(b) \in Nat
  BY LimitType, ParameterType, RefilledType DEF TypeOK, Ages
<1>2. tokens' = tokens /\ Limit' = Limit /\ Full(b)' = Full(b)
  BY Fixed DEF Tick
<1>3. CASE t = Missing
  <2>1. age'[b] = a
    BY <1>3 DEF Tick, MissingIsNew, TypeOK
  <2> QED BY <1>1, <1>2, <1>3, <2>1 DEF Refilled
<1>4. CASE t # Missing /\ a < Oldest
  <2>1. age'[b] = a + 1
    BY <1>4 DEF Tick, TypeOK
  <2>2. (a + 1) * l = a * l + l /\ a * l \in Nat
    BY <1>1
  <2>3. t \in 0 .. Full(b)
    BY <1>1, <1>4
  <2> HIDE DEF a, l, t
  <2> QED BY <1>1, <1>2, <1>4, <2>1, <2>2, <2>3 DEF Refilled, a, l, t
<1>5. CASE t # Missing /\ a = Oldest
  <2>1. age'[b] = a
    BY <1>5, <1>1 DEF Tick, TypeOK
  <2>2. window <= a
    BY <1>5, ParameterType
  <2>3. Refilled(b) = Full(b)
    <3>1. Refilled(b) = Full(b) \/ Refilled(b) >= Full(b)
      BY <1>1, <1>5, <2>2, Rested
    <3> QED BY <1>1, <3>1, RefilledType
  <2>4. Refilled(b)' = Refilled(b)
    BY <1>2, <2>1 DEF Refilled
  <2> HIDE DEF a, l, t
  <2> QED BY <1>1, <2>3, <2>4 DEF l
<1>6. a < Oldest \/ a = Oldest
  <2> HIDE DEF a, l, t
  <2> QED BY <1>1
<1> HIDE DEF a, l, t
<1> QED BY <1>3, <1>4, <1>5, <1>6

\* A bucket the cleanup drops holds the refill of its patience, so that dropping
\* it gives away no more than what is forgiven.
LEMMA OldHasRested ==
  ASSUME TypeOK, MissingIsNew, NEW b \in Buckets, Expired(b)
  PROVE  /\ Refilled(b) = Full(b) \/ Refilled(b) >= Limit[b] * Patience
         /\ Full(b) <= Refilled(b) + Limit[b] * Forgiven
<1>1. /\ Patience \in Nat /\ window \in Nat /\ Forgiven \in Nat
      /\ window <= Patience + Forgiven
      /\ Limit[b] \in Nat /\ Full(b) = Limit[b] * window /\ Full(b) \in Nat
      /\ Refilled(b) \in Nat
  BY ParameterType, LimitType, RefilledType
<1>2. age[b] >= Patience
  BY ParameterType DEF Expired, TypeOK, Ages
<1>3. tokens[b] # Missing
  BY <1>2, ParameterType DEF MissingIsNew
<1>4. Refilled(b) = Full(b) \/ Refilled(b) >= Limit[b] * Patience
  BY <1>1, <1>2, <1>3, Rested
<1>5. Limit[b] * Forgiven \in Nat
  BY <1>1
<1>6. Limit[b] * window <= Limit[b] * (Patience + Forgiven)
  BY <1>1
<1>7. Limit[b] * (Patience + Forgiven) = Limit[b] * Patience + Limit[b] * Forgiven
      /\ Limit[b] * Patience \in Nat
  BY <1>1
<1>8. Full(b) <= Refilled(b) + Limit[b] * Forgiven
  BY <1>1, <1>4, <1>5, <1>6, <1>7
<1> QED BY <1>4, <1>8

\* The part of TypeOK that a decision of the limiter can disturb, and the rest.
BucketsOK ==
    /\ window \in Windows
    /\ tokens \in [Buckets -> Int] /\ age \in [Buckets -> Ages]
    /\ \A b \in Buckets : tokens[b] \in {Missing} \cup 0 .. Full(b)
    /\ verdict \in {"none", "granted", "refused"}
    /\ watched \in Buckets /\ passed \in Nat /\ since \in 0 .. Horizon
    /\ dropped \in Nat

RequestsOK ==
    /\ pc \in [Requests -> {"idle", "user", "ip", "pass"}]
    /\ who \in [Requests -> Users \cup {Anonymous}]
    /\ ip \in [Requests -> IPs]
    /\ sweep \in {"user", "ip"}
    /\ served \subseteq Users

LEMMA TypeSplit == TypeOK <=> BucketsOK /\ RequestsOK
  BY DEF TypeOK, BucketsOK, RequestsOK

\* AllowRequest settles one bucket at n units.
LEMMA Settled ==
  ASSUME TypeOK, MissingIsNew, NEW b \in Buckets, NEW n \in 0 .. Full(b),
         tokens' = [tokens EXCEPT ![b] = n], age' = [age EXCEPT ![b] = 0],
         window' = window
  PROVE  /\ tokens' \in [Buckets -> Int] /\ age' \in [Buckets -> Ages]
         /\ \A c \in Buckets : tokens'[c] \in {Missing} \cup 0 .. Full(c)
         /\ MissingIsNew'
         /\ age'[b] = 0 /\ \A c \in Buckets : c # b => age'[c] = age[c]
         /\ Refilled(b)' = n
         /\ \A c \in Buckets : c # b => Refilled(c)' = Refilled(c)
<1>1. n \in Nat /\ n <= Full(b) /\ 0 \in Ages /\ Limit[b] \in Nat
  BY RefilledType, LimitType, ParameterType
<1>2. tokens' \in [Buckets -> Int] /\ age' \in [Buckets -> Ages]
  BY <1>1 DEF TypeOK
<1>3. tokens'[b] = n /\ age'[b] = 0
  BY DEF TypeOK
<1>4. \A c \in Buckets : c # b => tokens'[c] = tokens[c] /\ age'[c] = age[c]
  BY DEF TypeOK
<1>5. \A c \in Buckets : tokens'[c] \in {Missing} \cup 0 .. Full(c)
  BY <1>1, <1>3, <1>4 DEF TypeOK
<1>6. MissingIsNew'
  BY <1>3, <1>4 DEF MissingIsNew, Buckets, UserBuckets, IPBuckets
<1>7. Refilled(b)' = n
  <2>1. age'[b] * Limit[b] = 0
    BY <1>1, <1>3
  <2>2. n # Missing /\ n + 0 = n
    BY <1>1 DEF Missing
  <2>3. /\ Limit' = Limit /\ Full(b)' = Full(b)
        /\ Full(b) \in Nat
    BY RefilledType, Fixed
  <2>4. Refilled(b)' = IF n + 0 > Full(b) THEN Full(b) ELSE n + 0
    BY <1>3, <2>1, <2>2, <2>3 DEF Refilled, Missing
  <2> QED BY <1>1, <2>2, <2>3, <2>4
<1>8. \A c \in Buckets : c # b => Refilled(c)' = Refilled(c)
  BY <1>4, Fixed DEF Refilled, Buckets, UserBuckets, IPBuckets, Missing
<1> QED BY <1>2, <1>3, <1>4, <1>5, <1>6, <1>7, <1>8

\* What a decision, or any other change of the buckets, keeps.
Sound == BucketsOK /\ MissingIsNew /\ Account /\ Spaced

\* A bucket that is settled is young, so drops stay spaced.
LEMMA SettledSpaced ==
  ASSUME IInv, NEW b \in Buckets,
         age'[b] = 0, \A c \in Buckets : c # b => age'[c] = age[c],
         watched' = watched, since' = since, dropped' = dropped
  PROVE  Spaced'
<1>1. /\ Spaced /\ watched \in Buckets /\ age[watched] \in Nat
      /\ Patience \in Nat /\ dropped \in Nat /\ since \in Nat
  BY ParameterType DEF IInv, TypeOK, Ages
<1>2. age'[watched] \in Nat /\ age'[watched] <= age[watched]
  BY <1>1
<1>3. Patience' = Patience
  BY DEF Patience
<1>4. CASE dropped > 0
  <2>1. (dropped - 1) * Patience \in Nat
    BY <1>1, <1>4
  <2> QED BY <1>1, <1>2, <1>3, <1>4, <2>1 DEF Spaced
<1> QED BY <1>1, <1>4 DEF Spaced

LEMMA GrantSound ==
  ASSUME IInv, NEW b \in Buckets, Grant(b), window' = window PROVE Sound'
<1>1. /\ TypeOK /\ MissingIsNew /\ Account
      /\ window \in Nat /\ Full(b) \in Nat /\ Refilled(b) \in 0 .. Full(b)
      /\ Refilled(watched) \in Nat /\ passed \in Nat /\ since \in Nat
      /\ watched \in Buckets
  BY ParameterType, RefilledType DEF IInv, TypeOK
<1>2. Refilled(b) - window \in 0 .. Full(b)
  BY <1>1 DEF Grant
<1>3. /\ tokens' = [tokens EXCEPT ![b] = Refilled(b) - window]
      /\ age' = [age EXCEPT ![b] = 0]
      /\ verdict' = "granted" /\ watched' = watched /\ since' = since
      /\ dropped' = dropped
      /\ passed' = IF b = watched THEN passed + 1 ELSE passed
  BY DEF Grant
<1>4. /\ tokens' \in [Buckets -> Int] /\ age' \in [Buckets -> Ages]
      /\ \A c \in Buckets : tokens'[c] \in {Missing} \cup 0 .. Full(c)
      /\ MissingIsNew'
      /\ age'[b] = 0 /\ \A c \in Buckets : c # b => age'[c] = age[c]
      /\ Refilled(b)' = Refilled(b) - window
      /\ \A c \in Buckets : c # b => Refilled(c)' = Refilled(c)
  BY <1>1, <1>2, <1>3, Settled
<1>5. BucketsOK'
  BY <1>1, <1>3, <1>4, Fixed DEF BucketsOK, TypeOK
<1>6. Account'
  <2>1. Limit' = Limit /\ Forgiven' = Forgiven
    BY Fixed
  <2>2. CASE b = watched
    <3>1. (passed + 1) * window = passed * window + window
          /\ passed * window \in Nat
      BY <1>1
    <3>2. passed' = passed + 1 /\ Refilled(watched)' = Refilled(watched) - window
      BY <1>3, <1>4, <2>2 DEF Refilled, Full
    <3>3. passed' * window + Refilled(watched)' = passed * window + Refilled(watched)
      BY <1>1, <3>1, <3>2
    <3> QED BY <1>1, <1>3, <2>1, <3>3 DEF Account
  <2>3. CASE b # watched
    <3>1. Refilled(watched)' = Refilled(watched)
      BY <1>1, <1>3, <1>4, <2>3 DEF Refilled, Full
    <3> QED BY <1>1, <1>3, <2>1, <2>3, <3>1 DEF Account
  <2> QED BY <2>2, <2>3
<1>7. Spaced'
  BY <1>3, <1>4, SettledSpaced
<1> QED BY <1>4, <1>5, <1>6, <1>7 DEF Sound

LEMMA RefuseSound ==
  ASSUME IInv, NEW b \in Buckets, Refuse(b), window' = window
  PROVE  Sound' /\ \A c \in Buckets : Refilled(c)' = Refilled(c)
<1>1. TypeOK /\ MissingIsNew /\ Account /\ Refilled(b) \in 0 .. Full(b)
  BY RefilledType DEF IInv
<1>2. /\ tokens' = [tokens EXCEPT ![b] = Refilled(b)]
      /\ age' = [age EXCEPT ![b] = 0]
      /\ verdict' = "refused" /\ watched' = watched
      /\ passed' = passed /\ since' = since /\ dropped' = dropped
  BY DEF Refuse, history
<1>3. /\ tokens' \in [Buckets -> Int] /\ age' \in [Buckets -> Ages]
      /\ \A c \in Buckets : tokens'[c] \in {Missing} \cup 0 .. Full(c)
      /\ MissingIsNew'
      /\ age'[b] = 0 /\ \A c \in Buckets : c # b => age'[c] = age[c]
      /\ Refilled(b)' = Refilled(b)
      /\ \A c \in Buckets : c # b => Refilled(c)' = Refilled(c)
  BY <1>1, <1>2, Settled
<1>4. \A c \in Buckets : Refilled(c)' = Refilled(c)
  BY <1>3 DEF Refilled
<1>5. BucketsOK'
  BY <1>1, <1>2, <1>3, Fixed DEF BucketsOK, TypeOK
<1>6. Account'
  <2>1. /\ Limit' = Limit /\ Forgiven' = Forgiven
        /\ Refilled(watched)' = Refilled(watched)
    BY <1>1, <1>2, <1>4, Fixed DEF TypeOK, Refilled, Full
  <2> QED BY <1>1, <1>2, <2>1 DEF Account
<1>7. Spaced'
  BY <1>2, <1>3, SettledSpaced
<1> QED BY <1>3, <1>4, <1>5, <1>6, <1>7 DEF Sound

\* What the cleanup may do to the credit of the buckets: those it drops are
\* filled up, those it keeps are not touched.
LEMMA DropCredit ==
  ASSUME NEW Old \in SUBSET Buckets, Drop(Old), window' = window,
         NEW c \in Buckets
  PROVE  Refilled(c)' = IF c \in Old THEN Full(c) ELSE Refilled(c)
<1>1. Limit' = Limit /\ Full(c)' = Full(c) /\ Missing' = Missing
  BY Fixed DEF Missing
<1>2. CASE c \in Old
  <2>1. tokens'[c] = Missing
    BY <1>2 DEF Drop
  <2> QED BY <1>1, <1>2, <2>1 DEF Refilled
<1>3. CASE c \notin Old
  <2>1. tokens'[c] = tokens[c] /\ age'[c] = age[c]
    BY <1>3 DEF Drop
  <2> QED BY <1>1, <1>3, <2>1 DEF Refilled
<1> QED BY <1>2, <1>3

\* Dropping old buckets gives away what is forgiven, and no more.
LEMMA DropSound ==
  ASSUME IInv, NEW Old \in SUBSET Buckets, \A b \in Old : Expired(b),
         Drop(Old), window' = window, verdict' = verdict
  PROVE  Sound'
<1>1. /\ TypeOK /\ MissingIsNew /\ Account /\ Spaced
      /\ 0 \in Ages /\ Missing \in Int /\ watched \in Buckets
      /\ passed \in Nat /\ since \in Nat /\ dropped \in Nat
      /\ window \in Nat /\ Forgiven \in Nat /\ Patience \in Nat
      /\ age[watched] \in Nat
  BY ParameterType DEF IInv, Missing, TypeOK, Ages
<1>2. \A c \in Buckets : c \in Old => tokens'[c] = Missing /\ age'[c] = 0
  BY DEF Drop
<1>3. \A c \in Buckets : c \notin Old => tokens'[c] = tokens[c] /\ age'[c] = age[c]
  BY DEF Drop
<1>4. /\ watched' = watched /\ passed' = passed /\ since' = since
      /\ dropped' = IF watched \in Old THEN dropped + 1 ELSE dropped
  BY DEF Drop
<1>5. tokens' \in [Buckets -> Int] /\ age' \in [Buckets -> Ages]
  BY <1>1 DEF Drop, TypeOK
<1>6. MissingIsNew'
  BY <1>1, <1>2, <1>3 DEF MissingIsNew, Missing, Buckets, UserBuckets, IPBuckets
<1>7. BucketsOK'
  BY <1>1, <1>2, <1>3, <1>4, <1>5, Fixed DEF BucketsOK, TypeOK
<1>8. Refilled(watched)' = IF watched \in Old THEN Full(watched) ELSE Refilled(watched)
  <2>1. PICK c \in Buckets : c = watched
    BY <1>1
  <2>2. Refilled(c)' = IF c \in Old THEN Full(c) ELSE Refilled(c)
    BY DropCredit
  <2>3. Refilled(watched)' = Refilled(c)'
    BY <1>4, <2>1 DEF Refilled, Full
  <2> QED BY <2>1, <2>2, <2>3
<1>9. Account'
  <2>1. Limit' = Limit /\ Forgiven' = Forgiven
    BY Fixed
  <2>2. CASE watched \notin Old
    BY <1>1, <1>4, <1>8, <2>1, <2>2 DEF Account
  <2>3. CASE watched \in Old
    <3> DEFINE l == Limit[watched]
               g == Refilled(watched)
               p == passed * window
               e == window + since + dropped * Forgiven
    <3>1. /\ l \in Nat /\ g \in Nat /\ p \in Nat /\ e \in Nat
          /\ l * e \in Nat /\ l * Forgiven \in Nat /\ Full(watched) \in Nat
      BY <1>1, LimitType, RefilledType
    <3>2. Full(watched) <= g + l * Forgiven
      BY <1>1, <2>3, OldHasRested
    <3>3. p + g <= l * e
      BY <1>1 DEF Account
    <3>4. (dropped + 1) * Forgiven = dropped * Forgiven + Forgiven
      BY <1>1
    <3>5. window + since + (dropped + 1) * Forgiven = e + Forgiven
      BY <1>1, <3>4
    <3>6. l * (e + Forgiven) = l * e + l * Forgiven
      BY <1>1, <3>1
    <3>7. p + Full(watched) <= l * (e + Forgiven)
      <4> HIDE DEF l, g, p, e
      <4> QED BY <3>1, <3>2, <3>3, <3>6
    <3>8. p + Full(watched) <= l * (window + since + (dropped + 1) * Forgiven)
      <4> HIDE DEF l, p
      <4> QED BY <3>5, <3>7
    <3> QED BY <1>4, <1>8, <2>1, <2>3, <3>8 DEF Account
  <2> QED BY <2>2, <2>3
<1>10. Spaced'
  <2>1. Patience' = Patience
    BY DEF Patience
  <2>2. CASE watched \notin Old
    BY <1>1, <1>3, <1>4, <2>1, <2>2 DEF Spaced
  <2>3. CASE watched \in Old
    <3>1. age[watched] >= Patience
      BY <1>1, <2>3, ParameterType DEF Expired
    <3>2. age'[watched] = 0 /\ dropped' = dropped + 1
      BY <1>1, <1>2, <1>4, <2>3
    <3>3. dropped * Patience <= since
      <4>1. CASE dropped = 0
        BY <1>1, <4>1
      <4>2. CASE dropped > 0
        <5>1. (dropped - 1) * Patience + age[watched] <= since
          BY <1>1, <4>2 DEF Spaced
        <5>2. (dropped - 1) * Patience = dropped * Patience - Patience
              /\ dropped * Patience \in Int
          BY <1>1
        <5> QED BY <1>1, <3>1, <5>1, <5>2
      <4> QED BY <1>1, <4>1, <4>2
    <3>4. (dropped' - 1) * Patience + age'[watched] = dropped * Patience
      <4>1. dropped' - 1 = dropped
        BY <1>1, <3>2
      <4>2. dropped * Patience + 0 = dropped * Patience
        BY <1>1
      <4> QED BY <3>2, <4>1, <4>2
    <3> QED BY <1>4, <2>1, <3>3, <3>4 DEF Spaced
  <2> QED BY <2>2, <2>3
<1> QED BY <1>6, <1>7, <1>9, <1>10 DEF Sound

\* Time refills the watched bucket by no more than the account allows, and a
\* new observation starts with a bucket that is not more than full.
LEMMA TickSound == ASSUME IInv, Tick PROVE Sound'
<1>1. /\ TypeOK /\ MissingIsNew /\ Account
      /\ window \in Nat /\ MaxAge \in Nat /\ Horizon \in Nat
      /\ Oldest \in Nat /\ Forgiven \in Nat /\ Patience \in Nat
      /\ watched \in Buckets /\ passed \in Nat /\ since \in 0 .. Horizon
      /\ dropped \in Nat /\ age[watched] \in Nat
  BY ParameterType DEF IInv, TypeOK, Ages
<1>2. /\ tokens' = tokens /\ verdict' = verdict /\ window' = window
      /\ Limit' = Limit /\ Ages' = Ages /\ Forgiven' = Forgiven
      /\ Patience' = Patience
  BY Fixed DEF Tick, Patience
<1>3. \A c \in Buckets : age'[c] = IF tokens[c] # Missing /\ age[c] < Oldest
                                   THEN age[c] + 1 ELSE age[c]
  BY DEF Tick
<1>4. age' \in [Buckets -> Ages]
  <2>1. ASSUME NEW c \in Buckets PROVE age'[c] \in Ages
    <3>1. age[c] \in 0 .. Oldest
      BY <1>1 DEF TypeOK, Ages
    <3> QED BY <1>1, <1>3, <3>1 DEF Ages
  <2>2. age' = [c \in Buckets |-> age'[c]]
    BY DEF Tick
  <2> QED BY <2>1, <2>2
<1>5. /\ watched' \in Buckets /\ passed' \in Nat /\ since' \in 0 .. Horizon
      /\ dropped' \in Nat
  BY <1>1 DEF Tick
<1>6. BucketsOK'
  BY <1>1, <1>2, <1>4, <1>5, Fixed DEF BucketsOK, TypeOK
<1>7. MissingIsNew'
  BY <1>1, <1>2, <1>3 DEF MissingIsNew, Missing, Buckets, UserBuckets, IPBuckets
<1>8. Account'
  <2>1. CASE since < Horizon /\ since' = since + 1
             /\ watched' = watched /\ passed' = passed /\ dropped' = dropped
    <3> DEFINE l == Limit[watched]
               e == window + since + dropped * Forgiven
               p == passed * window
               g == Refilled(watched)
    <3>1. l \in Nat /\ p \in Nat /\ g \in Nat /\ g <= Full(watched)
      BY <1>1, LimitType, RefilledType
    <3>2. Refilled(watched)' <= g + l /\ Refilled(watched)' \in Nat
      <4>1. PICK c \in Buckets : c = watched
        BY <1>1
      <4>2. Refilled(c)' = IF Refilled(c) + Limit[c] <= Full(c)
                           THEN Refilled(c) + Limit[c] ELSE Full(c)
        BY <1>1, RefillTick
      <4>3. Refilled(watched)' = Refilled(c)'
        BY <2>1, <4>1 DEF Refilled, Full
      <4>4. Full(c) \in Nat
        BY RefilledType, <1>1
      <4>5. Refilled(c) = g /\ Limit[c] = l
        BY <4>1
      <4> HIDE DEF l, p, g
      <4> QED BY <3>1, <4>2, <4>3, <4>4, <4>5
    <3>3. /\ e \in Nat /\ l * e \in Nat /\ l * (e + 1) = l * e + l
          /\ window + since' + dropped * Forgiven = e + 1
      BY <1>1, <2>1, <3>1
    <3>4. p + g <= l * e
      BY <1>1 DEF Account
    <3>5. p + Refilled(watched)' <= l * (e + 1)
      <4> HIDE DEF l, p, g, e
      <4> QED BY <3>1, <3>2, <3>3, <3>4
    <3>6. p + Refilled(watched)' <= l * (window + since' + dropped * Forgiven)
      <4> HIDE DEF l, p, e
      <4> QED BY <3>3, <3>5
    <3> QED BY <1>2, <2>1, <3>6 DEF Account
  <2>2. CASE since' = 0 /\ passed' = 0 /\ dropped' = 0
    <3>1. PICK c \in Buckets : c = watched'
      BY <1>5
    <3>2. Refilled(c)' = IF Refilled(c) + Limit[c] <= Full(c)
                         THEN Refilled(c) + Limit[c] ELSE Full(c)
      BY <1>1, RefillTick
    <3>3. /\ Full(c) = Limit[c] * window /\ Full(c) \in Nat
          /\ Refilled(c) \in Nat /\ Limit[c] \in Nat
      BY <1>1, LimitType, RefilledType
    <3>4. Refilled(watched)' = Refilled(c)'
      BY <3>1 DEF Refilled, Full
    <3>5. Refilled(c)' <= Full(c) /\ Refilled(c)' \in Nat
      BY <3>2, <3>3
    <3>6. 0 * window + Refilled(watched)'
            <= Limit[c] * (window + 0 + 0 * Forgiven)
      BY <1>1, <3>3, <3>4, <3>5
    <3> QED BY <1>2, <2>2, <3>1, <3>6 DEF Account
  <2> QED BY <2>1, <2>2 DEF Tick
<1>9. Spaced'
  <2>1. CASE since' = since + 1 /\ watched' = watched /\ dropped' = dropped
    <3>1. age'[watched] \in Nat /\ age'[watched] <= age[watched] + 1
      BY <1>1, <1>3
    <3>2. CASE dropped > 0
      <4>1. (dropped - 1) * Patience + age[watched] <= since
        BY <1>1, <3>2 DEF IInv, Spaced
      <4>2. (dropped - 1) * Patience \in Nat
        BY <1>1, <3>2
      <4> QED BY <1>1, <1>2, <2>1, <3>1, <4>1, <4>2 DEF Spaced
    <3> QED BY <1>1, <2>1, <3>2 DEF Spaced
  <2>2. CASE dropped' = 0
    BY <2>2 DEF Spaced
  <2> QED BY <2>1, <2>2 DEF Tick
<1> QED BY <1>6, <1>7, <1>8, <1>9 DEF Sound

\* What a step leaves alone stays sound.
LEMMA IdleSound ==
  ASSUME IInv, UNCHANGED <<window, limiter, verdict, history>>
  PROVE  Sound' /\ \A c \in Buckets : Refilled(c)' = Refilled(c)
<1>1. /\ tokens' = tokens /\ age' = age /\ verdict' = verdict
      /\ watched' = watched /\ passed' = passed /\ since' = since
      /\ dropped' = dropped /\ window' = window
      /\ Limit' = Limit /\ Ages' = Ages /\ Forgiven' = Forgiven
      /\ Patience' = Patience
  BY Fixed DEF limiter, history, Patience
<1>2. \A c \in Buckets : Refilled(c)' = Refilled(c)
  BY <1>1 DEF Refilled, Full
<1> QED BY <1>1, <1>2 DEF IInv, Sound, BucketsOK, TypeOK, MissingIsNew, Account,
                          Spaced, Refilled, Full

LEMMA UserBucketType ==
  ASSUME TypeOK, NEW r \in Requests
  PROVE  UserBucket(r) \in Buckets /\ IPBucket(r) \in Buckets
  BY DEF TypeOK, UserBucket, IPBucket, Buckets, UserBuckets, IPBuckets

LEMMA InitInv == Init => IInv
<1> SUFFICES ASSUME Init PROVE IInv
  OBVIOUS
<1>1. /\ window \in Nat \ {0} /\ Horizon \in Nat /\ Missing \in Int
      /\ 0 \in Ages
      /\ watched \in Buckets /\ passed = 0 /\ since = 0 /\ dropped = 0
  BY LimiterAssumption DEF Init, Missing, Ages, Oldest, Patience
<1>2. TypeOK
  BY <1>1 DEF Init, TypeOK
<1>3. MissingIsNew
  BY DEF Init, MissingIsNew
<1>4. Account
  <2>1. /\ Refilled(watched) <= Full(watched) /\ Refilled(watched) \in Nat
        /\ Full(watched) = Limit[watched] * window /\ Limit[watched] \in Nat
        /\ Forgiven \in Nat
    BY <1>1, <1>2, RefilledType, LimitType, ParameterType
  <2> QED BY <1>1, <2>1 DEF Account
<1>5. Spaced
  BY <1>1 DEF Spaced
<1> QED BY <1>2, <1>3, <1>4, <1>5 DEF IInv

\* Every step keeps the invariant, ...
LEMMA StepInv == IInv /\ [Next]_vars => IInv'
<1> SUFFICES ASSUME IInv, [Next]_vars PROVE Sound' /\ RequestsOK'
  BY TypeSplit DEF IInv, Sound, TypeOK, BucketsOK, RequestsOK
<1>1. TypeOK
  BY DEF IInv
<1>2. ASSUME NEW r \in Requests, NEW u \in Users \cup {Anonymous},
             NEW a \in IPs, Arrive(r, u, a)
      PROVE  Sound' /\ RequestsOK'
  BY <1>1, <1>2, IdleSound DEF Arrive, Goto, RequestsOK, TypeOK
<1>3. ASSUME NEW r \in Requests, AllowUser(r) PROVE Sound' /\ RequestsOK'
  <2>1. Sound'
    BY <1>1, <1>3, UserBucketType, GrantSound, RefuseSound DEF AllowUser
  <2>2. RequestsOK'
    BY <1>1, <1>3 DEF AllowUser, Goto, RequestsOK, TypeOK
  <2> QED BY <2>1, <2>2
<1>4. ASSUME NEW r \in Requests, AllowIP(r) PROVE Sound' /\ RequestsOK'
  <2>1. Sound'
    BY <1>1, <1>4, UserBucketType, GrantSound, RefuseSound DEF AllowIP
  <2>2. RequestsOK'
    BY <1>1, <1>4 DEF AllowIP, Goto, RequestsOK, TypeOK
  <2> QED BY <2>1, <2>2
<1>5. ASSUME NEW r \in Requests, Handle(r) PROVE Sound' /\ RequestsOK'
  BY <1>1, <1>5, IdleSound DEF Handle, Goto, RequestsOK, TypeOK
<1>6. CASE Cleanup
  <2>1. PICK Old \in SUBSET Buckets :
          (\A b \in Old : Expired(b)) /\ Drop(Old)
    <3>1. {b \in UserBuckets : Expired(b)} \in SUBSET Buckets
          /\ {b \in IPBuckets : Expired(b)} \in SUBSET Buckets
      BY DEF Buckets
    <3> QED BY <1>6, <3>1 DEF Cleanup
  <2>2. Sound'
    BY <1>6, <2>1, DropSound DEF Cleanup
  <2>3. RequestsOK'
    BY <1>1, <1>6 DEF Cleanup, control, RequestsOK, TypeOK
  <2> QED BY <2>2, <2>3
<1>7. CASE Tick
  BY <1>1, <1>7, TickSound DEF Tick, control, RequestsOK, TypeOK
<1>8. CASE UNCHANGED vars
  BY <1>1, <1>8, IdleSound DEF vars, control, RequestsOK, TypeOK
<1> QED BY <1>2, <1>3, <1>4, <1>5, <1>6, <1>7, <1>8 DEF Next

\* ... so it holds always.
THEOREM Invariance == Spec => []IInv
  BY InitInv, StepInv, PTL DEF Spec

\* The limiter is type correct, and tokens stay within each bucket.
THEOREM TypeCorrect == Spec => []TypeOK
<1>1. IInv => TypeOK
  BY DEF IInv
<1> QED BY <1>1, Invariance, PTL

\* No bucket grants more, over any stretch of time, than its size, the refill of
\* that time and what dropping it gives away, and it is dropped no more often than
\* the cleanup's patience allows: for every limit, window and cleanup age.
THEOREM RateIsBounded == Spec => []RateBounded
<1>1. IInv => RateBounded
  <2> SUFFICES ASSUME IInv PROVE RateBounded
    OBVIOUS
  <2>1. /\ passed * window \in Nat /\ Refilled(watched) \in Nat
        /\ Limit[watched] * (window + since + dropped * Forgiven) \in Nat
    BY ParameterType, RefilledType, LimitType DEF IInv, TypeOK
  <2>2. passed * window <= Limit[watched] * (window + since + dropped * Forgiven)
    BY <2>1 DEF IInv, Account
  <2>3. /\ dropped \in Nat /\ since \in Nat /\ Patience \in Nat
        /\ age[watched] \in Nat
    BY ParameterType DEF IInv, TypeOK, Ages
  <2>4. dropped * Patience <= since + Patience
    <3>1. CASE dropped = 0
      BY <2>3, <3>1
    <3>2. CASE dropped > 0
      <4>1. (dropped - 1) * Patience + age[watched] <= since
        BY <3>2 DEF IInv, Spaced
      <4>2. (dropped - 1) * Patience = dropped * Patience - Patience
            /\ dropped * Patience \in Int
        BY <2>3
      <4> QED BY <2>3, <4>1, <4>2
    <3> QED BY <2>3, <3>1, <3>2
  <2> QED BY <2>2, <2>4 DEF RateBounded
<1> QED BY <1>1, Invariance, PTL

\* The limit is exact while the window is not longer than the cleanup's age, as it
\* is by default: then a bucket grants its size and the refill, and no more.
THEOREM RateIsExact ==
  ASSUME \A w \in Windows : w <= Patience
  PROVE  Spec => [](passed * window <= Limit[watched] * (window + since))
<1>1. IInv /\ RateBounded => passed * window <= Limit[watched] * (window + since)
  <2> SUFFICES ASSUME IInv, RateBounded
               PROVE  passed * window <= Limit[watched] * (window + since)
    OBVIOUS
  <2>1. Forgiven = 0 /\ window \in Nat /\ since \in Nat /\ dropped \in Nat
    BY ParameterType DEF IInv, TypeOK, Forgiven
  <2>2. window + since + dropped * Forgiven = window + since
    BY <2>1
  <2> QED BY <2>2 DEF RateBounded
<1> QED BY <1>1, Invariance, RateIsBounded, PTL

\* The first state of the limiter is one of the eager buckets.
LEMMA EagerInit == Init => Eager!Init
<1> SUFFICES ASSUME Init PROVE Eager!Init
  OBVIOUS
<1>1. \A b \in Buckets : Refilled(b) = Full(b)
  BY DEF Init, Refilled
<1> QED BY <1>1 DEF Init, Eager!Init, Eager!Full, Full

\* A step of the limiter is a step of the eager buckets, or none; the cleanup
\* fills up buckets that hold the refill of its patience.
LEMMA EagerStep ==
  ASSUME IInv, [Next]_vars
  PROVE  \/ [Eager!Earned]_(Eager!vars)
         \/ \E Old \in SUBSET Buckets : Eager!FillEarly(Old)
<1>1. TypeOK /\ MissingIsNew
  BY DEF IInv
<1>2. ASSUME \A c \in Buckets : Refilled(c)' = Refilled(c), verdict' = verdict,
             window' = window
      PROVE  UNCHANGED Eager!vars
  BY <1>2 DEF Eager!vars
<1>3. ASSUME NEW b \in Buckets, Grant(b), window' = window PROVE Eager!Grant(b)
  <2>1. /\ tokens' = [tokens EXCEPT ![b] = Refilled(b) - window]
        /\ age' = [age EXCEPT ![b] = 0]
        /\ Refilled(b) - window \in 0 .. Full(b)
    BY <1>1, <1>3, RefilledType, ParameterType DEF Grant
  <2>2. /\ Refilled(b)' = Refilled(b) - window
        /\ \A c \in Buckets : c # b => Refilled(c)' = Refilled(c)
    BY <1>1, <1>3, <2>1, Settled
  <2> QED BY <1>3, <2>2 DEF Grant, Eager!Grant
<1>4. ASSUME NEW b \in Buckets, Refuse(b), window' = window PROVE Eager!Refuse(b)
  <2>1. \A c \in Buckets : Refilled(c)' = Refilled(c)
    BY <1>4, RefuseSound
  <2> QED BY <1>4, <2>1 DEF Refuse, Eager!Refuse
<1>5. ASSUME Tick PROVE Eager!Tick
  <2>1. \A b \in Buckets : Refilled(b)' = Eager!Capped(b, Refilled(b) + Limit[b])
    BY <1>1, <1>5, RefillTick DEF Eager!Capped, Eager!Full, Full
  <2> QED BY <1>5, <2>1 DEF Tick, Eager!Tick
<1>6. ASSUME NEW r \in Requests, AllowUser(r) \/ AllowIP(r)
      PROVE  Eager!Earned
  BY <1>1, <1>3, <1>4, <1>6, UserBucketType DEF AllowUser, AllowIP, Eager!Earned
<1>7. ASSUME Cleanup PROVE \E Old \in SUBSET Buckets : Eager!FillEarly(Old)
  <2>1. PICK Old \in SUBSET Buckets : (\A b \in Old : Expired(b)) /\ Drop(Old)
    <3>1. {b \in UserBuckets : Expired(b)} \in SUBSET Buckets
          /\ {b \in IPBuckets : Expired(b)} \in SUBSET Buckets
      BY DEF Buckets
    <3> QED BY <1>7, <3>1 DEF Cleanup
  <2>2. window' = window /\ verdict' = verdict
    BY <1>7 DEF Cleanup
  <2>3. \A c \in Buckets :
          Refilled(c)' = IF c \in Old THEN Full(c) ELSE Refilled(c)
    BY <2>1, <2>2, DropCredit
  <2>4. ASSUME NEW b \in Old
        PROVE  Refilled(b) >= Eager!Capped(b, Limit[b] * Patience)
    <3>1. Refilled(b) = Full(b) \/ Refilled(b) >= Limit[b] * Patience
      BY <1>1, <2>1, OldHasRested
    <3>2. /\ Full(b) \in Nat /\ Refilled(b) \in Nat /\ Limit[b] * Patience \in Nat
      BY <1>1, RefilledType, LimitType, ParameterType
    <3> QED BY <3>1, <3>2 DEF Eager!Capped, Eager!Full, Full
  <2>5. Eager!FillEarly(Old)
    BY <2>2, <2>3, <2>4 DEF Eager!FillEarly, Eager!Full, Full
  <2> QED BY <2>5
<1>8. ASSUME UNCHANGED <<window, limiter, verdict, history>>
      PROVE  UNCHANGED Eager!vars
  BY <1>2, <1>8, IdleSound
<1> QED BY <1>5, <1>6, <1>7, <1>8 DEF Next, Arrive, Handle, vars, Eager!Earned

\* Lazy refills cannot be told from buckets that are filled as time passes, nor can
\* the cleanup, but for filling up buckets nobody asked for as long as it waits.
THEOREM EagerImplemented == Spec => ImplementsEager
<1>1. IInv /\ [Next]_vars => [Eager!Next]_(Eager!vars)
  BY EagerStep DEF Eager!Next
<1> QED BY <1>1, EagerInit, Invariance, PTL DEF Spec, ImplementsEager, Eager!Spec

\* While the window is not longer than the cleanup's age, no bucket is ever filled
\* up early: the cleanup cannot be told from none.
THEOREM EagerWhenPatient ==
  ASSUME \A w \in Windows : w <= Patience
  PROVE  Spec => Eager!StrictSpec
<1>1. ASSUME IInv, NEW Old \in SUBSET Buckets, Eager!FillEarly(Old)
      PROVE  UNCHANGED Eager!vars
  <2>1. ASSUME NEW b \in Old PROVE Refilled(b) = Full(b)
    <3>1. /\ window \in Nat /\ Patience \in Nat /\ window <= Patience
          /\ Limit[b] \in Nat /\ Full(b) = Limit[b] * window
          /\ Refilled(b) \in 0 .. Full(b)
      BY <1>1, ParameterType, LimitType, RefilledType DEF IInv, TypeOK
    <3>2. Limit[b] * window <= Limit[b] * Patience /\ Limit[b] * Patience \in Nat
      BY <3>1
    <3>3. Refilled(b) >= Eager!Capped(b, Limit[b] * Patience)
      <4>1. b \in Buckets
        OBVIOUS
      <4> QED BY <1>1, <4>1 DEF Eager!FillEarly
    <3>4. Eager!Full(b) = Full(b)
      BY DEF Eager!Full, Full
    <3>5. Full(b) <= Limit[b] * Patience
      BY <3>1, <3>2
    <3>6. Eager!Capped(b, Limit[b] * Patience) >= Full(b)
      BY <3>1, <3>4, <3>5 DEF Eager!Capped
    <3> QED BY <3>1, <3>3, <3>4, <3>6, <3>2 DEF Eager!Capped
  <2> QED BY <1>1, <2>1 DEF Eager!FillEarly, Eager!Full, Full, Eager!vars
<1>2. IInv /\ [Next]_vars => [Eager!Earned]_(Eager!vars)
  BY <1>1, EagerStep
<1> QED BY <1>2, EagerInit, Invariance, PTL DEF Spec, Eager!StrictSpec
=============================================================================

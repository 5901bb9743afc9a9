---------------------------- MODULE EagerBuckets ----------------------------
(***************************************************************************)
(* What a token bucket promises: each bucket starts full, fills with time  *)
(* up to its limit, and a request is granted if and only if the bucket     *)
(* holds a whole token.  Nothing here is lazy.  A token is `window' units; *)
(* a tick of time adds Limit[b] units, so that Limit[b] tokens come back   *)
(* in `window' ticks.  A bucket that holds the refill of Patience ticks    *)
(* may be filled up early: when no window is longer than Patience such a   *)
(* bucket is full anyway, and nothing is given away.                       *)
(***************************************************************************)
EXTENDS Naturals

CONSTANTS Buckets, Limit, Windows, Patience

VARIABLES
    window,     \* the ticks in which an empty bucket fills
    credit,     \* the units in each bucket
    verdict     \* the answer to the latest request

vars == <<window, credit, verdict>>

Full(b) == Limit[b] * window
Capped(b, units) == IF units <= Full(b) THEN units ELSE Full(b)

Init ==
    /\ window \in Windows
    /\ credit = [b \in Buckets |-> Full(b)]
    /\ verdict = "none"

Grant(b) ==
    /\ credit[b] >= window
    /\ credit' = [credit EXCEPT ![b] = @ - window]
    /\ verdict' = "granted"
    /\ UNCHANGED window

Refuse(b) ==
    /\ credit[b] < window
    /\ verdict' = "refused"
    /\ UNCHANGED <<window, credit>>

Tick ==
    /\ credit' = [b \in Buckets |-> Capped(b, credit[b] + Limit[b])]
    /\ UNCHANGED <<window, verdict>>

\* Old buckets are filled up.
FillEarly(Old) ==
    /\ \A b \in Old : credit[b] >= Capped(b, Limit[b] * Patience)
    /\ credit' = [b \in Buckets |-> IF b \in Old THEN Full(b) ELSE credit[b]]
    /\ UNCHANGED <<window, verdict>>

Earned == Tick \/ \E b \in Buckets : Grant(b) \/ Refuse(b)
Next   == Earned \/ \E Old \in SUBSET Buckets : FillEarly(Old)

Spec == Init /\ [][Next]_vars

\* Nothing is given away.
StrictSpec == Init /\ [][Earned]_vars
=============================================================================

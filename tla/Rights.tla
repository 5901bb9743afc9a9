------------------------------- MODULE Rights -------------------------------
(***************************************************************************)
(* What PermissionService promises: a right to a VM is given at a level    *)
(* that includes the weaker ones, lasts for the time it was given for and  *)
(* not longer, and is gone at once when it is revoked.                     *)
(***************************************************************************)
EXTENDS Naturals

CONSTANTS Pairs,    \* a user and a VM
          Forever   \* the time of a right without an end

VARIABLE right      \* per pair what the user may do, and for how long

Levels == {"view", "control", "admin"}

Within(level) == CASE level = "view"    -> {"view"}
                   [] level = "control" -> {"view", "control"}
                   [] level = "admin"   -> Levels

None == [may |-> {}, left |-> 0]

Init == right = [p \in Pairs |-> None]

Give(p, level, time) ==
    /\ right[p] = None /\ time > 0
    /\ right' = [right EXCEPT ![p] = [may |-> Within(level), left |-> time]]

Take(p) == right' = [right EXCEPT ![p] = None]

After(r) == IF r.left \in {0, Forever} THEN r
            ELSE IF r.left = 1 THEN None
            ELSE [r EXCEPT !.left = r.left - 1]

Tick == right' = [p \in Pairs |-> After(right[p])]

Next == \/ \E p \in Pairs, level \in Levels, time \in 1 .. Forever : Give(p, level, time)
        \/ \E p \in Pairs : Take(p)
        \/ Tick

Spec == Init /\ [][Next]_right
=============================================================================

----------------------------- MODULE MCAccounts -----------------------------
(***************************************************************************)
(* The symmetry of the run of Accounts: it has no liveness property.       *)
(***************************************************************************)
EXTENDS Accounts, TLC

Symmetry == UNION {Permutations(S) :
                    S \in {Users, Requests, Emails, Passwords, Names}}
=============================================================================

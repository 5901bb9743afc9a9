------------------------------ MODULE MCLimiter ------------------------------
(***************************************************************************)
(* The requests of RateLimiter are interchangeable.                        *)
(***************************************************************************)
EXTENDS RateLimiter, TLC

RequestSymmetry == Permutations(Requests)
=============================================================================

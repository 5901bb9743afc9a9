----------------------------- MODULE MCVMAccess -----------------------------
(***************************************************************************)
(* The symmetry of the run of VMAccess: it has no liveness property.       *)
(***************************************************************************)
EXTENDS VMAccess, TLC

Symmetry == UNION {Permutations(S) : S \in {VMs, LibvirtIDs, Configs, Requests}}
=============================================================================

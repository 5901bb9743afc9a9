------------------------------ MODULE MCConsole ------------------------------
(* Instances of ConsoleManager for TLC: the .cfg files choose the sizes.    *)
EXTENDS ConsoleManager, TLC

\* Requests, ids and session objects are interchangeable.
Symmetry == Permutations(Requests) \cup Permutations(Sessions)
            \cup Permutations(SessionIDs)
=============================================================================

-------------------------- MODULE MCWorkDirectory --------------------------
(* Instances of WorkDirectory for TLC. *)
EXTENDS WorkDirectory, TLC

CONSTANTS r1, r2, r3, l1, g1, pA, pB, pC   \* handlers and projects

(* Every lookup asks for the first run. *)
MCWanted == [l \in Lookups |-> r1]

(* The other runs differ by name only, and so do the projects. *)
MCSymmetry == Permutations(Runs \ {r1}) \cup Permutations(Projects)
=============================================================================

------------------------ MODULE MCSimulationService ------------------------
(* Instances of SimulationService for TLC. *)
EXTENDS SimulationService, TLC

CONSTANTS s1, s2, s3, t1, a1, a2,   \* calls
          project, absolute, relative   \* spellings of projectPath

(* Two spellings of two absolute paths; the second is the default project,  *)
(* sent as an absolute path or relative to the repository root.             *)
MCRoot == [p \in Paths \ {NoPath} |->
              IF p = project THEN "/project" ELSE "/default"]
MCDir == [root \in {MCRoot[p] : p \in Paths \ {NoPath}} |->
              IF root = "/project" THEN "projectDir" ELSE "defaultDir"]
MCDefaultDir == "defaultDir"
MCDefaultRoots == {"/default"} \cap {MCRoot[p] : p \in Paths \ {NoPath}}

(* Simulations differ by name only.  For runs that check no liveness.        *)
MCSymmetry == Permutations(Simulations)
=============================================================================

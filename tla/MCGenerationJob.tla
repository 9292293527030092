---------------------------- MODULE MCGenerationJob ---------------------------
(* Instances of GenerationJob for TLC. *)
EXTENDS GenerationJobProps, TLC

CONSTANTS m1, m2, j1

Managers == Permutations({m1, m2})
=============================================================================

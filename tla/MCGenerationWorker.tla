--------------------------- MODULE MCGenerationWorker ---------------------------
(* GenerationWorker on a small instance for its safety properties: requests *)
(* are interchangeable, so one of each permutation class is enough.         *)
EXTENDS GenerationWorker, TLC

RequestSymmetry == Permutations(Member)

=============================================================================

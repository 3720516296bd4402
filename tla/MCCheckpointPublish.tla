-------------------------- MODULE MCCheckpointPublish --------------------------
(* CheckpointPublish on a small instance: conversions are interchangeable.   *)
EXTENDS CheckpointPublish, TLC

JobSymmetry == Permutations(Convert)
=============================================================================

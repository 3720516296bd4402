---------------------------- MODULE MCBackendRegistry ----------------------------
(* BackendRegistry on a small instance: callers, allocations and contents   *)
(* are interchangeable.                                                     *)
EXTENDS BackendRegistry, TLC

RegistrySymmetry == Permutations(Loader) \cup Permutations(Instance)
                    \cup Permutations(Digest) \cup Permutations(Policy)

=============================================================================

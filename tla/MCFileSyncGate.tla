-------------------------- MODULE MCFileSyncGate --------------------------
(* FileSyncGate on small instances. *)
EXTENDS FileSyncGate, TLC

Symmetry == Permutations(Workers)
=============================================================================

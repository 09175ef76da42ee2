------------------------------ MODULE MCEngine ------------------------------
(* Small instances of Engine for TLC. *)
EXTENDS Engine, TLC

Symmetric == Permutations(Job) \cup Permutations(Relay)

=============================================================================

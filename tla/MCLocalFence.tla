---------------------------- MODULE MCLocalFence ----------------------------
(* Two generations compete for one store; two callback tasks, so that a task *)
(* of the old generation can meet a task of the new one.                     *)
EXTENDS LocalFence, TLC

Symmetry == Permutations(Generation) \cup Permutations(Task)

=============================================================================

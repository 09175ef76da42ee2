----------------------------- MODULE MCExternal -----------------------------
(* Small instances of External for TLC. *)
EXTENDS External, TLC

Symmetric == Permutations(Job) \cup Permutations(Worker) \cup Permutations(Resv)

=============================================================================

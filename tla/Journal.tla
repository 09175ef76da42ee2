------------------------------ MODULE Journal -------------------------------
(***************************************************************************)
(* What the store promises the Engine, whatever happens to its files: one   *)
(* sequence of records, a prefix of which is committed.  Records are        *)
(* appended to its end.  What is not committed may be lost from its end;    *)
(* what is committed stays where it is.  Rotation, compaction and recovery  *)
(* are not to be seen.                                                      *)
(***************************************************************************)
EXTENDS Naturals, Sequences

VARIABLES
  log,       \* the records an opened store replays
  committed  \* how many of them were acknowledged or replayed

vars == <<log, committed>>

Init == log = <<>> /\ committed = 0

\* The record is none the journal has had before.
Write ==
  /\ Len(log') = Len(log) + 1 /\ SubSeq(log', 1, Len(log)) = log
  /\ \A i \in DOMAIN log : log[i] < log'[Len(log')]
  /\ UNCHANGED committed

Commit == committed' \in committed..Len(log) /\ UNCHANGED log

Lose ==
  /\ \E n \in committed..Len(log) : log' = SubSeq(log, 1, n)
  /\ UNCHANGED committed

Next == Write \/ Commit \/ Lose

Spec == Init /\ [][Next]_vars
=============================================================================

--------------------------- MODULE MCCoordinator ---------------------------
(***************************************************************************)
(* Instances of Coordinator.                                               *)
(***************************************************************************)
EXTENDS Coordinator

CONSTANT s1

Every == [kind |-> "every", expression |-> 1, catch_up |-> "all", overlap |-> "skip",
          args |-> 0, volatile |-> FALSE]

MCDefinitions ==
  {Every,
   [Every EXCEPT !.overlap = "queue", !.catch_up = "latest", !.args = 1],
   [Every EXCEPT !.kind = "cron", !.expression = 2, !.overlap = "allow", !.volatile = TRUE]}

=============================================================================

-------------------------------- MODULE Jobs --------------------------------
(***************************************************************************)
(* The job record and its six mutations: the pure lifecycle model that live *)
(* commands and log replay share (lib/tay/state/transition.ex, applied      *)
(* through storage/v2/reducer.ex), and the classification of an outcome     *)
(* (lib/tay/execution/outcome.ex).                                          *)
(*                                                                          *)
(* Times are abstracted: whether a clock reading has reached a due time is  *)
(* a choice of whoever reads the clock, because the wall clock may step in  *)
(* either direction between two readings.  The cycle token is left out: the *)
(* mutation takes it from the very record it is compared with.              *)
(***************************************************************************)
EXTENDS Naturals

CONSTANT MaxAttempts    \* definition["max_attempts"] of every job

ASSUME MaxAttemptsAssumption == MaxAttempts \in Nat \ {0}

Terminal == {"completed", "cancelled", "discarded"}
Live == {"available", "scheduled", "executing", "retryable"}
Durability == {"persistent", "volatile"}
Outcome == {"success", "failure", "timeout", "interrupted"}

\* attempt, next and exec use 0 for nil; rev counts the job's mutations, and
\* exec is the revision of the start that is being executed.
JobRecord == [state : Terminal \cup Live \cup {"absent"}, dur : Durability,
              attempt : 0..MaxAttempts, next : 0..MaxAttempts,
              rev : Nat, exec : Nat]

Absent == [state |-> "absent", dur |-> "persistent",
           attempt |-> 0, next |-> 0, rev |-> 0, exec |-> 0]

\* Type 1.  The job is available when its eligible_at has been reached.
Inserted(dur, due) ==
  [state |-> IF due THEN "available" ELSE "scheduled", dur |-> dur,
   attempt |-> 0, next |-> 1, rev |-> 1, exec |-> 0]

\* The record after one more mutation of p.
Mutated(p, state, attempt, next, exec) ==
  [state |-> state, dur |-> p.dur, attempt |-> attempt, next |-> next,
   rev |-> p.rev + 1, exec |-> exec]

\* Type 2, for a scheduled or retryable job whose due time has come.
CanMakeAvailable(p) == p.state \in {"scheduled", "retryable"}
MadeAvailable(p) == Mutated(p, "available", p.attempt, p.next, p.exec)

\* Type 3, for an available job that is due and has an attempt left.
CanStart(p) == p.state = "available" /\ p.next \in 1..MaxAttempts
Started(p) == Mutated(p, "executing", p.next, p.next, p.rev + 1)

NextAttemptDiscardingEarly(outcome, attempt) ==
  IF outcome = "interrupted" THEN attempt
  ELSE IF outcome # "success" /\ attempt + 1 < MaxAttempts THEN attempt + 1 ELSE 0

\* Type 4.  Success completes; an interruption repeats the same attempt; any
\* other outcome goes to the next attempt, or discards the job after the last.
NextAttempt(outcome, attempt) ==
  IF outcome = "interrupted" THEN attempt
  ELSE IF outcome # "success" /\ attempt < MaxAttempts THEN attempt + 1 ELSE 0

CanFinish(p, token) == p.state = "executing" /\ p.exec = token
Finished(p, outcome) ==
  LET next == NextAttempt(outcome, p.attempt)
      state == IF outcome = "success" THEN "completed"
               ELSE IF next = 0 THEN "discarded" ELSE "retryable"
  IN  Mutated(p, state, p.attempt, next, 0)

\* Type 5, for every job that is not terminal.
CanCancel(p) == p.state \in Live
Cancelled(p) == Mutated(p, "cancelled", p.attempt, 0, 0)

\* Type 6.  A retryable job is expedited; a discarded one starts a new cycle.
CanRetry(p) == p.state \in {"retryable", "discarded"}
Retried(p) == IF p.state = "discarded" THEN Mutated(p, "available", 0, 1, 0)
              ELSE Mutated(p, "available", p.attempt, p.next, 0)

\* What a client sees of a job: its status, and the attempts charged to it.
Waiting == Live \ {"executing"}
Status(p) == IF p.state = "executing" THEN "running"
             ELSE IF p.state \in Waiting THEN "waiting" ELSE p.state
Charged(p) == IF p.state = "executing" THEN p.attempt - 1
              ELSE IF p.state \in Waiting THEN p.next - 1 ELSE 0

=============================================================================

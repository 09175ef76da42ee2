---------------------------- MODULE JobContract -----------------------------
(***************************************************************************)
(* What Tay promises about a job, without relays, workers, logs or crashes: *)
(* an accepted persistent job stays until it is completed, cancelled or     *)
(* discarded; it is discarded only after exactly MaxAttempts charged        *)
(* failures; an interruption charges nothing (docs/idempotency.md, durable  *)
(* at-least-once execution).  A volatile job may vanish.  Several jobs may   *)
(* move in one step.                                                        *)
(***************************************************************************)
EXTENDS Naturals

CONSTANTS Job, MaxAttempts

VARIABLES status,     \* status[j]
          durable,    \* durable[j]: the job is persistent
          charged     \* charged[j]: attempts that failed in this cycle

vars == <<status, durable, charged>>

Init ==
  /\ status = [j \in Job |-> "absent"]
  /\ durable = [j \in Job |-> TRUE]
  /\ charged = [j \in Job |-> 0]

Move(j, from, to, charge) ==
  /\ status[j] \in from
  /\ status'[j] = to
  /\ charged'[j] = charge
  /\ durable'[j] = durable[j]

Accept(j) == /\ status[j] = "absent"
             /\ status'[j] = "waiting" /\ charged'[j] = 0
             /\ durable'[j] \in BOOLEAN

Begin(j) == Move(j, {"waiting"}, "running", charged[j])
Succeed(j) == Move(j, {"running"}, "completed", 0)
Interrupt(j) == Move(j, {"running"}, "waiting", charged[j])
Fail(j) ==
  IF charged[j] + 1 < MaxAttempts
  THEN Move(j, {"running"}, "waiting", charged[j] + 1)
  ELSE Move(j, {"running"}, "discarded", 0)
Withdraw(j) == Move(j, {"waiting", "running"}, "cancelled", 0)
Revive(j) == Move(j, {"discarded"}, "waiting", 0)
Vanish(j) == /\ ~durable[j]
             /\ status'[j] = "absent" /\ charged'[j] = 0 /\ durable'[j]

JobStep(j) == \/ Accept(j) \/ Begin(j) \/ Succeed(j) \/ Interrupt(j) \/ Fail(j)
              \/ Withdraw(j) \/ Revive(j) \/ Vanish(j)

Same(j) == /\ status'[j] = status[j] /\ charged'[j] = charged[j]
           /\ durable'[j] = durable[j]

Next == \A j \in Job : JobStep(j) \/ Same(j)

Spec == Init /\ [][Next]_vars

=============================================================================

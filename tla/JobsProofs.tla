----------------------------- MODULE JobsProofs -----------------------------
(***************************************************************************)
(* Facts about the job record that hold of every mutation, whoever commits  *)
(* it: its type, its durability, and the step of the job contract that a     *)
(* client sees it take; and that both validators of the options of a job    *)
(* refuse the same ones.                                                     *)
(***************************************************************************)
EXTENDS Jobs, JobOptions, TLAPS

---------------------------------------------------------------------------
(* Each mutation of a job record keeps its type and its durability. *)

\* An inserted job is a job record that is not executing.
LEMMA InsertedFacts ==
  ASSUME NEW dur \in Durability, NEW due \in BOOLEAN
  PROVE  /\ Inserted(dur, due) \in JobRecord
         /\ Inserted(dur, due).state # "executing"
         /\ Inserted(dur, due).dur = dur
BY MaxAttemptsAssumption DEF Inserted, JobRecord, Durability, Live, Terminal

\* Every mutation to a state and numbers in range gives a job record.
LEMMA MutatedFacts ==
  ASSUME NEW p \in JobRecord, NEW state \in Live \cup Terminal,
         NEW attempt \in 0..MaxAttempts, NEW next \in 0..MaxAttempts, NEW exec \in Nat
  PROVE  LET q == Mutated(p, state, attempt, next, exec)
         IN  q \in JobRecord /\ q.state = state /\ q.dur = p.dur
BY DEF Mutated, JobRecord

\* Making a job available keeps its durability.
LEMMA MadeAvailableFacts ==
  ASSUME NEW p \in JobRecord
  PROVE  /\ MadeAvailable(p) \in JobRecord
         /\ MadeAvailable(p).state = "available"
         /\ MadeAvailable(p).dur = p.dur
<1>1. /\ "available" \in Live \cup Terminal
      /\ p.attempt \in 0..MaxAttempts /\ p.next \in 0..MaxAttempts /\ p.exec \in Nat
  BY DEF Live, JobRecord
<1> QED BY <1>1, MutatedFacts DEF MadeAvailable

\* A started job executes with the durability it was inserted with.
LEMMA StartedFacts ==
  ASSUME NEW p \in JobRecord
  PROVE  /\ Started(p) \in JobRecord
         /\ Started(p).state = "executing"
         /\ Started(p).dur = p.dur
<1>1. /\ "executing" \in Live \cup Terminal
      /\ p.next \in 0..MaxAttempts /\ p.rev + 1 \in Nat
  BY DEF Live, JobRecord
<1> QED BY <1>1, MutatedFacts DEF Started

\* The next attempt after an outcome is within the attempts of the job.
LEMMA NextAttemptFacts ==
  ASSUME NEW outcome, NEW attempt \in 0..MaxAttempts
  PROVE  NextAttempt(outcome, attempt) \in 0..MaxAttempts
BY MaxAttemptsAssumption DEF NextAttempt

\* A finished job no longer executes, whatever its outcome.
LEMMA FinishedFacts ==
  ASSUME NEW p \in JobRecord, NEW outcome
  PROVE  /\ Finished(p, outcome) \in JobRecord
         /\ Finished(p, outcome).state # "executing"
         /\ Finished(p, outcome).dur = p.dur
<1> DEFINE next == NextAttempt(outcome, p.attempt)
           state == IF outcome = "success" THEN "completed"
                    ELSE IF next = 0 THEN "discarded" ELSE "retryable"
<1>1. p.attempt \in 0..MaxAttempts
  BY DEF JobRecord
<1>2. next \in 0..MaxAttempts /\ 0 \in Nat
  BY <1>1, NextAttemptFacts
<1>3. state \in Live \cup Terminal /\ state # "executing"
  BY DEF Live, Terminal
<1>4. Finished(p, outcome) = Mutated(p, state, p.attempt, next, 0)
  BY DEF Finished
<1> HIDE DEF next, state
<1>5. LET q == Mutated(p, state, p.attempt, next, 0)
      IN  q \in JobRecord /\ q.state = state /\ q.dur = p.dur
  BY <1>1, <1>2, <1>3, MutatedFacts
<1> QED BY <1>3, <1>4, <1>5

\* A cancelled job no longer executes.
LEMMA CancelledFacts ==
  ASSUME NEW p \in JobRecord
  PROVE  /\ Cancelled(p) \in JobRecord
         /\ Cancelled(p).state # "executing"
         /\ Cancelled(p).dur = p.dur
<1>1. /\ "cancelled" \in Live \cup Terminal
      /\ p.attempt \in 0..MaxAttempts /\ 0 \in 0..MaxAttempts /\ 0 \in Nat
  BY MaxAttemptsAssumption DEF Terminal, JobRecord
<1> QED BY <1>1, MutatedFacts DEF Cancelled

\* A retried job is available again.
LEMMA RetriedFacts ==
  ASSUME NEW p \in JobRecord
  PROVE  /\ Retried(p) \in JobRecord
         /\ Retried(p).state # "executing"
         /\ Retried(p).dur = p.dur
<1>1. /\ "available" \in Live \cup Terminal
      /\ p.attempt \in 0..MaxAttempts /\ p.next \in 0..MaxAttempts
      /\ 0 \in 0..MaxAttempts /\ 1 \in 0..MaxAttempts /\ 0 \in Nat
  BY MaxAttemptsAssumption DEF Live, JobRecord
<1>2. CASE p.state = "discarded"
  <2>1. Retried(p) = Mutated(p, "available", 0, 1, 0)
    BY <1>2 DEF Retried
  <2>2. LET q == Mutated(p, "available", 0, 1, 0)
        IN  q \in JobRecord /\ q.state = "available" /\ q.dur = p.dur
    BY <1>1, MutatedFacts
  <2> QED BY <2>1, <2>2
<1>3. CASE p.state # "discarded"
  <2> DEFINE attempt == p.attempt
             next == p.next
  <2>1. Retried(p) = Mutated(p, "available", attempt, next, 0)
    BY <1>3 DEF Retried
  <2>a. attempt \in 0..MaxAttempts /\ next \in 0..MaxAttempts
    BY <1>1
  <2> HIDE DEF attempt, next
  <2>2. LET q == Mutated(p, "available", attempt, next, 0)
        IN  q \in JobRecord /\ q.state = "available" /\ q.dur = p.dur
    BY <1>1, <2>a, MutatedFacts
  <2> QED BY <2>1, <2>2
<1> QED BY <1>2, <1>3

---------------------------------------------------------------------------
(* The contract, seen from one record *)

\* A record that the mutations can lead to.
WellFormed(p) ==
  /\ p \in JobRecord
  /\ p.state = "absent" => p.dur = "persistent"
  /\ p.state \in {"available", "scheduled", "retryable"} => p.next \in 1..MaxAttempts
  /\ p.state = "executing" => p.attempt \in 1..MaxAttempts

\* The steps of JobContract, of a job whose record was p and is now q.
Moves(p, q, from, to, charge) ==
  Status(p) \in from /\ Status(q) = to /\ Charged(q) = charge /\ q.dur = p.dur

Kept(p, q) == Status(q) = Status(p) /\ Charged(q) = Charged(p) /\ q.dur = p.dur
Accepted(p, q) == Status(p) = "absent" /\ Status(q) = "waiting" /\ Charged(q) = 0
Failed(p, q) ==
  IF Charged(p) + 1 < MaxAttempts
  THEN Moves(p, q, {"running"}, "waiting", Charged(p) + 1)
  ELSE Moves(p, q, {"running"}, "discarded", 0)
Vanished(p, q) ==
  p.dur # "persistent" /\ Status(q) = "absent" /\ Charged(q) = 0 /\ q.dur = "persistent"

Allowed(p, q) ==
  \/ Kept(p, q) \/ Accepted(p, q) \/ Failed(p, q) \/ Vanished(p, q)
  \/ Moves(p, q, {"waiting"}, "running", Charged(p))
  \/ Moves(p, q, {"running"}, "completed", 0)
  \/ Moves(p, q, {"running"}, "waiting", Charged(p))
  \/ Moves(p, q, {"waiting", "running"}, "cancelled", 0)
  \/ Moves(p, q, {"discarded"}, "waiting", 0)

\* The record of a job that was never inserted.
LEMMA AbsentWellFormed ==
  WellFormed(Absent) /\ Status(Absent) = "absent" /\ Charged(Absent) = 0
BY MaxAttemptsAssumption
   DEF WellFormed, Absent, JobRecord, Durability, Status, Charged, Waiting, Live

\* What a record shows, by its state.
LEMMA Views ==
  ASSUME NEW p \in JobRecord
  PROVE  /\ p.state = "executing" => Status(p) = "running" /\ Charged(p) = p.attempt - 1
         /\ p.state \in {"available", "scheduled", "retryable"} =>
              Status(p) = "waiting" /\ Charged(p) = p.next - 1
         /\ p.state \notin Live => Status(p) = p.state /\ Charged(p) = 0
BY DEF Status, Charged, Waiting, Live

\* An insert accepts the job.
LEMMA InsertedAllowed ==
  ASSUME NEW p \in JobRecord, p.state = "absent",
         NEW dur \in Durability, NEW due \in BOOLEAN
  PROVE  WellFormed(Inserted(dur, due)) /\ Allowed(p, Inserted(dur, due))
<1> DEFINE q == Inserted(dur, due)
<1>1. q \in JobRecord
  BY InsertedFacts
<1>2. q.state \in {"available", "scheduled"} /\ q.next = 1
  BY DEF Inserted
<1>3. WellFormed(q)
  BY <1>1, <1>2, MaxAttemptsAssumption DEF WellFormed
<1>4. Status(q) = "waiting" /\ Charged(q) = 0
  BY <1>1, <1>2, Views
<1>5. Status(p) = "absent"
  BY Views DEF Live
<1> QED BY <1>3, <1>4, <1>5 DEF Allowed, Accepted

\* A due job is still waiting, and is charged nothing.
LEMMA MadeAvailableAllowed ==
  ASSUME NEW p, WellFormed(p), CanMakeAvailable(p)
  PROVE  WellFormed(MadeAvailable(p)) /\ Allowed(p, MadeAvailable(p))
<1> DEFINE q == MadeAvailable(p)
<1>1. p \in JobRecord /\ p.state \in {"scheduled", "retryable"} /\ p.next \in 1..MaxAttempts
  BY DEF WellFormed, CanMakeAvailable
<1>2. q \in JobRecord /\ q.state = "available" /\ q.dur = p.dur
  BY <1>1, MadeAvailableFacts
<1>3. q.next = p.next
  BY DEF MadeAvailable, Mutated
<1>4. WellFormed(q)
  BY <1>1, <1>2, <1>3 DEF WellFormed
<1>5. Status(p) = "waiting" /\ Charged(p) = p.next - 1
  BY <1>1, Views
<1>6. Status(q) = "waiting" /\ Charged(q) = q.next - 1
  BY <1>2, Views
<1> QED BY <1>2, <1>3, <1>4, <1>5, <1>6 DEF Allowed, Kept

\* A start runs the next attempt and charges nothing yet.
LEMMA StartedAllowed ==
  ASSUME NEW p, WellFormed(p), CanStart(p)
  PROVE  WellFormed(Started(p)) /\ Allowed(p, Started(p))
<1> DEFINE q == Started(p)
<1>1. p \in JobRecord /\ p.state = "available" /\ p.next \in 1..MaxAttempts
  BY DEF WellFormed, CanStart
<1>2. q \in JobRecord /\ q.state = "executing" /\ q.dur = p.dur
  BY <1>1, StartedFacts
<1>3. q.attempt = p.next
  BY DEF Started, Mutated
<1>4. WellFormed(q)
  BY <1>1, <1>2, <1>3 DEF WellFormed
<1>5. Status(p) = "waiting" /\ Charged(p) = p.next - 1
  BY <1>1, Views
<1>6. Status(q) = "running" /\ Charged(q) = q.attempt - 1
  BY <1>2, Views
<1> QED BY <1>2, <1>3, <1>4, <1>5, <1>6 DEF Allowed, Moves

\* A finish succeeds, charges exactly the attempt that ran, or, when it was
\* interrupted, charges nothing.
LEMMA FinishedAllowed ==
  ASSUME NEW p, WellFormed(p), p.state = "executing", NEW outcome \in Outcome
  PROVE  WellFormed(Finished(p, outcome)) /\ Allowed(p, Finished(p, outcome))
<1> DEFINE q == Finished(p, outcome)
           next == NextAttempt(outcome, p.attempt)
<1>1. p \in JobRecord /\ p.attempt \in 1..MaxAttempts /\ MaxAttempts \in Nat
  BY MaxAttemptsAssumption DEF WellFormed
<1>2. q \in JobRecord /\ q.dur = p.dur
  BY <1>1, FinishedFacts
<1>3. /\ q.state = IF outcome = "success" THEN "completed"
                   ELSE IF next = 0 THEN "discarded" ELSE "retryable"
      /\ q.next = next
  BY DEF Finished, Mutated
<1>4. next \in 0..MaxAttempts
  BY <1>1, NextAttemptFacts
<1>5. WellFormed(q)
  BY <1>2, <1>3, <1>4 DEF WellFormed
<1>6. Status(p) = "running" /\ Charged(p) = p.attempt - 1
  BY <1>1, Views
<1>7. CASE outcome = "success"
  <2>1. q.state = "completed"
    BY <1>3, <1>7
  <2>2. Status(q) = "completed" /\ Charged(q) = 0
    BY <1>2, <2>1, Views DEF Live
  <2> QED BY <1>2, <1>5, <1>6, <2>2 DEF Allowed, Moves
<1>8. CASE outcome = "interrupted"
  <2>1. next = p.attempt
    BY <1>8 DEF NextAttempt
  <2>2. q.state = "retryable" /\ q.next = p.attempt
    BY <1>1, <1>3, <1>8, <2>1
  <2>3. Status(q) = "waiting" /\ Charged(q) = p.attempt - 1
    BY <1>2, <2>2, Views
  <2> QED BY <1>2, <1>5, <1>6, <2>3 DEF Allowed, Moves
<1>9. CASE outcome \in {"failure", "timeout"} /\ p.attempt < MaxAttempts
  <2>1. next = p.attempt + 1
    BY <1>9 DEF NextAttempt
  <2>2. q.state = "retryable" /\ q.next = p.attempt + 1
    BY <1>1, <1>3, <1>9, <2>1
  <2>3. Status(q) = "waiting" /\ Charged(q) = p.attempt
    BY <1>1, <1>2, <2>2, Views
  <2>4. Failed(p, q)
    BY <1>1, <1>2, <1>6, <1>9, <2>3 DEF Failed, Moves
  <2> QED BY <1>5, <2>4 DEF Allowed
<1>10. CASE outcome \in {"failure", "timeout"} /\ ~(p.attempt < MaxAttempts)
  <2>1. next = 0
    BY <1>10 DEF NextAttempt
  <2>2. q.state = "discarded"
    BY <1>3, <1>10, <2>1
  <2>3. Status(q) = "discarded" /\ Charged(q) = 0
    BY <1>2, <2>2, Views DEF Live
  <2>4. Failed(p, q)
    BY <1>1, <1>2, <1>6, <1>10, <2>3 DEF Failed, Moves
  <2> QED BY <1>5, <2>4 DEF Allowed
<1> QED BY <1>7, <1>8, <1>9, <1>10 DEF Outcome

\* A cancellation withdraws a job that waits or runs.
LEMMA CancelledAllowed ==
  ASSUME NEW p, WellFormed(p), CanCancel(p)
  PROVE  WellFormed(Cancelled(p)) /\ Allowed(p, Cancelled(p))
<1> DEFINE q == Cancelled(p)
<1>1. p \in JobRecord /\ p.state \in {"available", "scheduled", "executing", "retryable"}
  BY DEF WellFormed, CanCancel, Live
<1>2. q \in JobRecord /\ q.dur = p.dur
  BY <1>1, CancelledFacts
<1>3. q.state = "cancelled"
  BY DEF Cancelled, Mutated
<1>4. WellFormed(q)
  BY <1>2, <1>3 DEF WellFormed
<1>5. Status(p) \in {"waiting", "running"}
  BY <1>1, Views
<1>6. Status(q) = "cancelled" /\ Charged(q) = 0
  BY <1>2, <1>3, Views DEF Live
<1> QED BY <1>2, <1>4, <1>5, <1>6 DEF Allowed, Moves

\* A manual retry expedites a waiting job, or revives a discarded one.
LEMMA RetriedAllowed ==
  ASSUME NEW p, WellFormed(p), CanRetry(p)
  PROVE  WellFormed(Retried(p)) /\ Allowed(p, Retried(p))
<1> DEFINE q == Retried(p)
<1>1. p \in JobRecord /\ q \in JobRecord /\ q.dur = p.dur
  BY RetriedFacts DEF WellFormed
<1>2. q.state = "available" /\ q.next = IF p.state = "discarded" THEN 1 ELSE p.next
  BY DEF Retried, Mutated
<1>3. Status(q) = "waiting" /\ Charged(q) = q.next - 1
  BY <1>1, <1>2, Views
<1>4. CASE p.state = "discarded"
  <2>1. Status(p) = "discarded"
    BY <1>1, <1>4, Views DEF Live
  <2>2. WellFormed(q) /\ Charged(q) = 0
    BY <1>1, <1>2, <1>3, <1>4, MaxAttemptsAssumption DEF WellFormed
  <2> QED BY <1>1, <1>3, <2>1, <2>2 DEF Allowed, Moves
<1>5. CASE p.state = "retryable"
  <2>1. p.next \in 1..MaxAttempts
    BY <1>5 DEF WellFormed
  <2>2. Status(p) = "waiting" /\ Charged(p) = p.next - 1
    BY <1>1, <1>5, Views
  <2>3. q.next = p.next
    BY <1>2, <1>5
  <2>4. WellFormed(q)
    BY <1>1, <1>2, <2>1, <2>3 DEF WellFormed
  <2> QED BY <1>1, <1>3, <2>2, <2>3, <2>4 DEF Allowed, Kept
<1> QED BY <1>4, <1>5 DEF CanRetry

\* The end of a generation takes its volatile jobs with it and nothing else,
\* also when it comes right after a mutation of the job.
LEMMA ExitAllowed ==
  ASSUME NEW p, WellFormed(p), NEW q, WellFormed(q), Allowed(p, q), q.dur = p.dur
  PROVE  LET x == IF q.dur = "volatile" THEN Absent ELSE q
         IN  WellFormed(x) /\ Allowed(p, x) /\ x.dur = "persistent"
<1>1. Absent.dur = "persistent"
  BY DEF Absent
<1>2. CASE q.dur = "volatile"
  <2>1. Vanished(p, Absent)
    BY <1>1, <1>2, AbsentWellFormed DEF Vanished
  <2> QED BY <1>1, <1>2, <2>1, AbsentWellFormed DEF Allowed
<1>3. CASE q.dur # "volatile"
  <2>1. q.dur = "persistent"
    BY <1>3 DEF WellFormed, JobRecord, Durability
  <2> QED BY <1>3, <2>1
<1> QED BY <1>2, <1>3

---------------------------------------------------------------------------
(* The two validators of job options. *)

(* The value an option has is a value, given or not. *)
LEMMA GetValue ==
  ASSUME NEW o \in OptionMaps, NEW name
  PROVE  Get(o, name) \in Value
<1>1. Null \in Value
  BY DEF Null, Value, Types, Texts
<1>2. CASE name \in DOMAIN o
  BY <1>2 DEF Get, OptionMaps
<1>3. CASE name \notin DOMAIN o
  BY <1>1, <1>3 DEF Get
<1> QED BY <1>2, <1>3

(* Rounding by floor and a comparison with one half, as the client does,   *)
(* and rounding half up, as the server does, give the same millisecond.    *)
LEMMA RoundingsAgree ==
  ASSUME NEW v \in Value
  PROVE  Scaled(v) = Round(v)
<1>1. v.num \in Int
  BY DEF Value
<1>2. ASSUME NEW q \in Int
      PROVE q \div 4 + (IF q % 4 >= 2 THEN 1 ELSE 0) = (q + 2) \div 4
  BY <1>2, SMT
<1> QED BY <1>1, <1>2 DEF Scaled, Round

(* A number of seconds is accepted by both sides or by neither. *)
LEMMA MillisecondsAgree ==
  ASSUME NEW v \in Value, NEW minimum \in Nat, NEW maximum \in Nat
  PROVE  milliseconds(v, maximum, minimum)
           <=> IsNumber(v) /\ v.num >= 0 /\ MillisecondsOk(v, minimum, maximum)
<1>1. Scaled(v) = Round(v)
  BY RoundingsAgree
<1>2. Round(v) \in Int
  BY LimitsAssumption DEF Round, Value
<1> QED BY <1>1, <1>2 DEF milliseconds, MillisecondsOk

(***************************************************************************)
(* The client and the server accept the same options: whatever mapping a   *)
(* producer passes, validate_submission_options raises exactly when        *)
(* JobOptions.parse refuses.                                               *)
(***************************************************************************)
THEOREM ValidatorsAgree ==
  ASSUME NEW o \in OptionMaps
  PROVE  validate_submission_options(o) <=> Parse(o)
<1> DEFINE id == Get(o, "id")
           key == Get(o, "submission_id")
           delay == Get(o, "delay")
           delayMs == Get(o, "delay_ms")
           at == Get(o, "run_at")
           timeout == Get(o, "timeout")
           timeoutMs == Get(o, "timeout_ms")
<1>0. /\ id \in Value /\ key \in Value /\ delay \in Value /\ delayMs \in Value
      /\ at \in Value /\ timeout \in Value /\ timeoutMs \in Value
      /\ Get(o, "retries") \in Value
  BY GetValue
<1>g. \A name : Given(o, name) => o[name] = Get(o, name)
  BY DEF Given, Get, IsNull, Null
<1>1. ValidIdentity(o) <=> IdentityOk(o)
  BY <1>0, <1>g DEF ValidIdentity, IdentityOk, Given, IsNull, IsText, identifier
<1>2. ValidTimes(o) <=> DelayOk(o) /\ RunAtOk(o) /\ TimeoutOk(o)
  <2>1. milliseconds(delay, MaxTime, 0)
          <=> IsNumber(delay) /\ delay.num >= 0 /\ MillisecondsOk(delay, 0, MaxTime)
    BY <1>0, MillisecondsAgree, LimitsAssumption
  <2>2. milliseconds(timeout, MaxTimeout, 1)
          <=> IsNumber(timeout) /\ timeout.num > 0 /\ MillisecondsOk(timeout, 1, MaxTimeout)
    <3>1. milliseconds(timeout, MaxTimeout, 1)
            <=> IsNumber(timeout) /\ timeout.num >= 0 /\ MillisecondsOk(timeout, 1, MaxTimeout)
      BY <1>0, MillisecondsAgree, LimitsAssumption
    <3>2. timeout.num = 0 => ~MillisecondsOk(timeout, 1, MaxTimeout)
      BY <1>0, LimitsAssumption DEF MillisecondsOk, Round, Value
    <3> QED BY <1>0, <3>1, <3>2 DEF Value
  <2>3. delayMs.num \in Int /\ at.num \in Int
    BY <1>0 DEF Value
  <2>4. DelayOk(o) /\ RunAtOk(o) <=>
          /\ Given(o, "delay") => milliseconds(o["delay"], MaxTime, 0)
          /\ Given(o, "delay_ms") => o["delay_ms"].type = "int" /\ o["delay_ms"].num \in 0..MaxTime
          /\ ~(Given(o, "delay") /\ Given(o, "delay_ms"))
          /\ Given(o, "run_at") =>
               /\ o["run_at"].type = "int" /\ o["run_at"].num \in 0..MaxTime
               /\ ~Given(o, "delay") /\ ~Given(o, "delay_ms")
    BY <1>g, <2>1, <2>3, LimitsAssumption DEF DelayOk, RunAtOk, Given, IsNull, IsNumber
  <2>5. TimeoutOk(o) <=>
          /\ Given(o, "timeout") => milliseconds(o["timeout"], MaxTimeout, 1)
          /\ Given(o, "timeout_ms") =>
               o["timeout_ms"].type = "int" /\ o["timeout_ms"].num \in 1..MaxTimeout
          /\ ~(Given(o, "timeout") /\ Given(o, "timeout_ms"))
    BY <1>g, <2>2 DEF TimeoutOk, Given, IsNull, IsNumber
  <2> QED BY <2>4, <2>5 DEF ValidTimes
<1>3. /\ validate_execution_options(o)
      /\ "retries" \in DOMAIN o => ~IsNull(o["retries"])
      <=> RetriesOk(o) /\ BackoffOk(o) /\ DurabilityOk(o)
  <2>1. Get(o, "retries").num \in Int
    BY <1>0 DEF Value
  <2> QED BY <2>1, LimitsAssumption
        DEF validate_execution_options, validate_durability, RetriesOk, BackoffOk,
            DurabilityOk, Get, IsNull, IsText, Null
<1> QED BY <1>1, <1>2, <1>3 DEF validate_submission_options, Parse, QueueOk
=============================================================================

-------------------------- MODULE ExecutionProofs ---------------------------
(***************************************************************************)
(* What the Engine promises about the execution of jobs, for every number   *)
(* of jobs, relays, slots, attempts and faults: the job contract, and the   *)
(* exclusive ownership of each execution.                                   *)
(***************************************************************************)
EXTENDS Engine, JobsProofs

\* The provers that a step is tried with, in this order.
USE SMT, Zenon, Z3

---------------------------------------------------------------------------
(* The job contract.  Every handler replaces one record, or some records of   *)
(* a batch, or ends the generation; each record then takes one step of the    *)
(* contract.  This needs to know that a waiting job has an attempt left, an   *)
(* executing one an attempt to charge, and that the log of a generation that  *)
(* is being recovered holds persistent jobs only.                             *)

JobsInv ==
  /\ jobs \in [Job -> JobRecord]
  /\ \A j \in Job : WellFormed(jobs[j])
  /\ phase \in {"down", "reconciling"} => \A j \in Job : jobs[j].dur = "persistent"

BookTyped == running \in [Relay -> Entry] /\ executions \in [Job -> Relay \cup {None}]

JobsMove == \A j \in Job : Allowed(jobs[j], jobs'[j])

\* Nothing happens to the jobs.
LEMMA JobsSame ==
  ASSUME JobsInv, jobs' = jobs, phase' \in {"down", "reconciling"} =>
                                  phase \in {"down", "reconciling"}
  PROVE  JobsInv' /\ JobsMove
BY DEF JobsInv, JobsMove, Allowed, Kept

\* One record is replaced while the Engine is up.
LEMMA JobsReplaced ==
  ASSUME JobsInv, NEW j \in Job, NEW c, WellFormed(c), Allowed(jobs[j], c),
         jobs' = [jobs EXCEPT ![j] = c],
         phase' \in {"down", "reconciling"} => phase' = phase /\ c.dur = jobs[j].dur
  PROVE  JobsInv' /\ JobsMove
<1>0. c \in JobRecord
  BY DEF WellFormed
<1>1. jobs \in [Job -> JobRecord] /\ \A i \in Job : WellFormed(jobs[i])
  BY DEF JobsInv
<1>2. \A i \in Job : jobs'[i] = IF i = j THEN c ELSE jobs[i]
  BY <1>1
<1>3. jobs' \in [Job -> JobRecord]
  BY <1>0, <1>1
<1>4. \A i \in Job : WellFormed(jobs'[i])
  BY <1>1, <1>2
<1>5. JobsMove
  BY <1>2 DEF JobsMove, Allowed, Kept
<1>6. phase' \in {"down", "reconciling"} => \A i \in Job : jobs'[i].dur = "persistent"
  BY <1>2 DEF JobsInv
<1> QED BY <1>3, <1>4, <1>5, <1>6 DEF JobsInv

\* The generation ends, with js in its projection.
LEMMA JobsExit ==
  ASSUME JobsInv, NEW reason, NEW js,
         \A j \in Job : /\ WellFormed(js[j]) /\ Allowed(jobs[j], js[j])
                        /\ js[j].dur = jobs[j].dur,
         Exit(reason, js)
  PROVE  JobsInv' /\ JobsMove /\ BookTyped'
<1> DEFINE x(j) == IF js[j].dur = "volatile" THEN Absent ELSE js[j]
<1>1. jobs' = [j \in Job |-> x(j)]
  BY DEF Exit
<1>2. ASSUME NEW j \in Job
      PROVE  WellFormed(x(j)) /\ Allowed(jobs[j], x(j)) /\ x(j).dur = "persistent"
  <2>1. /\ WellFormed(jobs[j]) /\ WellFormed(js[j]) /\ Allowed(jobs[j], js[j])
        /\ js[j].dur = jobs[j].dur
    BY DEF JobsInv
  <2> QED BY <2>1, ExitAllowed
<1> HIDE DEF x
<1>3. \A j \in Job : jobs'[j] = x(j)
  BY <1>1
<1>4. \A j \in Job : x(j) \in JobRecord
  BY <1>2 DEF WellFormed
<1>5. jobs' \in [Job -> JobRecord]
  BY <1>1, <1>4
<1>6. JobsInv' /\ JobsMove
  BY <1>2, <1>3, <1>5 DEF JobsInv, JobsMove
<1>7. BookTyped'
  BY DEF Exit, NoEntry, NewEntry, Entry, BookTyped
<1> QED BY <1>6, <1>7

\* The generation ends with nothing committed.
LEMMA JobsExitSame ==
  ASSUME JobsInv, NEW reason, Exit(reason, jobs)
  PROVE  JobsInv' /\ JobsMove /\ BookTyped'
<1>1. \A j \in Job : /\ WellFormed(jobs[j]) /\ Allowed(jobs[j], jobs[j])
                      /\ jobs[j].dur = jobs[j].dur
  BY DEF JobsInv, Allowed, Kept
<1> QED BY <1>1, JobsExit

\* The generation ends right after a mutation of j was committed.
LEMMA JobsExitReplaced ==
  ASSUME JobsInv, NEW reason, NEW j \in Job, NEW c, WellFormed(c),
         Allowed(jobs[j], c), c.dur = jobs[j].dur, Exit(reason, [jobs EXCEPT ![j] = c])
  PROVE  JobsInv' /\ JobsMove /\ BookTyped'
<1> DEFINE js == [jobs EXCEPT ![j] = c]
<1>1. \A i \in Job : /\ WellFormed(js[i]) /\ Allowed(jobs[i], js[i])
                      /\ js[i].dur = jobs[i].dur
  BY DEF JobsInv, Allowed, Kept
<1>2. Exit(reason, js)
  OBVIOUS
<1> HIDE DEF js
<1> QED BY <1>1, <1>2, JobsExit

\* A drain that completes leaves the Engine up.
LEMMA CompleteDrainsUp ==
  ASSUME NEW mode, mode # "down", NEW caller, CompleteDrains(mode, caller)
  PROVE  phase' # "down"
BY DEF CompleteDrains

\* The entries of the running map keep their type in every handler.
LEMMA EntriesTyped ==
  ASSUME NEW run \in [Relay -> Entry], NEW r \in Relay
  PROVE  /\ [run EXCEPT ![r].settled = TRUE] \in [Relay -> Entry]
         /\ [run EXCEPT ![r].dead = TRUE] \in [Relay -> Entry]
         /\ FinishRuntime(r, run) /\ BookTyped => BookTyped'
<1>1. \A e \in Entry : /\ [e EXCEPT !.settled = TRUE] \in Entry
                        /\ [e EXCEPT !.dead = TRUE] \in Entry
  BY Zenon DEF Entry
<1>2. NoEntry \in Entry
  BY DEF NoEntry, NewEntry, Entry
<1>3. [run EXCEPT ![r].settled = TRUE] \in [Relay -> Entry]
  BY <1>1, Zenon
<1>4. [run EXCEPT ![r].dead = TRUE] \in [Relay -> Entry]
  BY <1>1, Zenon
<1>5. FinishRuntime(r, run) /\ BookTyped => BookTyped'
  BY <1>2 DEF FinishRuntime, BookTyped
<1> QED BY <1>3, <1>4, <1>5

\* Releasing tasks keeps the type of the entries.
LEMMA ReleasedTyped ==
  ASSUME NEW run \in [Relay -> Entry], NEW R
  PROVE  Released(run, R) \in [Relay -> Entry]
<1>1. \A e \in Entry : [e EXCEPT !.released = TRUE] \in Entry
  BY Zenon DEF Entry
<1> QED BY <1>1 DEF Released

\* The entry of a claimed job.
LEMMA ClaimTyped ==
  ASSUME NEW run \in [Relay -> Entry], NEW r \in Relay, NEW j \in Job,
         NEW exec \in Nat, NEW settled \in BOOLEAN
  PROVE  [run EXCEPT ![r] = NewEntry(j, exec, settled)] \in [Relay -> Entry]
<1>1. NewEntry(j, exec, settled) \in Entry
  BY DEF NewEntry, Entry
<1> QED BY <1>1

\* Every handler moves each job by at most one step of the contract.
JobsKept == JobsInv' /\ JobsMove /\ BookTyped'

\* The commands of clients.
LEMMA CommandsMove ==
  ASSUME JobsInv, BookTyped, Commands
  PROVE  JobsKept
<1>0. /\ jobs \in [Job -> JobRecord] /\ \A j \in Job : WellFormed(jobs[j])
      /\ running \in [Relay -> Entry] /\ executions \in [Job -> Relay \cup {None}]
  BY DEF JobsInv, BookTyped
<1>1. ASSUME NEW j \in Job, NEW dur \in Durability, NEW due \in BOOLEAN,
             Insert(j, dur, due)
      PROVE  JobsKept
  <2> DEFINE c == Inserted(dur, due)
  <2>1. jobs[j] \in JobRecord /\ jobs[j].state = "absent"
    BY <1>0, <1>1 DEF Insert
  <2>2. WellFormed(c) /\ Allowed(jobs[j], c)
    BY <2>1, InsertedAllowed
  <2>3. /\ jobs' = [jobs EXCEPT ![j] = c] /\ phase' = "ready"
        /\ UNCHANGED <<running, executions>>
    BY <1>1 DEF Insert, Commit, book
  <2> HIDE DEF c
  <2>4. JobsInv' /\ JobsMove
    BY <2>2, <2>3, JobsReplaced, Zenon
  <2> QED BY <2>3, <2>4 DEF JobsKept, BookTyped
<1>2. ASSUME NEW j \in Job, Cancel(j)
      PROVE  JobsKept
  <2> DEFINE c == Cancelled(jobs[j])
             r == executions[j]
  <2>1. WellFormed(c) /\ Allowed(jobs[j], c)
    BY <1>0, <1>2, CancelledAllowed DEF Cancel
  <2>2. c.dur = jobs[j].dur
    BY <1>0, CancelledFacts
  <2>3. phase # "down" /\ phase # "reconciling" /\ r \in Relay \cup {None}
    BY <1>0, <1>2 DEF Cancel, Mode
  <2>4. \/ /\ jobs' = [jobs EXCEPT ![j] = c] /\ UNCHANGED <<running, executions>>
           /\ CompleteDrains(phase, drainer)
        \/ /\ jobs' = [jobs EXCEPT ![j] = c] /\ r # None
           /\ FinishRuntime(r, [running EXCEPT ![r].settled = TRUE])
           /\ CompleteDrains(phase, drainer)
        \/ Exit(IF relay[r].up = "ended" THEN "noproc" ELSE "relay_lost",
                [jobs EXCEPT ![j] = c])
    BY <1>2 DEF Cancel, Commit, book
  <2> HIDE DEF c
  <2>5. ASSUME jobs' = [jobs EXCEPT ![j] = c], CompleteDrains(phase, drainer)
        PROVE  JobsInv' /\ JobsMove
    <3>1. phase' # "down" /\ phase' # "reconciling"
      BY <2>3, <2>5 DEF CompleteDrains
    <3> QED BY <2>1, <2>5, <3>1, JobsReplaced, Zenon
  <2>6. ASSUME UNCHANGED <<running, executions>>
        PROVE  BookTyped'
    BY <1>0, <2>6 DEF BookTyped
  <2>7. ASSUME r # None, FinishRuntime(r, [running EXCEPT ![r].settled = TRUE])
        PROVE  BookTyped'
    BY <1>0, <2>3, <2>7, EntriesTyped, Zenon
  <2>8. CASE Exit(IF relay[r].up = "ended" THEN "noproc" ELSE "relay_lost",
                  [jobs EXCEPT ![j] = c])
    BY <2>1, <2>2, <2>8, JobsExitReplaced DEF JobsKept
  <2> HIDE DEF r
  <2> QED BY <2>4, <2>5, <2>6, <2>7, <2>8 DEF JobsKept
<1>3. ASSUME NEW j \in Job, Retry(j)
      PROVE  JobsKept
  <2> DEFINE c == Retried(jobs[j])
  <2>1. WellFormed(c) /\ Allowed(jobs[j], c)
    BY <1>0, <1>3, RetriedAllowed DEF Retry
  <2>2. /\ jobs' = [jobs EXCEPT ![j] = c] /\ UNCHANGED <<running, executions>>
        /\ phase \in Mode /\ CompleteDrains(phase, drainer)
    BY <1>3 DEF Retry, Commit, book
  <2> HIDE DEF c
  <2>3. phase' # "down" /\ phase' # "reconciling"
    BY <2>2 DEF CompleteDrains, Mode
  <2>4. JobsInv' /\ JobsMove
    BY <2>1, <2>2, <2>3, JobsReplaced, Zenon
  <2> QED BY <2>2, <2>4 DEF JobsKept, BookTyped
<1>4. ASSUME Pause \/ Drain \/ DrainDeadline
      PROVE  JobsKept
  <2>1. /\ jobs' = jobs /\ UNCHANGED <<running, executions>>
        /\ phase' # "down" /\ phase' # "reconciling"
    BY <1>4 DEF Pause, Drain, DrainDeadline, Mode, ledger, book, CompleteDrains
  <2>2. JobsInv' /\ JobsMove
    BY <2>1, JobsSame
  <2> QED BY <2>1, <2>2 DEF JobsKept, BookTyped
<1> QED BY <1>1, <1>2, <1>3, <1>4 DEF Commands

\* Releases, the batch of the scheduler, and the claims of the queue.
LEMMA ControlsMove ==
  ASSUME JobsInv, BookTyped, Controls
  PROVE  JobsKept
<1>0. /\ jobs \in [Job -> JobRecord] /\ \A j \in Job : WellFormed(jobs[j])
      /\ running \in [Relay -> Entry] /\ executions \in [Job -> Relay \cup {None}]
  BY DEF JobsInv, BookTyped
<1>1. ASSUME NEW R, ControlOnly(R)
      PROVE  JobsKept
  <2>1. /\ phase' = phase /\ executions' = executions /\ jobs' = jobs
        /\ running' = Released(running, R)
    BY <1>1 DEF ControlOnly, ledger
  <2>2. running' \in [Relay -> Entry]
    BY <1>0, <2>1, ReleasedTyped
  <2>3. JobsInv' /\ JobsMove
    BY <2>1, JobsSame
  <2> QED BY <1>0, <2>1, <2>2, <2>3 DEF JobsKept, BookTyped
<1>2. ASSUME NEW R, ReleaseFails(R)
      PROVE  JobsKept
  BY <1>2, JobsExitSame DEF ReleaseFails, JobsKept
<1>3. ASSUME NEW R, NEW D \in SUBSET Job, ControlScheduler(R, D)
      PROVE  JobsKept
  <2>1. /\ phase' = "ready" /\ executions' = executions
        /\ running' = Released(running, R)
        /\ jobs' = [j \in Job |-> IF j \in D THEN MadeAvailable(jobs[j]) ELSE jobs[j]]
        /\ \A j \in D : CanMakeAvailable(jobs[j])
    BY <1>3 DEF ControlScheduler
  <2>2. running' \in [Relay -> Entry]
    BY <1>0, <2>1, ReleasedTyped
  <2>3. ASSUME NEW j \in Job
        PROVE  WellFormed(jobs'[j]) /\ Allowed(jobs[j], jobs'[j])
    <3>1. CASE j \in D
      <4>1. WellFormed(MadeAvailable(jobs[j])) /\ Allowed(jobs[j], MadeAvailable(jobs[j]))
        BY <1>0, <2>1, <3>1, MadeAvailableAllowed
      <4>2. jobs'[j] = MadeAvailable(jobs[j])
        BY <2>1, <3>1
      <4> QED BY <4>1, <4>2
    <3>2. CASE j \notin D
      <4>1. jobs'[j] = jobs[j]
        BY <2>1, <3>2
      <4> QED BY <1>0, <4>1 DEF Allowed, Kept
    <3> QED BY <3>1, <3>2
  <2>4. \A j \in Job : jobs'[j] \in JobRecord
    BY <2>3 DEF WellFormed
  <2>5. jobs' \in [Job -> JobRecord]
    BY <2>1, <2>4
  <2> QED BY <1>0, <2>1, <2>2, <2>3, <2>5 DEF JobsKept, JobsInv, JobsMove, BookTyped
<1>4. ASSUME NEW j \in Job, NEW r \in Relay, NEW R, ClaimLocal(j, r, R)
      PROVE  JobsKept
  <2> DEFINE c == Started(jobs[j])
             run == [running EXCEPT ![r] = NewEntry(j, c.exec, FALSE)]
  <2>1. WellFormed(c) /\ Allowed(jobs[j], c)
    BY <1>0, <1>4, StartedAllowed DEF ClaimLocal, Claimable
  <2>2. c.exec \in Nat
    BY <2>1 DEF WellFormed, JobRecord
  <2>3. /\ jobs' = [jobs EXCEPT ![j] = c] /\ running' = Released(run, R)
        /\ executions' = [executions EXCEPT ![j] = r] /\ phase' = "ready"
    BY <1>4 DEF ClaimLocal, Claimable, Commit
  <2> HIDE DEF c
  <2>4. run \in [Relay -> Entry]
    BY <1>0, <2>2, ClaimTyped, Zenon
  <2> HIDE DEF run
  <2>5. BookTyped'
    BY <1>0, <2>3, <2>4, ReleasedTyped DEF BookTyped
  <2>6. JobsInv' /\ JobsMove
    BY <2>1, <2>3, JobsReplaced, Zenon
  <2> QED BY <2>5, <2>6 DEF JobsKept
<1>5. ASSUME NEW j \in Job, NEW r \in Relay, NEW R, ClaimAbandoned(j, r, R)
      PROVE  JobsKept
  <2> DEFINE run == Released(running, R)
  <2>1. /\ running' = [run EXCEPT ![r] = NewEntry(j, 0, TRUE)]
        /\ executions' = [executions EXCEPT ![j] = r]
        /\ phase' = phase /\ jobs' = jobs
    BY <1>5 DEF ClaimAbandoned, ledger
  <2>2. run \in [Relay -> Entry]
    BY <1>0, ReleasedTyped
  <2> HIDE DEF run
  <2>3. [run EXCEPT ![r] = NewEntry(j, 0, TRUE)] \in [Relay -> Entry]
    BY <2>2, ClaimTyped, Zenon
  <2>4. JobsInv' /\ JobsMove
    BY <2>1, JobsSame
  <2>5. BookTyped'
    BY <1>0, <2>1, <2>3, Zenon DEF BookTyped
  <2> QED BY <2>4, <2>5 DEF JobsKept
<1> QED BY <1>1, <1>2, <1>3, <1>4, <1>5 DEF Controls

\* The Engine's handlers of relay messages.
LEMMA MessagesMove ==
  ASSUME JobsInv, BookTyped, RelayMessages
  PROVE  JobsKept
<1>0. /\ jobs \in [Job -> JobRecord] /\ \A j \in Job : WellFormed(jobs[j])
      /\ running \in [Relay -> Entry] /\ executions \in [Job -> Relay \cup {None}]
  BY DEF JobsInv, BookTyped
<1>1. ASSUME NEW r \in Relay, StaleMsg(r)
      PROVE  JobsKept
  <2>1. /\ phase \in Mode /\ jobs' = jobs /\ UNCHANGED <<running, executions>>
        /\ phase' = phase \/ CompleteDrains(phase, drainer)
    BY <1>1 DEF StaleMsg, ledger, book
  <2>2. phase' # "down" /\ phase' # "reconciling"
    BY <2>1 DEF CompleteDrains, Mode
  <2>3. JobsInv' /\ JobsMove
    BY <2>1, <2>2, JobsSame
  <2> QED BY <2>1, <2>3 DEF JobsKept, BookTyped
<1>2. ASSUME NEW r \in Relay, OutcomeMsg(r)
      PROVE  JobsKept
  <2> DEFINE j == running[r].job
             k == Head(chan[r]).kind
             c == Finished(jobs[j], k)
  <2>1. phase \in Mode /\ j \in Job /\ jobs[j].state = "executing" /\ k \in Outcome
    BY <1>0, <1>2 DEF OutcomeMsg, Accepts, Current, CanFinish, Entry
  <2>2. WellFormed(c) /\ Allowed(jobs[j], c)
    BY <1>0, <2>1, FinishedAllowed
  <2>3. c.dur = jobs[j].dur
    BY <1>0, <2>1, FinishedFacts
  <2>4. \/ Exit("settlement_failed", jobs)
        \/ /\ jobs' = [jobs EXCEPT ![j] = c] /\ CompleteDrains(phase, drainer)
           /\ FinishRuntime(r, [running EXCEPT ![r].settled = TRUE])
        \/ Exit("relay_lost", [jobs EXCEPT ![j] = c])
    BY <1>2 DEF OutcomeMsg, Commit
  <2> HIDE DEF j, c
  <2>5. CASE Exit("settlement_failed", jobs)
    BY <2>5, JobsExitSame DEF JobsKept
  <2>6. CASE /\ jobs' = [jobs EXCEPT ![j] = c] /\ CompleteDrains(phase, drainer)
             /\ FinishRuntime(r, [running EXCEPT ![r].settled = TRUE])
    <3>1. phase' # "down" /\ phase' # "reconciling"
      BY <2>1, <2>6 DEF CompleteDrains, Mode
    <3>2. JobsInv' /\ JobsMove
      BY <2>1, <2>2, <2>6, <3>1, JobsReplaced, Zenon
    <3>3. BookTyped'
      BY <1>0, <2>6, EntriesTyped, Zenon
    <3> QED BY <3>2, <3>3 DEF JobsKept
  <2>7. CASE Exit("relay_lost", [jobs EXCEPT ![j] = c])
    BY <2>1, <2>2, <2>3, <2>7, JobsExitReplaced DEF JobsKept
  <2> QED BY <2>4, <2>5, <2>6, <2>7
<1>3. ASSUME NEW r \in Relay, DeadMsg(r)
      PROVE  JobsKept
  <2>1. CASE Exit("release_failed", jobs)
    BY <2>1, JobsExitSame DEF JobsKept
  <2>2. CASE /\ FinishRuntime(r, [running EXCEPT ![r].dead = TRUE])
             /\ jobs' = jobs /\ phase \in Mode /\ CompleteDrains(phase, drainer)
    <3>1. phase' # "down" /\ phase' # "reconciling"
      BY <2>2 DEF CompleteDrains, Mode
    <3>2. BookTyped'
      BY <1>0, <2>2, EntriesTyped, Zenon
    <3>3. JobsInv' /\ JobsMove
      BY <2>2, <3>1, JobsSame
    <3> QED BY <3>2, <3>3 DEF JobsKept
  <2> QED BY <1>3, <2>1, <2>2 DEF DeadMsg, ledger
<1>4. ASSUME NEW r \in Relay, DownMsg(r)
      PROVE  JobsKept
  BY <1>4, JobsExitSame DEF DownMsg, JobsKept
<1> QED BY <1>1, <1>2, <1>3, <1>4 DEF RelayMessages

\* Relays and tasks touch no job.
LEMMA ProcessesMove ==
  ASSUME JobsInv, BookTyped, Processes
  PROVE  JobsKept
<1>1. UNCHANGED engineSide
  BY Zenon DEF Processes, TaskReturns, TaskDies, RelayTimeout, RelayCrash, RelayResult, RelayTaskDown
<1>2. jobs' = jobs /\ phase' = phase /\ UNCHANGED <<running, executions>>
  BY <1>1 DEF engineSide, ledger, book
<1>3. JobsInv' /\ JobsMove
  BY <1>2, JobsSame
<1> QED BY <1>2, <1>3 DEF JobsKept, BookTyped

\* The loss of a generation, the recovery of the next one, and reconciliation.
LEMMA GenerationsMove ==
  ASSUME JobsInv, BookTyped, Generations
  PROVE  JobsKept
<1>1. ASSUME Crash
      PROVE  JobsKept
  BY <1>1, JobsExitSame DEF Crash, JobsKept
<1>2. ASSUME Recover \/ BecomeReady
      PROVE  JobsKept
  <2>1. /\ jobs' = jobs /\ UNCHANGED <<running, executions>>
        /\ phase \in {"down", "reconciling"}
    BY <1>2 DEF Recover, BecomeReady, ledger, book
  <2>2. JobsInv' /\ JobsMove
    BY <2>1, JobsSame
  <2> QED BY <2>1, <2>2 DEF JobsKept, BookTyped
<1>3. ASSUME NEW j \in Job, Reconcile(j)
      PROVE  JobsKept
  <2> DEFINE c == Finished(jobs[j], "interrupted")
  <2>1. jobs[j] \in JobRecord /\ WellFormed(jobs[j]) /\ jobs[j].state = "executing"
    BY <1>3 DEF JobsInv, Reconcile
  <2>2. "interrupted" \in Outcome
    BY DEF Outcome
  <2>3. WellFormed(c) /\ Allowed(jobs[j], c)
    BY <2>1, <2>2, FinishedAllowed
  <2>4. c.dur = jobs[j].dur
    BY <2>1, FinishedFacts
  <2>5. \/ /\ jobs' = [jobs EXCEPT ![j] = c] /\ phase' = phase
           /\ UNCHANGED <<running, executions>>
        \/ Exit("settlement_failed", jobs)
    BY <1>3 DEF Reconcile, Commit, book
  <2> HIDE DEF c
  <2>6. CASE /\ jobs' = [jobs EXCEPT ![j] = c] /\ phase' = phase
             /\ UNCHANGED <<running, executions>>
    <3>1. JobsInv' /\ JobsMove
      BY <2>3, <2>4, <2>6, JobsReplaced, Zenon
    <3> QED BY <2>6, <3>1 DEF JobsKept, BookTyped
  <2>7. CASE Exit("settlement_failed", jobs)
    BY <2>7, JobsExitSame DEF JobsKept
  <2> QED BY <2>5, <2>6, <2>7
<1> QED BY <1>1, <1>2, <1>3 DEF Generations

\* Every step of the Engine, its relays and its generations.
LEMMA StepMoves ==
  ASSUME JobsInv, BookTyped, [Next]_vars
  PROVE  JobsKept
<1>1. CASE Next
  BY <1>1, CommandsMove, ControlsMove, MessagesMove, ProcessesMove, GenerationsMove DEF Next
<1>2. CASE UNCHANGED vars
  <2>1. jobs' = jobs /\ phase' = phase /\ UNCHANGED <<running, executions>>
    BY <1>2 DEF vars, ledger, book
  <2>2. JobsInv' /\ JobsMove
    BY <2>1, JobsSame
  <2> QED BY <2>1, <2>2 DEF JobsKept, BookTyped
<1> QED BY <1>1, <1>2

\* At the start no job was inserted.
LEMMA InitJobs == Init => JobsInv /\ BookTyped
<1> SUFFICES ASSUME Init PROVE JobsInv /\ BookTyped
  OBVIOUS
<1>1. WellFormed(Absent) /\ Absent \in JobRecord
  BY AbsentWellFormed DEF WellFormed
<1>2. NoEntry \in Entry
  BY DEF NoEntry, NewEntry, Entry
<1>3. JobsInv
  BY <1>1 DEF Init, JobsInv
<1> QED BY <1>2, <1>3 DEF Init, BookTyped

\* A step allowed to one record is a step of the contract, or none.
LEMMA AllowedIsContract ==
  ASSUME NEW j \in Job, Allowed(jobs[j], jobs'[j])
  PROVE  Contract!JobStep(j) \/ Contract!Same(j)
<1> DEFINE p == jobs[j]
           q == jobs'[j]
<1>1. CASE Kept(p, q)
  BY <1>1 DEF Kept, Contract!Same
<1>2. CASE Accepted(p, q)
  BY <1>2 DEF Accepted, Contract!JobStep, Contract!Accept
<1>3. CASE Vanished(p, q)
  BY <1>3, Zenon DEF Vanished, Contract!JobStep, Contract!Vanish
<1>4. CASE Failed(p, q)
  BY <1>4 DEF Failed, Moves, Contract!JobStep, Contract!Fail, Contract!Move
<1>5. CASE Moves(p, q, {"waiting"}, "running", Charged(p))
  BY <1>5 DEF Moves, Contract!JobStep, Contract!Begin, Contract!Move
<1>6. CASE Moves(p, q, {"running"}, "completed", 0)
  BY <1>6 DEF Moves, Contract!JobStep, Contract!Succeed, Contract!Move
<1>7. CASE Moves(p, q, {"running"}, "waiting", Charged(p))
  BY <1>7 DEF Moves, Contract!JobStep, Contract!Interrupt, Contract!Move
<1>8. CASE Moves(p, q, {"waiting", "running"}, "cancelled", 0)
  BY <1>8 DEF Moves, Contract!JobStep, Contract!Withdraw, Contract!Move
<1>9. CASE Moves(p, q, {"discarded"}, "waiting", 0)
  BY <1>9 DEF Moves, Contract!JobStep, Contract!Revive, Contract!Move
<1> QED BY <1>1, <1>2, <1>3, <1>4, <1>5, <1>6, <1>7, <1>8, <1>9 DEF Allowed

\* For any number of jobs, relays, slots, attempts and faults, what clients see
\* of the jobs is a behaviour of the job contract: a persistent job stays until
\* it is completed, cancelled or discarded, and an attempt is charged once, by
\* its own failure (transition.ex, execution.ex outcome and reconcile,
\* commands.ex cancel and retry).
THEOREM EngineKeepsContract == Spec => KeepsContract
<1>1. Init => Contract!Init
  <2> SUFFICES ASSUME Init PROVE Contract!Init
    OBVIOUS
  <2>1. jobs = [j \in Job |-> Absent]
    BY DEF Init
  <2>2. Absent.dur = "persistent"
    BY DEF Absent
  <2>3. \A j \in Job : /\ Status(jobs[j]) = "absent" /\ Charged(jobs[j]) = 0
                        /\ jobs[j].dur = "persistent"
    BY <2>1, <2>2, AbsentWellFormed
  <2> QED BY <2>3, Zenon DEF Contract!Init
<1>2. JobsInv /\ BookTyped /\ [Next]_vars => JobsInv' /\ BookTyped'
  BY StepMoves DEF JobsKept
<1>3. JobsInv /\ BookTyped /\ [Next]_vars => [Contract!Next]_(Contract!vars)
  <2> SUFFICES ASSUME JobsInv, BookTyped, [Next]_vars PROVE Contract!Next
    OBVIOUS
  <2>1. \A j \in Job : Allowed(jobs[j], jobs'[j])
    BY StepMoves DEF JobsKept, JobsMove
  <2>2. \A j \in Job : Contract!JobStep(j) \/ Contract!Same(j)
    BY <2>1, AllowedIsContract
  <2> QED BY <2>2 DEF Contract!Next
<1> QED BY <1>1, <1>2, <1>3, InitJobs, PTL DEF Spec, KeepsContract, Contract!Spec

\* The restart of a generation costs no job an attempt, however many crashes
\* interrupt the reconciliation: until the Engine is ready again, an executing
\* job becomes retryable at the attempt it was executing, and nothing else
\* changes (execution.ex reconcile, outcome.ex interrupted).
THEOREM RestartsChargeNothing == Spec => RestartChargesNothing
<1> DEFINE Unpaid == \A j \in Job :
                       /\ Charged(jobs'[j]) = Charged(jobs[j])
                       /\ \/ jobs'[j].state = jobs[j].state
                          \/ jobs[j].state = "executing" /\ jobs'[j].state = "retryable"
<1>1. ASSUME JobsInv, BookTyped, Next, phase \in {"down", "reconciling"}
      PROVE  Unpaid
  <2>0. jobs \in [Job -> JobRecord] /\ \A j \in Job : jobs[j].dur = "persistent"
    BY <1>1 DEF JobsInv
  <2>1. ASSUME NEW reason, Exit(reason, jobs)
        PROVE  Unpaid
    BY <2>0, <2>1 DEF Exit
  <2>2. ASSUME NEW j \in Job, Reconcile(j)
        PROVE  Unpaid
    <3> DEFINE c == Finished(jobs[j], "interrupted")
    <3>1. jobs[j] \in JobRecord /\ jobs[j].state = "executing" /\ jobs[j].attempt \in 1..MaxAttempts
      BY <1>1, <2>2 DEF JobsInv, Reconcile, WellFormed
    <3>2. c.state = "retryable" /\ c.next = jobs[j].attempt
      BY <3>1 DEF Finished, Mutated, NextAttempt
    <3>3. c \in JobRecord
      BY <3>1, FinishedFacts
    <3>4. Charged(c) = Charged(jobs[j])
      BY <3>1, <3>2, <3>3, Views
    <3>5. jobs' = [jobs EXCEPT ![j] = c] \/ Exit("settlement_failed", jobs)
      BY <2>2 DEF Reconcile, Commit
    <3> HIDE DEF c
    <3>6. CASE jobs' = [jobs EXCEPT ![j] = c]
      BY <2>0, <3>1, <3>2, <3>4, <3>6
    <3> QED BY <2>1, <3>5, <3>6
  <2>3. CASE Crash
    BY <2>1, <2>3 DEF Crash
  <2>4. CASE jobs' = jobs
    BY <2>4
  <2>5. Recover \/ BecomeReady => jobs' = jobs
    BY DEF Recover, BecomeReady, ledger
  <2>6. Processes => jobs' = jobs
    BY Zenon DEF Processes, TaskReturns, TaskDies, RelayTimeout, RelayCrash, RelayResult,
           RelayTaskDown, engineSide, ledger
  <2>7. ~Commands
    BY <1>1, Zenon DEF Commands, Insert, Cancel, Retry, Pause, Drain, DrainDeadline, Mode
  <2>8. ~Controls
    <3>1. phase \notin Mode /\ phase # "ready"
      BY <1>1 DEF Mode
    <3>2. ASSUME NEW R PROVE ~ControlOnly(R) /\ ~ReleaseFails(R)
      BY <3>1 DEF ControlOnly, ReleaseFails
    <3>3. ASSUME NEW R, NEW D PROVE ~ControlScheduler(R, D)
      BY <3>1 DEF ControlScheduler
    <3>4. ASSUME NEW j, NEW r, NEW R PROVE ~ClaimLocal(j, r, R) /\ ~ClaimAbandoned(j, r, R)
      BY <3>1, Zenon DEF ClaimLocal, ClaimAbandoned, Claimable
    <3> QED BY <3>2, <3>3, <3>4 DEF Controls
  <2>9. ~RelayMessages
    BY <1>1, Zenon DEF RelayMessages, StaleMsg, OutcomeMsg, DeadMsg, DownMsg, Mode
  <2> QED BY <1>1, <2>2, <2>3, <2>4, <2>5, <2>6, <2>7, <2>8, <2>9 DEF Next, Generations
<1>2. JobsInv /\ BookTyped /\ [Next]_vars => JobsInv' /\ BookTyped'
  BY StepMoves DEF JobsKept
<1>3. JobsInv /\ BookTyped /\ [Next]_vars =>
        [(phase = "down" \/ phase = "reconciling") => Unpaid]_vars
  BY <1>1
<1> QED BY <1>2, <1>3, InitJobs, PTL DEF Spec, RestartChargesNothing

---------------------------------------------------------------------------
(* The processes beside the Engine: their types *)

SideTyped ==
  /\ held \in SUBSET Job /\ relay \in [Relay -> RelayState]
  /\ task \in [Relay -> TaskState] /\ chan \in [Relay -> Seq(Message)]

\* What relays and tasks become.
LEMMA StatesTyped ==
  /\ NoRelay \in RelayState /\ NoTask \in TaskState /\ << >> \in Seq(Message)
  /\ [NoRelay EXCEPT !.up = "up"] \in RelayState
  /\ [NoRelay EXCEPT !.up = "up", !.settled = TRUE, !.chosen = TRUE] \in RelayState
  /\ \A s \in RelayState, e \in Nat : [s EXCEPT !.exec = e] \in RelayState
  /\ \A s \in TaskState : [s EXCEPT !.st = "released"] \in TaskState
  /\ \A j \in Job : [st |-> "waiting", job |-> j] \in TaskState
<1>1. NoRelay \in RelayState /\ NoTask \in TaskState /\ << >> \in Seq(Message)
  BY DEF NoRelay, NoTask, RelayState, TaskState
<1>2. /\ [NoRelay EXCEPT !.up = "up"] \in RelayState
      /\ [NoRelay EXCEPT !.up = "up", !.settled = TRUE, !.chosen = TRUE] \in RelayState
  BY Zenon DEF NoRelay, RelayState
<1>3. \A s \in RelayState, e \in Nat : [s EXCEPT !.exec = e] \in RelayState
  BY DEF RelayState
<1>4. /\ \A s \in TaskState : [s EXCEPT !.st = "released"] \in TaskState
      /\ \A j \in Job : [st |-> "waiting", job |-> j] \in TaskState
  BY DEF TaskState
<1> QED BY <1>1, <1>2, <1>3, <1>4

\* The messages relays send.
LEMMA MessagesTyped ==
  ASSUME NEW e \in Nat
  PROVE  /\ \A k \in Outcome : Msg(k, e) \in Message
         /\ Msg("dead", e) \in Message /\ Msg("down", 0) \in Message
BY DEF Msg, Message

\* Fencing a relay.
LEMMA FenceTyped ==
  ASSUME SideTyped, NEW r \in Relay, NEW m \in Seq(Message), Fence(r, m)
  PROVE  /\ relay' \in [Relay -> RelayState] /\ chan' \in [Relay -> Seq(Message)]
         /\ relay'[r].up # "none" /\ (chan'[r] = m \/ chan'[r] = Append(m, Msg("down", 0)))
         /\ \A x \in Relay \ {r} : relay'[x] = relay[x] /\ chan'[x] = chan[x]
<1>0. relay \in [Relay -> RelayState] /\ chan \in [Relay -> Seq(Message)]
  BY DEF SideTyped
<1> DEFINE u == IF relay[r].dead THEN "ended" ELSE "up"
           s == [relay[r] EXCEPT !.settled = TRUE, !.chosen = TRUE, !.up = u]
           c == IF relay[r].dead THEN Append(m, Msg("down", 0)) ELSE m
<1>1. relay' = [relay EXCEPT ![r] = s] /\ chan' = [chan EXCEPT ![r] = c]
  BY <1>0, Zenon DEF Fence
<1>2. relay[r] \in RelayState /\ u \in {"none", "up", "ended", "crashed"} /\ u # "none"
  BY <1>0
<1> HIDE DEF u
<1>3. s \in RelayState /\ s.up # "none"
  BY <1>2, Zenon DEF RelayState
<1>4. Msg("down", 0) \in Message
  BY DEF Msg, Message
<1>5. c \in Seq(Message)
  BY <1>4
<1> HIDE DEF s
<1> QED BY <1>0, <1>1, <1>3, <1>5

\* Releasing tasks.
LEMMA ReleaseTyped ==
  ASSUME NEW run \in [Relay -> Entry], NEW R, NEW rel \in [Relay -> RelayState],
         NEW tsk \in [Relay -> TaskState], ReleaseTasks(run, R, rel, tsk)
  PROVE  /\ relay' \in [Relay -> RelayState] /\ task' \in [Relay -> TaskState]
         /\ \A x \in Relay :
              /\ relay'[x].up = rel[x].up /\ task'[x].job = tsk[x].job
              /\ (Alive(x)' <=> tsk[x].st \in {"waiting", "released"})
<1>1. \A x \in Relay : run[x].exec \in Nat
  BY DEF Entry
<1> DEFINE a(x) == IF x \in R THEN [rel[x] EXCEPT !.exec = run[x].exec] ELSE rel[x]
           b(x) == IF x \in R /\ tsk[x].st = "waiting"
                   THEN [tsk[x] EXCEPT !.st = "released"] ELSE tsk[x]
<1>2. relay' = [x \in Relay |-> a(x)] /\ task' = [x \in Relay |-> b(x)]
  BY DEF ReleaseTasks
<1>3. ASSUME NEW x \in Relay
      PROVE  /\ a(x) \in RelayState /\ b(x) \in TaskState
             /\ a(x).up = rel[x].up /\ b(x).job = tsk[x].job
             /\ (b(x).st \in {"waiting", "released"} <=> tsk[x].st \in {"waiting", "released"})
  <2>1. rel[x] \in RelayState /\ tsk[x] \in TaskState /\ run[x].exec \in Nat
    BY <1>1
  <2>2. a(x) \in RelayState /\ a(x).up = rel[x].up
    BY <2>1 DEF RelayState
  <2>3. b(x) \in TaskState /\ b(x).job = tsk[x].job
    BY <2>1 DEF TaskState
  <2>4. b(x).st \in {"waiting", "released"} <=> tsk[x].st \in {"waiting", "released"}
    BY <2>1 DEF TaskState
  <2> QED BY <2>2, <2>3, <2>4
<1> HIDE DEF a, b
<1> QED BY <1>2, <1>3 DEF Alive

\* The end of a generation.
LEMMA ExitTyped ==
  ASSUME SideTyped, NEW reason, NEW js, Exit(reason, js)
  PROVE  SideTyped'
BY StatesTyped DEF SideTyped, Exit

\* The end of an entry.
LEMMA HeldTyped ==
  ASSUME SideTyped, NEW r, NEW run, FinishRuntime(r, run)
  PROVE  held' \in SUBSET Job
BY DEF SideTyped, FinishRuntime, Unheld

\* The types in every handler of the Engine.
LEMMA EngineTyped ==
  ASSUME JobsInv, BookTyped, SideTyped, Commands \/ Controls \/ RelayMessages \/ Generations
  PROVE  SideTyped'
<1>0. /\ running \in [Relay -> Entry] /\ executions \in [Job -> Relay \cup {None}]
      /\ held \in SUBSET Job /\ relay \in [Relay -> RelayState]
      /\ task \in [Relay -> TaskState] /\ chan \in [Relay -> Seq(Message)]
  BY DEF BookTyped, SideTyped
<1>1. ASSUME UNCHANGED <<held, relay, task, chan>>
      PROVE  SideTyped'
  BY <1>1 DEF SideTyped
<1>2. ASSUME NEW j \in Job, Cancel(j)
      PROVE  SideTyped'
  <2> DEFINE r == executions[j]
  <2>1. \/ UNCHANGED <<held, relay, task, chan>>
        \/ /\ r \in Relay /\ Fence(r, chan[r]) /\ task' = task
           /\ FinishRuntime(r, [running EXCEPT ![r].settled = TRUE])
        \/ \E reason, js : Exit(reason, js)
    BY <1>0, <1>2 DEF Cancel, book, side
  <2>2. CASE /\ r \in Relay /\ Fence(r, chan[r]) /\ task' = task
             /\ FinishRuntime(r, [running EXCEPT ![r].settled = TRUE])
    <3>1. chan[r] \in Seq(Message)
      BY <1>0, <2>2
    <3> HIDE DEF r
    <3>2. relay' \in [Relay -> RelayState] /\ chan' \in [Relay -> Seq(Message)]
      BY <2>2, <3>1, FenceTyped
    <3>3. held' \in SUBSET Job
      BY <2>2, HeldTyped
    <3> QED BY <1>0, <2>2, <3>2, <3>3 DEF SideTyped
  <2> HIDE DEF r
  <2> QED BY <1>1, <2>1, <2>2, ExitTyped
<1>3. ASSUME \/ \E j \in Job, dur \in Durability, due \in BOOLEAN : Insert(j, dur, due)
             \/ \E j \in Job : Retry(j)
             \/ Pause \/ Drain \/ DrainDeadline \/ BecomeReady
      PROVE  SideTyped'
  BY <1>1, <1>3 DEF Insert, Retry, Pause, Drain, DrainDeadline, BecomeReady, book, side
<1>4. ASSUME NEW R, ControlOnly(R) \/ \E D \in SUBSET Job : ControlScheduler(R, D)
      PROVE  SideTyped'
  <2>1. ReleaseTasks(running, R, relay, task) /\ UNCHANGED <<held, chan>>
    BY <1>4, Zenon DEF ControlOnly, ControlScheduler
  <2>2. relay' \in [Relay -> RelayState] /\ task' \in [Relay -> TaskState]
    BY <1>0, <2>1, ReleaseTyped, Zenon
  <2> QED BY <1>0, <2>1, <2>2 DEF SideTyped
<1>5. ASSUME NEW R, ReleaseFails(R)
      PROVE  SideTyped'
  BY <1>5, ExitTyped DEF ReleaseFails
<1>6. ASSUME NEW j \in Job, NEW r \in Relay, NEW R, ClaimLocal(j, r, R)
      PROVE  SideTyped'
  <2> DEFINE c == Started(jobs[j])
             run == [running EXCEPT ![r] = NewEntry(j, c.exec, FALSE)]
             rel == [relay EXCEPT ![r] = [NoRelay EXCEPT !.up = "up"]]
             tsk == [task EXCEPT ![r] = [st |-> "waiting", job |-> j]]
  <2>1. held' = held \cup {j} /\ chan' = chan /\ ReleaseTasks(run, R, rel, tsk)
    BY <1>6 DEF ClaimLocal
  <2>2. c.exec \in Nat
    <3>1. jobs[j] \in JobRecord
      BY DEF JobsInv
    <3>2. c \in JobRecord
      BY <3>1, StartedFacts
    <3> QED BY <3>2 DEF JobRecord
  <2> HIDE DEF c
  <2>3. run \in [Relay -> Entry]
    BY <1>0, <2>2, ClaimTyped, Zenon
  <2>4. rel \in [Relay -> RelayState] /\ tsk \in [Relay -> TaskState]
    BY <1>0, StatesTyped
  <2> HIDE DEF run, rel, tsk
  <2>5. relay' \in [Relay -> RelayState] /\ task' \in [Relay -> TaskState]
    BY <2>1, <2>3, <2>4, ReleaseTyped
  <2> QED BY <1>0, <2>1, <2>5 DEF SideTyped
<1>7. ASSUME NEW j \in Job, NEW r \in Relay, NEW R, ClaimAbandoned(j, r, R)
      PROVE  SideTyped'
  <2> DEFINE new == [NoRelay EXCEPT !.up = "up", !.settled = TRUE, !.chosen = TRUE]
             rel == [relay EXCEPT ![r] = new]
             tsk == [task EXCEPT ![r] = [st |-> "waiting", job |-> j]]
  <2>1. held' = held \cup {j} /\ chan' = chan /\ ReleaseTasks(running, R, rel, tsk)
    BY <1>7 DEF ClaimAbandoned
  <2>2. rel \in [Relay -> RelayState] /\ tsk \in [Relay -> TaskState]
    BY <1>0, StatesTyped
  <2> HIDE DEF rel, tsk
  <2>3. relay' \in [Relay -> RelayState] /\ task' \in [Relay -> TaskState]
    BY <1>0, <2>1, <2>2, ReleaseTyped, Zenon
  <2> QED BY <1>0, <2>1, <2>3 DEF SideTyped
<1>9. ASSUME NEW r \in Relay, StaleMsg(r)
      PROVE  SideTyped'
  <2>1. chan[r] # << >> /\ chan' = [chan EXCEPT ![r] = Tail(chan[r])] /\ UNCHANGED <<held, relay, task>>
    BY <1>0, <1>9 DEF StaleMsg, book
  <2>2. Tail(chan[r]) \in Seq(Message)
    BY <1>0, <2>1
  <2> QED BY <1>0, <2>1, <2>2 DEF SideTyped
<1>10. ASSUME NEW r \in Relay, OutcomeMsg(r)
      PROVE  SideTyped'
  <2>1. \/ /\ Fence(r, Tail(chan[r])) /\ task' = task /\ chan[r] # << >>
           /\ FinishRuntime(r, [running EXCEPT ![r].settled = TRUE])
        \/ \E reason, js : Exit(reason, js)
    BY <1>10 DEF OutcomeMsg
  <2>2. CASE /\ Fence(r, Tail(chan[r])) /\ task' = task /\ chan[r] # << >>
             /\ FinishRuntime(r, [running EXCEPT ![r].settled = TRUE])
    <3>1. Tail(chan[r]) \in Seq(Message)
      BY <1>0, <2>2
    <3>2. relay' \in [Relay -> RelayState] /\ chan' \in [Relay -> Seq(Message)]
      BY <2>2, <3>1, FenceTyped, Zenon
    <3>3. held' \in SUBSET Job
      BY <2>2, HeldTyped
    <3> QED BY <1>0, <2>2, <3>2, <3>3 DEF SideTyped
  <2> QED BY <2>1, <2>2, ExitTyped
<1>11. ASSUME NEW r \in Relay, DeadMsg(r)
      PROVE  SideTyped'
  <2>1. \/ \E reason, js : Exit(reason, js)
        \/ /\ FinishRuntime(r, [running EXCEPT ![r].dead = TRUE]) /\ chan[r] # << >>
           /\ \/ Forget(r)
              \/ chan' = [chan EXCEPT ![r] = Tail(chan[r])] /\ UNCHANGED <<relay, task>>
    BY <1>0, <1>11 DEF DeadMsg
  <2>2. CASE FinishRuntime(r, [running EXCEPT ![r].dead = TRUE]) /\ Forget(r)
    <3>1. held' \in SUBSET Job
      BY <2>2, HeldTyped
    <3> QED BY <1>0, <2>2, <3>1, StatesTyped DEF SideTyped, Forget
  <2>3. CASE /\ FinishRuntime(r, [running EXCEPT ![r].dead = TRUE]) /\ chan[r] # << >>
             /\ chan' = [chan EXCEPT ![r] = Tail(chan[r])] /\ UNCHANGED <<relay, task>>
    <3>1. held' \in SUBSET Job
      BY <2>3, HeldTyped
    <3>2. Tail(chan[r]) \in Seq(Message)
      BY <1>0, <2>3
    <3> QED BY <1>0, <2>3, <3>1, <3>2 DEF SideTyped
  <2> QED BY <2>1, <2>2, <2>3, ExitTyped
<1>12. ASSUME NEW r \in Relay, DownMsg(r)
      PROVE  SideTyped'
  BY <1>12, ExitTyped DEF DownMsg
<1>13. ASSUME Crash
      PROVE  SideTyped'
  BY <1>13, ExitTyped DEF Crash
<1>14. ASSUME Recover
      PROVE  SideTyped'
  BY <1>0, <1>14, StatesTyped DEF Recover, book, SideTyped
<1>15. ASSUME NEW j \in Job, Reconcile(j)
      PROVE  SideTyped'
  BY <1>1, <1>15, ExitTyped DEF Reconcile, book, side
<1>16. CASE Commands
  BY <1>2, <1>3, <1>16 DEF Commands
<1>17. CASE Controls
  BY <1>4, <1>5, <1>6, <1>7, <1>17 DEF Controls
<1>18. CASE RelayMessages
  BY <1>9, <1>10, <1>11, <1>12, <1>18 DEF RelayMessages
<1>19. CASE Generations
  BY <1>3, <1>13, <1>14, <1>15, <1>19 DEF Generations
<1> QED BY <1>16, <1>17, <1>18, <1>19

\* The types in every step of a relay or a task.
LEMMA ProcessesTyped ==
  ASSUME SideTyped, Processes
  PROVE  SideTyped'
<1>0. /\ relay \in [Relay -> RelayState]
      /\ task \in [Relay -> TaskState] /\ chan \in [Relay -> Seq(Message)]
  BY DEF SideTyped
<1>1. held' = held
  BY Zenon DEF Processes, TaskReturns, TaskDies, RelayTimeout, RelayCrash, RelayResult,
         RelayTaskDown, engineSide, book
<1>2. ASSUME NEW r \in Relay
      PROVE  /\ relay[r] \in RelayState /\ task[r] \in TaskState /\ chan[r] \in Seq(Message)
             /\ relay[r].exec \in Nat /\ relay[r].inbox \in {"none", "success", "failure"}
             /\ [task[r] EXCEPT !.st = "dead"] \in TaskState
             /\ \A m \in Message : Append(chan[r], m) \in Seq(Message)
  <2>1. relay[r] \in RelayState /\ task[r] \in TaskState /\ chan[r] \in Seq(Message)
    BY <1>0
  <2>2. relay[r].exec \in Nat /\ relay[r].inbox \in {"none", "success", "failure"}
    BY <2>1 DEF RelayState
  <2>3. [task[r] EXCEPT !.st = "dead"] \in TaskState
    BY <2>1 DEF TaskState
  <2> QED BY <2>1, <2>2, <2>3
<1>3. ASSUME NEW r \in Relay, NEW result \in {"success", "failure"}, TaskReturns(r, result)
      PROVE  SideTyped'
  <2>1. [relay[r] EXCEPT !.inbox = result] \in RelayState
    BY <1>2, Zenon DEF RelayState
  <2>2. /\ task' = [task EXCEPT ![r] = [task[r] EXCEPT !.st = "dead"]] /\ chan' = chan
        /\ relay' = relay \/ relay' = [relay EXCEPT ![r] = [relay[r] EXCEPT !.inbox = result]]
    BY <1>0, <1>3 DEF TaskReturns
  <2>3. task' \in [Relay -> TaskState] /\ relay' \in [Relay -> RelayState]
    BY <1>0, <1>2, <2>1, <2>2, Zenon
  <2> QED BY <1>0, <1>1, <2>2, <2>3 DEF SideTyped
<1>4. ASSUME NEW r \in Relay, TaskDies(r)
      PROVE  SideTyped'
  <2>1. task' = [task EXCEPT ![r] = [task[r] EXCEPT !.st = "dead"]] /\ chan' = chan /\ relay' = relay
    BY <1>0, <1>4 DEF TaskDies
  <2>2. task' \in [Relay -> TaskState]
    BY <1>0, <1>2, <2>1
  <2> QED BY <1>0, <1>1, <2>1, <2>2 DEF SideTyped
<1>5. ASSUME NEW r \in Relay, RelayTimeout(r)
      PROVE  SideTyped'
  <2>1. [relay[r] EXCEPT !.chosen = TRUE] \in RelayState
    BY <1>2, Zenon DEF RelayState
  <2>2. "timeout" \in Outcome
    BY DEF Outcome
  <2>3. Msg("timeout", relay[r].exec) \in Message
    BY <1>2, <2>2, MessagesTyped, Zenon
  <2>4. /\ relay' = [relay EXCEPT ![r] = [relay[r] EXCEPT !.chosen = TRUE]] /\ task' = task
        /\ chan' = [chan EXCEPT ![r] = Append(chan[r], Msg("timeout", relay[r].exec))]
    BY <1>0, <1>5 DEF RelayTimeout
  <2>5. relay' \in [Relay -> RelayState] /\ chan' \in [Relay -> Seq(Message)]
    BY <1>0, <1>2, <2>1, <2>3, <2>4
  <2> QED BY <1>0, <1>1, <2>4, <2>5 DEF SideTyped
<1>6. ASSUME NEW r \in Relay, RelayCrash(r)
      PROVE  SideTyped'
  <2>1. [relay[r] EXCEPT !.up = "crashed"] \in RelayState
    BY <1>2, Zenon DEF RelayState
  <2>2. Msg("down", 0) \in Message
    BY MessagesTyped
  <2>3. /\ relay' = [relay EXCEPT ![r] = [relay[r] EXCEPT !.up = "crashed"]] /\ task' = task
        /\ chan' = [chan EXCEPT ![r] = Append(chan[r], Msg("down", 0))]
    BY <1>0, <1>6 DEF RelayCrash
  <2>4. relay' \in [Relay -> RelayState] /\ chan' \in [Relay -> Seq(Message)]
    BY <1>0, <1>2, <2>1, <2>2, <2>3
  <2> QED BY <1>0, <1>1, <2>3, <2>4 DEF SideTyped
<1>7. ASSUME NEW r \in Relay, NEW expired \in BOOLEAN, RelayResult(r, expired)
      PROVE  SideTyped'
  <2> DEFINE k == IF expired THEN "timeout" ELSE relay[r].inbox
             s1 == [relay[r] EXCEPT !.inbox = "none"]
             s2 == [relay[r] EXCEPT !.chosen = TRUE, !.inbox = "none"]
  <2>1. s1 \in RelayState /\ s2 \in RelayState
    BY <1>2, Zenon DEF RelayState
  <2>2. k \in Outcome
    BY <1>2, <1>7, Zenon DEF RelayResult, Outcome
  <2>3. Msg(k, relay[r].exec) \in Message
    BY <1>2, <2>2, MessagesTyped, Zenon
  <2>4. /\ task' = task
        /\ \/ relay' = [relay EXCEPT ![r] = s1] /\ chan' = chan
           \/ /\ relay' = [relay EXCEPT ![r] = s2]
              /\ chan' = [chan EXCEPT ![r] = Append(chan[r], Msg(k, relay[r].exec))]
    BY <1>0, <1>7, Zenon DEF RelayResult, Choose
  <2> HIDE DEF s1, s2, k
  <2>5. relay' \in [Relay -> RelayState] /\ chan' \in [Relay -> Seq(Message)]
    BY <1>0, <1>2, <2>1, <2>3, <2>4, Zenon
  <2> QED BY <1>0, <1>1, <2>4, <2>5 DEF SideTyped
<1>8. ASSUME NEW r \in Relay, NEW expired \in BOOLEAN, RelayTaskDown(r, expired)
      PROVE  SideTyped'
  <2> DEFINE k == IF expired THEN "timeout" ELSE "failure"
             u == IF relay[r].settled THEN "ended" ELSE "up"
             ch == relay[r].chosen \/ relay[r].exec # 0
             s == [relay[r] EXCEPT !.dead = TRUE, !.chosen = ch, !.up = u]
  <2>1. u \in {"none", "up", "ended", "crashed"} /\ ch \in BOOLEAN /\ k \in Outcome
    BY DEF Outcome
  <2>2. /\ task' = task /\ relay' = [relay EXCEPT ![r] = s]
        /\ chan' = [chan EXCEPT ![r] = chan[r] \o DeathReport(r, k)]
    BY <1>0, <1>8, Zenon DEF RelayTaskDown
  <2> HIDE DEF u, ch, k
  <2>3. s \in RelayState
    BY <1>2, <2>1, Zenon DEF RelayState
  <2>4. DeathReport(r, k) \in Seq(Message)
    <3>1. /\ Msg(k, relay[r].exec) \in Message /\ Msg("dead", relay[r].exec) \in Message
          /\ Msg("down", 0) \in Message
      BY <1>2, <2>1, MessagesTyped, Zenon
    <3> QED BY <3>1 DEF DeathReport
  <2> HIDE DEF s
  <2>5. chan[r] \o DeathReport(r, k) \in Seq(Message)
    <3>1. \A a, b \in Seq(Message) : a \o b \in Seq(Message)
      OBVIOUS
    <3>2. chan[r] \in Seq(Message)
      BY <1>0
    <3> QED BY <2>4, <3>1, <3>2, Zenon
  <2>6. relay' \in [Relay -> RelayState] /\ chan' \in [Relay -> Seq(Message)]
    BY <1>0, <2>2, <2>3, <2>5
  <2> QED BY <1>0, <1>1, <2>2, <2>6 DEF SideTyped
<1> QED BY <1>3, <1>4, <1>5, <1>6, <1>7, <1>8 DEF Processes

---------------------------------------------------------------------------
(* Ownership.  The two maps of the Engine are inverse to each other and the   *)
(* holds are those of the entries; an executing job is owned by an entry of   *)
(* that very start which is not settled.  So an entry that is settled and     *)
(* dead may go.                                                               *)

Books ==
  /\ \A j \in Job : executions[j] # None => running[executions[j]].job = j
  /\ \A r \in Relay : running[r].job # None => executions[running[r].job] = r
  /\ \A j \in Job : j \in held <=> executions[j] # None
  /\ phase \notin Mode => \A r \in Relay : running[r].job = None

Owned ==
  phase \in Mode =>
    \A j \in Job : jobs[j].state = "executing" =>
      /\ executions[j] # None
      /\ running[executions[j]].exec = jobs[j].exec
      /\ ~running[executions[j]].settled

\* An entry that stays what it was, as far as ownership goes.
SameEntry(r) ==
  /\ running'[r].job = running[r].job /\ running'[r].exec = running[r].exec
  /\ running'[r].settled = running[r].settled

\* No job starts: what executes now was executing, and is the same start.
NoStart(j) ==
  jobs'[j].state = "executing" =>
    jobs[j].state = "executing" /\ jobs'[j].exec = jobs[j].exec

\* Nothing happens to the entries.
LEMMA OwnedSame ==
  ASSUME BookTyped, Books, Owned, \A r \in Relay : SameEntry(r),
         executions' = executions, held' = held,
         phase' \notin Mode => phase \notin Mode,
         phase' \in Mode => \A j \in Job :
           NoStart(j) /\ (jobs'[j].state = "executing" => phase \in Mode)
  PROVE  Books' /\ Owned'
<1>1. executions \in [Job -> Relay \cup {None}]
  BY DEF BookTyped
<1>2. Books'
  BY <1>1 DEF Books, SameEntry
<1>3. ASSUME NEW j \in Job, phase' \in Mode, jobs'[j].state = "executing"
      PROVE  /\ executions'[j] # None /\ running'[executions'[j]].exec = jobs'[j].exec
             /\ ~running'[executions'[j]].settled
  <2>1. phase \in Mode /\ jobs[j].state = "executing" /\ jobs'[j].exec = jobs[j].exec
    BY <1>3 DEF NoStart
  <2>2. /\ executions[j] # None /\ running[executions[j]].exec = jobs[j].exec
        /\ ~running[executions[j]].settled
    BY <2>1 DEF Owned
  <2>3. executions[j] \in Relay
    BY <1>1, <2>2
  <2>4. SameEntry(executions[j])
    BY <2>3
  <2> QED BY <2>1, <2>2, <2>4 DEF SameEntry
<1>4. Owned'
  BY <1>3 DEF Owned
<1> QED BY <1>2, <1>4

\* The generation ends: there are no entries.
LEMMA OwnedExit ==
  ASSUME NEW reason, NEW js, Exit(reason, js)
  PROVE  Books' /\ Owned'
<1>1. /\ \A r \in Relay : running'[r] = NoEntry
      /\ \A j \in Job : executions'[j] = None
      /\ held' = {} /\ phase' = "down"
  BY DEF Exit
<1>2. NoEntry.job = None
  BY DEF NoEntry, NewEntry
<1> QED BY <1>1, <1>2 DEF Books, Owned, Mode

\* The entry of r is settled, or its task is dead, and it goes when it is both.
LEMMA OwnedFinish ==
  ASSUME BookTyped, Books, Owned, NEW r \in Relay, running[r].job # None,
         phase \in Mode, phase' \in Mode, NEW run \in [Relay -> Entry],
         \A q \in Relay \ {r} : run[q] = running[q],
         run[r].job = running[r].job, run[r].exec = running[r].exec,
         FinishRuntime(r, run),
         \A j \in Job : NoStart(j),
         run[r].settled => jobs'[running[r].job].state # "executing"
  PROVE  Books' /\ Owned'
<1> DEFINE i == running[r].job
<1>0. /\ executions \in [Job -> Relay \cup {None}] /\ i \in Job /\ executions[i] = r
      /\ None \notin Job /\ None \notin Relay
  BY EngineAssumption DEF BookTyped, Books, Entry
<1>1. CASE run[r].settled /\ run[r].dead
  <2>1. /\ running' = [run EXCEPT ![r] = NoEntry] /\ held' = held \ {i}
        /\ executions' = [executions EXCEPT ![i] = None]
    BY <1>1 DEF FinishRuntime, Unheld
  <2>2. NoEntry.job = None
    BY DEF NoEntry, NewEntry
  <2>3. running'[r].job = None /\ \A q \in Relay \ {r} : running'[q] = running[q]
    BY <2>1, <2>2
  <2>4. executions'[i] = None /\ \A j \in Job \ {i} : executions'[j] = executions[j]
    BY <1>0, <2>1
  <2> HIDE DEF i
  <2>5. \A j \in Job \ {i} : executions[j] # r
    <3> SUFFICES ASSUME NEW j \in Job \ {i}, executions[j] = r PROVE FALSE
      OBVIOUS
    <3>1. running[r].job = j
      BY <1>0 DEF Books
    <3> QED BY <3>1 DEF i
  <2>6. \A q \in Relay \ {r} : running[q].job # i
    BY <1>0 DEF Books
  <2>7. Books'
    <3>1. ASSUME NEW j \in Job, executions'[j] # None
          PROVE  running'[executions'[j]].job = j
      <4>1. j # i /\ executions'[j] = executions[j] /\ executions[j] # r
        BY <2>4, <2>5, <3>1
      <4>2. executions[j] \in Relay \ {r} /\ running[executions[j]].job = j
        BY <1>0, <3>1, <4>1 DEF Books
      <4> QED BY <2>3, <4>1, <4>2, Zenon
    <3>2. ASSUME NEW q \in Relay, running'[q].job # None
          PROVE  executions'[running'[q].job] = q
      <4>1. q # r /\ running'[q] = running[q]
        BY <2>3, <3>2, Zenon
      <4>2. executions[running[q].job] = q /\ running[q].job \in Job \ {i}
        BY <2>6, <3>2, <4>1 DEF Books, BookTyped, Entry
      <4> QED BY <2>4, <4>1, <4>2, Zenon
    <3>3. ASSUME NEW j \in Job
          PROVE  j \in held' <=> executions'[j] # None
      BY <2>1, <2>4 DEF Books
    <3> QED BY <3>1, <3>2, <3>3, Zenon DEF Books
  <2>8. Owned'
    <3> SUFFICES ASSUME NEW j \in Job, jobs'[j].state = "executing"
                 PROVE  /\ executions'[j] # None
                        /\ running'[executions'[j]].exec = jobs'[j].exec
                        /\ ~running'[executions'[j]].settled
      BY DEF Owned
    <3>1. j # i
      BY <1>1 DEF i
    <3>2. /\ jobs[j].state = "executing" /\ jobs'[j].exec = jobs[j].exec
      BY DEF NoStart
    <3>3. /\ executions[j] # None /\ running[executions[j]].exec = jobs[j].exec
          /\ ~running[executions[j]].settled
      BY <3>2 DEF Owned
    <3>4. executions[j] \in Relay \ {r}
      BY <1>0, <2>5, <3>1, <3>3
    <3>5. executions'[j] = executions[j] /\ running'[executions[j]] = running[executions[j]]
      BY <2>3, <2>4, <3>1, <3>4
    <3> QED BY <3>2, <3>3, <3>5
  <2> QED BY <2>7, <2>8
<1>2. CASE ~(run[r].settled /\ run[r].dead)
  <2>1. running' = run /\ executions' = executions /\ held' = held
    BY <1>2 DEF FinishRuntime
  <2>2. \A q \in Relay : running'[q].job = running[q].job /\ running'[q].exec = running[q].exec
    BY <2>1
  <2>3. \A q \in Relay \ {r} : running'[q] = running[q]
    BY <2>1
  <2> HIDE DEF i
  <2>4. Books'
    <3>1. \A j \in Job : executions[j] # None => executions[j] \in Relay
      BY <1>0
    <3> QED BY <2>1, <2>2, <3>1, Zenon DEF Books
  <2>5. Owned'
    <3> SUFFICES ASSUME NEW j \in Job, jobs'[j].state = "executing"
                 PROVE  /\ executions'[j] # None
                        /\ running'[executions'[j]].exec = jobs'[j].exec
                        /\ ~running'[executions'[j]].settled
      BY DEF Owned
    <3>2. jobs[j].state = "executing" /\ jobs'[j].exec = jobs[j].exec
      BY DEF NoStart
    <3>3. /\ executions[j] # None /\ running[executions[j]].exec = jobs[j].exec
          /\ ~running[executions[j]].settled
      BY <3>2 DEF Owned
    <3>4. executions[j] \in Relay
      BY <1>0, <3>3
    <3>5. CASE executions[j] = r
      <4>1. running[r].job = j
        BY <3>3, <3>5, Zenon DEF Books
      <4>2. ~run[r].settled
        BY <4>1, Zenon
      <4> QED BY <2>1, <2>2, <3>2, <3>3, <3>5, <4>2, Zenon
    <3>6. CASE executions[j] # r
      BY <2>1, <2>3, <3>2, <3>3, <3>4, <3>6
    <3> QED BY <3>5, <3>6, Zenon
  <2> QED BY <2>4, <2>5
<1> QED BY <1>1, <1>2

\* A free job is claimed for a relay that has no entry.
LEMMA OwnedClaim ==
  ASSUME BookTyped, Books, Owned, NEW j \in Job, NEW r \in Relay,
         j \notin held, running[r].job = None, phase \in Mode, phase' \in Mode,
         executions' = [executions EXCEPT ![j] = r], held' = held \cup {j},
         running'[r].job = j, \A q \in Relay \ {r} : SameEntry(q),
         \A i \in Job \ {j} : NoStart(i),
         jobs'[j].state = "executing" =>
           running'[r].exec = jobs'[j].exec /\ ~running'[r].settled
  PROVE  Books' /\ Owned'
<1>0. /\ executions \in [Job -> Relay \cup {None}] /\ executions[j] = None
      /\ None \notin Job /\ None \notin Relay
  BY EngineAssumption, Zenon DEF BookTyped, Books
<1>1. executions'[j] = r /\ \A i \in Job \ {j} : executions'[i] = executions[i]
  BY <1>0
<1>2. \A i \in Job \ {j} : executions[i] # r
  BY <1>0, Zenon DEF Books
<1>3. \A q \in Relay \ {r} : running[q].job # j
  BY <1>0 DEF Books
<1>4. Books'
  <2>1. ASSUME NEW i \in Job, executions'[i] # None
        PROVE  running'[executions'[i]].job = i
    <3>1. CASE i = j
      BY <1>1, <3>1
    <3>2. CASE i # j
      <4>1. executions'[i] = executions[i] /\ executions[i] \in Relay \ {r}
        BY <1>0, <1>1, <1>2, <2>1, <3>2
      <4>2. running[executions[i]].job = i
        BY <2>1, <4>1 DEF Books
      <4>3. SameEntry(executions[i])
        BY <4>1
      <4> QED BY <4>1, <4>2, <4>3 DEF SameEntry
    <3> QED BY <3>1, <3>2
  <2>2. ASSUME NEW q \in Relay, running'[q].job # None
        PROVE  executions'[running'[q].job] = q
    <3>1. CASE q = r
      BY <1>1, <3>1
    <3>2. CASE q # r
      <4>1. running'[q].job = running[q].job
        BY <3>2 DEF SameEntry
      <4>2. executions[running[q].job] = q /\ running[q].job \in Job \ {j}
        BY <1>3, <2>2, <3>2, <4>1 DEF Books, BookTyped, Entry
      <4> QED BY <1>1, <4>1, <4>2
    <3> QED BY <3>1, <3>2
  <2>3. ASSUME NEW i \in Job
        PROVE  i \in held' <=> executions'[i] # None
    BY <1>0, <1>1, Zenon DEF Books
  <2> QED BY <2>1, <2>2, <2>3 DEF Books
<1>5. Owned'
  <2> SUFFICES ASSUME NEW i \in Job, jobs'[i].state = "executing"
               PROVE  /\ executions'[i] # None
                      /\ running'[executions'[i]].exec = jobs'[i].exec
                      /\ ~running'[executions'[i]].settled
    BY Zenon DEF Owned
  <2>1. CASE i = j
    BY <1>0, <1>1, <2>1
  <2>2. CASE i # j
    <3>1. jobs[i].state = "executing" /\ jobs'[i].exec = jobs[i].exec
      BY <2>2, Zenon DEF NoStart
    <3>2. /\ executions[i] # None /\ running[executions[i]].exec = jobs[i].exec
          /\ ~running[executions[i]].settled
      BY <3>1 DEF Owned
    <3>3. executions[i] \in Relay \ {r} /\ executions'[i] = executions[i]
      BY <1>0, <1>1, <1>2, <2>2, <3>2, Zenon
    <3>4. SameEntry(executions[i])
      BY <3>3
    <3> QED BY <3>1, <3>2, <3>3, <3>4, Zenon DEF SameEntry
  <2> QED BY <2>1, <2>2
<1> QED BY <1>4, <1>5, Zenon

\* A commit that does not start its job starts none.
LEMMA NothingStarts ==
  ASSUME JobsInv, NEW j \in Job, NEW c, c.state # "executing",
         jobs' = [jobs EXCEPT ![j] = c]
  PROVE  (\A i \in Job : NoStart(i)) /\ jobs'[j].state # "executing"
BY DEF JobsInv, NoStart

\* Releasing tasks leaves the entries alone.
LEMMA ReleasedSame ==
  ASSUME NEW run \in [Relay -> Entry], NEW R, NEW r \in Relay
  PROVE  LET e == Released(run, R)[r]
         IN  /\ e.job = run[r].job /\ e.exec = run[r].exec
             /\ e.settled = run[r].settled /\ e.dead = run[r].dead
BY DEF Released, Entry

\* Marking an entry settled or dead leaves the rest of it, and the others.
LEMMA MarkedSame ==
  ASSUME NEW r \in Relay, running \in [Relay -> Entry]
  PROVE  /\ LET run == [running EXCEPT ![r].settled = TRUE] IN
            /\ \A q \in Relay \ {r} : run[q] = running[q]
            /\ run[r].job = running[r].job /\ run[r].exec = running[r].exec
            /\ run[r].dead = running[r].dead /\ run[r].settled
         /\ LET run == [running EXCEPT ![r].dead = TRUE] IN
            /\ \A q \in Relay \ {r} : run[q] = running[q]
            /\ run[r].job = running[r].job /\ run[r].exec = running[r].exec
            /\ run[r].settled = running[r].settled /\ run[r].dead
BY DEF Entry

\* Every step keeps the books and the owners.
LEMMA StepOwned ==
  ASSUME JobsInv, BookTyped, Books, Owned, [Next]_vars
  PROVE  Books' /\ Owned'
<1>0. /\ jobs \in [Job -> JobRecord] /\ running \in [Relay -> Entry]
      /\ executions \in [Job -> Relay \cup {None}]
  BY DEF JobsInv, BookTyped
<1>1. ASSUME UNCHANGED <<running, executions, held>>, phase' \notin Mode => phase \notin Mode,
             phase' \in Mode => \A j \in Job :
               NoStart(j) /\ (jobs'[j].state = "executing" => phase \in Mode)
      PROVE  Books' /\ Owned'
  <2>1. \A r \in Relay : SameEntry(r)
    BY <1>1 DEF SameEntry
  <2> QED BY <1>1, <2>1, OwnedSame
<1>2. ASSUME UNCHANGED <<running, executions, held>>, phase' \in Mode, phase \in Mode,
             NEW j \in Job, NEW c, c.state # "executing", jobs' = [jobs EXCEPT ![j] = c]
      PROVE  Books' /\ Owned'
  <2>1. \A i \in Job : NoStart(i)
    BY <1>2, NothingStarts, Zenon
  <2> QED BY <1>1, <1>2, <2>1
<1>3. ASSUME UNCHANGED <<running, executions, held>>, jobs' = jobs,
             phase' = phase \/ (phase \in Mode /\ phase' \in Mode)
      PROVE  Books' /\ Owned'
  <2>1. \A i \in Job : NoStart(i)
    BY <1>3 DEF NoStart
  <2> QED BY <1>1, <1>3, <2>1
<1>4. ASSUME phase \in Mode, NEW caller, CompleteDrains(phase, caller)
      PROVE  phase' \in Mode
  BY <1>4 DEF CompleteDrains, Mode
<1>5. ASSUME NEW j \in Job, NEW dur \in Durability, NEW due \in BOOLEAN, Insert(j, dur, due)
      PROVE  Books' /\ Owned'
  <2> DEFINE c == Inserted(dur, due)
  <2>1. c.state # "executing"
    BY InsertedFacts
  <2>2. /\ jobs' = [jobs EXCEPT ![j] = c] /\ phase \in Mode /\ phase' \in Mode
        /\ UNCHANGED <<running, executions, held>>
    BY <1>5 DEF Insert, Commit, book, Mode
  <2> HIDE DEF c
  <2> QED BY <1>2, <2>1, <2>2, Zenon
<1>6. ASSUME NEW r \in Relay, running[r].job # None, phase \in Mode, phase' \in Mode,
             NEW c, c.state # "executing", jobs' = [jobs EXCEPT ![running[r].job] = c],
             FinishRuntime(r, [running EXCEPT ![r].settled = TRUE])
      PROVE  Books' /\ Owned'
  <2> DEFINE run == [running EXCEPT ![r].settled = TRUE]
             j == running[r].job
  <2>1. j \in Job
    BY <1>0, <1>6 DEF Entry
  <2>2. (\A i \in Job : NoStart(i)) /\ jobs'[j].state # "executing"
    BY <1>6, <2>1, NothingStarts, Zenon
  <2>3. run \in [Relay -> Entry]
    BY <1>0, EntriesTyped, Zenon
  <2>4. /\ \A q \in Relay \ {r} : run[q] = running[q]
        /\ run[r].job = running[r].job /\ run[r].exec = running[r].exec
    BY <1>0, MarkedSame
  <2>5. FinishRuntime(r, run)
    BY <1>6
  <2> HIDE DEF run
  <2> QED BY <1>6, <2>2, <2>3, <2>4, <2>5, OwnedFinish
<1>7. ASSUME NEW j \in Job, Cancel(j)
      PROVE  Books' /\ Owned'
  <2> DEFINE c == Cancelled(jobs[j])
             r == executions[j]
  <2>1. c.state # "executing"
    BY <1>0, CancelledFacts
  <2>2. phase \in Mode
    BY <1>7 DEF Cancel
  <2>3. \/ /\ jobs' = [jobs EXCEPT ![j] = c] /\ UNCHANGED <<running, executions, held>>
           /\ CompleteDrains(phase, drainer)
        \/ /\ jobs' = [jobs EXCEPT ![j] = c] /\ r # None
           /\ FinishRuntime(r, [running EXCEPT ![r].settled = TRUE])
           /\ CompleteDrains(phase, drainer)
        \/ \E reason, js : Exit(reason, js)
    BY <1>7 DEF Cancel, Commit, book
  <2> HIDE DEF c
  <2>4. CASE /\ jobs' = [jobs EXCEPT ![j] = c] /\ r # None
             /\ FinishRuntime(r, [running EXCEPT ![r].settled = TRUE])
             /\ CompleteDrains(phase, drainer)
    <3>1. r \in Relay /\ running[r].job = j /\ j # None
      BY <1>0, <2>4, EngineAssumption DEF Books
    <3> HIDE DEF r
    <3>2. phase' \in Mode
      BY <1>4, <2>2, <2>4
    <3> QED BY <1>6, <2>1, <2>2, <2>4, <3>1, <3>2, Zenon
  <2>5. CASE /\ jobs' = [jobs EXCEPT ![j] = c] /\ UNCHANGED <<running, executions, held>>
             /\ CompleteDrains(phase, drainer)
    <3>1. phase' \in Mode
      BY <1>4, <2>2, <2>5
    <3> QED BY <1>2, <2>1, <2>2, <2>5, <3>1, Zenon
  <2> HIDE DEF r
  <2> QED BY <2>3, <2>4, <2>5, OwnedExit
<1>8. ASSUME NEW j \in Job, Retry(j)
      PROVE  Books' /\ Owned'
  <2> DEFINE c == Retried(jobs[j])
  <2>1. c.state # "executing"
    BY <1>0, RetriedFacts
  <2>2. /\ jobs' = [jobs EXCEPT ![j] = c] /\ phase \in Mode
        /\ UNCHANGED <<running, executions, held>> /\ CompleteDrains(phase, drainer)
    BY <1>8 DEF Retry, Commit, book
  <2> HIDE DEF c
  <2>3. phase' \in Mode
    BY <1>4, <2>2
  <2> QED BY <1>2, <2>1, <2>2, <2>3, Zenon
<1>9. ASSUME Pause \/ Drain \/ DrainDeadline
      PROVE  Books' /\ Owned'
  <2>1. /\ UNCHANGED <<running, executions, held>> /\ jobs' = jobs
        /\ phase \in Mode /\ phase' \in Mode
    BY <1>9 DEF Pause, Drain, DrainDeadline, book, ledger, CompleteDrains, Mode
  <2> QED BY <1>3, <2>1
<1>10. ASSUME NEW R, ControlOnly(R) \/ \E D \in SUBSET Job : ControlScheduler(R, D)
      PROVE  Books' /\ Owned'
  <2>1. /\ running' = Released(running, R) /\ executions' = executions /\ held' = held
        /\ phase \in Mode /\ phase' = phase
    BY <1>10, Zenon DEF ControlOnly, ControlScheduler, Mode
  <2>2. \A r \in Relay : SameEntry(r)
    BY <1>0, <2>1, ReleasedSame DEF SameEntry
  <2>3. \A j \in Job : NoStart(j)
    <3>1. CASE ControlOnly(R)
      BY <3>1 DEF ControlOnly, ledger, NoStart
    <3>2. ASSUME NEW D \in SUBSET Job, ControlScheduler(R, D)
          PROVE  \A j \in Job : NoStart(j)
      <4>1. jobs' = [j \in Job |-> IF j \in D THEN MadeAvailable(jobs[j]) ELSE jobs[j]]
        BY <3>2, Zenon DEF ControlScheduler
      <4>2. \A j \in Job : MadeAvailable(jobs[j]).state = "available"
        BY <1>0, MadeAvailableFacts
      <4> QED BY <4>1, <4>2 DEF NoStart
    <3> QED BY <1>10, <3>1, <3>2
  <2> QED BY <2>1, <2>2, <2>3, OwnedSame
<1>11. ASSUME NEW j \in Job, NEW r \in Relay, NEW R, ClaimLocal(j, r, R)
      PROVE  Books' /\ Owned'
  <2> DEFINE c == Started(jobs[j])
             e == NewEntry(j, c.exec, FALSE)
             run == [running EXCEPT ![r] = e]
  <2>1. /\ Claimable(j) /\ Fresh(r) /\ jobs' = [jobs EXCEPT ![j] = c]
        /\ running' = Released(run, R) /\ executions' = [executions EXCEPT ![j] = r]
        /\ held' = held \cup {j} /\ phase' = phase
    BY <1>11 DEF ClaimLocal, Commit
  <2>2. j \notin held /\ running[r].job = None /\ phase \in Mode /\ phase' \in Mode
    BY <2>1, Zenon DEF Claimable, Fresh, Mode
  <2>3. c.exec \in Nat
    <3>1. c \in JobRecord
      BY <1>0, StartedFacts
    <3> QED BY <3>1 DEF JobRecord
  <2> HIDE DEF c
  <2>4. e.job = j /\ e.exec = c.exec /\ ~e.settled
    BY DEF NewEntry
  <2>5. run \in [Relay -> Entry]
    BY <1>0, <2>3, ClaimTyped, Zenon
  <2> HIDE DEF e
  <2>6. run[r] = e /\ \A q \in Relay \ {r} : run[q] = running[q]
    BY <1>0
  <2> HIDE DEF run
  <2>7. \A q \in Relay : /\ running'[q].job = run[q].job /\ running'[q].exec = run[q].exec
                          /\ running'[q].settled = run[q].settled
    BY <2>1, <2>5, ReleasedSame, Zenon
  <2>8. \A q \in Relay \ {r} : SameEntry(q)
    BY <2>6, <2>7 DEF SameEntry
  <2>9. running'[r].job = j /\ running'[r].exec = c.exec /\ ~running'[r].settled
    BY <2>4, <2>6, <2>7
  <2>10. jobs'[j] = c /\ \A i \in Job \ {j} : NoStart(i)
    BY <1>0, <2>1 DEF NoStart
  <2> QED BY <2>1, <2>2, <2>8, <2>9, <2>10, OwnedClaim, Zenon
<1>12. ASSUME NEW j \in Job, NEW r \in Relay, NEW R, ClaimAbandoned(j, r, R)
      PROVE  Books' /\ Owned'
  <2> DEFINE e == NewEntry(j, 0, TRUE)
             run == Released(running, R)
  <2>1. /\ Claimable(j) /\ Fresh(r) /\ jobs' = jobs
        /\ running' = [run EXCEPT ![r] = e] /\ executions' = [executions EXCEPT ![j] = r]
        /\ held' = held \cup {j} /\ phase' = phase
    BY <1>12 DEF ClaimAbandoned, ledger
  <2>2. j \notin held /\ running[r].job = None /\ phase \in Mode /\ phase' \in Mode
    BY <2>1, Zenon DEF Claimable, Fresh, Mode
  <2>3. e.job = j /\ run \in [Relay -> Entry]
    BY <1>0, ReleasedTyped DEF NewEntry
  <2>4. \A q \in Relay : /\ run[q].job = running[q].job /\ run[q].exec = running[q].exec
                          /\ run[q].settled = running[q].settled
    BY <1>0, ReleasedSame
  <2> HIDE DEF e, run
  <2>5. running'[r] = e /\ \A q \in Relay \ {r} : running'[q] = run[q]
    BY <2>1, <2>3
  <2>6. \A q \in Relay \ {r} : SameEntry(q)
    BY <2>4, <2>5, Zenon DEF SameEntry
  <2>7. jobs'[j].state # "executing" /\ \A i \in Job : NoStart(i)
    BY <2>1 DEF Claimable, CanStart, NoStart
  <2>8. running'[r].job = j
    BY <2>3, <2>5
  <2> QED BY <2>1, <2>2, <2>6, <2>7, <2>8, OwnedClaim, Zenon
<1>13. ASSUME NEW r \in Relay, StaleMsg(r)
      PROVE  Books' /\ Owned'
  <2>1. /\ phase \in Mode /\ jobs' = jobs /\ UNCHANGED <<running, executions, held>>
        /\ phase' = phase \/ CompleteDrains(phase, drainer)
    BY <1>13 DEF StaleMsg, ledger, book
  <2>2. phase' \in Mode
    BY <1>4, <2>1
  <2> QED BY <1>3, <2>1, <2>2
<1>14. ASSUME NEW r \in Relay, OutcomeMsg(r)
      PROVE  Books' /\ Owned'
  <2> DEFINE j == running[r].job
             c == Finished(jobs[j], Head(chan[r]).kind)
  <2>1. phase \in Mode /\ running[r].job # None /\ j \in Job
    BY <1>0, <1>14 DEF OutcomeMsg, Accepts, Entry
  <2>2. c.state # "executing"
    BY <1>0, <2>1, FinishedFacts
  <2>3. \/ /\ jobs' = [jobs EXCEPT ![j] = c] /\ CompleteDrains(phase, drainer)
           /\ FinishRuntime(r, [running EXCEPT ![r].settled = TRUE])
        \/ \E reason, js : Exit(reason, js)
    BY <1>14 DEF OutcomeMsg, Commit
  <2> HIDE DEF c
  <2>4. CASE /\ jobs' = [jobs EXCEPT ![j] = c] /\ CompleteDrains(phase, drainer)
             /\ FinishRuntime(r, [running EXCEPT ![r].settled = TRUE])
    <3>1. phase' \in Mode
      BY <1>4, <2>1, <2>4
    <3> QED BY <1>6, <2>1, <2>2, <2>4, <3>1, Zenon
  <2> QED BY <2>3, <2>4, OwnedExit
<1>15. ASSUME NEW r \in Relay, DeadMsg(r)
      PROVE  Books' /\ Owned'
  <2> DEFINE run == [running EXCEPT ![r].dead = TRUE]
  <2>1. \/ \E reason, js : Exit(reason, js)
        \/ /\ FinishRuntime(r, run) /\ jobs' = jobs /\ phase \in Mode
           /\ CompleteDrains(phase, drainer) /\ running[r].job # None
    BY <1>15 DEF DeadMsg, ledger, Accepts
  <2>2. CASE /\ FinishRuntime(r, run) /\ jobs' = jobs /\ phase \in Mode
             /\ CompleteDrains(phase, drainer) /\ running[r].job # None
    <3>1. phase' \in Mode
      BY <1>4, <2>2
    <3>2. run \in [Relay -> Entry]
      BY <1>0, EntriesTyped, Zenon
    <3>3. /\ \A q \in Relay \ {r} : run[q] = running[q]
          /\ run[r].job = running[r].job /\ run[r].exec = running[r].exec
          /\ run[r].settled = running[r].settled
      BY <1>0, MarkedSame
    <3>4. running[r].job \in Job /\ executions[running[r].job] = r
      BY <1>0, <2>2 DEF Books, Entry
    <3>5. running[r].settled => jobs'[running[r].job].state # "executing"
      BY <2>2, <3>4 DEF Owned
    <3>6. \A j \in Job : NoStart(j)
      BY <2>2 DEF NoStart
    <3> HIDE DEF run
    <3> QED BY <2>2, <3>1, <3>2, <3>3, <3>5, <3>6, OwnedFinish, Zenon
  <2> HIDE DEF run
  <2> QED BY <2>1, <2>2, OwnedExit
<1>16. ASSUME NEW j \in Job, Reconcile(j)
      PROVE  Books' /\ Owned'
  <2>1. \/ /\ UNCHANGED <<running, executions, held>> /\ phase' = phase /\ phase = "reconciling"
        \/ \E reason, js : Exit(reason, js)
    BY <1>16 DEF Reconcile, book
  <2> QED BY <1>1, <2>1, OwnedExit DEF Mode
<1>17. ASSUME BecomeReady
      PROVE  Books' /\ Owned'
  <2>1. /\ UNCHANGED <<running, executions, held>> /\ jobs' = jobs
        /\ \A j \in Job : jobs[j].state # "executing"
        /\ phase' \in Mode
    BY <1>17 DEF BecomeReady, book, ledger, Executing, Mode
  <2> QED BY <1>1, <2>1 DEF NoStart
<1>18. ASSUME Recover
      PROVE  Books' /\ Owned'
  <2>1. /\ UNCHANGED <<running, executions, held>> /\ phase \notin Mode /\ phase' \notin Mode
    BY <1>18 DEF Recover, book, Mode
  <2> QED BY <1>1, <2>1
<1>19. ASSUME Processes \/ UNCHANGED vars
      PROVE  Books' /\ Owned'
  <2>1. UNCHANGED <<running, executions, held>> /\ jobs' = jobs /\ phase' = phase
    BY <1>19, Zenon DEF Processes, TaskReturns, TaskDies, RelayTimeout, RelayCrash, RelayResult,
                 RelayTaskDown, engineSide, ledger, book, vars
  <2> QED BY <1>3, <2>1
<1>20. CASE Commands
  BY <1>5, <1>7, <1>8, <1>9, <1>20 DEF Commands
<1>21. ASSUME NEW R, ReleaseFails(R)
      PROVE  Books' /\ Owned'
  BY <1>21, OwnedExit DEF ReleaseFails
<1>22. CASE Controls
  BY <1>10, <1>11, <1>12, <1>21, <1>22 DEF Controls
<1>23. ASSUME (\E r \in Relay : DownMsg(r)) \/ Crash
      PROVE  Books' /\ Owned'
  BY <1>23, OwnedExit DEF DownMsg, Crash
<1>24. CASE RelayMessages
  BY <1>13, <1>14, <1>15, <1>23, <1>24 DEF RelayMessages
<1>25. CASE Generations
  BY <1>16, <1>17, <1>18, <1>23, <1>25 DEF Generations
<1> QED BY <1>19, <1>20, <1>22, <1>24, <1>25 DEF Next

---------------------------------------------------------------------------
(* Tasks.  A task that is alive has an entry that names its job and does not   *)
(* take it for dead, and no notice of its death is on the way; so the entry    *)
(* stays until the task is dead, and a job that is claimed again has no task.  *)

NoDead(s) == \A i \in 1..Len(s) : s[i].kind # "dead"

TaskOk(r) ==
  /\ relay[r].up = "none" => chan[r] = << >>
  /\ Alive(r) => /\ ~running[r].dead
                 /\ NoDead(chan[r])
                 /\ phase # "down" => running[r].job = task[r].job /\ task[r].job # None

Tasks == \A r \in Relay : TaskOk(r)

\* A newly opened channel carries no report of a death.
LEMMA NothingDead == NoDead(<< >>)
<1>1. Len(<< >>) = 0
  OBVIOUS
<1>2. \A i \in 1..0 : FALSE
  OBVIOUS
<1> QED BY <1>1, <1>2 DEF NoDead

\* Reading and sending messages.
LEMMA NoDeadMessages ==
  ASSUME NEW s \in Seq(Message), NoDead(s)
  PROVE  /\ s # << >> => NoDead(Tail(s)) /\ Head(s).kind # "dead"
         /\ \A m \in Message : m.kind # "dead" => NoDead(Append(s, m))
<1>1. ASSUME s # << >>
      PROVE  NoDead(Tail(s)) /\ Head(s).kind # "dead"
  <2>1. Head(s) = s[1] /\ 1 \in 1..Len(s)
    BY <1>1
  <2>2. \A i \in 1..Len(Tail(s)) : Tail(s)[i] = s[i + 1] /\ i + 1 \in 1..Len(s)
    BY <1>1
  <2> QED BY <2>1, <2>2 DEF NoDead
<1>2. ASSUME NEW m \in Message, m.kind # "dead"
      PROVE  NoDead(Append(s, m))
  <2>1. \A i \in 1..Len(Append(s, m)) : Append(s, m)[i] = m \/ (i \in 1..Len(s) /\ Append(s, m)[i] = s[i])
    OBVIOUS
  <2> QED BY <1>2, <2>1 DEF NoDead
<1> QED BY <1>1, <1>2

\* A relay to which nothing happens that matters here.
LEMMA TaskSame ==
  ASSUME NEW r \in Relay, TaskOk(r), chan'[r] = chan[r],
         relay'[r].up = "none" => relay[r].up = "none",
         Alive(r)' => Alive(r) /\ task'[r].job = task[r].job,
         running'[r].dead = running[r].dead, running'[r].job = running[r].job,
         phase' # "down" => phase # "down"
  PROVE  TaskOk(r)'
BY DEF TaskOk

\* The Engine is gone, and its tasks run on.
LEMMA TasksExit ==
  ASSUME NEW reason, NEW js, Exit(reason, js)
  PROVE  Tasks'
<1>1. ASSUME NEW r \in Relay
      PROVE  chan'[r] = << >> /\ ~running'[r].dead /\ phase' = "down"
  BY DEF Exit, NoEntry, NewEntry
<1>2. NoDead(<< >>)
  BY NothingDead
<1> QED BY <1>1, <1>2 DEF Tasks, TaskOk

\* The entry of r is settled and its relay fenced; m is what is left to read.
LEMMA TasksFence ==
  ASSUME BookTyped, SideTyped, Tasks, NEW r \in Relay, NEW m \in Seq(Message),
         NoDead(chan[r]) => NoDead(m), Fence(r, m),
         FinishRuntime(r, [running EXCEPT ![r].settled = TRUE]),
         task' = task, phase # "down"
  PROVE  Tasks'
<1> DEFINE run == [running EXCEPT ![r].settled = TRUE]
<1>0. running \in [Relay -> Entry]
  BY DEF BookTyped
<1>1. /\ \A q \in Relay \ {r} : run[q] = running[q]
      /\ run[r].job = running[r].job /\ run[r].dead = running[r].dead
  BY <1>0, MarkedSame
<1>2. run \in [Relay -> Entry]
  BY <1>0, EntriesTyped, Zenon
<1>3. FinishRuntime(r, run)
  OBVIOUS
<1> HIDE DEF run
<1>4. /\ relay'[r].up # "none" /\ (chan'[r] = m \/ chan'[r] = Append(m, Msg("down", 0)))
      /\ \A q \in Relay \ {r} : relay'[q] = relay[q] /\ chan'[q] = chan[q]
  BY FenceTyped
<1>5. \A q \in Relay \ {r} : running'[q] = running[q]
  BY <1>1, <1>2, <1>3 DEF FinishRuntime
<1>6. ASSUME NEW q \in Relay \ {r}
      PROVE  TaskOk(q)'
  <2>1. /\ TaskOk(q) /\ chan'[q] = chan[q] /\ relay'[q] = relay[q] /\ running'[q] = running[q]
    BY <1>4, <1>5 DEF Tasks
  <2>2. Alive(q)' <=> Alive(q)
    BY DEF Alive
  <2> QED BY <2>1, <2>2, TaskSame
<1>7. TaskOk(r)'
  <2>1. CASE ~Alive(r)
    BY <1>4, <2>1 DEF TaskOk, Alive
  <2>2. CASE Alive(r)
    <3>1. /\ ~running[r].dead /\ NoDead(chan[r])
          /\ running[r].job = task[r].job /\ task[r].job # None
      BY <2>2 DEF Tasks, TaskOk
    <3>2. running' = run
      BY <1>1, <1>3, <3>1 DEF FinishRuntime
    <3>3. Msg("down", 0) \in Message /\ Msg("down", 0).kind # "dead"
      BY DEF Msg, Message
    <3>4. NoDead(chan'[r])
      BY <1>4, <3>1, <3>3, NoDeadMessages, Zenon
    <3> QED BY <1>1, <1>4, <3>1, <3>2, <3>4 DEF TaskOk
  <2> QED BY <2>1, <2>2
<1> QED BY <1>6, <1>7 DEF Tasks

\* A new task of j, beside the ones that run; run, rel and tsk are the entries,
\* relays and tasks it is released with.
LEMMA TasksClaim ==
  ASSUME BookTyped, SideTyped, Tasks, NEW j \in Job, NEW r \in Relay, Fresh(r),
         chan' = chan, phase # "down", NEW run \in [Relay -> Entry], NEW R,
         NEW rel \in [Relay -> RelayState], NEW tsk \in [Relay -> TaskState],
         ReleaseTasks(run, R, rel, tsk),
         rel[r].up = "up", \A q \in Relay \ {r} : rel[q] = relay[q],
         tsk[r].job = j, \A q \in Relay \ {r} : tsk[q] = task[q],
         running'[r].job = j, ~running'[r].dead,
         \A q \in Relay \ {r} : /\ running'[q].job = running[q].job
                                  /\ running'[q].dead = running[q].dead
  PROVE  Tasks'
<1>1. \A q \in Relay : /\ relay'[q].up = rel[q].up /\ task'[q].job = tsk[q].job
                        /\ (Alive(q)' <=> tsk[q].st \in {"waiting", "released"})
  BY ReleaseTyped, Zenon
<1>2. TaskOk(r)'
  <2>1. relay[r].up = "none"
    BY Zenon DEF Fresh
  <2>2. chan'[r] = << >>
    BY <2>1, Zenon DEF Tasks, TaskOk
  <2>3. NoDead(<< >>)
    BY NothingDead, Zenon
  <2>4. relay'[r].up # "none" /\ running'[r].job = task'[r].job /\ task'[r].job # None
    <3>1. j # None
      BY EngineAssumption, Zenon
    <3> QED BY <1>1, <3>1
  <2> QED BY <2>2, <2>3, <2>4, Zenon DEF TaskOk
<1>3. ASSUME NEW q \in Relay \ {r}
      PROVE  TaskOk(q)'
  <2>1. TaskOk(q)
    BY Zenon DEF Tasks
  <2>2. Alive(q)' => Alive(q) /\ task'[q].job = task[q].job
    BY <1>1, Zenon DEF Alive
  <2>3. relay'[q].up = relay[q].up
    BY <1>1, Zenon
  <2> QED BY <2>1, <2>2, <2>3, TaskSame, Zenon
<1> QED BY <1>2, <1>3, Zenon DEF Tasks

\* The Engine's handlers keep the tasks under their entries.
LEMMA EngineTasks ==
  ASSUME JobsInv, BookTyped, SideTyped, Tasks,
         Commands \/ Controls \/ RelayMessages \/ Generations
  PROVE  Tasks'
<1>0. /\ jobs \in [Job -> JobRecord] /\ running \in [Relay -> Entry]
      /\ executions \in [Job -> Relay \cup {None}]
      /\ relay \in [Relay -> RelayState]
      /\ task \in [Relay -> TaskState] /\ chan \in [Relay -> Seq(Message)]
  BY DEF JobsInv, BookTyped, SideTyped
<1>1. ASSUME UNCHANGED <<running, relay, task, chan>>, phase' # "down" => phase # "down"
      PROVE  Tasks'
  <2> SUFFICES ASSUME NEW r \in Relay PROVE TaskOk(r)'
    BY DEF Tasks
  <2>1. TaskOk(r)
    BY DEF Tasks
  <2>2. Alive(r)' => Alive(r)
    BY <1>1 DEF Alive
  <2> QED BY <1>1, <2>1, <2>2, TaskSame
<1>2. ASSUME \/ \E j \in Job, dur \in Durability, due \in BOOLEAN : Insert(j, dur, due)
             \/ \E j \in Job : Retry(j)
             \/ Pause \/ Drain \/ DrainDeadline \/ BecomeReady
      PROVE  Tasks'
  <2>1. UNCHANGED <<running, relay, task, chan>> /\ phase # "down"
    BY <1>2, Zenon DEF Insert, Retry, Pause, Drain, DrainDeadline, BecomeReady, book, side, Mode
  <2> QED BY <1>1, <2>1
<1>3. ASSUME NEW j \in Job, Cancel(j)
      PROVE  Tasks'
  <2> DEFINE r == executions[j]
  <2>1. phase # "down" /\ r \in Relay \cup {None}
    BY <1>0, <1>3 DEF Cancel, Mode
  <2>2. \/ UNCHANGED <<running, relay, task, chan>>
        \/ /\ r # None /\ Fence(r, chan[r]) /\ task' = task
           /\ FinishRuntime(r, [running EXCEPT ![r].settled = TRUE])
        \/ \E reason, js : Exit(reason, js)
    BY <1>3 DEF Cancel, book, side
  <2>3. CASE /\ r # None /\ Fence(r, chan[r]) /\ task' = task
             /\ FinishRuntime(r, [running EXCEPT ![r].settled = TRUE])
    <3>1. r \in Relay /\ chan[r] \in Seq(Message)
      BY <1>0, <2>1, <2>3
    <3> HIDE DEF r
    <3> QED BY <2>1, <2>3, <3>1, TasksFence
  <2> HIDE DEF r
  <2> QED BY <1>1, <2>1, <2>2, <2>3, TasksExit
<1>4. ASSUME NEW R, ControlOnly(R) \/ \E D \in SUBSET Job : ControlScheduler(R, D)
      PROVE  Tasks'
  <2> SUFFICES ASSUME NEW r \in Relay PROVE TaskOk(r)'
    BY DEF Tasks
  <2>1. /\ running' = Released(running, R) /\ chan' = chan /\ phase # "down"
        /\ ReleaseTasks(running, R, relay, task)
    BY <1>4, Zenon DEF ControlOnly, ControlScheduler, Mode
  <2>2. running'[r].job = running[r].job /\ running'[r].dead = running[r].dead
    BY <1>0, <2>1, ReleasedSame, Zenon
  <2>3. /\ relay'[r].up = relay[r].up /\ task'[r].job = task[r].job
        /\ (Alive(r)' <=> task[r].st \in {"waiting", "released"})
    BY <1>0, <2>1, ReleaseTyped, Zenon
  <2>4. TaskOk(r) /\ (Alive(r)' => Alive(r))
    BY <2>3 DEF Tasks, Alive
  <2> QED BY <2>1, <2>2, <2>3, <2>4, TaskSame, Zenon
<1>5. ASSUME NEW j \in Job, NEW r \in Relay, NEW R, ClaimLocal(j, r, R)
      PROVE  Tasks'
  <2> DEFINE c == Started(jobs[j])
             e == NewEntry(j, c.exec, FALSE)
             run == [running EXCEPT ![r] = e]
             n == [NoRelay EXCEPT !.up = "up"]
             t == [st |-> "waiting", job |-> j]
             rel == [relay EXCEPT ![r] = n]
             tsk == [task EXCEPT ![r] = t]
  <2>1. /\ Fresh(r) /\ phase # "down" /\ chan' = chan /\ running' = Released(run, R)
        /\ ReleaseTasks(run, R, rel, tsk)
    BY <1>5 DEF ClaimLocal, Claimable
  <2>2. c.exec \in Nat
    <3>1. c \in JobRecord
      BY <1>0, StartedFacts
    <3> QED BY <3>1 DEF JobRecord
  <2> HIDE DEF c
  <2>3. run \in [Relay -> Entry]
    BY <1>0, <2>2, ClaimTyped, Zenon
  <2>4. e.job = j /\ ~e.dead
    BY DEF NewEntry
  <2>5. n \in RelayState /\ t \in TaskState /\ t.job = j
    BY StatesTyped
  <2>6. n.up = "up"
    BY DEF NoRelay
  <2> HIDE DEF e, n, t
  <2>7. /\ rel \in [Relay -> RelayState] /\ tsk \in [Relay -> TaskState]
        /\ rel[r] = n /\ \A q \in Relay \ {r} : rel[q] = relay[q]
    BY <1>0, <2>5
  <2>8. tsk[r] = t /\ \A q \in Relay \ {r} : tsk[q] = task[q]
    BY <1>0
  <2>9. run[r] = e /\ \A q \in Relay \ {r} : run[q] = running[q]
    BY <1>0
  <2> HIDE DEF run, rel, tsk
  <2>10. \A q \in Relay : running'[q].job = run[q].job /\ running'[q].dead = run[q].dead
    BY <2>1, <2>3, ReleasedSame, Zenon
  <2>11. /\ running'[r].job = j /\ ~running'[r].dead
         /\ \A q \in Relay \ {r} : /\ running'[q].job = running[q].job
                                     /\ running'[q].dead = running[q].dead
    BY <2>4, <2>9, <2>10
  <2>12. rel[r].up = "up" /\ tsk[r].job = j
    BY <2>5, <2>6, <2>7, <2>8
  <2> QED BY <2>1, <2>3, <2>7, <2>8, <2>11, <2>12, TasksClaim, Zenon
<1>6. ASSUME NEW j \in Job, NEW r \in Relay, NEW R, ClaimAbandoned(j, r, R)
      PROVE  Tasks'
  <2> DEFINE e == NewEntry(j, 0, TRUE)
             n == [NoRelay EXCEPT !.up = "up", !.settled = TRUE, !.chosen = TRUE]
             t == [st |-> "waiting", job |-> j]
             run == Released(running, R)
             rel == [relay EXCEPT ![r] = n]
             tsk == [task EXCEPT ![r] = t]
  <2>1. /\ Fresh(r) /\ phase # "down" /\ chan' = chan /\ running' = [run EXCEPT ![r] = e]
        /\ ReleaseTasks(running, R, rel, tsk)
    BY <1>6 DEF ClaimAbandoned, Claimable
  <2>2. run \in [Relay -> Entry]
    BY <1>0, ReleasedTyped, Zenon
  <2>3. \A q \in Relay : run[q].job = running[q].job /\ run[q].dead = running[q].dead
    BY <1>0, ReleasedSame, Zenon
  <2>4. e.job = j /\ ~e.dead
    BY DEF NewEntry
  <2>5. n \in RelayState /\ t \in TaskState /\ t.job = j
    BY StatesTyped
  <2>6. n.up = "up"
    BY DEF NoRelay
  <2> HIDE DEF e, n, t, run
  <2>7. /\ rel \in [Relay -> RelayState] /\ tsk \in [Relay -> TaskState]
        /\ rel[r] = n /\ \A q \in Relay \ {r} : rel[q] = relay[q]
    BY <1>0, <2>5
  <2>8. tsk[r] = t /\ \A q \in Relay \ {r} : tsk[q] = task[q]
    BY <1>0
  <2>9. running'[r] = e /\ \A q \in Relay \ {r} : running'[q] = run[q]
    BY <2>1, <2>2
  <2> HIDE DEF rel, tsk
  <2>11. /\ running'[r].job = j /\ ~running'[r].dead
         /\ \A q \in Relay \ {r} : /\ running'[q].job = running[q].job
                                     /\ running'[q].dead = running[q].dead
    BY <2>3, <2>4, <2>9
  <2>12. rel[r].up = "up" /\ tsk[r].job = j
    BY <2>5, <2>6, <2>7, <2>8
  <2> QED BY <1>0, <2>1, <2>7, <2>8, <2>11, <2>12, TasksClaim, Zenon
<1>7. ASSUME NEW r \in Relay, chan[r] # << >>, Alive(r)
      PROVE  NoDead(chan[r]) /\ NoDead(Tail(chan[r])) /\ Head(chan[r]).kind # "dead"
  <2>1. NoDead(chan[r]) /\ chan[r] \in Seq(Message)
    BY <1>0, <1>7, Zenon DEF Tasks, TaskOk
  <2> QED BY <1>7, <2>1, NoDeadMessages
<1>8. ASSUME NEW r \in Relay, chan[r] # << >>, chan' = [chan EXCEPT ![r] = Tail(chan[r])],
             relay' = relay, task' = task, phase # "down",
             \A q \in Relay \ {r} : running'[q] = running[q],
             running'[r].job = running[r].job, Alive(r) => running'[r].dead = running[r].dead
      PROVE  Tasks'
  <2>1. ASSUME NEW q \in Relay \ {r}
        PROVE  TaskOk(q)'
    <3>1. TaskOk(q) /\ chan'[q] = chan[q] /\ running'[q] = running[q] /\ relay' = relay
      BY <1>0, <1>8 DEF Tasks
    <3>2. Alive(q)' => Alive(q) /\ task'[q].job = task[q].job
      BY <1>8 DEF Alive
    <3> QED BY <1>8, <3>1, <3>2, TaskSame
  <2>2. TaskOk(r)'
    <3>1. TaskOk(r) /\ relay[r].up # "none" /\ chan'[r] = Tail(chan[r])
      BY <1>0, <1>8, Zenon DEF Tasks, TaskOk
    <3>2. Alive(r)' <=> Alive(r)
      BY <1>8 DEF Alive
    <3> QED BY <1>7, <1>8, <3>1, <3>2, Zenon DEF TaskOk
  <2> QED BY <2>1, <2>2 DEF Tasks
<1>9. ASSUME NEW r \in Relay, StaleMsg(r)
      PROVE  Tasks'
  <2>1. /\ chan[r] # << >> /\ chan' = [chan EXCEPT ![r] = Tail(chan[r])]
        /\ relay' = relay /\ task' = task /\ running' = running /\ phase # "down"
    BY <1>0, <1>9 DEF StaleMsg, book, Mode
  <2> QED BY <1>8, <2>1, Zenon
<1>10. ASSUME NEW r \in Relay, OutcomeMsg(r)
      PROVE  Tasks'
  <2>1. \/ /\ Fence(r, Tail(chan[r])) /\ task' = task /\ chan[r] # << >> /\ phase # "down"
           /\ FinishRuntime(r, [running EXCEPT ![r].settled = TRUE])
        \/ \E reason, js : Exit(reason, js)
    BY <1>10 DEF OutcomeMsg, Mode
  <2>2. CASE /\ Fence(r, Tail(chan[r])) /\ task' = task /\ chan[r] # << >> /\ phase # "down"
             /\ FinishRuntime(r, [running EXCEPT ![r].settled = TRUE])
    <3>1. chan[r] \in Seq(Message)
      BY <1>0
    <3>2. Tail(chan[r]) \in Seq(Message)
      BY <2>2, <3>1
    <3>3. NoDead(chan[r]) => NoDead(Tail(chan[r]))
      BY <2>2, <3>1, NoDeadMessages
    <3> QED BY <2>2, <3>2, <3>3, TasksFence, Zenon
  <2> QED BY <2>1, <2>2, TasksExit
<1>11. ASSUME NEW r \in Relay, DeadMsg(r)
      PROVE  Tasks'
  <2> DEFINE run == [running EXCEPT ![r].dead = TRUE]
  <2>1. \/ \E reason, js : Exit(reason, js)
        \/ /\ FinishRuntime(r, run) /\ chan[r] # << >> /\ Head(chan[r]).kind = "dead"
           /\ phase # "down"
           /\ \/ running[r].settled /\ Forget(r)
              \/ /\ ~running[r].settled /\ chan' = [chan EXCEPT ![r] = Tail(chan[r])]
                 /\ UNCHANGED <<relay, task>>
    BY <1>0, <1>11 DEF DeadMsg, Mode
  <2>2. ASSUME chan[r] # << >>, Head(chan[r]).kind = "dead"
        PROVE  ~Alive(r)
    BY <1>7, <2>2
  <2>3. /\ \A q \in Relay \ {r} : run[q] = running[q]
        /\ run[r].job = running[r].job /\ run[r].settled = running[r].settled
    BY <1>0, MarkedSame
  <2>4. run \in [Relay -> Entry]
    BY <1>0, EntriesTyped, Zenon
  <2> HIDE DEF run
  <2>5. CASE /\ FinishRuntime(r, run) /\ chan[r] # << >> /\ Head(chan[r]).kind = "dead"
             /\ phase # "down" /\ ~running[r].settled
             /\ chan' = [chan EXCEPT ![r] = Tail(chan[r])] /\ UNCHANGED <<relay, task>>
    <3>1. running' = run
      BY <2>3, <2>5 DEF FinishRuntime
    <3> QED BY <1>8, <2>2, <2>3, <2>5, <3>1, Zenon
  <2>6. CASE FinishRuntime(r, run) /\ phase # "down" /\ Forget(r)
    <3>1. /\ \A q \in Relay \ {r} : running'[q] = running[q]
          /\ \A q \in Relay \ {r} : chan'[q] = chan[q] /\ relay'[q] = relay[q] /\ task'[q] = task[q]
          /\ chan'[r] = << >> /\ task'[r] = NoTask
      BY <1>0, <2>3, <2>4, <2>6 DEF FinishRuntime, Forget
    <3>2. ASSUME NEW q \in Relay \ {r}
          PROVE  TaskOk(q)'
      <4>1. TaskOk(q)
        BY DEF Tasks
      <4>2. Alive(q)' => Alive(q) /\ task'[q].job = task[q].job
        BY <3>1, Zenon DEF Alive
      <4> QED BY <2>6, <3>1, <4>1, <4>2, TaskSame, Zenon
    <3>3. TaskOk(r)'
      <4>1. ~Alive(r)'
        BY <3>1 DEF Alive, NoTask
      <4> QED BY <3>1, <4>1 DEF TaskOk
    <3> QED BY <3>2, <3>3 DEF Tasks
  <2> QED BY <2>1, <2>5, <2>6, TasksExit
<1>12. ASSUME Recover
      PROVE  Tasks'
  <2>1. relay' = relay /\ chan' = chan /\ \A r \in Relay : task'[r] = NoTask
    BY <1>12 DEF Recover
  <2>2. \A r \in Relay : ~Alive(r)'
    BY <2>1 DEF Alive, NoTask
  <2> QED BY <2>1, <2>2 DEF Tasks, TaskOk
<1>13. ASSUME NEW j \in Job, Reconcile(j)
      PROVE  Tasks'
  <2>1. \/ UNCHANGED <<running, relay, task, chan>> /\ phase # "down"
        \/ \E reason, js : Exit(reason, js)
    BY <1>13 DEF Reconcile, book, side
  <2> QED BY <1>1, <2>1, TasksExit
<1>14. ASSUME NEW R, ReleaseFails(R)
      PROVE  Tasks'
  BY <1>14, TasksExit DEF ReleaseFails
<1>15. ASSUME (\E r \in Relay : DownMsg(r)) \/ Crash
      PROVE  Tasks'
  BY <1>15, TasksExit DEF DownMsg, Crash
<1>16. CASE Commands
  BY <1>2, <1>3, <1>16 DEF Commands
<1>17. CASE Controls
  BY <1>4, <1>5, <1>6, <1>14, <1>17 DEF Controls
<1>18. CASE RelayMessages
  BY <1>9, <1>10, <1>11, <1>15, <1>18 DEF RelayMessages
<1>19. CASE Generations
  BY <1>2, <1>12, <1>13, <1>15, <1>19 DEF Generations
<1> QED BY <1>16, <1>17, <1>18, <1>19

\* A step of the task or of the relay of r: no other is touched, a task is never
\* revived, and the word that the task is dead is sent only once it is.
ProcessStep(r) ==
  /\ UNCHANGED <<running, phase>>
  /\ \A q \in Relay \ {r} : relay'[q] = relay[q] /\ task'[q] = task[q] /\ chan'[q] = chan[q]
  /\ relay[r].up # "none" => relay'[r].up # "none"
  /\ task'[r].job = task[r].job /\ (Alive(r)' => Alive(r))
  /\ \/ chan'[r] = chan[r]
     \/ ~Alive(r)' /\ relay[r].up # "none"
     \/ /\ relay[r].up # "none"
        /\ \E m \in Message : m.kind # "dead" /\ chan'[r] = Append(chan[r], m)

\* Every step of a relay, a task or their watchers (execution.ex) is one of the
\* kinds of step that ProcessStep lists.
LEMMA ProcessSteps ==
  ASSUME SideTyped, Processes
  PROVE  \E r \in Relay : ProcessStep(r)
<1>0. /\ relay \in [Relay -> RelayState]
      /\ task \in [Relay -> TaskState] /\ chan \in [Relay -> Seq(Message)]
  BY DEF SideTyped
<1>1. UNCHANGED engineSide
  BY Zenon DEF Processes, TaskReturns, TaskDies, RelayTimeout, RelayCrash, RelayResult, RelayTaskDown
<1>2. UNCHANGED <<running, phase>>
  BY <1>1 DEF engineSide, book
<1>3. ASSUME NEW r \in Relay
      PROVE  relay[r].exec \in Nat /\ relay[r].inbox \in {"none", "success", "failure"}
  <2>1. relay[r] \in RelayState
    BY <1>0
  <2> QED BY <2>1 DEF RelayState
<1>4. ASSUME NEW r \in Relay, NEW result, TaskReturns(r, result)
      PROVE  ProcessStep(r)
  BY <1>0, <1>2, <1>4 DEF TaskReturns, ProcessStep, Alive, TaskState, RelayState
<1>5. ASSUME NEW r \in Relay, TaskDies(r)
      PROVE  ProcessStep(r)
  BY <1>0, <1>2, <1>5 DEF TaskDies, ProcessStep, Alive, TaskState
<1>6. ASSUME NEW r \in Relay, RelayTimeout(r)
      PROVE  ProcessStep(r)
  <2>1. "timeout" \in Outcome
    BY DEF Outcome
  <2>2. Msg("timeout", relay[r].exec) \in Message
    BY <1>3, <2>1, MessagesTyped
  <2>3. Msg("timeout", relay[r].exec).kind # "dead"
    BY DEF Msg
  <2>4. chan'[r] = Append(chan[r], Msg("timeout", relay[r].exec)) /\ relay[r].up # "none"
    BY <1>0, <1>6 DEF RelayTimeout
  <2>5. /\ \A q \in Relay \ {r} : relay'[q] = relay[q] /\ task'[q] = task[q] /\ chan'[q] = chan[q]
        /\ relay'[r].up = relay[r].up /\ task' = task
    BY <1>0, <1>6 DEF RelayTimeout, RelayState
  <2> QED BY <1>2, <2>2, <2>3, <2>4, <2>5 DEF ProcessStep, Alive
<1>7. ASSUME NEW r \in Relay, RelayCrash(r)
      PROVE  ProcessStep(r)
  <2>1. Msg("down", 0) \in Message
    BY MessagesTyped
  <2>2. Msg("down", 0).kind # "dead"
    BY DEF Msg
  <2>3. chan'[r] = Append(chan[r], Msg("down", 0)) /\ relay[r].up # "none"
    BY <1>0, <1>7 DEF RelayCrash
  <2>4. /\ \A q \in Relay \ {r} : relay'[q] = relay[q] /\ task'[q] = task[q] /\ chan'[q] = chan[q]
        /\ relay'[r].up = "crashed" /\ task' = task
    BY <1>0, <1>7 DEF RelayCrash, RelayState
  <2> QED BY <1>2, <2>1, <2>2, <2>3, <2>4 DEF ProcessStep, Alive
<1>8. ASSUME NEW r \in Relay, NEW expired \in BOOLEAN, RelayResult(r, expired)
      PROVE  ProcessStep(r)
  <2> DEFINE k == IF expired THEN "timeout" ELSE relay[r].inbox
  <2>1. k \in Outcome /\ k # "dead"
    BY <1>3, <1>8 DEF RelayResult, Outcome
  <2>2. Msg(k, relay[r].exec) \in Message
    BY <1>3, <2>1, MessagesTyped
  <2>3. Msg(k, relay[r].exec).kind # "dead"
    BY <2>1 DEF Msg
  <2>4. /\ \/ chan'[r] = chan[r]
           \/ chan'[r] = Append(chan[r], Msg(k, relay[r].exec))
        /\ relay[r].up # "none"
    BY <1>0, <1>8 DEF RelayResult, Choose
  <2>5. /\ \A q \in Relay \ {r} : relay'[q] = relay[q] /\ task'[q] = task[q] /\ chan'[q] = chan[q]
        /\ relay'[r].up = relay[r].up /\ task' = task
    BY <1>0, <1>8 DEF RelayResult, Choose, RelayState
  <2> HIDE DEF k
  <2> QED BY <1>2, <2>2, <2>3, <2>4, <2>5 DEF ProcessStep, Alive
<1>9. ASSUME NEW r \in Relay, NEW expired \in BOOLEAN, RelayTaskDown(r, expired)
      PROVE  ProcessStep(r)
  <2>1. /\ task' = task /\ task[r].st = "dead" /\ relay[r].up # "none"
        /\ \A q \in Relay \ {r} : relay'[q] = relay[q] /\ chan'[q] = chan[q]
    BY <1>0, <1>9 DEF RelayTaskDown
  <2>2. relay'[r].up \in {"ended", "up"}
    BY <1>0, <1>9 DEF RelayTaskDown, RelayState
  <2> QED BY <1>2, <2>1, <2>2 DEF ProcessStep, Alive
<1> QED BY <1>4, <1>5, <1>6, <1>7, <1>8, <1>9 DEF Processes

\* The steps of the relays and the tasks keep the task invariant.
LEMMA ProcessesTasks ==
  ASSUME SideTyped, Tasks, Processes
  PROVE  Tasks'
<1>0. chan \in [Relay -> Seq(Message)]
  BY DEF SideTyped
<1>1. PICK r \in Relay : ProcessStep(r)
  BY ProcessSteps
<1>2. ASSUME NEW q \in Relay \ {r}
      PROVE  TaskOk(q)'
  <2>1. /\ TaskOk(q) /\ relay'[q] = relay[q] /\ chan'[q] = chan[q] /\ task'[q] = task[q]
        /\ running' = running /\ phase' = phase
    BY <1>1 DEF Tasks, ProcessStep
  <2>2. Alive(q)' => Alive(q)
    BY <2>1 DEF Alive
  <2> QED BY <2>1, <2>2, TaskSame
<1>3. TaskOk(r)'
  <2>1. TaskOk(r) /\ running' = running /\ phase' = phase
    BY <1>1 DEF Tasks, ProcessStep
  <2>2. relay'[r].up = "none" => chan'[r] = << >>
    BY <1>1, <2>1 DEF ProcessStep, TaskOk
  <2>3. ASSUME Alive(r)'
        PROVE  NoDead(chan'[r])
    <3>1. NoDead(chan[r]) /\ chan[r] \in Seq(Message)
      BY <1>0, <1>1, <2>1, <2>3 DEF ProcessStep, TaskOk
    <3>2. chan'[r] = chan[r] \/ \E m \in Message : m.kind # "dead" /\ chan'[r] = Append(chan[r], m)
      BY <1>1, <2>3 DEF ProcessStep
    <3> QED BY <3>1, <3>2, NoDeadMessages, Zenon
  <2> QED BY <1>1, <2>1, <2>2, <2>3 DEF ProcessStep, TaskOk
<1> QED BY <1>2, <1>3 DEF Tasks

\* Every step of the engine keeps the task invariant: a live task has an entry
\* that names its job and is not taken for dead.
LEMMA StepTasks ==
  ASSUME JobsInv, BookTyped, SideTyped, Tasks, [Next]_vars
  PROVE  SideTyped' /\ Tasks'
<1>1. CASE Next
  BY <1>1, EngineTyped, ProcessesTyped, EngineTasks, ProcessesTasks DEF Next
<1>2. CASE UNCHANGED vars
  <2>1. UNCHANGED <<held, relay, task, chan, running, phase>>
    BY <1>2 DEF vars, book, side
  <2>2. ASSUME NEW r \in Relay
        PROVE  TaskOk(r)'
    <3>1. TaskOk(r) /\ (Alive(r)' => Alive(r))
      BY <2>1 DEF Tasks, Alive
    <3> QED BY <2>1, <3>1, TaskSame
  <2> QED BY <2>1, <2>2 DEF SideTyped, Tasks
<1> QED BY <1>1, <1>2

\* While the Engine is down no task is started.
LEMMA DownStep ==
  ASSUME SideTyped, BookTyped, JobsInv, [Next]_vars, phase' = "down", NEW r \in Relay, Alive(r)'
  PROVE  Alive(r) /\ task'[r].job = task[r].job
<1>1. ASSUME task' = task PROVE Alive(r) /\ task'[r].job = task[r].job
  BY <1>1 DEF Alive
<1>2. CASE UNCHANGED vars
  BY <1>1, <1>2 DEF vars, side
<1>3. CASE Processes
  <2>1. PICK q \in Relay : ProcessStep(q)
    BY <1>3, ProcessSteps
  <2>2. CASE q = r
    BY <2>1, <2>2 DEF ProcessStep
  <2>3. CASE q # r
    BY <2>1, <2>3 DEF ProcessStep, Alive
  <2> QED BY <2>2, <2>3
<1>4. ASSUME NEW reason, NEW js, Exit(reason, js) PROVE task' = task
  BY <1>4 DEF Exit
<1>5. ASSUME phase \in Mode, CompleteDrains(phase, drainer) PROVE FALSE
  BY <1>5, CompleteDrainsUp DEF Mode
<1>6. CASE Commands
  <2>1. ASSUME NEW j \in Job, Cancel(j) PROVE task' = task
    BY <1>4, <2>1 DEF Cancel, side
  <2>2. ASSUME \/ \E j \in Job, dur \in Durability, due \in BOOLEAN : Insert(j, dur, due)
               \/ \E j \in Job : Retry(j)
               \/ Pause \/ Drain \/ DrainDeadline
        PROVE  task' = task
    BY <2>2, Zenon DEF Insert, Retry, Pause, Drain, DrainDeadline, side
  <2> QED BY <1>1, <1>6, <2>1, <2>2 DEF Commands
<1>7. CASE Controls
  <2>1. ASSUME NEW R, ControlOnly(R) \/ \E D \in SUBSET Job : ControlScheduler(R, D)
        PROVE  FALSE
    BY <2>1, Zenon DEF ControlOnly, ControlScheduler, Mode
  <2>2. ASSUME NEW j, NEW q, NEW R, ClaimLocal(j, q, R) \/ ClaimAbandoned(j, q, R)
        PROVE  FALSE
    BY <2>2, Zenon DEF ClaimLocal, ClaimAbandoned, Claimable
  <2>3. ASSUME NEW R, ReleaseFails(R) PROVE task' = task
    BY <1>4, <2>3 DEF ReleaseFails
  <2> QED BY <1>1, <1>7, <2>1, <2>2, <2>3 DEF Controls
<1>8. CASE RelayMessages
  <2>1. ASSUME NEW q \in Relay, StaleMsg(q) \/ OutcomeMsg(q) \/ DownMsg(q)
        PROVE  task' = task
    BY <1>4, <2>1 DEF StaleMsg, OutcomeMsg, DownMsg
  <2>2. ASSUME NEW q \in Relay, DeadMsg(q)
        PROVE  task' = task
    BY <1>4, <1>5, <2>2 DEF DeadMsg
  <2> QED BY <1>1, <1>8, <2>1, <2>2 DEF RelayMessages
<1>9. CASE Generations
  <2>1. ASSUME NEW j, Reconcile(j) PROVE task' = task
    BY <1>4, <2>1 DEF Reconcile, side
  <2>2. ASSUME BecomeReady \/ Crash PROVE task' = task
    BY <1>4, <2>2 DEF BecomeReady, Crash, side
  <2>3. ASSUME Recover PROVE FALSE
    BY <2>3 DEF Recover
  <2> QED BY <1>1, <1>9, <2>1, <2>2, <2>3 DEF Generations
<1> QED BY <1>2, <1>3, <1>6, <1>7, <1>8, <1>9 DEF Next

\* Every step keeps two live tasks of one job apart: a retry is claimed only
\* after the earlier task is gone.
LEMMA StepNoOverlap ==
  ASSUME JobsInv, BookTyped, SideTyped, NoOverlap, [Next]_vars, Books', Tasks'
  PROVE  NoOverlap'
<1> SUFFICES ASSUME NEW r1 \in Relay, NEW r2 \in Relay, Alive(r1)', Alive(r2)',
                    task'[r1].job = task'[r2].job
             PROVE  r1 = r2
  BY DEF NoOverlap
<1>1. CASE phase' = "down"
  <2>1. Alive(r1) /\ Alive(r2) /\ task'[r1].job = task[r1].job /\ task'[r2].job = task[r2].job
    BY <1>1, DownStep
  <2> QED BY <2>1, Zenon DEF NoOverlap
<1>2. CASE phase' # "down"
  <2>1. /\ running'[r1].job = task'[r1].job /\ running'[r1].job # None
        /\ running'[r2].job = task'[r2].job /\ running'[r2].job # None
    BY <1>2 DEF Tasks, TaskOk
  <2>2. executions'[running'[r1].job] = r1 /\ executions'[running'[r2].job] = r2
    BY <2>1 DEF Books
  <2> QED BY <2>1, <2>2
<1> QED BY <1>1, <1>2

\* Who executes what, at every moment of every generation.
Ownership == JobsInv /\ BookTyped /\ SideTyped /\ Books /\ Owned /\ Tasks /\ NoOverlap

\* The invariant holds when the engine starts on its journal.
LEMMA InitOwnership == Init => Ownership
<1> SUFFICES ASSUME Init PROVE Ownership
  OBVIOUS
<1>1. JobsInv /\ BookTyped
  BY InitJobs
<1>2. SideTyped
  BY StatesTyped DEF Init, SideTyped
<1>3. \A r \in Relay : running[r].job = None /\ ~Alive(r) /\ chan[r] = << >>
  BY DEF Init, NoEntry, NewEntry, NoTask, Alive
<1>4. \A j \in Job : executions[j] = None /\ jobs[j].state # "executing" /\ held = {}
  BY DEF Init, Absent
<1>5. Books
  BY <1>3, <1>4 DEF Books
<1>6. Owned
  BY <1>4 DEF Owned
<1>7. Tasks
  BY <1>3 DEF Tasks, TaskOk
<1> QED BY <1>1, <1>2, <1>3, <1>5, <1>6, <1>7 DEF Ownership, NoOverlap

\* Every step of the engine keeps the invariant.
LEMMA StepOwnership ==
  ASSUME Ownership, [Next]_vars
  PROVE  Ownership'
<1>1. JobsInv /\ BookTyped /\ SideTyped /\ Books /\ Owned /\ Tasks /\ NoOverlap
  BY DEF Ownership
<1>2. JobsInv' /\ BookTyped'
  BY <1>1, StepMoves DEF JobsKept
<1>3. Books' /\ Owned'
  BY <1>1, StepOwned
<1>4. SideTyped' /\ Tasks'
  BY <1>1, StepTasks
<1>5. NoOverlap'
  BY <1>1, <1>3, <1>4, StepNoOverlap
<1> QED BY <1>2, <1>3, <1>4, <1>5 DEF Ownership

---------------------------------------------------------------------------
(* Slots.  What a step does to the slots it does to the entries. *)

SlotStep ==
  \/ slots' = slots /\ Entries(running') = Entries(running)
  \/ slots' = 0 /\ Entries(running') = {}
  \/ /\ slots < QueueLimit /\ slots' = slots + 1
     /\ \E r \in Relay \ Entries(running) : Entries(running') = Entries(running) \cup {r}
  \/ /\ slots' = slots - 1
     /\ \E r \in Entries(running) : Entries(running') = Entries(running) \ {r}

\* The entry of r is given back with its slot, or kept.
LEMMA SlotFinish ==
  ASSUME BookTyped, NEW r \in Relay, running[r].job # None, NEW run \in [Relay -> Entry],
         \A q \in Relay \ {r} : run[q] = running[q], run[r].job = running[r].job,
         FinishRuntime(r, run)
  PROVE  SlotStep
<1>1. Entries(run) = Entries(running) /\ r \in Entries(running)
  BY DEF Entries
<1>2. CASE run[r].settled /\ run[r].dead
  <2>1. running' = [run EXCEPT ![r] = NoEntry] /\ slots' = slots - 1
    BY <1>2 DEF FinishRuntime
  <2>2. NoEntry.job = None
    BY DEF NoEntry, NewEntry
  <2>3. Entries(running') = Entries(running) \ {r}
    BY <1>1, <2>1, <2>2 DEF Entries
  <2> QED BY <1>1, <2>1, <2>3, Zenon DEF SlotStep
<1>3. CASE ~(run[r].settled /\ run[r].dead)
  BY <1>1, <1>3 DEF FinishRuntime, SlotStep
<1> QED BY <1>2, <1>3

\* What each step of the engine does to the slot counter and the running table
\* (execution.ex: the claim adds one of each, finish_runtime removes one).
LEMMA StepSlots ==
  ASSUME JobsInv, BookTyped, Books, [Next]_vars
  PROVE  SlotStep
<1>0. /\ jobs \in [Job -> JobRecord] /\ running \in [Relay -> Entry]
      /\ executions \in [Job -> Relay \cup {None}]
  BY DEF JobsInv, BookTyped
<1>1. ASSUME UNCHANGED <<running, slots>>
      PROVE  SlotStep
  BY <1>1 DEF SlotStep
<1>2. ASSUME NEW reason, NEW js, Exit(reason, js)
      PROVE  SlotStep
  <2>1. slots' = 0 /\ \A r \in Relay : running'[r].job = None
    BY <1>2 DEF Exit, NoEntry, NewEntry
  <2> QED BY <2>1 DEF SlotStep, Entries
<1>3. ASSUME NEW r \in Relay, running[r].job # None,
             \/ FinishRuntime(r, [running EXCEPT ![r].settled = TRUE])
             \/ FinishRuntime(r, [running EXCEPT ![r].dead = TRUE])
      PROVE  SlotStep
  <2>1. CASE FinishRuntime(r, [running EXCEPT ![r].settled = TRUE])
    <3> DEFINE run == [running EXCEPT ![r].settled = TRUE]
    <3>1. run \in [Relay -> Entry]
      BY <1>0, EntriesTyped, Zenon
    <3>2. (\A q \in Relay \ {r} : run[q] = running[q]) /\ run[r].job = running[r].job
      BY <1>0, MarkedSame
    <3>3. FinishRuntime(r, run)
      BY <2>1
    <3> HIDE DEF run
    <3> QED BY <1>3, <3>1, <3>2, <3>3, SlotFinish
  <2>2. CASE FinishRuntime(r, [running EXCEPT ![r].dead = TRUE])
    <3> DEFINE run == [running EXCEPT ![r].dead = TRUE]
    <3>1. run \in [Relay -> Entry]
      BY <1>0, EntriesTyped, Zenon
    <3>2. (\A q \in Relay \ {r} : run[q] = running[q]) /\ run[r].job = running[r].job
      BY <1>0, MarkedSame
    <3>3. FinishRuntime(r, run)
      BY <2>2
    <3> HIDE DEF run
    <3> QED BY <1>3, <3>1, <3>2, <3>3, SlotFinish
  <2> QED BY <1>3, <2>1, <2>2
<1>4. ASSUME NEW r \in Relay, Fresh(r), NEW j \in Job, Claimable(j), slots' = slots + 1,
             running'[r].job = j, \A q \in Relay \ {r} : running'[q].job = running[q].job
      PROVE  SlotStep
  <2>1. r \notin Entries(running) /\ j # None /\ slots < QueueLimit
    BY <1>4, EngineAssumption DEF Fresh, Entries, Claimable
  <2>2. Entries(running') = Entries(running) \cup {r}
    BY <1>4, <2>1 DEF Entries
  <2> QED BY <1>4, <2>1, <2>2 DEF SlotStep
<1>5. CASE Commands
  <2>1. ASSUME NEW j \in Job, Cancel(j)
        PROVE  SlotStep
    <3> DEFINE r == executions[j]
    <3>1. \/ UNCHANGED <<running, slots>>
          \/ r # None /\ FinishRuntime(r, [running EXCEPT ![r].settled = TRUE])
          \/ \E reason, js : Exit(reason, js)
      BY <2>1 DEF Cancel, book
    <3>2. r # None => r \in Relay /\ running[r].job # None
      BY <1>0, EngineAssumption DEF Books
    <3> HIDE DEF r
    <3> QED BY <1>1, <1>2, <1>3, <3>1, <3>2, Zenon
  <2>2. ASSUME \/ \E j \in Job, dur \in Durability, due \in BOOLEAN : Insert(j, dur, due)
               \/ \E j \in Job : Retry(j)
               \/ Pause \/ Drain \/ DrainDeadline
        PROVE  UNCHANGED <<running, slots>>
    BY <2>2 DEF Insert, Retry, Pause, Drain, DrainDeadline, book
  <2> QED BY <1>1, <1>5, <2>1, <2>2 DEF Commands
<1>6. CASE Controls
  <2>1. ASSUME NEW R, ControlOnly(R) \/ \E D \in SUBSET Job : ControlScheduler(R, D)
        PROVE  SlotStep
    <3>1. running' = Released(running, R) /\ slots' = slots
      BY <2>1, Zenon DEF ControlOnly, ControlScheduler
    <3>2. \A r \in Relay : running'[r].job = running[r].job
      BY <1>0, <3>1, ReleasedSame
    <3> QED BY <3>1, <3>2 DEF SlotStep, Entries
  <2>2. ASSUME NEW j \in Job, NEW r \in Relay, NEW R, ClaimLocal(j, r, R)
        PROVE  SlotStep
    <3> DEFINE c == Started(jobs[j])
               e == NewEntry(j, c.exec, FALSE)
               run == [running EXCEPT ![r] = e]
    <3>1. /\ Claimable(j) /\ Fresh(r) /\ running' = Released(run, R) /\ slots' = slots + 1
      BY <2>2 DEF ClaimLocal
    <3>2. c.exec \in Nat
      <4>1. c \in JobRecord
        BY <1>0, StartedFacts
      <4> QED BY <4>1 DEF JobRecord
    <3> HIDE DEF c
    <3>3. run \in [Relay -> Entry] /\ e.job = j
      BY <1>0, <3>2, ClaimTyped, Zenon DEF NewEntry
    <3> HIDE DEF e
    <3>4. run[r] = e /\ \A q \in Relay \ {r} : run[q] = running[q]
      BY <1>0
    <3> HIDE DEF run
    <3>5. \A q \in Relay : running'[q].job = run[q].job
      BY <3>1, <3>3, ReleasedSame
    <3> QED BY <1>4, <3>1, <3>3, <3>4, <3>5
  <2>3. ASSUME NEW j \in Job, NEW r \in Relay, NEW R, ClaimAbandoned(j, r, R)
        PROVE  SlotStep
    <3> DEFINE e == NewEntry(j, 0, TRUE)
               run == Released(running, R)
    <3>1. /\ Claimable(j) /\ Fresh(r) /\ running' = [run EXCEPT ![r] = e] /\ slots' = slots + 1
      BY <2>3 DEF ClaimAbandoned
    <3>2. e.job = j /\ run \in [Relay -> Entry]
      BY <1>0, ReleasedTyped DEF NewEntry
    <3>3. \A q \in Relay : run[q].job = running[q].job
      BY <1>0, ReleasedSame
    <3> HIDE DEF e, run
    <3>4. running'[r] = e /\ \A q \in Relay \ {r} : running'[q] = run[q]
      BY <3>1, <3>2
    <3> QED BY <1>4, <3>1, <3>2, <3>3, <3>4
  <2>4. ASSUME NEW R, ReleaseFails(R)
        PROVE  SlotStep
    BY <1>2, <2>4 DEF ReleaseFails
  <2> QED BY <1>6, <2>1, <2>2, <2>3, <2>4 DEF Controls
<1>7. CASE RelayMessages
  <2>1. ASSUME NEW r \in Relay, OutcomeMsg(r)
        PROVE  SlotStep
    <3>1. \/ running[r].job # None /\ FinishRuntime(r, [running EXCEPT ![r].settled = TRUE])
          \/ \E reason, js : Exit(reason, js)
      BY <2>1 DEF OutcomeMsg, Accepts
    <3> QED BY <1>2, <1>3, <3>1, Zenon
  <2>2. ASSUME NEW r \in Relay, DeadMsg(r)
        PROVE  SlotStep
    <3>1. \/ running[r].job # None /\ FinishRuntime(r, [running EXCEPT ![r].dead = TRUE])
          \/ \E reason, js : Exit(reason, js)
      BY <2>2 DEF DeadMsg, Accepts
    <3> QED BY <1>2, <1>3, <3>1, Zenon
  <2>3. ASSUME NEW r \in Relay, StaleMsg(r) \/ DownMsg(r)
        PROVE  SlotStep
    <3>1. UNCHANGED <<running, slots>> \/ \E reason, js : Exit(reason, js)
      BY <2>3 DEF StaleMsg, DownMsg, book
    <3> QED BY <1>1, <1>2, <3>1
  <2> QED BY <1>7, <2>1, <2>2, <2>3 DEF RelayMessages
<1>8. CASE Processes \/ UNCHANGED vars
  <2>1. UNCHANGED <<running, slots>>
    BY <1>8, Zenon DEF Processes, TaskReturns, TaskDies, RelayTimeout, RelayCrash, RelayResult,
                RelayTaskDown, engineSide, book, vars
  <2> QED BY <1>1, <2>1
<1>9. CASE Generations
  <2>1. UNCHANGED <<running, slots>> \/ \E reason, js : Exit(reason, js)
    BY <1>9 DEF Generations, Crash, Recover, Reconcile, BecomeReady, book
  <2> QED BY <1>1, <1>2, <2>1
<1> QED BY <1>5, <1>6, <1>7, <1>8, <1>9 DEF Next

=============================================================================

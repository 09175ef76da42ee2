------------------------------- MODULE Engine -------------------------------
(***************************************************************************)
(* The Engine generation and its local execution: the sole owner of the job *)
(* projection (lib/tay/engine.ex, engine/execution.ex, engine/commands.ex,  *)
(* engine/persistence.ex), one relay process per local task                 *)
(* (execution/relay.ex, execution/executor.ex), drain, the death of a       *)
(* generation at any moment, and the recovery of the next one.              *)
(*                                                                          *)
(* One action is one message handled by one process.  A relay and the       *)
(* Engine talk through the Engine's mailbox, which is FIFO per sender:      *)
(* chan[r] is what relay r has sent and the Engine has not handled.         *)
(* GenServer calls the Engine makes to a relay are part of the Engine's     *)
(* action.  Every job is in one queue, with QueueLimit slots.  History is   *)
(* counted in records: used of Limit are written.                           *)
(***************************************************************************)
EXTENDS Jobs, Sequences, FiniteSets

CONSTANTS Job, Relay, None,
          QueueLimit,   \* config.queue_limits of the queue
          Limit,        \* records the history may hold
          MaxRev,       \* bound: mutations of a job before it stops changing
          MaxFaults     \* bound: generation and relay losses

ASSUME EngineAssumption ==
  /\ IsFiniteSet(Job) /\ IsFiniteSet(Relay)
  /\ None \notin Job /\ None \notin Relay
  /\ QueueLimit \in Nat /\ Limit \in Nat /\ MaxRev \in Nat /\ MaxFaults \in Nat

VARIABLES
  phase,        \* "down", "reconciling", or s.mode of the live Engine
  exit,         \* why the last generation ended
  jobs,         \* the projection, and for persistent jobs the log
  used,         \* records in the log
  reserve,      \* s.settlement_reserve
  preserve,     \* s.persistent_settlement_reserve
  running,      \* s.running: the entry of each relay
  executions,   \* s.executions: the relay of each job
  held,         \* s.projection.held
  slots,        \* s.slots of the queue
  paused,       \* the queue is in s.paused
  drainer,      \* a caller of drain that waits for its answer
  relay,        \* the state of each relay process
  task,         \* the task process of each relay, alive or not
  chan,         \* messages from each relay to the Engine
  returned,     \* history: the last execution of each job that returned :ok
  faults        \* losses so far

ledger == <<jobs, used, reserve, preserve>>
book == <<running, executions, held, slots>>
side == <<relay, task, chan, returned>>
vars == <<phase, exit, ledger, book, paused, drainer, side, faults>>

---------------------------------------------------------------------------
(* Types *)

Mode == {"ready", "draining", "drained"}
Reasons == {"none", "fault", "settlement_failed", "release_failed",
            "relay_lost", "relay_ended", "noproc"}

Entry == [job : Job \cup {None}, exec : Nat,
          released : BOOLEAN, settled : BOOLEAN, dead : BOOLEAN]
NewEntry(j, exec, settled) ==
  [job |-> j, exec |-> exec, released |-> FALSE, settled |-> settled, dead |-> FALSE]
NoEntry == NewEntry(None, 0, FALSE)

\* up: not started, alive, stopped in order, or crashed.  exec is the
\* execution it was released for, inbox the result its task sent it.
RelayState == [up : {"none", "up", "ended", "crashed"}, exec : Nat,
               chosen : BOOLEAN, dead : BOOLEAN, settled : BOOLEAN,
               inbox : {"none", "success", "failure"}]
NoRelay == [up |-> "none", exec |-> 0, chosen |-> FALSE, dead |-> FALSE,
            settled |-> FALSE, inbox |-> "none"]

TaskState == [st : {"none", "waiting", "released", "dead"}, job : Job \cup {None}]
NoTask == [st |-> "none", job |-> None]

Message == [kind : Outcome \cup {"dead", "down"}, exec : Nat]
Msg(k, e) == [kind |-> k, exec |-> e]

TypeOK ==
  /\ phase \in Mode \cup {"down", "reconciling"}
  /\ exit \in Reasons
  /\ jobs \in [Job -> JobRecord]
  /\ used \in Nat /\ reserve \in Nat /\ preserve \in Nat
  /\ running \in [Relay -> Entry]
  /\ executions \in [Job -> Relay \cup {None}]
  /\ held \in SUBSET Job
  /\ slots \in Nat
  /\ paused \in BOOLEAN
  /\ drainer \in {"none", "waiting"}
  /\ relay \in [Relay -> RelayState]
  /\ task \in [Relay -> TaskState]
  /\ chan \in [Relay -> Seq(Message)]
  /\ returned \in [Job -> Nat]
  /\ faults \in Nat

Entries(run) == {r \in Relay : run[r].job # None}
Executing(js) == {j \in Job : js[j].state = "executing"}
PersistentExecuting(js) == {j \in Executing(js) : js[j].dur = "persistent"}
Alive(r) == task[r].st \in {"waiting", "released"}

Init ==
  /\ phase = "ready" /\ exit = "none"
  /\ jobs = [j \in Job |-> Absent]
  /\ used = 0 /\ reserve = 0 /\ preserve = 0
  /\ running = [r \in Relay |-> NoEntry]
  /\ executions = [j \in Job |-> None]
  /\ held = {} /\ slots = 0 /\ paused = FALSE /\ drainer = "none"
  /\ relay = [r \in Relay |-> NoRelay]
  /\ task = [r \in Relay |-> NoTask]
  /\ chan = [r \in Relay |-> << >>]
  /\ returned = [j \in Job |-> 0]
  /\ faults = 0

---------------------------------------------------------------------------
(* Persistence *)

ReserveAfterKeepingCancelled(n, previous, kind) ==
  IF kind = "start" THEN n + 1
  ELSE IF kind = "finish" THEN n - 1 ELSE n

\* The settlements still owed after a mutation: one for every executing job.
ReserveAfter(n, previous, kind) ==
  IF kind = "start" THEN n + 1
  ELSE IF kind \in {"finish", "cancel"} /\ previous.state = "executing" THEN n - 1
  ELSE n

FitsIgnoringReserve(dur, owed) == dur = "persistent" => used + 1 <= Limit

\* One more record fits and leaves room for the settlements owed after it.
\* A volatile job writes no record.
Fits(dur, owed) == dur = "persistent" => used + 1 + owed <= Limit

\* Append the record if the job is persistent, then publish the projection.
Commit(j, kind, candidate) ==
  /\ jobs' = [jobs EXCEPT ![j] = candidate]
  /\ reserve' = ReserveAfter(reserve, jobs[j], kind)
  /\ IF candidate.dur = "persistent"
     THEN /\ used' = used + 1
          /\ preserve' = ReserveAfter(preserve, jobs[j], kind)
     ELSE UNCHANGED <<used, preserve>>

---------------------------------------------------------------------------
(* The end of a generation, and the next one *)

\* The Engine process is gone: with it the projection of volatile jobs, the
\* runtime books and the relays.  Tasks are killed, but die in their own time.
Exit(reason, js) ==
  /\ phase' = "down" /\ exit' = reason
  /\ jobs' = [j \in Job |-> IF js[j].dur = "volatile" THEN Absent ELSE js[j]]
  /\ reserve' = 0 /\ preserve' = 0
  /\ running' = [r \in Relay |-> NoEntry]
  /\ executions' = [j \in Job |-> None]
  /\ held' = {} /\ slots' = 0 /\ paused' = FALSE /\ drainer' = "none"
  /\ relay' = [r \in Relay |-> NoRelay]
  /\ chan' = [r \in Relay |-> << >>]
  /\ UNCHANGED <<task, returned>>

\* The generation is lost for a reason outside this module.
Crash ==
  /\ phase # "down" /\ faults < MaxFaults
  /\ faults' = faults + 1
  /\ Exit("fault", jobs)
  /\ UNCHANGED used

\* A new generation acquires the local fence, which it gets only when every
\* task of the last one is dead (LocalFence!RetiredMeansDead), replays the
\* log and counts the executing jobs: replay holds persistent jobs only.
Recover ==
  /\ phase = "down"
  /\ \A r \in Relay : ~Alive(r)
  /\ phase' = "reconciling" /\ exit' = "none"
  /\ reserve' = Cardinality(Executing(jobs))
  /\ preserve' = Cardinality(Executing(jobs))
  /\ task' = [r \in Relay |-> NoTask]
  /\ UNCHANGED <<jobs, used, book, paused, drainer, relay, chan, returned, faults>>

\* Each executing job is settled as interrupted before the Engine is ready.
Reconcile(j) ==
  /\ phase = "reconciling" /\ jobs[j].state = "executing"
  /\ IF Fits(jobs[j].dur, ReserveAfter(preserve, jobs[j], "finish"))
     THEN /\ Commit(j, "finish", Finished(jobs[j], "interrupted"))
          /\ UNCHANGED <<phase, exit, book, paused, drainer, side, faults>>
     ELSE /\ Exit("settlement_failed", jobs)
          /\ UNCHANGED <<used, faults>>

BecomeReadyUnreconciled ==
  /\ phase = "reconciling"
  /\ phase' = "ready"
  /\ UNCHANGED <<exit, ledger, book, paused, drainer, side, faults>>

BecomeReady ==
  /\ phase = "reconciling" /\ Executing(jobs) = {}
  /\ phase' = "ready"
  /\ UNCHANGED <<exit, ledger, book, paused, drainer, side, faults>>

---------------------------------------------------------------------------
(* Parts of the Engine's handlers *)

UnheldIfIndexed(j) == IF jobs[j].state \in Terminal THEN held ELSE held \ {j}

\* Projection.release
Unheld(j) == held \ {j}

\* finish_runtime: the slot and the hold go when the job is settled and its
\* task is dead, not before.
FinishRuntime(r, run) ==
  IF run[r].settled /\ run[r].dead
  THEN /\ running' = [run EXCEPT ![r] = NoEntry]
       /\ executions' = [executions EXCEPT ![run[r].job] = None]
       /\ held' = Unheld(run[r].job)
       /\ slots' = slots - 1
  ELSE running' = run /\ UNCHANGED <<executions, held, slots>>

DrainCompleteStale(mode) ==
  mode = "draining" /\ reserve' = 0 /\ Entries(running) = {}

\* complete_drains, of a state whose mode is mode.
DrainComplete(mode) ==
  mode = "draining" /\ reserve' = 0 /\ Entries(running') = {}

CompleteDrains(mode, caller) ==
  /\ phase' = IF DrainComplete(mode) THEN "drained" ELSE mode
  /\ drainer' = IF DrainComplete(mode) THEN "none" ELSE caller

\* Relay.settled and Relay.terminate_task, for a relay that is alive: kill
\* the task, choose no further outcome, and stop if the task is known dead.
\* What the Engine has not read of the relay's messages is m.
Fence(r, m) ==
  /\ relay' = [relay EXCEPT ![r].settled = TRUE, ![r].chosen = TRUE,
                            ![r].up = IF relay[r].dead THEN "ended" ELSE "up"]
  /\ chan' = [chan EXCEPT ![r] = IF relay[r].dead THEN Append(m, Msg("down", 0)) ELSE m]

\* Started entries whose task still waits for its release.
Pending(run) ==
  {r \in Entries(run) : run[r].exec # 0 /\ ~run[r].released /\ ~run[r].settled}

\* release_pending for the entries R that the wall clock finds due; rel and
\* tsk are the relays and tasks it acts on.
Released(run, R) ==
  [r \in Relay |-> IF r \in R THEN [run[r] EXCEPT !.released = TRUE] ELSE run[r]]
ReleaseTasks(run, R, rel, tsk) ==
  /\ relay' = [r \in Relay |-> IF r \in R THEN [rel[r] EXCEPT !.exec = run[r].exec]
                               ELSE rel[r]]
  /\ task' = [r \in Relay |-> IF r \in R /\ tsk[r].st = "waiting"
                              THEN [tsk[r] EXCEPT !.st = "released"] ELSE tsk[r]]

\* Relay.release refuses when the relay has seen its task die.
Releasable(R) == \A r \in R : ~relay[r].dead /\ relay[r].up = "up"

---------------------------------------------------------------------------
(* Commands *)

Insert(j, dur, due) ==
  /\ phase = "ready" /\ jobs[j].state = "absent"
  /\ Fits(dur, preserve)
  /\ Commit(j, "insert", Inserted(dur, due))
  /\ returned' = [returned EXCEPT ![j] = 0]
  /\ UNCHANGED <<phase, exit, book, paused, drainer, relay, task, chan, faults>>

\* The cancellation is committed first; then cancel_task calls the relay that
\* the job's execution still names.  The call fails when the relay is gone.
Cancel(j) ==
  LET r == executions[j] IN
  /\ phase \in Mode /\ CanCancel(jobs[j])
  /\ Fits(jobs[j].dur, ReserveAfter(preserve, jobs[j], "cancel"))
  /\ \/ /\ r = None
        /\ Commit(j, "cancel", Cancelled(jobs[j]))
        /\ UNCHANGED <<book, side>>
        /\ CompleteDrains(phase, drainer)
        /\ UNCHANGED <<exit, paused, faults>>
     \/ /\ r # None /\ relay[r].up = "up"
        /\ Commit(j, "cancel", Cancelled(jobs[j]))
        /\ Fence(r, chan[r])
        /\ FinishRuntime(r, [running EXCEPT ![r].settled = TRUE])
        /\ CompleteDrains(phase, drainer)
        /\ UNCHANGED <<exit, paused, task, returned, faults>>
     \/ /\ r # None /\ relay[r].up # "up"
        /\ Exit(IF relay[r].up = "ended" THEN "noproc" ELSE "relay_lost",
                [jobs EXCEPT ![j] = Cancelled(jobs[j])])
        /\ used' = used + (IF jobs[j].dur = "persistent" THEN 1 ELSE 0)
        /\ UNCHANGED faults

\* Expedites a retryable job, or starts a new cycle of a discarded one.
Retry(j) ==
  /\ phase \in Mode /\ CanRetry(jobs[j]) /\ jobs[j].rev < MaxRev
  /\ Fits(jobs[j].dur, preserve)
  /\ Commit(j, "retry", Retried(jobs[j]))
  /\ UNCHANGED book
  /\ CompleteDrains(phase, drainer)
  /\ UNCHANGED <<exit, paused, side, faults>>

Pause ==
  /\ phase \in Mode
  /\ paused' = ~paused
  /\ UNCHANGED <<ledger, book>>
  /\ CompleteDrains(phase, drainer)
  /\ UNCHANGED <<exit, side, faults>>

\* drain closes admission, and answers when nothing is owed and nothing runs.
Drain ==
  /\ phase \in Mode /\ drainer # "waiting"
  /\ UNCHANGED <<ledger, book>>
  /\ CompleteDrains("draining", "waiting")
  /\ UNCHANGED <<exit, paused, side, faults>>

\* The caller's deadline answers {:error, :timeout}; the mode stays.
DrainDeadline ==
  /\ phase \in Mode /\ drainer = "waiting"
  /\ drainer' = "none"
  /\ UNCHANGED <<phase, exit, ledger, book, paused, side, faults>>

---------------------------------------------------------------------------
(* Controls: the scheduler, and the queue *)

\* Every control message first retries the releases the clock held back.
ControlOnly(R) ==
  /\ phase \in Mode /\ R # {} /\ Releasable(R)
  /\ running' = Released(running, R)
  /\ ReleaseTasks(running, R, relay, task)
  /\ UNCHANGED <<phase, exit, ledger, executions, held, slots, paused, drainer,
                 chan, returned, faults>>

ReleaseFails(R) ==
  /\ phase \in Mode /\ R # {} /\ ~Releasable(R)
  /\ Exit("release_failed", jobs)
  /\ UNCHANGED <<used, faults>>

\* The jobs D of one batch become available, each by a commit of its own.
ControlScheduler(R, D) ==
  LET records == Cardinality({j \in D : jobs[j].dur = "persistent"}) IN
  /\ phase = "ready" /\ D # {} /\ Releasable(R)
  /\ \A j \in D : CanMakeAvailable(jobs[j]) /\ jobs[j].rev < MaxRev
  /\ records # 0 => used + records + preserve <= Limit
  /\ jobs' = [j \in Job |-> IF j \in D THEN MadeAvailable(jobs[j]) ELSE jobs[j]]
  /\ used' = used + records
  /\ running' = Released(running, R)
  /\ ReleaseTasks(running, R, relay, task)
  /\ UNCHANGED <<phase, exit, reserve, preserve, executions, held, slots, paused,
                 drainer, chan, returned, faults>>

ClaimableIgnoringHold(j) ==
  /\ phase = "ready" /\ ~paused /\ slots < QueueLimit
  /\ CanStart(jobs[j]) /\ jobs[j].rev < MaxRev
  /\ Fits(jobs[j].dur, preserve + 1)

\* The queue has a slot, the job is ready and not held by an earlier task,
\* and its start leaves room for its own settlement.
Claimable(j) ==
  /\ phase = "ready" /\ ~paused /\ slots < QueueLimit
  /\ CanStart(jobs[j]) /\ jobs[j].rev < MaxRev /\ j \notin held
  /\ Fits(jobs[j].dur, preserve + 1)

\* A relay is a new process each time: a name in use stands for no other.
Fresh(r) == relay[r].up = "none" /\ running[r].job = None

\* start_waiting: the waiting task and its entry come first, then the durable
\* start, then the release of whatever the clock finds due.
ClaimLocal(j, r, R) ==
  LET started == Started(jobs[j])
      run == [running EXCEPT ![r] = NewEntry(j, started.exec, FALSE)]
  IN
  /\ Claimable(j) /\ Fresh(r)
  /\ R \subseteq Pending(run) /\ Releasable(R \ {r})
  /\ Commit(j, "start", started)
  /\ running' = Released(run, R)
  /\ executions' = [executions EXCEPT ![j] = r]
  /\ held' = held \cup {j} /\ slots' = slots + 1
  /\ ReleaseTasks(run, R, [relay EXCEPT ![r] = [NoRelay EXCEPT !.up = "up"]],
                  [task EXCEPT ![r] = [st |-> "waiting", job |-> j]])
  /\ UNCHANGED <<phase, exit, paused, drainer, chan, returned, faults>>

\* start_waiting when the task has died or the clock has stepped back before
\* the start: the task is fenced and the job stays available, but held.
ClaimAbandoned(j, r, R) ==
  /\ Claimable(j) /\ Fresh(r)
  /\ Releasable(R)
  /\ running' = [Released(running, R) EXCEPT ![r] = NewEntry(j, 0, TRUE)]
  /\ executions' = [executions EXCEPT ![j] = r]
  /\ held' = held \cup {j} /\ slots' = slots + 1
  /\ ReleaseTasks(running, R,
       [relay EXCEPT ![r] = [NoRelay EXCEPT !.up = "up", !.settled = TRUE, !.chosen = TRUE]],
       [task EXCEPT ![r] = [st |-> "waiting", job |-> j]])
  /\ UNCHANGED <<phase, exit, ledger, paused, drainer, chan, returned, faults>>

---------------------------------------------------------------------------
(* Messages from a relay *)

Accepts(r, m) ==
  /\ running[r].job # None
  /\ \/ m.exec = running[r].exec
     \/ m.exec = 0 /\ ~running[r].released

\* The outcome is current: not fenced, released, and of this very start.
Current(r) ==
  LET e == running[r]  job == jobs[running[r].job] IN
  ~e.settled /\ e.released /\ CanFinish(job, e.exec) /\ job.rev = e.exec

\* A message of another execution than the entry's, and an outcome that is no
\* longer current, change nothing.
StaleMsg(r) ==
  LET m == Head(chan[r]) IN
  /\ phase \in Mode /\ chan[r] # << >>
  /\ IF m.kind = "down" THEN running[r].job = None
     ELSE ~(Accepts(r, m) /\ (m.kind \in Outcome => Current(r)))
  /\ chan' = [chan EXCEPT ![r] = Tail(@)]
  /\ UNCHANGED <<ledger, book>>
  /\ IF m.kind # "down" /\ Accepts(r, m) THEN CompleteDrains(phase, drainer)
     ELSE UNCHANGED <<phase, drainer>>
  /\ UNCHANGED <<exit, paused, relay, task, returned, faults>>

\* The settlement is committed before the relay is told.
OutcomeMsg(r) ==
  LET m == Head(chan[r])  j == running[r].job IN
  /\ phase \in Mode /\ chan[r] # << >> /\ m.kind \in Outcome
  /\ Accepts(r, m) /\ Current(r)
  /\ IF ~Fits(jobs[j].dur, ReserveAfter(preserve, jobs[j], "finish"))
     THEN /\ Exit("settlement_failed", jobs)
          /\ UNCHANGED <<used, faults>>
     ELSE IF relay[r].up = "up"
     THEN /\ Commit(j, "finish", Finished(jobs[j], m.kind))
          /\ Fence(r, Tail(chan[r]))
          /\ FinishRuntime(r, [running EXCEPT ![r].settled = TRUE])
          /\ CompleteDrains(phase, drainer)
          /\ UNCHANGED <<exit, paused, task, returned, faults>>
     ELSE /\ Exit("relay_lost", [jobs EXCEPT ![j] = Finished(jobs[j], m.kind)])
          /\ used' = used + (IF jobs[j].dur = "persistent" THEN 1 ELSE 0)
          /\ UNCHANGED faults

\* finish_runtime flushes the relay's monitor; the task and, in order, the
\* relay are gone, and the next task gets processes of its own.
Forget(r) ==
  /\ chan' = [chan EXCEPT ![r] = << >>]
  /\ relay' = [relay EXCEPT ![r] = NoRelay]
  /\ task' = [task EXCEPT ![r] = NoTask]

\* The task is dead.  A started job that was never released cannot run.
DeadMsg(r) ==
  LET m == Head(chan[r])  e == running[r] IN
  /\ phase \in Mode /\ chan[r] # << >> /\ m.kind = "dead" /\ Accepts(r, m)
  /\ \/ /\ e.exec # 0 /\ ~e.released /\ ~e.settled
        /\ Exit("release_failed", jobs)
        /\ UNCHANGED <<used, faults>>
     \/ /\ ~(e.exec # 0 /\ ~e.released /\ ~e.settled)
        /\ FinishRuntime(r, [running EXCEPT ![r].dead = TRUE])
        /\ IF e.settled THEN Forget(r)
           ELSE /\ chan' = [chan EXCEPT ![r] = Tail(@)]
                /\ UNCHANGED <<relay, task>>
        /\ UNCHANGED ledger
        /\ CompleteDrains(phase, drainer)
        /\ UNCHANGED <<exit, paused, returned, faults>>

\* The monitor of a relay the Engine still has an entry for: the Engine stops.
DownMsg(r) ==
  /\ phase \in Mode /\ chan[r] # << >> /\ Head(chan[r]).kind = "down"
  /\ running[r].job # None
  /\ Exit(IF relay[r].up = "ended" THEN "relay_ended" ELSE "relay_lost", jobs)
  /\ UNCHANGED <<used, faults>>

---------------------------------------------------------------------------
(* Relays and tasks *)

engineSide == <<phase, exit, ledger, book, paused, drainer>>

\* The callback ends: its result is sent to the relay, then the task exits.
TaskReturns(r, result) ==
  /\ task[r].st = "released"
  /\ task' = [task EXCEPT ![r].st = "dead"]
  /\ relay' = IF relay[r].up = "up" THEN [relay EXCEPT ![r].inbox = result] ELSE relay
  /\ returned' = IF result = "success" /\ relay[r].up = "up"
                 THEN [returned EXCEPT ![task[r].job] = relay[r].exec] ELSE returned
  /\ UNCHANGED <<engineSide, chan, faults>>

\* The task is killed, or dies without a result.
TaskDies(r) ==
  /\ Alive(r)
  /\ task' = [task EXCEPT ![r].st = "dead"]
  /\ UNCHANGED <<engineSide, relay, chan, returned, faults>>

Choose(r, outcome) ==
  /\ relay' = [relay EXCEPT ![r].chosen = TRUE, ![r].inbox = "none"]
  /\ chan' = [chan EXCEPT ![r] = Append(@, Msg(outcome, relay[r].exec))]

\* The first result or timeout is chosen; a result past the deadline is one.
RelayResult(r, expired) ==
  /\ relay[r].up = "up" /\ relay[r].inbox # "none"
  /\ IF relay[r].chosen
     THEN relay' = [relay EXCEPT ![r].inbox = "none"] /\ UNCHANGED chan
     ELSE Choose(r, IF expired THEN "timeout" ELSE relay[r].inbox)
  /\ UNCHANGED <<engineSide, task, returned, faults>>

RelayTimeout(r) ==
  /\ relay[r].up = "up" /\ relay[r].exec # 0 /\ ~relay[r].chosen
  /\ relay' = [relay EXCEPT ![r].chosen = TRUE]
  /\ chan' = [chan EXCEPT ![r] = Append(@, Msg("timeout", relay[r].exec))]
  /\ UNCHANGED <<engineSide, task, returned, faults>>

\* An outcome if none was chosen, then the death; and the relay's own end if
\* the Engine has fenced it.
DeathReport(r, observed) ==
  LET e == relay[r].exec
      outcome == IF e # 0 /\ ~relay[r].chosen THEN <<Msg(observed, e)>> ELSE << >>
      down == IF relay[r].settled THEN <<Msg("down", 0)>> ELSE << >>
  IN  outcome \o <<Msg("dead", e)>> \o down

\* The relay sees its task's DOWN, after any result.
RelayTaskDown(r, expired) ==
  /\ relay[r].up = "up" /\ relay[r].inbox = "none" /\ ~relay[r].dead
  /\ task[r].st = "dead"
  /\ relay' = [relay EXCEPT ![r].dead = TRUE,
                            ![r].chosen = @ \/ relay[r].exec # 0,
                            ![r].up = IF relay[r].settled THEN "ended" ELSE "up"]
  /\ chan' = [chan EXCEPT ![r] = @ \o DeathReport(r, IF expired THEN "timeout"
                                                     ELSE "failure")]
  /\ UNCHANGED <<engineSide, task, returned, faults>>

\* The relay process is lost; its task is killed with it.
RelayCrash(r) ==
  /\ relay[r].up = "up" /\ faults < MaxFaults
  /\ faults' = faults + 1
  /\ relay' = [relay EXCEPT ![r].up = "crashed"]
  /\ chan' = [chan EXCEPT ![r] = Append(@, Msg("down", 0))]
  /\ UNCHANGED <<engineSide, task, returned>>

---------------------------------------------------------------------------
Commands ==
  \/ \E j \in Job : \/ \E dur \in Durability, due \in BOOLEAN : Insert(j, dur, due)
                    \/ Cancel(j) \/ Retry(j)
  \/ Pause \/ Drain \/ DrainDeadline

Controls ==
  \/ \E R \in SUBSET Pending(running) :
       \/ ControlOnly(R) \/ ReleaseFails(R)
       \/ \E D \in SUBSET Job : ControlScheduler(R, D)
  \/ \E j \in Job, r \in Relay :
       \/ \E R \in SUBSET (Pending(running) \cup {r}) : ClaimLocal(j, r, R)
       \/ \E R \in SUBSET Pending(running) : ClaimAbandoned(j, r, R)

RelayMessages == \E r \in Relay : StaleMsg(r) \/ OutcomeMsg(r) \/ DeadMsg(r) \/ DownMsg(r)

Processes ==
  \E r \in Relay : \/ \E result \in {"success", "failure"} : TaskReturns(r, result)
                   \/ TaskDies(r) \/ RelayTimeout(r) \/ RelayCrash(r)
                   \/ \E expired \in BOOLEAN : RelayResult(r, expired)
                                               \/ RelayTaskDown(r, expired)

Generations == Crash \/ Recover \/ BecomeReady \/ \E j \in Job : Reconcile(j)

Next == Commands \/ Controls \/ RelayMessages \/ Processes \/ Generations

Spec == Init /\ [][Next]_vars

\* Beam schedules every process that has a message: relays, the Engine and the
\* guardian's restart run on; a killed task dies; a timer fires, and the poll
\* of a control finds the wall clock past the due time of a started job.
\* Nothing obliges a callback to return or a client to call.
Fairness ==
  /\ WF_vars(Recover) /\ WF_vars(BecomeReady)
  /\ WF_vars(ControlOnly(Pending(running))) /\ WF_vars(ReleaseFails(Pending(running)))
  /\ \A j \in Job : WF_vars(Reconcile(j))
  /\ \A r \in Relay :
       /\ WF_vars(StaleMsg(r)) /\ WF_vars(OutcomeMsg(r))
       /\ WF_vars(DeadMsg(r)) /\ WF_vars(DownMsg(r))
       /\ WF_vars(TaskDies(r) /\ (relay[r].settled \/ relay[r].up # "up"))
       /\ WF_vars(RelayTimeout(r))
       /\ WF_vars(\E x \in BOOLEAN : RelayResult(r, x))
       /\ WF_vars(\E x \in BOOLEAN : RelayTaskDown(r, x))

FairSpec == Spec /\ Fairness

---------------------------------------------------------------------------
(* Properties *)

\* The books agree: the two reserves count exactly the executing jobs, so the
\* number that admission is charged for is the number of settlements owed
\* (persistence.ex reservation_after, execution.ex reconcile).
ReservesExact ==
  phase # "down" =>
    /\ reserve = Cardinality(Executing(jobs))
    /\ preserve = Cardinality(PersistentExecuting(jobs))

\* No sequence of inserts, starts, retries, cancels and crashes uses up the
\* room that the settlement of an execution in progress needs, so the Engine
\* never dies because a settlement does not fit (execution.ex 222-232, 350).
SettlementNeverRefused ==
  /\ used + Cardinality(PersistentExecuting(jobs)) <= Limit
  /\ exit # "settlement_failed"

\* An executing job has exactly one owner: the entry its execution names,
\* which carries that very start and is not yet settled.  The slots and holds
\* are those of the entries, no more and no less, so none leaks.
OneOwner ==
  phase \in Mode =>
    /\ \A j \in Executing(jobs) :
         /\ executions[j] # None
         /\ LET e == running[executions[j]] IN
            e.job = j /\ e.exec = jobs[j].exec /\ ~e.settled
    /\ \A r \in Entries(running) : executions[running[r].job] = r
    /\ held = {running[r].job : r \in Entries(running)}
    /\ slots = Cardinality(Entries(running)) /\ slots <= QueueLimit

\* No two live tasks are of the same job, whatever retry, cancellation,
\* timeout or crash came between their starts (model_test.exs: "cannot overlap
\* its still-alive callback").
NoOverlap ==
  \A r1, r2 \in Relay :
    Alive(r1) /\ Alive(r2) /\ task[r1].job = task[r2].job => r1 = r2

\* Both of the above: a job is executed by its one owner, and by no task that an
\* earlier owner left behind.
Exclusive == OneOwner /\ NoOverlap

\* A relay that ends in order never takes the Engine with it: its death notice
\* is handled, and its monitor flushed, before its DOWN (relay.ex 167-180).
OrderlyRelayEnd == exit # "relay_ended"

\* A drain that answered :ok left nothing behind: no task alive, no entry, no
\* job executing (operations_test.exs: "drain waits for durable outcome AND
\* task death").
DrainedQuiet ==
  phase = "drained" =>
    /\ Entries(running) = {} /\ Executing(jobs) = {}
    /\ \A r \in Relay : ~Alive(r)

\* A job is completed only by the success of its own last start: the callback
\* released for that start returned success.
CompletedByOwnSuccess ==
  \A j \in Job : jobs[j].state = "completed" => returned[j] = jobs[j].rev - 1

\* What clients see of a job is a behaviour of the job contract.
Contract == INSTANCE JobContract WITH
  status <- [j \in Job |-> Status(jobs[j])],
  durable <- [j \in Job |-> jobs[j].dur = "persistent"],
  charged <- [j \in Job |-> Charged(jobs[j])]

\* The Engine keeps the job contract through crashes, stale messages and
\* refused capacity: persistent jobs never vanish, one start charges at most
\* one attempt, and a job is discarded exactly when its last attempt is charged.
KeepsContract == Contract!Spec

\* The loss of a generation costs no job an attempt: from the crash until the
\* next generation is ready, what was executing becomes retryable at the very
\* attempt it was executing (execution.ex reconcile, outcome.ex interrupted).
RestartChargesNothing ==
  [][(phase = "down" \/ phase = "reconciling") =>
       \A j \in Job : /\ Charged(jobs'[j]) = Charged(jobs[j])
                      /\ \/ jobs'[j].state = jobs[j].state
                         \/ jobs[j].state = "executing" /\ jobs'[j].state = "retryable"]_vars

\* Every start is eventually settled: by its outcome, its timeout, a
\* cancellation, or the reconciliation of a later generation.
ExecutionSettles == \A j \in Job : []<>(jobs[j].state # "executing")

\* A drain of local work ends, unless the generation itself does, even when no
\* client sends another command.
DrainEnds == []<>(phase # "draining")

\* A hold is not for ever: the task of a settled job dies and the slot and the
\* hold are given back.
HoldEnds == \A j \in Job : []<>(j \notin held)

\* Terminating the task of a cancelled job is best effort: the command never
\* stops the Engine because the task's relay had already ended in order.
CancelSparesEngine == exit # "noproc"

=============================================================================

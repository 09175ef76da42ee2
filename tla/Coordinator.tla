---------------------------- MODULE Coordinator ----------------------------
(***************************************************************************)
(* Schedules at work (lib/tay/schedule/coordinator.ex with the schedule    *)
(* commands of the Engine in engine/commands.ex and state/auxiliary.ex).   *)
(*                                                                         *)
(* The coordinator keeps a timer per schedule and sends the Engine one     *)
(* operation at a time through a process of its own; the Engine owns the   *)
(* durable schedules and the jobs of their occurrences.  The outcome of an *)
(* operation can be unknown: its command is then applied late or never.    *)
(* A generation can end, and the coordinator alone can be restarted by its *)
(* supervisor, with the schedules its generation began with.               *)
(*                                                                         *)
(* Time is counted in units of the cron resolution.  Replies to callers    *)
(* are left out, since nothing depends on them.  A due message that comes  *)
(* before its time, because the wall clock stepped back, only arms the     *)
(* timer anew and is left out as well.                                     *)
(***************************************************************************)
EXTENDS Integers, FiniteSets, Sequences

CONSTANTS
  Sched, None,
  Definitions,      \* the declarations callers may send
  Starts,           \* their first times: times, or None for now
  MaxTime,          \* the last time of Event-v2
  MaxRequests,      \* bound: calls of register and cancel
  MaxFaults         \* bound: refusals, lost outcomes, restarts, retried jobs

Time == 0..MaxTime
Occurrence == Sched \X Time

\* A durable schedule of the Engine, and the coordinator's entry for it.
Schedule ==
  [definition : Definitions, next_at : Time, cancelled : BOOLEAN, revision : Nat,
   active_job_id : Time \cup {None}, active_job_ids : SUBSET Time]
EntryRecord == [definition : Definitions, revision : Nat, next_at : Time, timer : BOOLEAN]

ASSUME CoordinatorAssumption ==
  /\ IsFiniteSet(Sched) /\ {MaxTime, MaxRequests, MaxFaults} \subseteq Nat
  /\ None \notin Sched \cup Time \cup Schedule \cup EntryRecord /\ Starts \subseteq Time \cup {None}
  /\ Definitions \subseteq
       [kind : {"every", "cron"}, expression : Nat \ {0}, catch_up : {"all", "latest"},
        overlap : {"allow", "skip", "queue"}, args : Nat, volatile : BOOLEAN]

VARIABLES
  now,
  schedules,    \* Engine: the durable schedules
  job,          \* Engine: the job of each occurrence
  entries,      \* coordinator: its schedules
  operations,   \* coordinator: operations waiting
  operation,    \* coordinator: the operation in flight and what its process knows
  timers,       \* due messages on their way to the coordinator, with multiplicity
  commands,     \* commands admitted and not executed yet
  recovered,    \* the schedules this generation began with
  reachable,    \* whether the executor server knows the coordinator's pid
  requests, faults,
  inserted,     \* history: occurrences inserted since their schedule was registered
  strays,       \* history: occurrences retried by hand, or admitted without an advance
  doubtful      \* history: schedules the coordinator gave up

engineVars == <<schedules, job, inserted, strays>>
vars == <<now, engineVars, entries, operations, operation, timers, commands, recovered,
          reachable, requests, faults, doubtful>>

NoJob == [state |-> "none", args |-> 0, volatile |-> FALSE, task |-> FALSE, schedule_id |-> None]
Idle == [state |-> "idle"]

-----------------------------------------------------------------------------
(* Times *)

(* Cron.next: the first matching time after `at`; and the first time of a
   declaration, on the grid of its cron expression. *)
CronNext(expression, at) == ((at \div expression) + 1) * expression
FirstAt(def, first) ==
  IF def.kind = "every" \/ first % def.expression = 0 THEN first
  ELSE CronNext(def.expression, first)

(* advance_after_delivery *)
AdvanceAfterDelivery(def, at, current) ==
  LET later == IF current > at THEN current ELSE at IN
  IF def.kind = "cron"
  THEN CronNext(def.expression, IF def.catch_up = "all" THEN at ELSE later)
  ELSE IF def.catch_up = "all" THEN at + def.expression
  ELSE at + ((later - at) \div def.expression + 1) * def.expression

-----------------------------------------------------------------------------
(* The Engine *)

\* "ended" stands for completed and cancelled, which are alike to a schedule.
Terminal == {"ended", "discarded"}
Nonterminal == {"waiting", "executing"}
Active(s) == s # None /\ ~s.cancelled

(* What keeps an occurrence from being admitted under "skip" and "queue". *)
Busy(id, s) ==
  \/ \E at \in s.active_job_ids \cup (IF s.active_job_id = None THEN {} ELSE {s.active_job_id}) :
       job[id, at].task \/ job[id, at].state \in Nonterminal
  \/ \E o \in Occurrence : job[o].task /\ job[o].schedule_id = id

SameJob(j, def) == j.args = def.args /\ j.volatile = def.volatile
NewJob(def) == [NoJob EXCEPT !.state = "waiting", !.args = def.args, !.volatile = def.volatile]

(* The schedule after an advance (Auxiliary.apply_event 11), over the jobs J. *)
Advanced(J, id, s, next_at, active) ==
  [s EXCEPT !.revision = @ + 1, !.next_at = next_at, !.active_job_id = active,
            !.active_job_ids =
              {at \in @ \cup (IF active = None THEN {} ELSE {active}) :
                 J[id, at].state \in Nonterminal}]

(* The possible results of a command and the state it leaves: the schedule,
   the job of the occurrence, and whether room was refused on the way. *)
Outcome(result, s, j, refused) == [result |-> result, schedule |-> s, job |-> j, refused |-> refused]

\* Mutant: a command that comes a second time is executed like the first.
DeliveredNever(s, due) == FALSE
Delivered(s, due) == s.next_at > due

\* Mutant: "skip" waits for the open job.
WaitsUnlessAllowed(def) == def.overlap # "allow"
Waits(def) == def.overlap = "queue"

DeliverSchedule(c) ==
  LET s == schedules[c.id]
      o == <<c.id, c.due>>
      j == job[o]
      refusal(left) == Outcome("retry", s, left, TRUE)
      advance(left, active) ==
        {Outcome("ok", Advanced([job EXCEPT ![o] = left], c.id, s, c.next_at, active), left, FALSE),
         refusal(left)}
  IN IF ~Active(s) \/ s.definition # c.definition \/ s.next_at < c.due
       THEN {Outcome("fatal", s, j, FALSE)}
     ELSE IF Delivered(s, c.due) THEN {Outcome("ok", s, j, FALSE)}
     ELSE IF j.state = "none" /\ Busy(c.id, s) /\ Waits(s.definition)
       THEN {Outcome("retry", s, j, FALSE)}
     ELSE IF j.state = "none" /\ Busy(c.id, s) /\ s.definition.overlap = "skip"
       THEN advance(j, s.active_job_id)
     ELSE IF j.state = "none"
       THEN {refusal(j)} \cup advance(NewJob(s.definition), c.due)
     ELSE IF SameJob(j, s.definition) THEN advance(j, c.due)
     ELSE {Outcome("fatal", s, j, FALSE)}

Unregistered == [revision |-> 0, active_job_id |-> None, active_job_ids |-> {}]

\* Mutant: a declaration forgets the open jobs of the one it replaces.
PreviousForgotten(s) == IF s = None THEN Unregistered ELSE [Unregistered EXCEPT !.revision = s.revision]
Previous(s) == IF s = None THEN Unregistered ELSE s

(* The membership of every schedule that this version registers is complete, so
   a tightened policy is never refused for want of it. *)
RegisterSchedule(c) ==
  LET s == schedules[c.id]
      previous == Previous(s)
      new == [definition |-> c.definition, next_at |-> c.next_at, cancelled |-> FALSE,
              revision |-> previous.revision + 1, active_job_id |-> previous.active_job_id,
              active_job_ids |-> previous.active_job_ids]
  IN IF Active(s) /\ s.definition = c.definition
       THEN {Outcome("ok", s, NoJob, FALSE)}
     ELSE {Outcome("ok", new, NoJob, FALSE), Outcome("retry", s, NoJob, TRUE)}

CancelSchedule(c) ==
  LET s == schedules[c.id] IN
  IF s # None /\ s.cancelled THEN {Outcome("ok", s, NoJob, FALSE)}
  ELSE IF s # None /\ s.revision = c.revision
    THEN {Outcome("ok", [s EXCEPT !.cancelled = TRUE, !.revision = @ + 1], NoJob, FALSE),
          Outcome("retry", s, NoJob, TRUE)}
  ELSE {Outcome("fatal", s, NoJob, FALSE)}

Outcomes(c) ==
  IF c.op = "deliver" THEN DeliverSchedule(c)
  ELSE IF c.op = "register" THEN RegisterSchedule(c) ELSE CancelSchedule(c)

(* The Engine executes a command.  Its reply reaches the coordinator's process
   unless that has given up waiting. *)
Execute(c, r) ==
  /\ r.refused => faults < MaxFaults
  /\ faults' = IF r.refused THEN faults + 1 ELSE faults
  /\ schedules' = [schedules EXCEPT ![c.id] = r.schedule]
  /\ job' = IF c.op = "deliver" THEN [job EXCEPT ![<<c.id, c.due>>] = r.job] ELSE job
  /\ inserted' =
       IF c.op = "register" /\ r.schedule # schedules[c.id]
         THEN {o \in inserted : o[1] # c.id}
       ELSE IF c.op = "deliver" /\ job[c.id, c.due].state = "none" /\ r.job.state # "none"
         THEN inserted \cup {<<c.id, c.due>>}
       ELSE inserted
  /\ strays' =
       IF c.op # "deliver" THEN strays
       ELSE IF r.refused /\ job[c.id, c.due].state = "none" /\ r.job.state # "none"
         THEN strays \cup {<<c.id, c.due>>}
       ELSE IF r.schedule # schedules[c.id] THEN strays \ {<<c.id, c.due>>}
       ELSE strays
  /\ operation' = IF Head(commands).awaited
                    THEN [operation EXCEPT !.state = r.result, !.stored = r.schedule]
                    ELSE operation
  /\ commands' = Tail(commands)
  /\ UNCHANGED <<now, entries, operations, timers, recovered, reachable, requests, doubtful>>

Command ==
  /\ commands # <<>>
  /\ \E r \in Outcomes(Head(commands).c) : Execute(Head(commands).c, r)

(* What else becomes of the jobs of occurrences.  The entry of a task in the
   Engine's running table keeps the schedule it was started for. *)
JobStep(o, new) ==
  /\ job' = [job EXCEPT ![o] = new]
  /\ UNCHANGED <<now, schedules, entries, operations, operation, timers, commands, recovered,
                 reachable, requests, inserted, doubtful>>

StartJob(o) ==
  /\ job[o].state = "waiting" /\ ~job[o].task
  /\ JobStep(o, [job[o] EXCEPT !.state = "executing", !.task = TRUE,
                   !.schedule_id = IF schedules[o[1]] # None /\ o[2] \in schedules[o[1]].active_job_ids
                                     THEN o[1] ELSE None])
  /\ UNCHANGED <<faults, strays>>

\* An execution settles, or the job is cancelled, before it starts or after.
SettleJob(o) ==
  /\ job[o].state \in Nonterminal
  /\ \E state \in IF job[o].state = "executing" THEN Terminal ELSE {"ended"} :
       JobStep(o, [job[o] EXCEPT !.state = state])
  /\ UNCHANGED <<faults, strays>>

TaskEnds(o) ==
  /\ job[o].task /\ job[o].state # "executing"
  /\ JobStep(o, [job[o] EXCEPT !.task = FALSE, !.schedule_id = None])
  /\ UNCHANGED <<faults, strays>>

(* An operator retries a discarded job. *)
RetryJob(o) ==
  /\ job[o].state = "discarded" /\ faults < MaxFaults /\ faults' = faults + 1
  /\ JobStep(o, [job[o] EXCEPT !.state = "waiting"])
  /\ strays' = strays \cup {o}

(* A compaction drops a terminal job that has been retained long enough. *)
ExpireJob(o) ==
  /\ job[o].state \in Terminal /\ ~job[o].task
  /\ JobStep(o, NoJob)
  /\ UNCHANGED <<faults, strays>>

-----------------------------------------------------------------------------
(* The coordinator: a state is a record of the variables its handlers change *)

State == [entries |-> entries, operations |-> operations, operation |-> operation,
          timers |-> timers, doubtful |-> doubtful]
Become(state) ==
  /\ entries' = state.entries /\ operations' = state.operations /\ operation' = state.operation
  /\ timers' = state.timers /\ doubtful' = state.doubtful

Entry(def, revision, next_at, timer) ==
  [definition |-> def, revision |-> revision, next_at |-> next_at, timer |-> timer]

(* A timer is set: by arm, for the next time of the entry, or for a retry. *)
Arm(state, id, def, revision, next_at) ==
  [state EXCEPT !.entries[id] = Entry(def, revision, next_at, TRUE), !.timers[<<id, next_at>>] = @ + 1]

(* drop: the entry goes; its timer is cancelled unless the message is out. *)
Drop(state, id) ==
  LET e == state.entries[id]
      gone == [state EXCEPT !.entries[id] = None]
  IN IF e = None \/ ~e.timer THEN {gone}
     ELSE {[gone EXCEPT !.timers[<<id, e.next_at>>] = @ - 1]}
          \cup (IF e.next_at <= now THEN {gone} ELSE {})

GiveUp(state, id) == {[s EXCEPT !.doubtful = @ \cup {id}] : s \in Drop(state, id)}

(* begin_operation decides whether an operation is still worth a call. *)
Launch(state, o) == [state EXCEPT !.operation = [state |-> "calling", o |-> o, stored |-> None]]
Settled(state, o) ==
  LET e == state.entries[o.id] IN
  \/ o.op = "register" /\ e # None /\ e.definition = o.definition
  \/ o.op = "cancel" /\ e = None
  \/ o.op = "deliver" /\ (e = None \/ e.next_at # o.due \/ e.revision # o.revision)

(* A cancel names the revision the coordinator knows by then. *)
BeginOperation(state, i) ==
  LET o == state.operations[i] IN
  Launch([state EXCEPT !.operations = SubSeq(@, i + 1, Len(@))],
         IF o.op = "cancel" THEN [o EXCEPT !.revision = state.entries[o.id].revision] ELSE o)

(* continue_operations takes the first operation that needs the Engine. *)
ContinueOperations(state) ==
  LET waiting == {i \in 1..Len(state.operations) : ~Settled(state, state.operations[i])}
      first == {i \in waiting : \A k \in waiting : i <= k}
  IN IF state.operation # Idle THEN {state}
     ELSE IF waiting = {} THEN {[state EXCEPT !.operations = <<>>]}
     ELSE {BeginOperation(state, i) : i \in first}

EnqueueOperation(state, o) == ContinueOperations([state EXCEPT !.operations = Append(@, o)])

Rest == <<now, engineVars, commands, recovered, reachable>>

(* Callers register and cancel, through the executor server. *)
Register(id, def, start) ==
  LET next_at == FirstAt(def, IF start = None THEN now ELSE start) IN
  /\ reachable /\ requests < MaxRequests /\ requests' = requests + 1
  /\ next_at \in Time
  /\ \E s \in EnqueueOperation(State, [op |-> "register", id |-> id, definition |-> def, next_at |-> next_at]) :
       Become(s)
  /\ UNCHANGED <<Rest, faults>>

Cancel(id) ==
  /\ reachable /\ requests < MaxRequests /\ requests' = requests + 1
  /\ \E s \in EnqueueOperation(State, [op |-> "cancel", id |-> id, revision |-> 0]) : Become(s)
  /\ UNCHANGED <<Rest, faults>>

(* A timer's message: the occurrence is queued for delivery, with the time that
   follows it.  A schedule with no such time is dropped. *)
Due(id, due) ==
  /\ timers[id, due] > 0 /\ due <= now
  /\ LET e == entries[id]
         next_at == AdvanceAfterDelivery(e.definition, due, now)
         heard == [State EXCEPT !.timers[<<id, due>>] = @ - 1]
     IN IF e = None \/ e.next_at # due THEN Become(heard)
        ELSE IF next_at > MaxTime THEN \E s \in GiveUp([heard EXCEPT !.entries[id].timer = FALSE], id) : Become(s)
        ELSE \E s \in EnqueueOperation([heard EXCEPT !.entries[id].timer = FALSE],
               [op |-> "deliver", id |-> id, definition |-> e.definition, revision |-> e.revision,
                due |-> due, next_at |-> next_at]) : Become(s)
  /\ UNCHANGED <<Rest, requests, faults>>

(* durable: the entry takes the times of the stored schedule. *)
\* Mutant: it keeps those that were asked for.
DurableAsAsked(state, o, stored) == Arm(state, o.id, o.definition, stored.revision, o.next_at)
Durable(state, o, stored) == Arm(state, o.id, o.definition, stored.revision, stored.next_at)

(* complete_operation *)
Completions(state, o, result, stored) ==
  IF o.op = "deliver"
  THEN IF result = "ok" THEN {Durable(state, o, stored)}
       ELSE IF result = "fatal" THEN GiveUp(state, o.id)
       ELSE {Arm(state, o.id, o.definition, o.revision, o.due)}
  ELSE IF result = "unknown" THEN GiveUp(state, o.id)
  ELSE IF result # "ok" THEN {state}
  ELSE IF o.op = "cancel" THEN Drop(state, o.id)
  ELSE {Durable([s EXCEPT !.doubtful = @ \ {o.id}], o, stored) : s \in Drop(state, o.id)}

OperationResult ==
  /\ operation # Idle /\ operation.state \notin {"calling", "submitted"}
  /\ \E s \in Completions(State, operation.o, operation.state, operation.stored) :
       \E t \in ContinueOperations([s EXCEPT !.operation = Idle]) : Become(t)
  /\ UNCHANGED <<Rest, requests, faults>>

-----------------------------------------------------------------------------
(* The process of the operation in flight *)

Submit ==
  /\ operation # Idle /\ operation.state = "calling"
  /\ operation' = [operation EXCEPT !.state = "submitted"]
  /\ commands' = Append(commands, [c |-> operation.o, awaited |-> TRUE])
  /\ UNCHANGED <<now, engineVars, entries, operations, timers, recovered, reachable, requests, faults, doubtful>>

(* No permit, no memory, or no generation that takes commands. *)
Refused ==
  /\ operation # Idle /\ operation.state = "calling"
  /\ faults < MaxFaults /\ faults' = faults + 1
  /\ operation' = [operation EXCEPT !.state = "retry"]
  /\ UNCHANGED <<now, engineVars, entries, operations, timers, commands, recovered, reachable, requests, doubtful>>

(* The call times out, or its process is lost, after the command was submitted. *)
Lost ==
  /\ operation # Idle /\ operation.state = "submitted"
  /\ faults < MaxFaults /\ faults' = faults + 1
  /\ operation' = [operation EXCEPT !.state = "unknown"]
  /\ commands' = [i \in 1..Len(commands) |-> [commands[i] EXCEPT !.awaited = FALSE]]
  /\ UNCHANGED <<now, engineVars, entries, operations, timers, recovered, reachable, requests, doubtful>>

-----------------------------------------------------------------------------
(* Time, restarts, and the specification *)

Tick ==
  /\ now < MaxTime /\ now' = now + 1
  /\ UNCHANGED <<engineVars, entries, operations, operation, timers, commands, recovered,
                 reachable, requests, faults, doubtful>>

(* Coordinator.init: the schedules that are not cancelled are armed. *)
InitCoordinator(table) ==
  /\ entries' = [id \in Sched |->
       IF ~Active(table[id]) THEN None
       ELSE Entry(table[id].definition, table[id].revision, table[id].next_at, TRUE)]
  /\ timers' = [o \in Occurrence |->
       IF Active(table[o[1]]) /\ table[o[1]].next_at = o[2] THEN 1 ELSE 0]
  /\ operations' = <<>> /\ operation' = Idle

(* The generation ends and the next one recovers: volatile jobs are gone, no
   task is left, and executing jobs wait again. *)
Restart ==
  /\ faults < MaxFaults /\ faults' = faults + 1
  /\ job' = [o \in Occurrence |->
       IF job[o].volatile THEN NoJob
       ELSE [job[o] EXCEPT !.task = FALSE, !.schedule_id = None,
                           !.state = IF @ = "executing" THEN "waiting" ELSE @]]
  /\ inserted' = {o \in inserted : ~job[o].volatile}
  /\ InitCoordinator(schedules)
  /\ recovered' = schedules /\ reachable' = TRUE /\ commands' = <<>> /\ doubtful' = {}
  /\ UNCHANGED <<now, schedules, requests, strays>>

(* The coordinator is restarted within its generation.  The executor server
   keeps the pid of the one that is gone. *)
CoordinatorRestarts ==
  /\ faults < MaxFaults /\ faults' = faults + 1
  /\ InitCoordinator(recovered)
  /\ reachable' = FALSE /\ doubtful' = Sched
  /\ commands' = [i \in 1..Len(commands) |-> [commands[i] EXCEPT !.awaited = FALSE]]
  /\ UNCHANGED <<now, engineVars, recovered, requests>>

Init ==
  /\ now = 0
  /\ schedules = [id \in Sched |-> None] /\ recovered = schedules
  /\ job = [o \in Occurrence |-> NoJob]
  /\ entries = [id \in Sched |-> None] /\ timers = [o \in Occurrence |-> 0]
  /\ operations = <<>> /\ operation = Idle /\ commands = <<>> /\ reachable = TRUE
  /\ requests = 0 /\ faults = 0 /\ inserted = {} /\ strays = {} /\ doubtful = {}

Next ==
  \/ Tick \/ Command \/ Submit \/ Refused \/ Lost \/ OperationResult \/ Restart \/ CoordinatorRestarts
  \/ \E id \in Sched, def \in Definitions, start \in Starts : Register(id, def, start)
  \/ \E id \in Sched : Cancel(id)
  \/ \E id \in Sched, due \in Time : Due(id, due)
  \/ \E o \in Occurrence : StartJob(o) \/ SettleJob(o) \/ TaskEnds(o) \/ RetryJob(o) \/ ExpireJob(o)

Spec == Init /\ [][Next]_vars

(* Timers fire and the processes run.  Nothing is assumed of callers, of jobs
   or of the clock, which may stop at any time. *)
Fairness ==
  /\ WF_vars(Command) /\ WF_vars(Submit) /\ WF_vars(OperationResult)
  /\ \A id \in Sched, due \in Time : WF_vars(Due(id, due))

FairSpec == Spec /\ Fairness

-----------------------------------------------------------------------------
(* Properties *)

\* An occurrence is admitted at most once for each registration of its schedule,
\* over refusals between its two records, lost outcomes, late commands and
\* restarts: the job id is a function of the schedule and the due time, and the
\* due time advances only with the occurrence.  The exception is a job that ends
\* and is removed by retention while its advance is still being refused.
AdmittedOnce ==
  [][\A o \in Occurrence : job[o].state = "none" /\ job'[o].state # "none" => o \notin inserted \ strays]_vars

\* Under "skip" and "queue" an occurrence is admitted only when no job of an
\* earlier one is open, also after the policy was tightened from "allow":
\* the durable membership names them all but those that an operator retried after
\* their end, and those whose advance was refused after their insertion.
AdmittedAlone ==
  [][\A id \in Sched, due \in Time :
       job[id, due].state = "none" /\ job'[id, due].state # "none"
         /\ schedules[id].definition.overlap # "allow" =>
         \A at \in Time : job[id, at].state \in Nonterminal => <<id, at>> \in strays]_vars

Concerned(id) ==
  \/ operation # Idle /\ operation.o.id = id
  \/ \E i \in 1..Len(commands) : commands[i].c.id = id

\* When nothing is under way for a schedule, the coordinator holds it exactly if
\* it is active in the Engine, with its definition, and its due message is on its
\* way or its delivery is queued.  It knows the current revision and time, or it
\* lags behind a delivery of unknown outcome and will ask for that one again.
\* What complete_operation drops without an answer is not covered.
TablesAgree ==
  \A id \in Sched \ doubtful :
    LET e == entries[id]
        s == schedules[id]
    IN ~Concerned(id) =>
         /\ e = None <=> ~Active(s)
         /\ e # None =>
              /\ e.definition = s.definition
              /\ e.next_at < s.next_at \/ (e.next_at = s.next_at /\ e.revision = s.revision)
              /\ IF e.timer THEN timers[id, e.next_at] > 0
                 ELSE \E i \in 1..Len(operations) :
                        operations[i].op = "deliver" /\ operations[i].id = id
                          /\ operations[i].due = e.next_at /\ operations[i].revision = e.revision

\* Every due occurrence of a schedule that the coordinator has not given up is
\* dealt with, unless "queue" makes it wait for an open job.
OccurrencesHandled ==
  \A id \in Sched :
    []<>(\/ ~Active(schedules[id]) \/ id \in doubtful \/ schedules[id].next_at > now
         \/ schedules[id].definition.overlap = "queue" /\ Busy(id, schedules[id]))
=============================================================================

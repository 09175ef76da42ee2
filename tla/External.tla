------------------------------ MODULE External ------------------------------
(***************************************************************************)
(* Execution by external workers, within one Engine generation: the Engine's *)
(* dispatcher (lib/tay/execution/dispatcher.ex and the executor handlers of  *)
(* engine.ex and engine/execution.ex), the executor server with its registry *)
(* of connections and reservations (executor/server.ex, executor/registry.ex)*)
(* and the workers behind the connections.                                   *)
(*                                                                           *)
(* The Engine calls the server twice in one claim, to reserve and to         *)
(* dispatch, and the server may handle a lost connection between the two: a   *)
(* claim is two actions, and the Engine does nothing else in between.  The    *)
(* server reports to the Engine through its mailbox.  Jobs are persistent and *)
(* of one task in one queue.  A worker may report late, twice, or never, and  *)
(* under a later connection; cancel_execution is best effort and changes      *)
(* nothing here.  History is counted in units of the outcome reserve          *)
(* (persistence.ex 456): a record takes one, and so does a result, whose size *)
(* the reserve knows nothing of.                                              *)
(***************************************************************************)
EXTENDS Jobs, Sequences, FiniteSets

CONSTANTS Job, Worker, Resv, None,
          Capacity,         \* max_concurrency of every worker
          QueueLimit,       \* config.queue_limits of the queue
          Limit,            \* records the history may hold
          MaxRev,           \* bound: mutations of a job before it stops changing
          MaxServerFaults,  \* bound: restarts of the executor server
          MaxMail           \* bound: messages waiting in the Engine's mailbox

ASSUME ExternalAssumption ==
  /\ IsFiniteSet(Job) /\ IsFiniteSet(Worker) /\ IsFiniteSet(Resv)
  /\ None \notin Job \cup Worker \cup Resv
  /\ {Capacity, QueueLimit, Limit, MaxRev, MaxServerFaults, MaxMail} \subseteq Nat

VARIABLES
  phase,        \* s.mode, or "down"
  exit,         \* why the Engine exited
  jobs,         \* the projection
  results,      \* s.results: jobs with a stored result
  used,         \* records in the log
  reserve,      \* s.persistent_settlement_reserve
  running,      \* s.running: the entry of each reservation
  executions,   \* s.executions: the reservation of each job
  held,         \* s.projection.held
  slots,        \* s.slots of the queue
  drainer,      \* a caller of drain that waits for its answer
  known,        \* s.executor_server
  claiming,     \* the claim between its reservation and its start
  gen,          \* the live executor server
  conns,        \* its connections
  resvs,        \* its reservations
  mail,         \* its messages to the Engine
  hand,         \* what each worker was sent and has not answered
  leaked        \* history: reservations of claims that were refused

ledger == <<jobs, results, used, reserve>>
book == <<running, executions, held, slots>>
engineSide == <<phase, exit, ledger, book, drainer, known, claiming>>
server == <<gen, conns, resvs>>
vars == <<engineSide, server, mail, hand, leaked>>

Mode == {"ready", "draining", "drained"}
Dispatched == {"inflight", "started", "completed"}
Result == {"success", "failure", "timeout", "lost"}

NoEntry == [job |-> None, exec |-> 0]
NoClaim == [job |-> None, resv |-> None]
\* A connection whose process has died stays registered until the server
\* handles its DOWN.
NoConn == [up |-> "off", tasks |-> FALSE, resv |-> {}]
NoResv == [status |-> "none", conn |-> None]

TypeOK ==
  /\ phase \in Mode \cup {"down"}
  /\ exit \in {"none", "settlement_failed", "result_failed"}
  /\ jobs \in [Job -> JobRecord] /\ results \in SUBSET Job
  /\ used \in Nat /\ reserve \in Nat /\ slots \in Nat
  /\ running \in [Resv -> [job : Job \cup {None}, exec : Nat]]
  /\ executions \in [Job -> Resv \cup {None}]
  /\ held \in SUBSET Job /\ drainer \in {"none", "waiting"}
  /\ known \in Nat /\ gen \in Nat
  /\ claiming \in [job : Job \cup {None}, resv : Resv \cup {None}]
  /\ conns \in [Worker -> [up : {"off", "live", "dying"}, tasks : BOOLEAN,
                           resv : SUBSET Resv]]
  /\ resvs \in [Resv -> [status : Dispatched \cup {"none", "reserved"},
                         conn : Worker \cup {None}]]
  /\ mail \in Seq([kind : Result \cup {"ready"}, resv : Resv \cup {None}, gen : Nat])
  /\ hand \in [Worker -> SUBSET Resv] /\ leaked \in SUBSET Resv

Init ==
  /\ phase = "ready" /\ exit = "none"
  /\ jobs = [j \in Job |-> Absent] /\ results = {}
  /\ used = 0 /\ reserve = 0
  /\ running = [r \in Resv |-> NoEntry]
  /\ executions = [j \in Job |-> None]
  /\ held = {} /\ slots = 0 /\ drainer = "none"
  /\ known = 0 /\ gen = 0 /\ claiming = NoClaim
  /\ conns = [w \in Worker |-> NoConn]
  /\ resvs = [r \in Resv |-> NoResv]
  /\ mail = << >> /\ hand = [w \in Worker |-> {}] /\ leaked = {}

Entries == {r \in Resv : running[r].job # None}
Executing == {j \in Job : jobs[j].state = "executing"}
Mailed(r) == \E i \in 1..Len(mail) : mail[i].resv = r

\* The Engine is at its mailbox.
Idle == phase \in Mode /\ claiming = NoClaim

---------------------------------------------------------------------------
(* Commands *)

\* complete_drains, of a state whose mode is mode.
CompleteDrains(mode, caller) ==
  LET complete == mode = "draining" /\ reserve' = 0
                  /\ \A r \in Resv : running'[r].job = None
  IN  /\ phase' = IF complete THEN "drained" ELSE mode
      /\ drainer' = IF complete THEN "none" ELSE caller

Fits(owed) == used + 1 + owed <= Limit

Insert(j) ==
  /\ Idle /\ phase = "ready" /\ jobs[j].state = "absent" /\ Fits(reserve)
  /\ jobs' = [jobs EXCEPT ![j] = Inserted("persistent", TRUE)]
  /\ used' = used + 1
  /\ UNCHANGED <<phase, exit, results, reserve, book, drainer, known, claiming,
                 server, mail, hand, leaked>>

\* The scheduler's due batch and a manual retry of a retryable job commit the
\* same change; the retry is admitted while draining too.
Requeue(j) ==
  /\ Idle /\ CanRetry(jobs[j]) /\ jobs[j].rev < MaxRev /\ Fits(reserve)
  /\ jobs' = [jobs EXCEPT ![j] = Retried(jobs[j])]
  /\ used' = used + 1
  /\ UNCHANGED <<results, reserve, book>>
  /\ CompleteDrains(phase, drainer)
  /\ UNCHANGED <<exit, known, claiming, server, mail, hand, leaked>>

Drain ==
  /\ Idle /\ drainer = "none"
  /\ UNCHANGED <<ledger, book>>
  /\ CompleteDrains("draining", "waiting")
  /\ UNCHANGED <<exit, known, claiming, server, mail, hand, leaked>>

DrainDeadline ==
  /\ Idle /\ drainer = "waiting"
  /\ drainer' = "none"
  /\ UNCHANGED <<phase, exit, ledger, book, known, claiming, server, mail, hand, leaked>>

\* A command that changes no job: a read, or a pause.  It too looks at drains.
Read ==
  /\ Idle /\ phase = "draining"
  /\ UNCHANGED <<ledger, book>>
  /\ CompleteDrains(phase, drainer)
  /\ UNCHANGED <<exit, known, claiming, server, mail, hand, leaked>>

---------------------------------------------------------------------------
(* The end of an execution *)

\* Server.release; a reservation that was dropped is released already.
ReleaseReservation(r) ==
  /\ resvs' = [resvs EXCEPT ![r] = NoResv]
  /\ conns' = [w \in Worker |-> [conns[w] EXCEPT !.resv = @ \ {r}]]

\* The last part of Dispatcher.settle.  A persistent job that is cancelled has
\* left the job index, and is then not released from the held jobs.
CloseEntry(r, indexed) ==
  /\ ReleaseReservation(r)
  /\ running' = [running EXCEPT ![r] = NoEntry]
  /\ executions' = [executions EXCEPT ![running[r].job] = None]
  /\ held' = IF indexed THEN held \ {running[r].job} ELSE held
  /\ slots' = IF slots = 0 THEN 0 ELSE slots - 1

\* persist_result writes a record only for {:success, result}.
HasResult(result) == result = "success"

\* Dispatcher.outcome
OutcomeOf(result) == IF result = "lost" THEN "interrupted" ELSE result

\* settle, settle_job and persist_result: a success writes its result as a
\* second record.  Nothing here looks at drains.
Settle(r, result) ==
  LET e == running[r]  j == running[r].job
      finished == [jobs EXCEPT ![j] = Finished(jobs[j], OutcomeOf(result))]
  IN
  /\ CanFinish(jobs[j], e.exec)
  /\ IF ~Fits(reserve - 1)
     THEN /\ phase' = "down" /\ exit' = "settlement_failed"
          /\ UNCHANGED <<ledger, book, drainer, conns, resvs>>
     ELSE IF HasResult(result) /\ used + 2 + (reserve - 1) > Limit
     THEN /\ jobs' = finished /\ used' = used + 1 /\ reserve' = reserve - 1
          /\ phase' = "down" /\ exit' = "result_failed"
          /\ UNCHANGED <<results, book, drainer, conns, resvs>>
     ELSE /\ jobs' = finished /\ reserve' = reserve - 1
          /\ IF HasResult(result)
             THEN used' = used + 2 /\ results' = results \cup {j}
             ELSE used' = used + 1 /\ UNCHANGED results
          /\ CloseEntry(r, TRUE)
          /\ UNCHANGED <<phase, exit, drainer>>

\* engine.ex {:executor_completion, ...}: only of the server the Engine knows,
\* and only for a reservation that still has an entry.
CompletionMsg ==
  LET m == Head(mail) IN
  /\ Idle /\ mail # << >> /\ m.kind # "ready"
  /\ m.gen = known /\ running[m.resv].job # None
  /\ mail' = Tail(mail)
  /\ Settle(m.resv, m.kind)
  /\ UNCHANGED <<known, claiming, gen, hand, leaked>>

LateCompletionMsg ==
  LET m == Head(mail) IN
  /\ Idle /\ mail # << >> /\ m.kind # "ready"
  /\ ~(m.gen = known /\ running[m.resv].job # None)
  /\ mail' = Tail(mail)
  /\ UNCHANGED <<engineSide, server, hand, leaked>>

ServerReadyMsg ==
  /\ Idle /\ mail # << >> /\ Head(mail).kind = "ready"
  /\ known' = Head(mail).gen /\ mail' = Tail(mail)
  /\ UNCHANGED <<phase, exit, ledger, book, drainer, claiming, server, hand, leaked>>

ExecutorTimeoutOfLive(r) ==
  /\ Idle /\ running[r].job # None /\ resvs[r].status # "none"
  /\ Settle(r, "timeout")
  /\ UNCHANGED <<known, claiming, gen, mail, hand, leaked>>

\* The Engine's own timer of the execution.
ExecutorTimeout(r) ==
  /\ Idle /\ running[r].job # None
  /\ Settle(r, "timeout")
  /\ UNCHANGED <<known, claiming, gen, mail, hand, leaked>>

\* reservation_after of a cancellation
OwedAfterCancel(j) == IF j \in Executing THEN reserve - 1 ELSE reserve

\* The cancellation is committed; then the entry is closed, and the command
\* looks at drains.
Cancel(j) ==
  /\ Idle /\ CanCancel(jobs[j])
  /\ Fits(OwedAfterCancel(j))
  /\ jobs' = [jobs EXCEPT ![j] = Cancelled(jobs[j])]
  /\ used' = used + 1
  /\ reserve' = OwedAfterCancel(j)
  /\ IF executions[j] = None THEN UNCHANGED <<book, conns, resvs>>
     ELSE CloseEntry(executions[j], FALSE)
  /\ CompleteDrains(phase, drainer)
  /\ UNCHANGED <<exit, results, known, claiming, gen, mail, hand, leaked>>

---------------------------------------------------------------------------
(* A claim *)

\* Registry.available?
Available(w) == /\ conns[w].up # "off" /\ conns[w].tasks
                /\ Cardinality(conns[w].resv) < Capacity

\* Reservation identities are random and new.
FreshResv(r) ==
  /\ resvs[r] = NoResv /\ running[r] = NoEntry /\ ~Mailed(r)
  /\ \A w \in Worker : r \notin hand[w]

\* next_ready and Dispatcher.select: a ready job, and among the connections
\* with room one with the fewest reservations.
Reserve(j, w, r) ==
  /\ Idle /\ phase = "ready" /\ slots < QueueLimit /\ known = gen
  /\ CanStart(jobs[j]) /\ j \notin held /\ jobs[j].rev < MaxRev
  /\ Available(w) /\ FreshResv(r)
  /\ \A v \in Worker : Available(v) => Cardinality(conns[w].resv) <= Cardinality(conns[v].resv)
  /\ conns' = [conns EXCEPT ![w].resv = @ \cup {r}]
  /\ resvs' = [resvs EXCEPT ![r] = [status |-> "reserved", conn |-> w]]
  /\ claiming' = [job |-> j, resv |-> r]
  /\ leaked' = leaked \ {r}
  /\ UNCHANGED <<phase, exit, ledger, book, drainer, known, gen, mail, hand>>

\* claim stops after the reservation: the history has no room for the start
\* and its settlement, or the clock has stepped behind the due time.  The
\* reservation is not given back.
RefuseStart ==
  /\ claiming # NoClaim
  /\ claiming' = NoClaim
  /\ leaked' = leaked \cup {claiming.resv}
  /\ UNCHANGED <<phase, exit, ledger, book, drainer, known, server, mail, hand>>

\* start_external, and Server.dispatch for a reservation that is still there.
\* Delivery to a connection that has died is silent.
StartExternal ==
  LET j == claiming.job  r == claiming.resv  started == Started(jobs[claiming.job])
      w == resvs[claiming.resv].conn
  IN
  /\ claiming # NoClaim /\ Fits(reserve + 1) /\ resvs[r].status = "reserved"
  /\ jobs' = [jobs EXCEPT ![j] = started]
  /\ used' = used + 1 /\ reserve' = reserve + 1
  /\ running' = [running EXCEPT ![r] = [job |-> j, exec |-> started.exec]]
  /\ executions' = [executions EXCEPT ![j] = r]
  /\ held' = held \cup {j} /\ slots' = slots + 1
  /\ resvs' = [resvs EXCEPT ![r].status = "inflight"]
  /\ hand' = IF conns[w].up = "live" THEN [hand EXCEPT ![w] = @ \cup {r}] ELSE hand
  /\ claiming' = NoClaim
  /\ UNCHANGED <<phase, exit, results, drainer, known, gen, conns, mail, leaked>>

LostAtStartUnsettled(p) == Started(p)
LostAtStartCharged(p) == Finished(Started(p), "failure")

\* A job whose dispatch fails is settled as lost in the same handler.
LostAtStart(p) == Finished(Started(p), "interrupted")

\* start_external when the reservation is gone: the started job is settled as
\* lost at once, and both records are written.
StartLost ==
  LET j == claiming.job IN
  /\ claiming # NoClaim /\ Fits(reserve + 1) /\ resvs[claiming.resv].status = "none"
  /\ jobs' = [jobs EXCEPT ![j] = LostAtStart(jobs[j])]
  /\ used' = used + 2
  /\ claiming' = NoClaim
  /\ UNCHANGED <<phase, exit, results, reserve, book, drainer, known, server,
                 mail, hand, leaked>>

---------------------------------------------------------------------------
(* The executor server and its workers *)

Report(kind, r) == [kind |-> kind, resv |-> r, gen |-> gen]

Connect(w) ==
  /\ conns[w].up = "off"
  /\ conns' = [conns EXCEPT ![w] = [NoConn EXCEPT !.up = "live"]]
  /\ UNCHANGED <<engineSide, gen, resvs, mail, hand, leaked>>

\* register_tasks and unregister_tasks
SetTasks(w) ==
  /\ conns[w].up = "live"
  /\ conns' = [conns EXCEPT ![w].tasks = ~@]
  /\ UNCHANGED <<engineSide, gen, resvs, mail, hand, leaked>>

Disconnect(w) ==
  /\ conns[w].up = "live"
  /\ conns' = [conns EXCEPT ![w].up = "dying"]
  /\ UNCHANGED <<engineSide, gen, resvs, mail, hand, leaked>>

KeptReservations(w) == resvs

\* drop_connection reports every dispatched reservation as lost, a completed
\* one too, and forgets them all.
LostOf(w) == {r \in conns[w].resv : resvs[r].status \in Dispatched}
ResvsWithout(w) == [r \in Resv |-> IF r \in conns[w].resv THEN NoResv ELSE resvs[r]]

\* The server walks a set of random identities: any order may be the order.
Orders(S) ==
  {s \in [1..Cardinality(S) -> S] : \A i, k \in 1..Cardinality(S) : s[i] = s[k] => i = k}

DropConnection(w) ==
  /\ conns[w].up = "dying" /\ Len(mail) + Cardinality(LostOf(w)) <= MaxMail
  /\ \E lost \in Orders(LostOf(w)) :
       mail' = mail \o [i \in DOMAIN lost |-> Report("lost", lost[i])]
  /\ conns' = [conns EXCEPT ![w] = NoConn]
  /\ resvs' = ResvsWithout(w)
  /\ UNCHANGED <<engineSide, gen, hand, leaked>>

\* What the server accepts from a connection: its own, dispatched, unanswered.
Reportable(w, r) == resvs[r].conn = w /\ resvs[r].status \in {"inflight", "started"}

WorkerStarted(w, r) ==
  /\ conns[w].up = "live" /\ r \in hand[w] /\ Reportable(w, r)
  /\ resvs' = [resvs EXCEPT ![r].status = "started"]
  /\ UNCHANGED <<engineSide, gen, conns, mail, hand, leaked>>

\* A report the server does not accept is rejected; the worker may repeat an
\* accepted one.
WorkerCompletes(w, r, result) ==
  /\ conns[w].up = "live" /\ r \in hand[w] /\ Len(mail) < MaxMail
  /\ IF Reportable(w, r)
     THEN /\ resvs' = [resvs EXCEPT ![r].status = "completed"]
          /\ mail' = Append(mail, Report(result, r))
          /\ UNCHANGED hand
     ELSE /\ hand' = [hand EXCEPT ![w] = @ \ {r}]
          /\ UNCHANGED <<resvs, mail>>
  /\ UNCHANGED <<engineSide, gen, conns, leaked>>

\* The worker stops, obeys a cancel, or just forgets.
WorkerForgets(w, r) ==
  /\ r \in hand[w]
  /\ hand' = [hand EXCEPT ![w] = @ \ {r}]
  /\ UNCHANGED <<engineSide, server, mail, leaked>>

\* The server stops and its supervisor starts another, with no connections.
ServerRestarts ==
  /\ gen < MaxServerFaults /\ Len(mail) < MaxMail
  /\ gen' = gen + 1
  /\ conns' = [w \in Worker |-> NoConn]
  /\ resvs' = [r \in Resv |-> NoResv]
  /\ mail' = Append(mail, [kind |-> "ready", resv |-> None, gen |-> gen + 1])
  /\ leaked' = {}
  /\ UNCHANGED <<engineSide, hand>>

---------------------------------------------------------------------------
Next ==
  \/ \E j \in Job : Insert(j) \/ Requeue(j) \/ Cancel(j)
  \/ Drain \/ DrainDeadline \/ Read
  \/ \E j \in Job, w \in Worker, r \in Resv : Reserve(j, w, r)
  \/ RefuseStart \/ StartExternal \/ StartLost
  \/ CompletionMsg \/ LateCompletionMsg \/ ServerReadyMsg
  \/ \E r \in Resv : ExecutorTimeout(r)
  \/ \E w \in Worker : Connect(w) \/ SetTasks(w) \/ Disconnect(w) \/ DropConnection(w)
  \/ \E w \in Worker, r \in Resv :
       \/ WorkerStarted(w, r) \/ WorkerForgets(w, r)
       \/ \E result \in {"success", "failure"} : WorkerCompletes(w, r, result)
  \/ ServerRestarts

Spec == Init /\ [][Next]_vars

\* The Engine and the server handle their messages and timers fire.  Workers
\* and clients owe nothing.  A message or a timer waits in the Engine's mailbox
\* while a claim is made and is handled in its turn, however often the Engine
\* claims: hence strong fairness.
Fairness ==
  /\ WF_vars(StartExternal \/ StartLost \/ RefuseStart)
  /\ SF_vars(CompletionMsg \/ LateCompletionMsg \/ ServerReadyMsg)
  /\ \A r \in Resv : SF_vars(ExecutorTimeout(r))
  /\ \A w \in Worker : WF_vars(DropConnection(w))

FairSpec == Spec /\ Fairness

---------------------------------------------------------------------------
(* Properties *)

\* The server's two tables agree at every step, so releasing a reservation
\* never meets a missing connection (server.ex 503-507), and no worker is given
\* more than its capacity.
ServerTablesAgree ==
  /\ \A r \in Resv : resvs[r].status # "none" =>
       resvs[r].conn # None /\ conns[resvs[r].conn].up # "off"
       /\ r \in conns[resvs[r].conn].resv
  /\ \A w \in Worker :
       /\ \A r \in conns[w].resv : resvs[r].conn = w
       /\ Cardinality(conns[w].resv) <= Capacity

\* A reservation the server holds serves an execution of the Engine, except
\* those of claims refused between reservation and start: after any order of
\* completions, timeouts, cancellations and disconnects no other stays behind
\* to consume a worker's capacity.
ReservationsOwned ==
  Idle => \A r \in Resv : resvs[r].status # "none" => r \in Entries \cup leaked

\* As long as the server has not restarted, an execution the Engine waits for is
\* never forgotten by the other side: the server still holds it unanswered, or
\* its completion or loss is on the way, so it need not wait for its timeout
\* (server.ex 516-546, protocol.md "A disconnected in-flight task is recovered
\* as an infrastructure interruption").
LossReported ==
  Idle /\ gen = 0 => \A r \in Entries : resvs[r].status \in {"inflight", "started"} \/ Mailed(r)

\* Each executing job has one entry and each entry one executing job of that
\* very start; slots and reserve count them.  A hold without an entry is of a
\* cancelled job.
OneOwner ==
  phase \in Mode =>
    /\ reserve = Cardinality(Executing) /\ slots = Cardinality(Entries)
    /\ \A j \in Executing : executions[j] \in Entries /\ running[executions[j]].job = j
    /\ \A r \in Entries : /\ CanFinish(jobs[running[r].job], running[r].exec)
                          /\ executions[running[r].job] = r
    /\ \A j \in Executing : j \in held
    /\ \A j \in held \ Executing : jobs[j].state = "cancelled"

\* Both books at once: the server's tables agree with each other, and the
\* Engine's jobs, entries, slots, reserve and holds with one another, whatever
\* order completions, timeouts, cancellations and disconnects arrive in
\* (server.ex 281-349 and 497-546, dispatcher.ex 52-119).
BooksAgree == ServerTablesAgree /\ OneOwner

\* A completed job has its result, unless the Engine stopped between the two
\* records of a success (dispatcher.ex 121-151).
ResultStored ==
  /\ \A j \in results : jobs[j].state = "completed"
  /\ phase \in Mode => \A j \in Job : jobs[j].state = "completed" => j \in results

\* What clients see of a job is a behaviour of the job contract.
Contract == INSTANCE JobContract WITH
  status <- [j \in Job |-> Status(jobs[j])],
  durable <- [j \in Job |-> jobs[j].dur = "persistent"],
  charged <- [j \in Job |-> Charged(jobs[j])]

\* External execution keeps the job contract: whatever a worker reports, late,
\* twice or through a later connection, an attempt is settled and charged once.
KeepsContract == Contract!Spec

\* Every external start is settled, by its report, its loss or its timeout,
\* unless the Engine itself stops.
ExecutionSettles ==
  \A j \in Job : []<>(jobs[j].state # "executing" \/ phase = "down")

\* Drain succeeds after active tasks and their outcomes settle
\* (docs/operations.md): once nothing runs any more, a draining Engine becomes
\* drained without waiting for a client's next command.
DrainSucceeds == phase = "draining" /\ Entries = {} ~> phase # "draining"

\* The room an active execution needs for its outcome survives the exhaustion
\* of admission: settling it never stops the Engine.
OutcomeReserveSurvives == exit = "none"

=============================================================================

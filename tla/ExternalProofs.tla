--------------------------- MODULE ExternalProofs ---------------------------
(***************************************************************************)
(* External execution, for every number of jobs, workers, reservations,     *)
(* slots and attempts and every size of the history and of the mailbox: the  *)
(* job contract, and the agreement of the server's tables and of the         *)
(* Engine's books.                                                           *)
(***************************************************************************)
EXTENDS External, JobsProofs

\* The provers that a step is tried with, in this order.
USE SMT, Zenon, Z3

---------------------------------------------------------------------------
(* What a step does to the Engine's books.  Every handler leaves them alone,  *)
(* rewrites one job that has no execution, starts one, closes one, or stops   *)
(* the Engine.                                                                *)

Entry == [job : Job \cup {None}, exec : Nat]
Message == [kind : Result, resv : Resv, gen : Nat]
             \cup [kind : {"ready"}, resv : {None}, gen : Nat]

JobsInv == jobs \in [Job -> JobRecord] /\ \A j \in Job : WellFormed(jobs[j])

BookTyped ==
  /\ running \in [Resv -> Entry] /\ executions \in [Job -> Resv \cup {None}]
  /\ held \in SUBSET Job

MailTyped == gen \in Nat /\ mail \in Seq(Message)

\* Who executes what while the Engine is up.
Owners ==
  phase \in Mode =>
    /\ \A j \in Job : executions[j] # None => running[executions[j]].job = j
    /\ \A r \in Resv : running[r].job # None =>
         /\ executions[running[r].job] = r
         /\ CanFinish(jobs[running[r].job], running[r].exec)
    /\ \A j \in Job : jobs[j].state = "executing" => executions[j] # None /\ j \in held
    /\ \A j \in held : jobs[j].state \in {"executing", "cancelled"}

\* Between its two calls to the server the Engine does nothing else, so the job
\* it is about to start is still ready.
ClaimOk ==
  claiming # NoClaim =>
    /\ claiming.job \in Job /\ claiming.resv \in Resv /\ phase \in Mode
    /\ CanStart(jobs[claiming.job]) /\ claiming.job \notin held
    /\ executions[claiming.job] = None /\ running[claiming.resv].job = None

Changed(j, c) == jobs' = [jobs EXCEPT ![j] = c] /\ WellFormed(c) /\ Allowed(jobs[j], c)

Quiet ==
  /\ UNCHANGED <<jobs, running, executions, held, slots, reserve>>
  /\ (phase \in Mode <=> phase' \in Mode)

Rewrite(j, c) ==
  /\ phase \in Mode /\ phase' \in Mode /\ Changed(j, c)
  /\ jobs[j].state # "executing" /\ c.state # "executing"
  /\ j \in held => c.state = "cancelled"
  /\ UNCHANGED <<running, executions, held, slots, reserve>>

Begin(j, r) ==
  LET c == Started(jobs[j]) IN
  /\ phase \in Mode /\ phase' \in Mode /\ Changed(j, c)
  /\ jobs[j].state # "executing" /\ executions[j] = None /\ running[r].job = None
  /\ running' = [running EXCEPT ![r] = [job |-> j, exec |-> c.exec]]
  /\ executions' = [executions EXCEPT ![j] = r]
  /\ held' = held \cup {j} /\ slots' = slots + 1 /\ reserve' = reserve + 1

Close(r, c) ==
  LET j == running[r].job IN
  /\ phase \in Mode /\ phase' \in Mode /\ j # None /\ Changed(j, c)
  /\ c.state # "executing"
  /\ running' = [running EXCEPT ![r] = NoEntry]
  /\ executions' = [executions EXCEPT ![j] = None]
  /\ held' = held \ {j} \/ (held' = held /\ c.state = "cancelled")
  /\ slots' = (IF slots = 0 THEN 0 ELSE slots - 1) /\ reserve' = reserve - 1

Stop ==
  /\ phase' = "down" /\ UNCHANGED <<running, executions, held>>
  /\ jobs' = jobs \/ \E j \in Job, c \in JobRecord : Changed(j, c)

Effect ==
  \/ Quiet \/ Stop
  \/ \E j \in Job, c \in JobRecord : Rewrite(j, c)
  \/ \E j \in Job, r \in Resv : Begin(j, r)
  \/ \E r \in Resv, c \in JobRecord : Close(r, c)

\* Looking at drains never takes the Engine down.
LEMMA DrainsUp ==
  ASSUME NEW mode \in Mode, NEW caller, CompleteDrains(mode, caller)
  PROVE  phase' \in Mode
BY DEF CompleteDrains, Mode

\* Settling the entry of r, from a report, a loss or the timer.
LEMMA SettleEffect ==
  ASSUME JobsInv, BookTyped, phase \in Mode, NEW r \in Resv, running[r].job # None,
         NEW result \in Result, Settle(r, result)
  PROVE  Effect
<1> DEFINE j == running[r].job
           c == Finished(jobs[j], OutcomeOf(result))
<1>1. j \in Job /\ j # None
  BY DEF BookTyped, Entry
<1>2. OutcomeOf(result) \in Outcome
  BY DEF OutcomeOf, Outcome, Result
<1>3. jobs[j].state = "executing" /\ WellFormed(jobs[j]) /\ jobs[j] \in JobRecord
  BY <1>1 DEF Settle, CanFinish, JobsInv
<1>4. WellFormed(c) /\ Allowed(jobs[j], c) /\ c \in JobRecord /\ c.state # "executing"
  BY <1>2, <1>3, FinishedAllowed, FinishedFacts
<1>5. \/ /\ phase' = "down" /\ UNCHANGED <<running, executions, held>>
         /\ jobs' = jobs \/ jobs' = [jobs EXCEPT ![j] = c]
      \/ /\ phase' = phase /\ jobs' = [jobs EXCEPT ![j] = c] /\ reserve' = reserve - 1
         /\ CloseEntry(r, TRUE)
  BY Zenon DEF Settle, book, ledger
<1> HIDE DEF c
<1>6. CASE /\ phase' = "down" /\ UNCHANGED <<running, executions, held>>
           /\ jobs' = jobs \/ jobs' = [jobs EXCEPT ![j] = c]
  BY <1>1, <1>4, <1>6 DEF Effect, Stop, Changed
<1>7. CASE /\ phase' = phase /\ jobs' = [jobs EXCEPT ![j] = c] /\ reserve' = reserve - 1
           /\ CloseEntry(r, TRUE)
  <2>1. Close(r, c)
    BY <1>1, <1>4, <1>7 DEF Close, Changed, CloseEntry
  <2> QED BY <1>4, <2>1 DEF Effect
<1> QED BY <1>5, <1>6, <1>7, Zenon

\* The client's commands.
LEMMA CommandEffect ==
  ASSUME JobsInv, BookTyped, Owners, NEW j \in Job, Insert(j) \/ Requeue(j) \/ Cancel(j)
  PROVE  Effect
<1>0. /\ WellFormed(jobs[j]) /\ jobs[j] \in JobRecord
      /\ executions[j] \in Resv \cup {None}
      /\ running \in [Resv -> Entry]
  BY DEF JobsInv, BookTyped
<1>1. CASE Insert(j)
  <2> DEFINE c == Inserted("persistent", TRUE)
  <2>1. jobs[j].state = "absent" /\ phase \in Mode /\ phase' = phase
    BY <1>1 DEF Insert, Mode
  <2>2. "persistent" \in Durability /\ TRUE \in BOOLEAN
    BY DEF Durability
  <2>3. WellFormed(c) /\ Allowed(jobs[j], c) /\ c \in JobRecord /\ c.state # "executing"
    BY <1>0, <2>1, <2>2, InsertedAllowed, InsertedFacts, Zenon
  <2>4. jobs' = [jobs EXCEPT ![j] = c] /\ UNCHANGED <<running, executions, held, slots, reserve>>
    BY <1>1 DEF Insert, book
  <2> HIDE DEF c
  <2>5. j \notin held
    BY <2>1 DEF Owners
  <2> QED BY <2>1, <2>3, <2>4, <2>5, Zenon DEF Effect, Rewrite, Changed
<1>2. CASE Requeue(j)
  <2> DEFINE c == Retried(jobs[j])
  <2>1. phase \in Mode /\ CanRetry(jobs[j]) /\ CompleteDrains(phase, drainer)
    BY <1>2 DEF Requeue, Idle
  <2>2. WellFormed(c) /\ Allowed(jobs[j], c) /\ c \in JobRecord /\ c.state # "executing"
    BY <1>0, <2>1, RetriedAllowed, RetriedFacts
  <2>3. jobs' = [jobs EXCEPT ![j] = c] /\ UNCHANGED <<running, executions, held, slots, reserve>>
    BY <1>2 DEF Requeue, book
  <2> HIDE DEF c
  <2>4. jobs[j].state \notin {"executing", "cancelled"}
    BY <2>1 DEF CanRetry
  <2>5. j \notin held /\ phase' \in Mode
    BY <2>1, <2>4, DrainsUp DEF Owners
  <2> QED BY <2>1, <2>2, <2>3, <2>4, <2>5, Zenon DEF Effect, Rewrite, Changed
<1>3. CASE Cancel(j)
  <2> DEFINE c == Cancelled(jobs[j])
             r == executions[j]
  <2>1. phase \in Mode /\ CanCancel(jobs[j]) /\ CompleteDrains(phase, drainer)
    BY <1>3 DEF Cancel, Idle
  <2>2. WellFormed(c) /\ Allowed(jobs[j], c) /\ c \in JobRecord
    BY <1>0, <2>1, CancelledAllowed, CancelledFacts
  <2>3. c.state = "cancelled" /\ phase' \in Mode
    BY <2>1, DrainsUp DEF Cancelled, Mutated
  <2>4. jobs' = [jobs EXCEPT ![j] = c] /\ reserve' = OwedAfterCancel(j)
    BY <1>3 DEF Cancel
  <2> HIDE DEF c
  <2>5. CASE r = None
    <3>1. jobs[j].state # "executing"
      BY <2>1, <2>5 DEF Owners
    <3>2. reserve' = reserve /\ UNCHANGED <<running, executions, held, slots>>
      BY <1>3, <2>4, <2>5, <3>1 DEF Cancel, book, OwedAfterCancel, Executing
    <3> QED BY <2>1, <2>2, <2>3, <2>4, <3>1, <3>2, Zenon DEF Effect, Rewrite, Changed
  <2>6. CASE r # None
    <3>1. r \in Resv /\ running[r].job = j /\ j # None
      BY <1>0, <2>1, <2>6, ExternalAssumption DEF Owners
    <3>2. jobs[j].state = "executing"
      BY <2>1, <3>1 DEF Owners, CanFinish
    <3>3. reserve' = reserve - 1 /\ CloseEntry(r, FALSE)
      BY <1>3, <2>4, <2>6, <3>2, Zenon DEF Cancel, OwedAfterCancel, Executing
    <3> HIDE DEF r
    <3>4. Close(r, c)
      BY <2>1, <2>2, <2>3, <2>4, <3>1, <3>3 DEF Close, Changed, CloseEntry
    <3> QED BY <2>2, <3>1, <3>4 DEF Effect
  <2> QED BY <2>5, <2>6
<1> QED BY <1>1, <1>2, <1>3

\* The two ways a claim ends with a start.
LEMMA ClaimEffect ==
  ASSUME JobsInv, BookTyped, Owners, ClaimOk, StartExternal \/ StartLost
  PROVE  Effect
<1> DEFINE j == claiming.job
           r == claiming.resv
<1>1. /\ j \in Job /\ r \in Resv /\ phase \in Mode /\ phase' = phase
      /\ CanStart(jobs[j]) /\ j \notin held /\ executions[j] = None /\ running[r].job = None
  BY DEF StartExternal, StartLost, ClaimOk
<1>2. WellFormed(jobs[j]) /\ jobs[j] \in JobRecord /\ jobs[j].state = "available"
  BY <1>1 DEF JobsInv, CanStart
<1> DEFINE s == Started(jobs[j])
<1>3. WellFormed(s) /\ Allowed(jobs[j], s) /\ s \in JobRecord /\ s.state = "executing"
  BY <1>1, <1>2, StartedAllowed, StartedFacts
<1>4. CASE StartExternal
  <2>1. Begin(j, r)
    BY <1>1, <1>2, <1>3, <1>4 DEF StartExternal, Begin, Changed
  <2> QED BY <1>1, <2>1 DEF Effect
<1>5. CASE StartLost
  <2> DEFINE c == Finished(s, "interrupted")
  <2>1. WellFormed(c) /\ c \in JobRecord /\ c.state # "executing" /\ c.dur = s.dur
    <3>1. "interrupted" \in Outcome
      BY DEF Outcome
    <3> HIDE DEF s
    <3> QED BY <1>3, <3>1, FinishedAllowed, FinishedFacts
  <2>2. /\ jobs' = [jobs EXCEPT ![j] = c]
        /\ UNCHANGED <<running, executions, held, slots, reserve>>
    BY <1>5 DEF StartLost, LostAtStart, book
  <2>3. Kept(jobs[j], c)
    <3>1. s.attempt = jobs[j].next /\ s.dur = jobs[j].dur /\ jobs[j].next \in 1..MaxAttempts
      BY <1>1 DEF Started, Mutated, CanStart
    <3>2. c.next = s.attempt /\ c.state = IF s.attempt = 0 THEN "discarded" ELSE "retryable"
      BY DEF Finished, Mutated, NextAttempt
    <3>3. c.state = "retryable" /\ c.next = jobs[j].next
      BY <3>1, <3>2, MaxAttemptsAssumption
    <3> HIDE DEF c, s
    <3>4. /\ Status(c) = "waiting" /\ Charged(c) = c.next - 1
          /\ Status(jobs[j]) = "waiting" /\ Charged(jobs[j]) = jobs[j].next - 1
      BY <1>2, <2>1, <3>3, Views
    <3> QED BY <2>1, <3>1, <3>3, <3>4 DEF Kept
  <2> HIDE DEF c, s
  <2>4. Rewrite(j, c)
    BY <1>1, <1>2, <2>1, <2>2, <2>3 DEF Rewrite, Changed, Allowed
  <2> QED BY <1>1, <2>1, <2>4 DEF Effect
<1> QED BY <1>4, <1>5

\* The server and its workers touch nothing of the Engine's.
ServerSteps ==
  \/ \E w \in Worker : Connect(w) \/ SetTasks(w) \/ Disconnect(w) \/ DropConnection(w)
  \/ \E w \in Worker, r \in Resv :
       \/ WorkerStarted(w, r) \/ WorkerForgets(w, r)
       \/ \E result \in {"success", "failure"} : WorkerCompletes(w, r, result)
  \/ ServerRestarts

\* The steps of the worker server and of its sockets (server.ex) leave the
\* Engine's state alone.
LEMMA ServerStepsQuiet ==
  ASSUME ServerSteps \/ LateCompletionMsg \/ UNCHANGED vars
  PROVE  UNCHANGED engineSide
BY DEF ServerSteps, Connect, SetTasks, Disconnect, DropConnection, WorkerStarted,
       WorkerForgets, WorkerCompletes, ServerRestarts, LateCompletionMsg, vars

\* The first message of the mailbox.
LEMMA FirstMail ==
  ASSUME MailTyped, mail # << >>
  PROVE  /\ Head(mail) \in Message /\ Tail(mail) \in Seq(Message)
         /\ Head(mail).gen \in Nat
         /\ Head(mail).kind # "ready" => Head(mail).kind \in Result /\ Head(mail).resv \in Resv
<1>1. Head(mail) \in Message /\ Tail(mail) \in Seq(Message)
  BY DEF MailTyped
<1> QED BY <1>1 DEF Message

\* Everything the Engine handles, and everything else, has one of the effects.
LEMMA StepEffect ==
  ASSUME JobsInv, BookTyped, MailTyped, Owners, ClaimOk, [Next]_vars
  PROVE  Effect
<1>1. ASSUME UNCHANGED <<jobs, running, executions, held, slots, reserve>>,
             phase' = phase \/ (phase \in Mode /\ phase' \in Mode)
      PROVE  Effect
  BY <1>1 DEF Effect, Quiet
<1>2. CASE ServerSteps \/ LateCompletionMsg \/ UNCHANGED vars
  <2>1. UNCHANGED engineSide
    BY <1>2, ServerStepsQuiet
  <2> QED BY <1>1, <2>1 DEF engineSide, ledger, book
<1>3. CASE Drain \/ DrainDeadline \/ Read
  <2>1. /\ UNCHANGED <<jobs, running, executions, held, slots, reserve>> /\ phase \in Mode
        /\ \/ phase' = phase
           \/ \E mode \in Mode, caller \in {"waiting", drainer} : CompleteDrains(mode, caller)
    BY <1>3 DEF Drain, DrainDeadline, Read, Idle, ledger, book, Mode
  <2>2. phase' \in Mode
    BY <2>1, DrainsUp
  <2> QED BY <1>1, <2>1, <2>2
<1>4. CASE RefuseStart \/ ServerReadyMsg \/ \E j \in Job, w \in Worker, r \in Resv : Reserve(j, w, r)
  <2>1. /\ UNCHANGED <<jobs, running, executions, held, slots, reserve>> /\ phase' = phase
    BY <1>4 DEF RefuseStart, ServerReadyMsg, Reserve, ledger, book
  <2> QED BY <1>1, <2>1
<1>5. CASE CompletionMsg
  <2>1. /\ phase \in Mode /\ mail # << >> /\ Head(mail).kind # "ready"
        /\ running[Head(mail).resv].job # None /\ Settle(Head(mail).resv, Head(mail).kind)
    BY <1>5 DEF CompletionMsg, Idle
  <2>2. Head(mail).kind \in Result /\ Head(mail).resv \in Resv
    BY <2>1, FirstMail
  <2> QED BY <2>1, <2>2, SettleEffect
<1>6. ASSUME NEW r \in Resv, ExecutorTimeout(r)
      PROVE  Effect
  <2>1. phase \in Mode /\ running[r].job # None /\ Settle(r, "timeout") /\ "timeout" \in Result
    BY <1>6 DEF ExecutorTimeout, Idle, Result
  <2> QED BY <2>1, SettleEffect
<1>7. CASE \E j \in Job : Insert(j) \/ Requeue(j) \/ Cancel(j)
  BY <1>7, CommandEffect
<1>8. CASE StartExternal \/ StartLost
  BY <1>8, ClaimEffect
<1>9. CASE Next
  BY <1>2, <1>3, <1>4, <1>5, <1>6, <1>7, <1>8, <1>9 DEF Next, ServerSteps
<1> QED BY <1>2, <1>9

---------------------------------------------------------------------------
(* The job contract *)

\* One record changes as the contract allows, or none does.
LEMMA EffectJobs ==
  ASSUME JobsInv, BookTyped, Effect
  PROVE  JobsInv' /\ \A j \in Job : Allowed(jobs[j], jobs'[j])
<1>0. jobs \in [Job -> JobRecord] /\ \A j \in Job : WellFormed(jobs[j])
  BY DEF JobsInv
<1>1. CASE jobs' = jobs
  BY <1>0, <1>1 DEF JobsInv, Allowed, Kept
<1>2. ASSUME NEW j \in Job, NEW c, Changed(j, c)
      PROVE  JobsInv' /\ \A i \in Job : Allowed(jobs[i], jobs'[i])
  <2>1. c \in JobRecord /\ WellFormed(c) /\ Allowed(jobs[j], c) /\ jobs' = [jobs EXCEPT ![j] = c]
    BY <1>2 DEF Changed, WellFormed
  <2>2. \A i \in Job : jobs'[i] = IF i = j THEN c ELSE jobs[i]
    BY <1>0, <2>1
  <2>3. jobs' \in [Job -> JobRecord]
    BY <1>0, <2>1
  <2>4. \A i \in Job : WellFormed(jobs'[i])
    BY <1>0, <2>1, <2>2
  <2>5. \A i \in Job : Allowed(jobs[i], jobs'[i])
    BY <2>1, <2>2 DEF Allowed, Kept
  <2> QED BY <2>3, <2>4, <2>5 DEF JobsInv
<1>3. jobs' = jobs \/ \E j \in Job, c \in JobRecord : Changed(j, c)
  <2>1. CASE Quiet \/ Stop
    BY <2>1 DEF Quiet, Stop
  <2>2. ASSUME NEW j \in Job, NEW c \in JobRecord, Rewrite(j, c)
        PROVE  Changed(j, c)
    BY <2>2 DEF Rewrite
  <2>3. ASSUME NEW j \in Job, NEW r \in Resv, Begin(j, r)
        PROVE  \E c \in JobRecord : Changed(j, c)
    BY <1>0, <2>3, StartedFacts DEF Begin
  <2>4. ASSUME NEW r \in Resv, NEW c \in JobRecord, Close(r, c)
        PROVE  \E j \in Job : Changed(j, c)
    BY <2>4 DEF Close, BookTyped, Entry
  <2> QED BY <2>1, <2>2, <2>3, <2>4 DEF Effect
<1> QED BY <1>1, <1>2, <1>3

---------------------------------------------------------------------------
(* Owners *)

\* A close names the one job of its entry.
LEMMA CloseFacts ==
  ASSUME BookTyped, Owners, NEW r \in Resv, NEW c, Close(r, c)
  PROVE  LET j == running[r].job
         IN  /\ j \in Job /\ executions[j] = r /\ jobs[j].state = "executing"
             /\ \A q \in Resv \ {r} : running[q].job # j
<1> DEFINE j == running[r].job
<1>1. j \in Job /\ j # None /\ phase \in Mode
  BY DEF Close, BookTyped, Entry
<1>2. executions[j] = r /\ jobs[j].state = "executing"
  BY <1>1 DEF Owners, CanFinish
<1>3. \A q \in Resv \ {r} : running[q].job # j
  BY <1>1, <1>2 DEF Owners
<1> QED BY <1>1, <1>2, <1>3

\* Entries, executions and holds keep their types.
LEMMA EffectTyped ==
  ASSUME JobsInv, BookTyped, Effect
  PROVE  BookTyped'
<1>0. /\ running \in [Resv -> Entry] /\ executions \in [Job -> Resv \cup {None}]
      /\ held \in SUBSET Job /\ jobs \in [Job -> JobRecord]
  BY DEF BookTyped, JobsInv
<1>1. CASE UNCHANGED <<running, executions, held>>
  BY <1>1 DEF BookTyped
<1>2. ASSUME NEW j \in Job, NEW r \in Resv, Begin(j, r)
      PROVE  BookTyped'
  <2> DEFINE e == [job |-> j, exec |-> Started(jobs[j]).exec]
  <2>1. Started(jobs[j]).exec \in Nat
    <3>1. Started(jobs[j]) \in JobRecord
      BY <1>0, StartedFacts
    <3> QED BY <3>1 DEF JobRecord
  <2>2. e \in Entry
    BY <2>1 DEF Entry
  <2>3. /\ running' = [running EXCEPT ![r] = e] /\ executions' = [executions EXCEPT ![j] = r]
        /\ held' = held \cup {j}
    BY <1>2 DEF Begin
  <2> HIDE DEF e
  <2> QED BY <1>0, <2>2, <2>3 DEF BookTyped
<1>3. ASSUME NEW r \in Resv, NEW c \in JobRecord, Close(r, c)
      PROVE  BookTyped'
  <2>1. NoEntry \in Entry
    BY DEF NoEntry, Entry
  <2>2. /\ running' = [running EXCEPT ![r] = NoEntry]
        /\ executions' = [executions EXCEPT ![running[r].job] = None]
        /\ held' \subseteq held
    BY <1>3 DEF Close
  <2> HIDE DEF NoEntry
  <2> QED BY <1>0, <2>1, <2>2, Zenon DEF BookTyped
<1>4. ASSUME NEW j \in Job, NEW c \in JobRecord, Rewrite(j, c)
      PROVE  UNCHANGED <<running, executions, held>>
  BY <1>4 DEF Rewrite
<1> QED BY <1>1, <1>2, <1>3, <1>4 DEF Effect, Quiet, Stop

\* Every effect of a step keeps each live claim with one owner.
LEMMA EffectOwners ==
  ASSUME JobsInv, BookTyped, Owners, Effect
  PROVE  Owners'
<1>0. /\ running \in [Resv -> Entry] /\ executions \in [Job -> Resv \cup {None}]
      /\ held \in SUBSET Job /\ jobs \in [Job -> JobRecord]
      /\ None \notin Job /\ None \notin Resv
  BY ExternalAssumption DEF BookTyped, JobsInv
<1>1. CASE Quiet
  BY <1>1 DEF Quiet, Owners
<1>2. CASE Stop
  BY <1>2 DEF Stop, Owners, Mode
<1>3. ASSUME NEW j \in Job, NEW c \in JobRecord, Rewrite(j, c)
      PROVE  Owners'
  <2>1. /\ phase \in Mode /\ jobs[j].state # "executing" /\ c.state # "executing"
        /\ j \in held => c.state = "cancelled"
        /\ UNCHANGED <<running, executions, held>>
        /\ \A i \in Job : jobs'[i] = IF i = j THEN c ELSE jobs[i]
    BY <1>0, <1>3 DEF Rewrite, Changed
  <2>2. \A r \in Resv : running[r].job # None =>
           running[r].job \in Job /\ jobs[running[r].job].state = "executing"
    BY <1>0, <2>1 DEF Owners, CanFinish, Entry
  <2>3. \A r \in Resv : running[r].job # None => jobs'[running[r].job] = jobs[running[r].job]
    BY <2>1, <2>2
  <2>4. \A i \in Job : jobs'[i].state = "executing" => executions'[i] # None /\ i \in held'
    BY <2>1 DEF Owners
  <2>5. \A i \in held' : jobs'[i].state \in {"executing", "cancelled"}
    BY <1>0, <2>1 DEF Owners
  <2>6. \A r \in Resv : running'[r].job # None =>
           executions'[running'[r].job] = r /\ CanFinish(jobs'[running'[r].job], running'[r].exec)
    BY <2>1, <2>3 DEF Owners
  <2>7. \A i \in Job : executions'[i] # None => running'[executions'[i]].job = i
    BY <2>1 DEF Owners
  <2> QED BY <2>4, <2>5, <2>6, <2>7 DEF Owners
<1>4. ASSUME NEW j \in Job, NEW r \in Resv, Begin(j, r)
      PROVE  Owners'
  <2> DEFINE c == Started(jobs[j])
             e == [job |-> j, exec |-> c.exec]
  <2>1. /\ phase \in Mode /\ jobs[j].state # "executing" /\ executions[j] = None
        /\ running[r].job = None /\ running' = [running EXCEPT ![r] = e]
        /\ executions' = [executions EXCEPT ![j] = r] /\ held' = held \cup {j}
        /\ jobs' = [jobs EXCEPT ![j] = c]
    BY <1>4 DEF Begin, Changed
  <2>2. c.state = "executing"
    BY <1>0, StartedFacts
  <2>3. e.job = j /\ e.exec = c.exec
    OBVIOUS
  <2>4. CanFinish(c, e.exec)
    BY <2>2, <2>3 DEF CanFinish
  <2> HIDE DEF c, e
  <2>5. /\ \A i \in Job : jobs'[i] = IF i = j THEN c ELSE jobs[i]
        /\ \A i \in Job : executions'[i] = IF i = j THEN r ELSE executions[i]
        /\ \A q \in Resv : running'[q] = IF q = r THEN e ELSE running[q]
    BY <1>0, <2>1
  <2>6. \A q \in Resv : running[q].job # None =>
           running[q].job \in Job \ {j} /\ q # r
    BY <1>0, <2>1 DEF Owners, CanFinish, Entry
  <2>7. \A i \in Job : executions'[i] # None => running'[executions'[i]].job = i
    BY <1>0, <2>1, <2>3, <2>5 DEF Owners
  <2>8. \A q \in Resv : running'[q].job # None =>
           executions'[running'[q].job] = q /\ CanFinish(jobs'[running'[q].job], running'[q].exec)
    BY <2>1, <2>3, <2>4, <2>5, <2>6 DEF Owners
  <2>9. \A i \in Job : jobs'[i].state = "executing" => executions'[i] # None /\ i \in held'
    BY <1>0, <2>1, <2>5 DEF Owners
  <2>10. \A i \in held' : jobs'[i].state \in {"executing", "cancelled"}
    BY <1>0, <2>1, <2>2, <2>5 DEF Owners
  <2> QED BY <2>7, <2>8, <2>9, <2>10 DEF Owners
<1>5. ASSUME NEW r \in Resv, NEW c \in JobRecord, Close(r, c)
      PROVE  Owners'
  <2> DEFINE j == running[r].job
  <2>1. /\ phase \in Mode /\ c.state # "executing"
        /\ running' = [running EXCEPT ![r] = NoEntry]
        /\ executions' = [executions EXCEPT ![j] = None]
        /\ held' = held \ {j} \/ (held' = held /\ c.state = "cancelled")
        /\ jobs' = [jobs EXCEPT ![j] = c]
    BY <1>5 DEF Close, Changed
  <2>2. /\ j \in Job /\ executions[j] = r /\ jobs[j].state = "executing"
        /\ \A q \in Resv \ {r} : running[q].job # j
    BY <1>5, CloseFacts
  <2>3. NoEntry.job = None
    BY DEF NoEntry
  <2> HIDE DEF j
  <2>4. /\ \A i \in Job : jobs'[i] = IF i = j THEN c ELSE jobs[i]
        /\ \A i \in Job : executions'[i] = IF i = j THEN None ELSE executions[i]
        /\ \A q \in Resv : running'[q] = IF q = r THEN NoEntry ELSE running[q]
    BY <1>0, <2>1
  <2>5. \A q \in Resv : running[q].job # None => running[q].job \in Job
    BY <1>0 DEF Entry
  <2>6. \A i \in Job \ {j} : executions[i] # r
    BY <1>0, <2>1, <2>2 DEF Owners, j
  <2>7. \A i \in Job : executions'[i] # None => running'[executions'[i]].job = i
    BY <1>0, <2>1, <2>4, <2>6 DEF Owners
  <2>8. \A q \in Resv : running'[q].job # None =>
           executions'[running'[q].job] = q /\ CanFinish(jobs'[running'[q].job], running'[q].exec)
    BY <2>1, <2>2, <2>3, <2>4, <2>5 DEF Owners
  <2>9. \A i \in Job : jobs'[i].state = "executing" => executions'[i] # None /\ i \in held'
    BY <1>0, <2>1, <2>4 DEF Owners
  <2>10. \A i \in held' : jobs'[i].state \in {"executing", "cancelled"}
    BY <1>0, <2>1, <2>2, <2>4 DEF Owners
  <2> QED BY <2>7, <2>8, <2>9, <2>10 DEF Owners
<1> QED BY <1>1, <1>2, <1>3, <1>4, <1>5 DEF Effect

\* A claim in progress stays good: nothing but its own end touches its job.
LEMMA StepClaim ==
  ASSUME BookTyped, Owners, ClaimOk, [Next]_vars
  PROVE  ClaimOk'
<1>1. CASE claiming' = NoClaim
  BY <1>1 DEF ClaimOk
<1>2. CASE ServerSteps \/ LateCompletionMsg \/ UNCHANGED vars
  <2>1. UNCHANGED engineSide
    BY <1>2, ServerStepsQuiet
  <2> QED BY <2>1 DEF engineSide, ledger, book, ClaimOk
<1>3. ASSUME NEW j \in Job, NEW w \in Worker, NEW r \in Resv, Reserve(j, w, r)
      PROVE  ClaimOk'
  <2>1. /\ phase = "ready" /\ CanStart(jobs[j]) /\ j \notin held /\ running[r] = NoEntry
        /\ claiming' = [job |-> j, resv |-> r]
        /\ UNCHANGED <<phase, jobs, held, executions, running>>
    BY <1>3 DEF Reserve, FreshResv, ledger, book
  <2>2. executions[j] = None
    <3>1. jobs[j].state # "executing" /\ phase \in Mode
      BY <2>1 DEF CanStart, Mode
    <3>2. executions[j] \in Resv \cup {None}
      BY DEF BookTyped
    <3>3. executions[j] # None => running[executions[j]].job = j /\ j # None
      BY <3>1, ExternalAssumption DEF Owners
    <3> QED BY <3>1, <3>2, <3>3 DEF Owners, CanFinish
  <2>3. claiming'.job = j /\ claiming'.resv = r
    BY <2>1
  <2> QED BY <2>1, <2>2, <2>3 DEF ClaimOk, NoEntry, Mode
<1>4. CASE \/ \E j \in Job : Insert(j) \/ Requeue(j) \/ Cancel(j)
           \/ Drain \/ DrainDeadline \/ Read \/ RefuseStart \/ StartExternal \/ StartLost
           \/ CompletionMsg \/ ServerReadyMsg \/ \E r \in Resv : ExecutorTimeout(r)
  <2>1. claiming' = NoClaim
    BY <1>4, Zenon DEF Insert, Requeue, Cancel, Drain, DrainDeadline, Read, RefuseStart,
                StartExternal, StartLost, CompletionMsg, ServerReadyMsg, ExecutorTimeout, Idle
  <2> QED BY <1>1, <2>1
<1> QED BY <1>2, <1>3, <1>4 DEF Next, ServerSteps

---------------------------------------------------------------------------
(* The server's two tables.  What makes their agreement inductive: a           *)
(* reservation names a connection exactly while it is held, and that           *)
(* connection is the one that counts it.                                       *)

Conn == [up : {"off", "live", "dying"}, tasks : BOOLEAN, resv : SUBSET Resv]
Reservation == [status : Dispatched \cup {"none", "reserved"}, conn : Worker \cup {None}]

TablesTyped == conns \in [Worker -> Conn] /\ resvs \in [Resv -> Reservation]

Tables ==
  /\ TablesTyped
  /\ \A r \in Resv, w \in Worker : (r \in conns[w].resv <=> resvs[r].conn = w)
  /\ \A r \in Resv : (resvs[r].status # "none" <=> resvs[r].conn # None)
  /\ \A w \in Worker : conns[w].up = "off" => conns[w].resv = {}
  /\ \A w \in Worker : Cardinality(conns[w].resv) <= Capacity

\* The table invariant gives the agreement that the run checks.
LEMMA TablesAgree == Tables => ServerTablesAgree
<1> SUFFICES ASSUME Tables PROVE ServerTablesAgree
  OBVIOUS
<1>1. ASSUME NEW r \in Resv, resvs[r].status # "none"
      PROVE  /\ resvs[r].conn # None /\ conns[resvs[r].conn].up # "off"
             /\ r \in conns[resvs[r].conn].resv
  <2>1. resvs[r].conn \in Worker /\ resvs[r].conn # None
    <3>1. resvs[r] \in Reservation /\ resvs[r].conn # None
      BY <1>1 DEF Tables, TablesTyped
    <3> QED BY <3>1 DEF Reservation
  <2>2. r \in conns[resvs[r].conn].resv
    BY <2>1 DEF Tables
  <2> QED BY <2>1, <2>2 DEF Tables
<1>2. ASSUME NEW w \in Worker
      PROVE  (\A r \in conns[w].resv : resvs[r].conn = w) /\ Cardinality(conns[w].resv) <= Capacity
  <2>1. conns[w].resv \subseteq Resv
    BY DEF Tables, TablesTyped, Conn
  <2> QED BY <2>1 DEF Tables
<1> QED BY <1>1, <1>2 DEF ServerTablesAgree

INSTANCE FiniteSetTheorems

\* What one connection holds is finite, and a part of it is no larger.
LEMMA Holdings ==
  ASSUME TablesTyped, NEW w \in Worker
  PROVE  /\ conns[w] \in Conn /\ conns[w].resv \subseteq Resv
         /\ IsFiniteSet(conns[w].resv) /\ Cardinality(conns[w].resv) \in Nat
         /\ \A S \in SUBSET conns[w].resv :
              /\ Cardinality(S) \in Nat
              /\ Cardinality(S) <= Cardinality(conns[w].resv)
<1>1. conns[w] \in Conn
  BY DEF TablesTyped
<1>2. conns[w].resv \subseteq Resv
  BY <1>1 DEF Conn
<1>3. IsFiniteSet(conns[w].resv)
  BY <1>2, FS_Subset, ExternalAssumption
<1>4. Cardinality(conns[w].resv) \in Nat
  BY <1>3, FS_CardinalityType
<1>5. ASSUME NEW S \in SUBSET conns[w].resv
      PROVE  Cardinality(S) \in Nat /\ Cardinality(S) <= Cardinality(conns[w].resv)
  <2>1. IsFiniteSet(S) /\ Cardinality(S) <= Cardinality(conns[w].resv)
    BY <1>3, FS_Subset
  <2> QED BY <2>1, FS_CardinalityType
<1> QED BY <1>1, <1>2, <1>3, <1>4, <1>5

\* A reservation that is held moves on.
LEMMA TablesStatus ==
  ASSUME Tables, NEW r \in Resv, resvs[r].status # "none", NEW s \in Dispatched,
         resvs' = [resvs EXCEPT ![r].status = s], conns' = conns
  PROVE  Tables'
<1>0. resvs \in [Resv -> Reservation] /\ s # "none"
  BY DEF Tables, TablesTyped, Dispatched
<1>1. /\ \A q \in Resv : resvs'[q].conn = resvs[q].conn
      /\ \A q \in Resv : (resvs'[q].status # "none" <=> resvs[q].status # "none")
  BY <1>0 DEF Reservation
<1>2. resvs' \in [Resv -> Reservation]
  <2>1. [resvs[r] EXCEPT !.status = s] \in Reservation
    BY <1>0 DEF Reservation
  <2>2. resvs' = [resvs EXCEPT ![r] = [resvs[r] EXCEPT !.status = s]]
    BY <1>0
  <2> QED BY <1>0, <2>1, <2>2
<1> QED BY <1>1, <1>2 DEF Tables, TablesTyped

\* A connection that holds the same reservations as before, and is registered.
LEMMA TablesConn ==
  ASSUME Tables, NEW w \in Worker, NEW c \in Conn, c.resv = conns[w].resv, c.up # "off",
         conns' = [conns EXCEPT ![w] = c], resvs' = resvs
  PROVE  Tables'
<1>0. conns \in [Worker -> Conn]
  BY DEF Tables, TablesTyped
<1>1. /\ \A v \in Worker : conns'[v].resv = conns[v].resv
      /\ \A v \in Worker : conns'[v].up = "off" => conns[v].up = "off"
      /\ conns' \in [Worker -> Conn]
  BY <1>0
<1> QED BY <1>1 DEF Tables, TablesTyped

\* Release gives the place back, once, whatever the reservation was.
LEMMA TablesRelease ==
  ASSUME Tables, NEW r \in Resv, ReleaseReservation(r)
  PROVE  Tables'
<1>0. conns \in [Worker -> Conn] /\ resvs \in [Resv -> Reservation] /\ TablesTyped
  BY DEF Tables, TablesTyped
<1>1. /\ resvs' = [resvs EXCEPT ![r] = NoResv]
      /\ conns' = [w \in Worker |-> [conns[w] EXCEPT !.resv = @ \ {r}]]
  BY DEF ReleaseReservation
<1>2. NoResv \in Reservation /\ NoResv.conn = None /\ NoResv.status = "none"
  BY DEF NoResv, Reservation
<1>3. ASSUME NEW w \in Worker
      PROVE  /\ conns'[w] \in Conn /\ conns'[w].resv = conns[w].resv \ {r}
             /\ conns'[w].up = conns[w].up
  BY <1>0, <1>1 DEF Conn
<1> HIDE DEF NoResv
<1>4. \A q \in Resv : resvs'[q] = IF q = r THEN NoResv ELSE resvs[q]
  BY <1>0, <1>1
<1>5. TablesTyped'
  BY <1>0, <1>1, <1>2, <1>3, <1>4, Zenon DEF TablesTyped
<1>6. \A q \in Resv, w \in Worker : (q \in conns'[w].resv <=> resvs'[q].conn = w)
  BY <1>2, <1>3, <1>4, ExternalAssumption DEF Tables
<1>7. \A q \in Resv : (resvs'[q].status # "none" <=> resvs'[q].conn # None)
  BY <1>2, <1>4 DEF Tables
<1>8. \A w \in Worker : conns'[w].up = "off" => conns'[w].resv = {}
  BY <1>3 DEF Tables
<1>9. ASSUME NEW w \in Worker
      PROVE  Cardinality(conns'[w].resv) <= Capacity
  <2>1. /\ Cardinality(conns[w].resv \ {r}) <= Cardinality(conns[w].resv)
        /\ Cardinality(conns[w].resv) \in Nat /\ Cardinality(conns[w].resv \ {r}) \in Nat
    BY <1>0, Holdings
  <2>2. Cardinality(conns[w].resv) <= Capacity /\ Capacity \in Nat
    BY ExternalAssumption DEF Tables
  <2>3. Cardinality(conns'[w].resv) = Cardinality(conns[w].resv \ {r})
    BY <1>3, Zenon
  <2> QED BY <2>1, <2>2, <2>3
<1> QED BY <1>5, <1>6, <1>7, <1>8, <1>9 DEF Tables

\* A new reservation goes to a connection with room.
LEMMA TablesReserve ==
  ASSUME Tables, NEW j \in Job, NEW w \in Worker, NEW r \in Resv, Reserve(j, w, r)
  PROVE  Tables'
<1> DEFINE S == conns[w].resv
           c == [conns[w] EXCEPT !.resv = S \cup {r}]
           v == [status |-> "reserved", conn |-> w]
<1>0. conns \in [Worker -> Conn] /\ resvs \in [Resv -> Reservation] /\ TablesTyped
  BY DEF Tables, TablesTyped
<1>1. /\ resvs[r] = NoResv /\ conns[w].up # "off" /\ Cardinality(S) < Capacity
      /\ conns' = [conns EXCEPT ![w] = c] /\ resvs' = [resvs EXCEPT ![r] = v]
  BY <1>0 DEF Reserve, FreshResv, Available
<1>2. resvs[r].conn = None
  BY <1>1 DEF NoResv
<1>3. conns[w] \in Conn /\ S \subseteq Resv /\ IsFiniteSet(S) /\ Cardinality(S) \in Nat
  BY <1>0, Holdings
<1>4. c \in Conn /\ c.resv = S \cup {r} /\ c.up = conns[w].up
  BY <1>3 DEF Conn
<1>5. v \in Reservation /\ v.status = "reserved" /\ v.conn = w
  BY DEF Reservation
<1>6. \A u \in Worker : r \notin conns[u].resv
  BY <1>2, ExternalAssumption DEF Tables
<1>7. Cardinality(S \cup {r}) = Cardinality(S) + 1
  BY <1>3, <1>6, FS_AddElement, Zenon
<1> HIDE DEF c, v, S
<1>8. /\ \A u \in Worker : conns'[u] = IF u = w THEN c ELSE conns[u]
      /\ \A q \in Resv : resvs'[q] = IF q = r THEN v ELSE resvs[q]
      /\ conns' \in [Worker -> Conn] /\ resvs' \in [Resv -> Reservation]
  BY <1>0, <1>1, <1>4, <1>5
<1>9. \A q \in Resv, u \in Worker : (q \in conns'[u].resv <=> resvs'[q].conn = u)
  BY <1>4, <1>5, <1>6, <1>8 DEF Tables, S
<1>10. \A q \in Resv : (resvs'[q].status # "none" <=> resvs'[q].conn # None)
  BY <1>5, <1>8, ExternalAssumption DEF Tables
<1>11. \A u \in Worker : conns'[u].up = "off" => conns'[u].resv = {}
  <2>1. \A u \in Worker : conns[u].up = "off" => conns[u].resv = {}
    BY Zenon DEF Tables
  <2> QED BY <1>1, <1>4, <1>8, <2>1, Zenon
<1>12. \A u \in Worker : Cardinality(conns'[u].resv) <= Capacity
  <2>1. Cardinality(S \cup {r}) <= Capacity
    <3> DEFINE n == Cardinality(S)
    <3>1. n \in Nat /\ Capacity \in Nat /\ n < Capacity
      BY <1>1, <1>3, ExternalAssumption, Zenon
    <3> HIDE DEF n
    <3>2. n + 1 <= Capacity
      BY <3>1
    <3> QED BY <1>7, <3>2, Zenon DEF n
  <2> QED BY <1>4, <1>8, <2>1, Zenon DEF Tables
<1> QED BY <1>8, <1>9, <1>10, <1>11, <1>12 DEF Tables, TablesTyped

\* A connection appears under a name that is off, and so held nothing.
LEMMA TablesConnect ==
  ASSUME Tables, NEW w \in Worker, Connect(w)
  PROVE  Tables'
<1> DEFINE c == [NoConn EXCEPT !.up = "live"]
<1>1. c \in Conn /\ c.resv = {} /\ c.up # "off"
  BY Zenon DEF NoConn, Conn
<1>2. conns[w].resv = {}
  BY DEF Connect, Tables
<1>3. conns' = [conns EXCEPT ![w] = c] /\ resvs' = resvs
  BY DEF Connect
<1> HIDE DEF c
<1> QED BY <1>1, <1>2, <1>3, TablesConn, Zenon

\* A connection is dropped with all it held.
LEMMA TablesDrop ==
  ASSUME Tables, NEW w \in Worker, DropConnection(w)
  PROVE  Tables'
<1>0. conns \in [Worker -> Conn] /\ resvs \in [Resv -> Reservation]
  BY DEF Tables, TablesTyped
<1>1. conns' = [conns EXCEPT ![w] = NoConn] /\ resvs' = ResvsWithout(w)
  BY DEF DropConnection
<1>2. NoConn \in Conn /\ NoConn.resv = {} /\ NoConn.up = "off"
  BY DEF NoConn, Conn
<1>3. NoResv \in Reservation /\ NoResv.conn = None /\ NoResv.status = "none"
  BY DEF NoResv, Reservation
<1> HIDE DEF NoConn, NoResv
<1>4. /\ \A u \in Worker : conns'[u] = IF u = w THEN NoConn ELSE conns[u]
      /\ \A q \in Resv : resvs'[q] = IF q \in conns[w].resv THEN NoResv ELSE resvs[q]
      /\ conns' \in [Worker -> Conn] /\ resvs' \in [Resv -> Reservation]
  BY <1>0, <1>1, <1>2, <1>3 DEF ResvsWithout
<1>5. \A q \in Resv, u \in Worker : (q \in conns'[u].resv <=> resvs'[q].conn = u)
  BY <1>2, <1>3, <1>4, ExternalAssumption DEF Tables
<1>6. \A q \in Resv : (resvs'[q].status # "none" <=> resvs'[q].conn # None)
  BY <1>3, <1>4 DEF Tables
<1>7. \A u \in Worker : conns'[u].up = "off" => conns'[u].resv = {}
  BY <1>2, <1>4 DEF Tables
<1>8. \A u \in Worker : Cardinality(conns'[u].resv) <= Capacity
  <2>1. Cardinality({}) = 0
    BY FS_EmptySet
  <2>2. Cardinality({}) <= Capacity
    BY <2>1, ExternalAssumption
  <2> QED BY <1>2, <1>4, <2>2, Zenon DEF Tables
<1> QED BY <1>4, <1>5, <1>6, <1>7, <1>8 DEF Tables, TablesTyped

\* The tables of a server that has just started.
LEMMA TablesEmpty ==
  /\ conns = [w \in Worker |-> NoConn] /\ resvs = [r \in Resv |-> NoResv] => Tables
  /\ conns' = [w \in Worker |-> NoConn] /\ resvs' = [r \in Resv |-> NoResv] => Tables'
<1>1. NoConn \in Conn /\ NoConn.resv = {}
  BY Zenon DEF NoConn, Conn
<1>2. NoResv \in Reservation /\ NoResv.conn = None /\ NoResv.status = "none"
  BY DEF NoResv, Reservation
<1>3. Cardinality({}) = 0
  BY FS_EmptySet
<1>4. Cardinality({}) <= Capacity
  BY <1>3, ExternalAssumption
<1> QED BY <1>1, <1>2, <1>4, ExternalAssumption, Zenon DEF Tables, TablesTyped

\* Every step of the system keeps the server's tables in agreement.
LEMMA StepTables ==
  ASSUME BookTyped, MailTyped, Tables, [Next]_vars
  PROVE  Tables'
<1>0. conns \in [Worker -> Conn] /\ resvs \in [Resv -> Reservation]
  BY DEF Tables, TablesTyped
<1>1. ASSUME UNCHANGED <<conns, resvs>>
      PROVE  Tables'
  BY <1>1 DEF Tables, TablesTyped
<1>2. ASSUME NEW r \in Resv, NEW result, Settle(r, result)
      PROVE  Tables'
  <2>1. UNCHANGED <<conns, resvs>> \/ ReleaseReservation(r)
    BY <1>2, Zenon DEF Settle, CloseEntry
  <2> QED BY <1>1, <2>1, TablesRelease
<1>3. CASE CompletionMsg
  <2>1. Head(mail).resv \in Resv
    BY <1>3, FirstMail DEF CompletionMsg
  <2> QED BY <1>2, <1>3, <2>1 DEF CompletionMsg
<1>4. ASSUME NEW r \in Resv, ExecutorTimeout(r)
      PROVE  Tables'
  BY <1>2, <1>4 DEF ExecutorTimeout
<1>5. ASSUME NEW j \in Job, Cancel(j)
      PROVE  Tables'
  <2>1. UNCHANGED <<conns, resvs>> \/ (executions[j] # None /\ ReleaseReservation(executions[j]))
    BY <1>5 DEF Cancel, CloseEntry
  <2>2. executions[j] # None => executions[j] \in Resv
    BY DEF BookTyped
  <2> QED BY <1>1, <2>1, <2>2, TablesRelease
<1>6. CASE \/ \E j \in Job : Insert(j) \/ Requeue(j)
           \/ Drain \/ DrainDeadline \/ Read \/ RefuseStart \/ StartLost
           \/ LateCompletionMsg \/ ServerReadyMsg \/ UNCHANGED vars
           \/ \E w \in Worker, r \in Resv : WorkerForgets(w, r)
  <2>1. UNCHANGED <<conns, resvs>>
    BY <1>6, Zenon DEF Insert, Requeue, Drain, DrainDeadline, Read, RefuseStart, StartLost,
                LateCompletionMsg, ServerReadyMsg, WorkerForgets, vars, server
  <2> QED BY <1>1, <2>1
<1>7. CASE StartExternal
  <2> DEFINE r == claiming.resv
  <2>1. /\ conns' = conns /\ resvs[r].status = "reserved"
        /\ resvs' = [resvs EXCEPT ![r].status = "inflight"]
    BY <1>7 DEF StartExternal
  <2>2. CASE r \in Resv
    BY <2>1, <2>2, TablesStatus, Zenon DEF Dispatched
  <2>3. CASE r \notin Resv
    BY <1>0, <1>1, <2>1, <2>3
  <2> QED BY <2>2, <2>3
<1>8. ASSUME NEW w \in Worker, NEW r \in Resv,
             \/ WorkerStarted(w, r)
             \/ \E result \in {"success", "failure"} : WorkerCompletes(w, r, result)
      PROVE  Tables'
  <2>1. /\ conns' = conns
        /\ \/ resvs' = resvs
           \/ resvs[r].status # "none" /\ \E s \in Dispatched : resvs' = [resvs EXCEPT ![r].status = s]
    BY <1>8 DEF WorkerStarted, WorkerCompletes, Reportable, Dispatched
  <2> QED BY <1>1, <2>1, TablesStatus
<1>9. ASSUME NEW w \in Worker, SetTasks(w) \/ Disconnect(w)
      PROVE  Tables'
  <2> DEFINE t == [conns[w] EXCEPT !.tasks = ~conns[w].tasks]
             d == [conns[w] EXCEPT !.up = "dying"]
  <2>1. conns[w].up = "live" /\ conns[w] \in Conn /\ resvs' = resvs
    BY <1>0, <1>9 DEF SetTasks, Disconnect
  <2>2. /\ t \in Conn /\ t.resv = conns[w].resv /\ t.up # "off"
        /\ d \in Conn /\ d.resv = conns[w].resv /\ d.up # "off"
    BY <2>1, Zenon DEF Conn
  <2>3. conns' = [conns EXCEPT ![w] = t] \/ conns' = [conns EXCEPT ![w] = d]
    BY <1>0, <1>9 DEF SetTasks, Disconnect
  <2> HIDE DEF t, d
  <2> QED BY <2>1, <2>2, <2>3, TablesConn
<1>10. CASE ServerRestarts
  <2>1. conns' = [w \in Worker |-> NoConn] /\ resvs' = [r \in Resv |-> NoResv]
    BY <1>10 DEF ServerRestarts
  <2> QED BY <2>1, TablesEmpty
<1>11. CASE Next
  BY <1>3, <1>4, <1>5, <1>6, <1>7, <1>8, <1>9, <1>10, <1>11,
     TablesReserve, TablesConnect, TablesDrop DEF Next
<1> QED BY <1>6, <1>11

---------------------------------------------------------------------------
(* The mailbox *)

\* Every message is a report of a reservation, or the word of a new server.
LEMMA StepMail ==
  ASSUME MailTyped, TablesTyped, [Next]_vars
  PROVE  MailTyped'
<1>0. gen \in Nat /\ mail \in Seq(Message)
  BY DEF MailTyped
<1>1. ASSUME gen' = gen, mail' = mail \/ (mail # << >> /\ mail' = Tail(mail))
      PROVE  MailTyped'
  BY <1>0, <1>1 DEF MailTyped
<1>2. ASSUME NEW m \in Message, gen' \in Nat, mail' = Append(mail, m)
      PROVE  MailTyped'
  BY <1>0, <1>2 DEF MailTyped
<1>3. \A r \in Resv, kind \in Result : Report(kind, r) \in Message
  BY <1>0 DEF Report, Message
<1>4. ASSUME NEW w \in Worker, DropConnection(w)
      PROVE  MailTyped'
  <2>1. LostOf(w) \subseteq Resv /\ "lost" \in Result
    BY Holdings DEF LostOf, Result
  <2>2. IsFiniteSet(LostOf(w))
    BY <2>1, FS_Subset, ExternalAssumption
  <2>3. Cardinality(LostOf(w)) \in Nat
    BY <2>2, FS_CardinalityType
  <2>4. PICK lost \in Orders(LostOf(w)) :
          mail' = mail \o [i \in DOMAIN lost |-> Report("lost", lost[i])]
    BY <1>4, Zenon DEF DropConnection
  <2> DEFINE sent == [i \in DOMAIN lost |-> Report("lost", lost[i])]
  <2>5. lost \in [1..Cardinality(LostOf(w)) -> Resv]
    BY <2>1, <2>4 DEF Orders
  <2>6. sent \in [1..Cardinality(LostOf(w)) -> Message]
    BY <1>3, <2>1, <2>5
  <2>7. mail' = mail \o sent
    BY <2>4
  <2> HIDE DEF sent
  <2>8. sent \in Seq(Message)
    BY <2>3, <2>6
  <2>9. \A a, b \in Seq(Message) : a \o b \in Seq(Message)
    OBVIOUS
  <2>10. mail' \in Seq(Message)
    BY <1>0, <2>7, <2>8, <2>9
  <2> QED BY <1>0, <1>4, <2>10 DEF DropConnection, MailTyped
<1>5. ASSUME NEW w \in Worker, NEW r \in Resv, NEW result \in {"success", "failure"},
             WorkerCompletes(w, r, result)
      PROVE  MailTyped'
  <2>1. result \in Result
    BY DEF Result
  <2>2. gen' = gen /\ (mail' = mail \/ mail' = Append(mail, Report(result, r)))
    BY <1>5 DEF WorkerCompletes
  <2> QED BY <1>0, <1>1, <1>2, <1>3, <2>1, <2>2
<1>6. CASE ServerRestarts
  <2>1. gen + 1 \in Nat
    BY <1>0
  <2>2. [kind |-> "ready", resv |-> None, gen |-> gen + 1] \in Message
    BY <2>1 DEF Message
  <2> QED BY <1>2, <1>6, <2>1, <2>2 DEF ServerRestarts
<1>7. CASE CompletionMsg \/ LateCompletionMsg \/ ServerReadyMsg
  <2>1. gen' = gen /\ mail # << >> /\ mail' = Tail(mail)
    BY <1>7, Zenon DEF CompletionMsg, LateCompletionMsg, ServerReadyMsg, server
  <2> QED BY <1>1, <2>1
<1>8. CASE \/ \E j \in Job : Insert(j) \/ Requeue(j) \/ Cancel(j)
           \/ Drain \/ DrainDeadline \/ Read \/ RefuseStart \/ StartLost \/ StartExternal
           \/ \E r \in Resv : ExecutorTimeout(r)
           \/ UNCHANGED vars
  <2>1. gen' = gen /\ mail' = mail
    BY <1>8, Zenon DEF Insert, Requeue, Cancel, Drain, DrainDeadline, Read, RefuseStart, StartLost,
                StartExternal, ExecutorTimeout, vars, server
  <2> QED BY <1>1, <2>1
<1>9. CASE \/ \E j \in Job, w \in Worker, r \in Resv : Reserve(j, w, r)
           \/ \E w \in Worker : Connect(w) \/ SetTasks(w) \/ Disconnect(w)
           \/ \E w \in Worker, r \in Resv : WorkerStarted(w, r) \/ WorkerForgets(w, r)
  <2>1. gen' = gen /\ mail' = mail
    BY <1>9 DEF Reserve, Connect, SetTasks, Disconnect, WorkerStarted, WorkerForgets, server
  <2> QED BY <1>1, <2>1
<1> QED BY <1>4, <1>5, <1>6, <1>7, <1>8, <1>9 DEF Next

---------------------------------------------------------------------------
(* Slots and reserve *)

Counts ==
  phase \in Mode => /\ reserve = Cardinality(Executing) /\ slots = Cardinality(Entries)
                    /\ reserve \in Nat /\ slots \in Nat

\* Every effect of a step keeps the slot counter and the reserve exact.
LEMMA EffectCounts ==
  ASSUME JobsInv, BookTyped, Owners, Counts, Effect
  PROVE  Counts'
<1>0. /\ running \in [Resv -> Entry] /\ executions \in [Job -> Resv \cup {None}]
      /\ jobs \in [Job -> JobRecord] /\ None \notin Job /\ None \notin Resv
  BY ExternalAssumption DEF BookTyped, JobsInv
<1>1. IsFiniteSet(Executing) /\ IsFiniteSet(Entries)
  <2>1. Executing \subseteq Job /\ Entries \subseteq Resv
    BY DEF Executing, Entries
  <2> QED BY <2>1, FS_Subset, ExternalAssumption
<1>2. CASE Quiet
  <2>1. Executing' = Executing /\ Entries' = Entries
    BY <1>2 DEF Quiet, Executing, Entries
  <2> QED BY <1>2, <2>1 DEF Quiet, Counts
<1>3. CASE Stop
  BY <1>3 DEF Stop, Counts, Mode
<1>4. ASSUME NEW j \in Job, NEW c \in JobRecord, Rewrite(j, c)
      PROVE  Counts'
  <2>1. \A i \in Job : jobs'[i] = IF i = j THEN c ELSE jobs[i]
    BY <1>0, <1>4 DEF Rewrite, Changed
  <2>2. Executing' = Executing /\ Entries' = Entries
    BY <1>4, <2>1 DEF Rewrite, Executing, Entries
  <2> QED BY <1>4, <2>2 DEF Rewrite, Counts
<1>5. ASSUME NEW j \in Job, NEW r \in Resv, Begin(j, r)
      PROVE  Counts'
  <2> DEFINE c == Started(jobs[j])
             e == [job |-> j, exec |-> c.exec]
  <2>1. /\ phase \in Mode /\ jobs[j].state # "executing" /\ running[r].job = None
        /\ running' = [running EXCEPT ![r] = e] /\ jobs' = [jobs EXCEPT ![j] = c]
        /\ slots' = slots + 1 /\ reserve' = reserve + 1
    BY <1>5, Zenon DEF Begin, Changed
  <2>2. c.state = "executing" /\ e.job = j
    BY <1>0, StartedFacts
  <2> HIDE DEF c, e
  <2>3. /\ \A i \in Job : jobs'[i] = IF i = j THEN c ELSE jobs[i]
        /\ \A q \in Resv : running'[q] = IF q = r THEN e ELSE running[q]
    BY <1>0, <2>1
  <2>4. Executing' = Executing \cup {j} /\ j \notin Executing
    BY <2>1, <2>2, <2>3 DEF Executing
  <2>5. Entries' = Entries \cup {r} /\ r \notin Entries
    BY <1>0, <2>1, <2>2, <2>3 DEF Entries
  <2>6. /\ Cardinality(Executing \cup {j}) = Cardinality(Executing) + 1
        /\ Cardinality(Entries \cup {r}) = Cardinality(Entries) + 1
    BY <1>1, <2>4, <2>5, FS_AddElement, Zenon
  <2> QED BY <2>1, <2>4, <2>5, <2>6 DEF Counts
<1>6. ASSUME NEW r \in Resv, NEW c \in JobRecord, Close(r, c)
      PROVE  Counts'
  <2> DEFINE j == running[r].job
  <2>1. /\ phase \in Mode /\ c.state # "executing" /\ j # None
        /\ running' = [running EXCEPT ![r] = NoEntry] /\ jobs' = [jobs EXCEPT ![j] = c]
        /\ slots' = (IF slots = 0 THEN 0 ELSE slots - 1) /\ reserve' = reserve - 1
    BY <1>6 DEF Close, Changed
  <2>2. j \in Job /\ jobs[j].state = "executing"
    BY <1>6, CloseFacts, Zenon
  <2>3. NoEntry.job = None /\ r \in Entries /\ j \in Executing
    BY <2>1, <2>2 DEF NoEntry, Entries, Executing
  <2> HIDE DEF j
  <2>4. /\ \A i \in Job : jobs'[i] = IF i = j THEN c ELSE jobs[i]
        /\ \A q \in Resv : running'[q] = IF q = r THEN NoEntry ELSE running[q]
    BY <1>0, <2>1
  <2>5. Executing' = Executing \ {j}
    BY <2>1, <2>2, <2>4 DEF Executing
  <2>6. Entries' = Entries \ {r}
    BY <2>3, <2>4 DEF Entries
  <2>7. /\ Cardinality(Executing \ {j}) = Cardinality(Executing) - 1
        /\ Cardinality(Entries \ {r}) = Cardinality(Entries) - 1
    BY <1>1, <2>3, FS_RemoveElement, Zenon
  <2>8. Cardinality(Executing \ {j}) \in Nat /\ Cardinality(Entries \ {r}) \in Nat
    BY <1>1, FS_RemoveElement, FS_CardinalityType, Zenon
  <2>9. reserve = Cardinality(Executing) /\ slots = Cardinality(Entries) /\ slots \in Nat
    BY <2>1 DEF Counts
  <2>10. reserve' = Cardinality(Executing \ {j}) /\ slots' = Cardinality(Entries \ {r})
    BY <2>1, <2>7, <2>8, <2>9
  <2> QED BY <2>5, <2>6, <2>8, <2>10 DEF Counts
<1> QED BY <1>2, <1>3, <1>4, <1>5, <1>6 DEF Effect

---------------------------------------------------------------------------
(* The theorems *)

IInv == JobsInv /\ BookTyped /\ MailTyped /\ Owners /\ ClaimOk /\ Tables /\ Counts

\* The invariant holds when the engine starts on its journal.
LEMMA InitIInv == Init => IInv
<1> SUFFICES ASSUME Init PROVE IInv
  OBVIOUS
<1>1. WellFormed(Absent) /\ Absent \in JobRecord /\ Absent.state = "absent"
  BY AbsentWellFormed DEF WellFormed, Absent
<1>2. NoEntry \in Entry /\ NoEntry.job = None
  BY DEF NoEntry, Entry
<1>3. JobsInv
  BY <1>1 DEF Init, JobsInv
<1>4. BookTyped /\ MailTyped
  BY <1>2 DEF Init, BookTyped, MailTyped
<1>5. /\ \A j \in Job : jobs[j].state = "absent" /\ executions[j] = None
      /\ \A r \in Resv : running[r].job = None
      /\ held = {} /\ slots = 0 /\ reserve = 0
  BY <1>1, <1>2 DEF Init
<1>6. Owners /\ ClaimOk
  BY <1>5, Zenon DEF Owners, ClaimOk, Init
<1>7. Tables
  BY TablesEmpty DEF Init
<1>8. Executing = {} /\ Entries = {}
  BY <1>5 DEF Executing, Entries
<1>9. Counts
  BY <1>5, <1>8, FS_EmptySet DEF Counts
<1> QED BY <1>3, <1>4, <1>6, <1>7, <1>9 DEF IInv

\* Every step of the system keeps the invariant.
LEMMA StepIInv ==
  ASSUME IInv, [Next]_vars
  PROVE  IInv' /\ \A j \in Job : Allowed(jobs[j], jobs'[j])
<1>1. JobsInv /\ BookTyped /\ MailTyped /\ Owners /\ ClaimOk /\ Tables /\ Counts /\ TablesTyped
  BY DEF IInv, Tables
<1>2. Effect
  BY <1>1, StepEffect
<1>3. JobsInv' /\ \A j \in Job : Allowed(jobs[j], jobs'[j])
  BY <1>1, <1>2, EffectJobs
<1>4. BookTyped' /\ Owners' /\ Counts'
  BY <1>1, <1>2, EffectTyped, EffectOwners, EffectCounts
<1>5. MailTyped' /\ Tables' /\ ClaimOk'
  BY <1>1, StepMail, StepTables, StepClaim
<1> QED BY <1>3, <1>4, <1>5 DEF IInv

\* For any number of jobs, workers, reservations and slots, whatever order
\* completions, losses, timeouts, cancellations, disconnects and restarts of
\* the server arrive in: the server's two tables agree and no worker is given
\* more than its capacity, and every executing job has the one entry that
\* settles it, counted once in slots and reserve (server.ex reserve, dispatch,
\* release and drop_connection, dispatcher.ex settle).
THEOREM ExternalBooksAgree == Spec => []BooksAgree
<1>1. IInv => BooksAgree
  <2> SUFFICES ASSUME IInv PROVE BooksAgree
    OBVIOUS
  <2>1. /\ Owners /\ Counts /\ ServerTablesAgree /\ running \in [Resv -> Entry]
        /\ executions \in [Job -> Resv \cup {None}] /\ held \in SUBSET Job
    BY TablesAgree DEF IInv, BookTyped
  <2>2. ASSUME phase \in Mode
        PROVE  /\ \A j \in Executing : executions[j] \in Entries /\ running[executions[j]].job = j
               /\ \A r \in Entries : /\ CanFinish(jobs[running[r].job], running[r].exec)
                                     /\ executions[running[r].job] = r
               /\ \A j \in Executing : j \in held
               /\ \A j \in held \ Executing : jobs[j].state = "cancelled"
    <3>1. \A j \in Executing : /\ j \in Job /\ j # None /\ j \in held
                               /\ executions[j] \in Resv /\ running[executions[j]].job = j
      <4> SUFFICES ASSUME NEW j \in Executing
                   PROVE  /\ j \in Job /\ j # None /\ j \in held
                          /\ executions[j] \in Resv /\ running[executions[j]].job = j
        OBVIOUS
      <4>1. j \in Job /\ jobs[j].state = "executing"
        BY DEF Executing
      <4>2. j # None
        BY <4>1, ExternalAssumption, Zenon
      <4> QED BY <2>1, <2>2, <4>1, <4>2 DEF Owners
    <3>2. \A r \in Entries : /\ CanFinish(jobs[running[r].job], running[r].exec)
                             /\ executions[running[r].job] = r
      BY <2>1, <2>2 DEF Owners, Entries
    <3>3. \A j \in held \ Executing : jobs[j].state = "cancelled"
      BY <2>1, <2>2 DEF Owners, Executing
    <3> QED BY <3>1, <3>2, <3>3 DEF Entries
  <2> QED BY <2>1, <2>2 DEF BooksAgree, OneOwner, Counts
<1>2. IInv /\ [Next]_vars => IInv'
  BY StepIInv
<1> QED BY <1>1, <1>2, InitIInv, PTL DEF Spec

\* A step allowed to one record is a step of the contract, or none.
LEMMA AllowedIsContract ==
  ASSUME NEW j \in Job, Allowed(jobs[j], jobs'[j])
  PROVE  Contract!JobStep(j) \/ Contract!Same(j)
<1> DEFINE p == jobs[j]
           q == jobs'[j]
<1>1. CASE Kept(p, q)
  BY <1>1, Zenon DEF Kept, Contract!Same
<1>2. CASE Accepted(p, q)
  BY <1>2, Zenon DEF Accepted, Contract!JobStep, Contract!Accept
<1>3. CASE Vanished(p, q)
  BY <1>3, Zenon DEF Vanished, Contract!JobStep, Contract!Vanish
<1>4. CASE Failed(p, q)
  BY <1>4, Zenon DEF Failed, Moves, Contract!JobStep, Contract!Fail, Contract!Move
<1>5. CASE Moves(p, q, {"waiting"}, "running", Charged(p))
  BY <1>5, Zenon DEF Moves, Contract!JobStep, Contract!Begin, Contract!Move
<1>6. CASE Moves(p, q, {"running"}, "completed", 0)
  BY <1>6, Zenon DEF Moves, Contract!JobStep, Contract!Succeed, Contract!Move
<1>7. CASE Moves(p, q, {"running"}, "waiting", Charged(p))
  BY <1>7, Zenon DEF Moves, Contract!JobStep, Contract!Interrupt, Contract!Move
<1>8. CASE Moves(p, q, {"waiting", "running"}, "cancelled", 0)
  BY <1>8, Zenon DEF Moves, Contract!JobStep, Contract!Withdraw, Contract!Move
<1>9. CASE Moves(p, q, {"discarded"}, "waiting", 0)
  BY <1>9, Zenon DEF Moves, Contract!JobStep, Contract!Revive, Contract!Move
<1> QED BY <1>1, <1>2, <1>3, <1>4, <1>5, <1>6, <1>7, <1>8, <1>9, Zenon DEF Allowed

\* For any number of jobs, workers, reservations and attempts, what clients see
\* of externally executed jobs is a behaviour of the job contract: a report that
\* is late, repeated or sent through a later connection charges nothing, and a
\* lost dispatch leaves the job as it was (dispatcher.ex settle_job and
\* start_external, engine.ex executor_completion).
THEOREM ExternalKeepsContract == Spec => KeepsContract
<1>1. Init => Contract!Init
  <2> SUFFICES ASSUME Init PROVE Contract!Init
    OBVIOUS
  <2>1. jobs = [j \in Job |-> Absent] /\ Absent.dur = "persistent"
    BY DEF Init, Absent
  <2>2. \A j \in Job : /\ Status(jobs[j]) = "absent" /\ Charged(jobs[j]) = 0
                        /\ jobs[j].dur = "persistent"
    BY <2>1, AbsentWellFormed
  <2> QED BY <2>2, Zenon DEF Contract!Init
<1>2. IInv /\ [Next]_vars => IInv' /\ [Contract!Next]_(Contract!vars)
  <2> SUFFICES ASSUME IInv, [Next]_vars PROVE IInv' /\ Contract!Next
    OBVIOUS
  <2>1. IInv' /\ \A j \in Job : Contract!JobStep(j) \/ Contract!Same(j)
    BY StepIInv, AllowedIsContract, Zenon
  <2> QED BY <2>1 DEF Contract!Next
<1> QED BY <1>1, <1>2, InitIInv, PTL DEF Spec, KeepsContract, Contract!Spec

=============================================================================

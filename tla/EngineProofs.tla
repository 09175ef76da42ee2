---------------------------- MODULE EngineProofs ----------------------------
(***************************************************************************)
(* The settlement reserve of the Engine, for every number of jobs, relays,   *)
(* slots, attempts and records: the reserves count exactly the executing     *)
(* jobs, and the history always has room to settle each of them.  With it,   *)
(* that each execution has one owner.                                        *)
(***************************************************************************)
EXTENDS ExecutionProofs, FiniteSetTheorems

\* The provers that a step is tried with, in this order.
USE SMT, Zenon, Z3

---------------------------------------------------------------------------
(* What one mutation does to the counts *)

\* The executing jobs, and the persistent ones among them, are finite sets.
LEMMA CountsFinite ==
  ASSUME NEW js
  PROVE  /\ IsFiniteSet(Executing(js)) /\ Cardinality(Executing(js)) \in Nat
         /\ IsFiniteSet(PersistentExecuting(js))
         /\ Cardinality(PersistentExecuting(js)) \in Nat
<1>1. Executing(js) \subseteq Job /\ PersistentExecuting(js) \subseteq Job
  BY DEF Executing, PersistentExecuting
<1> QED BY <1>1, EngineAssumption, FS_Subset, FS_CardinalityType

\* Counting after one record is replaced: a set loses or gains its job.
LEMMA CountOne ==
  ASSUME NEW S, IsFiniteSet(S), NEW j, NEW T, T = S \cup {j} \/ T = S \ {j}
  PROVE  Cardinality(T) = IF j \in S
                          THEN IF T = S \cup {j} THEN Cardinality(S) ELSE Cardinality(S) - 1
                          ELSE IF T = S \ {j} THEN Cardinality(S) ELSE Cardinality(S) + 1
<1>1. CASE T = S \cup {j} /\ j \in S
  <2>1. T = S /\ T # S \ {j}
    BY <1>1
  <2> QED BY <1>1, <2>1
<1>2. CASE T = S \cup {j} /\ j \notin S
  <2>1. T # S \ {j}
    BY <1>2
  <2>2. Cardinality(S \cup {j}) = Cardinality(S) + 1
    BY <1>2, FS_AddElement
  <2> QED BY <1>2, <2>1, <2>2
<1>3. CASE T = S \ {j} /\ j \in S
  <2>1. T # S \cup {j}
    BY <1>3
  <2>2. Cardinality(S \ {j}) = Cardinality(S) - 1
    BY <1>3, FS_RemoveElement
  <2> QED BY <1>3, <2>1, <2>2
<1>4. CASE T = S \ {j} /\ j \notin S
  <2>1. S \ {j} = S
    BY <1>4
  <2> QED BY <1>4, <2>1
<1> QED BY <1>1, <1>2, <1>3, <1>4

\* Replacing the record of j changes membership of j only.
LEMMA ReplaceOne ==
  ASSUME NEW js \in [Job -> JobRecord], NEW j \in Job, NEW c \in JobRecord
  PROVE  LET new == [js EXCEPT ![j] = c] IN
         /\ new \in [Job -> JobRecord]
         /\ Executing(new) = IF c.state = "executing" THEN Executing(js) \cup {j}
                             ELSE Executing(js) \ {j}
         /\ PersistentExecuting(new) =
              IF c.state = "executing" /\ c.dur = "persistent"
              THEN PersistentExecuting(js) \cup {j}
              ELSE PersistentExecuting(js) \ {j}
BY DEF Executing, PersistentExecuting

\* What a mutation of each kind does to the record of j.
Mutates(js, j, c, kind) ==
  /\ js[j].state = "executing" => c.dur = js[j].dur
  /\ \/ kind = "start" /\ js[j].state # "executing" /\ c.state = "executing"
     \/ kind \in {"finish", "cancel"} /\ c.state # "executing"
     \/ kind \in {"insert", "retry"} /\ js[j].state # "executing" /\ c.state # "executing"

\* The jobs after the record of j is replaced by c.
Replaced(js, new, j, c) == js \in [Job -> JobRecord] /\ new = [js EXCEPT ![j] = c]

\* The reserves after it count the executing jobs.
Counted(js, new, j, c, kind) ==
  /\ new \in [Job -> JobRecord]
  /\ Cardinality(Executing(new)) =
       ReserveAfter(Cardinality(Executing(js)), js[j], kind)
  /\ Cardinality(PersistentExecuting(new)) =
       IF c.dur = "persistent"
       THEN ReserveAfter(Cardinality(PersistentExecuting(js)), js[j], kind)
       ELSE Cardinality(PersistentExecuting(js))

\* One mutation of one job, whatever its kind: the reserves still count the
\* executing jobs, and the room they need is still there.
LEMMA MutationCounts ==
  ASSUME NEW js, NEW new, NEW j \in Job, NEW c \in JobRecord, NEW kind,
         Replaced(js, new, j, c), Mutates(js, j, c, kind)
  PROVE  Counted(js, new, j, c, kind)
<1>0. js \in [Job -> JobRecord] /\ new = [js EXCEPT ![j] = c]
  BY DEF Replaced
<1> DEFINE E == Executing(js)
           P == PersistentExecuting(js)
<1>1. /\ IsFiniteSet(E) /\ Cardinality(E) \in Nat
      /\ IsFiniteSet(P) /\ Cardinality(P) \in Nat
  BY CountsFinite
<1>2. /\ new \in [Job -> JobRecord]
      /\ Executing(new) = IF c.state = "executing" THEN E \cup {j} ELSE E \ {j}
      /\ PersistentExecuting(new) =
           IF c.state = "executing" /\ c.dur = "persistent" THEN P \cup {j} ELSE P \ {j}
  BY <1>0, ReplaceOne, Zenon
<1>3. /\ j \in E <=> js[j].state = "executing"
      /\ j \in P <=> js[j].state = "executing" /\ js[j].dur = "persistent"
  BY DEF Executing, PersistentExecuting
<1> HIDE DEF E, P
<1>4. Cardinality(Executing(new)) = ReserveAfter(Cardinality(E), js[j], kind)
  <2>1. CASE c.state = "executing"
    <3>1. kind = "start" /\ j \notin E
      BY <2>1, <1>3 DEF Mutates
    <3>2. Executing(new) = E \cup {j} /\ Executing(new) # E \ {j}
      BY <2>1, <1>2, <3>1
    <3>3. Cardinality(Executing(new)) = Cardinality(E) + 1
      BY <1>1, <3>1, <3>2, CountOne
    <3> QED BY <3>1, <3>3 DEF ReserveAfter
  <2>2. CASE c.state # "executing" /\ js[j].state = "executing"
    <3>1. kind \in {"finish", "cancel"} /\ j \in E
      BY <2>2, <1>3 DEF Mutates
    <3>2. Executing(new) = E \ {j} /\ Executing(new) # E \cup {j}
      BY <2>2, <1>2, <3>1
    <3>3. Cardinality(Executing(new)) = Cardinality(E) - 1
      BY <1>1, <3>1, <3>2, CountOne
    <3> QED BY <3>1, <3>3, <2>2 DEF ReserveAfter
  <2>3. CASE c.state # "executing" /\ js[j].state # "executing"
    <3>1. kind # "start" /\ j \notin E
      BY <2>3, <1>3 DEF Mutates
    <3>2. Executing(new) = E
      BY <2>3, <1>2, <3>1
    <3> QED BY <3>1, <3>2, <2>3 DEF ReserveAfter
  <2> QED BY <2>1, <2>2, <2>3
<1>5. Cardinality(PersistentExecuting(new)) =
        IF c.dur = "persistent" THEN ReserveAfter(Cardinality(P), js[j], kind)
        ELSE Cardinality(P)
  <2>1. CASE c.dur # "persistent"
    <3>1. j \notin P
      BY <2>1, <1>3 DEF Mutates
    <3>2. PersistentExecuting(new) = P
      BY <2>1, <1>2, <3>1
    <3> QED BY <3>2, <2>1
  <2>2. CASE c.dur = "persistent" /\ c.state = "executing"
    <3>1. kind = "start" /\ j \notin P
      BY <2>2, <1>3 DEF Mutates
    <3>2. PersistentExecuting(new) = P \cup {j} /\ PersistentExecuting(new) # P \ {j}
      BY <2>2, <1>2, <3>1
    <3>3. Cardinality(PersistentExecuting(new)) = Cardinality(P) + 1
      BY <1>1, <3>1, <3>2, CountOne
    <3> QED BY <3>1, <3>3, <2>2 DEF ReserveAfter
  <2>3. CASE c.dur = "persistent" /\ c.state # "executing" /\ js[j].state = "executing"
    <3>1. kind \in {"finish", "cancel"} /\ j \in P
      BY <2>3, <1>3 DEF Mutates
    <3>2. PersistentExecuting(new) = P \ {j} /\ PersistentExecuting(new) # P \cup {j}
      BY <2>3, <1>2, <3>1
    <3>3. Cardinality(PersistentExecuting(new)) = Cardinality(P) - 1
      BY <1>1, <3>1, <3>2, CountOne
    <3> QED BY <3>1, <3>3, <2>3 DEF ReserveAfter
  <2>4. CASE c.dur = "persistent" /\ c.state # "executing" /\ js[j].state # "executing"
    <3>1. kind # "start" /\ j \notin P
      BY <2>4, <1>3 DEF Mutates
    <3>2. PersistentExecuting(new) = P
      BY <2>4, <1>2, <3>1
    <3> QED BY <3>1, <3>2, <2>4 DEF ReserveAfter
  <2> QED BY <2>1, <2>2, <2>3, <2>4
<1> QED BY <1>2, <1>4, <1>5 DEF Counted, E, P

---------------------------------------------------------------------------
(* The inductive invariant.  ReservesExact and SettlementNeverRefused are not *)
(* inductive alone: the reserves of a new generation are counted from a log   *)
(* in which every job is persistent, and a settlement is of a job that an     *)
(* entry names.                                                               *)

LedgerInv ==
  /\ jobs \in [Job -> JobRecord] /\ used \in Nat
  /\ ReservesExact
  /\ SettlementNeverRefused
  /\ phase = "down" => \A j \in Job : jobs[j].dur = "persistent"

Inv == LedgerInv /\ BookTyped

\* A commit that fits keeps the books, whatever kind of mutation it is.
LEMMA CommitKeeps ==
  ASSUME LedgerInv, phase # "down", phase' # "down", exit' = exit,
         NEW j \in Job, NEW c \in JobRecord, NEW kind,
         Mutates(jobs, j, c, kind),
         Fits(c.dur, ReserveAfter(preserve, jobs[j], kind)),
         Commit(j, kind, c)
  PROVE  LedgerInv'
<1> DEFINE n == Cardinality(Executing(jobs))
           p == Cardinality(PersistentExecuting(jobs))
<1>1. /\ jobs \in [Job -> JobRecord] /\ used \in Nat
      /\ reserve = n /\ preserve = p
      /\ used + p <= Limit /\ exit # "settlement_failed"
  BY DEF LedgerInv, ReservesExact, SettlementNeverRefused
<1>2. /\ jobs' \in [Job -> JobRecord]
      /\ Cardinality(Executing(jobs')) = ReserveAfter(n, jobs[j], kind)
      /\ Cardinality(PersistentExecuting(jobs')) =
           IF c.dur = "persistent" THEN ReserveAfter(p, jobs[j], kind) ELSE p
  <2>1. Replaced(jobs, jobs', j, c)
    BY <1>1 DEF Commit, Replaced
  <2>2. Counted(jobs, jobs', j, c, kind)
    BY <2>1, MutationCounts
  <2> QED BY <2>2 DEF Counted
<1> HIDE DEF n, p
<1>3. /\ reserve' = Cardinality(Executing(jobs'))
      /\ preserve' = Cardinality(PersistentExecuting(jobs'))
  BY <1>1, <1>2 DEF Commit
<1>4. Cardinality(PersistentExecuting(jobs')) \in Nat
  BY CountsFinite
<1>5. used' \in Nat /\ used' + Cardinality(PersistentExecuting(jobs')) <= Limit
  <2>1. CASE c.dur = "persistent"
    BY <2>1, <1>1, <1>2, <1>4, EngineAssumption DEF Commit, Fits
  <2>2. CASE c.dur # "persistent"
    BY <2>2, <1>1, <1>2 DEF Commit
  <2> QED BY <2>1, <2>2
<1> QED BY <1>1, <1>2, <1>3, <1>5 DEF LedgerInv, ReservesExact, SettlementNeverRefused

\* The room a settlement needs is there whenever it is due.
LEMMA FinishFits ==
  ASSUME LedgerInv, phase # "down", NEW j \in Job, jobs[j].state = "executing"
  PROVE  Fits(jobs[j].dur, ReserveAfter(preserve, jobs[j], "finish"))
<1>1. /\ preserve = Cardinality(PersistentExecuting(jobs)) /\ used \in Nat
      /\ used + Cardinality(PersistentExecuting(jobs)) <= Limit
  BY DEF LedgerInv, ReservesExact, SettlementNeverRefused
<1>2. Cardinality(PersistentExecuting(jobs)) \in Nat
  BY CountsFinite
<1> QED BY <1>1, <1>2, EngineAssumption DEF Fits, ReserveAfter

\* The end of a generation keeps the persistent jobs, and the room for them.
LEMMA ExitKeeps ==
  ASSUME NEW reason, reason # "settlement_failed", NEW js \in [Job -> JobRecord],
         used' \in Nat, used' + Cardinality(PersistentExecuting(js)) <= Limit,
         Exit(reason, js)
  PROVE  LedgerInv' /\ BookTyped'
<1>1. Absent \in JobRecord /\ Absent.dur = "persistent" /\ Absent.state # "executing"
  BY MaxAttemptsAssumption DEF Absent, JobRecord, Durability
<1>2. jobs' = [j \in Job |-> IF js[j].dur = "volatile" THEN Absent ELSE js[j]]
  BY DEF Exit
<1>3. \A j \in Job : js[j].dur \in {"persistent", "volatile"}
  BY DEF JobRecord, Durability
<1>4. jobs' \in [Job -> JobRecord] /\ \A j \in Job : jobs'[j].dur = "persistent"
  BY <1>1, <1>2, <1>3
<1>5. PersistentExecuting(jobs') = PersistentExecuting(js)
  BY <1>1, <1>2, <1>3 DEF PersistentExecuting, Executing
<1>6. phase' = "down" /\ exit' # "settlement_failed"
  BY DEF Exit
<1>7. BookTyped'
  BY DEF Exit, NoEntry, NewEntry, Entry, BookTyped
<1> QED BY <1>4, <1>5, <1>6, <1>7 DEF LedgerInv, ReservesExact, SettlementNeverRefused

\* The same when a mutation of j was committed just before the end.
LEMMA CommitThenExitKeeps ==
  ASSUME LedgerInv, phase # "down", NEW reason, reason # "settlement_failed",
         NEW j \in Job, NEW c \in JobRecord, NEW kind \in {"finish", "cancel"},
         c.dur = jobs[j].dur, c.state # "executing",
         Fits(jobs[j].dur, ReserveAfter(preserve, jobs[j], kind)),
         Exit(reason, [jobs EXCEPT ![j] = c]),
         used' = used + (IF jobs[j].dur = "persistent" THEN 1 ELSE 0)
  PROVE  LedgerInv' /\ BookTyped'
<1> DEFINE js == [jobs EXCEPT ![j] = c]
           p == Cardinality(PersistentExecuting(jobs))
<1>1. /\ jobs \in [Job -> JobRecord] /\ used \in Nat
      /\ preserve = p /\ used + p <= Limit
  BY DEF LedgerInv, ReservesExact, SettlementNeverRefused
<1>2. /\ js \in [Job -> JobRecord]
      /\ Cardinality(PersistentExecuting(js)) =
           IF c.dur = "persistent" THEN ReserveAfter(p, jobs[j], kind) ELSE p
  <2>1. Mutates(jobs, j, c, kind)
    BY DEF Mutates
  <2>2. Replaced(jobs, js, j, c)
    BY <1>1 DEF Replaced
  <2> HIDE DEF js
  <2>3. Counted(jobs, js, j, c, kind)
    BY <2>1, <2>2, MutationCounts
  <2> QED BY <2>3 DEF Counted
<1>3. Cardinality(PersistentExecuting(js)) \in Nat
  BY CountsFinite
<1> HIDE DEF js, p
<1>4. used' \in Nat /\ used' + Cardinality(PersistentExecuting(js)) <= Limit
  <2>1. CASE c.dur = "persistent"
    BY <2>1, <1>1, <1>2, <1>3, EngineAssumption DEF Fits
  <2>2. CASE c.dur # "persistent"
    BY <2>2, <1>1, <1>2, <1>3, EngineAssumption
  <2> QED BY <2>1, <2>2
<1>5. Exit(reason, js)
  BY DEF js
<1> QED BY <1>2, <1>4, <1>5, ExitKeeps

\* A step that leaves the ledger alone and the Engine up keeps the books.
LEMMA UnchangedKeeps ==
  ASSUME LedgerInv, UNCHANGED <<jobs, used, reserve, preserve>>, exit' = exit,
         phase' = "down" <=> phase = "down"
  PROVE  LedgerInv'
BY DEF LedgerInv, ReservesExact, SettlementNeverRefused, Executing, PersistentExecuting

---------------------------------------------------------------------------
(* Every step keeps the invariant *)

\* The commands of clients.
LEMMA CommandsKeep ==
  ASSUME Inv, Commands
  PROVE  Inv'
<1>0. /\ LedgerInv /\ BookTyped /\ jobs \in [Job -> JobRecord]
      /\ running \in [Relay -> Entry] /\ executions \in [Job -> Relay \cup {None}]
  BY DEF Inv, LedgerInv, BookTyped
<1>1. ASSUME NEW j \in Job, NEW dur \in Durability, NEW due \in BOOLEAN,
             Insert(j, dur, due)
      PROVE  Inv'
  <2> DEFINE c == Inserted(dur, due)
  <2>1. c \in JobRecord /\ c.state # "executing" /\ c.dur = dur
    BY InsertedFacts
  <2> HIDE DEF c
  <2>2. /\ phase # "down" /\ phase' # "down" /\ exit' = exit /\ UNCHANGED <<running, executions>>
        /\ jobs[j].state = "absent" /\ Fits(c.dur, preserve)
        /\ Commit(j, "insert", c)
    BY <1>1, <2>1 DEF Insert, book, c
  <2>3. Mutates(jobs, j, c, "insert") /\ ReserveAfter(preserve, jobs[j], "insert") = preserve
    BY <2>1, <2>2 DEF Mutates, ReserveAfter
  <2>4. LedgerInv'
    BY <1>0, <2>1, <2>2, <2>3, CommitKeeps
  <2> QED BY <1>0, <2>2, <2>4 DEF Inv, BookTyped
<1>2. ASSUME NEW j \in Job, Cancel(j)
      PROVE  Inv'
  <2> DEFINE c == Cancelled(jobs[j])
             r == executions[j]
  <2>1. c \in JobRecord /\ c.state # "executing" /\ c.dur = jobs[j].dur
    BY <1>0, CancelledFacts
  <2>2. Mutates(jobs, j, c, "cancel")
    BY <2>1 DEF Mutates
  <2>3. phase # "down" /\ Fits(c.dur, ReserveAfter(preserve, jobs[j], "cancel"))
    BY <1>2, <2>1 DEF Cancel, Mode
  <2>4. CASE /\ Commit(j, "cancel", c) /\ UNCHANGED book
             /\ CompleteDrains(phase, drainer) /\ exit' = exit
    <3>1. phase' # "down" /\ UNCHANGED <<running, executions>>
      BY <2>3, <2>4, CompleteDrainsUp DEF book
    <3>2. LedgerInv'
      BY <1>0, <2>1, <2>2, <2>3, <2>4, <3>1, CommitKeeps
    <3> QED BY <1>0, <3>1, <3>2 DEF Inv, BookTyped
  <2>5. CASE /\ Commit(j, "cancel", c) /\ CompleteDrains(phase, drainer) /\ exit' = exit
             /\ r \in Relay /\ FinishRuntime(r, [running EXCEPT ![r].settled = TRUE])
    <3>1. phase' # "down"
      BY <2>3, <2>5, CompleteDrainsUp
    <3>2. LedgerInv'
      BY <1>0, <2>1, <2>2, <2>3, <2>5, <3>1, CommitKeeps
    <3>3. BookTyped'
      BY <1>0, <2>5, EntriesTyped, Zenon
    <3> QED BY <3>2, <3>3 DEF Inv
  <2>6. CASE /\ Exit(IF relay[r].up = "ended" THEN "noproc" ELSE "relay_lost",
                     [jobs EXCEPT ![j] = c])
             /\ used' = used + (IF jobs[j].dur = "persistent" THEN 1 ELSE 0)
    <3> DEFINE reason == IF relay[r].up = "ended" THEN "noproc" ELSE "relay_lost"
    <3>1. reason # "settlement_failed" /\ "cancel" \in {"finish", "cancel"}
      OBVIOUS
    <3>2. Exit(reason, [jobs EXCEPT ![j] = c])
      BY <2>6
    <3> HIDE DEF reason, c, r
    <3> QED BY <1>0, <2>1, <2>3, <2>6, <3>1, <3>2, CommitThenExitKeeps, Zenon DEF Inv
  <2>7. r \in Relay \cup {None}
    BY <1>0
  <2> HIDE DEF c
  <2> QED BY <1>2, <2>4, <2>5, <2>6, <2>7 DEF Cancel, c
<1>3. ASSUME NEW j \in Job, Retry(j)
      PROVE  Inv'
  <2> DEFINE c == Retried(jobs[j])
  <2>1. c \in JobRecord /\ c.state # "executing" /\ c.dur = jobs[j].dur
    BY <1>0, RetriedFacts
  <2> HIDE DEF c
  <2>2. /\ phase # "down" /\ exit' = exit /\ UNCHANGED <<running, executions>>
        /\ jobs[j].state # "executing" /\ Fits(c.dur, preserve)
        /\ Commit(j, "retry", c) /\ CompleteDrains(phase, drainer)
    BY <1>3, <2>1 DEF Retry, Mode, CanRetry, book, c
  <2>3. Mutates(jobs, j, c, "retry") /\ ReserveAfter(preserve, jobs[j], "retry") = preserve
    BY <2>1, <2>2 DEF Mutates, ReserveAfter
  <2>4. phase' # "down"
    BY <2>2, CompleteDrainsUp
  <2>5. LedgerInv'
    BY <1>0, <2>1, <2>2, <2>3, <2>4, CommitKeeps
  <2> QED BY <1>0, <2>2, <2>5 DEF Inv, BookTyped
<1>4. ASSUME Pause \/ Drain \/ DrainDeadline
      PROVE  Inv'
  <2>1. /\ phase # "down" /\ phase' # "down" /\ exit' = exit /\ UNCHANGED <<running, executions>>
        /\ UNCHANGED <<jobs, used, reserve, preserve>>
    BY <1>4, CompleteDrainsUp DEF Pause, Drain, DrainDeadline, Mode, ledger, book
  <2> QED BY <1>0, <2>1, UnchangedKeeps DEF Inv, BookTyped
<1> QED BY <1>1, <1>2, <1>3, <1>4 DEF Commands

\* One batch of the scheduler changes no executing job.
LEMMA SchedulerKeeps ==
  ASSUME LedgerInv, NEW R, NEW D \in SUBSET Job, ControlScheduler(R, D)
  PROVE  LedgerInv'
<1> DEFINE records == Cardinality({j \in D : jobs[j].dur = "persistent"})
<1>0. /\ jobs \in [Job -> JobRecord] /\ used \in Nat
      /\ phase = "ready" /\ phase' = "ready" /\ exit' = exit
      /\ reserve' = reserve /\ preserve' = preserve
      /\ used' = used + records /\ (records # 0 => used + records + preserve <= Limit)
      /\ jobs' = [j \in Job |-> IF j \in D THEN MadeAvailable(jobs[j]) ELSE jobs[j]]
      /\ \A j \in D : jobs[j].state # "executing"
  BY DEF LedgerInv, ControlScheduler, CanMakeAvailable
<1>1. /\ reserve = Cardinality(Executing(jobs))
      /\ preserve = Cardinality(PersistentExecuting(jobs))
      /\ used + Cardinality(PersistentExecuting(jobs)) <= Limit
      /\ exit # "settlement_failed"
  BY <1>0 DEF LedgerInv, ReservesExact, SettlementNeverRefused
<1>2. \A j \in Job : /\ MadeAvailable(jobs[j]) \in JobRecord
                      /\ MadeAvailable(jobs[j]).state = "available"
  BY <1>0, MadeAvailableFacts
<1>3. jobs' \in [Job -> JobRecord]
  BY <1>0, <1>2
<1>4. Executing(jobs') = Executing(jobs)
  BY <1>0, <1>2 DEF Executing
<1>5. PersistentExecuting(jobs') = PersistentExecuting(jobs)
  BY <1>0, <1>2, <1>4 DEF PersistentExecuting, Executing
<1>6. records \in Nat
  <2>1. {j \in D : jobs[j].dur = "persistent"} \subseteq Job
    OBVIOUS
  <2> QED BY <2>1, EngineAssumption, FS_Subset, FS_CardinalityType
<1> HIDE DEF records
<1>7. used' \in Nat /\ used' + Cardinality(PersistentExecuting(jobs)) <= Limit
  BY <1>0, <1>1, <1>6, CountsFinite, EngineAssumption
<1> QED BY <1>0, <1>1, <1>3, <1>4, <1>5, <1>7
        DEF LedgerInv, ReservesExact, SettlementNeverRefused

\* The controls: releases, the scheduler's batch and the claims of the queue.
LEMMA ControlsKeep ==
  ASSUME Inv, Controls
  PROVE  Inv'
<1>0. /\ LedgerInv /\ BookTyped /\ jobs \in [Job -> JobRecord] /\ used \in Nat
      /\ running \in [Relay -> Entry] /\ executions \in [Job -> Relay \cup {None}]
      /\ used + Cardinality(PersistentExecuting(jobs)) <= Limit
  BY DEF Inv, LedgerInv, BookTyped, SettlementNeverRefused
<1>1. ASSUME NEW R, ControlOnly(R)
      PROVE  Inv'
  <2>1. /\ phase' = phase /\ exit' = exit /\ executions' = executions
        /\ UNCHANGED <<jobs, used, reserve, preserve>>
        /\ running' = Released(running, R)
    BY <1>1 DEF ControlOnly, ledger
  <2>3. running' \in [Relay -> Entry]
    BY <1>0, <2>1, ReleasedTyped
  <2> QED BY <1>0, <2>1, <2>3, UnchangedKeeps DEF Inv, BookTyped
<1>2. ASSUME NEW R, ReleaseFails(R)
      PROVE  Inv'
  <2>1. Exit("release_failed", jobs) /\ used' = used
    BY <1>2 DEF ReleaseFails
  <2> QED BY <1>0, <2>1, ExitKeeps DEF Inv
<1>3. ASSUME NEW R, NEW D \in SUBSET Job, ControlScheduler(R, D)
      PROVE  Inv'
  <2>1. running' = Released(running, R) /\ executions' = executions
    BY <1>3 DEF ControlScheduler
  <2>2. running' \in [Relay -> Entry]
    BY <1>0, <2>1, ReleasedTyped
  <2> QED BY <1>0, <1>3, <2>1, <2>2, SchedulerKeeps DEF Inv, BookTyped
<1>4. ASSUME NEW j \in Job, NEW r \in Relay, NEW R, ClaimLocal(j, r, R)
      PROVE  Inv'
  <2> DEFINE c == Started(jobs[j])
             run == [running EXCEPT ![r] = NewEntry(j, c.exec, FALSE)]
  <2>1. c \in JobRecord /\ c.state = "executing" /\ c.dur = jobs[j].dur
    BY <1>0, StartedFacts
  <2>2. c.exec \in Nat
    BY <2>1 DEF JobRecord
  <2> HIDE DEF c
  <2>3. run \in [Relay -> Entry]
    BY <1>0, <2>2, ClaimTyped, Zenon
  <2>4. /\ Claimable(j) /\ Commit(j, "start", c) /\ running' = Released(run, R)
        /\ executions' = [executions EXCEPT ![j] = r]
        /\ phase' = phase /\ exit' = exit
    BY <1>4 DEF ClaimLocal, c
  <2> HIDE DEF run
  <2>5. BookTyped'
    BY <1>0, <2>3, <2>4, ReleasedTyped DEF BookTyped
  <2>6. /\ phase # "down" /\ phase' # "down" /\ jobs[j].state = "available"
        /\ Fits(c.dur, preserve + 1)
    BY <2>1, <2>4 DEF Claimable, CanStart
  <2>7. Mutates(jobs, j, c, "start") /\ ReserveAfter(preserve, jobs[j], "start") = preserve + 1
    BY <2>1, <2>6 DEF Mutates, ReserveAfter
  <2>8. LedgerInv'
    BY <1>0, <2>1, <2>4, <2>6, <2>7, CommitKeeps
  <2> QED BY <2>5, <2>8 DEF Inv
<1>5. ASSUME NEW j \in Job, NEW r \in Relay, NEW R, ClaimAbandoned(j, r, R)
      PROVE  Inv'
  <2> DEFINE run == Released(running, R)
  <2>1. /\ running' = [run EXCEPT ![r] = NewEntry(j, 0, TRUE)]
        /\ executions' = [executions EXCEPT ![j] = r]
        /\ phase' = phase /\ exit' = exit /\ UNCHANGED <<jobs, used, reserve, preserve>>
    BY <1>5 DEF ClaimAbandoned, ledger
  <2>2. run \in [Relay -> Entry]
    BY <1>0, ReleasedTyped
  <2> HIDE DEF run
  <2>3. [run EXCEPT ![r] = NewEntry(j, 0, TRUE)] \in [Relay -> Entry]
    BY <2>2, ClaimTyped, Zenon
  <2> QED BY <1>0, <2>1, <2>3, UnchangedKeeps, Zenon DEF Inv, BookTyped
<1> QED BY <1>1, <1>2, <1>3, <1>4, <1>5 DEF Controls

\* The Engine's handlers of relay messages.
LEMMA MessagesKeep ==
  ASSUME Inv, RelayMessages
  PROVE  Inv'
<1>0. /\ LedgerInv /\ BookTyped /\ jobs \in [Job -> JobRecord] /\ used \in Nat
      /\ running \in [Relay -> Entry] /\ executions \in [Job -> Relay \cup {None}]
      /\ used + Cardinality(PersistentExecuting(jobs)) <= Limit
  BY DEF Inv, LedgerInv, BookTyped, SettlementNeverRefused
<1>1. ASSUME NEW r \in Relay, StaleMsg(r)
      PROVE  Inv'
  <2>1. /\ phase # "down" /\ exit' = exit /\ UNCHANGED <<running, executions>>
        /\ UNCHANGED <<jobs, used, reserve, preserve>>
        /\ phase' = phase \/ CompleteDrains(phase, drainer)
    BY <1>1 DEF StaleMsg, Mode, ledger, book
  <2>2. phase' # "down"
    BY <2>1, CompleteDrainsUp
  <2> QED BY <1>0, <2>1, <2>2, UnchangedKeeps DEF Inv, BookTyped
<1>2. ASSUME NEW r \in Relay, OutcomeMsg(r)
      PROVE  Inv'
  <2> DEFINE j == running[r].job
             k == Head(chan[r]).kind
             c == Finished(jobs[j], k)
  <2>1. phase # "down" /\ j \in Job /\ jobs[j].state = "executing"
    BY <1>0, <1>2 DEF OutcomeMsg, Mode, Accepts, Current, CanFinish, Entry
  <2>2. c \in JobRecord /\ c.state # "executing" /\ c.dur = jobs[j].dur
    BY <1>0, <2>1, FinishedFacts
  <2>3. Fits(jobs[j].dur, ReserveAfter(preserve, jobs[j], "finish"))
    BY <1>0, <2>1, FinishFits
  <2>4. Mutates(jobs, j, c, "finish") /\ "finish" \in {"finish", "cancel"}
    BY <2>2 DEF Mutates
  <2>5. \/ /\ Commit(j, "finish", c) /\ exit' = exit
           /\ FinishRuntime(r, [running EXCEPT ![r].settled = TRUE])
           /\ CompleteDrains(phase, drainer)
        \/ /\ Exit("relay_lost", [jobs EXCEPT ![j] = c])
           /\ used' = used + (IF jobs[j].dur = "persistent" THEN 1 ELSE 0)
    BY <1>2, <2>3 DEF OutcomeMsg
  <2> HIDE DEF j, c
  <2>6. CASE /\ Commit(j, "finish", c) /\ exit' = exit
             /\ FinishRuntime(r, [running EXCEPT ![r].settled = TRUE])
             /\ CompleteDrains(phase, drainer)
    <3>1. phase' # "down"
      BY <2>1, <2>6, CompleteDrainsUp
    <3>2. Fits(c.dur, ReserveAfter(preserve, jobs[j], "finish"))
      BY <2>2, <2>3
    <3>3. LedgerInv'
      BY <1>0, <2>1, <2>2, <2>4, <2>6, <3>1, <3>2, CommitKeeps
    <3>4. BookTyped'
      BY <1>0, <2>6, EntriesTyped, Zenon
    <3> QED BY <3>3, <3>4 DEF Inv
  <2>7. CASE /\ Exit("relay_lost", [jobs EXCEPT ![j] = c])
             /\ used' = used + (IF jobs[j].dur = "persistent" THEN 1 ELSE 0)
    BY <1>0, <2>1, <2>2, <2>3, <2>4, <2>7, CommitThenExitKeeps, Zenon DEF Inv
  <2> QED BY <2>5, <2>6, <2>7
<1>3. ASSUME NEW r \in Relay, DeadMsg(r)
      PROVE  Inv'
  <2>1. CASE Exit("release_failed", jobs) /\ used' = used
    BY <1>0, <2>1, ExitKeeps DEF Inv
  <2>2. CASE /\ FinishRuntime(r, [running EXCEPT ![r].dead = TRUE])
             /\ UNCHANGED <<jobs, used, reserve, preserve>> /\ exit' = exit
             /\ phase # "down" /\ CompleteDrains(phase, drainer)
    <3>1. phase' # "down"
      BY <2>2, CompleteDrainsUp
    <3>2. BookTyped'
      BY <1>0, <2>2, EntriesTyped, Zenon
    <3> QED BY <1>0, <2>2, <3>1, <3>2, UnchangedKeeps DEF Inv
  <2> QED BY <1>3, <2>1, <2>2 DEF DeadMsg, Mode, ledger
<1>4. ASSUME NEW r \in Relay, DownMsg(r)
      PROVE  Inv'
  <2> DEFINE reason == IF relay[r].up = "ended" THEN "relay_ended" ELSE "relay_lost"
  <2>1. Exit(reason, jobs) /\ used' = used /\ reason # "settlement_failed"
    BY <1>4 DEF DownMsg
  <2> HIDE DEF reason
  <2> QED BY <1>0, <2>1, ExitKeeps DEF Inv
<1> QED BY <1>1, <1>2, <1>3, <1>4 DEF RelayMessages

\* Relays and tasks touch neither the books nor the ledger.
LEMMA ProcessesKeep ==
  ASSUME Inv, Processes
  PROVE  Inv'
<1>1. UNCHANGED engineSide
  BY Zenon DEF Processes, TaskReturns, TaskDies, RelayTimeout, RelayCrash, RelayResult, RelayTaskDown
<1>2. /\ UNCHANGED <<jobs, used, reserve, preserve>> /\ UNCHANGED <<running, executions>>
      /\ phase' = phase /\ exit' = exit
  BY <1>1 DEF engineSide, ledger, book
<1> QED BY <1>2, UnchangedKeeps DEF Inv, BookTyped

\* The loss of a generation, the recovery of the next one, and reconciliation.
LEMMA GenerationsKeep ==
  ASSUME Inv, Generations
  PROVE  Inv'
<1>0. /\ LedgerInv /\ BookTyped /\ jobs \in [Job -> JobRecord] /\ used \in Nat
      /\ used + Cardinality(PersistentExecuting(jobs)) <= Limit
      /\ exit # "settlement_failed"
  BY DEF Inv, LedgerInv, SettlementNeverRefused
<1>1. ASSUME Crash
      PROVE  Inv'
  <2>1. Exit("fault", jobs) /\ used' = used
    BY <1>1 DEF Crash
  <2> QED BY <1>0, <2>1, ExitKeeps DEF Inv
<1>2. ASSUME Recover
      PROVE  Inv'
  <2>1. /\ \A j \in Job : jobs[j].dur = "persistent"
        /\ phase' = "reconciling" /\ exit' = "none"
        /\ reserve' = Cardinality(Executing(jobs))
        /\ preserve' = Cardinality(Executing(jobs))
        /\ UNCHANGED <<jobs, used, running, executions>>
    BY <1>0, <1>2 DEF Recover, LedgerInv, book
  <2>2. PersistentExecuting(jobs) = Executing(jobs)
    BY <2>1 DEF PersistentExecuting, Executing
  <2>3. LedgerInv'
    BY <1>0, <2>1, <2>2, Zenon
       DEF LedgerInv, ReservesExact, SettlementNeverRefused, PersistentExecuting, Executing
  <2> QED BY <1>0, <2>1, <2>3 DEF Inv, BookTyped
<1>3. ASSUME BecomeReady
      PROVE  Inv'
  <2>1. /\ phase # "down" /\ phase' # "down" /\ exit' = exit
        /\ UNCHANGED <<jobs, used, reserve, preserve>> /\ UNCHANGED <<running, executions>>
    BY <1>3 DEF BecomeReady, ledger, book
  <2> QED BY <1>0, <2>1, UnchangedKeeps DEF Inv, BookTyped
<1>4. ASSUME NEW j \in Job, Reconcile(j)
      PROVE  Inv'
  <2> DEFINE c == Finished(jobs[j], "interrupted")
  <2>1. phase = "reconciling" /\ jobs[j].state = "executing"
    BY <1>4 DEF Reconcile
  <2>2. Fits(jobs[j].dur, ReserveAfter(preserve, jobs[j], "finish"))
    BY <1>0, <2>1, FinishFits
  <2>3. c \in JobRecord /\ c.state # "executing" /\ c.dur = jobs[j].dur
    BY <1>0, FinishedFacts
  <2>4. /\ Commit(j, "finish", c) /\ phase' = phase /\ exit' = exit
        /\ UNCHANGED <<running, executions>>
    BY <1>4, <2>2 DEF Reconcile, book
  <2> HIDE DEF c
  <2>5. Mutates(jobs, j, c, "finish") /\ Fits(c.dur, ReserveAfter(preserve, jobs[j], "finish"))
    BY <2>2, <2>3 DEF Mutates
  <2>6. LedgerInv'
    BY <1>0, <2>1, <2>3, <2>4, <2>5, CommitKeeps
  <2> QED BY <1>0, <2>4, <2>6 DEF Inv, BookTyped
<1> QED BY <1>1, <1>2, <1>3, <1>4 DEF Generations

\* The books are right at the start: nothing executes and nothing is written.
LEMMA InitKeeps == Init => Inv
<1> SUFFICES ASSUME Init PROVE Inv
  OBVIOUS
<1>1. Absent \in JobRecord /\ Absent.state # "executing" /\ Absent.dur = "persistent"
  BY MaxAttemptsAssumption DEF Absent, JobRecord, Durability
<1>2. jobs = [j \in Job |-> Absent] /\ used = 0 /\ reserve = 0 /\ preserve = 0
  BY DEF Init
<1>3. Executing(jobs) = {} /\ PersistentExecuting(jobs) = {}
  BY <1>1, <1>2 DEF Executing, PersistentExecuting
<1>4. Cardinality({}) = 0
  BY FS_EmptySet
<1>5. LedgerInv
  <2>1. exit = "none" /\ phase = "ready"
    BY DEF Init
  <2>2. jobs \in [Job -> JobRecord]
    BY <1>1, <1>2
  <2>3. 0 + 0 <= Limit
    BY EngineAssumption
  <2>4. ReservesExact /\ SettlementNeverRefused
    BY <1>2, <1>3, <1>4, <2>1, <2>3 DEF ReservesExact, SettlementNeverRefused
  <2> QED BY <1>2, <2>1, <2>2, <2>4 DEF LedgerInv
<1>6. BookTyped
  <2>1. NoEntry \in Entry
    BY DEF NoEntry, NewEntry, Entry
  <2> QED BY <2>1 DEF Init, BookTyped
<1> QED BY <1>5, <1>6 DEF Inv

\* The invariant is inductive: every message any process handles keeps it.
THEOREM Inductive == Spec => []Inv
<1>1. Inv /\ [Next]_vars => Inv'
  <2> SUFFICES ASSUME Inv, [Next]_vars PROVE Inv'
    OBVIOUS
  <2>1. CASE Next
    BY <2>1, CommandsKeep, ControlsKeep, MessagesKeep, ProcessesKeep, GenerationsKeep DEF Next
  <2>2. CASE UNCHANGED vars
    <3>1. /\ UNCHANGED <<jobs, used, reserve, preserve>> /\ UNCHANGED <<running, executions>>
          /\ phase' = phase /\ exit' = exit
      BY <2>2 DEF vars, ledger, book
    <3> QED BY <3>1, UnchangedKeeps DEF Inv, BookTyped
  <2> QED BY <2>1, <2>2
<1> QED BY <1>1, InitKeeps, PTL DEF Spec

\* For any number of jobs, relays and slots and any size of the history, the
\* two reserves of a live Engine count exactly the executing jobs, through
\* every interleaving of commands, outcomes, crashes and recoveries
\* (persistence.ex reservation_after, execution.ex reconcile).
THEOREM ReservesAlwaysExact == Spec => []ReservesExact
<1>1. Inv => ReservesExact
  BY DEF Inv, LedgerInv
<1> QED BY <1>1, Inductive, PTL

\* For any size of the history, no interleaving uses up the room that the
\* settlement of an execution in progress needs, and no generation ends
\* because a settlement did not fit (execution.ex settlement_fits).
THEOREM SettlementsAlwaysFit == Spec => []SettlementNeverRefused
<1>1. Inv => SettlementNeverRefused
  BY DEF Inv, LedgerInv
<1> QED BY <1>1, Inductive, PTL

---------------------------------------------------------------------------
(* One owner *)

\* The slots in use are the entries, and never more than the queue has.
Slots == slots \in Nat /\ slots = Cardinality(Entries(running)) /\ slots <= QueueLimit

\* The Engine starts with an empty running table and no slot counted.
LEMMA InitSlots == Init => Slots
<1> SUFFICES ASSUME Init PROVE Slots
  OBVIOUS
<1>1. \A r \in Relay : running[r].job = None
  BY DEF Init, NoEntry, NewEntry
<1>2. Entries(running) = {} /\ slots = 0
  BY <1>1 DEF Entries, Init
<1>3. Cardinality({}) = 0
  BY FS_EmptySet
<1> QED BY <1>2, <1>3, EngineAssumption DEF Slots

\* Every step of the engine changes the slot counter by the entries it adds to
\* or removes from the running table (execution.ex: the claim and finish_runtime).
LEMMA SlotsKept ==
  ASSUME Slots, SlotStep
  PROVE  Slots'
<1>1. IsFiniteSet(Entries(running)) /\ Cardinality({}) = 0
  <2>1. Entries(running) \subseteq Relay /\ IsFiniteSet(Relay)
    BY EngineAssumption DEF Entries
  <2> QED BY <2>1, FS_Subset, FS_EmptySet
<1>2. slots \in Nat /\ slots = Cardinality(Entries(running)) /\ slots <= QueueLimit /\ QueueLimit \in Nat
  BY EngineAssumption DEF Slots
<1>3. CASE slots' = slots /\ Entries(running') = Entries(running)
  BY <1>2, <1>3 DEF Slots
<1>4. CASE slots' = 0 /\ Entries(running') = {}
  BY <1>1, <1>2, <1>4 DEF Slots
<1>5. ASSUME slots < QueueLimit, slots' = slots + 1, NEW r \in Relay \ Entries(running),
             Entries(running') = Entries(running) \cup {r}
      PROVE  Slots'
  <2>1. Cardinality(Entries(running) \cup {r}) = Cardinality(Entries(running)) + 1
    BY <1>1, <1>5, FS_AddElement
  <2> QED BY <1>2, <1>5, <2>1 DEF Slots
<1>6. ASSUME slots' = slots - 1, NEW r \in Entries(running),
             Entries(running') = Entries(running) \ {r}
      PROVE  Slots'
  <2>1. Cardinality(Entries(running) \ {r}) = Cardinality(Entries(running)) - 1
    BY <1>1, <1>6, FS_RemoveElement
  <2>2. Cardinality(Entries(running) \ {r}) \in Nat
    <3>1. IsFiniteSet(Entries(running) \ {r})
      BY <1>1, FS_RemoveElement
    <3> QED BY <3>1, FS_CardinalityType
  <2> QED BY <1>2, <1>6, <2>1, <2>2 DEF Slots
<1> QED BY <1>3, <1>4, <1>5, <1>6 DEF SlotStep

\* For any number of jobs, relays and slots, through every interleaving of
\* commands, relays, tasks, crashes and restarts: each executing job has one
\* entry, which is its last start and not settled; slots and holds are those of
\* the entries and never exceed the queue's limit; and no two tasks of one job
\* are ever alive together, not even across a crash of the Engine
\* (execution.ex start_waiting, finish_runtime, terminate_tasks).
THEOREM ExecutionsExclusive == Spec => []Exclusive
<1>1. Init => Ownership /\ Slots
  BY InitOwnership, InitSlots
<1>2. Ownership /\ Slots /\ [Next]_vars => (Ownership /\ Slots)'
  <2> SUFFICES ASSUME Ownership, Slots, [Next]_vars PROVE Ownership' /\ Slots'
    OBVIOUS
  <2>1. SlotStep
    BY StepSlots DEF Ownership
  <2> QED BY <2>1, StepOwnership, SlotsKept
<1>3. Ownership /\ Slots => Exclusive
  <2> SUFFICES ASSUME Ownership, Slots PROVE Exclusive
    OBVIOUS
  <2>1. Books /\ Owned /\ NoOverlap /\ held \in SUBSET Job /\ running \in [Relay -> Entry]
        /\ executions \in [Job -> Relay \cup {None}]
    BY DEF Ownership, SideTyped, BookTyped
  <2>2. \A r \in Relay : running[r].job # None => running[r].job \in Job
    BY <2>1 DEF Entry
  <2>3. held = {running[r].job : r \in Entries(running)}
    BY <2>1, <2>2, EngineAssumption DEF Books, Entries
  <2>4. OneOwner
    BY <2>1, <2>3 DEF OneOwner, Slots, Books, Owned, Entries, Executing
  <2> QED BY <2>1, <2>4 DEF Exclusive
<1> QED BY <1>1, <1>2, <1>3, PTL DEF Spec
=============================================================================

------------------------- MODULE CoordinatorProofs --------------------------
(***************************************************************************)
(* What is promised of schedules and of their jobs, for any number of       *)
(* schedules, definitions, times, requests and faults.                      *)
(*                                                                          *)
(* The coordinator's entries stay in step with the Engine's schedules       *)
(* (TablesAgree of Coordinator): first what each handler does to the        *)
(* coordinator's state, then what the Engine's commands do to the durable   *)
(* one, then both over the steps of the system.                             *)
(*                                                                          *)
(* Each occurrence of a schedule is admitted once, and alone unless its     *)
(* definition allows more.  Both are about one step, the Engine's execution *)
(* of a delivery, and both rest on what the steps before it left: the time  *)
(* of a schedule has passed every occurrence that was inserted and advanced, *)
(* and the membership of a schedule names every open job of its occurrences. *)
(***************************************************************************)
EXTENDS Coordinator, TLAPS

\* The provers that a step is tried with, in this order.
USE SMT, Zenon, Z3

---------------------------------------------------------------------------
(* Types *)

JobRecord ==
  [state : {"none"} \cup Nonterminal \cup Terminal, args : Nat, volatile : BOOLEAN,
   task : BOOLEAN, schedule_id : Sched \cup {None}]

RegisterOp == [op : {"register"}, id : Sched, definition : Definitions, next_at : Time]
CancelOp == [op : {"cancel"}, id : Sched, revision : Nat]
DeliverRecord == [op : {"deliver"}, id : Sched, definition : Definitions, revision : Nat,
                  due : Time, next_at : Time]
\* The time that follows an occurrence is later.
DeliverOp == {o \in DeliverRecord : o.due < o.next_at}
Op == RegisterOp \cup CancelOp \cup DeliverOp

FlightRecord ==
  [state : {"calling", "submitted", "ok", "retry", "fatal", "unknown"}, o : Op,
   stored : Schedule \cup {None}]
Flight == {f \in FlightRecord : f.state = "ok" => f.stored \in Schedule}

StateRecord ==
  [entries : [Sched -> EntryRecord \cup {None}], operations : Seq(Op),
   operation : {Idle} \cup Flight, timers : [Occurrence -> Int], doubtful : SUBSET Sched]

Request == [c : Op, awaited : BOOLEAN]

\* A command that is waited for is the one of the operation in flight.
Awaits ==
  \A i \in 1..Len(commands) : commands[i].awaited =>
    /\ operation \in Flight /\ operation.state = "submitted"
    /\ \A k \in 1..Len(commands) : commands[k].awaited => k = i

Typed ==
  /\ now \in Nat
  /\ schedules \in [Sched -> Schedule \cup {None}]
  /\ recovered \in [Sched -> Schedule \cup {None}]
  /\ job \in [Occurrence -> JobRecord]
  /\ State \in StateRecord
  /\ commands \in Seq(Request)
  /\ inserted \in SUBSET Occurrence

---------------------------------------------------------------------------
(* Numbers *)

\* The next time of a cron expression lies ahead (Cron.next).
LEMMA CronAhead ==
  ASSUME NEW e \in Nat \ {0}, NEW at \in Nat
  PROVE  CronNext(e, at) \in Nat /\ CronNext(e, at) > at
<1>1. at \div e \in Nat /\ at = e * (at \div e) + (at % e) /\ at % e \in 0..(e-1)
  OBVIOUS
<1> QED BY <1>1 DEF CronNext

\* The time that follows a delivery lies after the occurrence delivered, at
\* whatever time the delivery is made (advance_after_delivery).
LEMMA AdvanceAhead ==
  ASSUME NEW def \in Definitions, NEW at \in Nat, NEW current \in Nat
  PROVE  AdvanceAfterDelivery(def, at, current) \in Nat
         /\ AdvanceAfterDelivery(def, at, current) > at
<1> DEFINE later == IF current > at THEN current ELSE at
<1>1. def.expression \in Nat \ {0} /\ later \in Nat /\ later >= at
  BY CoordinatorAssumption
<1>2. /\ CronNext(def.expression, at) \in Nat /\ CronNext(def.expression, at) > at
      /\ CronNext(def.expression, later) \in Nat /\ CronNext(def.expression, later) > later
  BY <1>1, CronAhead, Zenon
<1>3. /\ at + def.expression \in Nat /\ at + def.expression > at
  BY <1>1
<1> DEFINE q == (later - at) \div def.expression
<1>4. q \in Nat
  BY <1>1
<1>5. (q + 1) * def.expression \in Nat \ {0}
  BY <1>1, <1>4
<1>6. at + (q + 1) * def.expression \in Nat /\ at + (q + 1) * def.expression > at
  BY <1>5
<1> QED BY <1>1, <1>2, <1>3, <1>6 DEF AdvanceAfterDelivery

---------------------------------------------------------------------------
(* The coordinator's state *)

\* A timer is set for an entry (arm).
LEMMA ArmTyped ==
  ASSUME NEW s \in StateRecord, NEW id \in Sched, NEW def \in Definitions,
         NEW revision \in Nat, NEW next_at \in Time
  PROVE  /\ Arm(s, id, def, revision, next_at) \in StateRecord
         /\ Arm(s, id, def, revision, next_at).operation = s.operation
<1>1. Entry(def, revision, next_at, TRUE) \in EntryRecord
  BY DEF Entry, EntryRecord
<1>2. <<id, next_at>> \in Occurrence
  BY DEF Occurrence
<1> DEFINE es == [s.entries EXCEPT ![id] = Entry(def, revision, next_at, TRUE)]
           ts == [s.timers EXCEPT ![<<id, next_at>>] = s.timers[<<id, next_at>>] + 1]
<1>3. es \in [Sched -> EntryRecord \cup {None}]
  BY <1>1, Zenon DEF StateRecord
<1>4. ts \in [Occurrence -> Int]
  BY <1>2 DEF StateRecord
<1>5. Arm(s, id, def, revision, next_at) = [s EXCEPT !.entries = es, !.timers = ts]
  BY DEF Arm, StateRecord
<1> HIDE DEF es, ts
<1> QED BY <1>3, <1>4, <1>5, Zenon DEF StateRecord

\* An entry is dropped, its message being out or not (drop).
LEMMA DropTyped ==
  ASSUME NEW s \in StateRecord, NEW id \in Sched, NEW d \in Drop(s, id)
  PROVE  d \in StateRecord /\ d.operation = s.operation
<1> DEFINE e == s.entries[id]
           gone == [s EXCEPT !.entries[id] = None]
<1>1. gone \in StateRecord /\ gone.operation = s.operation
  BY Zenon DEF StateRecord
<1>2. ASSUME e # None
      PROVE  /\ [gone EXCEPT !.timers[<<id, e.next_at>>] = @ - 1] \in StateRecord
             /\ [gone EXCEPT !.timers[<<id, e.next_at>>] = @ - 1].operation = s.operation
  <2>1. e \in EntryRecord /\ <<id, e.next_at>> \in Occurrence
    BY <1>2 DEF StateRecord, EntryRecord, Occurrence
  <2> DEFINE ts == [gone.timers EXCEPT ![<<id, e.next_at>>] = gone.timers[<<id, e.next_at>>] - 1]
  <2>2. ts \in [Occurrence -> Int]
    BY <1>1, <2>1 DEF StateRecord
  <2>3. [gone EXCEPT !.timers[<<id, e.next_at>>] = @ - 1] = [gone EXCEPT !.timers = ts]
    BY <1>1 DEF StateRecord
  <2> HIDE DEF ts, gone
  <2> QED BY <1>1, <2>2, <2>3, Zenon DEF StateRecord
<1> QED BY <1>1, <1>2, Zenon DEF Drop

\* A schedule is given up.
LEMMA GiveUpTyped ==
  ASSUME NEW s \in StateRecord, NEW id \in Sched, NEW d \in GiveUp(s, id)
  PROVE  d \in StateRecord /\ d.operation = s.operation
<1>1. PICK g \in Drop(s, id) : d = [g EXCEPT !.doubtful = @ \cup {id}]
  BY DEF GiveUp
<1>2. g \in StateRecord /\ g.operation = s.operation
  BY DropTyped
<1> QED BY <1>1, <1>2, Zenon DEF StateRecord

\* What the result of an operation makes of the entries (complete_operation).
LEMMA CompletionsTyped ==
  ASSUME NEW s \in StateRecord, NEW f \in Flight,
         NEW d \in Completions(s, f.o, f.state, f.stored)
  PROVE  d \in StateRecord /\ d.operation = s.operation
<1>0. f.o \in Op /\ f.o.id \in Sched /\ (f.state = "ok" => f.stored \in Schedule)
  BY DEF Flight, FlightRecord, Op, RegisterOp, CancelOp, DeliverOp, DeliverRecord
<1>1. ASSUME NEW g \in StateRecord, f.o.op # "cancel", f.state = "ok"
      PROVE  /\ Durable(g, f.o, f.stored) \in StateRecord
             /\ Durable(g, f.o, f.stored).operation = g.operation
  <2>1. f.o.definition \in Definitions
    BY <1>0, <1>1 DEF Op, RegisterOp, CancelOp, DeliverOp, DeliverRecord
  <2>2. f.stored.revision \in Nat /\ f.stored.next_at \in Time
    BY <1>0, <1>1 DEF Schedule
  <2> QED BY <1>0, <2>1, <2>2, ArmTyped DEF Durable
<1>2. CASE f.o.op = "deliver"
  <2>1. f.o.definition \in Definitions /\ f.o.revision \in Nat /\ f.o.due \in Time
    BY <1>0, <1>2 DEF Op, RegisterOp, CancelOp, DeliverOp, DeliverRecord
  <2>2. CASE f.state = "ok"
    BY <1>1, <1>2, <2>2 DEF Completions
  <2>3. CASE f.state = "fatal"
    BY <1>0, <1>2, <2>3, GiveUpTyped DEF Completions
  <2>4. CASE f.state \notin {"ok", "fatal"}
    BY <1>0, <1>2, <2>1, <2>4, ArmTyped DEF Completions
  <2> QED BY <2>2, <2>3, <2>4
<1>3. CASE f.o.op # "deliver" /\ f.state = "unknown"
  BY <1>0, <1>3, GiveUpTyped DEF Completions
<1>4. CASE f.o.op # "deliver" /\ f.state \notin {"ok", "unknown"}
  BY <1>4 DEF Completions
<1>5. CASE f.o.op = "cancel" /\ f.state = "ok"
  BY <1>0, <1>5, DropTyped DEF Completions
<1>6. CASE f.o.op \notin {"deliver", "cancel"} /\ f.state = "ok"
  <2>1. PICK g \in Drop(s, f.o.id) :
          d = Durable([g EXCEPT !.doubtful = @ \ {f.o.id}], f.o, f.stored)
    BY <1>6 DEF Completions
  <2>2. g \in StateRecord /\ g.operation = s.operation
    BY <1>0, DropTyped
  <2>3. /\ [g EXCEPT !.doubtful = @ \ {f.o.id}] \in StateRecord
        /\ [g EXCEPT !.doubtful = @ \ {f.o.id}].operation = s.operation
    BY <2>2, Zenon DEF StateRecord
  <2> QED BY <1>1, <1>6, <2>1, <2>3, Zenon
<1> QED BY <1>2, <1>3, <1>4, <1>5, <1>6

\* The first operation that needs the Engine is launched when none is in flight
\* (continue_operations).
LEMMA ContinueTyped ==
  ASSUME NEW s \in StateRecord, NEW t \in ContinueOperations(s)
  PROVE  /\ t \in StateRecord
         /\ s.operation # Idle => t.operation = s.operation
<1> DEFINE waiting == {i \in 1..Len(s.operations) : ~Settled(s, s.operations[i])}
<1>1. CASE s.operation # Idle
  BY <1>1, Zenon DEF ContinueOperations
<1>2. CASE s.operation = Idle /\ waiting = {}
  <2>1. t = [s EXCEPT !.operations = << >>]
    BY <1>2, Zenon DEF ContinueOperations
  <2>2. << >> \in Seq(Op)
    OBVIOUS
  <2> HIDE DEF waiting
  <2> QED BY <1>2, <2>1, <2>2, Zenon DEF StateRecord
<1>3. CASE s.operation = Idle /\ waiting # {}
  <2>0. s.operations \in Seq(Op) /\ s.entries \in [Sched -> EntryRecord \cup {None}]
    BY DEF StateRecord
  <2>1. PICK first \in waiting : t = BeginOperation(s, first)
    BY <1>3, Zenon DEF ContinueOperations
  <2> DEFINE o == s.operations[first]
             sent == IF o.op = "cancel" THEN [o EXCEPT !.revision = s.entries[o.id].revision] ELSE o
             rest == SubSeq(s.operations, first + 1, Len(s.operations))
  <2>3. first \in 1..Len(s.operations) /\ ~Settled(s, o)
    BY <2>1
  <2>4. o \in Op
    BY <2>0, <2>3
  <2>5. rest \in Seq(Op)
    BY <2>0, <2>3
  <2>6. sent \in Op
    <3>1. ASSUME o.op = "cancel"
          PROVE  [o EXCEPT !.revision = s.entries[o.id].revision] \in CancelOp
      <4>1. o \in CancelOp
        BY <2>4, <3>1 DEF Op, RegisterOp, CancelOp, DeliverOp, DeliverRecord
      <4>2. s.entries[o.id] \in EntryRecord
        BY <2>0, <2>3, <3>1, <4>1, Zenon DEF Settled, CancelOp
      <4> QED BY <4>1, <4>2, Zenon DEF CancelOp, EntryRecord
    <3> QED BY <2>4, <3>1, Zenon DEF Op
  <2>7. [state |-> "calling", o |-> sent, stored |-> None] \in Flight
    BY <2>6, Zenon DEF Flight, FlightRecord
  <2>8. t = Launch([s EXCEPT !.operations = rest], sent)
    BY <2>1, Zenon DEF BeginOperation
  <2> HIDE DEF waiting, o, sent, rest
  <2>9. t =
          [[s EXCEPT !.operations = rest] EXCEPT
             !.operation = [state |-> "calling", o |-> sent, stored |-> None]]
    BY <2>8 DEF Launch
  <2> QED BY <1>3, <2>5, <2>7, <2>9, Zenon DEF StateRecord
<1> QED BY <1>1, <1>2, <1>3

\* An operation is queued (enqueue_operation).
LEMMA EnqueueTyped ==
  ASSUME NEW s \in StateRecord, NEW o \in Op, NEW t \in EnqueueOperation(s, o)
  PROVE  /\ t \in StateRecord
         /\ s.operation # Idle => t.operation = s.operation
<1> DEFINE q == [s EXCEPT !.operations = Append(@, o)]
<1>1. Append(s.operations, o) \in Seq(Op)
  BY DEF StateRecord
<1>2. q \in StateRecord /\ q.operation = s.operation
  BY <1>1, Zenon DEF StateRecord
<1> QED BY <1>2, ContinueTyped, Zenon DEF EnqueueOperation

\* The kind of an operation tells its form.
LEMMA OpKinds ==
  ASSUME NEW c \in Op
  PROVE  /\ c.id \in Sched
         /\ (c.op = "deliver" <=> c \in DeliverOp)
         /\ (c.op = "register" <=> c \in RegisterOp)
         /\ (c.op = "cancel" <=> c \in CancelOp)
BY DEF Op, RegisterOp, CancelOp, DeliverOp, DeliverRecord

\* The state of the coordinator is a record of its variables.
LEMMA StateFields ==
  /\ State.entries = entries /\ State.operations = operations
  /\ State.operation = operation /\ State.timers = timers /\ State.doubtful = doubtful
BY DEF State

\* The coordinator's state is well typed when each of its fields is.
LEMMA StateIs ==
  State \in StateRecord <=>
    /\ entries \in [Sched -> EntryRecord \cup {None}] /\ operations \in Seq(Op)
    /\ operation \in {Idle} \cup Flight /\ timers \in [Occurrence -> Int]
    /\ doubtful \in SUBSET Sched
BY DEF State, StateRecord

\* An in-flight operation is not idle.
LEMMA FlightNotIdle ==
  /\ \A f \in Flight : f # Idle /\ f.state # "idle"
  /\ \A f \in {Idle} \cup Flight : f # Idle => f \in Flight
BY DEF Flight, FlightRecord, Idle

---------------------------------------------------------------------------
(* The two tables.  S is the table of schedules and R the recovered one. *)

InFlight(st, id) == st.operation # Idle /\ st.operation.o.id = id
Delivering(st, id) == InFlight(st, id) /\ st.operation.o.op = "deliver"
\* A change of the schedule that the coordinator has not applied to its entry.
Changing(st, id) ==
  InFlight(st, id) /\ st.operation.o.op # "deliver" /\ st.operation.state \in {"ok", "unknown"}
Queued(st, id, e) ==
  \E i \in 1..Len(st.operations) :
     /\ st.operations[i].op = "deliver" /\ st.operations[i].id = id
     /\ st.operations[i].due = e.next_at /\ st.operations[i].revision = e.revision

Agrees(e, s) ==
  /\ e = None <=> ~Active(s)
  /\ e # None => /\ e.definition = s.definition
                 /\ e.next_at < s.next_at \/ (e.next_at = s.next_at /\ e.revision = s.revision)

\* The entry e of a schedule follows it, and something will deliver its next
\* occurrence; a delivery in flight is the one of the entry.
Held(st, S, id) ==
  LET e == st.entries[id]
      o == st.operation.o
  IN /\ ~Changing(st, id) => Agrees(e, S[id])
     /\ e # None /\ ~e.timer => Queued(st, id, e) \/ Delivering(st, id)
     /\ Delivering(st, id) => /\ e # None /\ e.next_at = o.due
                              /\ e.revision = o.revision /\ e.definition = o.definition

\* The message of a timer that is set is on its way.
TimersSet(st) ==
  /\ \A o \in Occurrence : st.timers[o] >= 0
  /\ \A id \in Sched : st.entries[id] # None /\ st.entries[id].timer =>
                         st.timers[<<id, st.entries[id].next_at>>] > 0

\* What the coordinator knows of a schedule: a revision v with a definition d.
Knows(st, id, v, d) ==
  \/ st.entries[id] # None /\ st.entries[id].revision = v /\ st.entries[id].definition = d
  \/ \E i \in 1..Len(st.operations) :
       /\ st.operations[i].op = "deliver" /\ st.operations[i].id = id
       /\ st.operations[i].revision = v /\ st.operations[i].definition = d
  \/ Delivering(st, id) /\ st.operation.o.revision = v /\ st.operation.o.definition = d
Remembers(R, id, v, d) == R[id] # None /\ R[id].revision = v /\ R[id].definition = d

\* A revision stands for one definition, and the schedule's is the last.
Revisions(st, S, R) ==
  \A id \in Sched, v \in Nat, d \in Definitions :
    Knows(st, id, v, d) \/ Remembers(R, id, v, d) =>
      /\ S[id] # None /\ v <= S[id].revision /\ (v = S[id].revision => d = S[id].definition)
      /\ \A c \in Definitions : Knows(st, id, v, c) \/ Remembers(R, id, v, c) => c = d

\* What the entry of a schedule says depends on that schedule alone.
LEMMA HeldSame ==
  ASSUME NEW st, NEW t, NEW S, NEW id, Held(st, S, id), t.entries[id] = st.entries[id],
         t.operations = st.operations, t.operation = st.operation
  PROVE  Held(t, S, id)
BY Zenon DEF Held, Changing, Delivering, Queued, InFlight

\* A result that is taken concerns the schedule of its operation alone.
LEMMA HeldIdle ==
  ASSUME NEW st, NEW t, NEW S, NEW id, Held(st, S, id), t.entries[id] = st.entries[id],
         t.operations = st.operations, t.operation = Idle,
         st.operation # Idle => st.operation.o.id # id
  PROVE  Held(t, S, id)
BY Zenon DEF Held, Changing, Delivering, Queued, InFlight

\* Nothing new is known, or the schedule's own revision.
LEMMA RevisionsKept ==
  ASSUME NEW st, NEW t, NEW S \in [Sched -> Schedule \cup {None}], NEW R, NEW Q, Revisions(st, S, R),
         \A id \in Sched, v \in Nat, d \in Definitions :
           Knows(t, id, v, d) \/ Remembers(Q, id, v, d) =>
             \/ Knows(st, id, v, d) \/ Remembers(R, id, v, d)
             \/ S[id] # None /\ v = S[id].revision /\ d = S[id].definition
  PROVE  Revisions(t, S, Q)
<1> SUFFICES ASSUME NEW id \in Sched, NEW v \in Nat, NEW d \in Definitions,
                    Knows(t, id, v, d) \/ Remembers(Q, id, v, d)
             PROVE  /\ S[id] # None /\ v <= S[id].revision /\ (v = S[id].revision => d = S[id].definition)
                    /\ \A c \in Definitions : Knows(t, id, v, c) \/ Remembers(Q, id, v, c) => c = d
  BY Zenon DEF Revisions
<1> DEFINE old(c) == Knows(st, id, v, c) \/ Remembers(R, id, v, c)
           own(c) == S[id] # None /\ v = S[id].revision /\ c = S[id].definition
<1>1. \A c \in Definitions : Knows(t, id, v, c) \/ Remembers(Q, id, v, c) => old(c) \/ own(c)
  BY Zenon
<1>2. \A c \in Definitions : old(c) =>
        /\ S[id] # None /\ v <= S[id].revision /\ (v = S[id].revision => c = S[id].definition)
        /\ \A b \in Definitions : old(b) => b = c
  BY Zenon DEF Revisions
<1>3. \A c \in Definitions : own(c) => v <= S[id].revision
  OBVIOUS
<1> HIDE DEF old
<1> QED BY <1>1, <1>2, <1>3, Zenon

\* The fields that arm, drop and the start of an operation change.
LEMMA ArmFields ==
  ASSUME NEW s \in StateRecord, NEW id \in Sched, NEW def, NEW revision, NEW next_at,
         NEW a, a = Arm(s, id, def, revision, next_at)
  PROVE  /\ a.entries = [s.entries EXCEPT ![id] = Entry(def, revision, next_at, TRUE)]
         /\ a.timers = [s.timers EXCEPT ![<<id, next_at>>] = @ + 1]
         /\ a.operations = s.operations /\ a.operation = s.operation /\ a.doubtful = s.doubtful
BY DEF Arm, StateRecord

\* drop_entry: the entry goes, and its timer with it if it is still running.
LEMMA DropFields ==
  ASSUME NEW s \in StateRecord, NEW id \in Sched, NEW d \in Drop(s, id)
  PROVE  /\ d.entries = [s.entries EXCEPT ![id] = None]
         /\ d.operations = s.operations /\ d.operation = s.operation /\ d.doubtful = s.doubtful
         /\ \/ d.timers = s.timers
            \/ /\ s.entries[id] # None /\ s.entries[id].timer
               /\ d.timers = [s.timers EXCEPT ![<<id, s.entries[id].next_at>>] = @ - 1]
<1> DEFINE e == s.entries[id]
           gone == [s EXCEPT !.entries[id] = None]
           heard == [gone EXCEPT !.timers[<<id, e.next_at>>] = @ - 1]
<1>1. d = gone \/ (d = heard /\ e # None /\ e.timer)
  BY Zenon DEF Drop
<1>2. /\ gone.entries = [s.entries EXCEPT ![id] = None] /\ gone.operations = s.operations
      /\ gone.operation = s.operation /\ gone.doubtful = s.doubtful /\ gone.timers = s.timers
      /\ gone \in StateRecord
  BY DropTyped, Zenon DEF StateRecord
<1>3. /\ heard.entries = gone.entries /\ heard.operations = gone.operations
      /\ heard.operation = gone.operation /\ heard.doubtful = gone.doubtful
      /\ heard.timers = [gone.timers EXCEPT ![<<id, e.next_at>>] = @ - 1]
  <2> HIDE DEF gone
  <2> QED BY <1>2, Zenon DEF StateRecord
<1> HIDE DEF gone, heard
<1> QED BY <1>1, <1>2, <1>3, Zenon

\* continue_operations: either every operation that waited is settled, or the
\* first that is not is started and those behind it wait on.
LEMMA ContinueFields ==
  ASSUME NEW s \in StateRecord, s.operation = Idle, NEW t \in ContinueOperations(s)
  PROVE  /\ t.entries = s.entries /\ t.timers = s.timers /\ t.doubtful = s.doubtful
         /\ \/ /\ t.operation = Idle /\ t.operations = << >>
               /\ \A i \in 1..Len(s.operations) : Settled(s, s.operations[i])
            \/ \E first \in 1..Len(s.operations) :
                 /\ ~Settled(s, s.operations[first])
                 /\ \A i \in 1..Len(s.operations) : i < first => Settled(s, s.operations[i])
                 /\ t.operations = SubSeq(s.operations, first + 1, Len(s.operations))
                 /\ t.operation # Idle /\ t.operation.state = "calling"
                 /\ t.operation.o.op = s.operations[first].op
                 /\ t.operation.o.id = s.operations[first].id
                 /\ s.operations[first].op = "deliver" => t.operation.o = s.operations[first]
<1> DEFINE waiting == {i \in 1..Len(s.operations) : ~Settled(s, s.operations[i])}
<1>1. CASE waiting = {}
  <2>1. t = [s EXCEPT !.operations = << >>]
    BY <1>1, Zenon DEF ContinueOperations
  <2>2. \A i \in 1..Len(s.operations) : Settled(s, s.operations[i])
    BY <1>1
  <2> HIDE DEF waiting
  <2>3. /\ t.entries = s.entries /\ t.timers = s.timers /\ t.doubtful = s.doubtful
        /\ t.operation = Idle /\ t.operations = << >>
    BY <2>1, Zenon DEF StateRecord
  <2> QED BY <2>2, <2>3
<1>2. CASE waiting # {}
  <2>0. s.operations \in Seq(Op)
    BY DEF StateRecord
  <2>1. PICK first \in waiting : (\A k \in waiting : first <= k) /\ t = BeginOperation(s, first)
    BY <1>2, Zenon DEF ContinueOperations
  <2> DEFINE o == s.operations[first]
             sent == IF o.op = "cancel" THEN [o EXCEPT !.revision = s.entries[o.id].revision] ELSE o
             rest == SubSeq(s.operations, first + 1, Len(s.operations))
  <2>2. first \in waiting /\ \A k \in waiting : first <= k
    BY <2>1, Zenon
  <2>3. t = Launch([s EXCEPT !.operations = rest], sent)
    BY <2>1, Zenon DEF BeginOperation
  <2>4. first \in 1..Len(s.operations) /\ ~Settled(s, o)
    BY <2>2
  <2>5. ASSUME NEW i \in 1..Len(s.operations), i < first PROVE Settled(s, s.operations[i])
    <3>1. first \in Nat /\ i \in Nat
      BY <2>0, <2>4
    <3>2. i \notin waiting
      <4> HIDE DEF waiting
      <4> QED BY <2>2, <2>5, <3>1
    <3> QED BY <3>2
  <2>6. o \in Op
    BY <2>0, <2>4
  <2>7. sent.op = o.op /\ sent.id = o.id /\ (o.op = "deliver" => sent = o)
    <3>1. CASE o.op = "cancel"
      <4>1. o \in CancelOp
        BY <2>6, <3>1, OpKinds
      <4> HIDE DEF o
      <4> QED BY <3>1, <4>1, Zenon DEF CancelOp
    <3>2. CASE o.op # "cancel"
      BY <3>2
    <3> QED BY <3>1, <3>2
  <2> HIDE DEF waiting, o, sent, rest
  <2>8. t = [[s EXCEPT !.operations = rest] EXCEPT
               !.operation = [state |-> "calling", o |-> sent, stored |-> None]]
    BY <2>3 DEF Launch
  <2>9. /\ t.entries = s.entries /\ t.timers = s.timers /\ t.doubtful = s.doubtful
        /\ t.operations = rest
        /\ t.operation = [state |-> "calling", o |-> sent, stored |-> None]
    BY <2>8, Zenon DEF StateRecord
  <2>10. t.operation # Idle /\ t.operation.state = "calling" /\ t.operation.o = sent
    BY <2>9 DEF Idle
  <2> QED BY <2>4, <2>5, <2>7, <2>9, <2>10, Zenon DEF o, rest
<1> QED BY <1>1, <1>2

\* A delivery that matches its entry is not settled.
LEMMA QueuedUnsettled ==
  ASSUME NEW s, NEW o, s.entries[o.id] # None, o.op = "deliver",
         s.entries[o.id].next_at = o.due, s.entries[o.id].revision = o.revision
  PROVE  ~Settled(s, o)
BY DEF Settled

\* So continue_operations keeps what the entries say.
LEMMA ContinueKeeps ==
  ASSUME NEW s \in StateRecord, NEW S \in [Sched -> Schedule \cup {None}], NEW R, Revisions(s, S, R),
         NEW t \in ContinueOperations(s)
  PROVE  /\ Revisions(t, S, R) /\ (TimersSet(s) => TimersSet(t)) /\ t.doubtful = s.doubtful
         /\ \A id \in Sched : Held(s, S, id) => Held(t, S, id)
<1>1. CASE s.operation # Idle
  <2>1. t = s
    BY <1>1, Zenon DEF ContinueOperations
  <2> QED BY <2>1
<1>2. CASE s.operation = Idle
  <2>0. s.operations \in Seq(Op) /\ s.entries \in [Sched -> EntryRecord \cup {None}]
    BY DEF StateRecord
  <2>1. /\ t.entries = s.entries /\ t.timers = s.timers /\ t.doubtful = s.doubtful
        /\ \/ /\ t.operation = Idle /\ t.operations = << >>
              /\ \A i \in 1..Len(s.operations) : Settled(s, s.operations[i])
           \/ \E first \in 1..Len(s.operations) :
                /\ ~Settled(s, s.operations[first])
                /\ \A i \in 1..Len(s.operations) : i < first => Settled(s, s.operations[i])
                /\ t.operations = SubSeq(s.operations, first + 1, Len(s.operations))
                /\ t.operation # Idle /\ t.operation.state = "calling"
                /\ t.operation.o.op = s.operations[first].op
                /\ t.operation.o.id = s.operations[first].id
                /\ s.operations[first].op = "deliver" => t.operation.o = s.operations[first]
    BY <1>2, ContinueFields, Zenon
  <2>2. TimersSet(s) => TimersSet(t)
    BY <2>1 DEF TimersSet
  <2>3. CASE /\ t.operation = Idle /\ t.operations = << >>
             /\ \A i \in 1..Len(s.operations) : Settled(s, s.operations[i])
    <3>1. \A id \in Sched, v \in Nat, d \in Definitions : Knows(t, id, v, d) => Knows(s, id, v, d)
      BY <2>1, <2>3 DEF Knows, Delivering, InFlight
    <3>2. Revisions(t, S, R)
      BY <3>1, RevisionsKept
    <3>3. ASSUME NEW id \in Sched, Held(s, S, id) PROVE Held(t, S, id)
      <4>1. ~Delivering(t, id) /\ ~Changing(t, id) /\ ~Delivering(s, id) /\ ~Changing(s, id)
        BY <1>2, <2>3 DEF Delivering, Changing, InFlight
      <4>2. s.entries[id] # None => ~Queued(s, id, s.entries[id])
        BY <2>3, QueuedUnsettled DEF Queued
      <4> QED BY <2>1, <3>3, <4>1, <4>2, Zenon DEF Held
    <3> QED BY <2>1, <2>2, <3>2, <3>3
  <2>4. ASSUME NEW first \in 1..Len(s.operations),
               ~Settled(s, s.operations[first]),
               \A i \in 1..Len(s.operations) : i < first => Settled(s, s.operations[i]),
               t.operations = SubSeq(s.operations, first + 1, Len(s.operations)),
               t.operation # Idle, t.operation.state = "calling",
               t.operation.o.op = s.operations[first].op,
               t.operation.o.id = s.operations[first].id,
               s.operations[first].op = "deliver" => t.operation.o = s.operations[first]
        PROVE  Revisions(t, S, R) /\ \A id \in Sched : Held(s, S, id) => Held(t, S, id)
    <3>1. /\ first \in Nat /\ Len(s.operations) \in Nat /\ Len(t.operations) = Len(s.operations) - first
          /\ \A i \in 1..(Len(s.operations) - first) :
               t.operations[i] = s.operations[first + i] /\ first + i \in 1..Len(s.operations)
          /\ \A i \in 1..Len(s.operations) : i > first => i - first \in 1..(Len(s.operations) - first)
                                                          /\ first + (i - first) = i
      <4> DEFINE q == s.operations
                 p == t.operations
                 n == Len(q)
      <4>1. q \in Seq(Op) /\ n \in Nat /\ first \in 1..n /\ p = SubSeq(q, first + 1, n)
        BY <2>0, <2>4
      <4> HIDE DEF q, p
      <4>2. Len(p) = n - first /\ \A i \in 1..(n - first) : p[i] = q[first + i]
        BY <4>1
      <4> HIDE DEF n
      <4>3. /\ first \in Nat /\ \A i \in 1..(n - first) : first + i \in 1..n
            /\ \A i \in 1..n : i > first => i - first \in 1..(n - first) /\ first + (i - first) = i
        BY <4>1
      <4> QED BY <4>1, <4>2, <4>3 DEF n, p, q
    <3>2. ASSUME NEW id \in Sched, NEW v \in Nat, NEW d \in Definitions, Knows(t, id, v, d)
          PROVE  Knows(s, id, v, d)
      BY <2>1, <2>4, <3>1, <3>2 DEF Knows, Delivering, InFlight
    <3>3. Revisions(t, S, R)
      BY <3>2, RevisionsKept
    <3>4. ASSUME NEW id \in Sched, Held(s, S, id) PROVE Held(t, S, id)
      <4> DEFINE e == s.entries[id]
      <4>1. ~Delivering(s, id) /\ ~Changing(s, id) /\ ~Changing(t, id)
        BY <1>2, <2>4 DEF Delivering, Changing, InFlight
      <4>2. Agrees(e, S[id])
        BY <3>4, <4>1 DEF Held
      <4>3. ASSUME e # None, ~e.timer PROVE Queued(t, id, e) \/ Delivering(t, id)
        <5>1. PICK i \in 1..Len(s.operations) :
                /\ s.operations[i].op = "deliver" /\ s.operations[i].id = id
                /\ s.operations[i].due = e.next_at /\ s.operations[i].revision = e.revision
          BY <3>4, <4>1, <4>3 DEF Held, Queued
        <5>2. ~Settled(s, s.operations[i])
          BY <4>3, <5>1, QueuedUnsettled
        <5>3. i \in Nat /\ ~(i < first)
          BY <2>4, <5>2, <3>1
        <5>4. CASE i = first
          BY <2>4, <5>1, <5>4 DEF Delivering, InFlight
        <5>5. CASE i > first
          <6>1. i - first \in 1..Len(t.operations) /\ t.operations[i - first] = s.operations[i]
            BY <3>1, <5>5
          <6> QED BY <5>1, <6>1 DEF Queued
        <5> QED BY <3>1, <5>3, <5>4, <5>5
      <4>4. ASSUME Delivering(t, id)
            PROVE  /\ e # None /\ e.next_at = t.operation.o.due /\ e.revision = t.operation.o.revision
                   /\ e.definition = t.operation.o.definition
        <5> DEFINE o == s.operations[first]
        <5>1. o.op = "deliver" /\ o.id = id /\ t.operation.o = o
          BY <2>4, <4>4 DEF Delivering, InFlight
        <5>2. e # None /\ e.next_at = o.due /\ e.revision = o.revision
          BY <2>4, <5>1 DEF Settled
        <5>3. e \in EntryRecord /\ o \in DeliverRecord
          <6>1. o \in Op
            BY <2>0, <2>4
          <6> QED BY <2>0, <5>1, <5>2, <6>1, OpKinds DEF DeliverOp
        <5>4. e.revision \in Nat /\ e.definition \in Definitions /\ o.definition \in Definitions
          BY <5>3 DEF EntryRecord, DeliverRecord
        <5>5. Knows(s, id, e.revision, e.definition)
          BY <5>2 DEF Knows
        <5>6. Knows(s, id, e.revision, o.definition)
          BY <5>1, <5>2 DEF Knows
        <5>7. e.definition = o.definition
          BY <5>4, <5>5, <5>6 DEF Revisions
        <5> QED BY <5>1, <5>2, <5>7
      <4> QED BY <2>1, <4>2, <4>3, <4>4, Zenon DEF Held
    <3> QED BY <3>3, <3>4
  <2> QED BY <2>1, <2>2, <2>3, <2>4, Zenon
<1> QED BY <1>1, <1>2

\* The coordinator's state agrees with the Engine's.
Good(st, S, R) ==
  /\ TimersSet(st) /\ Revisions(st, S, R)
  /\ \A id \in Sched \ st.doubtful : Held(st, S, id)

\* A timer is set for a schedule: the others are left alone.
LEMMA ArmKeeps ==
  ASSUME NEW s \in StateRecord, NEW S \in [Sched -> Schedule \cup {None}], NEW R,
         TimersSet(s), Revisions(s, S, R),
         NEW id \in Sched, NEW def \in Definitions, NEW revision \in Nat, NEW next_at \in Time,
         \/ Knows(s, id, revision, def)
         \/ S[id] # None /\ revision = S[id].revision /\ def = S[id].definition
  PROVE  /\ TimersSet(Arm(s, id, def, revision, next_at))
         /\ Revisions(Arm(s, id, def, revision, next_at), S, R)
         /\ \A x \in Sched : x # id /\ Held(s, S, x) => Held(Arm(s, id, def, revision, next_at), S, x)
<1> DEFINE a == Arm(s, id, def, revision, next_at)
           new == Entry(def, revision, next_at, TRUE)
<1>0. s.entries \in [Sched -> EntryRecord \cup {None}] /\ s.timers \in [Occurrence -> Int]
  BY DEF StateRecord
<1>1. /\ a.entries = [s.entries EXCEPT ![id] = new]
      /\ a.timers = [s.timers EXCEPT ![<<id, next_at>>] = @ + 1]
      /\ a.operations = s.operations /\ a.operation = s.operation /\ a.doubtful = s.doubtful
  BY DEF Arm, StateRecord
<1>2. new.revision = revision /\ new.definition = def /\ new.next_at = next_at /\ new.timer = TRUE
  BY DEF Entry
<1>3. <<id, next_at>> \in Occurrence
  BY DEF Occurrence
<1> HIDE DEF a, new
<1>4. a.entries[id] = new /\ \A x \in Sched : x # id => a.entries[x] = s.entries[x]
  BY <1>0, <1>1
<1>5. /\ a.timers[<<id, next_at>>] = s.timers[<<id, next_at>>] + 1
      /\ \A o \in Occurrence : o # <<id, next_at>> => a.timers[o] = s.timers[o]
  BY <1>0, <1>1, <1>3
<1>6. TimersSet(a)
  <2>1. ASSUME NEW o \in Occurrence PROVE a.timers[o] >= 0
    BY <1>0, <1>3, <1>5 DEF TimersSet
  <2>2. ASSUME NEW x \in Sched, a.entries[x] # None, a.entries[x].timer
        PROVE  a.timers[<<x, a.entries[x].next_at>>] > 0
    <3>1. CASE x = id
      <4>1. s.timers[<<id, next_at>>] >= 0 /\ s.timers[<<id, next_at>>] \in Int
        BY <1>0, <1>3 DEF TimersSet
      <4> QED BY <1>2, <1>4, <1>5, <3>1, <4>1
    <3>2. CASE x # id
      <4>1. a.entries[x] = s.entries[x] /\ s.entries[x] \in EntryRecord
        BY <1>0, <1>4, <2>2, <3>2
      <4>2. <<x, s.entries[x].next_at>> \in Occurrence /\ <<x, s.entries[x].next_at>> # <<id, next_at>>
        BY <3>2, <4>1 DEF EntryRecord, Occurrence
      <4> QED BY <1>5, <2>2, <4>1, <4>2 DEF TimersSet
    <3> QED BY <3>1, <3>2
  <2> QED BY <2>1, <2>2 DEF TimersSet
<1>7. Revisions(a, S, R)
  <2>1. ASSUME NEW x \in Sched, NEW v \in Nat, NEW d \in Definitions, Knows(a, x, v, d)
        PROVE  Knows(s, x, v, d) \/ (x = id /\ v = revision /\ d = def)
    BY <1>1, <1>2, <1>4, <2>1 DEF Knows, Delivering, InFlight
  <2> QED BY <2>1, RevisionsKept
<1>8. \A x \in Sched : x # id /\ Held(s, S, x) => Held(a, S, x)
  BY <1>1, <1>4, HeldSame, Zenon
<1> QED BY <1>1, <1>4, <1>6, <1>7, <1>8, Zenon DEF a, new

\* An entry is dropped: the others are left alone.
LEMMA DropKeeps ==
  ASSUME NEW s \in StateRecord, NEW S \in [Sched -> Schedule \cup {None}], NEW R,
         TimersSet(s), Revisions(s, S, R), NEW id \in Sched, NEW d \in Drop(s, id)
  PROVE  /\ TimersSet(d) /\ Revisions(d, S, R) /\ d.entries[id] = None
         /\ \A x \in Sched : x # id /\ Held(s, S, x) => Held(d, S, x)
         /\ d.doubtful = s.doubtful
<1>0. s.entries \in [Sched -> EntryRecord \cup {None}] /\ s.timers \in [Occurrence -> Int]
  BY DEF StateRecord
<1>1. /\ d.entries = [s.entries EXCEPT ![id] = None]
      /\ d.operations = s.operations /\ d.operation = s.operation /\ d.doubtful = s.doubtful
      /\ \/ d.timers = s.timers
         \/ /\ s.entries[id] # None /\ s.entries[id].timer
            /\ d.timers = [s.timers EXCEPT ![<<id, s.entries[id].next_at>>] = @ - 1]
  BY DropFields
<1>2. d.entries[id] = None /\ \A x \in Sched : x # id => d.entries[x] = s.entries[x]
  BY <1>0, <1>1
<1>3. TimersSet(d)
  <2>1. CASE d.timers = s.timers
    BY <1>2, <2>1 DEF TimersSet
  <2>2. CASE /\ s.entries[id] # None /\ s.entries[id].timer
             /\ d.timers = [s.timers EXCEPT ![<<id, s.entries[id].next_at>>] = @ - 1]
    <3> DEFINE k == <<id, s.entries[id].next_at>>
    <3>1. k \in Occurrence
      BY <1>0, <2>2 DEF EntryRecord, Occurrence
    <3>2. s.timers[k] > 0 /\ s.timers[k] \in Int
      BY <1>0, <2>2, <3>1 DEF TimersSet
    <3>3. /\ d.timers[k] = s.timers[k] - 1
          /\ \A o \in Occurrence : o # k => d.timers[o] = s.timers[o]
      BY <1>0, <2>2, <3>1
    <3>4. \A o \in Occurrence : d.timers[o] >= 0
      BY <3>1, <3>2, <3>3 DEF TimersSet
    <3>5. ASSUME NEW x \in Sched, d.entries[x] # None, d.entries[x].timer
          PROVE  d.timers[<<x, d.entries[x].next_at>>] > 0
      <4>1. x # id /\ d.entries[x] = s.entries[x] /\ s.entries[x] \in EntryRecord
        BY <1>0, <1>2, <3>5
      <4>2. <<x, s.entries[x].next_at>> \in Occurrence /\ <<x, s.entries[x].next_at>> # k
        BY <4>1 DEF EntryRecord, Occurrence
      <4> QED BY <3>3, <3>5, <4>1, <4>2 DEF TimersSet
    <3> QED BY <3>4, <3>5 DEF TimersSet
  <2> QED BY <1>1, <2>1, <2>2
<1>4. Revisions(d, S, R)
  <2>1. ASSUME NEW x \in Sched, NEW v \in Nat, NEW b \in Definitions, Knows(d, x, v, b)
        PROVE  Knows(s, x, v, b)
    BY <1>1, <1>2, <2>1 DEF Knows, Delivering, InFlight
  <2> QED BY <2>1, RevisionsKept
<1>5. \A x \in Sched : x # id /\ Held(s, S, x) => Held(d, S, x)
  BY <1>1, <1>2, HeldSame, Zenon
<1> QED BY <1>1, <1>2, <1>3, <1>4, <1>5

\* A schedule that is given up is no longer spoken of.
LEMMA GiveUpKeeps ==
  ASSUME NEW s \in StateRecord, NEW S \in [Sched -> Schedule \cup {None}], NEW R,
         TimersSet(s), Revisions(s, S, R), NEW id \in Sched, NEW g \in GiveUp(s, id)
  PROVE  /\ TimersSet(g) /\ Revisions(g, S, R) /\ g.doubtful = s.doubtful \cup {id}
         /\ \A x \in Sched : x # id /\ Held(s, S, x) => Held(g, S, x)
<1>1. PICK d \in Drop(s, id) : g = [d EXCEPT !.doubtful = @ \cup {id}]
  BY DEF GiveUp
<1>2. d \in StateRecord /\ d.doubtful = s.doubtful
  BY DropTyped, DropFields, Zenon
<1>3. /\ g.entries = d.entries /\ g.operations = d.operations /\ g.operation = d.operation
      /\ g.timers = d.timers /\ g.doubtful = s.doubtful \cup {id}
  BY <1>1, <1>2, Zenon DEF StateRecord
<1>4. /\ TimersSet(d) /\ Revisions(d, S, R)
      /\ \A x \in Sched : x # id /\ Held(s, S, x) => Held(d, S, x)
  BY DropKeeps
<1>5. TimersSet(g)
  BY <1>3, <1>4 DEF TimersSet
<1>6. Revisions(g, S, R)
  <2>1. ASSUME NEW x \in Sched, NEW v \in Nat, NEW b \in Definitions, Knows(g, x, v, b)
        PROVE  Knows(d, x, v, b)
    BY <1>3, <2>1, Zenon DEF Knows, Delivering, InFlight
  <2> QED BY <1>4, <2>1, RevisionsKept
<1>7. \A x \in Sched : x # id /\ Held(s, S, x) => Held(g, S, x)
  BY <1>3, <1>4, HeldSame
<1> QED BY <1>3, <1>5, <1>6, <1>7

\* An operation is added to those that wait.
LEMMA AppendKeeps ==
  ASSUME NEW s \in StateRecord, NEW S \in [Sched -> Schedule \cup {None}], NEW R,
         TimersSet(s), Revisions(s, S, R), NEW o \in Op,
         o.op = "deliver" => Knows(s, o.id, o.revision, o.definition),
         NEW q, q = [s EXCEPT !.operations = Append(@, o)]
  PROVE  /\ q \in StateRecord /\ TimersSet(q) /\ Revisions(q, S, R)
         /\ q.doubtful = s.doubtful /\ q.operation = s.operation /\ q.entries = s.entries
         /\ \A x \in Sched, e \in EntryRecord : Queued(s, x, e) => Queued(q, x, e)
         /\ \A x \in Sched : Held(s, S, x) => Held(q, S, x)
         /\ Len(q.operations) \in 1..Len(q.operations) /\ q.operations[Len(q.operations)] = o
<1> DEFINE ops == Append(s.operations, o)
<1>0. s.entries \in [Sched -> EntryRecord \cup {None}] /\ s.operations \in Seq(Op)
  BY DEF StateRecord
<1>1. /\ ops \in Seq(Op) /\ Len(ops) = Len(s.operations) + 1 /\ Len(s.operations) \in Nat
      /\ ops[Len(ops)] = o /\ \A i \in 1..Len(s.operations) : ops[i] = s.operations[i] /\ i \in 1..Len(ops)
  BY <1>0
<1>2. Len(ops) \in 1..Len(ops) /\ \A i \in 1..Len(ops) : i \in 1..Len(s.operations) \/ i = Len(ops)
  BY <1>1
<1> HIDE DEF ops
<1>3. q = [s EXCEPT !.operations = ops]
  BY DEF ops
<1>4. /\ q \in StateRecord /\ q.operations = ops
      /\ q.doubtful = s.doubtful /\ q.operation = s.operation /\ q.entries = s.entries
      /\ q.timers = s.timers
  BY <1>1, <1>3, Zenon DEF StateRecord
<1>5. TimersSet(q)
  BY <1>4 DEF TimersSet
<1>6. Revisions(q, S, R)
  <2>1. ASSUME NEW x \in Sched, NEW v \in Nat, NEW b \in Definitions, Knows(q, x, v, b)
        PROVE  Knows(s, x, v, b)
    <3>1. CASE q.entries[x] # None /\ q.entries[x].revision = v /\ q.entries[x].definition = b
      BY <1>4, <3>1, Zenon DEF Knows
    <3>2. ASSUME NEW i \in 1..Len(q.operations),
                 q.operations[i].op = "deliver", q.operations[i].id = x,
                 q.operations[i].revision = v, q.operations[i].definition = b
          PROVE  Knows(s, x, v, b)
      <4>1. CASE i \in 1..Len(s.operations)
        <5>1. q.operations[i] = s.operations[i]
          BY <1>1, <1>4, <4>1, Zenon
        <5> QED BY <3>2, <4>1, <5>1, Zenon DEF Knows
      <4>2. CASE i = Len(ops)
        BY <1>1, <1>4, <3>2, <4>2
      <4> QED BY <1>2, <1>4, <4>1, <4>2
    <3>3. CASE Delivering(q, x) /\ q.operation.o.revision = v /\ q.operation.o.definition = b
      BY <1>4, <3>3, Zenon DEF Knows, Delivering, InFlight
    <3> QED BY <2>1, <3>1, <3>2, <3>3, Zenon DEF Knows
  <2> QED BY <2>1, RevisionsKept
<1>7. \A x \in Sched, e \in EntryRecord : Queued(s, x, e) => Queued(q, x, e)
  BY <1>1, <1>4, Zenon DEF Queued
<1>8. ASSUME NEW x \in Sched, Held(s, S, x) PROVE Held(q, S, x)
  <2>1. (Delivering(q, x) <=> Delivering(s, x)) /\ (Changing(q, x) <=> Changing(s, x))
    BY <1>4 DEF Delivering, Changing, InFlight
  <2>2. s.entries[x] # None /\ Queued(s, x, s.entries[x]) => Queued(q, x, s.entries[x])
    BY <1>0, <1>7, Zenon
  <2> QED BY <1>4, <1>8, <2>1, <2>2, Zenon DEF Held
<1> QED BY <1>1, <1>2, <1>4, <1>5, <1>6, <1>7, <1>8, Zenon

\* continue_operations keeps a good state good.
LEMMA ContinueGood ==
  ASSUME NEW s \in StateRecord, NEW S \in [Sched -> Schedule \cup {None}], NEW R, Good(s, S, R),
         NEW t \in ContinueOperations(s)
  PROVE  Good(t, S, R)
BY ContinueKeeps DEF Good

\* Register and Cancel queue an operation.
LEMMA AskGood ==
  ASSUME NEW s \in StateRecord, NEW S \in [Sched -> Schedule \cup {None}], NEW R, Good(s, S, R),
         NEW o \in Op, o.op # "deliver", NEW t \in EnqueueOperation(s, o)
  PROVE  Good(t, S, R)
<1> DEFINE q == [s EXCEPT !.operations = Append(@, o)]
<1>0. q = [s EXCEPT !.operations = Append(@, o)]
  OBVIOUS
<1> HIDE DEF q
<1>1. /\ q \in StateRecord /\ TimersSet(q) /\ Revisions(q, S, R) /\ q.doubtful = s.doubtful
      /\ \A x \in Sched : Held(s, S, x) => Held(q, S, x)
  BY <1>0, AppendKeeps DEF Good
<1>2. Good(q, S, R)
  BY <1>1 DEF Good
<1> QED BY <1>1, <1>2, ContinueGood DEF EnqueueOperation, q

\* A handler leaves one state.
LEMMA BecomeUnique ==
  ASSUME NEW s \in StateRecord, NEW t \in StateRecord, Become(s), Become(t)
  PROVE  s = t
<1>1. ASSUME NEW r \in StateRecord
      PROVE  r = [entries |-> r.entries, operations |-> r.operations, operation |-> r.operation,
                  timers |-> r.timers, doubtful |-> r.doubtful]
  BY Zenon DEF StateRecord
<1>2. /\ s.entries = t.entries /\ s.operations = t.operations /\ s.operation = t.operation
      /\ s.timers = t.timers /\ s.doubtful = t.doubtful
  BY DEF Become
<1> QED BY <1>1, <1>2, Zenon

\* What the handlers do to the operation in flight and to what was given up.
Moves(s) ==
  /\ s.operation \in {operation, Idle} \/ s.operation.state = "calling"
  /\ operation # Idle /\ operation.state \in {"calling", "submitted"} => s.operation = operation
  /\ doubtful \subseteq s.doubtful \/ (operation # Idle /\ operation.state = "ok")
  /\ operation # Idle /\ operation.state = "unknown" /\ operation.o.op # "deliver" =>
       s.operation = operation \/ operation.o.id \in s.doubtful

\* continue_operations starts an operation only when there is none.
LEMMA ContinueMoves ==
  ASSUME NEW s \in StateRecord, NEW t \in ContinueOperations(s)
  PROVE  /\ s.operation # Idle => t.operation = s.operation
         /\ s.operation = Idle => t.operation = Idle \/ t.operation.state = "calling"
         /\ t.doubtful = s.doubtful
<1>1. CASE s.operation # Idle
  BY <1>1, Zenon DEF ContinueOperations
<1>2. CASE s.operation = Idle
  BY <1>2, ContinueFields, Zenon
<1> QED BY <1>1, <1>2

\* An operation is queued.
LEMMA EnqueueMoves ==
  ASSUME NEW s \in StateRecord, NEW o \in Op, s.operation = operation, doubtful \subseteq s.doubtful,
         NEW t \in EnqueueOperation(s, o)
  PROVE  Moves(t)
<1> DEFINE q == [s EXCEPT !.operations = Append(@, o)]
<1>1. Append(s.operations, o) \in Seq(Op)
  BY DEF StateRecord
<1>2. q \in StateRecord /\ q.operation = operation /\ q.doubtful = s.doubtful
  BY <1>1, Zenon DEF StateRecord
<1>3. t \in ContinueOperations(q)
  BY DEF EnqueueOperation
<1> HIDE DEF q
<1>4. /\ operation # Idle => t.operation = operation
      /\ operation = Idle => t.operation = Idle \/ t.operation.state = "calling"
      /\ t.doubtful = s.doubtful
  BY <1>2, <1>3, ContinueMoves
<1> QED BY <1>3, <1>4 DEF Moves

\* A timer's message is heard; the coordinator drops the schedule when nothing
\* follows the occurrence, or queues its delivery.
LEMMA DueGood ==
  ASSUME Typed, Good(State, schedules, recovered), NEW id \in Sched, NEW due \in Time, Due(id, due),
         NEW s \in StateRecord, Become(s)
  PROVE  Good(s, schedules, recovered) /\ Moves(s)
<1> DEFINE e == entries[id]
           S == schedules
           R == recovered
           next_at == AdvanceAfterDelivery(e.definition, due, now)
           heard == [State EXCEPT !.timers[<<id, due>>] = @ - 1]
           marked == [heard EXCEPT !.entries[id].timer = FALSE]
           o == [op |-> "deliver", id |-> id, definition |-> e.definition,
                 revision |-> e.revision, due |-> due, next_at |-> next_at]
<1>0. /\ State \in StateRecord /\ S \in [Sched -> Schedule \cup {None}] /\ now \in Nat
      /\ entries \in [Sched -> EntryRecord \cup {None}] /\ timers \in [Occurrence -> Int]
      /\ <<id, due>> \in Occurrence /\ timers[<<id, due>>] > 0
  BY StateIs, Zenon DEF Typed, Due, Occurrence
<1>1. /\ TimersSet(State) /\ Revisions(State, S, R)
      /\ \A x \in Sched \ State.doubtful : Held(State, S, x)
  BY DEF Good
<1>2. ASSUME NEW t, Become(t), t \in StateRecord PROVE t = s
  BY <1>2, BecomeUnique
<1>3. /\ heard \in StateRecord /\ heard.entries = entries /\ heard.operations = operations
      /\ heard.operation = operation /\ heard.doubtful = doubtful
      /\ heard.timers = [timers EXCEPT ![<<id, due>>] = timers[<<id, due>>] - 1]
  <2> DEFINE ts == [timers EXCEPT ![<<id, due>>] = timers[<<id, due>>] - 1]
  <2>1. ts \in [Occurrence -> Int]
    BY <1>0
  <2>2. heard = [State EXCEPT !.timers = ts]
    BY DEF State
  <2> HIDE DEF ts, heard
  <2>3. heard \in StateRecord
    BY <1>0, <2>1, <2>2, Zenon DEF StateRecord
  <2>4. /\ heard.entries = entries /\ heard.operations = operations
        /\ heard.operation = operation /\ heard.doubtful = doubtful /\ heard.timers = ts
    BY <1>0, <2>2, StateFields DEF StateRecord
  <2> QED BY <2>3, <2>4 DEF ts
<1>4. /\ heard.timers[<<id, due>>] = timers[<<id, due>>] - 1
      /\ \A k \in Occurrence : k # <<id, due>> => heard.timers[k] = timers[k]
  BY <1>0, <1>3, Zenon
<1>5. \A k \in Occurrence : heard.timers[k] >= 0
  BY <1>0, <1>1, <1>4, StateFields DEF TimersSet
<1>6. ASSUME NEW x \in Sched, entries[x] # None, entries[x].timer, <<x, entries[x].next_at>> # <<id, due>>
      PROVE  heard.timers[<<x, entries[x].next_at>>] > 0
  <2>1. <<x, entries[x].next_at>> \in Occurrence
    BY <1>0, <1>6 DEF EntryRecord, Occurrence
  <2> QED BY <1>1, <1>4, <1>6, <2>1, StateFields DEF TimersSet
<1> HIDE DEF heard
<1>7. ASSUME NEW x \in Sched, NEW v \in Nat, NEW d \in Definitions, Knows(heard, x, v, d)
      PROVE  Knows(State, x, v, d)
  BY <1>3, <1>7, StateFields DEF Knows, Delivering, InFlight
<1>8. Revisions(heard, S, R)
  BY <1>0, <1>1, <1>7, RevisionsKept, Zenon
<1>9. \A x \in Sched \ doubtful : Held(heard, S, x)
  BY <1>1, <1>3, StateFields, HeldSame
<1>10. CASE e = None \/ e.next_at # due
  <2>1. Become(heard)
    BY <1>10, Zenon DEF Due, heard
  <2>2. TimersSet(heard)
    <3>1. ASSUME NEW x \in Sched, entries[x] # None
          PROVE  <<x, entries[x].next_at>> # <<id, due>>
      BY <1>10, <3>1
    <3> QED BY <1>3, <1>5, <1>6, <3>1 DEF TimersSet
  <2>3. Good(heard, S, R)
    BY <1>3, <1>8, <1>9, <2>2 DEF Good
  <2>4. Moves(heard)
    BY <1>3 DEF Moves
  <2> QED BY <1>2, <1>3, <2>1, <2>3, <2>4
<1>11. CASE e # None /\ e.next_at = due
  <2> DEFINE f == [e EXCEPT !.timer = FALSE]
  <2>0. /\ e \in EntryRecord /\ f \in EntryRecord /\ f.timer = FALSE /\ f.next_at = due
        /\ f.revision = e.revision /\ f.definition = e.definition /\ f # None
        /\ e.revision \in Nat /\ e.definition \in Definitions
    <3>1. e \in EntryRecord
      BY <1>0, <1>11
    <3>2. /\ f \in EntryRecord /\ f.timer = FALSE /\ f.next_at = due
          /\ f.revision = e.revision /\ f.definition = e.definition
      BY <1>11, <3>1, Zenon DEF EntryRecord
    <3> QED BY <3>1, <3>2, CoordinatorAssumption, Zenon DEF EntryRecord
  <2>1. /\ marked \in StateRecord /\ marked.entries = [entries EXCEPT ![id] = f]
        /\ marked.operations = operations /\ marked.operation = operation
        /\ marked.doubtful = doubtful /\ marked.timers = heard.timers
    <3> DEFINE es == [entries EXCEPT ![id] = f]
    <3>1. es \in [Sched -> EntryRecord \cup {None}]
      BY <1>0, <2>0
    <3>2. marked = [heard EXCEPT !.entries = es]
      BY <1>3 DEF StateRecord
    <3> HIDE DEF es, marked
    <3>3. marked \in StateRecord
      BY <1>3, <3>1, <3>2, Zenon DEF StateRecord
    <3>4. /\ marked.entries = es
          /\ marked.operations = operations /\ marked.operation = operation
          /\ marked.doubtful = doubtful /\ marked.timers = heard.timers
      BY <1>3, <3>2 DEF StateRecord
    <3> QED BY <3>3, <3>4 DEF es
  <2> HIDE DEF marked, f
  <2>2. marked.entries[id] = f /\ \A x \in Sched : x # id => marked.entries[x] = entries[x]
    BY <1>0, <2>1
  <2>3. TimersSet(marked)
    <3>1. ASSUME NEW x \in Sched, marked.entries[x] # None, marked.entries[x].timer
          PROVE  marked.timers[<<x, marked.entries[x].next_at>>] > 0
      <4>1. x # id /\ marked.entries[x] = entries[x]
        BY <2>0, <2>2, <3>1
      <4> QED BY <1>6, <2>1, <3>1, <4>1
    <3> QED BY <1>5, <2>1, <3>1 DEF TimersSet
  <2>4. Revisions(marked, S, R)
    <3>1. ASSUME NEW x \in Sched, NEW v \in Nat, NEW d \in Definitions, Knows(marked, x, v, d)
          PROVE  Knows(heard, x, v, d)
      BY <1>3, <1>11, <2>0, <2>1, <2>2, <3>1 DEF Knows, Delivering, InFlight
    <3> QED BY <1>0, <1>8, <3>1, RevisionsKept
  <2>5. \A x \in Sched \ doubtful : x # id => Held(marked, S, x)
    BY <1>3, <1>9, <2>1, <2>2, HeldSame, Zenon
  <2>6. CASE next_at > MaxTime
    <3>1. PICK g \in GiveUp(marked, id) : Become(g)
      BY <1>11, <2>6, Zenon DEF Due, marked, heard
    <3>2. g \in StateRecord
      BY <2>1, GiveUpTyped, Zenon
    <3>3. /\ TimersSet(g) /\ Revisions(g, S, R) /\ g.doubtful = doubtful \cup {id}
          /\ \A x \in Sched : x # id /\ Held(marked, S, x) => Held(g, S, x)
      <4>1. /\ TimersSet(g) /\ Revisions(g, S, R) /\ g.doubtful = marked.doubtful \cup {id}
            /\ \A x \in Sched : x # id /\ Held(marked, S, x) => Held(g, S, x)
        BY <1>0, <2>1, <2>3, <2>4, GiveUpKeeps, Zenon
      <4> QED BY <2>1, <4>1, Zenon
    <3>4. Good(g, S, R)
      BY <2>5, <3>3, Zenon DEF Good
    <3>5. g.operation = operation
      BY <2>1, GiveUpTyped, Zenon
    <3>6. Moves(g)
      BY <3>3, <3>5, Zenon DEF Moves
    <3> QED BY <1>2, <3>1, <3>2, <3>4, <3>6
  <2>7. CASE ~(next_at > MaxTime)
    <3> DEFINE q == [marked EXCEPT !.operations = Append(@, o)]
    <3>1. PICK t \in EnqueueOperation(marked, o) : Become(t)
      BY <1>11, <2>7, Zenon DEF Due, marked, heard
    <3>2. o \in Op
      <4>1. due \in Nat
        BY CoordinatorAssumption DEF Time
      <4>2. next_at \in Nat /\ next_at > due
        BY <1>0, <2>0, <4>1, AdvanceAhead, Zenon
      <4>3. next_at \in Time
        <5> HIDE DEF next_at
        <5> QED BY <2>7, <4>2, CoordinatorAssumption DEF Time
      <4> HIDE DEF next_at
      <4> QED BY <2>0, <4>2, <4>3 DEF Op, DeliverOp, DeliverRecord
    <3>3. /\ o.op = "deliver" /\ o.id = id /\ o.due = due /\ o.revision = e.revision
          /\ o.definition = e.definition
      OBVIOUS
    <3> HIDE DEF o
    <3>4. Knows(marked, id, e.revision, e.definition)
      BY <2>0, <2>2, Zenon DEF Knows
    <3>5. /\ q \in StateRecord /\ TimersSet(q) /\ Revisions(q, S, R)
          /\ q.doubtful = doubtful /\ q.operation = operation /\ q.entries = marked.entries
          /\ \A x \in Sched : Held(marked, S, x) => Held(q, S, x)
          /\ Len(q.operations) \in 1..Len(q.operations) /\ q.operations[Len(q.operations)] = o
      <4>0. marked \in StateRecord /\ S \in [Sched -> Schedule \cup {None}]
        BY <1>0, <2>1, Zenon
      <4> HIDE DEF S, R
      <4>1. o.op = "deliver" => Knows(marked, o.id, o.revision, o.definition)
        BY <3>3, <3>4, Zenon
      <4>q. q = [marked EXCEPT !.operations = Append(@, o)]
        OBVIOUS
      <4> HIDE DEF q
      <4>2. /\ q \in StateRecord /\ TimersSet(q) /\ Revisions(q, S, R)
            /\ q.doubtful = marked.doubtful /\ q.operation = marked.operation
            /\ q.entries = marked.entries
            /\ \A x \in Sched, b \in EntryRecord : Queued(marked, x, b) => Queued(q, x, b)
            /\ \A x \in Sched : Held(marked, S, x) => Held(q, S, x)
            /\ Len(q.operations) \in 1..Len(q.operations) /\ q.operations[Len(q.operations)] = o
        BY <2>3, <2>4, <3>2, <4>0, <4>1, <4>q, AppendKeeps
      <4> QED BY <2>1, <4>2, Zenon
    <3>6. t \in ContinueOperations(q)
      BY <3>1 DEF EnqueueOperation
    <3> HIDE DEF q
    <3>7. ASSUME id \notin doubtful PROVE Held(q, S, id)
      <4>1. Held(heard, S, id)
        BY <1>9, <3>7
      <4>2. Queued(q, id, f)
        BY <2>0, <3>3, <3>5, Zenon DEF Queued
      <4>3. (Delivering(q, id) <=> Delivering(heard, id)) /\ (Changing(q, id) <=> Changing(heard, id))
        BY <1>3, <3>5, Zenon DEF Delivering, Changing, InFlight
      <4>4. Agrees(e, S[id]) => Agrees(f, S[id])
        BY <1>11, <2>0, Zenon DEF Agrees
      <4>5. heard.entries[id] = e /\ q.entries[id] = f /\ q.operation = heard.operation
        BY <1>3, <2>2, <3>5
      <4> QED BY <1>11, <2>0, <4>1, <4>2, <4>3, <4>4, <4>5, Zenon DEF Held
    <3>8. Good(q, S, R)
      BY <2>5, <3>5, <3>7 DEF Good
    <3>9. Good(t, S, R) /\ t \in StateRecord
      BY <1>0, <3>5, <3>6, <3>8, ContinueGood, ContinueTyped
    <3>10. Moves(t)
      BY <2>1, <3>1, <3>2, EnqueueMoves, Zenon
    <3> QED BY <1>2, <3>1, <3>9, <3>10
  <2> QED BY <2>6, <2>7
<1> QED BY <1>10, <1>11

\* The answer that an operation was executed is the state of its schedule until
\* the coordinator has taken it.
Answered ==
  operation # Idle /\ operation.state = "ok" =>
    /\ commands = << >> /\ operation.stored = schedules[operation.o.id]
    /\ IF operation.o.op = "cancel" THEN operation.stored.cancelled
       ELSE ~operation.stored.cancelled /\ operation.stored.definition = operation.o.definition

\* The result of an operation is taken (complete_operation).
LEMMA ResultGood ==
  ASSUME Typed, Good(State, schedules, recovered), Answered, OperationResult,
         NEW s \in StateRecord, Become(s)
  PROVE  Good(s, schedules, recovered)
<1> DEFINE S == schedules
           R == recovered
           f == operation
           id == f.o.id
           e == entries[id]
           Idled(d) == [d EXCEPT !.operation = Idle]
<1>0. /\ State \in StateRecord /\ S \in [Sched -> Schedule \cup {None}] /\ f \in Flight /\ f # Idle
      /\ entries \in [Sched -> EntryRecord \cup {None}] /\ f.state \notin {"calling", "submitted"}
  BY StateIs, FlightNotIdle DEF Typed, OperationResult
<1>1. /\ TimersSet(State) /\ Revisions(State, S, R)
      /\ \A x \in Sched \ doubtful : Held(State, S, x)
  BY StateFields, Zenon DEF Good
<1>2. f.o \in Op /\ id \in Sched /\ f.state \in {"ok", "retry", "fatal", "unknown"}
      /\ (f.state = "ok" => f.stored \in Schedule)
  BY <1>0, OpKinds, Zenon DEF Flight, FlightRecord
<1>3. PICK d \in Completions(State, f.o, f.state, f.stored) :
        \E u \in ContinueOperations(Idled(d)) : Become(u)
  BY DEF OperationResult
<1>4. d \in StateRecord /\ d.operation = f
  BY <1>0, CompletionsTyped, StateFields
<1> DEFINE t == Idled(d)
<1>5. /\ t \in StateRecord /\ t.operation = Idle /\ t.entries = d.entries /\ t.timers = d.timers
      /\ t.operations = d.operations /\ t.doubtful = d.doubtful
  BY <1>4, Zenon DEF StateRecord
<1> HIDE DEF t
<1>6. ASSUME d.entries[id] = None \/ d.entries[id].timer, Agrees(d.entries[id], S[id])
      PROVE  Held(t, S, id)
  BY <1>5, <1>6, Zenon DEF Held, Delivering, Changing, InFlight
<1>7. SUFFICES /\ TimersSet(d) /\ Revisions(d, S, R)
               /\ \A x \in Sched \ d.doubtful : x # id => Held(d, S, x)
               /\ id \notin d.doubtful => Held(t, S, id)
  <2> SUFFICES ASSUME TimersSet(d), Revisions(d, S, R),
                      \A x \in Sched \ d.doubtful : x # id => Held(d, S, x),
                      id \notin d.doubtful => Held(t, S, id)
               PROVE  Good(s, S, R)
    OBVIOUS
  <2>1. TimersSet(t)
    BY <1>5, Zenon DEF TimersSet
  <2>2. Revisions(t, S, R)
    <3>1. ASSUME NEW x \in Sched, NEW v \in Nat, NEW b \in Definitions, Knows(t, x, v, b)
          PROVE  Knows(d, x, v, b)
      BY <1>5, <3>1, Zenon DEF Knows, Delivering, InFlight
    <3> QED BY <1>0, <3>1, RevisionsKept, Zenon
  <2>3. ASSUME NEW x \in Sched \ t.doubtful PROVE Held(t, S, x)
    <3>1. CASE x = id
      BY <1>5, <3>1, Zenon
    <3>2. CASE x # id
      BY <1>4, <1>5, <3>2, HeldIdle, Zenon
    <3> QED BY <3>1, <3>2, Zenon
  <2>4. Good(t, S, R)
    BY <2>1, <2>2, <2>3, Zenon DEF Good
  <2>5. PICK u \in ContinueOperations(t) : Become(u)
    BY <1>3, Zenon DEF t
  <2>6. Good(u, S, R) /\ u \in StateRecord
    BY <1>0, <1>5, <2>4, <2>5, ContinueGood, ContinueTyped, Zenon
  <2> QED BY <2>5, <2>6, BecomeUnique
<1>8. ASSUME NEW h \in StateRecord, TimersSet(h), Revisions(h, S, R),
             \A x \in Sched \ h.doubtful : x # id => Held(h, S, x),
             f.o.op # "cancel", f.state = "ok", d = Durable(h, f.o, f.stored)
      PROVE  /\ TimersSet(d) /\ Revisions(d, S, R)
             /\ \A x \in Sched \ d.doubtful : x # id => Held(d, S, x)
             /\ id \notin d.doubtful => Held(t, S, id)
  <2> DEFINE a == Arm(h, id, f.o.definition, f.stored.revision, f.stored.next_at)
  <2>1. /\ f.stored = S[id] /\ f.stored \in Schedule /\ ~f.stored.cancelled
        /\ f.stored.definition = f.o.definition
    BY <1>0, <1>2, <1>8, Zenon DEF Answered
  <2>2. f.stored.revision \in Nat /\ f.stored.next_at \in Time /\ f.o.definition \in Definitions /\ f.stored # None
    BY <2>1, CoordinatorAssumption, Zenon DEF Schedule
  <2>3. d = a
    BY <1>8, Zenon DEF Durable
  <2> HIDE DEF a
  <2>4. /\ TimersSet(a) /\ Revisions(a, S, R) /\ a.doubtful = h.doubtful
        /\ \A x \in Sched : x # id /\ Held(h, S, x) => Held(a, S, x)
        /\ a.entries[id] = Entry(f.o.definition, f.stored.revision, f.stored.next_at, TRUE)
    <3>2. S[id] # None /\ f.stored.revision = S[id].revision /\ f.o.definition = S[id].definition
      BY <2>1, <2>2, Zenon
    <3>3. h \in StateRecord /\ S \in [Sched -> Schedule \cup {None}] /\ id \in Sched
          /\ TimersSet(h) /\ Revisions(h, S, R)
      BY <1>0, <1>2, <1>8, Zenon
    <3> HIDE DEF f, id, S, R
    <3>4. /\ TimersSet(a) /\ Revisions(a, S, R)
          /\ \A x \in Sched : x # id /\ Held(h, S, x) => Held(a, S, x)
      BY <2>2, <3>2, <3>3, ArmKeeps, Zenon DEF a
    <3>5. h.entries \in [Sched -> EntryRecord \cup {None}]
      BY DEF StateRecord
    <3>6. /\ a.entries = [h.entries EXCEPT ![id] = Entry(f.o.definition, f.stored.revision, f.stored.next_at, TRUE)]
          /\ a.doubtful = h.doubtful
      BY DEF Arm, StateRecord, a
    <3> QED BY <3>3, <3>4, <3>5, <3>6, Zenon
  <2>6. Agrees(d.entries[id], S[id]) /\ d.entries[id].timer
    <3> DEFINE new == Entry(f.o.definition, f.stored.revision, f.stored.next_at, TRUE)
    <3>1. /\ new.revision = f.stored.revision /\ new.definition = f.o.definition
          /\ new.next_at = f.stored.next_at /\ new.timer = TRUE
      BY DEF Entry
    <3>2. new \in EntryRecord
      BY <2>2 DEF Entry, EntryRecord
    <3>3. new # None
      BY <3>2, CoordinatorAssumption, Zenon
    <3> HIDE DEF new
    <3> QED BY <2>1, <2>2, <2>3, <2>4, <3>1, <3>3, Zenon DEF Agrees, Active, new
  <2> QED BY <1>6, <1>8, <2>3, <2>4, <2>6, Zenon
<1>9. ASSUME d \in GiveUp(State, id)
      PROVE  /\ TimersSet(d) /\ Revisions(d, S, R)
             /\ \A x \in Sched \ d.doubtful : x # id => Held(d, S, x)
             /\ id \notin d.doubtful => Held(t, S, id)
  <2>1. /\ TimersSet(d) /\ Revisions(d, S, R) /\ d.doubtful = State.doubtful \cup {id}
        /\ \A x \in Sched : x # id /\ Held(State, S, x) => Held(d, S, x)
    BY <1>0, <1>1, <1>2, <1>9, GiveUpKeeps
  <2> QED BY <1>1, <2>1, StateFields
<1>10. CASE f.o.op = "deliver"
  <2>1. CASE f.state = "ok"
    <3>1. d = Durable(State, f.o, f.stored)
      BY <1>10, <2>1 DEF Completions
    <3>2. \A x \in Sched \ State.doubtful : x # id => Held(State, S, x)
      BY <1>1, StateFields, Zenon
    <3> QED BY <1>0, <1>1, <1>8, <1>10, <2>1, <3>1, <3>2, Zenon
  <2>2. CASE f.state = "fatal"
    BY <1>9, <1>10, <2>2 DEF Completions
  <2>3. CASE f.state \notin {"ok", "fatal"}
    <3> DEFINE a == Arm(State, id, f.o.definition, f.o.revision, f.o.due)
    <3>1. f.o.definition \in Definitions /\ f.o.revision \in Nat /\ f.o.due \in Time
      BY <1>2, <1>10, OpKinds DEF DeliverOp, DeliverRecord
    <3>2. d = a
      BY <1>10, <2>3 DEF Completions
    <3>3. Delivering(State, id) /\ ~Changing(State, id)
      BY <1>0, <1>10, StateFields DEF Delivering, Changing, InFlight
    <3>4. Knows(State, id, f.o.revision, f.o.definition)
      BY <3>3, StateFields, Zenon DEF Knows
    <3> HIDE DEF a
    <3>5. /\ TimersSet(a) /\ Revisions(a, S, R) /\ a.doubtful = State.doubtful
          /\ \A x \in Sched : x # id /\ Held(State, S, x) => Held(a, S, x)
          /\ a.entries[id] = Entry(f.o.definition, f.o.revision, f.o.due, TRUE)
      <4>2. State \in StateRecord /\ S \in [Sched -> Schedule \cup {None}] /\ id \in Sched
            /\ TimersSet(State) /\ Revisions(State, S, R)
        BY <1>0, <1>1, <1>2
      <4> HIDE DEF f, id, S, R
      <4>4. /\ TimersSet(a) /\ Revisions(a, S, R)
            /\ \A x \in Sched : x # id /\ Held(State, S, x) => Held(a, S, x)
        BY <3>1, <3>4, <4>2, ArmKeeps, Zenon DEF a
      <4>5. State.entries \in [Sched -> EntryRecord \cup {None}]
        BY <4>2 DEF StateRecord
      <4>6. /\ a.entries = [State.entries EXCEPT ![id] = Entry(f.o.definition, f.o.revision, f.o.due, TRUE)]
            /\ a.doubtful = State.doubtful
        BY <4>2 DEF Arm, StateRecord, a
      <4> QED BY <4>2, <4>4, <4>5, <4>6, Zenon
    <3>6. a.doubtful = doubtful
      BY <3>5, StateFields, Zenon
    <3>7. ASSUME id \notin doubtful PROVE Held(t, S, id)
      <4> DEFINE new == Entry(f.o.definition, f.o.revision, f.o.due, TRUE)
      <4>1. /\ new.revision = f.o.revision /\ new.definition = f.o.definition
            /\ new.next_at = f.o.due /\ new.timer = TRUE
        BY DEF Entry
      <4>2. new \in EntryRecord
        BY <3>1, Zenon DEF Entry, EntryRecord
      <4>3. new # None
        BY <4>2, CoordinatorAssumption, Zenon
      <4>4. /\ e # None /\ e.next_at = f.o.due /\ e.revision = f.o.revision
            /\ e.definition = f.o.definition /\ Agrees(e, S[id])
        BY <1>1, <1>2, <3>3, <3>7, StateFields, Zenon DEF Held
      <4> HIDE DEF new
      <4>5. Agrees(new, S[id])
        BY <4>1, <4>3, <4>4, Zenon DEF Agrees
      <4> QED BY <1>6, <3>2, <3>5, <4>1, <4>5, Zenon DEF new
    <3> QED BY <1>1, <3>2, <3>5, <3>6, <3>7, Zenon
  <2> QED BY <2>1, <2>2, <2>3, Zenon
<1>11. CASE f.o.op # "deliver" /\ f.state = "unknown"
  BY <1>9, <1>11 DEF Completions
<1>12. CASE f.o.op # "deliver" /\ f.state \in {"retry", "fatal"}
  <2>1. d = State
    BY <1>12 DEF Completions
  <2>2. ASSUME id \notin doubtful PROVE Held(t, S, id)
    <3>1. ~Delivering(State, id) /\ ~Changing(State, id) /\ Held(State, S, id)
      BY <1>1, <1>2, <1>12, <2>2, StateFields, Zenon DEF Delivering, Changing, InFlight
    <3>2. ~Delivering(t, id)
      BY <1>5, Zenon DEF Delivering, InFlight
    <3> QED BY <1>5, <2>1, <3>1, <3>2, Zenon DEF Held, Queued
  <2> QED BY <1>1, <2>1, <2>2, StateFields, Zenon
<1>13. CASE f.o.op = "cancel" /\ f.state = "ok"
  <2>1. d \in Drop(State, id)
    BY <1>13 DEF Completions
  <2>2. /\ TimersSet(d) /\ Revisions(d, S, R) /\ d.entries[id] = None
        /\ \A x \in Sched : x # id /\ Held(State, S, x) => Held(d, S, x)
        /\ d.doubtful = State.doubtful
    BY <1>0, <1>1, <1>2, <2>1, DropKeeps
  <2>3. d.doubtful = doubtful
    BY <2>2, StateFields, Zenon
  <2>4. Agrees(None, S[id])
    BY <1>0, <1>13, Zenon DEF Answered, Agrees, Active
  <2> QED BY <1>1, <1>6, <2>2, <2>3, <2>4, Zenon
<1>14. CASE f.o.op \notin {"deliver", "cancel"} /\ f.state = "ok"
  <2>1. PICK g \in Drop(State, id) : d = Durable([g EXCEPT !.doubtful = @ \ {id}], f.o, f.stored)
    BY <1>14, Zenon DEF Completions
  <2>3. /\ TimersSet(g) /\ Revisions(g, S, R) /\ g.doubtful = State.doubtful
        /\ \A x \in Sched : x # id /\ Held(State, S, x) => Held(g, S, x)
    BY <1>0, <1>1, <1>2, DropKeeps
  <2>2. g \in StateRecord /\ g.doubtful = doubtful
    BY <1>0, <1>2, <2>3, DropTyped, StateFields, Zenon
  <2> DEFINE h == [g EXCEPT !.doubtful = @ \ {id}]
  <2>4. /\ h \in StateRecord /\ h.entries = g.entries /\ h.operations = g.operations
        /\ h.operation = g.operation /\ h.timers = g.timers /\ h.doubtful = doubtful \ {id}
    BY <2>2, Zenon DEF StateRecord
  <2>5. d = Durable(h, f.o, f.stored)
    BY <2>1
  <2> HIDE DEF h
  <2>6. TimersSet(h)
    BY <2>3, <2>4, Zenon DEF TimersSet
  <2>7. Revisions(h, S, R)
    <3>1. ASSUME NEW x \in Sched, NEW v \in Nat, NEW b \in Definitions, Knows(h, x, v, b)
          PROVE  Knows(g, x, v, b)
      BY <2>4, <3>1, Zenon DEF Knows, Delivering, InFlight
    <3> QED BY <1>0, <2>3, <3>1, RevisionsKept
  <2>8. \A x \in Sched \ h.doubtful : x # id => Held(h, S, x)
    BY <1>1, <2>3, <2>4, HeldSame, Zenon
  <2> QED BY <1>8, <1>14, <2>4, <2>5, <2>6, <2>7, <2>8, Zenon
<1> QED BY <1>2, <1>10, <1>11, <1>12, <1>13, <1>14, Zenon

\* The result of an operation is taken.
LEMMA ResultMoves ==
  ASSUME Typed, OperationResult, NEW s \in StateRecord, Become(s)
  PROVE  Moves(s)
<1> DEFINE f == operation
           id == f.o.id
<1>0. /\ State \in StateRecord /\ f \in Flight /\ f # Idle /\ f.state \notin {"calling", "submitted"}
  BY StateIs, FlightNotIdle DEF Typed, OperationResult
<1>1. f.o \in Op /\ id \in Sched
  BY <1>0, OpKinds, Zenon DEF Flight, FlightRecord
<1>2. PICK d \in Completions(State, f.o, f.state, f.stored) :
        \E u \in ContinueOperations([d EXCEPT !.operation = Idle]) : Become(u)
  BY DEF OperationResult
<1>3. d \in StateRecord
  BY <1>0, CompletionsTyped
<1> DEFINE t == [d EXCEPT !.operation = Idle]
<1>4. t \in StateRecord /\ t.operation = Idle /\ t.doubtful = d.doubtful
  BY <1>3, Zenon DEF StateRecord
<1> HIDE DEF t
<1>5. \A u \in ContinueOperations(t) :
        /\ u.operation = Idle \/ u.operation.state = "calling"
        /\ u.doubtful = d.doubtful /\ u \in StateRecord
  BY <1>4, ContinueMoves, ContinueTyped, Zenon
<1>6. s \in ContinueOperations(t)
  <2>1. PICK u \in ContinueOperations(t) : Become(u)
    BY <1>2, Zenon DEF t
  <2> QED BY <1>5, <2>1, BecomeUnique, Zenon
<1>7. ASSUME d \in GiveUp(State, id) PROVE d.doubtful = doubtful \cup {id}
  <2>1. PICK g \in Drop(State, id) : d = [g EXCEPT !.doubtful = @ \cup {id}]
    BY <1>7 DEF GiveUp
  <2>2. g \in StateRecord /\ g.doubtful = State.doubtful
    <3>1. ASSUME NEW st \in StateRecord, NEW x \in Sched, NEW y \in Drop(st, x)
          PROVE  y \in StateRecord /\ y.doubtful = st.doubtful
      BY DropTyped, DropFields, Zenon
    <3> QED BY <1>0, <1>1, <3>1, Zenon
  <2> QED BY <2>1, <2>2, StateFields DEF StateRecord
<1>8. CASE f.state = "ok"
  BY <1>0, <1>5, <1>6, <1>8, Zenon DEF Moves
<1>9. CASE f.state # "ok" /\ f.o.op = "deliver"
  <2>1. CASE f.state = "fatal"
    <3>1. d \in GiveUp(State, id)
      BY <1>9, <2>1 DEF Completions
    <3> QED BY <1>0, <1>5, <1>6, <1>7, <1>9, <3>1, Zenon DEF Moves
  <2>2. CASE f.state # "fatal"
    <3>1. d = Arm(State, id, f.o.definition, f.o.revision, f.o.due)
      BY <1>9, <2>2 DEF Completions
    <3>2. d.doubtful = State.doubtful
      BY <1>0, <1>1, <3>1 DEF Arm, StateRecord
    <3> QED BY <1>0, <1>5, <1>6, <1>9, <3>2, StateFields, Zenon DEF Moves
  <2> QED BY <2>1, <2>2
<1>10. CASE f.state = "unknown" /\ f.o.op # "deliver"
  <2>1. d \in GiveUp(State, id)
    BY <1>10 DEF Completions
  <2> QED BY <1>0, <1>5, <1>6, <1>7, <2>1, Zenon DEF Moves
<1>11. CASE f.state \notin {"ok", "unknown"} /\ f.o.op # "deliver"
  <2>1. d = State
    BY <1>11 DEF Completions
  <2> QED BY <1>0, <1>5, <1>6, <1>11, <2>1, StateFields, Zenon DEF Moves
<1> QED BY <1>8, <1>9, <1>10, <1>11

---------------------------------------------------------------------------
(* The Engine's commands *)

\* A schedule after an advance.
LEMMA AdvancedFacts ==
  ASSUME NEW J, NEW id, NEW s \in Schedule, NEW next_at \in Time,
         NEW active \in Time \cup {None}
  PROVE  LET a == Advanced(J, id, s, next_at, active) IN
         /\ a \in Schedule /\ a.next_at = next_at /\ a.revision = s.revision + 1
         /\ a.definition = s.definition /\ a.cancelled = s.cancelled
         /\ \A at \in Time : J[id, at].state \in Nonterminal /\ (at \in s.active_job_ids \/ at = active)
                               => at \in a.active_job_ids
<1> DEFINE open == {at \in s.active_job_ids \cup (IF active = None THEN {} ELSE {active}) :
                      J[id, at].state \in Nonterminal}
<1>1. open \in SUBSET Time
  BY Zenon DEF Schedule
<1>2. \A at \in Time : J[id, at].state \in Nonterminal /\ (at \in s.active_job_ids \/ at = active)
                         => at \in open \/ at = None
  BY Zenon
<1>3. Advanced(J, id, s, next_at, active) =
        [s EXCEPT !.revision = s.revision + 1, !.next_at = next_at, !.active_job_id = active,
                  !.active_job_ids = open]
  BY DEF Advanced, Schedule
<1>4. None \notin Time
  BY CoordinatorAssumption
<1> HIDE DEF open
<1> DEFINE a == Advanced(J, id, s, next_at, active)
<1>5. /\ a \in Schedule /\ a.next_at = next_at /\ a.revision = s.revision + 1
      /\ a.definition = s.definition /\ a.cancelled = s.cancelled /\ a.active_job_ids = open
  <2>1. s.revision + 1 \in Nat
    BY DEF Schedule
  <2> DEFINE n == s.revision + 1
  <2>2. a = [s EXCEPT !.revision = n, !.next_at = next_at, !.active_job_id = active,
                      !.active_job_ids = open]
    BY <1>3
  <2> HIDE DEF a, n
  <2>3. a \in Schedule
    BY <1>1, <2>1, <2>2, Zenon DEF Schedule, n
  <2>4. /\ a.next_at = next_at /\ a.revision = n
        /\ a.definition = s.definition /\ a.cancelled = s.cancelled /\ a.active_job_ids = open
    BY <2>2 DEF Schedule
  <2> QED BY <2>3, <2>4 DEF n
<1> QED BY <1>2, <1>4, <1>5, Zenon

Follows(a, s, next_at) ==
  /\ a \in Schedule /\ a.next_at = next_at /\ a.revision = s.revision + 1
  /\ a.definition = s.definition /\ a.cancelled = s.cancelled

\* advance_schedule: the schedule has a new time and the next revision, and is
\* otherwise the one it was.
LEMMA AdvancedIs ==
  ASSUME NEW J, NEW id, NEW s \in Schedule, NEW next_at \in Time,
         NEW active \in Time \cup {None}
  PROVE  Follows(Advanced(J, id, s, next_at, active), s, next_at)
<1>1. LET a == Advanced(J, id, s, next_at, active) IN
      /\ a \in Schedule /\ a.next_at = next_at /\ a.revision = s.revision + 1
      /\ a.definition = s.definition /\ a.cancelled = s.cancelled
      /\ \A at \in Time : J[id, at].state \in Nonterminal /\ (at \in s.active_job_ids \/ at = active)
                            => at \in a.active_job_ids
  BY AdvancedFacts, Zenon
<1> QED BY <1>1, Zenon DEF Follows

\* What the execution of a delivery does (deliver_schedule in commands.ex): it
\* leaves schedule and job alone; or inserts the job and is refused the advance;
\* or advances, with the job there was, the new one, or none.
Insertable(c) ==
  LET s == schedules[c.id] IN
  /\ job[c.id, c.due].state = "none"
  /\ s.definition.overlap # "allow" => ~Busy(c.id, s)

DeliverFacts(c, r) ==
  LET s == schedules[c.id]
      j == job[c.id, c.due]
  IN \/ /\ r.schedule = s /\ r.job = j
        /\ r.result = "ok" => s \in Schedule /\ ~s.cancelled /\ s.definition = c.definition
     \/ /\ s \in Schedule /\ s.next_at = c.due /\ ~s.cancelled /\ s.definition = c.definition
        /\ \/ r.job = j
           \/ Insertable(c) /\ r.job = NewJob(s.definition)
        /\ \/ r.schedule = s /\ r.refused /\ r.result = "retry"
           \/ \E active \in Time \cup {None} :
                /\ r.schedule = Advanced([job EXCEPT ![<<c.id, c.due>>] = r.job], c.id, s, c.next_at, active)
                /\ ~r.refused /\ r.result = "ok"
                /\ r.job.state # "none" => active = c.due

\* deliver_schedule leaves the schedule alone or advances it, and inserts a job
\* at the time that is due only.
LEMMA Deliveries ==
  ASSUME schedules \in [Sched -> Schedule \cup {None}], job \in [Occurrence -> JobRecord],
         NEW c \in DeliverOp, NEW r \in DeliverSchedule(c)
  PROVE  DeliverFacts(c, r) /\ r.result \in {"ok", "retry", "fatal"}
<1> DEFINE s == schedules[c.id]
           o == <<c.id, c.due>>
           j == job[o]
           refusal(left) == Outcome("retry", s, left, TRUE)
           advance(left, active) ==
             {Outcome("ok", Advanced([job EXCEPT ![o] = left], c.id, s, c.next_at, active), left, FALSE),
              refusal(left)}
<1>0. /\ c.id \in Sched /\ c.due \in Time /\ c.next_at \in Time /\ o \in Occurrence
      /\ j \in JobRecord /\ s \in Schedule \cup {None}
  BY DEF DeliverOp, DeliverRecord, Occurrence
<1>1. CASE ~Active(s) \/ s.definition # c.definition \/ s.next_at < c.due
  <2>1. r = Outcome("fatal", s, j, FALSE)
    BY <1>1, Zenon DEF DeliverSchedule
  <2> QED BY <2>1, Zenon DEF Outcome, DeliverFacts
<1>2. CASE ~(~Active(s) \/ s.definition # c.definition \/ s.next_at < c.due)
  <2>1. s \in Schedule /\ ~s.cancelled /\ s.definition = c.definition /\ ~(s.next_at < c.due)
    BY <1>0, <1>2 DEF Active
  <2>2. s.next_at \in Nat /\ c.due \in Nat
    BY <1>0, <2>1, CoordinatorAssumption DEF Schedule, Time
  <2>3. CASE Delivered(s, c.due)
    <3>1. r = Outcome("ok", s, j, FALSE)
      BY <1>2, <2>3 DEF DeliverSchedule
    <3> QED BY <2>1, <3>1, Zenon DEF Outcome, DeliverFacts
  <2>4. CASE ~Delivered(s, c.due)
    <3>1. s.next_at = c.due
      BY <2>1, <2>2, <2>4 DEF Delivered
    <3>2. ASSUME NEW active \in Time \cup {None}, r \in advance(j, active),
                 j.state # "none" => active = c.due
          PROVE  DeliverFacts(c, r) /\ r.result \in {"ok", "retry", "fatal"}
      <4> DEFINE a == Advanced([job EXCEPT ![o] = j], c.id, s, c.next_at, active)
      <4>1. CASE r = Outcome("retry", s, j, TRUE)
        BY <1>0, <2>1, <3>1, <4>1, Zenon DEF DeliverFacts, Outcome
      <4>2. CASE r = Outcome("ok", a, j, FALSE)
        <5>1. r.result = "ok" /\ r.schedule = a /\ r.job = j /\ ~r.refused
          BY <4>2 DEF Outcome
        <5> QED BY <1>0, <2>1, <3>1, <3>2, <5>1, Zenon DEF DeliverFacts
      <4> QED BY <3>2, <4>1, <4>2, Zenon
    <3>3. s.active_job_id \in Time \cup {None}
      BY <2>1 DEF Schedule
    <3>4. CASE j.state = "none" /\ Busy(c.id, s) /\ Waits(s.definition)
      <4>1. r = Outcome("retry", s, j, FALSE)
        BY <1>2, <2>4, <3>4 DEF DeliverSchedule
      <4> QED BY <4>1, Zenon DEF Outcome, DeliverFacts
    <3>5. CASE /\ ~(j.state = "none" /\ Busy(c.id, s) /\ Waits(s.definition))
               /\ j.state = "none" /\ Busy(c.id, s) /\ s.definition.overlap = "skip"
      <4>1. r \in advance(j, s.active_job_id)
        BY <1>2, <2>4, <3>5, Zenon DEF DeliverSchedule
      <4> QED BY <3>2, <3>3, <3>5, <4>1, Zenon
    <3>6. CASE /\ ~(j.state = "none" /\ Busy(c.id, s) /\ Waits(s.definition))
               /\ ~(j.state = "none" /\ Busy(c.id, s) /\ s.definition.overlap = "skip")
               /\ j.state = "none"
      <4>1. r \in {refusal(j)} \cup advance(NewJob(s.definition), c.due)
        BY <1>2, <2>4, <3>6, Zenon DEF DeliverSchedule
      <4>2. s.definition.overlap \in {"allow", "skip", "queue"}
        BY <2>1, CoordinatorAssumption DEF Schedule
      <4>3. Insertable(c)
        BY <3>6, <4>2, Zenon DEF Insertable, Waits
      <4> DEFINE n == NewJob(s.definition)
                 a == Advanced([job EXCEPT ![o] = n], c.id, s, c.next_at, c.due)
      <4>4. CASE r = Outcome("retry", s, j, TRUE) \/ r = Outcome("retry", s, n, TRUE)
        <5>1. r.result = "retry" /\ r.schedule = s /\ (r.job = j \/ r.job = n) /\ r.refused
          BY <4>4 DEF Outcome
        <5> QED BY <1>0, <2>1, <3>1, <4>3, <5>1, Zenon DEF DeliverFacts
      <4>5. CASE r = Outcome("ok", a, n, FALSE)
        <5>1. r.result = "ok" /\ r.schedule = a /\ r.job = n /\ ~r.refused
          BY <4>5 DEF Outcome
        <5> QED BY <1>0, <2>1, <3>1, <4>3, <5>1, Zenon DEF DeliverFacts
      <4> QED BY <4>1, <4>4, <4>5, Zenon
    <3>7. CASE j.state # "none" /\ SameJob(j, s.definition)
      <4>1. r \in advance(j, c.due)
        BY <1>2, <2>4, <3>7, Zenon DEF DeliverSchedule
      <4> QED BY <1>0, <3>2, <4>1, Zenon
    <3>8. CASE j.state # "none" /\ ~SameJob(j, s.definition)
      <4>1. r = Outcome("fatal", s, j, FALSE)
        BY <1>2, <2>4, <3>8 DEF DeliverSchedule
      <4> QED BY <4>1, Zenon DEF Outcome, DeliverFacts
    <3> QED BY <3>4, <3>5, <3>6, <3>7, <3>8
  <2> QED BY <2>3, <2>4
<1> QED BY <1>1, <1>2

\* A registration replaces the schedule and keeps its membership, or does
\* nothing (register_schedule).
RegisterFacts(c, r) ==
  LET s == schedules[c.id] IN
  \/ r.schedule = s /\ (r.result = "ok" => s \in Schedule /\ ~s.cancelled /\ s.definition = c.definition)
  \/ /\ r.schedule \in Schedule /\ ~r.schedule.cancelled /\ r.result = "ok"
     /\ r.schedule.definition = c.definition
     /\ IF s = None THEN r.schedule.active_job_ids = {}
        ELSE /\ r.schedule.active_job_ids = s.active_job_ids
             /\ r.schedule.revision = s.revision + 1

\* register_schedule stores the definition with the next revision, or nothing,
\* and carries the active jobs over.
LEMMA Registrations ==
  ASSUME schedules \in [Sched -> Schedule \cup {None}], NEW c \in RegisterOp,
         NEW r \in RegisterSchedule(c)
  PROVE  RegisterFacts(c, r) /\ r.result \in {"ok", "retry", "fatal"}
<1> DEFINE s == schedules[c.id]
           previous == Previous(s)
           new == [definition |-> c.definition, next_at |-> c.next_at, cancelled |-> FALSE,
                   revision |-> previous.revision + 1, active_job_id |-> previous.active_job_id,
                   active_job_ids |-> previous.active_job_ids]
<1>0. c.definition \in Definitions /\ c.next_at \in Time /\ s \in Schedule \cup {None}
  BY DEF RegisterOp
<1>1. /\ previous.revision + 1 \in Nat /\ previous.active_job_id \in Time \cup {None}
      /\ previous.active_job_ids \in SUBSET Time
  BY <1>0 DEF Previous, Unregistered, Schedule
<1>2. new \in Schedule
  BY <1>0, <1>1 DEF Schedule
<1>3. CASE Active(s) /\ s.definition = c.definition
  <2>1. r = Outcome("ok", s, NoJob, FALSE)
    BY <1>3 DEF RegisterSchedule
  <2> QED BY <1>0, <1>3, <2>1 DEF Outcome, RegisterFacts, Active
<1>4. CASE ~(Active(s) /\ s.definition = c.definition)
  <2>1. r \in {Outcome("ok", new, NoJob, FALSE), Outcome("retry", s, NoJob, TRUE)}
    BY <1>4, Zenon DEF RegisterSchedule
  <2>2. CASE r = Outcome("retry", s, NoJob, TRUE)
    BY <2>2 DEF Outcome, RegisterFacts
  <2>3. CASE r = Outcome("ok", new, NoJob, FALSE)
    <3>1. r.result = "ok" /\ r.schedule = new
      BY <2>3 DEF Outcome
    <3>2. IF s = None THEN new.active_job_ids = {}
          ELSE new.active_job_ids = s.active_job_ids /\ new.revision = s.revision + 1
      BY Zenon DEF Previous, Unregistered
    <3>3. ~new.cancelled /\ new.definition = c.definition
      OBVIOUS
    <3> HIDE DEF new
    <3> QED BY <1>2, <3>1, <3>2, <3>3 DEF RegisterFacts
  <2> QED BY <2>1, <2>2, <2>3, Zenon
<1> QED BY <1>3, <1>4

\* A cancellation only marks the schedule (cancel_schedule).
CancelFacts(c, r) ==
  LET s == schedules[c.id] IN
  \/ r.schedule = s /\ (r.result = "ok" => s \in Schedule /\ s.cancelled)
  \/ /\ s \in Schedule /\ r.result = "ok"
     /\ r.schedule = [s EXCEPT !.cancelled = TRUE, !.revision = s.revision + 1]

\* cancel_schedule marks the schedule, with the next revision, once.
LEMMA Cancellations ==
  ASSUME schedules \in [Sched -> Schedule \cup {None}], NEW c \in CancelOp,
         NEW r \in CancelSchedule(c)
  PROVE  CancelFacts(c, r) /\ r.result \in {"ok", "retry", "fatal"}
<1> DEFINE s == schedules[c.id]
<1>0. s \in Schedule \cup {None}
  BY DEF CancelOp
<1>1. \/ r = Outcome("ok", s, NoJob, FALSE) /\ s # None /\ s.cancelled
      \/ r = Outcome("ok", [s EXCEPT !.cancelled = TRUE, !.revision = s.revision + 1], NoJob, FALSE)
           /\ s # None
      \/ r = Outcome("retry", s, NoJob, TRUE)
      \/ r = Outcome("fatal", s, NoJob, FALSE)
  BY <1>0, Zenon DEF CancelSchedule, Schedule
<1> QED BY <1>0, <1>1 DEF Outcome, CancelFacts

\* The outcome of any command.
OutcomeFacts(c, r) ==
  /\ r.result \in {"ok", "retry", "fatal"}
  /\ r.schedule \in Schedule \cup {None} /\ (r.result = "ok" => r.schedule \in Schedule)
  /\ c \in DeliverOp => DeliverFacts(c, r) /\ r.job \in JobRecord
  /\ c \in RegisterOp => RegisterFacts(c, r)
  /\ c \in CancelOp => CancelFacts(c, r)

\* Whatever the Engine answers, the schedule and the job it leaves behind fit
\* the command.
LEMMA CommandOutcomes ==
  ASSUME schedules \in [Sched -> Schedule \cup {None}], job \in [Occurrence -> JobRecord],
         NEW c \in Op, NEW r \in Outcomes(c)
  PROVE  OutcomeFacts(c, r)
<1>0. schedules[c.id] \in Schedule \cup {None}
  BY OpKinds
<1>1. CASE c \in DeliverOp
  <2>1. DeliverFacts(c, r) /\ r.result \in {"ok", "retry", "fatal"}
    BY <1>1, Deliveries, OpKinds DEF Outcomes
  <2>2. /\ job[c.id, c.due] \in JobRecord /\ c.next_at \in Time
    BY <1>1, Zenon DEF Occurrence, DeliverOp, DeliverRecord
  <2>3. schedules[c.id] \in Schedule => NewJob(schedules[c.id].definition) \in JobRecord
    <3> SUFFICES ASSUME schedules[c.id] \in Schedule
                 PROVE  NewJob(schedules[c.id].definition) \in JobRecord
      OBVIOUS
    <3>1. /\ schedules[c.id].definition.args \in Nat
          /\ schedules[c.id].definition.volatile \in BOOLEAN
      BY CoordinatorAssumption DEF Schedule
    <3> QED BY <3>1, Zenon DEF NewJob, NoJob, JobRecord, Nonterminal
  <2>4. r.job \in JobRecord
    BY <2>1, <2>2, <2>3, Zenon DEF DeliverFacts
  <2>5. r.schedule \in Schedule \cup {None} /\ (r.result = "ok" => r.schedule \in Schedule)
    <3>1. CASE r.schedule = schedules[c.id]
      BY <1>0, <2>1, <3>1, Zenon DEF DeliverFacts
    <3>2. CASE r.schedule # schedules[c.id]
      <4>1. PICK active \in Time \cup {None} :
              /\ schedules[c.id] \in Schedule
              /\ r.schedule = Advanced([job EXCEPT ![<<c.id, c.due>>] = r.job], c.id,
                                       schedules[c.id], c.next_at, active)
        BY <2>1, <3>2, Zenon DEF DeliverFacts
      <4> DEFINE J == [job EXCEPT ![<<c.id, c.due>>] = r.job]
      <4>2. ASSUME NEW K PROVE Advanced(K, c.id, schedules[c.id], c.next_at, active) \in Schedule
        BY <2>2, <4>1, AdvancedFacts, Zenon
      <4>3. Advanced(J, c.id, schedules[c.id], c.next_at, active) \in Schedule
        BY <4>2
      <4> QED BY <4>1, <4>3
    <3> QED BY <3>1, <3>2
  <2> QED BY <1>1, <2>1, <2>4, <2>5, OpKinds DEF OutcomeFacts
<1>2. CASE c \in RegisterOp
  <2>1. RegisterFacts(c, r) /\ r.result \in {"ok", "retry", "fatal"}
    BY <1>2, Registrations, OpKinds DEF Outcomes
  <2> QED BY <1>0, <1>2, <2>1, OpKinds DEF OutcomeFacts, RegisterFacts
<1>3. CASE c \in CancelOp
  <2>1. CancelFacts(c, r) /\ r.result \in {"ok", "retry", "fatal"}
    BY <1>3, Cancellations, OpKinds DEF Outcomes
  <2>2. schedules[c.id] \in Schedule =>
          [schedules[c.id] EXCEPT !.cancelled = TRUE, !.revision = schedules[c.id].revision + 1] \in Schedule
    <3>1. ASSUME NEW s \in Schedule
          PROVE  s.revision + 1 \in Nat
      BY DEF Schedule
    <3>2. ASSUME NEW s \in Schedule, NEW n \in Nat
          PROVE  [s EXCEPT !.cancelled = TRUE, !.revision = n] \in Schedule
      BY Zenon DEF Schedule
    <3> QED BY <3>1, <3>2, Zenon
  <2> QED BY <1>0, <1>3, <2>1, <2>2, OpKinds DEF OutcomeFacts, CancelFacts
<1> QED BY <1>1, <1>2, <1>3 DEF Op

\* The Engine executes the first command.
LEMMA CommandStep ==
  ASSUME Typed, Command
  PROVE  \E c \in Op : \E r : /\ commands # << >> /\ c = Head(commands).c
                              /\ OutcomeFacts(c, r) /\ Execute(c, r)
<1>1. /\ commands \in Seq(Request) /\ schedules \in [Sched -> Schedule \cup {None}]
      /\ job \in [Occurrence -> JobRecord]
  BY DEF Typed
<1> DEFINE c == Head(commands).c
<1>2. commands # << >>
  BY DEF Command
<1>3. Head(commands) \in Request
  BY <1>1, <1>2
<1>4. c \in Op
  BY <1>3 DEF Request
<1>5. PICK r \in Outcomes(c) : Execute(c, r)
  BY DEF Command
<1>6. OutcomeFacts(c, r)
  BY <1>1, <1>4, CommandOutcomes
<1> QED BY <1>2, <1>4, <1>5, <1>6

---------------------------------------------------------------------------
(* Every step keeps the types *)

\* The handlers of the coordinator.
LEMMA BecomeTyped ==
  ASSUME NEW s \in StateRecord, Become(s)
  PROVE  State' \in StateRecord /\ operation' = s.operation
BY DEF Become, State, StateRecord

\* No command is waited for when the operation is not submitted.
LEMMA BecomeAwaits ==
  ASSUME Awaits, NEW s \in StateRecord, Become(s), commands' = commands,
         operation \in Flight => s.operation = operation \/ operation.state # "submitted"
  PROVE  Awaits'
BY DEF Awaits, Become

\* What becomes of the coordinator at its start (init).
LEMMA InitTyped ==
  ASSUME NEW table \in [Sched -> Schedule \cup {None}], InitCoordinator(table),
         doubtful' \in SUBSET Sched
  PROVE  State' \in StateRecord
<1>1. ASSUME NEW id \in Sched, Active(table[id])
      PROVE  Entry(table[id].definition, table[id].revision, table[id].next_at, TRUE) \in EntryRecord
  <2>1. table[id] \in Schedule
    BY <1>1 DEF Active
  <2> QED BY <2>1 DEF Schedule, Entry, EntryRecord
<1>2. entries' \in [Sched -> EntryRecord \cup {None}]
  BY <1>1, Zenon DEF InitCoordinator
<1>3. timers' \in [Occurrence -> Int]
  BY DEF InitCoordinator
<1>4. operations' \in Seq(Op) /\ operation' = Idle
  BY DEF InitCoordinator
<1> QED BY <1>2, <1>3, <1>4 DEF State, StateRecord

\* The handlers of the coordinator, as the states they may leave.
Handlers ==
  \/ \E id \in Sched, def \in Definitions, start \in Starts : Register(id, def, start)
  \/ \E id \in Sched : Cancel(id)
  \/ \E id \in Sched, due \in Time : Due(id, due)
  \/ OperationResult

Handled(s) ==
  /\ s \in StateRecord /\ Become(s) /\ UNCHANGED Rest
  /\ operation \in Flight => s.operation = operation \/ operation.state # "submitted"

\* Every handler of the coordinator leaves a well typed state and forgets no
\* operation that the Engine has yet to answer.
LEMMA HandlersTyped ==
  ASSUME Typed, Handlers
  PROVE  \E s : Handled(s)
<1>0. /\ State \in StateRecord /\ State.operation = operation /\ now \in Nat
      /\ operation \in {Idle} \cup Flight
  BY StateFields, StateIs DEF Typed
<1>1. ASSUME NEW s \in StateRecord, NEW o \in Op, s.operation = operation,
             NEW t \in EnqueueOperation(s, o), Become(t), UNCHANGED Rest
      PROVE  \E u : Handled(u)
  <2>1. t \in StateRecord /\ (operation # Idle => t.operation = operation)
    BY <1>1, EnqueueTyped, Zenon
  <2> QED BY <1>0, <1>1, <2>1, FlightNotIdle DEF Handled
<1>2. ASSUME NEW id \in Sched, NEW def \in Definitions, NEW start \in Starts,
             Register(id, def, start)
      PROVE  \E t : Handled(t)
  <2> DEFINE next_at == FirstAt(def, IF start = None THEN now ELSE start)
             o == [op |-> "register", id |-> id, definition |-> def, next_at |-> next_at]
  <2>1. PICK t \in EnqueueOperation(State, o) : next_at \in Time /\ Become(t) /\ UNCHANGED Rest
    BY <1>2, Zenon DEF Register
  <2>2. o \in Op
    BY <2>1 DEF Op, RegisterOp
  <2> QED BY <1>0, <1>1, <2>1, <2>2
<1>3. ASSUME NEW id \in Sched, Cancel(id)
      PROVE  \E t : Handled(t)
  <2> DEFINE o == [op |-> "cancel", id |-> id, revision |-> 0]
  <2>1. o \in Op
    BY DEF Op, CancelOp
  <2>2. PICK t \in EnqueueOperation(State, o) : Become(t) /\ UNCHANGED Rest
    BY <1>3, Zenon DEF Cancel
  <2> QED BY <1>0, <1>1, <2>1, <2>2
<1>4. ASSUME NEW id \in Sched, NEW due \in Time, Due(id, due)
      PROVE  \E t : Handled(t)
  <2> DEFINE e == entries[id]
             next_at == AdvanceAfterDelivery(e.definition, due, now)
             heard == [State EXCEPT !.timers[<<id, due>>] = @ - 1]
             marked == [heard EXCEPT !.entries[id].timer = FALSE]
             o == [op |-> "deliver", id |-> id, definition |-> e.definition,
                   revision |-> e.revision, due |-> due, next_at |-> next_at]
  <2>1. heard \in StateRecord /\ heard.operation = operation /\ heard.entries = entries
    <3> DEFINE ts == [timers EXCEPT ![<<id, due>>] = timers[<<id, due>>] - 1]
    <3>1. ts \in [Occurrence -> Int]
      <4>1. <<id, due>> \in Occurrence
        BY DEF Occurrence
      <4> QED BY <1>0, <4>1, StateIs
    <3>2. heard = [State EXCEPT !.timers = ts]
      BY DEF State
    <3> HIDE DEF ts, heard
    <3>3. heard \in StateRecord
      BY <1>0, <3>1, <3>2, Zenon DEF StateRecord
    <3> QED BY <1>0, <3>2, <3>3, StateFields, Zenon DEF StateRecord
  <2>2. CASE e = None \/ e.next_at # due
    <3>1. Become(heard) /\ UNCHANGED Rest
      BY <1>4, <2>2, Zenon DEF Due
    <3> QED BY <1>0, <2>1, <3>1, Zenon DEF Handled
  <2>3. CASE e # None /\ e.next_at = due
    <3>1. e \in EntryRecord
      BY <1>0, <2>3, StateIs
    <3>2. marked \in StateRecord /\ marked.operation = operation
      <4> DEFINE es == [entries EXCEPT ![id] = [e EXCEPT !.timer = FALSE]]
      <4>1. es \in [Sched -> EntryRecord \cup {None}]
        <5>1. [e EXCEPT !.timer = FALSE] \in EntryRecord
          BY <3>1, Zenon DEF EntryRecord
        <5> QED BY <1>0, <5>1, StateIs
      <4>2. marked = [heard EXCEPT !.entries = es]
        <5> HIDE DEF heard
        <5> QED BY <2>1 DEF StateRecord
      <4> HIDE DEF es, heard, marked
      <4> QED BY <2>1, <4>1, <4>2 DEF StateRecord
    <3>3. e.definition \in Definitions /\ e.revision \in Nat /\ due \in Nat
      BY <3>1, CoordinatorAssumption DEF EntryRecord, Time
    <3>4. next_at \in Nat /\ next_at > due
      BY <1>0, <3>3, AdvanceAhead, Zenon
    <3>5. CASE next_at > MaxTime
      <4>1. PICK s \in GiveUp(marked, id) : Become(s) /\ UNCHANGED Rest
        BY <1>4, <2>3, <3>5, Zenon DEF Due
      <4>2. s \in StateRecord /\ s.operation = operation
        <5> HIDE DEF marked
        <5> QED BY <3>2, GiveUpTyped
      <4> QED BY <4>1, <4>2 DEF Handled
    <3>6. CASE ~(next_at > MaxTime)
      <4>1. PICK t \in EnqueueOperation(marked, o) : Become(t) /\ UNCHANGED Rest
        BY <1>4, <2>3, <3>6, Zenon DEF Due
      <4>2. next_at \in Time
        <5> HIDE DEF next_at
        <5> QED BY <3>4, <3>6, CoordinatorAssumption DEF Time
      <4>3. o \in DeliverOp
        <5> HIDE DEF next_at
        <5> QED BY <3>3, <3>4, <4>2 DEF DeliverOp, DeliverRecord
      <4> HIDE DEF marked, o
      <4> QED BY <1>1, <3>2, <4>1, <4>3 DEF Op
    <3> QED BY <3>5, <3>6
  <2> QED BY <2>2, <2>3
<1>5. ASSUME OperationResult
      PROVE  \E t : Handled(t)
  <2>1. /\ operation \in Flight /\ operation.state # "submitted" /\ UNCHANGED Rest
        /\ operation # Idle
    BY <1>0, <1>5, FlightNotIdle DEF OperationResult
  <2>2. PICK s \in Completions(State, operation.o, operation.state, operation.stored) :
          \E t \in ContinueOperations([s EXCEPT !.operation = Idle]) : Become(t)
    BY <1>5 DEF OperationResult
  <2>3. s \in StateRecord
    BY <1>0, <2>1, CompletionsTyped
  <2>4. [s EXCEPT !.operation = Idle] \in StateRecord
    BY <2>3, Zenon DEF StateRecord
  <2>5. PICK t \in ContinueOperations([s EXCEPT !.operation = Idle]) : Become(t)
    BY <2>2
  <2>6. t \in StateRecord
    BY <2>4, <2>5, ContinueTyped, Zenon
  <2> QED BY <2>1, <2>5, <2>6 DEF Handled
<1> QED BY <1>2, <1>3, <1>4, <1>5 DEF Handlers

\* The steps of jobs (StartJob, SettleJob, TaskEnds, RetryJob, ExpireJob).
JobSteps(o) == StartJob(o) \/ SettleJob(o) \/ TaskEnds(o) \/ RetryJob(o) \/ ExpireJob(o)

\* What a step of a job does to it: none is admitted, and one that had ended is
\* opened again only by an operator.
LEMMA JobStepFacts ==
  ASSUME Typed, NEW o \in Occurrence, JobSteps(o)
  PROVE  \E new \in JobRecord :
           /\ JobStep(o, new) /\ (job[o].state = "none" => new.state = "none")
           /\ \/ strays' = strays /\ (new.state \in Nonterminal => job[o].state \in Nonterminal)
              \/ strays' = strays \cup {o}
<1>1. job[o] \in JobRecord /\ o[1] \in Sched
  BY DEF Typed, Occurrence
<1>2. CASE StartJob(o)
  <2> DEFINE sid == IF schedules[o[1]] # None /\ o[2] \in schedules[o[1]].active_job_ids
                      THEN o[1] ELSE None
             new == [job[o] EXCEPT !.state = "executing", !.task = TRUE, !.schedule_id = sid]
  <2>1. sid \in Sched \cup {None}
    BY <1>1
  <2>2. JobStep(o, new) /\ strays' = strays /\ job[o].state = "waiting"
    BY <1>2 DEF StartJob
  <2> HIDE DEF sid
  <2>3. new \in JobRecord /\ new.state = "executing"
    BY <1>1, <2>1, Zenon DEF JobRecord, Nonterminal
  <2> QED BY <2>2, <2>3 DEF Nonterminal
<1>3. CASE SettleJob(o)
  <2>1. PICK state \in Terminal : JobStep(o, [job[o] EXCEPT !.state = state]) /\ strays' = strays
    BY <1>3 DEF SettleJob, Terminal
  <2>2. [job[o] EXCEPT !.state = state] \in JobRecord /\ [job[o] EXCEPT !.state = state].state = state
    BY <1>1 DEF JobRecord
  <2>3. job[o].state \in Nonterminal
    BY <1>3 DEF SettleJob
  <2> QED BY <2>1, <2>2, <2>3 DEF Nonterminal
<1>4. CASE TaskEnds(o)
  <2> DEFINE new == [job[o] EXCEPT !.task = FALSE, !.schedule_id = None]
  <2>1. JobStep(o, new) /\ strays' = strays
    BY <1>4 DEF TaskEnds
  <2>2. new \in JobRecord /\ new.state = job[o].state
    BY <1>1, Zenon DEF JobRecord
  <2> QED BY <2>1, <2>2, Zenon
<1>5. CASE RetryJob(o)
  <2> DEFINE new == [job[o] EXCEPT !.state = "waiting"]
  <2>1. JobStep(o, new) /\ strays' = strays \cup {o} /\ job[o].state = "discarded"
    BY <1>5 DEF RetryJob
  <2>2. new \in JobRecord
    BY <1>1 DEF JobRecord, Nonterminal
  <2> QED BY <2>1, <2>2
<1>6. CASE ExpireJob(o)
  <2>1. JobStep(o, NoJob) /\ strays' = strays
    BY <1>6 DEF ExpireJob
  <2>2. NoJob \in JobRecord /\ NoJob.state = "none"
    BY DEF NoJob, JobRecord
  <2> QED BY <2>1, <2>2 DEF Nonterminal
<1> QED BY <1>2, <1>3, <1>4, <1>5, <1>6 DEF JobSteps

\* The commands that are left are not waited for.
LEMMA Unawaited ==
  ASSUME commands \in Seq(Request),
         commands' = [i \in 1..Len(commands) |-> [commands[i] EXCEPT !.awaited = FALSE]]
  PROVE  commands' \in Seq(Request) /\ Awaits'
<1>1. /\ Len(commands) \in Nat
      /\ \A i \in 1..Len(commands) :
           [commands[i] EXCEPT !.awaited = FALSE] \in Request
           /\ [commands[i] EXCEPT !.awaited = FALSE].awaited = FALSE
  <2>1. ASSUME NEW q \in Request
        PROVE  [q EXCEPT !.awaited = FALSE] \in Request /\ [q EXCEPT !.awaited = FALSE].awaited = FALSE
    BY Zenon DEF Request
  <2> QED BY <2>1
<1>2. commands' \in Seq(Request) /\ Len(commands') = Len(commands)
  BY <1>1
<1>3. \A i \in 1..Len(commands') : ~commands'[i].awaited
  BY <1>1, <1>2, Zenon
<1> QED BY <1>2, <1>3 DEF Awaits

\* The first command is executed, and what its process learns.
LEMMA ExecuteTyped ==
  ASSUME Typed, Awaits, NEW c \in Op, NEW r, commands # << >>, c = Head(commands).c,
         OutcomeFacts(c, r), Execute(c, r)
  PROVE  Typed' /\ Awaits'
<1>1. /\ commands \in Seq(Request) /\ schedules \in [Sched -> Schedule \cup {None}]
      /\ job \in [Occurrence -> JobRecord] /\ State \in StateRecord /\ c.id \in Sched
      /\ inserted \in SUBSET Occurrence
  BY OpKinds DEF Typed
<1>2. schedules' \in [Sched -> Schedule \cup {None}]
  BY <1>1, Zenon DEF Execute, OutcomeFacts
<1>3. job' \in [Occurrence -> JobRecord]
  <2>1. CASE c.op = "deliver"
    <3>1. r.job \in JobRecord /\ job' = [job EXCEPT ![<<c.id, c.due>>] = r.job]
      BY <2>1, OpKinds, Zenon DEF Execute, OutcomeFacts
    <3> QED BY <1>1, <3>1, Zenon
  <2>2. CASE c.op # "deliver"
    BY <1>1, <2>2 DEF Execute
  <2> QED BY <2>1, <2>2
<1>4. inserted' \in SUBSET Occurrence
  <2>1. c.op = "deliver" => <<c.id, c.due>> \in Occurrence
    BY OpKinds DEF DeliverOp, DeliverRecord, Occurrence
  <2> QED BY <1>1, <2>1, Zenon DEF Execute
<1>5. Head(commands).awaited => operation \in Flight /\ operation.state = "submitted"
  <2>1. 1 \in 1..Len(commands) /\ Head(commands) = commands[1]
    BY <1>1
  <2> QED BY <2>1 DEF Awaits
<1>6. operation' \in {Idle} \cup Flight
  <2>1. CASE Head(commands).awaited
    <3>1. operation' = [operation EXCEPT !.state = r.result, !.stored = r.schedule]
      BY <2>1, Zenon DEF Execute
    <3> QED BY <1>5, <2>1, <3>1, Zenon DEF OutcomeFacts, Flight, FlightRecord
  <2>2. CASE ~Head(commands).awaited
    BY <1>1, <2>2, StateIs, Zenon DEF Execute
  <2> QED BY <2>1, <2>2
<1>7. State' \in StateRecord
  BY <1>1, <1>6, Zenon DEF Execute, State, StateRecord
<1>8. commands' \in Seq(Request) /\ Len(commands') = Len(commands) - 1
      /\ \A i \in 1..Len(commands') : commands'[i] = commands[i + 1] /\ i + 1 \in 1..Len(commands) /\ i + 1 # 1
  <2>1. commands' = Tail(commands)
    BY Zenon DEF Execute
  <2>2. /\ Tail(commands) \in Seq(Request) /\ Len(Tail(commands)) = Len(commands) - 1
        /\ \A i \in 1..Len(Tail(commands)) : Tail(commands)[i] = commands[i + 1]
    BY <1>1
  <2>3. \A i \in 1..(Len(commands) - 1) : i + 1 \in 1..Len(commands) /\ i + 1 # 1
    BY <1>1
  <2> QED BY <2>1, <2>2, <2>3
<1>9. Awaits'
  <2>1. CASE Head(commands).awaited
    <3>1. \A i \in 1..Len(commands) : commands[i].awaited => i = 1
      <4>1. 1 \in 1..Len(commands) /\ Head(commands) = commands[1]
        BY <1>1
      <4> QED BY <2>1, <4>1 DEF Awaits
    <3>2. \A i \in 1..Len(commands') : ~commands'[i].awaited
      BY <1>8, <3>1
    <3> QED BY <3>2 DEF Awaits
  <2>2. CASE ~Head(commands).awaited
    <3>1. operation' = operation
      BY <2>2, Zenon DEF Execute
    <3> SUFFICES ASSUME NEW i \in 1..Len(commands'), commands'[i].awaited
                 PROVE  /\ operation \in Flight /\ operation.state = "submitted"
                        /\ \A k \in 1..Len(commands') : commands'[k].awaited => k = i
      BY <3>1 DEF Awaits
    <3>2. /\ operation \in Flight /\ operation.state = "submitted"
          /\ \A k \in 1..Len(commands) : commands[k].awaited => k = i + 1
      BY <1>8 DEF Awaits
    <3>3. ASSUME NEW k \in 1..Len(commands'), commands'[k].awaited PROVE k = i
      <4>1. k + 1 = i + 1
        BY <1>8, <3>2, <3>3
      <4> QED BY <1>8, <4>1
    <3> QED BY <3>2, <3>3
  <2> QED BY <2>1, <2>2
<1> QED BY <1>2, <1>3, <1>4, <1>7, <1>8, <1>9, Zenon DEF Execute, Typed

\* Every step keeps the types, and waits for at most one command.
LEMMA StepTyped ==
  ASSUME Typed, Awaits, [Next]_vars
  PROVE  Typed' /\ Awaits'
<1>0. /\ State \in StateRecord /\ operation \in {Idle} \cup Flight /\ commands \in Seq(Request)
      /\ now \in Nat /\ schedules \in [Sched -> Schedule \cup {None}]
      /\ recovered \in [Sched -> Schedule \cup {None}]
      /\ job \in [Occurrence -> JobRecord] /\ inserted \in SUBSET Occurrence
  BY StateIs DEF Typed
<1>1. CASE Tick
  <2>1. now' \in Nat
    BY <1>0, <1>1 DEF Tick
  <2> QED BY <1>1, <2>1 DEF Tick, Typed, Awaits, State, engineVars
<1>2. CASE Command
  BY <1>2, CommandStep, ExecuteTyped
<1>3. CASE Submit
  <2> DEFINE q == [c |-> operation.o, awaited |-> TRUE]
  <2>1. operation \in Flight /\ operation.state = "calling"
    BY <1>0, <1>3, FlightNotIdle DEF Submit
  <2>2. operation' \in Flight /\ operation'.state = "submitted"
    BY <1>3, <2>1 DEF Submit, Flight, FlightRecord
  <2>3. q \in Request
    BY <2>1 DEF Request, Flight, FlightRecord
  <2>4. /\ commands' \in Seq(Request) /\ Len(commands') = Len(commands) + 1
        /\ \A i \in 1..Len(commands) : commands'[i] = commands[i]
    <3> HIDE DEF q
    <3>1. commands' = Append(commands, q)
      BY <1>3 DEF Submit, q
    <3> QED BY <1>0, <2>3, <3>1
  <2>5. \A i \in 1..Len(commands) : ~commands[i].awaited
    BY <2>1 DEF Awaits
  <2>6. \A i \in 1..Len(commands') : commands'[i].awaited => i = Len(commands')
    BY <1>0, <2>4, <2>5
  <2>7. Awaits'
    BY <2>2, <2>6 DEF Awaits
  <2>8. State' \in StateRecord
    BY <1>0, <1>3, <2>2, StateIs DEF Submit, State, StateRecord
  <2> QED BY <1>0, <1>3, <2>4, <2>7, <2>8 DEF Submit, Typed, engineVars
<1>4. CASE Refused
  <2>1. operation \in Flight /\ operation.state = "calling"
    BY <1>0, <1>4, FlightNotIdle DEF Refused
  <2>2. operation' \in Flight
    BY <1>4, <2>1 DEF Refused, Flight, FlightRecord
  <2>3. Awaits'
    BY <1>4, <2>1 DEF Refused, Awaits
  <2>4. State' \in StateRecord
    BY <1>0, <1>4, <2>2, StateIs DEF Refused, State, StateRecord
  <2> QED BY <1>0, <1>4, <2>3, <2>4 DEF Refused, Typed, engineVars
<1>5. CASE Lost
  <2>1. operation \in Flight /\ operation.state = "submitted"
    BY <1>0, <1>5, FlightNotIdle DEF Lost
  <2>2. operation' \in Flight
    BY <1>5, <2>1 DEF Lost, Flight, FlightRecord
  <2>3. commands' \in Seq(Request) /\ Awaits'
    BY <1>0, <1>5, Unawaited DEF Lost
  <2>4. State' \in StateRecord
    BY <1>0, <1>5, <2>2, StateIs DEF Lost, State, StateRecord
  <2> QED BY <1>0, <1>5, <2>3, <2>4 DEF Lost, Typed, engineVars
<1>6. CASE Handlers
  <2>1. PICK s : Handled(s)
    BY <1>6, HandlersTyped
  <2>2. State' \in StateRecord
    BY <2>1, BecomeTyped DEF Handled
  <2>3. Awaits'
    BY <2>1, BecomeAwaits DEF Handled, Rest
  <2> QED BY <1>0, <2>1, <2>2, <2>3 DEF Handled, Rest, Typed, engineVars
<1>7. CASE Restart
  <2>1. State' \in StateRecord
    BY <1>0, <1>7, InitTyped, Zenon DEF Restart
  <2>2. job' \in [Occurrence -> JobRecord]
    <3> DEFINE kept(j) == [j EXCEPT !.task = FALSE, !.schedule_id = None,
                                    !.state = IF @ = "executing" THEN "waiting" ELSE @]
    <3>1. ASSUME NEW j \in JobRecord PROVE kept(j) \in JobRecord
      BY Zenon DEF JobRecord, Nonterminal
    <3>2. NoJob \in JobRecord
      BY DEF NoJob, JobRecord
    <3>3. job' = [o \in Occurrence |-> IF job[o].volatile THEN NoJob ELSE kept(job[o])]
      BY <1>7, Zenon DEF Restart
    <3> HIDE DEF kept
    <3> QED BY <1>0, <3>1, <3>2, <3>3
  <2>3. commands' \in Seq(Request) /\ Len(commands') = 0
    <3>1. commands' = << >>
      BY <1>7, Zenon DEF Restart
    <3> QED BY <3>1
  <2>4. Awaits'
    BY <2>3 DEF Awaits
  <2> QED BY <1>0, <1>7, <2>1, <2>2, <2>3, <2>4, Zenon DEF Restart, Typed
<1>8. CASE CoordinatorRestarts
  <2>1. State' \in StateRecord
    BY <1>0, <1>8, InitTyped DEF CoordinatorRestarts
  <2>2. commands' \in Seq(Request) /\ Awaits'
    BY <1>0, <1>8, Unawaited DEF CoordinatorRestarts
  <2> QED BY <1>0, <1>8, <2>1, <2>2 DEF CoordinatorRestarts, Typed, engineVars
<1>9. ASSUME NEW o \in Occurrence, JobSteps(o) PROVE Typed' /\ Awaits'
  <2>1. PICK new \in JobRecord : JobStep(o, new)
    BY <1>9, JobStepFacts
  <2>2. job' \in [Occurrence -> JobRecord]
    BY <1>0, <2>1 DEF JobStep
  <2> QED BY <1>0, <2>1, <2>2, Zenon DEF JobStep, Typed, Awaits, State
<1>10. CASE UNCHANGED vars
  BY <1>10, Zenon DEF vars, engineVars, Typed, Awaits, State
<1> QED BY <1>1, <1>2, <1>3, <1>4, <1>5, <1>6, <1>7, <1>8, <1>9, <1>10 DEF Next, Handlers, JobSteps

\* The state the processes start in is well typed.
LEMMA StartTyped == Init => Typed /\ Awaits
<1> SUFFICES ASSUME Init PROVE Typed /\ Awaits
  OBVIOUS
<1>1. NoJob \in JobRecord
  BY DEF NoJob, JobRecord
<1>2. State \in StateRecord
  BY StateIs DEF Init
<1> QED BY <1>1, <1>2 DEF Init, Typed, Awaits

---------------------------------------------------------------------------
(* The two tables, step by step *)

\* A command that is waited for is the last one, and the one of the operation in
\* flight.  One that is not waited for changes a schedule that was given up, or
\* that will be with the unknown result of its operation.
Order ==
  \A i \in 1..Len(commands) :
    IF commands[i].awaited
    THEN /\ i = Len(commands) /\ operation # Idle /\ operation.state = "submitted"
         /\ commands[i].c = operation.o
    ELSE commands[i].c.op # "deliver" =>
           \/ commands[i].c.id \in doubtful
           \/ operation # Idle /\ operation.state = "unknown" /\ operation.o = commands[i].c

\* The process of an operation learns its fate.
LEMMA FateHeld ==
  ASSUME NEW st, NEW t, NEW S, NEW id, Held(st, S, id), t.entries[id] = st.entries[id],
         t.operations = st.operations, st.operation # Idle, t.operation # Idle,
         t.operation.o = st.operation.o, Changing(st, id) => Changing(t, id)
  PROVE  Held(t, S, id)
BY Zenon DEF Held, Delivering, Queued, InFlight

\* The Engine's answer to the operation in flight changes what is known of its
\* outcome only.
LEMMA FateGood ==
  ASSUME NEW st \in StateRecord, NEW t, NEW S \in [Sched -> Schedule \cup {None}], NEW R,
         Good(st, S, R), t.entries = st.entries, t.operations = st.operations,
         t.timers = st.timers, t.doubtful = st.doubtful,
         st.operation # Idle, t.operation # Idle, t.operation.o = st.operation.o,
         st.operation.state \notin {"ok", "unknown"}
  PROVE  Good(t, S, R)
<1>1. TimersSet(t)
  BY Zenon DEF Good, TimersSet
<1>2. Revisions(t, S, R)
  <2>1. ASSUME NEW x \in Sched, NEW v \in Nat, NEW b \in Definitions, Knows(t, x, v, b)
        PROVE  Knows(st, x, v, b)
    BY <2>1, Zenon DEF Knows, Delivering, InFlight
  <2> QED BY <2>1, RevisionsKept, Zenon DEF Good
<1>3. ASSUME NEW id \in Sched \ t.doubtful PROVE Held(t, S, id)
  <2>1. ~Changing(st, id)
    BY DEF Changing
  <2> QED BY <2>1, FateHeld, Zenon DEF Good
<1> QED BY <1>1, <1>2, <1>3, Zenon DEF Good

\* A delivery that changes its schedule advances it.
LEMMA DeliverFollows ==
  ASSUME NEW c \in DeliverOp, NEW r, DeliverFacts(c, r), r.schedule # schedules[c.id]
  PROVE  /\ schedules[c.id] \in Schedule /\ schedules[c.id].next_at = c.due
         /\ ~schedules[c.id].cancelled /\ schedules[c.id].definition = c.definition
         /\ Follows(r.schedule, schedules[c.id], c.next_at)
<1> DEFINE s == schedules[c.id]
<1>1. PICK active \in Time \cup {None} :
        /\ s \in Schedule /\ s.next_at = c.due /\ ~s.cancelled /\ s.definition = c.definition
        /\ r.schedule = Advanced([job EXCEPT ![<<c.id, c.due>>] = r.job], c.id, s, c.next_at, active)
  BY Zenon DEF DeliverFacts
<1>2. s \in Schedule /\ c.next_at \in Time
  BY <1>1 DEF DeliverOp, DeliverRecord
<1>3. r.schedule = Advanced([job EXCEPT ![<<c.id, c.due>>] = r.job], c.id, s, c.next_at, active)
  BY <1>1
<1>4. Follows(r.schedule, s, c.next_at)
  BY <1>2, <1>3, AdvancedIs, Zenon
<1> QED BY <1>1, <1>4, Zenon

\* A schedule keeps its definition, or its revision grows.
LEMMA ExecuteLater ==
  ASSUME schedules \in [Sched -> Schedule \cup {None}], NEW c \in Op, NEW r, OutcomeFacts(c, r),
         schedules[c.id] # None, r.schedule # schedules[c.id]
  PROVE  /\ schedules[c.id] \in Schedule /\ r.schedule \in Schedule
         /\ r.schedule.revision = schedules[c.id].revision + 1
<1> DEFINE s == schedules[c.id]
<1>1. c.id \in Sched /\ s \in Schedule
  BY OpKinds
<1>2. CASE c \in DeliverOp
  <2>3. Follows(r.schedule, s, c.next_at)
    BY <1>2, DeliverFollows, Zenon DEF OutcomeFacts
  <2> QED BY <1>1, <2>3 DEF Follows
<1>3. CASE c \in RegisterOp
  BY <1>1, <1>3, Zenon DEF OutcomeFacts, RegisterFacts
<1>4. CASE c \in CancelOp
  <2>1. r.schedule = [s EXCEPT !.cancelled = TRUE, !.revision = s.revision + 1]
    BY <1>4 DEF OutcomeFacts, CancelFacts
  <2>2. r.schedule.revision = s.revision + 1
    BY <1>1, <2>1 DEF Schedule
  <2>3. r.schedule \in Schedule
    BY <1>1, <1>4 DEF OutcomeFacts, CancelFacts
  <2> QED BY <1>1, <2>2, <2>3, Zenon
<1> QED BY <1>2, <1>3, <1>4 DEF Op

\* An entry that agreed with its schedule is at most behind it after a delivery.
LEMMA DeliverAgrees ==
  ASSUME schedules \in [Sched -> Schedule \cup {None}], NEW c \in DeliverOp, NEW r, OutcomeFacts(c, r),
         NEW e \in EntryRecord \cup {None}, Agrees(e, schedules[c.id])
  PROVE  Agrees(e, r.schedule)
<1> DEFINE s == schedules[c.id]
<1>1. /\ DeliverFacts(c, r) /\ c.next_at \in Time /\ c.due \in Time /\ c.due < c.next_at
  BY DEF OutcomeFacts, DeliverOp, DeliverRecord
<1>2. CASE r.schedule = s
  BY <1>2
<1>3. CASE r.schedule # s
  <2>1. /\ s \in Schedule /\ s.next_at = c.due /\ ~s.cancelled
        /\ Follows(r.schedule, s, c.next_at)
    BY <1>1, <1>3, DeliverFollows, Zenon
  <2>3. /\ r.schedule \in Schedule /\ r.schedule.next_at = c.next_at
        /\ r.schedule.definition = s.definition /\ ~r.schedule.cancelled
    BY <2>1, Zenon DEF Follows
  <2>4. None \notin Schedule /\ None \notin EntryRecord
    BY CoordinatorAssumption
  <2>5. e \in EntryRecord /\ Active(s) /\ Active(r.schedule)
    BY <2>1, <2>3, <2>4, Zenon DEF Agrees, Active
  <2>6. e.next_at < c.next_at
    <3>1. e.next_at \in Nat /\ c.due \in Nat /\ c.next_at \in Nat
      <4>1. e.next_at \in Time /\ c.due \in Time /\ c.next_at \in Time
        BY <1>1, <2>5 DEF EntryRecord
      <4> QED BY <4>1, CoordinatorAssumption DEF Time
    <3>2. e.next_at < c.due \/ e.next_at = c.due
      BY <2>1, <2>4, <2>5, Zenon DEF Agrees
    <3> QED BY <1>1, <3>1, <3>2
  <2> QED BY <2>3, <2>4, <2>5, <2>6, Zenon DEF Agrees
<1> QED BY <1>2, <1>3

\* A handler of the coordinator keeps its state good.
LEMMA HandlersGood ==
  ASSUME Typed, Good(State, schedules, recovered), Answered, Handlers
  PROVE  \E s : Handled(s) /\ Good(s, schedules, recovered) /\ Moves(s)
<1>0. /\ State \in StateRecord /\ State.operation = operation /\ State.doubtful = doubtful
      /\ schedules \in [Sched -> Schedule \cup {None}]
  BY StateFields, Zenon DEF Typed
<1>1. PICK s : Handled(s)
  BY HandlersTyped
<1>2. s \in StateRecord /\ Become(s)
  BY <1>1, Zenon DEF Handled
<1>3. ASSUME NEW o \in Op, o.op # "deliver", NEW t \in EnqueueOperation(State, o), Become(t)
      PROVE  Good(s, schedules, recovered) /\ Moves(s)
  <2>1. t \in StateRecord /\ Moves(t) /\ Good(t, schedules, recovered)
    BY <1>0, <1>3, EnqueueTyped, EnqueueMoves, AskGood, Zenon
  <2> QED BY <1>2, <1>3, <2>1, BecomeUnique, Zenon
<1>4. ASSUME NEW id \in Sched, NEW def \in Definitions, NEW start \in Starts,
             Register(id, def, start)
      PROVE  Good(s, schedules, recovered) /\ Moves(s)
  <2> DEFINE next_at == FirstAt(def, IF start = None THEN now ELSE start)
             o == [op |-> "register", id |-> id, definition |-> def, next_at |-> next_at]
  <2>1. PICK t \in EnqueueOperation(State, o) : next_at \in Time /\ Become(t)
    BY <1>4, Zenon DEF Register
  <2>2. o \in Op /\ o.op # "deliver"
    BY <2>1, Zenon DEF Op, RegisterOp
  <2> QED BY <1>3, <2>1, <2>2, Zenon
<1>5. ASSUME NEW id \in Sched, Cancel(id)
      PROVE  Good(s, schedules, recovered) /\ Moves(s)
  <2> DEFINE o == [op |-> "cancel", id |-> id, revision |-> 0]
  <2>1. o \in Op /\ o.op # "deliver"
    BY Zenon DEF Op, CancelOp
  <2>2. PICK t \in EnqueueOperation(State, o) : Become(t)
    BY <1>5, Zenon DEF Cancel
  <2> QED BY <1>3, <2>1, <2>2, Zenon
<1>6. ASSUME NEW id \in Sched, NEW due \in Time, Due(id, due)
      PROVE  Good(s, schedules, recovered) /\ Moves(s)
  BY <1>2, <1>6, DueGood, Zenon
<1>7. ASSUME OperationResult
      PROVE  Good(s, schedules, recovered) /\ Moves(s)
  BY <1>2, <1>7, ResultGood, ResultMoves
<1> QED BY <1>1, <1>4, <1>5, <1>6, <1>7, Zenon DEF Handlers

\* The new state of the coordinator.
LEMMA BecomeState ==
  ASSUME NEW s \in StateRecord, Become(s)
  PROVE  State' = s
<1>1. s = [entries |-> s.entries, operations |-> s.operations, operation |-> s.operation,
           timers |-> s.timers, doubtful |-> s.doubtful]
  BY Zenon DEF StateRecord
<1>2. State' = [entries |-> s.entries, operations |-> s.operations, operation |-> s.operation,
                timers |-> s.timers, doubtful |-> s.doubtful]
  BY Zenon DEF State, Become
<1> QED BY <1>1, <1>2, Zenon

Agreement == Order /\ Answered /\ Good(State, schedules, recovered)

\* The handlers of the coordinator keep the two tables in agreement.
LEMMA HandlersAgree ==
  ASSUME Typed, Agreement, Handlers
  PROVE  Agreement'
<1>0. commands \in Seq(Request)
  BY Zenon DEF Typed
<1>1. PICK s : Handled(s) /\ Good(s, schedules, recovered) /\ Moves(s)
  BY HandlersGood, Zenon DEF Agreement
<1>2. /\ s \in StateRecord /\ Become(s) /\ schedules' = schedules /\ recovered' = recovered
      /\ commands' = commands /\ operation' = s.operation /\ doubtful' = s.doubtful
  BY <1>1, Zenon DEF Handled, Rest, engineVars, Become
<1>3. State' = s
  BY <1>2, BecomeState
<1>4. Good(State, schedules, recovered)'
  BY <1>1, <1>2, <1>3
<1>5. Answered'
  BY <1>1, <1>2, Zenon DEF Agreement, Answered, Moves
<1>6. Order'
  <2> SUFFICES ASSUME NEW i \in 1..Len(commands)
               PROVE  IF commands[i].awaited
                      THEN /\ i = Len(commands) /\ operation' # Idle /\ operation'.state = "submitted"
                           /\ commands[i].c = operation'.o
                      ELSE commands[i].c.op # "deliver" =>
                             \/ commands[i].c.id \in doubtful'
                             \/ operation' # Idle /\ operation'.state = "unknown" /\ operation'.o = commands[i].c
    BY <1>2, Zenon DEF Order
  <2>1. Order /\ Answered
    BY DEF Agreement
  <2>2. commands # << >>
    BY <1>0
  <2>3. CASE commands[i].awaited
    <3>1. /\ i = Len(commands) /\ operation # Idle /\ operation.state = "submitted"
          /\ commands[i].c = operation.o
      BY <2>1, <2>3 DEF Order
    <3> QED BY <1>1, <1>2, <2>3, <3>1, Zenon DEF Moves
  <2>4. CASE ~commands[i].awaited /\ commands[i].c.op # "deliver"
    <3>1. \/ commands[i].c.id \in doubtful
          \/ operation # Idle /\ operation.state = "unknown" /\ operation.o = commands[i].c
      BY <2>1, <2>4, Zenon DEF Order
    <3>2. doubtful \subseteq doubtful'
      BY <1>1, <1>2, <2>1, <2>2, Zenon DEF Moves, Answered
    <3> QED BY <1>1, <1>2, <2>4, <3>1, <3>2, Zenon DEF Moves
  <2> QED BY <2>3, <2>4, Zenon
<1> QED BY <1>4, <1>5, <1>6 DEF Agreement

\* The process of the operation in flight submits it, or learns its fate.
LEMMA FateAgrees ==
  ASSUME Typed, Agreement, Submit \/ Refused \/ Lost
  PROVE  Agreement'
<1>0. /\ commands \in Seq(Request) /\ State \in StateRecord /\ operation \in {Idle} \cup Flight
      /\ schedules \in [Sched -> Schedule \cup {None}]
  BY StateIs DEF Typed
<1>1. /\ operation \in Flight /\ operation # Idle /\ operation.state \in {"calling", "submitted"}
      /\ \E state \in {"submitted", "retry", "unknown"} : operation' = [operation EXCEPT !.state = state]
      /\ UNCHANGED <<entries, operations, timers, doubtful, recovered, schedules>>
  BY <1>0, FlightNotIdle DEF Submit, Refused, Lost, engineVars
<1>2. /\ operation' # Idle /\ operation'.o = operation.o /\ operation'.state # "ok"
  BY <1>1 DEF Flight, FlightRecord, Idle
<1>3. Good(State', schedules, recovered)
  <2>1. /\ State'.entries = State.entries /\ State'.operations = State.operations
        /\ State'.timers = State.timers /\ State'.doubtful = State.doubtful
        /\ State'.operation = operation' /\ State.operation = operation
    BY <1>1 DEF State
  <2> QED BY <1>0, <1>1, <1>2, <2>1, FateGood, Zenon DEF Agreement
<1>4. Good(State, schedules, recovered)' /\ Answered'
  BY <1>1, <1>2, <1>3 DEF Answered
<1>5. Order'
  <2>0. Order
    BY DEF Agreement
  <2>1. CASE Submit
    <3> DEFINE q == [c |-> operation.o, awaited |-> TRUE]
    <3>1. operation.state = "calling" /\ operation'.state = "submitted"
      BY <1>1, <2>1 DEF Submit, Flight, FlightRecord
    <3>2. q.awaited /\ q.c = operation'.o
      BY <1>2, Zenon
    <3>3. commands' = Append(commands, q)
      BY <2>1 DEF Submit
    <3> HIDE DEF q
    <3>4. /\ Len(commands') = Len(commands) + 1 /\ commands'[Len(commands')] = q /\ Len(commands) \in Nat
          /\ \A i \in 1..Len(commands) : commands'[i] = commands[i]
      BY <1>0, <3>3
    <3>5. ASSUME NEW i \in 1..Len(commands)
          PROVE  ~commands'[i].awaited /\ (commands'[i].c.op # "deliver" => commands'[i].c.id \in doubtful')
      <4>1. /\ ~commands[i].awaited /\ (commands[i].c.op # "deliver" => commands[i].c.id \in doubtful)
        BY <2>0, <3>1, Zenon DEF Order
      <4> QED BY <1>1, <3>4, <4>1
    <3>6. \A i \in 1..Len(commands') : i \in 1..Len(commands) \/ i = Len(commands')
      BY <3>4
    <3> QED BY <1>2, <3>1, <3>2, <3>4, <3>5, <3>6, Zenon DEF Order
  <2>2. CASE Refused
    <3>1. operation.state = "calling" /\ commands' = commands
      BY <2>2 DEF Refused
    <3>2. \A i \in 1..Len(commands) :
            ~commands[i].awaited /\ (commands[i].c.op # "deliver" => commands[i].c.id \in doubtful)
      BY <2>0, <3>1, Zenon DEF Order
    <3> QED BY <1>1, <3>1, <3>2 DEF Order
  <2>3. CASE Lost
    <3>1. operation.state = "submitted" /\ operation'.state = "unknown"
      BY <1>1, <2>3 DEF Lost, Flight, FlightRecord
    <3>2. /\ Len(commands') = Len(commands)
          /\ \A i \in 1..Len(commands) : commands'[i] = [commands[i] EXCEPT !.awaited = FALSE]
      BY <1>0, <2>3 DEF Lost
    <3>3. ASSUME NEW i \in 1..Len(commands)
          PROVE  ~commands'[i].awaited /\ commands'[i].c = commands[i].c
      <4>1. commands[i] \in Request
        BY <1>0
      <4> QED BY <3>2, <4>1, Zenon DEF Request
    <3>4. ASSUME NEW i \in 1..Len(commands), commands[i].c.op # "deliver"
          PROVE  commands[i].c.id \in doubtful \/ commands[i].c = operation.o
      BY <2>0, <3>1, <3>4, Zenon DEF Order
    <3> QED BY <1>1, <1>2, <3>1, <3>2, <3>3, <3>4 DEF Order
  <2> QED BY <2>1, <2>2, <2>3
<1> QED BY <1>4, <1>5 DEF Agreement

\* What is known of a schedule stays true when the Engine changes it.
LEMMA RevisionsGrow ==
  ASSUME NEW st, NEW t, NEW R, Revisions(st, schedules, R),
         schedules \in [Sched -> Schedule \cup {None}], NEW c \in Op, NEW r, OutcomeFacts(c, r),
         NEW S, S = [schedules EXCEPT ![c.id] = r.schedule],
         \A id \in Sched, v \in Nat, d \in Definitions : Knows(t, id, v, d) => Knows(st, id, v, d)
  PROVE  Revisions(t, S, R)
<1>0. c.id \in Sched
  BY OpKinds
<1> SUFFICES ASSUME NEW id \in Sched, NEW v \in Nat, NEW d \in Definitions,
                    Knows(t, id, v, d) \/ Remembers(R, id, v, d)
             PROVE  /\ S[id] # None /\ v <= S[id].revision /\ (v = S[id].revision => d = S[id].definition)
                    /\ \A b \in Definitions : Knows(t, id, v, b) \/ Remembers(R, id, v, b) => b = d
  BY Zenon DEF Revisions
<1>1. \A b \in Definitions : Knows(t, id, v, b) \/ Remembers(R, id, v, b) =>
        Knows(st, id, v, b) \/ Remembers(R, id, v, b)
  BY Zenon
<1>2. /\ schedules[id] # None /\ v <= schedules[id].revision
      /\ v = schedules[id].revision => d = schedules[id].definition
  BY <1>1, Zenon DEF Revisions
<1>3. \A b \in Definitions : Knows(t, id, v, b) \/ Remembers(R, id, v, b) => b = d
  BY <1>1, Zenon DEF Revisions
<1>4. CASE id # c.id \/ r.schedule = schedules[c.id]
  <2>1. S[id] = schedules[id]
    BY <1>0, <1>4
  <2> QED BY <1>2, <1>3, <2>1, Zenon
<1>5. CASE id = c.id /\ r.schedule # schedules[c.id]
  <2>1. S[id] = r.schedule
    BY <1>0, <1>5
  <2>2. /\ schedules[id] \in Schedule /\ r.schedule \in Schedule
        /\ r.schedule.revision = schedules[id].revision + 1
    BY <1>2, <1>5, ExecuteLater
  <2>3. schedules[id].revision \in Nat /\ r.schedule # None
    BY <2>2, CoordinatorAssumption DEF Schedule
  <2> DEFINE n == schedules[id].revision
             m == r.schedule.revision
  <2>4. n \in Nat /\ m = n + 1 /\ v <= n
    BY <1>2, <2>2, <2>3, Zenon
  <2> HIDE DEF n, m
  <2>5. v <= m /\ v # m
    BY <2>4
  <2>6. v <= S[id].revision /\ v # S[id].revision /\ S[id] # None
    BY <2>1, <2>3, <2>5, Zenon DEF m
  <2> QED BY <1>3, <2>6, Zenon
<1> QED BY <1>4, <1>5

\* The Engine executes the first command.
LEMMA ExecuteAgrees ==
  ASSUME Typed, Agreement, NEW c \in Op, NEW r, commands # << >>, c = Head(commands).c,
         OutcomeFacts(c, r), Execute(c, r)
  PROVE  Agreement'
<1> DEFINE S == schedules
           T == [schedules EXCEPT ![c.id] = r.schedule]
<1>0. /\ commands \in Seq(Request) /\ State \in StateRecord /\ operation \in {Idle} \cup Flight
      /\ S \in [Sched -> Schedule \cup {None}] /\ entries \in [Sched -> EntryRecord \cup {None}]
      /\ c.id \in Sched
  BY StateIs, OpKinds, Zenon DEF Typed
<1>1. /\ Order /\ Answered /\ TimersSet(State) /\ Revisions(State, S, recovered)
      /\ \A id \in Sched \ doubtful : Held(State, S, id)
  BY StateFields, Zenon DEF Agreement, Good
<1>2. /\ schedules' = T /\ commands' = Tail(commands)
      /\ operation' = IF Head(commands).awaited
                        THEN [operation EXCEPT !.state = r.result, !.stored = r.schedule] ELSE operation
      /\ UNCHANGED <<entries, operations, timers, recovered, doubtful>>
  BY Zenon DEF Execute
<1>3. T[c.id] = r.schedule /\ \A id \in Sched : id # c.id => T[id] = S[id]
  BY <1>0, Zenon
<1>4. /\ Head(commands) = commands[1] /\ 1 \in 1..Len(commands)
  BY <1>0
<1>5. /\ State'.entries = State.entries /\ State'.operations = State.operations
      /\ State'.timers = State.timers /\ State'.doubtful = State.doubtful
      /\ State'.operation = operation' /\ State.operation = operation /\ State.entries = entries
      /\ State.doubtful = doubtful
  BY <1>2 DEF State
<1>6. TimersSet(State')
  BY <1>1, <1>5, Zenon DEF TimersSet
<1>7. ASSUME Head(commands).awaited
      PROVE  /\ Len(commands) = 1 /\ operation \in Flight /\ operation # Idle
             /\ operation.state = "submitted" /\ operation.o = c
             /\ operation' # Idle /\ operation'.o = c /\ operation'.state = r.result
             /\ operation'.stored = r.schedule
  <2>1. /\ Len(commands) = 1 /\ operation # Idle /\ operation.state = "submitted" /\ operation.o = c
    BY <1>1, <1>4, <1>7, Zenon DEF Order
  <2>2. operation \in Flight /\ operation' = [operation EXCEPT !.state = r.result, !.stored = r.schedule]
    BY <1>0, <1>2, <1>7, <2>1
  <2>3. operation'.o = c /\ operation'.state = r.result /\ operation'.stored = r.schedule
    BY <2>1, <2>2 DEF Flight, FlightRecord
  <2>4. operation' # Idle
    BY <2>2, Zenon DEF Flight, FlightRecord, Idle
  <2> QED BY <2>1, <2>2, <2>3, <2>4
<1>8. /\ operation # Idle <=> operation' # Idle
      /\ operation # Idle => operation'.o = operation.o
  BY <1>2, <1>7
<1>9. \A id \in Sched : /\ InFlight(State', id) <=> InFlight(State, id)
                        /\ Delivering(State', id) <=> Delivering(State, id)
  BY <1>5, <1>8 DEF Delivering, InFlight
<1>10. Revisions(State', T, recovered)
  <2>1. ASSUME NEW x \in Sched, NEW v \in Nat, NEW b \in Definitions, Knows(State', x, v, b)
        PROVE  Knows(State, x, v, b)
    BY <1>5, <1>8, <1>9, <2>1, Zenon DEF Knows, Delivering, InFlight
  <2> QED BY <1>0, <1>1, <2>1, RevisionsGrow, Zenon
<1>11. ASSUME NEW id \in Sched \ doubtful PROVE Held(State', T, id)
  <2> DEFINE e == entries[id]
  <2>0. Held(State, S, id)
    BY <1>1
  <2>1. /\ e # None /\ ~e.timer => Queued(State', id, e) \/ Delivering(State', id)
        /\ Delivering(State', id) =>
             /\ e # None /\ e.next_at = operation'.o.due
             /\ e.revision = operation'.o.revision /\ e.definition = operation'.o.definition
    <3>1. Queued(State, id, e) => Queued(State', id, e)
      BY <1>5, Zenon DEF Queued
    <3>2. Delivering(State, id) => operation # Idle
      BY <1>5 DEF Delivering, InFlight
    <3> QED BY <1>5, <1>8, <1>9, <2>0, <3>1, <3>2, Zenon DEF Held
  <2>2. ASSUME ~Changing(State', id) PROVE Agrees(e, T[id])
    <3>1. CASE id # c.id
      <4>1. ~Changing(State, id)
        BY <1>2, <1>5, <1>7, <1>9, <2>2, <3>1 DEF Changing, InFlight
      <4> QED BY <1>3, <1>5, <2>0, <3>1, <4>1, Zenon DEF Held
    <3>2. CASE id = c.id /\ c \in DeliverOp
      <4>1. c.op = "deliver"
        BY <3>2, OpKinds
      <4>2. ~Changing(State, id)
        BY <1>2, <1>5, <1>7, <1>9, <2>2, <4>1 DEF Changing, InFlight
      <4>3. Agrees(e, S[c.id]) /\ e \in EntryRecord \cup {None}
        BY <1>0, <1>5, <2>0, <3>2, <4>2, Zenon DEF Held
      <4> QED BY <1>0, <1>3, <3>2, <4>3, DeliverAgrees
    <3>3. CASE id = c.id /\ c \notin DeliverOp
      <4>1. c.op # "deliver"
        BY <3>3, OpKinds
      <4>2. CASE Head(commands).awaited
        <5>1. r.result # "ok"
          BY <1>5, <1>7, <2>2, <3>3, <4>1, <4>2, Zenon DEF Changing, InFlight
        <5>2. r.schedule = S[c.id]
          BY <3>3, <5>1 DEF OutcomeFacts, RegisterFacts, CancelFacts, Op
        <5>3. ~Changing(State, id)
          BY <1>5, <1>7, <4>2 DEF Changing
        <5> QED BY <1>3, <1>5, <2>0, <3>3, <5>2, <5>3, Zenon DEF Held
      <4>3. CASE ~Head(commands).awaited
        <5>1. operation # Idle /\ operation.state = "unknown" /\ operation.o = c
          BY <1>1, <1>4, <3>3, <4>1, <4>3, Zenon DEF Order
        <5>2. operation' = operation
          BY <1>2, <4>3
        <5>3. Changing(State', id)
          BY <1>5, <3>3, <4>1, <5>1, <5>2 DEF Changing, InFlight
        <5> QED BY <2>2, <5>3
      <4> QED BY <4>2, <4>3, Zenon
    <3> QED BY <3>1, <3>2, <3>3
  <2> QED BY <1>5, <2>1, <2>2, Zenon DEF Held
<1>12. Good(State', T, recovered)
  BY <1>5, <1>6, <1>10, <1>11, Zenon DEF Good
<1>13. Good(State, schedules, recovered)'
  BY <1>2, <1>12
<1>14. /\ Len(commands') = Len(commands) - 1 /\ Len(commands) \in Nat
       /\ \A i \in 1..Len(commands') : commands'[i] = commands[i + 1] /\ i + 1 \in 1..Len(commands)
  <2>1. /\ Tail(commands) \in Seq(Request) /\ Len(Tail(commands)) = Len(commands) - 1
        /\ \A i \in 1..Len(Tail(commands)) : Tail(commands)[i] = commands[i + 1]
    BY <1>0
  <2>2. \A i \in 1..(Len(commands) - 1) : i + 1 \in 1..Len(commands)
    BY <1>0
  <2> QED BY <1>0, <1>2, <2>1, <2>2
<1>15. Order'
  <2>1. CASE Head(commands).awaited
    <3>1. Len(commands') = 0
      BY <1>7, <1>14, <2>1
    <3> QED BY <3>1 DEF Order
  <2>2. CASE ~Head(commands).awaited
    <3>1. operation' = operation
      BY <1>2, <2>2
    <3>2. ASSUME NEW i \in 1..Len(commands')
          PROVE  IF commands'[i].awaited
                 THEN /\ i = Len(commands') /\ operation # Idle /\ operation.state = "submitted"
                      /\ commands'[i].c = operation.o
                 ELSE commands'[i].c.op # "deliver" =>
                        \/ commands'[i].c.id \in doubtful
                        \/ operation # Idle /\ operation.state = "unknown" /\ operation.o = commands'[i].c
      <4>1. i + 1 \in 1..Len(commands) /\ commands'[i] = commands[i + 1]
        BY <1>14
      <4>2. i + 1 = Len(commands) => i = Len(commands')
        BY <1>14
      <4> QED BY <1>1, <4>1, <4>2 DEF Order
    <3> QED BY <1>2, <3>1, <3>2, Zenon DEF Order
  <2> QED BY <2>1, <2>2
<1>16. Answered'
  <2>1. CASE Head(commands).awaited
    <3>1. commands' = << >>
      <4>1. Len(commands) = 1
        BY <1>7, <2>1
      <4> QED BY <1>0, <1>2, <4>1
    <3>2. ASSUME r.result = "ok"
          PROVE  IF c.op = "cancel" THEN r.schedule.cancelled
                 ELSE ~r.schedule.cancelled /\ r.schedule.definition = c.definition
      <4>1. CASE c \in DeliverOp
        <5>1. c.op = "deliver" /\ DeliverFacts(c, r) /\ c.next_at \in Time
          BY <4>1, OpKinds DEF OutcomeFacts, DeliverOp, DeliverRecord
        <5>2. CASE r.schedule = S[c.id]
          <6>1. ~S[c.id].cancelled /\ S[c.id].definition = c.definition
            BY <3>2, <5>1, <5>2, Zenon DEF DeliverFacts
          <6> QED BY <5>1, <5>2, <6>1
        <5>3. CASE r.schedule # S[c.id]
          <6>1. /\ ~S[c.id].cancelled /\ S[c.id].definition = c.definition
                /\ Follows(r.schedule, S[c.id], c.next_at)
            BY <4>1, <5>1, <5>3, DeliverFollows, Zenon
          <6> QED BY <5>1, <6>1, Zenon DEF Follows
        <5> QED BY <5>2, <5>3
      <4>2. CASE c \in RegisterOp
        BY <3>2, <4>2, OpKinds, Zenon DEF OutcomeFacts, RegisterFacts
      <4>3. CASE c \in CancelOp
        <5>1. c.op = "cancel" /\ CancelFacts(c, r)
          BY <4>3, OpKinds, Zenon DEF OutcomeFacts
        <5>2. r.schedule.cancelled
          BY <3>2, <5>1, Zenon DEF CancelFacts, Schedule
        <5> QED BY <5>1, <5>2
      <4> QED BY <4>1, <4>2, <4>3 DEF Op
    <3> QED BY <1>2, <1>3, <1>7, <2>1, <3>1, <3>2 DEF Answered
  <2>2. CASE ~Head(commands).awaited
    <3>1. operation' = operation
      BY <1>2, <2>2
    <3>2. ~(operation # Idle /\ operation.state = "ok")
      BY <1>1 DEF Answered
    <3> QED BY <3>1, <3>2 DEF Answered
  <2> QED BY <2>1, <2>2
<1> QED BY <1>13, <1>15, <1>16 DEF Agreement

\* The coordinator starts with a table of schedules (init): the Engine's, or the
\* one its generation began with.
LEMMA InitAgrees ==
  ASSUME NEW table \in [Sched -> Schedule \cup {None}], InitCoordinator(table)
  PROVE  /\ TimersSet(State')
         /\ \A id \in Sched, v \in Nat, d \in Definitions :
              Knows(State', id, v, d) => Remembers(table, id, v, d)
         /\ \A id \in Sched : Held(State', table, id)
<1>1. /\ State'.entries = entries' /\ State'.timers = timers' /\ State'.operation = Idle
      /\ State'.operations = << >>
  BY Zenon DEF State, InitCoordinator
<1>2. /\ entries' = [id \in Sched |->
           IF ~Active(table[id]) THEN None
           ELSE Entry(table[id].definition, table[id].revision, table[id].next_at, TRUE)]
      /\ timers' = [o \in Occurrence |->
           IF Active(table[o[1]]) /\ table[o[1]].next_at = o[2] THEN 1 ELSE 0]
  BY DEF InitCoordinator
<1>3. ASSUME NEW id \in Sched
      PROVE  /\ ~Active(table[id]) => entries'[id] = None
             /\ Active(table[id]) =>
                  /\ table[id] \in Schedule /\ entries'[id] # None
                  /\ entries'[id].definition = table[id].definition /\ entries'[id].timer
                  /\ entries'[id].revision = table[id].revision
                  /\ entries'[id].next_at = table[id].next_at
  <2>1. CASE ~Active(table[id])
    BY <1>2, <2>1, Zenon
  <2>2. CASE Active(table[id])
    <3> DEFINE new == Entry(table[id].definition, table[id].revision, table[id].next_at, TRUE)
    <3>1. table[id] \in Schedule
      BY <2>2 DEF Active
    <3>2. new \in EntryRecord
      BY <3>1, Zenon DEF Schedule, Entry, EntryRecord
    <3>3. new # None
      BY <3>2, CoordinatorAssumption, Zenon
    <3>4. /\ new.definition = table[id].definition /\ new.timer /\ new.revision = table[id].revision
          /\ new.next_at = table[id].next_at
      BY DEF Entry
    <3>5. entries'[id] = new
      BY <1>2, <2>2
    <3> HIDE DEF new
    <3> QED BY <2>2, <3>1, <3>3, <3>4, <3>5
  <2> QED BY <2>1, <2>2, Zenon
<1>4. TimersSet(State')
  <2>1. \A o \in Occurrence : timers'[o] >= 0
    BY <1>2
  <2>2. ASSUME NEW id \in Sched, entries'[id] # None PROVE timers'[<<id, entries'[id].next_at>>] > 0
    <3>1. Active(table[id]) /\ entries'[id].next_at = table[id].next_at /\ table[id] \in Schedule
      BY <1>3, <2>2
    <3>2. <<id, table[id].next_at>> \in Occurrence
      BY <3>1 DEF Schedule, Occurrence
    <3>3. timers'[<<id, table[id].next_at>>] = 1
      BY <1>2, <3>1, <3>2
    <3> QED BY <3>1, <3>3
  <2> QED BY <1>1, <2>1, <2>2 DEF TimersSet
<1>5. ASSUME NEW id \in Sched, NEW v \in Nat, NEW d \in Definitions, Knows(State', id, v, d)
      PROVE  Remembers(table, id, v, d)
  <2>1. entries'[id] # None /\ entries'[id].revision = v /\ entries'[id].definition = d
    BY <1>1, <1>5 DEF Knows, Delivering, InFlight
  <2> QED BY <1>3, <2>1 DEF Remembers, Active
<1>6. ASSUME NEW id \in Sched PROVE Held(State', table, id)
  <2>1. ~Delivering(State', id)
    BY <1>1 DEF Delivering, InFlight
  <2>2. Agrees(entries'[id], table[id])
    BY <1>3, Zenon DEF Agrees
  <2> QED BY <1>1, <1>3, <2>1, <2>2, Zenon DEF Held
<1> QED BY <1>4, <1>5, <1>6

\* A generation starts with the Engine's table.
LEMMA RestartAgrees ==
  ASSUME Typed, Restart
  PROVE  Agreement'
<1>0. /\ schedules \in [Sched -> Schedule \cup {None}] /\ InitCoordinator(schedules)
      /\ recovered' = schedules /\ schedules' = schedules /\ commands' = << >> /\ operation' = Idle
  BY Zenon DEF Typed, Restart, InitCoordinator
<1>1. /\ TimersSet(State')
      /\ \A id \in Sched, v \in Nat, d \in Definitions :
           Knows(State', id, v, d) => Remembers(schedules, id, v, d)
      /\ \A id \in Sched : Held(State', schedules, id)
  BY <1>0, InitAgrees
<1>2. Revisions(State', schedules, schedules)
  <2>1. ASSUME NEW id \in Sched, NEW v \in Nat, NEW d \in Definitions, Remembers(schedules, id, v, d)
        PROVE  /\ schedules[id] # None /\ v <= schedules[id].revision /\ d = schedules[id].definition
    BY <2>1 DEF Remembers
  <2> QED BY <1>1, <2>1 DEF Revisions
<1>3. Good(State', schedules, schedules)
  BY <1>1, <1>2, Zenon DEF Good
<1>4. Good(State, schedules, recovered)'
  BY <1>0, <1>3
<1>5. Answered' /\ Order'
  <2>1. Len(commands') = 0
    BY <1>0
  <2> QED BY <1>0, <2>1 DEF Answered, Order
<1> QED BY <1>4, <1>5 DEF Agreement

\* A coordinator that is restarted alone starts with an old table, and every
\* schedule is given up.
LEMMA CoordinatorRestartAgrees ==
  ASSUME Typed, Agreement, CoordinatorRestarts
  PROVE  Agreement'
<1>0. /\ schedules \in [Sched -> Schedule \cup {None}] /\ InitCoordinator(recovered)
      /\ recovered \in [Sched -> Schedule \cup {None}] /\ commands \in Seq(Request)
      /\ recovered' = recovered /\ schedules' = schedules /\ operation' = Idle /\ doubtful' = Sched
      /\ commands' = [i \in 1..Len(commands) |-> [commands[i] EXCEPT !.awaited = FALSE]]
  BY DEF Typed, CoordinatorRestarts, InitCoordinator, engineVars
<1>1. /\ TimersSet(State')
      /\ \A id \in Sched, v \in Nat, d \in Definitions :
           Knows(State', id, v, d) => Remembers(recovered, id, v, d)
  BY <1>0, InitAgrees
<1>2. Revisions(State', schedules, recovered)
  BY <1>0, <1>1, RevisionsKept DEF Agreement, Good
<1>3. State'.doubtful = Sched
  BY <1>0 DEF State
<1>4. Good(State', schedules, recovered)
  BY <1>1, <1>2, <1>3 DEF Good
<1>5. Good(State, schedules, recovered)' /\ Answered'
  BY <1>0, <1>4 DEF Answered
<1>6. Order'
  <2>1. ASSUME NEW i \in 1..Len(commands) PROVE ~commands'[i].awaited /\ commands'[i].c.id \in doubtful'
    <3>1. commands[i] \in Request /\ commands'[i] = [commands[i] EXCEPT !.awaited = FALSE]
      BY <1>0
    <3> QED BY <1>0, <3>1, OpKinds DEF Request
  <2>2. Len(commands') = Len(commands)
    BY <1>0
  <2> QED BY <2>1, <2>2 DEF Order
<1> QED BY <1>5, <1>6 DEF Agreement

\* Every step keeps the two tables in agreement.
LEMMA StepAgrees ==
  ASSUME Typed, Agreement, [Next]_vars
  PROVE  Agreement'
<1>1. ASSUME UNCHANGED <<schedules, entries, operations, operation, timers, commands, recovered, doubtful>>
      PROVE  Agreement'
  <2>1. State' = State
    BY <1>1 DEF State
  <2>2. Good(State, schedules, recovered)'
    BY <1>1, <2>1 DEF Agreement
  <2> QED BY <1>1, <2>2, Zenon DEF Agreement, Order, Answered
<1>2. CASE Command
  BY <1>2, CommandStep, ExecuteAgrees
<1>3. CASE Submit \/ Refused \/ Lost
  BY <1>3, FateAgrees
<1>4. CASE Handlers
  BY <1>4, HandlersAgree
<1>5. CASE Restart
  BY <1>5, RestartAgrees
<1>6. CASE CoordinatorRestarts
  BY <1>6, CoordinatorRestartAgrees
<1>7. ASSUME NEW o \in Occurrence, JobSteps(o) PROVE Agreement'
  BY <1>1, <1>7, JobStepFacts DEF JobStep
<1>8. CASE Tick \/ UNCHANGED vars
  BY <1>1, <1>8 DEF Tick, vars, engineVars
<1> QED BY <1>2, <1>3, <1>4, <1>5, <1>6, <1>7, <1>8 DEF Next, Handlers, JobSteps

\* The first state.
LEMMA StartAgrees == Init => Agreement
<1> SUFFICES ASSUME Init PROVE Agreement
  OBVIOUS
<1>1. /\ \A id \in Sched : State.entries[id] = None /\ schedules[id] = None /\ recovered[id] = None
      /\ State.operation = Idle /\ operation = Idle /\ State.operations = << >>
      /\ \A o \in Occurrence : State.timers[o] = 0
      /\ commands = << >>
  BY DEF Init, State
<1>2. TimersSet(State)
  BY <1>1 DEF TimersSet
<1>3. Revisions(State, schedules, recovered)
  <2>1. ASSUME NEW id \in Sched, NEW v \in Nat, NEW d \in Definitions
        PROVE  ~Knows(State, id, v, d) /\ ~Remembers(recovered, id, v, d)
    BY <1>1 DEF Knows, Delivering, InFlight, Remembers
  <2> QED BY <2>1, Zenon DEF Revisions
<1>4. ASSUME NEW id \in Sched PROVE Held(State, schedules, id)
  BY <1>1, Zenon DEF Held, Agrees, Active, Delivering, InFlight
<1>5. Order /\ Answered
  <2>1. Len(commands) = 0
    BY <1>1
  <2> QED BY <1>1, <2>1 DEF Order, Answered
<1> QED BY <1>2, <1>3, <1>4, <1>5 DEF Agreement, Good

\* When nothing is under way for a schedule that was not given up, the
\* coordinator holds it exactly if the Engine has it active, and will deliver it.
THEOREM SchedulesFollowed == Spec => []TablesAgree
<1>1. Init => Typed /\ Awaits /\ Agreement
  BY StartTyped, StartAgrees
<1>2. Typed /\ Awaits /\ Agreement /\ [Next]_vars => (Typed /\ Awaits /\ Agreement)'
  BY StepTyped, StepAgrees
<1>3. Typed /\ Agreement => TablesAgree
  <2> SUFFICES ASSUME Typed, Agreement, NEW id \in Sched \ doubtful, ~Concerned(id)
               PROVE  LET e == entries[id]
                          s == schedules[id]
                      IN /\ e = None <=> ~Active(s)
                         /\ e # None =>
                              /\ e.definition = s.definition
                              /\ e.next_at < s.next_at \/ (e.next_at = s.next_at /\ e.revision = s.revision)
                              /\ IF e.timer THEN timers[id, e.next_at] > 0
                                 ELSE \E i \in 1..Len(operations) :
                                        operations[i].op = "deliver" /\ operations[i].id = id
                                          /\ operations[i].due = e.next_at /\ operations[i].revision = e.revision
    BY Zenon DEF TablesAgree
  <2> DEFINE e == entries[id]
  <2>1. ~InFlight(State, id)
    BY StateFields DEF Concerned, InFlight
  <2>2. Held(State, schedules, id) /\ TimersSet(State)
    BY StateFields, Zenon DEF Agreement, Good
  <2>3. Agrees(e, schedules[id])
    BY <2>1, <2>2, StateFields, Zenon DEF Held, Changing
  <2>4. ASSUME e # None, e.timer PROVE timers[id, e.next_at] > 0
    BY <2>2, <2>4, StateFields, Zenon DEF TimersSet
  <2>5. ASSUME e # None, ~e.timer
        PROVE  \E i \in 1..Len(operations) :
                 operations[i].op = "deliver" /\ operations[i].id = id
                   /\ operations[i].due = e.next_at /\ operations[i].revision = e.revision
    <3>1. Queued(State, id, e)
      BY <2>1, <2>2, <2>5, StateFields, Zenon DEF Held, Delivering
    <3> QED BY <3>1, StateFields DEF Queued
  <2> QED BY <2>3, <2>4, <2>5, Zenon DEF Agrees
<1> QED BY <1>1, <1>2, <1>3, PTL DEF Spec

---------------------------------------------------------------------------
(* The occurrences of a schedule *)

\* The membership of a schedule names the open jobs of its occurrences.
Membership ==
  \A id \in Sched, at \in Time :
    job[id, at].state \in Nonterminal /\ <<id, at>> \notin strays =>
      schedules[id] # None /\ at \in schedules[id].active_job_ids

\* The next time of a schedule is past the occurrences it has inserted.
Passed ==
  \A o \in inserted \ strays : schedules[o[1]] # None /\ schedules[o[1]].next_at > o[2]

\* The execution of a delivery, in terms of the occurrence it is about.
LEMMA DeliverKeeps ==
  ASSUME Typed, Membership, Passed, NEW c \in DeliverOp, NEW r, OutcomeFacts(c, r), Execute(c, r)
  PROVE  Membership' /\ Passed'
<1> DEFINE o == <<c.id, c.due>>
           s == schedules[c.id]
<1>0. /\ schedules \in [Sched -> Schedule \cup {None}] /\ job \in [Occurrence -> JobRecord]
      /\ inserted \in SUBSET Occurrence
  BY DEF Typed
<1>1. /\ c \in Op /\ c.op = "deliver" /\ c.id \in Sched /\ c.due \in Time /\ c.next_at \in Time
      /\ c.due < c.next_at /\ o \in Occurrence
  BY DEF Op, DeliverOp, DeliverRecord, Occurrence
<1>2. DeliverFacts(c, r) /\ r.job \in JobRecord
  BY DEF OutcomeFacts
<1>3. /\ schedules' = [schedules EXCEPT ![c.id] = r.schedule] /\ job' = [job EXCEPT ![o] = r.job]
      /\ inserted' = IF job[o].state = "none" /\ r.job.state # "none" THEN inserted \cup {o} ELSE inserted
      /\ strays' = IF r.refused /\ job[o].state = "none" /\ r.job.state # "none" THEN strays \cup {o}
                   ELSE IF r.schedule # s THEN strays \ {o} ELSE strays
  BY <1>1, Zenon DEF Execute
<1> HIDE DEF o
<1>4. \A id \in Sched, at \in Time : <<id, at>> \in Occurrence /\ (<<id, at>> = o <=> id = c.id /\ at = c.due)
  BY DEF Occurrence, o
<1>5. CASE r.schedule = s /\ r.job = job[o]
  <2>1. schedules' = schedules /\ job' = job /\ inserted' = inserted /\ strays' = strays
    BY <1>0, <1>1, <1>3, <1>5
  <2> QED BY <2>1, Zenon DEF Membership, Passed
<1>6. CASE r.schedule = s /\ r.refused /\ job[o].state = "none" /\ r.job # job[o] /\ r.job = NewJob(s.definition)
  <2>1. r.job.state = "waiting"
    BY <1>6 DEF NewJob, NoJob
  <2>2. schedules' = schedules /\ strays' = strays \cup {o} /\ inserted' = inserted \cup {o}
    BY <1>0, <1>1, <1>3, <1>6, <2>1, Zenon
  <2>3. \A p \in Occurrence : p # o => job'[p] = job[p]
    BY <1>0, <1>3, Zenon
  <2>4. Membership'
    BY <1>4, <2>2, <2>3, Zenon DEF Membership
  <2> QED BY <2>2, <2>4 DEF Passed
<1>7. CASE \E active \in Time \cup {None} :
             /\ r.schedule = Advanced([job EXCEPT ![o] = r.job], c.id, s, c.next_at, active)
             /\ ~r.refused /\ (r.job.state # "none" => active = c.due)
             /\ s \in Schedule /\ s.next_at = c.due
  <2>1. PICK active \in Time \cup {None} :
             /\ r.schedule = Advanced(job', c.id, s, c.next_at, active)
             /\ ~r.refused /\ (r.job.state # "none" => active = c.due)
             /\ s \in Schedule /\ s.next_at = c.due
    BY <1>3, <1>7, Zenon
  <2>2. ASSUME NEW K
        PROVE  LET a == Advanced(K, c.id, s, c.next_at, active) IN
               /\ a \in Schedule /\ a.next_at = c.next_at /\ a.revision = s.revision + 1
               /\ \A at \in Time : K[c.id, at].state \in Nonterminal /\ (at \in s.active_job_ids \/ at = active)
                                     => at \in a.active_job_ids
    <3> HIDE DEF s
    <3>1. s \in Schedule /\ c.next_at \in Time
      BY <1>1, <2>1, Zenon
    <3>2. LET a == Advanced(K, c.id, s, c.next_at, active) IN
          /\ a \in Schedule /\ a.next_at = c.next_at /\ a.revision = s.revision + 1
          /\ a.definition = s.definition /\ a.cancelled = s.cancelled
          /\ \A at \in Time : K[c.id, at].state \in Nonterminal /\ (at \in s.active_job_ids \/ at = active)
                                => at \in a.active_job_ids
      BY <3>1, AdvancedFacts, Zenon
    <3> QED BY <3>2, Zenon
  <2>3. /\ r.schedule \in Schedule /\ r.schedule.next_at = c.next_at /\ r.schedule.revision = s.revision + 1
        /\ \A at \in Time : job'[c.id, at].state \in Nonterminal /\ (at \in s.active_job_ids \/ at = active)
                              => at \in r.schedule.active_job_ids
    BY <2>1, <2>2, Zenon
  <2>4. r.schedule # s /\ r.schedule # None
    <3> HIDE DEF s
    <3>1. s.revision \in Nat
      BY <2>1 DEF Schedule
    <3>2. None \notin Schedule
      BY CoordinatorAssumption
    <3>3. r.schedule \in Schedule /\ r.schedule.revision = s.revision + 1
      BY <2>3, Zenon DEF s
    <3>4. r.schedule.revision # s.revision
      BY <3>1, <3>3
    <3> QED BY <3>2, <3>3, <3>4, Zenon
  <2>5. strays' = strays \ {o}
    BY <1>3, <2>1, <2>4
  <2>6. /\ schedules'[c.id] = r.schedule /\ \A id \in Sched : id # c.id => schedules'[id] = schedules[id]
        /\ job'[o] = r.job /\ \A p \in Occurrence : p # o => job'[p] = job[p]
    BY <1>0, <1>1, <1>3, Zenon
  <2>7. Membership'
    <3> SUFFICES ASSUME NEW id \in Sched, NEW at \in Time, job'[id, at].state \in Nonterminal,
                        <<id, at>> \notin strays'
                 PROVE  schedules'[id] # None /\ at \in schedules'[id].active_job_ids
      BY Zenon DEF Membership
    <3>1. CASE <<id, at>> = o
      <4>1. id = c.id /\ at = c.due /\ r.job.state \in Nonterminal
        BY <1>4, <2>6, <3>1, Zenon
      <4>2. at = active
        BY <2>1, <4>1, Zenon DEF Nonterminal
      <4> QED BY <2>3, <2>4, <2>6, <4>1, <4>2, Zenon
    <3>2. CASE <<id, at>> # o
      <4>1. /\ job'[id, at] = job[id, at] /\ <<id, at>> \notin strays
        BY <1>4, <2>5, <2>6, <3>2, Zenon
      <4>2. schedules[id] # None /\ at \in schedules[id].active_job_ids
        BY <4>1, Zenon DEF Membership
      <4>3. CASE id = c.id
        BY <2>3, <2>4, <2>6, <4>2, <4>3, Zenon
      <4>4. CASE id # c.id
        BY <2>6, <4>2, <4>4, Zenon
      <4> QED BY <4>3, <4>4, Zenon
    <3> QED BY <3>1, <3>2, Zenon
  <2>8. Passed'
    <3> SUFFICES ASSUME NEW p \in inserted', p \notin strays'
                 PROVE  schedules'[p[1]] # None /\ schedules'[p[1]].next_at > p[2]
      BY DEF Passed
    <3>1. CASE p = o
      <4>1. p[1] = c.id /\ p[2] = c.due
        BY <3>1 DEF o
      <4> QED BY <1>1, <2>3, <2>4, <2>6, <4>1, Zenon DEF Time
    <3>2. CASE p # o
      <4>1. p \in inserted \ strays /\ p[1] \in Sched /\ p[2] \in Time
        BY <1>0, <1>3, <2>5, <3>2 DEF Occurrence
      <4>2. schedules[p[1]] # None /\ schedules[p[1]].next_at > p[2]
        BY <4>1 DEF Passed
      <4>3. CASE p[1] = c.id
        <5>1. schedules'[p[1]] = r.schedule /\ r.schedule.next_at = c.next_at /\ c.due > p[2]
          BY <2>1, <2>3, <2>6, <4>2, <4>3, Zenon
        <5>2. c.next_at \in Nat /\ c.due \in Nat /\ p[2] \in Nat
          BY <1>1, <4>1, CoordinatorAssumption DEF Time
        <5>3. c.next_at > p[2]
          BY <1>1, <5>1, <5>2
        <5> QED BY <2>4, <5>1, <5>3
      <4>4. CASE p[1] # c.id
        BY <2>6, <4>1, <4>2, <4>4
      <4> QED BY <4>3, <4>4
    <3> QED BY <3>1, <3>2
  <2> QED BY <2>7, <2>8
<1> QED BY <1>2, <1>5, <1>6, <1>7, Zenon DEF DeliverFacts, Insertable, o

\* A registration or a cancellation keeps the membership, and a registration
\* forgets what was inserted before it.
LEMMA OthersKeep ==
  ASSUME Typed, Membership, Passed, NEW c \in RegisterOp \cup CancelOp, NEW r,
         OutcomeFacts(c, r), Execute(c, r)
  PROVE  Membership' /\ Passed'
<1> DEFINE s == schedules[c.id]
<1>0. /\ schedules \in [Sched -> Schedule \cup {None}] /\ job \in [Occurrence -> JobRecord]
      /\ inserted \in SUBSET Occurrence /\ c \in Op /\ c.id \in Sched /\ c.op # "deliver"
      /\ s \in Schedule \cup {None} /\ None \notin Schedule
  BY OpKinds, CoordinatorAssumption DEF Typed, Op
<1>1. /\ schedules' = [schedules EXCEPT ![c.id] = r.schedule] /\ job' = job /\ strays' = strays
      /\ inserted' = IF c.op = "register" /\ r.schedule # s THEN {o \in inserted : o[1] # c.id} ELSE inserted
  BY <1>0 DEF Execute
<1>2. CASE r.schedule = s
  <2>1. schedules' = schedules /\ inserted' = inserted
    BY <1>0, <1>1, <1>2
  <2> QED BY <1>1, <2>1, Zenon DEF Membership, Passed
<1>3. CASE r.schedule # s
  <2>1. /\ schedules'[c.id] = r.schedule /\ \A id \in Sched : id # c.id => schedules'[id] = schedules[id]
    BY <1>0, <1>1
  <2>2. /\ r.schedule \in Schedule
        /\ s # None => r.schedule.active_job_ids = s.active_job_ids
        /\ c.op = "register" \/ (s # None /\ r.schedule.next_at = s.next_at)
    <3>1. CASE c \in RegisterOp
      BY <1>0, <1>3, <3>1, OpKinds, Zenon DEF OutcomeFacts, RegisterFacts
    <3>2. CASE c \in CancelOp
      <4>1. s \in Schedule /\ r.schedule = [s EXCEPT !.cancelled = TRUE, !.revision = s.revision + 1]
        BY <1>3, <3>2 DEF OutcomeFacts, CancelFacts
      <4>2. s.revision + 1 \in Nat
        BY <4>1 DEF Schedule
      <4>3. r.schedule \in Schedule
        BY <1>3, <3>2 DEF OutcomeFacts, CancelFacts
      <4>4. r.schedule.next_at = s.next_at /\ r.schedule.active_job_ids = s.active_job_ids
        BY <4>1 DEF Schedule
      <4> QED BY <1>0, <4>1, <4>3, <4>4
    <3> QED BY <3>1, <3>2
  <2>3. Membership'
    BY <1>0, <1>1, <2>1, <2>2, Zenon DEF Membership
  <2>4. Passed'
    <3> SUFFICES ASSUME NEW p \in inserted', p \notin strays'
                 PROVE  schedules'[p[1]] # None /\ schedules'[p[1]].next_at > p[2]
      BY DEF Passed
    <3>1. p \in inserted \ strays /\ p[1] \in Sched /\ (c.op = "register" => p[1] # c.id)
      BY <1>0, <1>1, <1>3 DEF Occurrence
    <3>2. schedules[p[1]] # None /\ schedules[p[1]].next_at > p[2]
      BY <3>1 DEF Passed
    <3> QED BY <1>0, <2>1, <2>2, <3>1, <3>2, Zenon
  <2> QED BY <2>3, <2>4
<1> QED BY <1>2, <1>3

\* No step loses track of an open job, or turns a schedule's time back.
LEMMA StepKeeps ==
  ASSUME Typed, Membership, Passed, [Next]_vars
  PROVE  Membership' /\ Passed'
<1>0. /\ job \in [Occurrence -> JobRecord] /\ inserted \in SUBSET Occurrence
  BY DEF Typed
<1>1. CASE UNCHANGED engineVars
  BY <1>1, Zenon DEF engineVars, Membership, Passed
<1>2. CASE Command
  <2>1. PICK c \in Op : \E r : OutcomeFacts(c, r) /\ Execute(c, r)
    BY <1>2, CommandStep
  <2>2. PICK r : OutcomeFacts(c, r) /\ Execute(c, r)
    BY <2>1
  <2>3. CASE c \in DeliverOp
    BY <2>2, <2>3, DeliverKeeps
  <2>4. CASE c \in RegisterOp \cup CancelOp
    BY <2>2, <2>4, OthersKeep
  <2> QED BY <2>3, <2>4 DEF Op
<1>3. ASSUME NEW o \in Occurrence, JobSteps(o) PROVE Membership' /\ Passed'
  <2>1. PICK new \in JobRecord :
           /\ JobStep(o, new)
           /\ \/ strays' = strays /\ (new.state \in Nonterminal => job[o].state \in Nonterminal)
              \/ strays' = strays \cup {o}
    BY <1>3, JobStepFacts
  <2>2. /\ schedules' = schedules /\ inserted' = inserted /\ job' = [job EXCEPT ![o] = new]
        /\ strays \subseteq strays'
    BY <2>1 DEF JobStep
  <2>3. /\ job'[o] = new /\ \A p \in Occurrence : p # o => job'[p] = job[p]
    BY <1>0, <2>2
  <2>4. Membership'
    <3> SUFFICES ASSUME NEW id \in Sched, NEW at \in Time, job'[id, at].state \in Nonterminal,
                        <<id, at>> \notin strays'
                 PROVE  job[id, at].state \in Nonterminal
      BY <2>2, Zenon DEF Membership
    <3>1. <<id, at>> \in Occurrence
      BY Zenon DEF Occurrence
    <3> QED BY <2>1, <2>3, <3>1, Zenon
  <2> QED BY <2>2, <2>4 DEF Passed
<1>4. CASE Restart
  <2>1. schedules' = schedules /\ strays' = strays /\ inserted' \subseteq inserted
    BY <1>4, Zenon DEF Restart
  <2>2. ASSUME NEW o \in Occurrence, job'[o].state \in Nonterminal PROVE job[o].state \in Nonterminal
    <3> DEFINE kept(j) == [j EXCEPT !.task = FALSE, !.schedule_id = None,
                                    !.state = IF @ = "executing" THEN "waiting" ELSE @]
    <3>1. ASSUME NEW j \in JobRecord, kept(j).state \in Nonterminal PROVE j.state \in Nonterminal
      BY <3>1 DEF JobRecord, Nonterminal
    <3>2. NoJob.state \notin Nonterminal
      BY DEF NoJob, Nonterminal
    <3>3. job'[o] = IF job[o].volatile THEN NoJob ELSE kept(job[o])
      BY <1>4, Zenon DEF Restart
    <3> HIDE DEF kept
    <3> QED BY <1>0, <2>2, <3>1, <3>2, <3>3
  <2>3. \A id \in Sched, at \in Time : <<id, at>> \in Occurrence
    BY DEF Occurrence
  <2> QED BY <2>1, <2>2, <2>3, Zenon DEF Membership, Passed
<1>5. CASE Tick \/ Submit \/ Refused \/ Lost \/ CoordinatorRestarts
  BY <1>1, <1>5 DEF Tick, Submit, Refused, Lost, CoordinatorRestarts
<1>6. CASE Handlers
  BY <1>1, <1>6, HandlersTyped DEF Handled, Rest
<1>7. CASE UNCHANGED vars
  BY <1>1, <1>7 DEF vars
<1> QED BY <1>2, <1>3, <1>4, <1>5, <1>6, <1>7 DEF Next, Handlers, JobSteps

\* Only the execution of a delivery at its schedule's next time admits a job.
LEMMA Admission ==
  ASSUME Typed, [Next]_vars, NEW o \in Occurrence, job[o].state = "none", job'[o].state # "none"
  PROVE  \E c \in DeliverOp : /\ o = <<c.id, c.due>> /\ Insertable(c)
                              /\ schedules[c.id] \in Schedule /\ schedules[c.id].next_at = c.due
<1>0. job \in [Occurrence -> JobRecord]
  BY DEF Typed
<1>1. job' # job
  OBVIOUS
<1>2. CASE Command
  <2>1. PICK c \in Op : \E r : OutcomeFacts(c, r) /\ Execute(c, r)
    BY <1>2, CommandStep
  <2>2. PICK r : OutcomeFacts(c, r) /\ Execute(c, r)
    BY <2>1
  <2>3. c \in DeliverOp /\ job' = [job EXCEPT ![<<c.id, c.due>>] = r.job]
    BY <1>1, <2>2, OpKinds, Zenon DEF Execute
  <2>4. o = <<c.id, c.due>> /\ r.job.state # "none"
    BY <1>0, <2>3
  <2>5. DeliverFacts(c, r)
    BY <2>2, <2>3 DEF OutcomeFacts
  <2>6. r.job # job[c.id, c.due]
    BY <2>4, Zenon
  <2>7. Insertable(c) /\ schedules[c.id] \in Schedule /\ schedules[c.id].next_at = c.due
    BY <2>5, <2>6, Zenon DEF DeliverFacts
  <2> QED BY <2>3, <2>4, <2>7
<1>3. ASSUME NEW p \in Occurrence, JobSteps(p) PROVE FALSE
  <2>1. PICK new \in JobRecord : JobStep(p, new) /\ (job[p].state = "none" => new.state = "none")
    BY <1>3, JobStepFacts
  <2>2. job' = [job EXCEPT ![p] = new]
    BY <2>1 DEF JobStep
  <2> QED BY <1>0, <2>1, <2>2
<1>4. CASE Restart
  <2> DEFINE kept(j) == [j EXCEPT !.task = FALSE, !.schedule_id = None,
                                  !.state = IF @ = "executing" THEN "waiting" ELSE @]
  <2>1. ASSUME NEW j \in JobRecord, j.state = "none" PROVE kept(j).state = "none"
    BY <2>1 DEF JobRecord
  <2>2. NoJob.state = "none"
    BY DEF NoJob
  <2>3. job'[o] = IF job[o].volatile THEN NoJob ELSE kept(job[o])
    BY <1>4, Zenon DEF Restart
  <2> HIDE DEF kept
  <2> QED BY <1>0, <2>1, <2>2, <2>3
<1>5. CASE Tick \/ Submit \/ Refused \/ Lost \/ CoordinatorRestarts
  BY <1>1, <1>5 DEF Tick, Submit, Refused, Lost, CoordinatorRestarts, engineVars
<1>6. CASE Handlers
  BY <1>1, <1>6, HandlersTyped, Zenon DEF Handled, Rest, engineVars
<1>7. CASE UNCHANGED vars
  BY <1>1, <1>7 DEF vars, engineVars
<1> QED BY <1>2, <1>3, <1>4, <1>5, <1>6, <1>7, Zenon DEF Next, Handlers, JobSteps

\* At the start there are no jobs, and no occurrence is past.
LEMMA Start == Init => Membership /\ Passed
<1> SUFFICES ASSUME Init PROVE Membership /\ Passed
  OBVIOUS
<1>1. \A id \in Sched, at \in Time : job[id, at].state = "none"
  BY Zenon DEF Init, NoJob, Occurrence
<1> QED BY <1>1, Zenon DEF Init, Membership, Passed, Nonterminal

SchedulesInv == Typed /\ Awaits /\ Membership /\ Passed

\* The inductive invariant of the schedules and their occurrences.
LEMMA SchedulesHold == Spec => []SchedulesInv
<1>1. Init => SchedulesInv
  BY StartTyped, Start DEF SchedulesInv
<1>2. SchedulesInv /\ [Next]_vars => SchedulesInv'
  BY StepTyped, StepKeeps DEF SchedulesInv
<1> QED BY <1>1, <1>2, PTL DEF Spec

\* At most one admission of an occurrence for each registration: deliver_schedule
\* admits only at the schedule's next time, and that is past every occurrence
\* which was inserted, unless its advance was refused.
THEOREM OccurrencesOnce == Spec => AdmittedOnce
<1>1. SchedulesInv /\ [Next]_vars =>
        [\A o \in Occurrence : job[o].state = "none" /\ job'[o].state # "none" => o \notin inserted \ strays]_vars
  <2> SUFFICES ASSUME SchedulesInv, [Next]_vars, NEW o \in Occurrence,
                      job[o].state = "none", job'[o].state # "none", o \in inserted \ strays
               PROVE  FALSE
    OBVIOUS
  <2>1. Typed /\ Passed
    BY DEF SchedulesInv
  <2>2. PICK c \in DeliverOp : /\ o = <<c.id, c.due>> /\ schedules[c.id] \in Schedule
                               /\ schedules[c.id].next_at = c.due
    BY <2>1, Admission
  <2>3. schedules[c.id].next_at > c.due /\ c.due \in Nat
    BY <2>1, <2>2, CoordinatorAssumption DEF Passed, DeliverOp, DeliverRecord, Time
  <2> QED BY <2>2, <2>3
<1> QED BY <1>1, SchedulesHold, PTL DEF Spec, AdmittedOnce

\* Under "skip" and "queue" no occurrence joins an open job of its schedule:
\* deliver_schedule looks at the membership, which names all of them.
THEOREM OccurrencesAlone == Spec => AdmittedAlone
<1>1. SchedulesInv /\ [Next]_vars =>
        [\A id \in Sched, due \in Time :
           job[id, due].state = "none" /\ job'[id, due].state # "none"
             /\ schedules[id].definition.overlap # "allow" =>
             \A at \in Time : job[id, at].state \in Nonterminal => <<id, at>> \in strays]_vars
  <2> SUFFICES ASSUME SchedulesInv, [Next]_vars, NEW id \in Sched, NEW due \in Time,
                      job[id, due].state = "none", job'[id, due].state # "none",
                      schedules[id].definition.overlap # "allow",
                      NEW at \in Time, job[id, at].state \in Nonterminal
               PROVE  <<id, at>> \in strays
    BY Zenon
  <2>1. Typed /\ Membership /\ <<id, due>> \in Occurrence
    BY Zenon DEF SchedulesInv, Occurrence
  <2>2. PICK c \in DeliverOp : <<id, due>> = <<c.id, c.due>> /\ Insertable(c)
    BY <2>1, Admission, Zenon
  <2>3. ~Busy(id, schedules[id])
    BY <2>2, Zenon DEF Insertable
  <2>4. at \notin schedules[id].active_job_ids
    BY <2>3, Zenon DEF Busy
  <2> QED BY <2>1, <2>4, Zenon DEF Membership
<1> QED BY <1>1, SchedulesHold, PTL DEF Spec, AdmittedAlone

=============================================================================

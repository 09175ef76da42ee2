----------------------------- MODULE Admission ------------------------------
(***************************************************************************)
(* Client admission and command delivery: callers that claim a slot of the  *)
(* shared ETS table, have it reserved by the guardian and submit their      *)
(* command (lib/tay/engine/admission.ex, engine/lifecycle.ex), the          *)
(* guardian's delivery window (lifecycle/command_delivery.ex), the Engine's *)
(* command handler with its group commit (engine.ex, group_commit.ex), the  *)
(* shared byte budget (state/memory.ex), and the loss and the restart of a  *)
(* generation underneath it all.                                            *)
(*                                                                          *)
(* A caller's messages reach the guardian in order; callers, Engine and     *)
(* schedule coordinator are separate senders.  A reply that finds its       *)
(* caller timed out is dropped.  The cancel_reservation a caller sends after *)
(* a reply meets a permit that is given back already and is left out.       *)
(* Whether a claim has expired is a choice of the guardian's clock.  A      *)
(* payload, and a job, is one unit of memory.                               *)
(***************************************************************************)
EXTENDS Naturals, Sequences, FiniteSets, Functions

CONSTANTS Client, Slot, None,
          Window,       \* engine_command_window
          MaxBatch,     \* journal_batch.max_events
          MemLimit,     \* max_state_bytes
          MaxRequests,  \* bound: requests of a client
          MaxRestarts   \* bound: restarts of the generation

ASSUME AdmissionAssumption ==
  /\ IsFiniteSet(Client) /\ IsFiniteSet(Slot) /\ None \notin Client \cup Slot
  /\ {Window, MaxBatch} \subseteq Nat \ {0}
  /\ {MemLimit, MaxRequests, MaxRestarts} \subseteq Nat

VARIABLES
  table,      \* the ETS table of permits
  caller,     \* what each client process is doing
  inbox,      \* messages of each client to the guardian
  state,      \* meta.status.state
  gen,        \* meta.generation
  operation,  \* phase of the restart operation
  fenced,     \* history: commands submitted before that operation
  pending,    \* delivery.pending
  active,     \* delivery.active
  monitors,   \* permits: tokens whose owner is monitored
  permits,    \* memory_permits: tokens whose payload is charged
  mem,        \* the memory counter
  engine,     \* the Engine: alive, its generation, draining
  box,        \* messages of the guardian to the Engine
  out,        \* messages of the Engine to the guardian
  current,    \* the command the Engine is in the middle of
  batch,      \* group_commit.commands
  results,    \* outcomes of the commands of the batch that are executed
  appended,   \* tokens of the batch whose record is written and not yet synced
  syncing,    \* between begin_group_commit and finish_group_commit
  coordinator,\* schedule operations the coordinator has accepted
  log,        \* tokens of the writes that are durable
  acked,      \* history: tokens of inserts answered with success
  refused     \* history: tokens answered with capacity or unavailable

delivery == <<pending, active>>
generation == <<state, gen, operation, fenced>>
memory == <<permits, mem>>
engine_ == <<engine, current, batch, results, appended, syncing>>
history == <<acked, refused>>
vars == <<table, caller, inbox, generation, delivery, monitors, memory,
          engine_, box, out, coordinator, log, history>>

Op == {"insert", "read", "schedule"}
Kind(op) == IF op = "schedule" THEN "schedule" ELSE "client"
Key == Slot \X {"client", "schedule"}
Token == Client \X (1..MaxRequests)
Owner(tok) == tok[1]

Free == [st |-> "free", tok |-> None]
Command == [tok : Token, key : Key, op : Op]
Drain == [tok |-> None, key |-> None, op |-> "drain"]

\* The Engine's hands are empty, or they hold a command.
ASSUME NoneAssumption == None # Drain

TypeOK ==
  /\ table \in [Key -> [st : {"free", "claimed", "reserved", "submitted"},
                        tok : Token \cup {None}]]
  /\ caller \in [Client -> [pc : {"idle", "started", "reserving", "granted",
                                  "submitting", "dead"},
                            n : 0..MaxRequests, op : Op, gen : Nat,
                            key : Key \cup {None}]]
  /\ \A c \in Client : \A i \in 1..Len(inbox[c]) :
       inbox[c][i].kind \in {"reserve", "submit", "cancel", "down"}
  /\ state \in {"recovering", "ready", "draining", "stopping", "failed"}
  /\ gen \in Nat
  /\ operation \in {"none", "draining", "closing", "starting"}
  /\ fenced \subseteq Token /\ active \subseteq Token /\ permits \subseteq Token
  /\ monitors \subseteq Token
  /\ pending \in Seq(Command) /\ mem \in Nat
  /\ engine \in [up : BOOLEAN, gen : Nat, draining : BOOLEAN]
  /\ batch \in Seq(Command) /\ Len(batch) <= MaxBatch
  /\ results \in Seq({"ok", "capacity"}) /\ appended \in Seq(Token) /\ syncing \in BOOLEAN
  /\ current \in Command \cup {Drain, None}
  /\ coordinator \subseteq [cmd : Command, gen : Nat]
  /\ log \in Seq(Token) /\ acked \subseteq Token /\ refused \subseteq Token

Init ==
  /\ table = [k \in Key |-> Free]
  /\ caller = [c \in Client |-> [pc |-> "idle", n |-> 0, op |-> "read", gen |-> 0,
                                 key |-> None]]
  /\ inbox = [c \in Client |-> << >>]
  /\ state = "ready" /\ gen = 0 /\ operation = "none" /\ fenced = {}
  /\ pending = << >> /\ active = {} /\ monitors = {} /\ permits = {}
  /\ mem = 0
  /\ engine = [up |-> TRUE, gen |-> 0, draining |-> FALSE]
  /\ box = << >> /\ out = << >> /\ current = None
  /\ batch = << >> /\ results = << >> /\ appended = << >> /\ syncing = FALSE
  /\ coordinator = {} /\ log = << >> /\ acked = {} /\ refused = {}

TokenOf(c) == <<c, caller[c].n>>

---------------------------------------------------------------------------
(* Callers *)

\* The guardian's published metadata is read first and may be stale when used.
\* A request that was refused as unavailable starts over, with a new token.
Request(c, op) ==
  /\ caller[c].pc = "idle" /\ caller[c].n < MaxRequests
  /\ caller' = [caller EXCEPT ![c] = [pc |-> "started", n |-> caller[c].n + 1,
                                      op |-> op, gen |-> gen, key |-> None]]
  /\ UNCHANGED <<table, inbox, generation, delivery, monitors, memory, engine_, box,
                 out, coordinator, log, history>>

\* claim: compare-and-swap of a free slot of the request's kind, or refusal.
Claim(c) ==
  LET free == {k \in Key : k[2] = Kind(caller[c].op) /\ table[k] = Free} IN
  /\ caller[c].pc = "started"
  /\ IF free = {}
     THEN /\ caller' = [caller EXCEPT ![c].pc = "idle"]
          /\ refused' = refused \cup {TokenOf(c)}
          /\ UNCHANGED <<table, inbox>>
     ELSE \E k \in free :
          /\ table' = [table EXCEPT ![k] = [st |-> "claimed", tok |-> TokenOf(c)]]
          /\ caller' = [caller EXCEPT ![c].pc = "reserving", ![c].key = k]
          /\ inbox' = [inbox EXCEPT ![c] = Append(@, [kind |-> "reserve",
                         tok |-> TokenOf(c), key |-> k, op |-> caller[c].op,
                         gen |-> caller[c].gen])]
          /\ UNCHANGED refused
  /\ UNCHANGED <<generation, delivery, monitors, memory, engine_, box, out,
                 coordinator, log, acked>>

Send(c, kind) ==
  inbox' = [inbox EXCEPT ![c] = Append(@, [kind |-> kind, tok |-> TokenOf(c),
              key |-> caller[c].key, op |-> caller[c].op, gen |-> caller[c].gen])]

Submit(c) ==
  /\ caller[c].pc = "granted"
  /\ caller' = [caller EXCEPT ![c].pc = "submitting"]
  /\ Send(c, "submit")
  /\ UNCHANGED <<table, generation, delivery, monitors, memory, engine_, box, out,
                 coordinator, log, history>>

RefusedOnTimeoutAlways(c) == TRUE

\* A reservation that is lost was never submitted; a submitted write has an
\* unknown outcome.
RefusedOnTimeout(c) == caller[c].pc = "reserving" \/ caller[c].op = "read"

Timeout(c) ==
  /\ caller[c].pc \in {"reserving", "submitting"}
  /\ caller' = [caller EXCEPT ![c].pc = "idle"]
  /\ refused' = IF RefusedOnTimeout(c) THEN refused \cup {TokenOf(c)} ELSE refused
  /\ Send(c, "cancel")
  /\ UNCHANGED <<table, generation, delivery, monitors, memory, engine_, box, out,
                 coordinator, log, acked>>

Die(c) ==
  /\ caller[c].pc \notin {"idle", "dead"}
  /\ caller' = [caller EXCEPT ![c].pc = "dead"]
  /\ Send(c, "down")
  /\ UNCHANGED <<table, generation, delivery, monitors, memory, engine_, box, out,
                 coordinator, log, history>>

---------------------------------------------------------------------------
(* The guardian *)

AdmissionReady(g) == gen = g /\ state \in {"ready", "draining"}

Holds(m, st) == table[m.key] = [st |-> st, tok |-> m.tok]
Bytes(op) == IF op = "read" THEN 0 ELSE 1

\* The caller is still in the call that this message belongs to.
Waits(tok, pc) == caller[Owner(tok)].pc = pc /\ TokenOf(Owner(tok)) = tok

Answer(tok, pc, next) ==
  caller' = IF Waits(tok, pc) THEN [caller EXCEPT ![Owner(tok)].pc = next] ELSE caller
Refuse(tok, pc) ==
  /\ Answer(tok, pc, "idle")
  /\ refused' = IF Waits(tok, pc) THEN refused \cup {tok} ELSE refused

ReleaseMemoryNever(toks) == UNCHANGED memory
\* The payload's charge, if it has one, goes with the permit.
ReleaseMemory(toks) ==
  /\ permits' = permits \ toks
  /\ mem' = mem - Cardinality(permits \cap toks)

\* release: the charge, the slot and the monitor of a permit.
ReleaseKeys(keys) ==
  LET toks == {table[k].tok : k \in keys} IN
  /\ ReleaseMemory(toks)
  /\ table' = [k \in Key |-> IF k \in keys THEN Free ELSE table[k]]
  /\ monitors' = monitors \ toks

\* dispatch_commands: as many pending commands as the window has room for, in
\* order.  What is sent to a dead Engine is lost.
Dispatch(p, a, limit) ==
  \E k \in 0..Len(p) :
    /\ k = Len(p) \/ Cardinality(a) + k >= limit
    /\ k = 0 \/ Cardinality(a) + k <= limit
    /\ pending' = SubSeq(p, k + 1, Len(p))
    /\ active' = a \cup {p[i].tok : i \in 1..k}
    /\ box' = IF engine.up THEN box \o SubSeq(p, 1, k) ELSE box

\* A claimed slot becomes a monitored, charged reservation; or it is freed,
\* because the generation is not admitting, the claim has expired or the bytes
\* do not fit.
ReserveMsg(c, expired) ==
  LET m == Head(inbox[c]) IN
  /\ inbox[c] # << >> /\ m.kind = "reserve"
  /\ inbox' = [inbox EXCEPT ![c] = Tail(@)]
  /\ IF ~Holds(m, "claimed")
     THEN Refuse(m.tok, "reserving") /\ UNCHANGED <<table, monitors, memory>>
     ELSE IF AdmissionReady(m.gen) /\ ~expired /\ mem + Bytes(m.op) <= MemLimit
     THEN /\ table' = [table EXCEPT ![m.key].st = "reserved"]
          /\ monitors' = monitors \cup {m.tok}
          /\ permits' = IF Bytes(m.op) = 1 THEN permits \cup {m.tok} ELSE permits
          /\ mem' = mem + Bytes(m.op)
          /\ Answer(m.tok, "reserving", "granted")
          /\ UNCHANGED refused
     ELSE /\ table' = [table EXCEPT ![m.key] = Free]
          /\ Refuse(m.tok, "reserving")
          /\ UNCHANGED <<monitors, memory>>
  /\ UNCHANGED <<generation, delivery, engine_, box, out, coordinator, log, acked>>

SubmitMsg(c) ==
  LET m == Head(inbox[c]) IN
  /\ inbox[c] # << >> /\ m.kind = "submit"
  /\ inbox' = [inbox EXCEPT ![c] = Tail(@)]
  /\ IF Holds(m, "reserved") /\ AdmissionReady(m.gen)
     THEN /\ table' = [table EXCEPT ![m.key].st = "submitted"]
          /\ Dispatch(Append(pending, [tok |-> m.tok, key |-> m.key, op |-> m.op]),
                      active, Window)
          /\ UNCHANGED <<caller, refused, monitors, memory>>
     ELSE /\ IF Holds(m, "reserved") THEN ReleaseKeys({m.key})
             ELSE UNCHANGED <<table, monitors, memory>>
          /\ Refuse(m.tok, "submitting")
          /\ UNCHANGED <<delivery, box>>
  /\ UNCHANGED <<generation, engine_, out, coordinator, log, acked>>

CancelMsg(c) ==
  LET m == Head(inbox[c]) IN
  /\ inbox[c] # << >> /\ m.kind = "cancel"
  /\ inbox' = [inbox EXCEPT ![c] = Tail(@)]
  /\ IF Holds(m, "claimed") \/ Holds(m, "reserved") THEN ReleaseKeys({m.key})
     ELSE UNCHANGED <<table, monitors, memory>>
  /\ UNCHANGED <<caller, generation, delivery, engine_, box, out, coordinator, log, history>>

ReleasableOnDownNever(c) == {}
\* The monitored owner is gone: only a permit that was not submitted goes.
ReleasableOnDown(c) ==
  {k \in Key : table[k].st = "reserved" /\ table[k].tok \in monitors
               /\ Owner(table[k].tok) = c}

DownMsg(c) ==
  /\ inbox[c] # << >> /\ Head(inbox[c]).kind = "down"
  /\ inbox' = [inbox EXCEPT ![c] = Tail(@)]
  /\ ReleaseKeys(ReleasableOnDown(c))
  /\ UNCHANGED <<caller, generation, delivery, engine_, box, out, coordinator, log, history>>

\* Claims that have expired or whose owner is dead are freed every 100 ms.
Reap(expired) ==
  LET dead == {k \in Key : table[k].st = "claimed"
                           /\ caller[Owner(table[k].tok)].pc = "dead"} IN
  /\ table' = [k \in Key |-> IF k \in expired \cup dead THEN Free ELSE table[k]]
  /\ UNCHANGED <<caller, inbox, generation, delivery, monitors, memory, engine_, box,
                 out, coordinator, log, history>>

\* The permit is given back, then the caller is answered, then the next
\* commands go out.  A completion of another generation, or of a permit that
\* is gone, is dropped.
Complete(m) ==
  IF m.gen = gen /\ Holds(m, "submitted")
  THEN /\ ReleaseKeys({m.key})
       /\ IF m.result = "ok"
          THEN /\ Answer(m.tok, "submitting", "idle")
               /\ acked' = IF Waits(m.tok, "submitting") /\ m.op = "insert"
                           THEN acked \cup {m.tok} ELSE acked
               /\ UNCHANGED refused
          ELSE Refuse(m.tok, "submitting") /\ UNCHANGED acked
       /\ Dispatch(pending, active \ {m.tok}, Window)
  ELSE UNCHANGED <<table, monitors, memory, caller, history, delivery, box>>

CompletedMsg ==
  /\ out # << >> /\ Head(out).kind = "completed"
  /\ out' = Tail(out)
  /\ Complete(Head(out))
  /\ UNCHANGED <<inbox, generation, engine_, coordinator, log>>

\* A schedule operation leaves the window but keeps its permit.
YieldedMsg ==
  /\ out # << >> /\ Head(out).kind = "yielded"
  /\ out' = Tail(out)
  /\ IF Head(out).gen = gen THEN Dispatch(pending, active \ {Head(out).tok}, Window)
     ELSE UNCHANGED <<delivery, box>>
  /\ UNCHANGED <<table, caller, inbox, generation, monitors, memory, engine_,
                 coordinator, log, history>>

\* The coordinator answers a schedule operation, in the name of the Engine
\* that passed it on.
CoordinatorDone(x) ==
  /\ x \in coordinator
  /\ coordinator' = coordinator \ {x}
  /\ Complete([tok |-> x.cmd.tok, key |-> x.cmd.key, op |-> x.cmd.op, gen |-> x.gen,
               result |-> "ok"])
  /\ UNCHANGED <<inbox, generation, engine_, out, log>>

---------------------------------------------------------------------------
(* The loss and the restart of a generation *)

\* revoke: the gate closes and the window is emptied; submitted permits stay.
\* The Engine is killed, and dies in its own time.
Revoke ==
  /\ state \in {"ready", "draining"} /\ operation \in {"none", "draining"}
  /\ state' = "failed" /\ operation' = "none"
  /\ pending' = << >> /\ active' = {}
  /\ UNCHANGED <<table, caller, inbox, gen, fenced, monitors, memory, engine_, box,
                 out, coordinator, log, history>>

RestartWithoutFlush ==
  /\ operation = "none" /\ gen < MaxRestarts
  /\ state \in {"ready", "draining"}
  /\ operation' = "draining" /\ state' = "draining"
  /\ fenced' = active \cup {pending[i].tok : i \in 1..Len(pending)}
  /\ box' = IF engine.up THEN Append(box, Drain)
            ELSE box
  /\ UNCHANGED <<table, caller, inbox, gen, delivery, monitors, memory, engine_, out,
                 coordinator, log, history>>

\* Tay.restart: every submitted command is delivered before the drain signal.
Restart ==
  /\ operation = "none" /\ gen < MaxRestarts
  /\ state \in {"ready", "draining"}
  /\ operation' = "draining" /\ state' = "draining"
  /\ fenced' = active \cup {pending[i].tok : i \in 1..Len(pending)}
  /\ pending' = << >> /\ active' = fenced'
  /\ box' = IF engine.up
            THEN Append(box \o pending, Drain)
            ELSE box
  /\ UNCHANGED <<table, caller, inbox, gen, monitors, memory, engine_, out,
                 coordinator, log, history>>

\* A forced restart, or one of a failed generation, closes at once.
ForcedRestart ==
  /\ operation = "none" /\ gen < MaxRestarts
  /\ operation' = "closing" /\ state' = "stopping" /\ fenced' = {}
  /\ UNCHANGED <<table, caller, inbox, gen, delivery, monitors, memory, engine_, box,
                 out, coordinator, log, history>>

DrainedMsg ==
  /\ out # << >> /\ Head(out).kind = "drained"
  /\ out' = Tail(out)
  /\ IF Head(out).gen = gen /\ operation = "draining"
     THEN operation' = "closing" /\ state' = "stopping"
     ELSE UNCHANGED <<operation, state>>
  /\ UNCHANGED <<table, caller, inbox, gen, fenced, delivery, monitors, memory,
                 engine_, box, coordinator, log, history>>

\* The Engine and its Writer are gone.  Of a batch that was being written any
\* prefix may have reached the disk.
EngineDies ==
  /\ engine.up
  /\ engine' = [engine EXCEPT !.up = FALSE]
  /\ \E k \in 0..Len(appended) : log' = log \o SubSeq(appended, 1, k)
  /\ box' = << >> /\ batch' = << >> /\ results' = << >> /\ appended' = << >>
  /\ syncing' = FALSE /\ current' = None
  /\ UNCHANGED <<table, caller, inbox, generation, delivery, monitors, memory, out,
                 coordinator, history>>

\* clear_generation: the permits of clients are freed, those of schedule
\* operations are not; the memory charged for either stays charged.
ClearGeneration ==
  /\ table' = [k \in Key |-> IF k[2] = "client" THEN Free ELSE table[k]]
  /\ monitors' = {} /\ pending' = << >> /\ active' = {}

\* The driver has seen the old Engine dead.
OperationStarting ==
  /\ operation = "closing" /\ ~engine.up
  /\ ClearGeneration
  /\ gen' = gen + 1 /\ state' = "recovering" /\ operation' = "starting"
  /\ UNCHANGED <<caller, inbox, fenced, memory, engine_, box, out, coordinator, log,
                 history>>

\* The new Engine replays the log and charges what it retains.
EngineStarts ==
  /\ operation = "starting"
  /\ operation' = "none"
  /\ IF mem + Len(log) <= MemLimit
     THEN /\ mem' = mem + Len(log)
          /\ engine' = [up |-> TRUE, gen |-> gen, draining |-> FALSE]
          /\ state' = "ready"
     ELSE state' = "failed" /\ UNCHANGED <<mem, engine>>
  /\ UNCHANGED <<table, caller, inbox, gen, fenced, delivery, monitors, permits, box,
                 current, batch, results, appended, syncing, out, coordinator, log, history>>

---------------------------------------------------------------------------
(* The Engine *)

\* submitted?: the permit is still submitted, in this generation, and admitted.
Submitted(cmd) ==
  /\ engine.gen = gen /\ state \in {"ready", "draining"}
  /\ table[cmd.key] = [st |-> "submitted", tok |-> cmd.tok]

Message(kind, cmd, result) ==
  [kind |-> kind, tok |-> cmd.tok, key |-> cmd.key, op |-> cmd.op,
   gen |-> engine.gen, result |-> result]

\* The Engine takes its next message.  An insert joins the batch; a schedule
\* operation is passed on; anything else waits for the batch to be flushed.
EngineTakes ==
  LET cmd == Head(box) IN
  /\ engine.up /\ current = None /\ ~syncing /\ box # << >> /\ Len(batch) < MaxBatch
  /\ box' = Tail(box)
  /\ IF cmd.op # "drain" /\ ~Submitted(cmd)
     THEN UNCHANGED <<engine_, out, coordinator>>
     ELSE IF cmd.op = "schedule"
     THEN /\ coordinator' = coordinator \cup {[cmd |-> cmd, gen |-> engine.gen]}
          /\ out' = Append(out, Message("yielded", cmd, "ok"))
          /\ UNCHANGED engine_
     ELSE IF cmd.op = "insert" /\ ~engine.draining
     THEN /\ batch' = Append(batch, cmd)
          /\ UNCHANGED <<engine, current, results, appended, syncing, out, coordinator>>
     ELSE /\ current' = cmd
          /\ UNCHANGED <<engine, batch, results, appended, syncing, out, coordinator>>
  /\ UNCHANGED <<table, caller, inbox, generation, delivery, monitors, memory, log, history>>

\* flush, asked for by the timer, by a full batch or by the current command.
FlushBegin ==
  /\ engine.up /\ ~syncing /\ batch # << >>
  /\ syncing' = TRUE
  /\ UNCHANGED <<table, caller, inbox, generation, delivery, monitors, memory, engine,
                 current, batch, results, appended, box, out, coordinator, log, history>>

\* The next insert of the batch is written if its job fits in memory.
FlushCommand ==
  /\ engine.up /\ syncing /\ Len(results) < Len(batch)
  /\ IF mem + 1 <= MemLimit
     THEN /\ mem' = mem + 1 /\ results' = Append(results, "ok")
          /\ appended' = Append(appended, batch[Len(results) + 1].tok)
     ELSE results' = Append(results, "capacity") /\ UNCHANGED <<mem, appended>>
  /\ UNCHANGED <<table, caller, inbox, generation, delivery, monitors, permits, engine,
                 current, batch, syncing, box, out, coordinator, log, history>>

\* A batch whose commands are answered although the sync did not happen.
SyncedNothing == << >>
Synced == appended

\* One sync makes the batch durable, and then every command is answered.
FlushFinish ==
  /\ engine.up /\ syncing /\ Len(results) = Len(batch)
  /\ log' = log \o Synced
  /\ out' = out \o [i \in 1..Len(batch) |-> Message("completed", batch[i], results[i])]
  /\ batch' = << >> /\ results' = << >> /\ appended' = << >> /\ syncing' = FALSE
  /\ UNCHANGED <<table, caller, inbox, generation, delivery, monitors, memory, engine,
                 current, box, coordinator, history>>

\* A read is answered; an insert is refused by a draining Engine; a drain,
\* if the operation still wants it, closes the Engine to inserts.
EngineExecutes ==
  /\ engine.up /\ current # None /\ batch = << >> /\ ~syncing
  /\ current' = None
  /\ IF current.op = "drain"
     THEN IF operation = "draining" /\ gen = engine.gen
          THEN /\ engine' = [engine EXCEPT !.draining = TRUE]
               /\ out' = Append(out, Message("drained", current, "ok"))
          ELSE UNCHANGED <<engine, out>>
     ELSE /\ out' = Append(out, Message("completed", current,
                                   IF current.op = "read" THEN "ok" ELSE "draining"))
          /\ UNCHANGED engine
  /\ UNCHANGED <<table, caller, inbox, generation, delivery, monitors, memory, batch,
                 results, appended, syncing, box, coordinator, log, history>>

---------------------------------------------------------------------------
ClientStep(c) ==
  \/ \E op \in Op : Request(c, op)
  \/ Claim(c) \/ Submit(c) \/ Timeout(c) \/ Die(c)

GuardianStep(c) ==
  \/ \E expired \in BOOLEAN : ReserveMsg(c, expired)
  \/ SubmitMsg(c) \/ CancelMsg(c) \/ DownMsg(c)

Claimed == {k \in Key : table[k].st = "claimed"}

Next ==
  \/ \E c \in Client : ClientStep(c) \/ GuardianStep(c)
  \/ \E expired \in SUBSET Claimed : Reap(expired)
  \/ CompletedMsg \/ YieldedMsg \/ DrainedMsg
  \/ \E x \in coordinator : CoordinatorDone(x)
  \/ Revoke \/ Restart \/ ForcedRestart \/ OperationStarting \/ EngineStarts
  \/ EngineTakes \/ FlushBegin \/ FlushCommand \/ FlushFinish \/ EngineExecutes \/ EngineDies

Spec == Init /\ [][Next]_vars

\* Processes with messages run, timers fire, a call times out, and a killed
\* Engine dies.  No client has to make a request and no generation to be lost.
Fairness ==
  /\ \A c \in Client : WF_vars(Claim(c) \/ Submit(c) \/ Timeout(c)) /\ WF_vars(GuardianStep(c))
  /\ WF_vars(Reap(Claimed))
  /\ WF_vars(CompletedMsg \/ YieldedMsg \/ DrainedMsg)
  /\ WF_vars(\E x \in coordinator : CoordinatorDone(x))
  /\ WF_vars(OperationStarting) /\ WF_vars(EngineStarts)
  /\ WF_vars(EngineTakes \/ FlushBegin \/ FlushCommand \/ FlushFinish \/ EngineExecutes)
  /\ WF_vars(EngineDies /\ state \in {"failed", "stopping"})
  /\ WF_vars(Revoke /\ ~engine.up)

FairSpec == Spec /\ Fairness

---------------------------------------------------------------------------
(* Properties *)

\* A client that was told its insert succeeded finds it in the log, whatever
\* happens to the generation: flush_group_commit replies after the sync only.
AckedDurable == acked \subseteq Range(log)

\* An insert that was answered with capacity, unavailable or draining, or
\* whose reservation was lost, is not written then or later.  This is what lets
\* retry_after_switch send it a second time.
RefusedNeverApplied == refused \cap (Range(log) \cup Range(appended)) = {}

\* Both of the above: what a client is told of its insert is true for good.
AnswersTrue == AckedDurable /\ RefusedNeverApplied

Places(tok) ==
  LET In(s) == {i \in 1..Len(s) : s[i].tok = tok} IN
    Cardinality(In(pending)) + Cardinality(In(box)) + Cardinality(In(batch))
  + Cardinality({i \in 1..Len(out) : out[i].tok = tok /\ out[i].kind = "completed"})
  + (IF current # None /\ current.tok = tok THEN 1 ELSE 0)

\* While the generation admits commands, each submitted permit of a client has
\* exactly one command, waiting, executing or answered: the window, the batch
\* and the flush before a drain neither lose nor repeat one.
OnePlace ==
  engine.up /\ state \in {"ready", "draining"} =>
    \A k \in Slot \X {"client"} : table[k].st = "submitted" => Places(table[k].tok) = 1

\* A restart that drained closes the generation only when every command that
\* was submitted before it has been executed (operation: "Deliver every one in
\* FIFO order before the drain signal").
DrainFrontier ==
  operation = "closing" =>
    \A tok \in fenced : \A s \in {pending, box, batch} :
      \A i \in 1..Len(s) : s[i].tok # tok

\* A submitted permit is given back by the outcome of its own command or by
\* the end of the generation, never by the caller's timeout, its death or the
\* reaper.
SubmittedKept ==
  [][\A k \in Key :
       table[k].st = "submitted" /\ table'[k] # table[k] =>
         \/ gen' # gen
         \/ out # << >> /\ Head(out).kind = "completed" /\ Head(out).tok = table[k].tok
         \/ \E x \in coordinator : x.cmd.tok = table[k].tok]_vars

\* In the first generation the counter holds the payloads of the permits in
\* the table and the jobs that are written, and nothing else: reserve, release
\* and transaction balance ("Retained data and admitted payloads share the
\* counter", memory.ex).
BudgetExact ==
  engine.up /\ state \in {"ready", "draining"} /\ gen = 0 =>
    /\ permits \subseteq {table[k].tok : k \in Key}
    /\ mem = Cardinality(permits) + Len(log) + Len(appended)

\* With no payload charged, the counter is what the state retains, in every
\* generation, as shared_memory_test.exs asserts: "Memory.used(meta.memory) ==
\* state.budget.bytes + state.auxiliary_bytes".
QuietBudget ==
  engine.up /\ state = "ready" /\ permits = {} => mem = Len(log) + Len(appended)

\* Every slot that is taken is free again some day, unless the generation is
\* lost: by its completion, its cancellation, the death of its owner, the
\* reaper or, if it is a client's, the end of the generation.
PermitReturns ==
  \A k \in Key : []<>(\/ table[k] = Free
                       \/ state = "failed"
                       \/ (k[2] = "schedule" /\ gen > 0))

\* The same of schedule slots in every generation: "A timed-out submitted
\* request retains its permit until its actual outcome" (operations.md).
SchedulePermitReturns ==
  \A k \in Slot \X {"schedule"} :
    table[k] # Free ~> (table[k] = Free \/ state = "failed")
=============================================================================

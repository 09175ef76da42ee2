---------------------------- MODULE SocketClient ----------------------------
(***************************************************************************)
(* The Python client over the Unix socket (clients/python/tay/client.py with *)
(* schedules.py, results.py and execution.py): one Tay instance on one       *)
(* asyncio loop, in the mode "embedded".                                     *)
(*                                                                           *)
(* Coroutines of the loop interleave only where they await, so an action is  *)
(* the code of one coroutine between two awaits: of a caller of the API, of  *)
(* the connection supervisor, of the reader of the current connection or of  *)
(* the task of one execution.  The locks guard no await, and sends do not    *)
(* meet backpressure.  A call does not begin while close() runs.             *)
(*                                                                           *)
(* The server is external: it answers registrations and events in order      *)
(* (lib/tay/executor/connection.ex 184-320), hands every other request to a  *)
(* task of its own (322-347), and may break a connection at any time.        *)
(***************************************************************************)
EXTENDS Naturals, FiniteSets, Sequences

LOCAL INSTANCE SequencesExt

CONSTANTS
  Caller, Exec, Task, Sched, None,
  Boot,             \* the supervisor as the author of a request
  Capacity,
  Scripts,          \* what happens around the client, and its bounds
  MaxConns          \* bound: connections opened

Ops == {"start", "enqueue", "wait", "register", "unregister", "schedule", "cancel", "close"}

ASSUME SocketClientAssumption ==
  /\ IsFiniteSet(Caller) /\ IsFiniteSet(Exec) /\ Boot \notin Caller
  /\ Scripts \subseteq
       [calls : [Caller -> Seq([op : Ops, key : Task \cup Sched \cup {None}])],
        static : SUBSET Sched, \* schedules declared by task decorators
        execs : SUBSET Exec,  \* the executions the Engine dispatches
        \* "mixed" is a synchronous callable that returns an awaitable
        kind : [Exec -> {"async", "sync", "mixed"}],
        expire : BOOLEAN,     \* whether it cancels them or lets them time out
        timers : BOOLEAN,     \* whether request_timeout is short enough to run out
        conns : 1..MaxConns,  \* bound: connections opened
        faults : Nat,         \* bound: connections the server breaks or refuses
        polls : Nat,          \* bound: polls of one wait_result
        copies : Nat]         \* bound: executions delivered twice
  /\ Capacity \in Nat /\ MaxConns \in Nat

VARIABLES
  script,       \* the script of this behaviour
  running,      \* _running
  closing,      \* close() is between its first and its last step
  sup,          \* where _connection_supervisor stands
  boot,         \* the future of its exchange
  todo,         \* declarations _bootstrap has still to send
  writer,       \* _writer: the number of the current connection, or 0
  reader,       \* whether its _read_loop runs
  connected,    \* the event _connected
  lost,         \* the event _connection_lost
  call,         \* the call each caller is in
  desired,      \* _registered_task_names
  decls,        \* _schedule_declarations
  withdrawn,    \* _withdrawn_schedules
  exec,         \* the task and the connection of each execution
  tracked,      \* the keys of _executions
  doomed,       \* executions whose task.cancel() has been called
  opened,       \* connections opened so far
  link,         \* the state of each connection
  out,          \* frames the server has not read
  inbox,        \* frames the client has not read
  adv,          \* the server's tasks of each connection
  resv,         \* the server's reservation of each execution
  working,      \* requests the server's tasks are working on
  active,       \* schedules active on the server
  applied,      \* calls the server has carried out
  faults, copies,
  twice,        \* history: a call was carried out twice
  cancelSent    \* history: schedules with a cancel request sent since the
                \* last schedule call for them began

clientLoop == <<running, closing, sup, boot, todo, writer, reader, connected>>
wanted == <<desired, decls, withdrawn>>
executions == <<exec, tracked, doomed>>
sockets == <<opened, link, out, inbox>>
server == <<adv, resv, working, active, applied, faults, copies, twice>>
history == <<script, cancelSent>>
vars == <<clientLoop, lost, call, wanted, executions, sockets, server, history>>

Conn == 1..MaxConns
Booting == {"hello", "sched", "register"}
Forwarded == {"enqueue", "wait", "schedule", "cancel"}
Idle == [pc |-> "idle", at |-> 0, req |-> 0, polls |-> 0, got |-> "none"]
Fresh == [pc |-> "none", conn |-> 0]

Frame(kind, key, id) == [kind |-> kind, key |-> key, id |-> id]
BootId == <<Boot, 0, 0>>
NoId == <<None, 0, 0>>

Init ==
  /\ script \in Scripts
  /\ running = FALSE /\ closing = FALSE /\ sup = "off" /\ boot = "none"
  /\ todo = {} /\ writer = 0 /\ reader = FALSE
  /\ connected = FALSE /\ lost = TRUE
  /\ call = [c \in Caller |-> Idle]
  /\ desired = Task /\ decls = {} /\ withdrawn = {}
  /\ exec = [e \in Exec |-> Fresh] /\ tracked = {} /\ doomed = {}
  /\ opened = 0 /\ link = [w \in Conn |-> "none"]
  /\ out = [w \in Conn |-> << >>] /\ inbox = [w \in Conn |-> << >>]
  /\ adv = [w \in Conn |-> {}] /\ resv = [e \in Exec |-> Fresh]
  /\ working = {} /\ active = {} /\ applied = {}
  /\ faults = 0 /\ copies = 0 /\ twice = FALSE /\ cancelSent = {}

---------------------------------------------------------------------------
(* Sending *)

\* Connections whose transport has not seen the peer go.
Sound == {w \in Conn : link[w] # "down"}

\* A frame written to a connection whose peer has gone reaches nobody.
Sent(w, frame) ==
  IF w # 0 /\ link[w] = "up" THEN [out EXCEPT ![w] = Append(@, frame)] ELSE out

\* A write to it may raise, and then tells the supervisor unless the transport
\* was closing already.
Noticed == \E raised \in BOOLEAN : lost' = (lost \/ (raised /\ writer \notin Sound))

\* send_event of an execution: skipped when its connection is not current.
SendEvent(kind, e) ==
  IF writer = exec[e].conn
  THEN out' = Sent(writer, Frame(kind, e, NoId)) /\ Noticed
  ELSE UNCHANGED <<out, lost>>

---------------------------------------------------------------------------
(* Callers *)

Program == script.calls
Op(c) == Program[c][call[c].at]
Id(c) == <<c, call[c].at, call[c].req>>

DeclareKeeps(op, key) ==
  /\ desired' = IF op = "register" THEN desired \cup {key} ELSE desired
  /\ decls' = IF op = "cancel" THEN decls \ {key} ELSE decls
  /\ withdrawn' = IF op = "cancel" THEN withdrawn \cup {key} ELSE withdrawn

\* What a call writes into the desired state before it awaits anything.
Declare(op, key) ==
  /\ desired' = CASE op = "register" -> desired \cup {key}
                  [] op = "unregister" -> desired \ {key}
                  [] OTHER -> desired
  /\ decls' = IF op = "cancel" THEN decls \ {key} ELSE decls
  /\ withdrawn' = IF op = "cancel" THEN withdrawn \cup {key} ELSE withdrawn

\* The frame of a request; a task name travels as the list of itself.
Request(o, id) ==
  Frame(o.op, IF o.op \in {"register", "unregister"} THEN {o.key} ELSE o.key, id)

\* _exchange up to its await, of the operation o of caller c in the state r;
\* start() returns instead.
Exchange(c, o, r) ==
  \/ /\ o.op = "start"
     /\ call' = [call EXCEPT ![c] = [r EXCEPT !.pc = "idle", !.got = "ok"]]
     /\ UNCHANGED <<out, lost>>
  \/ /\ writer # 0 /\ o.op # "start"
     /\ call' = [call EXCEPT ![c] = [r EXCEPT !.pc = "reply", !.req = @ + 1]]
     /\ out' = Sent(writer, Request(o, <<c, r.at, r.req + 1>>))
     /\ UNCHANGED lost
  \* There is no connection, or its transport knows that the peer has gone.
  \/ /\ writer \notin Sound /\ o.op # "start"
     /\ call' = [call EXCEPT ![c] = [r EXCEPT !.pc = "idle", !.got = "lost"]]
     /\ IF writer = 0 THEN UNCHANGED lost ELSE Noticed
     /\ UNCHANGED out

Connected == connected /\ writer # 0

\* _request: start(), then the exchange, at once when there is a connection
\* and otherwise when the supervisor reports one.
MakeRequest(c, o, r) ==
  /\ running' = TRUE
  /\ sup' = IF running THEN sup ELSE "open"
  /\ IF Connected
     THEN Exchange(c, o, r)
     ELSE /\ call' = [call EXCEPT ![c] = [r EXCEPT !.pc = "wait"]]
          /\ lost' = (lost /\ running)
          /\ UNCHANGED out

NoteCancel(c, o, noted) ==
  cancelSent' = IF o.op = "cancel" /\ call'[c].pc = "reply" THEN noted \cup {o.key} ELSE noted

\* start, enqueue, wait_result, register_tasks, unregister_tasks, schedule and
\* the cancellation of a schedule, up to their first await.
Begin(c) ==
  /\ call[c].pc = "idle" /\ call[c].at < Len(Program[c]) /\ ~closing
  /\ LET o == Program[c][call[c].at + 1]
         r == [call[c] EXCEPT !.at = @ + 1, !.polls = 0, !.got = "none"]
     IN  /\ o.op # "close"
         /\ Declare(o.op, o.key)
         /\ MakeRequest(c, o, r)
         /\ NoteCancel(c, o, IF o.op = "schedule" THEN cancelSent \ {o.key} ELSE cancelSent)
  /\ UNCHANGED <<closing, boot, todo, writer, reader, connected, executions,
                 opened, link, inbox, server, script>>

\* The wait for a connection is over; whether it still exists is another matter.
Proceed(c) ==
  /\ call[c].pc = "woken"
  /\ Exchange(c, Op(c), call[c])
  /\ NoteCancel(c, Op(c), cancelSent)
  /\ UNCHANGED <<running, closing, sup, boot, todo, writer, reader, connected,
                 wanted, executions, opened, link, inbox, server, script>>

\* The next poll of wait_result.
Poll(c) ==
  /\ call[c].pc = "sleep" /\ ~closing
  /\ MakeRequest(c, Op(c), [call[c] EXCEPT !.polls = @ + 1])
  /\ UNCHANGED <<closing, boot, todo, writer, reader, connected, wanted,
                 executions, opened, link, inbox, server, history>>

\* The caller resumes with the reply: _declare_schedule retains an accepted
\* declaration, wait_result polls again while the result is not ready.
Retain(key) == decls' = decls \cup {key} /\ withdrawn' = withdrawn \ {key}

Resume(c) ==
  /\ call[c].pc = "resolved"
  /\ IF Op(c).op = "schedule" /\ call[c].got = "ok"
     THEN Retain(Op(c).key)
     ELSE UNCHANGED <<decls, withdrawn>>
  /\ call' = [call EXCEPT ![c].pc = IF @ = "resolved" /\ call[c].got = "notready"
                                       /\ call[c].polls < script.polls
                                    THEN "sleep" ELSE "idle"]
  /\ UNCHANGED <<clientLoop, lost, desired, executions, sockets, server, history>>

Leave(c, got) ==
  /\ call' = [call EXCEPT ![c].pc = "idle", ![c].got = got]
  /\ UNCHANGED <<clientLoop, lost, wanted, executions, sockets, server, history>>

\* request_timeout, and connect_timeout: the caller leaves with ConnectionLost,
\* and its request is no longer pending.
RequestTimeoutNever(c) == call[c].pc = "never" /\ Leave(c, "lost")
RequestTimeout(c) == script.timers /\ call[c].pc = "reply" /\ Leave(c, "lost")
ConnectTimeout(c) == call[c].pc = "wait" /\ Leave(c, "lost")

\* The deadline of wait_result, or the cancellation of its coroutine.
GiveUp(c) ==
  /\ call[c].pc \in {"wait", "reply", "sleep"} /\ Op(c).op = "wait"
  /\ Leave(c, "timeout")

---------------------------------------------------------------------------
(* The supervisor *)

FailPendingRetries(calls) ==
  [c \in Caller |-> IF calls[c].pc = "reply" THEN [calls[c] EXCEPT !.pc = "wait"] ELSE calls[c]]

\* _fail_pending.
FailPending(calls) ==
  [c \in Caller |-> IF calls[c].pc = "reply"
                    THEN [calls[c] EXCEPT !.pc = "resolved", !.got = "lost"]
                    ELSE calls[c]]

\* Executions cancel_async_execution may interrupt.
Interruptible(e) ==
  /\ e \in tracked
  /\ \/ exec[e].pc = "coro"
     \/ exec[e].pc = "created" /\ script.kind[e] = "async"

\* The finally of the supervisor and _detach_connection, of any connection.
Detach ==
  /\ connected' = FALSE /\ boot' = "none" /\ todo' = {}
  /\ writer' = 0 /\ reader' = FALSE
  /\ IF writer = 0
     THEN UNCHANGED <<doomed, link, inbox>>
     ELSE /\ doomed' = doomed \cup {e \in Exec : Interruptible(e) /\ exec[e].conn = writer}
          /\ link' = [link EXCEPT ![writer] = IF @ = "up" THEN "closed" ELSE "gone"]
          /\ inbox' = [inbox EXCEPT ![writer] = << >>]

\* An exchange of the supervisor, on connection w.
BootRequest(w, kind, key) ==
  /\ boot' = "wait"
  /\ out' = Sent(w, Frame(kind, key, BootId))

\* open_unix_connection succeeds.  Callers woken earlier have run: a connection
\* opens no sooner than a sleep after the last one was detached.
Open ==
  /\ sup = "open" /\ ~closing /\ opened < script.conns
  /\ \A c \in Caller : call[c].pc # "woken"
  /\ opened' = opened + 1 /\ writer' = opened + 1 /\ reader' = TRUE
  /\ link' = [link EXCEPT ![opened + 1] = "up"]
  /\ sup' = "hello" /\ boot' = "wait"
  /\ out' = [out EXCEPT ![opened + 1] = <<Frame("hello", None, BootId)>>]
  /\ UNCHANGED <<running, closing, todo, connected, lost, call, wanted,
                 executions, inbox, server, history>>

Refused ==
  /\ sup = "open" /\ ~closing /\ faults < script.faults
  /\ faults' = faults + 1 /\ sup' = "sleep"
  /\ UNCHANGED <<running, closing, boot, todo, writer, reader, connected, lost,
                 call, wanted, executions, sockets, adv, resv, working, active,
                 applied, copies, twice, history>>

SnapshotForgetful == decls \cup script.static

\* The declarations _bootstrap sends, read once after the hello.
Snapshot == decls \cup (script.static \ withdrawn)

\* The supervisor has connected: _connected.set() wakes the callers, and an
\* event _connection_lost that is already set ends the connection at once.
Ready ==
  /\ call' = [c \in Caller |-> IF call[c].pc = "wait" THEN [call[c] EXCEPT !.pc = "woken"]
                               ELSE call[c]]
  /\ IF lost
     THEN Detach /\ sup' = "sleep"
     ELSE /\ sup' = "up" /\ connected' = TRUE /\ boot' = "none"
          /\ UNCHANGED <<todo, writer, reader, doomed, link, inbox>>

\* _bootstrap goes on: the declarations one by one, in a fixed order, then the
\* tasks.
BootSchedule(left) ==
  LET s == CHOOSE k \in left : TRUE
  IN  /\ sup' = "sched" /\ todo' = left \ {s}
      /\ BootRequest(writer, "schedule", s)
      /\ UNCHANGED <<writer, reader, connected, call, doomed, link, inbox>>

BootRegister ==
  /\ sup' = "register" /\ todo' = {}
  /\ BootRequest(writer, "register", desired)
  /\ UNCHANGED <<writer, reader, connected, call, doomed, link, inbox>>

Left == IF sup = "hello" THEN Snapshot ELSE todo
Registers == sup # "register" /\ desired # {}

Bootstrap ==
  /\ sup \in Booting /\ boot = "ok" /\ ~closing
  /\ IF Left # {} THEN BootSchedule(Left)
     ELSE IF Registers THEN BootRegister
     ELSE Ready /\ UNCHANGED out
  /\ UNCHANGED <<running, closing, lost, wanted, exec, tracked, opened, server,
                 history>>

\* The connection ends: an exchange of _bootstrap fails or runs out of time, its
\* write raises, or _connection_lost is set.
Drop ==
  /\ ~closing
  /\ \/ sup \in Booting /\ (boot = "lost" \/ (boot = "wait" /\ script.timers))
     \/ sup \in Booting /\ boot = "ok" /\ link[writer] = "down" /\ (Left # {} \/ Registers)
     \/ sup = "up" /\ lost
  /\ Detach /\ sup' = "sleep"
  /\ UNCHANGED <<running, closing, lost, call, wanted, exec, tracked, opened, out,
                 server, history>>

Retry ==
  /\ sup = "sleep" /\ ~closing
  /\ sup' = "open" /\ lost' = FALSE
  /\ UNCHANGED <<running, closing, boot, todo, writer, reader, connected, call,
                 wanted, executions, sockets, server, history>>

---------------------------------------------------------------------------
(* close() *)

CloseBegin(c) ==
  /\ call[c].pc = "idle" /\ call[c].at < Len(Program[c]) /\ ~closing
  /\ Program[c][call[c].at + 1].op = "close"
  /\ call' = [call EXCEPT ![c].pc = "closing", ![c].at = @ + 1, ![c].got = "none"]
  /\ running' = FALSE /\ closing' = TRUE /\ connected' = FALSE /\ lost' = TRUE
  /\ UNCHANGED <<sup, boot, todo, writer, reader, wanted, executions, sockets,
                 server, history>>

\* The supervisor is cancelled, wherever it waits.
SupervisorCancelled ==
  /\ closing /\ sup # "off"
  /\ Detach /\ sup' = "off"
  /\ UNCHANGED <<running, closing, lost, call, wanted, exec, tracked, opened, out,
                 server, history>>

\* The rest of close(): pending callers are released and every execution is
\* cancelled and forgotten.  The thread of a synchronous one runs on.
CloseEnd(c) ==
  /\ call[c].pc = "closing" /\ sup = "off"
  /\ closing' = FALSE
  /\ call' = FailPending([call EXCEPT ![c].pc = "idle"])
  /\ doomed' = doomed \cup tracked /\ tracked' = {}
  /\ exec' = [e \in Exec |-> IF e \in tracked /\ exec[e].pc = "thread"
                             THEN [exec[e] EXCEPT !.pc = "orphan"] ELSE exec[e]]
  /\ UNCHANGED <<running, sup, boot, todo, writer, reader, connected, lost, wanted,
                 sockets, server, history>>

---------------------------------------------------------------------------
(* The reader *)

Reads(kinds) ==
  reader /\ inbox[writer] # << >> /\ Head(inbox[writer]).kind \in kinds
Message == Head(inbox[writer])

TellNobody(ends) == lost' = lost
Tell(ends) == lost' = (lost \/ ends)

\* The end of _read_loop, after which nobody reads this connection: pending
\* callers are released and the supervisor is told.
Ended(ends, calls, future) ==
  /\ reader' = ~ends
  /\ connected' = (connected /\ ~ends)
  /\ Tell(ends)
  /\ call' = IF ends THEN FailPending(calls) ELSE calls
  /\ boot' = IF ends /\ future = "wait" THEN "lost" ELSE future

\* One message handled; a message nobody expects raises ProtocolError.
Handled(expected, calls, future) ==
  /\ inbox' = [inbox EXCEPT ![writer] = Tail(@)]
  /\ Ended(~running \/ ~expected, calls, future)

\* The future of a request resolves, when its caller still waits for it.
Awaits(c) == call[c].pc = "reply" /\ Message.id = Id(c)
Expected == (\E c \in Caller : Awaits(c)) \/ (Message.id = BootId /\ boot = "wait")

ReadReply ==
  /\ Reads({"reply"})
  /\ Handled(Expected,
             [c \in Caller |-> IF Awaits(c)
                               THEN [call[c] EXCEPT !.pc = "resolved", !.got = Message.key]
                               ELSE call[c]],
             IF Message.id # BootId THEN boot
             ELSE IF Message.key = "ok" THEN "ok" ELSE "lost")
  /\ UNCHANGED <<running, closing, sup, todo, writer, wanted, executions, opened,
                 link, out, server, history>>

\* The answer to an event is forgotten when it says "accepted"; any other is
\* nobody's.
ReadEventReply ==
  /\ Reads({"accepted", "rejected"})
  /\ Handled(Message.kind = "accepted", call, boot)
  /\ UNCHANGED <<running, closing, sup, todo, writer, wanted, executions, opened,
                 link, out, server, history>>

ExecutionFailureUnsent(e) == UNCHANGED out
ExecutionFailure(e) == out' = Sent(writer, Frame("outcome", e, NoId))

Full == Cardinality(tracked) >= Capacity

\* _accept_execution.  The write that reaffirms a start may raise.
Accept(e) ==
  IF e \in tracked
  THEN /\ out' = Sent(writer, Frame("started", e, NoId))
       /\ UNCHANGED <<exec, tracked>>
  ELSE IF Full
  THEN /\ ExecutionFailure(e)
       /\ exec' = [exec EXCEPT ![e].pc = "done"]
       /\ UNCHANGED tracked
  ELSE /\ exec' = [exec EXCEPT ![e] = [pc |-> "created", conn |-> writer]]
       /\ tracked' = tracked \cup {e}
       /\ UNCHANGED out

ReadExecute ==
  /\ Reads({"execute"})
  /\ Accept(Message.key)
  /\ \E written \in BOOLEAN :
       /\ written \/ (Message.key \in tracked /\ writer \notin Sound)
       /\ Handled(written, call, boot)
  /\ UNCHANGED <<running, closing, sup, todo, writer, wanted, doomed, opened, link,
                 server, history>>

\* _cancel_execution.
ReadCancel ==
  /\ Reads({"cancel_execution"})
  /\ doomed' = IF Interruptible(Message.key) THEN doomed \cup {Message.key} ELSE doomed
  /\ Handled(TRUE, call, boot)
  /\ UNCHANGED <<running, closing, sup, todo, writer, wanted, exec, tracked, opened,
                 link, out, server, history>>

ReadEof ==
  /\ reader /\ link[writer] = "down" /\ inbox[writer] = << >>
  /\ Ended(TRUE, call, boot)
  /\ UNCHANGED <<running, closing, sup, todo, writer, wanted, executions, sockets,
                 server, history>>

---------------------------------------------------------------------------
(* Executions: _run_execution with run_task *)

\* The task ends, and its done callback forgets it.
Done(e) ==
  /\ exec' = [exec EXCEPT ![e].pc = "done"]
  /\ tracked' = tracked \ {e} /\ doomed' = doomed \ {e}

\* The first step of the task.  One cancelled before it never runs, and one
\* whose connection is no longer current does nothing.
ExecutionStarts(e) ==
  /\ exec[e].pc = "created"
  /\ \/ /\ e \in doomed \/ writer # exec[e].conn
        /\ Done(e) /\ UNCHANGED <<out, lost>>
     \/ /\ e \notin doomed /\ writer = exec[e].conn /\ writer \notin Sound
        /\ Done(e) /\ Noticed /\ UNCHANGED out
     \/ /\ e \notin doomed /\ writer = exec[e].conn
        /\ out' = Sent(writer, Frame("started", e, NoId)) /\ UNCHANGED lost
        /\ exec' = [exec EXCEPT ![e].pc = IF script.kind[e] = "async" THEN "coro" ELSE "thread"]
        /\ UNCHANGED <<tracked, doomed>>
  /\ UNCHANGED <<clientLoop, call, wanted, opened, link, inbox, server, history>>

\* An execution reports its outcome, on the connection it came from only.
Report(e) == SendEvent("outcome", e) /\ Done(e)

\* The callable returns in its thread; awaitable_started when it returned an
\* awaitable, which is closed unrun if the connection is no longer current.
ThreadReturns(e) ==
  /\ exec[e].pc = "thread"
  /\ IF script.kind[e] = "mixed" /\ writer = exec[e].conn
     THEN /\ exec' = [exec EXCEPT ![e].pc = "coro"]
          /\ UNCHANGED <<out, lost, tracked, doomed>>
     ELSE Report(e)
  /\ UNCHANGED <<clientLoop, call, wanted, opened, link, inbox, server, history>>

\* The coroutine returns, raises, or is cancelled.
CoroutineEnds(e) ==
  /\ exec[e].pc = "coro"
  /\ Report(e)
  /\ UNCHANGED <<clientLoop, call, wanted, opened, link, inbox, server, history>>

OrphanEnds(e) ==
  /\ exec[e].pc = "orphan"
  /\ exec' = [exec EXCEPT ![e].pc = "done"]
  /\ doomed' = doomed \ {e}
  /\ UNCHANGED <<clientLoop, lost, call, wanted, tracked, sockets, server, history>>

---------------------------------------------------------------------------
(* The server *)

Deliver(w, kind, key, id) ==
  inbox' = IF link[w] = "up" THEN [inbox EXCEPT ![w] = Append(@, Frame(kind, key, id))]
           ELSE inbox

Inflight(w) == {e \in Exec : resv[e].pc = "inflight" /\ resv[e].conn = w}

\* The connection is dropped: its capacity goes, its executions are lost.
Forget(w) ==
  /\ adv' = [adv EXCEPT ![w] = {}]
  /\ resv' = [e \in Exec |-> IF e \in Inflight(w) THEN [resv[e] EXCEPT !.pc = "lost"]
                             ELSE resv[e]]

ServeEvent(w, f) ==
  /\ IF f.key \in Inflight(w)
     THEN Deliver(w, "accepted", None, NoId)
     ELSE Deliver(w, "rejected", None, NoId)
  /\ resv' = IF f.kind = "outcome" /\ f.key \in Inflight(w)
             THEN [resv EXCEPT ![f.key].pc = "settled"] ELSE resv
  /\ UNCHANGED <<adv, working>>

ServeSession(w, f) ==
  /\ adv' = [adv EXCEPT ![w] = CASE f.kind = "register" -> @ \cup f.key
                                 [] f.kind = "unregister" -> @ \ f.key
                                 [] OTHER -> @]
  /\ Deliver(w, "reply", "ok", f.id)
  /\ UNCHANGED <<resv, working>>

Serve(w) ==
  /\ link[w] \in {"up", "closed"} /\ out[w] # << >>
  /\ LET f == Head(out[w])
     IN  IF f.kind \in {"started", "outcome"} THEN ServeEvent(w, f)
         ELSE IF f.kind \in Forwarded
         THEN /\ working' = working \cup {[kind |-> f.kind, key |-> f.key, id |-> f.id, conn |-> w]}
              /\ UNCHANGED <<adv, resv, inbox>>
         ELSE ServeSession(w, f)
  /\ out' = [out EXCEPT ![w] = Tail(@)]
  /\ UNCHANGED <<clientLoop, lost, call, wanted, executions, opened, link, active, applied,
                 faults, copies, twice, history>>

\* A forwarded request is answered; an error may hide that it was applied.
Work(r) ==
  /\ r \in working
  /\ working' = working \ {r}
  /\ \E verdict \in (IF r.kind = "wait" THEN {"ok", "notready"}
                     ELSE IF r.id = BootId THEN {"ok"} ELSE {"ok", "error"}),
        did \in BOOLEAN :
       /\ verdict = "ok" => did
       /\ verdict = "notready" => ~did
       /\ Deliver(r.conn, "reply", verdict, r.id)
       /\ IF did
          THEN /\ active' = CASE r.kind = "schedule" -> active \cup {r.key}
                              [] r.kind = "cancel" -> active \ {r.key}
                              [] OTHER -> active
               /\ applied' = IF r.id = BootId THEN applied ELSE applied \cup {<<r.id[1], r.id[2]>>}
               /\ twice' = (twice \/ <<r.id[1], r.id[2]>> \in applied)
          ELSE UNCHANGED <<active, applied, twice>>
  /\ UNCHANGED <<clientLoop, lost, call, wanted, executions, opened, link, out, adv, resv,
                 faults, copies, history>>

Dispatch(e) ==
  /\ resv[e].pc = "none" /\ e \in script.execs
  /\ \E w \in Conn :
       /\ link[w] = "up" /\ adv[w] # {} /\ Cardinality(Inflight(w)) < Capacity
       /\ resv' = [resv EXCEPT ![e] = [pc |-> "inflight", conn |-> w]]
       /\ Deliver(w, "execute", e, NoId)
  /\ UNCHANGED <<clientLoop, lost, call, wanted, executions, opened, link, out, adv, working,
                 active, applied, faults, copies, twice, history>>

DeliverAgain(e) ==
  /\ resv[e].pc = "inflight" /\ copies < script.copies
  /\ copies' = copies + 1
  /\ Deliver(resv[e].conn, "execute", e, NoId)
  /\ UNCHANGED <<clientLoop, lost, call, wanted, executions, opened, link, out, adv, resv,
                 working, active, applied, faults, twice, history>>

\* The Engine cancels an execution or lets it time out: the worker is told and
\* the reservation released (execution/dispatcher.ex 95-120).
Expire(e) ==
  /\ resv[e].pc = "inflight" /\ script.expire
  /\ resv' = [resv EXCEPT ![e].pc = "retired"]
  /\ Deliver(resv[e].conn, "cancel_execution", e, NoId)
  /\ UNCHANGED <<clientLoop, lost, call, wanted, executions, opened, link, out, adv, working,
                 active, applied, faults, copies, twice, history>>

\* The server breaks a connection: what it sent may be lost from some point on.
Break(w) ==
  /\ link[w] = "up" /\ faults < script.faults
  /\ faults' = faults + 1
  /\ link' = [link EXCEPT ![w] = "down"]
  /\ out' = [out EXCEPT ![w] = << >>]
  /\ \E k \in 0..Len(inbox[w]) : inbox' = [inbox EXCEPT ![w] = SubSeq(@, 1, k)]
  /\ Forget(w)
  /\ UNCHANGED <<clientLoop, lost, call, wanted, executions, opened, working, active, applied,
                 copies, twice, history>>

\* The server finds the connection closed, once it has read what was sent.
Hangup(w) ==
  /\ link[w] = "closed" /\ out[w] = << >>
  /\ link' = [link EXCEPT ![w] = "gone"]
  /\ Forget(w)
  /\ UNCHANGED <<clientLoop, lost, call, wanted, executions, opened, out, inbox, working,
                 active, applied, faults, copies, twice, history>>

---------------------------------------------------------------------------

CallerStep(c) ==
  \/ Begin(c) \/ Proceed(c) \/ Poll(c) \/ Resume(c)
  \/ RequestTimeout(c) \/ ConnectTimeout(c) \/ CloseBegin(c) \/ CloseEnd(c)

SupervisorStep == Open \/ Bootstrap \/ Drop \/ Retry \/ SupervisorCancelled
ReaderStep == ReadReply \/ ReadEventReply \/ ReadExecute \/ ReadCancel \/ ReadEof
ExecutionStep(e) ==
  ExecutionStarts(e) \/ ThreadReturns(e) \/ CoroutineEnds(e) \/ OrphanEnds(e)
ServerStep ==
  \/ \E w \in Conn : Serve(w) \/ Hangup(w)
  \/ \E r \in working : Work(r)

Next ==
  \/ \E c \in Caller : CallerStep(c) \/ GiveUp(c)
  \/ SupervisorStep \/ Refused
  \/ ReaderStep
  \/ \E e \in Exec : ExecutionStep(e) \/ Dispatch(e) \/ DeliverAgain(e) \/ Expire(e)
  \/ ServerStep
  \/ \E w \in Conn : Break(w)

Spec == Init /\ [][Next]_vars

\* Coroutines that can run do, timers that run out fire, user code ends and the
\* server answers; callers need not call, nor the server dispatch.
Fairness ==
  /\ \A c \in Caller : WF_vars(CallerStep(c))
  /\ WF_vars(SupervisorStep) /\ WF_vars(ReaderStep) /\ WF_vars(ServerStep)
  /\ \A e \in Exec : WF_vars(ExecutionStep(e))

FairSpec == Spec /\ Fairness

---------------------------------------------------------------------------
(* Properties *)

\* Every variable keeps its type.
TypeOK ==
  /\ {running, closing, reader, connected, lost, twice} \subseteq BOOLEAN
  /\ sup \in Booting \cup {"off", "open", "up", "sleep"}
  /\ boot \in {"none", "wait", "ok", "lost"} /\ writer \in 0..opened
  /\ opened \in 0..script.conns /\ faults \in 0..script.faults /\ copies \in 0..script.copies
  /\ \A c \in Caller :
       /\ call[c].pc \in {"idle", "wait", "woken", "reply", "resolved", "sleep", "closing"}
       /\ call[c].got \in {"none", "ok", "error", "notready", "lost", "timeout"}
       /\ call[c].at \in 0..Len(Program[c]) /\ call[c].polls \in 0..script.polls
  /\ desired \subseteq Task /\ decls \cup withdrawn \cup todo \cup active \subseteq Sched
  /\ tracked \cup doomed \subseteq Exec
  /\ \A e \in Exec :
       /\ exec[e].pc \in {"none", "created", "thread", "coro", "orphan", "done"}
       /\ resv[e].pc \in {"none", "inflight", "settled", "retired", "lost"}
       /\ {exec[e].conn, resv[e].conn} \subseteq 0..opened
  /\ \A w \in Conn : link[w] \in {"none", "up", "down", "closed", "gone"}

Made(c) == call[c].at > 0 /\ call[c].pc = "idle"
Appended(w) == Len(out'[w]) > Len(out[w])

\* A call is carried out at most once, and one that returned a reply was carried
\* out: _exchange never repeats a request on its own, and a reply is matched to
\* the request it answers, over timeouts, late replies and reconnects.
AtMostOnce ==
  /\ ~twice
  /\ \A c \in Caller :
       Made(c) /\ Op(c).op \in Forwarded /\ call[c].got = "ok" => <<c, call[c].at>> \in applied

\* A connected client whose last change of a capability returned has the server
\* agree with it, on this connection and on every later one: the desired set,
\* the bootstrap and the request stay in step over reconnects.
CapabilitiesAgree ==
  connected /\ writer # 0 /\ link[writer] = "up" =>
    \A c \in Caller :
      Made(c) /\ Op(c).op \in {"register", "unregister"} /\ call[c].got = "ok" =>
        (Op(c).key \in adv[writer] <=> Op(c).key \in desired)

\* After a cancel request for a schedule went out, no bootstrap declares the
\* schedule again before somebody calls schedule() for it, whatever became of
\* the request.
NoResurrection ==
  [][\A w \in Conn :
       \/ ~Appended(w)
       \/ Last(out'[w]).kind # "schedule" \/ Last(out'[w]).id # BootId
       \/ Last(out'[w]).key \notin cancelSent]_vars

\* A request of a caller never travels on a connection whose bootstrap is not
\* complete: not before its hello, not before its schedules are restored.
BootstrapFirst ==
  [][\A w \in Conn :
       \/ ~Appended(w)
       \/ Last(out'[w]).id \in {BootId, NoId}
       \/ sup \notin Booting]_vars

\* A report about an execution is sent only on the connection that delivered it:
\* a late outcome never uses a replacement connection.
ReportsStayHome ==
  \A w \in Conn : \A i \in 1..Len(out[w]) :
    out[w][i].kind \in {"started", "outcome"} => resv[out[w][i].key].conn = w

\* The threads of synchronous calls, of this connection and of lost ones, never
\* exceed the capacity: a call that cannot be stopped keeps its slot.
ThreadsBounded == Cardinality({e \in Exec : exec[e].pc = "thread"}) <= Capacity

\* An execution whose connection is still in place does not end without its
\* outcome: the server need not wait for a timeout to learn of it.
NoSilentEnd ==
  \A e \in Exec :
    exec[e].pc = "done" /\ e \in Inflight(writer) /\ link[writer] = "up" =>
      \E i \in 1..Len(out[writer]) : out[writer][i] = Frame("outcome", e, NoId)

\* No caller waits forever: a reply, the loss of the connection or a timeout
\* ends every call.
CallsEnd == \A c \in Caller : []<>(call[c].pc = "idle")

\* A started client comes back: it is connected again and again, as long as it
\* may open connections and is not closed.
Reconnects == []<>(~running \/ (connected /\ writer # 0) \/ opened = script.conns)

\* Every execution gives its slot back.
SlotsReturn == \A e \in Exec : []<>(e \notin tracked)

\* Executions are interrupted only by close(), by cancel_execution, or with a
\* connection the server has broken: not because some caller stopped waiting for
\* its own reply, and not because the server refused a late outcome of another.
InterruptedForCause ==
  [][\A e \in Exec :
       \/ e \in doomed \/ e \notin doomed'
       \/ closing
       \/ writer' = writer
       \/ link[exec[e].conn] # "up"]_vars
=============================================================================

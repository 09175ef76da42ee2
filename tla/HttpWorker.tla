----------------------------- MODULE HttpWorker -----------------------------
(***************************************************************************)
(* The Python HTTP worker (TayHTTPWorker of clients/python/tay/http.py, run  *)
(* by __main__._serve) and the session the server keeps for it               *)
(* (lib/tay/http/worker_session.ex behind router.ex).                        *)
(*                                                                           *)
(* An action is the code of one coroutine between two awaits: of the task in *)
(* serve_forever, of a caller of the worker's methods, or of the task of one *)
(* execution.  A request runs in a thread of its own: cancelling the         *)
(* coroutine that awaits it does not stop it, so it may still reach the      *)
(* server, and its reply then finds nobody.  Requests travel on connections  *)
(* of their own and arrive in any order.  A session is known by its number,  *)
(* which stands for its token.                                               *)
(***************************************************************************)
EXTENDS Naturals, FiniteSets, Sequences

CONSTANTS
  Caller, Exec, None,
  Loop,             \* the task in serve_forever
  Capacity,
  MaxQueue,         \* messages a session holds back, max_queue
  Scripts,          \* what happens around the worker, and its bounds
  MaxSess           \* bound: sessions created

Proc == Caller \cup {Loop}
Sess == 1..MaxSess

ASSUME HttpWorkerAssumption ==
  /\ IsFiniteSet(Caller) /\ IsFiniteSet(Exec) /\ Loop \notin Caller
  /\ Capacity \in Nat \ {0} /\ MaxQueue \in Nat \ {0} /\ MaxSess \in Nat
  /\ Scripts \subseteq
       [calls : [Caller -> Seq({"register", "close", "stop", "cancel"})],
        serves : Nat,        \* bound: calls of serve_forever
        static : BOOLEAN,    \* whether a decorator declares a schedule
        execs : SUBSET Exec, \* the executions the Engine dispatches
        kind : [Exec -> {"async", "sync", "mixed"}],
        expire : BOOLEAN,    \* whether it cancels them or lets them time out
        crash : BOOLEAN,     \* whether a request may be answered by an unknown error
        sessions : Sess,     \* bound: sessions created
        faults : Nat]        \* bound: exchanges that fail and sessions that die

VARIABLES
  script,
  pc,           \* where each process stands
  at,           \* calls each caller has begun
  waits,        \* callers that wait for the task in serve_forever to end
  batch,        \* the executions a process awaits
  taken,        \* the session a process is about to revoke
  failed,       \* how the registration being undone failed
  token,        \* _token: the number of the session held, or 0
  closing,      \* _closing
  cancel,       \* whether the loop was cancelled: "no", "asked", "thrown"
  serves,
  withdrawn,    \* whether the schedule is in _withdrawn_schedules
  regLock,      \* the holder of _registration_lock
  closeLock,    \* the holder of _close_lock
  exec,         \* the task of each execution and the session it came from
  tracked,      \* the keys of _executions
  doomed,       \* executions whose task.cancel() has been called
  wire,         \* requests on their way to the server
  replies,      \* replies on their way back
  sess,         \* the state of each session
  queue,        \* its messages
  waiter,       \* who waits for one: "free", Loop, or None once nobody does
  sessions,
  resv,         \* the server's reservation of each execution
  faults,
  held,         \* history: sessions the worker has held
  dropped       \* history: executions a failed exchange was about

procs == <<pc, at, waits, batch, taken, failed>>
worker == <<token, closing, cancel, serves, withdrawn>>
locks == <<regLock, closeLock>>
executions == <<exec, tracked, doomed>>
net == <<wire, replies>>
session == <<sess, queue, waiter, sessions, resv>>
history == <<script, faults, held, dropped>>
vars == <<procs, worker, locks, executions, net, session, history>>

Fresh == [pc |-> "none", sess |-> 0]
Alive == {e \in Exec : exec[e].pc \in {"created", "starting", "thread", "coro", "completing"}}

Init ==
  /\ script \in Scripts
  /\ pc = [p \in Proc |-> IF p = Loop THEN "off" ELSE "idle"]
  /\ at = [c \in Caller |-> 0] /\ waits = {} /\ batch = [p \in Proc |-> {}]
  /\ taken = [p \in Proc |-> 0] /\ failed = "none"
  /\ token = 0 /\ closing = FALSE /\ cancel = "no" /\ serves = 0 /\ withdrawn = FALSE
  /\ regLock = None /\ closeLock = None
  /\ exec = [e \in Exec |-> Fresh] /\ tracked = {} /\ doomed = {}
  /\ wire = {} /\ replies = {}
  /\ sess = [k \in Sess |-> "none"] /\ queue = [k \in Sess |-> << >>]
  /\ waiter = [k \in Sess |-> "free"] /\ sessions = 0 /\ resv = [e \in Exec |-> Fresh]
  /\ faults = 0 /\ held = {} /\ dropped = {}

---------------------------------------------------------------------------
(* Requests *)

Post(who, kind, k, key) == [who |-> who, kind |-> kind, sess |-> k, key |-> key]
Answer(who, body, key) == [who |-> who, body |-> body, key |-> key]

\* The coroutine p is no longer there for its request.
Abandoned(p, requests) == {IF r.who = p THEN [r EXCEPT !.who = None] ELSE r : r \in requests}
Unheard(p) == {r \in replies : r.who # p}
Deserted(p) == [k \in Sess |-> IF waiter[k] = p THEN None ELSE waiter[k]]

Reply(p) == CHOOSE r \in replies : r.who = p
HasReply(p) == \E r \in replies : r.who = p

---------------------------------------------------------------------------
(* close *)

\* A step to another await, of which close() would change more.
Go(p, where) ==
  /\ pc' = [pc EXCEPT ![p] = where]
  /\ UNCHANGED <<waits, batch, taken, token, closing, closeLock, tracked, doomed, wire>>

\* The task in serve_forever has ended.
ServeEnds == pc' = [pc EXCEPT ![Loop] = "off"] /\ waits' = {}

\* The lock is released, and then the task in serve_forever awaited.  Below, w
\* are the callers that will have to wait for it.
CloseUnlocks(p, w) ==
  /\ closeLock' = None
  /\ IF p = Loop THEN ServeEnds ELSE pc' = [pc EXCEPT ![p] = "await"] /\ waits' = w

\* The executions have ended and are forgotten; session k is revoked.
CloseGathered(p, k, w) ==
  /\ tracked' = {} /\ batch' = [batch EXCEPT ![p] = {}]
  /\ IF k # 0
     THEN /\ pc' = [pc EXCEPT ![p] = "delete"] /\ closeLock' = p
          /\ wire' = wire \cup {Post(p, "delete", k, None)}
          /\ waits' = w
     ELSE CloseUnlocks(p, w) /\ UNCHANGED wire

\* close() under its lock.
CloseLocked(p, w) ==
  /\ taken' = [taken EXCEPT ![p] = token] /\ token' = 0
  /\ doomed' = doomed \cup tracked
  /\ IF tracked = {} THEN CloseGathered(p, token, w)
     ELSE /\ closeLock' = p /\ pc' = [pc EXCEPT ![p] = "gather"]
          /\ batch' = [batch EXCEPT ![p] = tracked] /\ waits' = w
          /\ UNCHANGED <<tracked, wire>>

\* close() up to its first await: at once into its lock, when nobody has it.
Close(p, w) ==
  /\ closing' = TRUE
  /\ IF closeLock = None /\ \A q \in Proc : pc[q] # "closelock"
     THEN CloseLocked(p, w)
     ELSE /\ pc' = [pc EXCEPT ![p] = "closelock"] /\ waits' = w
          /\ UNCHANGED <<batch, taken, token, closeLock, tracked, doomed, wire>>

\* serve_forever leaves its loop and closes the worker.
Finish == Close(Loop, waits)

NotCancelled(p) == p = Loop => cancel # "asked"

CloseEnters(p) ==
  /\ pc[p] = "closelock" /\ closeLock = None /\ NotCancelled(p)
  /\ CloseLocked(p, waits)
  /\ UNCHANGED <<at, failed, closing, cancel, serves, withdrawn, regLock, exec, replies,
                 session, history>>

CloseGathers(p) ==
  /\ pc[p] = "gather" /\ batch[p] \cap Alive = {} /\ NotCancelled(p)
  /\ CloseGathered(p, taken[p], waits)
  /\ UNCHANGED <<at, taken, failed, worker, regLock, exec, doomed, replies, session, history>>

CloseReplied(p) ==
  /\ pc[p] = "delete" /\ HasReply(p) /\ NotCancelled(p)
  /\ replies' = Unheard(p)
  /\ CloseUnlocks(p, waits)
  /\ UNCHANGED <<at, batch, taken, failed, worker, regLock, executions, wire, session, history>>

CloseEnds(c) ==
  /\ pc[c] = "await" /\ c \notin waits
  /\ pc' = [pc EXCEPT ![c] = "idle"]
  /\ UNCHANGED <<at, waits, batch, taken, failed, worker, locks, executions, net, session,
                 history>>

---------------------------------------------------------------------------
(* register *)

\* Executions cancel_async_execution may interrupt.
Interruptible(e) ==
  /\ e \in tracked
  /\ \/ script.kind[e] = "async"
     \/ script.kind[e] = "mixed" /\ exec[e].pc \in {"coro", "completing"}

\* register() ends for p; the loop goes on to retry or to finish.
Unregistered(p, result) ==
  /\ regLock' = None
  /\ \/ p # Loop /\ Go(p, "idle")
     \/ p = Loop /\ result = "lost" /\ ~closing /\ Go(p, "sleep")
     \/ p = Loop /\ (result # "lost" \/ closing) /\ Finish

\* register() ends for p with session k; the loop goes on to claim.
Registered(p, k) ==
  /\ regLock' = None /\ token' = k
  /\ pc' = [pc EXCEPT ![p] = IF p = Loop THEN "claim" ELSE "idle"]
  /\ wire' = IF p = Loop THEN wire \cup {Post(p, "claim", k, None)} ELSE wire
  /\ UNCHANGED <<waits, batch, taken, closing, closeLock, tracked, doomed>>

\* A request of the registration, which keeps its lock.
RegisterAsks(p, where, kind, k) ==
  /\ regLock' = p
  /\ pc' = [pc EXCEPT ![p] = where]
  /\ wire' = wire \cup {Post(p, kind, k, None)}
  /\ UNCHANGED <<waits, batch, token, closing, closeLock, tracked, doomed>>

\* _register_session up to its first await.
RegisterSession(p) ==
  IF closing THEN Unregistered(p, "lost")
  ELSE IF token # 0 THEN Registered(p, token)
  ELSE RegisterAsks(p, "post", "register", 0) /\ UNCHANGED taken

\* Mutant: nobody waits for them.
RegisterAtOnce(p) == RegisterSession(p)

\* Under the lock, the executions of a retired session are awaited first.
RegisterLocked(p) ==
  IF token = 0 /\ tracked # {}
  THEN /\ regLock' = p /\ pc' = [pc EXCEPT ![p] = "regwait"]
       /\ batch' = [batch EXCEPT ![p] = tracked]
       /\ doomed' = doomed \cup {e \in tracked : Interruptible(e)}
       /\ UNCHANGED <<waits, taken, token, closing, closeLock, tracked, wire>>
  ELSE RegisterSession(p)

RegisterEnters(p) ==
  /\ pc[p] = "lock" /\ regLock = None /\ NotCancelled(p)
  /\ RegisterLocked(p)
  /\ UNCHANGED <<at, failed, cancel, serves, withdrawn, exec, replies, session, history>>

RegisterGathers(p) ==
  /\ pc[p] = "regwait" /\ batch[p] \cap Alive = {} /\ NotCancelled(p)
  /\ RegisterSession(p)
  /\ UNCHANGED <<at, failed, cancel, serves, withdrawn, exec, replies, session, history>>

\* The worker holds session k.
Hold(p, k) ==
  /\ Registered(p, k)
  /\ held' = held \cup {k}
  /\ UNCHANGED failed

\* The new session is revoked, because of why.
Revoke(p, k, why) ==
  /\ RegisterAsks(p, "revoke", "delete", k)
  /\ failed' = why
  /\ UNCHANGED <<taken, held>>

\* Mutant: nobody looks.
NeverClosed == FALSE

\* The worker may have been closed while the registration awaited its reply.
ClosedMeanwhile == closing

RegisterReplied(p) ==
  /\ pc[p] = "post" /\ HasReply(p) /\ NotCancelled(p)
  /\ LET r == Reply(p)
     IN  /\ replies' = replies \ {r}
         /\ IF r.body # "ok" \/ ClosedMeanwhile
            THEN /\ Unregistered(p, IF r.body = "ok" THEN "lost" ELSE r.body)
                 /\ UNCHANGED <<failed, held>>
            ELSE IF script.static /\ ~withdrawn
            THEN /\ RegisterAsks(p, "sched", "schedule", 0)
                 /\ taken' = [taken EXCEPT ![p] = r.key]
                 /\ UNCHANGED <<failed, held>>
            ELSE Hold(p, r.key)
  /\ UNCHANGED <<at, cancel, serves, withdrawn, exec, session, script, faults, dropped>>

\* The schedule has been declared and the worker not been closed meanwhile, or
\* the new session is revoked.
ScheduleReplied(p) ==
  /\ pc[p] = "sched" /\ HasReply(p) /\ NotCancelled(p)
  /\ LET r == Reply(p)
     IN  /\ replies' = replies \ {r}
         /\ CASE r.body = "ok" /\ ~ClosedMeanwhile -> Hold(p, taken[p])
              [] r.body = "ok" /\ ClosedMeanwhile -> Revoke(p, taken[p], "lost")
              [] r.body # "ok" -> Revoke(p, taken[p], r.body)
  /\ UNCHANGED <<at, cancel, serves, withdrawn, exec, session, script, faults, dropped>>

RevokeReplied(p) ==
  /\ pc[p] = "revoke" /\ HasReply(p) /\ NotCancelled(p)
  /\ replies' = Unheard(p)
  /\ Unregistered(p, failed)
  /\ UNCHANGED <<at, failed, cancel, serves, withdrawn, exec, session, history>>

---------------------------------------------------------------------------
(* serve_forever *)

ServeBegin ==
  /\ pc[Loop] = "off" /\ closeLock = None /\ serves < script.serves
  /\ serves' = serves + 1 /\ closing' = FALSE /\ cancel' = "no"
  /\ pc' = [pc EXCEPT ![Loop] = "lock"]
  /\ UNCHANGED <<at, waits, batch, taken, failed, token, withdrawn, locks, executions, net,
                 session, history>>

\* The top of the loop.
Again == IF closing THEN Finish ELSE Go(Loop, "lock")

SleepEnds ==
  /\ pc[Loop] = "sleep" /\ NotCancelled(Loop)
  /\ Again
  /\ UNCHANGED <<at, failed, cancel, serves, withdrawn, regLock, exec, replies, session, history>>

\* Mutant: a worker that is full ignores what is delivered.
AdoptWithRoom(e) ==
  IF e \notin tracked /\ Cardinality(tracked) < Capacity
  THEN /\ exec' = [exec EXCEPT ![e] = [pc |-> "created", sess |-> token]]
       /\ tracked' = tracked \cup {e}
  ELSE UNCHANGED <<exec, tracked>>

\* An execution that is delivered is created, once.
Adopt(e) ==
  IF e \notin tracked
  THEN /\ exec' = [exec EXCEPT ![e] = [pc |-> "created", sess |-> token]]
       /\ tracked' = tracked \cup {e}
  ELSE UNCHANGED <<exec, tracked>>

\* Mutant: the session is kept.
TokenKept(r) == token

\* A session the server no longer knows is forgotten.
TokenAfter(r) == IF r.body = "unknown_worker" THEN 0 ELSE token

\* A message is handled, and the loop goes round.
Handle(r) ==
  /\ pc' = [pc EXCEPT ![Loop] = "lock"]
  /\ token' = TokenAfter(r)
  /\ CASE r.body = "execute" -> Adopt(r.key) /\ UNCHANGED doomed
       [] r.body = "cancel_execution" ->
            /\ doomed' = doomed \cup {e \in {r.key} : Interruptible(e)}
            /\ UNCHANGED <<exec, tracked>>
       [] r.body \in {"unknown_worker", "empty"} -> UNCHANGED executions
  /\ UNCHANGED <<waits, batch, taken, closing, closeLock, wire>>

\* A claim is answered.  An error the loop does not know ends it.
ClaimReplied ==
  /\ pc[Loop] = "claim" /\ HasReply(Loop) /\ NotCancelled(Loop)
  /\ LET r == Reply(Loop)
     IN  /\ replies' = replies \ {r}
         /\ IF closing \/ r.body = "error" THEN Finish /\ UNCHANGED exec
            ELSE IF r.body \in {"lost", "claim_in_progress"} THEN Go(Loop, "sleep") /\ UNCHANGED exec
            ELSE Handle(r)
  /\ UNCHANGED <<at, failed, cancel, serves, withdrawn, regLock, session, history>>

\* CancelledError reaches the loop where it awaits.  Outside close() the loop
\* finishes, once awaited executions have ended and a new session is revoked;
\* inside close() what is left of it is skipped.  The request goes on alone.
Thrown ==
  /\ cancel = "asked" /\ pc[Loop] # "off" /\ cancel' = "thrown"
  /\ wire' = Abandoned(Loop, wire)
               \cup (IF pc[Loop] = "sched" THEN {Post(Loop, "delete", taken[Loop], None)} ELSE {})
  /\ replies' = Unheard(Loop) /\ waiter' = Deserted(Loop)
  /\ failed' = IF pc[Loop] = "sched" THEN "cancelled" ELSE failed
  /\ doomed' = IF pc[Loop] \in {"regwait", "gather"} THEN doomed \cup (batch[Loop] \cap Alive)
               ELSE doomed
  /\ regLock' = IF pc[Loop] \in {"post", "revoke"} THEN None ELSE regLock
  /\ closeLock' = IF pc[Loop] = "delete" THEN None ELSE closeLock
  /\ IF pc[Loop] \in {"closelock", "delete"} THEN ServeEnds
     ELSE /\ pc' = [pc EXCEPT ![Loop] =
                      CASE @ \in {"lock", "claim", "sleep", "post", "revoke"} -> "leave"
                        [] @ = "regwait" -> "regabort"
                        [] @ = "sched" -> "revoke"
                        [] @ = "gather" -> "closeabort"
                        [] OTHER -> @]
          /\ UNCHANGED waits
  /\ UNCHANGED <<at, batch, taken, token, closing, serves, withdrawn, exec, tracked, sess,
                 queue, sessions, resv, history>>

\* The exception leaves the loop, or leaves close(): a cancelled gather() raises
\* when the executions it awaits have ended.
Raises ==
  /\ \/ /\ pc[Loop] \in {"leave", "regabort"} /\ batch[Loop] \cap Alive = {}
        /\ Finish
        /\ regLock' = IF pc[Loop] = "regabort" THEN None ELSE regLock
     \/ /\ pc[Loop] = "closeabort" /\ batch[Loop] \cap Alive = {}
        /\ ServeEnds /\ closeLock' = None /\ batch' = [batch EXCEPT ![Loop] = {}]
        /\ UNCHANGED <<taken, token, closing, regLock, tracked, doomed, wire>>
  /\ UNCHANGED <<at, failed, cancel, serves, withdrawn, exec, replies, session, history>>

---------------------------------------------------------------------------
(* Calls *)

NextCall(c) == script.calls[c][at[c] + 1]
Calls(c, op) ==
  /\ pc[c] = "idle" /\ at[c] < Len(script.calls[c]) /\ NextCall(c) = op
  /\ at' = [at EXCEPT ![c] = @ + 1]

RegisterCalled(c) ==
  /\ Calls(c, "register")
  /\ pc' = [pc EXCEPT ![c] = "lock"]
  /\ UNCHANGED <<waits, batch, taken, failed, worker, locks, executions, net, session, history>>

\* The cancellation of the schedule, withdrawn first.
CancelCalled(c) ==
  /\ Calls(c, "cancel")
  /\ withdrawn' = TRUE
  /\ pc' = [pc EXCEPT ![c] = "asking"]
  /\ wire' = wire \cup {Post(c, "unschedule", 0, None)}
  /\ UNCHANGED <<waits, batch, taken, failed, token, closing, cancel, serves, locks,
                 executions, replies, session, history>>

CancelReplied(c) ==
  /\ pc[c] = "asking" /\ HasReply(c)
  /\ replies' = Unheard(c) /\ pc' = [pc EXCEPT ![c] = "idle"]
  /\ UNCHANGED <<at, waits, batch, taken, failed, worker, locks, executions, wire, session,
                 history>>

\* The task in serve_forever is cancelled unless it has been before.
CancelsLoop == pc[Loop] # "off" /\ cancel = "no"

\* close() called from outside.
CloseFromOutside(c) ==
  /\ Close(c, IF pc[Loop] = "off" THEN waits ELSE waits \cup {c})
  /\ cancel' = IF CancelsLoop THEN "asked" ELSE cancel
  /\ UNCHANGED <<failed, serves, withdrawn, regLock, exec, replies, session, history>>

CloseCalled(c) == Calls(c, "close") /\ CloseFromOutside(c)

\* __main__._serve on a signal: the task is cancelled and awaited, then closed.
StopCalled(c) ==
  /\ Calls(c, "stop")
  /\ pc' = [pc EXCEPT ![c] = "stopping"]
  /\ waits' = IF pc[Loop] = "off" THEN waits ELSE waits \cup {c}
  /\ cancel' = IF pc[Loop] = "off" THEN cancel ELSE "asked"
  /\ UNCHANGED <<batch, taken, failed, token, closing, serves, withdrawn, locks, executions,
                 net, session, history>>

StopCloses(c) ==
  /\ pc[c] = "stopping" /\ c \notin waits
  /\ CloseFromOutside(c)
  /\ UNCHANGED at

---------------------------------------------------------------------------
(* _execute with run_task *)

\* The task ends, and its done callback forgets it.
Done(e) ==
  /\ exec' = [exec EXCEPT ![e].pc = "done"]
  /\ tracked' = tracked \ {e} /\ doomed' = doomed \ {e}

Current(e) == exec[e].sess = token

\* The first step of the task; one cancelled before it never runs.
ExecutionStarts(e) ==
  /\ exec[e].pc = "created"
  /\ IF e \in doomed \/ ~Current(e)
     THEN Done(e) /\ UNCHANGED wire
     ELSE /\ exec' = [exec EXCEPT ![e].pc = "starting"]
          /\ wire' = wire \cup {Post(e, "started", token, e)}
          /\ UNCHANGED <<tracked, doomed>>
  /\ UNCHANGED <<procs, worker, locks, replies, session, history>>

StartReplied(e) ==
  /\ exec[e].pc = "starting" /\ HasReply(e) /\ e \notin doomed
  /\ replies' = Unheard(e)
  /\ IF Reply(e).body = "ok" /\ Current(e) /\ ~closing
     THEN /\ exec' = [exec EXCEPT ![e].pc = IF script.kind[e] = "async" THEN "coro" ELSE "thread"]
          /\ UNCHANGED <<tracked, doomed>>
     ELSE Done(e)
  /\ UNCHANGED <<procs, worker, locks, wire, session, history>>

\* The outcome is reported while its session is the worker's; a cancellation has
\* then become an outcome.
Settle(e) ==
  IF Current(e) /\ ~closing
  THEN /\ exec' = [exec EXCEPT ![e].pc = "completing"]
       /\ wire' = wire \cup {Post(e, "complete", exec[e].sess, e)}
       /\ doomed' = doomed \ {e} /\ UNCHANGED tracked
  ELSE Done(e) /\ UNCHANGED wire

\* The callable returns in its thread; _awaitable_started when it returned an
\* awaitable.
ThreadReturns(e) ==
  /\ exec[e].pc = "thread" /\ e \notin doomed
  /\ IF script.kind[e] = "mixed" /\ Current(e) /\ ~closing
     THEN exec' = [exec EXCEPT ![e].pc = "coro"] /\ UNCHANGED <<tracked, doomed, wire>>
     ELSE Settle(e)
  /\ UNCHANGED <<procs, worker, locks, replies, session, history>>

\* The coroutine returns, raises, or is cancelled.
CoroutineEnds(e) ==
  /\ exec[e].pc = "coro"
  /\ Settle(e)
  /\ UNCHANGED <<procs, worker, locks, replies, session, history>>

CompleteReplied(e) ==
  /\ exec[e].pc = "completing" /\ HasReply(e) /\ e \notin doomed
  /\ replies' = Unheard(e)
  /\ Done(e)
  /\ UNCHANGED <<procs, worker, locks, wire, session, history>>

\* A cancelled task leaves its request, or its thread, to itself.
Interrupted(e) ==
  /\ e \in doomed /\ exec[e].pc \in {"starting", "completing", "thread"}
  /\ wire' = Abandoned(e, wire) /\ replies' = Unheard(e)
  /\ exec' = [exec EXCEPT ![e].pc = IF @ = "thread" THEN "orphan" ELSE "done"]
  /\ tracked' = tracked \ {e} /\ doomed' = doomed \ {e}
  /\ UNCHANGED <<procs, worker, locks, session, history>>

OrphanEnds(e) ==
  /\ exec[e].pc = "orphan"
  /\ exec' = [exec EXCEPT ![e].pc = "done"]
  /\ UNCHANGED <<procs, worker, locks, tracked, doomed, net, session, history>>

---------------------------------------------------------------------------
(* The server *)

Heard(who, body, key) == IF who = None THEN {} ELSE {Answer(who, body, key)}
Inflight(k) == {e \in Exec : resv[e].pc = "inflight" /\ resv[e].sess = k}

\* Mutant: the session alone ends.
ReservationsKept(k, res) == res

\* drop_connection: the executions of a session that stops are reported lost.
DropConnection(k, res) ==
  [e \in Exec |-> IF res[e].pc = "inflight" /\ res[e].sess = k
                  THEN [res[e] EXCEPT !.pc = "lost"] ELSE res[e]]

Waiting(k) == waiter[k] # "free"

\* The session stops: a claim that waits is told, its token is unknown.
StopSession(k, res) ==
  /\ sess' = [sess EXCEPT ![k] = "dead"] /\ queue' = [queue EXCEPT ![k] = << >>]
  /\ waiter' = [waiter EXCEPT ![k] = "free"]
  /\ resv' = DropConnection(k, res)

Room(k) == Len(queue[k]) < MaxQueue

\* handle_cast deliver: to the claim that waits, into the queue, or over its end.
Deliver(k, body, e, res) ==
  IF Waiting(k)
  THEN /\ waiter' = [waiter EXCEPT ![k] = "free"]
       /\ replies' = replies \cup Heard(waiter[k], body, e)
       /\ dropped' = IF waiter[k] = None THEN dropped \cup {e} ELSE dropped
       /\ resv' = res /\ UNCHANGED <<sess, queue>>
  ELSE IF Room(k)
  THEN /\ queue' = [queue EXCEPT ![k] = Append(@, [body |-> body, key |-> e])]
       /\ resv' = res /\ UNCHANGED <<sess, waiter, replies, dropped>>
  ELSE StopSession(k, res) /\ UNCHANGED <<replies, dropped>>

Dispatch(e) ==
  /\ resv[e].pc = "none" /\ e \in script.execs
  /\ \E k \in Sess :
       /\ sess[k] = "live" /\ Cardinality(Inflight(k)) < Capacity
       /\ Deliver(k, "execute", e, [resv EXCEPT ![e] = [pc |-> "inflight", sess |-> k]])
  /\ UNCHANGED <<procs, worker, locks, executions, wire, sessions, script, faults, held>>

\* The Engine cancels an execution or lets it time out: the worker is told and
\* the reservation released.
Expire(e) ==
  /\ resv[e].pc = "inflight" /\ script.expire
  /\ Deliver(resv[e].sess, "cancel_execution", e, [resv EXCEPT ![e].pc = "retired"])
  /\ UNCHANGED <<procs, worker, locks, executions, wire, sessions, script, faults, held>>

ServeRegister(r) ==
  /\ r.kind = "register"
  /\ \/ /\ sessions < script.sessions
        /\ sessions' = sessions + 1 /\ sess' = [sess EXCEPT ![sessions + 1] = "live"]
        /\ replies' = replies \cup Heard(r.who, "ok", sessions + 1)
     \/ /\ sessions = script.sessions
        /\ replies' = replies \cup Heard(r.who, "lost", None) /\ UNCHANGED <<sessions, sess>>
     \/ /\ script.crash
        /\ replies' = replies \cup Heard(r.who, "error", None) /\ UNCHANGED <<sessions, sess>>
  /\ UNCHANGED <<queue, waiter, resv, dropped>>

ServeSchedule(r) ==
  /\ r.kind \in {"schedule", "unschedule"}
  /\ \E body \in {"ok"} \cup (IF script.crash THEN {"error"} ELSE {}) :
       replies' = replies \cup Heard(r.who, body, None)
  /\ UNCHANGED <<sess, queue, waiter, sessions, resv, dropped>>

ServeDelete(r) ==
  /\ r.kind = "delete"
  /\ replies' = replies \cup Heard(r.who, "closed", None)
                  \cup UNION {Heard(w, "unknown_worker", None) : w \in {waiter[r.sess]} \ {"free"}}
  /\ IF sess[r.sess] = "live" THEN StopSession(r.sess, resv)
     ELSE UNCHANGED <<sess, queue, waiter, resv>>
  /\ UNCHANGED <<sessions, dropped>>

\* handle_call claim.
ServeClaim(r) ==
  /\ r.kind = "claim"
  /\ \/ /\ sess[r.sess] # "live"
        /\ replies' = replies \cup Heard(r.who, "unknown_worker", None)
        /\ UNCHANGED <<queue, waiter, dropped>>
     \/ /\ sess[r.sess] = "live" /\ Waiting(r.sess)
        /\ replies' = replies \cup Heard(r.who, "claim_in_progress", None)
        /\ UNCHANGED <<queue, waiter, dropped>>
     \/ /\ sess[r.sess] = "live" /\ ~Waiting(r.sess) /\ queue[r.sess] # << >>
        /\ LET message == Head(queue[r.sess])
           IN  /\ replies' = replies \cup Heard(r.who, message.body, message.key)
               /\ dropped' = IF r.who = None THEN dropped \cup {message.key} ELSE dropped
        /\ queue' = [queue EXCEPT ![r.sess] = Tail(@)] /\ UNCHANGED waiter
     \/ /\ sess[r.sess] = "live" /\ ~Waiting(r.sess) /\ queue[r.sess] = << >>
        /\ waiter' = [waiter EXCEPT ![r.sess] = r.who]
        /\ UNCHANGED <<queue, replies, dropped>>
     \/ /\ script.crash
        /\ replies' = replies \cup Heard(r.who, "error", None)
        /\ UNCHANGED <<queue, waiter, dropped>>
  /\ UNCHANGED <<sess, sessions, resv>>

\* Server.started and Server.complete: only for the session that was sent it.
ServeEvent(r) ==
  /\ r.kind \in {"started", "complete"}
  /\ LET known == sess[r.sess] = "live" /\ r.key \in Inflight(r.sess)
     IN  /\ replies' = replies \cup Heard(r.who, IF known THEN "ok" ELSE "error", None)
         /\ resv' = IF known /\ r.kind = "complete" THEN [resv EXCEPT ![r.key].pc = "settled"]
                    ELSE resv
  /\ UNCHANGED <<sess, queue, waiter, sessions, dropped>>

Serve(r) ==
  /\ r \in wire /\ wire' = wire \ {r}
  /\ \/ ServeRegister(r) \/ ServeSchedule(r) \/ ServeDelete(r) \/ ServeClaim(r) \/ ServeEvent(r)
  /\ UNCHANGED <<procs, worker, locks, executions, script, faults, held>>

PollTimeout(k) ==
  /\ Waiting(k)
  /\ waiter' = [waiter EXCEPT ![k] = "free"]
  /\ replies' = replies \cup Heard(waiter[k], "empty", None)
  /\ UNCHANGED <<procs, worker, locks, executions, wire, sess, queue, sessions, resv, history>>

\* The idle timer of a session nobody claims from runs out.
Idle(k) ==
  /\ sess[k] = "live" /\ ~Waiting(k) /\ token # k
  /\ StopSession(k, resv)
  /\ UNCHANGED <<procs, worker, locks, executions, net, sessions, history>>

\* A session of the worker dies: it was idle too long, or the server restarted.
SessionDies(k) ==
  /\ sess[k] = "live" /\ token = k /\ faults < script.faults
  /\ faults' = faults + 1
  /\ StopSession(k, resv)
  /\ replies' = replies \cup UNION {Heard(w, "unknown_worker", None) : w \in {waiter[k]} \ {"free"}}
  /\ UNCHANGED <<procs, worker, locks, executions, wire, sessions, script, held, dropped>>

\* An exchange fails: before the server has the request, after it has answered,
\* or while a claim waits there.
Lose ==
  /\ faults < script.faults /\ faults' = faults + 1
  /\ \/ \E r \in wire :
          /\ wire' = wire \ {r}
          /\ replies' = replies \cup Heard(r.who, "lost", None)
          /\ dropped' = IF r.kind \in {"started", "complete"} THEN dropped \cup {r.key} ELSE dropped
          /\ UNCHANGED waiter
     \/ \E r \in replies :
          /\ replies' = (replies \ {r}) \cup {Answer(r.who, "lost", None)}
          /\ dropped' = dropped \cup ({r.who, r.key} \cap Exec)
          /\ UNCHANGED <<wire, waiter>>
     \/ \E k \in Sess :
          /\ waiter[k] = Loop
          /\ waiter' = [waiter EXCEPT ![k] = None]
          /\ replies' = replies \cup {Answer(Loop, "lost", None)}
          /\ UNCHANGED <<wire, dropped>>
  /\ UNCHANGED <<procs, worker, locks, executions, sess, queue, sessions, resv, script, held>>

---------------------------------------------------------------------------

RegisterStep(p) ==
  \/ RegisterEnters(p) \/ RegisterGathers(p) \/ RegisterReplied(p) \/ ScheduleReplied(p)
  \/ RevokeReplied(p)

CloseStep(p) == CloseEnters(p) \/ CloseGathers(p) \/ CloseReplied(p)

LoopStep ==
  \/ RegisterStep(Loop) \/ CloseStep(Loop) \/ SleepEnds \/ ClaimReplied \/ Thrown \/ Raises

CallStep(c) ==
  \/ RegisterStep(c) \/ CloseStep(c) \/ CancelReplied(c) \/ StopCloses(c) \/ CloseEnds(c)

Call(c) == RegisterCalled(c) \/ CancelCalled(c) \/ CloseCalled(c) \/ StopCalled(c)

ExecutionStep(e) ==
  \/ ExecutionStarts(e) \/ StartReplied(e) \/ ThreadReturns(e) \/ CoroutineEnds(e)
  \/ CompleteReplied(e) \/ Interrupted(e) \/ OrphanEnds(e)

ServerStep ==
  \/ \E r \in wire : Serve(r)
  \/ \E k \in Sess : PollTimeout(k) \/ Idle(k)

Next ==
  \/ ServeBegin \/ LoopStep
  \/ \E c \in Caller : Call(c) \/ CallStep(c)
  \/ \E e \in Exec : ExecutionStep(e) \/ Dispatch(e) \/ Expire(e)
  \/ ServerStep
  \/ Lose \/ \E k \in Sess : SessionDies(k)

Spec == Init /\ [][Next]_vars

\* Coroutines that can run do, user code ends, requests are answered and the
\* timers of the server run out.  asyncio.Lock serves its waiters in their order.
Fairness ==
  /\ WF_vars(LoopStep) /\ \A c \in Caller : WF_vars(CallStep(c))
  /\ \A e \in Exec : WF_vars(ExecutionStep(e))
  /\ \A p \in Proc \cup Exec : WF_vars(\E r \in wire : r.who = p /\ Serve(r))
  /\ \A k \in Sess : WF_vars(PollTimeout(k))
  /\ \A c \in Caller : SF_vars(RegisterEnters(c))

FairSpec == Spec /\ Fairness

---------------------------------------------------------------------------
(* Properties *)

\* Every variable keeps its type; a session never holds back more than it may.
TypeOK ==
  /\ {closing, withdrawn} \subseteq BOOLEAN /\ cancel \in {"no", "asked", "thrown"}
  /\ pc[Loop] \in {"off", "lock", "regwait", "regabort", "post", "sched", "revoke", "claim",
                   "sleep", "leave", "closelock", "gather", "closeabort", "delete"}
  /\ \A c \in Caller :
       /\ pc[c] \in {"idle", "lock", "regwait", "post", "sched", "revoke", "asking",
                     "stopping", "closelock", "gather", "delete", "await"}
       /\ at[c] \in 0..Len(script.calls[c])
  /\ token \in 0..sessions /\ sessions \in 0..script.sessions /\ waits \subseteq Caller
  /\ {regLock, closeLock} \subseteq Proc \cup {None}
  /\ tracked \cup doomed \cup dropped \subseteq Exec
  /\ \A e \in Exec :
       /\ exec[e].pc \in {"none", "created", "starting", "thread", "coro", "completing",
                          "orphan", "done"}
       /\ resv[e].pc \in {"none", "inflight", "settled", "retired", "lost"}
  /\ \A k \in Sess : sess[k] \in {"none", "live", "dead"} /\ Len(queue[k]) <= MaxQueue

\* When a session is held, every execution the worker still tracks is of that
\* session: register() has waited for the work of the one before.  A report names
\* the session that delivered its execution, never its replacement.
OldWorkSettled ==
  /\ token # 0 => \A e \in tracked : exec[e].sess = token
  /\ \A r \in wire : r.kind \in {"started", "complete"} => resv[r.key].sess = r.sess

\* While the worker serves, an execution the server counts as running there is
\* on its way to it or in its hands, unless an exchange about it has failed:
\* the loop, the queue of the session and the claims lose nothing on their own.
NothingDropped ==
  \A e \in Exec :
    resv[e].pc = "inflight" /\ resv[e].sess = token /\ ~closing /\ cancel = "no"
      /\ e \notin dropped =>
      \/ e \in tracked
      \/ \E i \in 1..Len(queue[token]) : queue[token][i] = [body |-> "execute", key |-> e]
      \/ Answer(Loop, "execute", e) \in replies

\* Nobody is left in serve_forever, register or close.
Rest == pc[Loop] = "off" /\ \A c \in Caller : pc[c] \in {"idle", "asking"}

\* A worker that has been closed holds no session, whatever was under way when
\* close() was called: a registration that ends later does not bring one back.
ClosedHoldsNothing == closing /\ Rest => token = 0

\* A worker that has been closed has revoked every session it held, unless an
\* exchange failed: whoever calls close(), and however often.
AlwaysRevokes == closing /\ Rest /\ faults = 0 => \A k \in held : sess[k] = "dead"

\* The same of a worker whose loop does not end with an error.
ClosedRevokes == ~script.crash => AlwaysRevokes

\* The server counts nothing as running in a session that has ended, however it
\* ended: by DELETE, by its idle timer, or because its queue was full.
NothingStranded == \A e \in Exec : resv[e].pc = "inflight" => sess[resv[e].sess] = "live"

\* Both of the above: what the server counts as running is with a live worker.
NothingLost == NothingDropped /\ NothingStranded

\* A synchronous call keeps its slot until it returns: there are never more of
\* them than the worker's capacity.
SlotsOccupied == Cardinality({e \in Exec : exec[e].pc = "thread"}) <= Capacity

\* Calls end: close() and the cleanup of serve_forever never wait for each other.
CallsEnd == \A c \in Caller : []<>(pc[c] = "idle")

\* A serving worker comes back after it has lost its session.
Recovers == []<>(pc[Loop] = "off" \/ sessions = script.sessions
                   \/ (token # 0 /\ sess[token] = "live"))
=============================================================================

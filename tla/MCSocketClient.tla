--------------------------- MODULE MCSocketClient ---------------------------
(***************************************************************************)
(* Instances of SocketClient.                                              *)
(***************************************************************************)
EXTENDS SocketClient

CONSTANTS c1, c2, e1, e2, t1, s1

Ask(op, key) == <<[op |-> op, key |-> key]>>
Async == [e \in Exec |-> "async"]
Threads == [e \in Exec |-> IF e = e1 THEN "mixed" ELSE "sync"]
Quiet == [calls |-> [c \in Caller |-> << >>], static |-> {}, execs |-> {}, kind |-> Async,
          expire |-> TRUE, timers |-> TRUE, conns |-> 2, faults |-> 0, polls |-> 0,
          copies |-> 0]
Calls(first, second) == [c \in Caller |-> IF c = c1 THEN first ELSE second]

\* A capability is withdrawn and restored while another caller enqueues.
Capabilities ==
  [Quiet EXCEPT !.calls = Calls(Ask("unregister", t1) \o Ask("register", t1), Ask("enqueue", None)),
                !.faults = 1]

\* A schedule is declared and cancelled.
Schedules ==
  [Quiet EXCEPT !.calls = Calls(Ask("schedule", s1) \o Ask("cancel", s1), << >>),
                !.faults = 1, !.conns = 3]

\* The schedule of a decorator is cancelled.
Decorated ==
  [Quiet EXCEPT !.calls = Calls(Ask("cancel", s1), << >>), !.static = {s1},
                !.faults = 1, !.conns = 3]

\* Executions outlive their connection.
Zombies ==
  [Quiet EXCEPT !.calls = Calls(Ask("start", None), << >>), !.execs = {e1, e2},
                !.kind = Threads, !.faults = 1]

\* The client is closed and used again.
Reopened ==
  [Quiet EXCEPT !.calls = Calls(Ask("enqueue", None) \o Ask("close", None) \o Ask("enqueue", None),
                                << >>),
                !.execs = {e1}, !.kind = Threads]

\* A caller waits for a result while an execution runs.
Waiting ==
  [Quiet EXCEPT !.calls = Calls(Ask("wait", None), << >>), !.execs = {e2}, !.polls = 1]

\* An execution is delivered twice.
Copied ==
  [Quiet EXCEPT !.calls = Calls(Ask("start", None), << >>), !.execs = {e1}, !.copies = 1]

MCScripts == {Capabilities, Schedules, Decorated, Zombies, Reopened, Waiting, Copied}

---------------------------------------------------------------------------
(* Instances for one question each *)

\* Nothing fails: a caller waits for a result while an execution runs.
MCWait ==
  {[Quiet EXCEPT !.calls = Calls(Ask("wait", None), << >>), !.execs = {e1},
                 !.expire = FALSE, !.timers = FALSE]}

\* Nothing fails but one of two executions.
MCExpiry ==
  {[Quiet EXCEPT !.calls = Calls(Ask("start", None), << >>), !.execs = {e1, e2},
                 !.timers = FALSE]}

\* Two callers schedule and cancel the same declaration.
MCContest ==
  {[Quiet EXCEPT !.calls = Calls(Ask("schedule", s1), Ask("cancel", s1)),
                 !.timers = FALSE, !.faults = 1]}
=============================================================================

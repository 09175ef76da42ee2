---------------------------- MODULE MCHttpWorker ----------------------------
(***************************************************************************)
(* Instances of HttpWorker.                                                *)
(***************************************************************************)
EXTENDS HttpWorker

CONSTANTS c1, c2, e1, e2

Threads == [e \in Exec |-> IF e = e1 THEN "mixed" ELSE "sync"]
Async == [e \in Exec |-> "async"]

Plain == [calls |-> [c \in Caller |-> << >>], serves |-> 1, static |-> FALSE, execs |-> {e1},
          kind |-> Async, expire |-> FALSE, crash |-> FALSE, sessions |-> 2, faults |-> 0]
By(first, second) == [c \in Caller |-> IF c = c1 THEN first ELSE second]

\* Exchanges fail and sessions die under executions that also time out.
Faulty == [Plain EXCEPT !.execs = {e1, e2}, !.kind = Threads, !.expire = TRUE, !.faults = 1]
Awaited == [Faulty EXCEPT !.kind = Async]

\* The worker is closed at any moment, and serves again.
Closed == [Plain EXCEPT !.calls = By(<<"close">>, << >>), !.execs = {e1, e2}, !.kind = Threads,
                        !.serves = 2]

\* The command line stops the worker while the application closes it.
Stopped == [Plain EXCEPT !.calls = By(<<"close">>, <<"stop">>), !.static = TRUE]

\* It stops while a lost session is being replaced.
Replaced == [Plain EXCEPT !.calls = By(<<"stop">>, << >>), !.kind = Threads, !.faults = 1]

\* A registration by the application meets close() and serve_forever.
Raced == [Plain EXCEPT !.calls = By(<<"register">>, <<"close">>), !.static = TRUE]

\* The schedule of a decorator is cancelled; the session is lost.
Withdrawn == [Plain EXCEPT !.calls = By(<<"cancel">>, << >>), !.static = TRUE, !.execs = {},
                           !.faults = 1]

\* The loop ends with an error, and the application closes the worker.
Crashed == [Plain EXCEPT !.calls = By(<<"close">>, << >>), !.static = TRUE, !.crash = TRUE]

MCScripts == {Faulty, Awaited, Closed, Stopped, Replaced, Raced, Withdrawn, Crashed}

---------------------------------------------------------------------------
(* Instances for one question each *)

\* A synchronous call outlives its execution.
MCSlots == {[Plain EXCEPT !.execs = {e1, e2}, !.kind = Threads, !.expire = TRUE]}

\* The application closes the worker while the loop, ended by an error, does.
MCTwoClosers == {[Plain EXCEPT !.calls = By(<<"close">>, << >>), !.crash = TRUE]}
=============================================================================

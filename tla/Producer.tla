------------------------------ MODULE Producer ------------------------------
(***************************************************************************)
(* A producer's requests from the call in Python to the effect in the      *)
(* Engine and back: a decorated task called with enqueue                   *)
(* (clients/python/tay/task.py), a job submitted by name (client.py), a    *)
(* schedule declared, cancelled and listed (schedules.py), with the        *)
(* server's handling of each (lib/tay/protocol/service.ex) and the         *)
(* worker's call of the function (execution.py).                           *)
(*                                                                         *)
(* Every caller makes one call, which goes through its stages at[c]:       *)
(*   "new" -> "ready" -> "sent" -> "served" -> "done"                      *)
(* "invalid" is an exception raised before anything was sent, "refused" an *)
(* error reply.  A listing goes back from "served" to "sent" for each page.*)
(* The transport is taken to deliver each request and reply once; what a   *)
(* lost connection does to them is the subject of SocketClient.            *)
(***************************************************************************)
EXTENDS TaskCall, Schedules

CONSTANTS
  Caller,
  Scripts,        \* [mode, calls, schedules]: mode and calls of a client, schedules there before
  Clock,          \* the times at which a request may reach the server
  MaxErrorBytes,  \* bytes of an error report, the same limit on both sides
  MaxTypeBytes,   \* bytes of an exception's type the server accepts (128)
  Overhead        \* bytes of JSON around a field of an error report

VARIABLES
  script,     \* the calls of this behaviour
  at,         \* the stage of each caller's call
  tasks,      \* the client's registry: name -> function and config
  message,    \* the request each caller sent
  jobs,       \* the job of each caller, as the Engine holds it
  schedules,  \* the Engine's schedules by id
  listing,    \* each caller's listing: cursor, what was collected, ids at its start
  report,     \* the error report of each caller's failed execution
  outcome     \* what result() gave each caller, or raised

vars == <<script, at, tasks, message, jobs, schedules, listing, report, outcome>>

Empty == [n \in {} |-> Null]
NoJob == [state |-> "none", settings |-> Empty, arguments |-> Empty, seen |-> Empty]
NoReport == [ok |-> TRUE, bytes |-> 0]

Call(c) == script.calls[c]
Op(c) == Call(c).op

Init ==
  /\ script \in Scripts
  /\ at = [c \in Caller |-> "new"]
  /\ tasks = [n \in {} |-> [function |-> "", config |-> Empty]]
  /\ message = [c \in Caller |-> [options |-> Empty, arguments |-> Empty]]
  /\ jobs = [c \in Caller |-> NoJob]
  /\ schedules = script.schedules
  /\ listing = [c \in Caller |-> [cursor |-> 0, next |-> 0, page |-> <<>>, collected |-> <<>>, from |-> {}]]
  /\ report = [c \in Caller |-> NoReport]
  /\ outcome = [c \in Caller |-> "none"]

Go(c, stage) == at' = [at EXCEPT ![c] = stage]

-----------------------------------------------------------------------------
(* Enqueueing. *)

(* task and register_task: the first registration of a function under a    *)
(* name stands, with its config.                                           *)
Decorate(c) ==
  LET call == Call(c)
      taken == call.name \in DOMAIN tasks IN
  /\ at[c] = "new" /\ Op(c) = "task"
  /\ IF validate_execution_options(call.config) /\ (taken => tasks[call.name].function = call.function)
       THEN /\ tasks' = IF taken THEN tasks
                        ELSE [n \in DOMAIN tasks \cup {call.name} |->
                                IF n = call.name THEN [function |-> call.function, config |-> call.config]
                                ELSE tasks[n]]
            /\ Go(c, "ready")
       ELSE Go(c, "invalid") /\ UNCHANGED tasks
  /\ UNCHANGED <<script, message, jobs, schedules, listing, report, outcome>>

(* The options of a task's enqueue: those of the call over the config's.   *)
TaskOptions(c) ==
  LET call == Call(c)
      keywords == [k \in OptionKeywords(call.sig, call.kw) |-> call.kw[k]]
  IN Override(tasks[call.name].config, Override(call.options, keywords))

(* Task.enqueue and Tay.enqueue, up to the request.                        *)
EnqueueTask(c) ==
  LET call == Call(c)
      keywords == [k \in OptionKeywords(call.sig, call.kw) |-> call.kw[k]]
      arguments == TaskKeywords(call.sig, call.kw) IN
  /\ at[c] = "ready"
  /\ IF /\ Mergeable(call.options, keywords)
        /\ validate_submission_options(Override(call.options, keywords))
        /\ ArgumentsOk(call.sig, call.args, arguments)
        /\ script.mode # "worker"
        /\ validate_submission_options(TaskOptions(c))
       THEN /\ message' = [message EXCEPT ![c] =
                 [options |-> TaskOptions(c),
                  arguments |-> arguments_from_call(call.sig, call.args, arguments)]]
            /\ Go(c, "sent")
       ELSE Go(c, "invalid") /\ UNCHANGED message
  /\ UNCHANGED <<script, tasks, jobs, schedules, listing, report, outcome>>

(* merge_enqueue_options: options, keywords and the durability argument,   *)
(* none of which may repeat a name of another.                             *)
NamedOptions(call) ==
  Override(Override(call.options, call.kw),
           [n \in IF IsNull(call.durability) THEN {} ELSE {"durability"} |-> call.durability])

NamedOnce(call) ==
  /\ Mergeable(call.options, call.kw)
  /\ ~IsNull(call.durability) => "durability" \notin DOMAIN call.options \cup DOMAIN call.kw

(* Tay.enqueue by name.                                                    *)
Enqueue(c) ==
  LET call == Call(c) IN
  /\ at[c] = "new" /\ Op(c) = "enqueue"
  /\ IF /\ script.mode # "worker"
        /\ NamedOnce(call)
        /\ validate_submission_options(NamedOptions(call))
       THEN message' = [message EXCEPT ![c].options = NamedOptions(call)] /\ Go(c, "sent")
       ELSE Go(c, "invalid") /\ UNCHANGED message
  /\ UNCHANGED <<script, tasks, jobs, schedules, listing, report, outcome>>

(* Service.enqueue.                                                        *)
ServeEnqueue(c) ==
  /\ at[c] = "sent" /\ Op(c) \in {"task", "enqueue"}
  /\ IF Parse(message[c].options)
       THEN /\ jobs' = [jobs EXCEPT ![c] =
                 [state |-> "available", settings |-> Canonical(message[c].options),
                  arguments |-> message[c].arguments, seen |-> Empty]]
            /\ Go(c, "served")
       ELSE Go(c, "refused") /\ UNCHANGED jobs
  /\ UNCHANGED <<script, tasks, message, schedules, listing, report, outcome>>

-----------------------------------------------------------------------------
(* Executing. *)

(* A text of an error report; a truncated one ends in a three-byte mark.   *)
Bytes(t) == t.chars + (IF t.cut THEN 2 ELSE 0)
truncate_text(t) ==
  IF t.chars <= 2 THEN [chars |-> 0, cut |-> FALSE]
  ELSE [chars |-> (IF t.chars \div 2 > 2 THEN t.chars \div 2 - 1 ELSE 1) + 1, cut |-> TRUE]

Fields == <<"traceback", "message", "type">>
ReportBytes(error) == 2 + FoldLeft(LAMBDA n, f : n + Overhead + Bytes(error[f]), 0, Fields)

(* bounded_error: shorten the first field that has text until it fits.     *)
RECURSIVE bounded_error(_)
bounded_error(error) ==
  IF ReportBytes(error) <= MaxErrorBytes THEN error
  ELSE LET long == SelectSeq(Fields, LAMBDA f : error[f].chars > 0) IN
       IF long = <<>> THEN Empty
       ELSE bounded_error([error EXCEPT ![Head(long)] = truncate_text(@)])

(* failure, in the server: an empty report and one too large are refused.  *)
FailureOk(error) ==
  /\ error # Empty
  /\ Bytes(error["type"]) <= MaxTypeBytes
  /\ ReportBytes(error) <= MaxErrorBytes

(* run_task: the function is called from the argument object; a call that  *)
(* does not bind, an exception, and a result that is no JSON value or too  *)
(* large are failures.  The job's last attempt; the Engine's retries       *)
(* before it repeat the same call.                                         *)
Run(c) ==
  LET call == Call(c)
      positional == PositionalOf(call.sig, jobs[c].arguments)
      keyword == KeywordsOf(call.sig, jobs[c].arguments)
      calls == Binds(call.sig, positional, keyword)
      seen == IF calls THEN Bound(call.sig, positional, keyword) ELSE Empty
      returns == calls /\ call.behaviour = "returns"
      error == bounded_error(call.error) IN
  /\ Op(c) = "task" /\ jobs[c].state = "available"
  /\ IF returns
       THEN jobs' = [jobs EXCEPT ![c].state = "completed", ![c].seen = seen] /\ UNCHANGED report
       ELSE /\ report' = [report EXCEPT ![c] =
                 [ok |-> FailureOk(error), bytes |-> IF error = Empty THEN 2 ELSE ReportBytes(error)]]
            /\ jobs' = [jobs EXCEPT ![c].state = IF FailureOk(error) THEN "discarded" ELSE @,
                                    ![c].seen = seen]
  /\ report[c] = NoReport
  /\ UNCHANGED <<script, at, tasks, message, schedules, listing, outcome>>

(* JobHandle.cancel by another caller, and the Engine's cancellation.      *)
CancelJob(c) ==
  LET d == Call(c).of IN
  /\ at[c] = "new" /\ Op(c) = "cancel_job" /\ at[d] \in {"served", "done"}
  /\ IF jobs[d].state = "available"
       THEN jobs' = [jobs EXCEPT ![d].state = "cancelled"] /\ Go(c, "done")
       ELSE Go(c, "refused") /\ UNCHANGED jobs
  /\ UNCHANGED <<script, tasks, message, schedules, listing, report, outcome>>

(* Service.result, and extract_result with _server_error_from_payload.     *)
ResultCode(state) ==
  CASE state = "completed" -> "result"
    [] state = "discarded" -> "task_failed"
    [] state = "cancelled" -> "task_cancelled"
    [] OTHER -> "result_not_ready"

server_error_of_any_task(code) ==
  IF code \in {"task_cancelled", "task_failed"} THEN "RemoteTaskError" ELSE "ServerError"

server_error_from_payload(code) ==
  CASE code = "task_cancelled" -> "JobCancelled"
    [] code = "result_missing" -> "ResultMissing"
    [] code = "task_failed" -> "RemoteTaskError"
    [] OTHER -> "ServerError"

Result(c) ==
  LET code == ResultCode(jobs[c].state) IN
  /\ at[c] = "served" /\ Op(c) \in {"task", "enqueue"}
  /\ outcome' = [outcome EXCEPT ![c] = IF code = "result" THEN code ELSE server_error_from_payload(code)]
  /\ IF code = "result_not_ready" THEN UNCHANGED at ELSE Go(c, "done")
  /\ UNCHANGED <<script, tasks, message, jobs, schedules, listing, report>>

-----------------------------------------------------------------------------
(* Schedules. *)

(* schedule and every.                                                     *)
Declare(c) ==
  /\ at[c] = "new" /\ Op(c) = "schedule"
  /\ IF script.mode # "worker" /\ DeclarationValid(Call(c).declaration)
       THEN Go(c, "sent") ELSE Go(c, "invalid")
  /\ UNCHANGED <<script, tasks, message, jobs, schedules, listing, report, outcome>>

(* Service.schedule, Coordinator.register and the register_schedule        *)
(* command: an active schedule with the same definition stays as it is.    *)
(* Every schedule here was registered by this path, so its membership is   *)
(* complete and a change of overlap is no conflict.                        *)
ServeSchedule(c) ==
  LET d == Call(c).declaration IN
  /\ at[c] = "sent" /\ Op(c) = "schedule"
  /\ \E now \in Clock :
       IF New(d, now)
         THEN /\ IF d.id \in DOMAIN schedules
                    /\ schedules[d.id].active /\ schedules[d.id].definition = Definition(d)
                   THEN UNCHANGED schedules
                   ELSE schedules' = [i \in DOMAIN schedules \cup {d.id} |->
                          IF i = d.id
                            THEN [definition |-> Definition(d), next |-> NextAt(d, now), active |-> TRUE]
                            ELSE schedules[i]]
              /\ Go(c, "done")
         ELSE Go(c, "refused") /\ UNCHANGED schedules
  /\ UNCHANGED <<script, tasks, message, jobs, listing, report, outcome>>

(* ScheduleHandle.cancel; a cancelled schedule stays in the table.         *)
CancelSchedule(c) ==
  LET id == Call(c).id IN
  /\ at[c] = "new" /\ Op(c) = "cancel"
  /\ IF id \in DOMAIN schedules
       THEN schedules' = [schedules EXCEPT ![id].active = FALSE] /\ Go(c, "done")
       ELSE Go(c, "refused") /\ UNCHANGED schedules
  /\ UNCHANGED <<script, tasks, message, jobs, listing, report, outcome>>

(* Scheduling.schedules: ask for the page after the cursor.                *)
ListSend(c) ==
  /\ at[c] = "new" /\ Op(c) = "list"
  /\ listing' = [listing EXCEPT ![c].from = DOMAIN schedules]
  /\ Go(c, "sent")
  /\ UNCHANGED <<script, tasks, message, jobs, schedules, report, outcome>>

ServePage(c) ==
  LET page == Page(DOMAIN schedules, listing[c].cursor) IN
  /\ at[c] = "sent" /\ Op(c) = "list"
  /\ listing' = [listing EXCEPT ![c].page = page.ids, ![c].next = page.next]
  /\ Go(c, "served")
  /\ UNCHANGED <<script, tasks, message, jobs, schedules, report, outcome>>

(* Collect the page; stop at the last, refuse a cursor that does not grow, *)
(* or ask for the next.                                                    *)
ListTake(c) ==
  LET l == listing[c] IN
  /\ at[c] = "served" /\ Op(c) = "list"
  /\ listing' = [listing EXCEPT ![c].collected = @ \o l.page,
                                ![c].cursor = IF l.next > l.cursor THEN l.next ELSE @]
  /\ Go(c, CASE l.next = 0 -> "done"
             [] l.next # 0 /\ l.next <= l.cursor -> "refused"
             [] OTHER -> "sent")
  /\ UNCHANGED <<script, tasks, message, jobs, schedules, report, outcome>>

-----------------------------------------------------------------------------
Settled ==
  \A c \in Caller :
    \/ at[c] \in {"done", "invalid", "refused"} \/ Op(c) = "none"
    \/ Op(c) = "cancel_job" /\ at[Call(c).of] \in {"invalid", "refused"}

Next ==
  \/ \E c \in Caller :
       \/ Decorate(c) \/ EnqueueTask(c) \/ Enqueue(c) \/ ServeEnqueue(c)
       \/ Run(c) \/ CancelJob(c) \/ Result(c)
       \/ Declare(c) \/ ServeSchedule(c) \/ CancelSchedule(c)
       \/ ListSend(c) \/ ServePage(c) \/ ListTake(c)
  \/ Settled /\ UNCHANGED vars

Spec == Init /\ [][Next]_vars

-----------------------------------------------------------------------------
(* Properties. *)

Stages == {"new", "ready", "sent", "served", "done", "invalid", "refused"}

(* Every variable has a value of its type.                                 *)
TypeOK ==
  /\ at \in [Caller -> Stages]
  /\ \A c \in Caller :
       /\ jobs[c].state \in {"none", "available", "completed", "discarded", "cancelled"}
       /\ outcome[c] \in {"none", "result", "JobCancelled", "RemoteTaskError", "ServerError"}
       /\ report[c].ok \in BOOLEAN
       /\ ToSet(listing[c].collected) \subseteq DOMAIN schedules
  /\ \A id \in DOMAIN schedules : schedules[id].next \in 0..MaxTime

(* The client and the server accept the same submissions: what the SDK     *)
(* lets through (job_options.py) the server never refuses as invalid       *)
(* (protocol/job_options.ex), and options the SDK rejects the server would *)
(* have refused too.                                                       *)
SubmissionsAgree ==
  \A c \in Caller :
    /\ Op(c) \in {"task", "enqueue"} => at[c] # "refused"
    /\ /\ Op(c) = "enqueue" /\ at[c] = "invalid"
       /\ script.mode # "worker" /\ NamedOnce(Call(c))
       => ~Parse(NamedOptions(Call(c)))

(* What the caller asked for an option: the keyword, then options=, then   *)
(* the durability argument, then the default of the decorator that named   *)
(* the task first.                                                         *)
Asked(c, name) ==
  LET call == Call(c) IN
  CASE name \in DOMAIN call.kw /\ (Op(c) = "task" => name \notin Names(call.sig)) -> call.kw[name]
    [] name \in DOMAIN call.options -> call.options[name]
    [] Op(c) = "enqueue" /\ name = "durability" -> call.durability
    [] Op(c) = "task" /\ name \in DOMAIN tasks[call.name].config -> tasks[call.name].config[name]
    [] OTHER -> Null

(* ms is the whole millisecond nearest to the seconds v, the later of two. *)
Nearest(v, ms) ==
  IF v.type = "float" THEN ms * 4 - v.num \in -1..2 ELSE ms = v.num * PerSecond

(* A job gets the settings its producer asked for: an option of the call   *)
(* overrides the decorator's default, a time in seconds becomes the        *)
(* nearest millisecond, a parameter named like an option sets nothing.     *)
SettingsKept ==
  \A c \in Caller : jobs[c].state # "none" =>
    LET set == jobs[c].settings
        Timed(seconds, ms, value) ==
          IF ~IsNull(Asked(c, seconds)) THEN Nearest(Asked(c, seconds), value.num)
          ELSE IsNull(Asked(c, ms)) \/ value = Asked(c, ms)
    IN /\ set.retries.num = IF IsNull(Asked(c, "retries")) THEN 0 ELSE Asked(c, "retries").num
       /\ set.durability = Asked(c, "durability")
       /\ set.queue = IF IsNull(Asked(c, "queue")) THEN Text("default") ELSE Asked(c, "queue")
       /\ set.at = Asked(c, "run_at")
       /\ Timed("delay", "delay_ms", set.delay)
       /\ Timed("timeout", "timeout_ms", set.timeout)

Ran(c) == Op(c) = "task" /\ (jobs[c].state \in {"completed", "discarded"} \/ ~report[c].ok)

(* The arguments the function would have seen if it had been called where  *)
(* enqueue was.                                                            *)
Intended(c) == Bound(Call(c).sig, Call(c).args, TaskKeywords(Call(c).sig, Call(c).kw))

(* Varargs that follow a parameter the worker passes by name.              *)
Displaced(c) ==
  LET sig == Call(c).sig IN
  /\ Has(sig, "POSITIONAL_OR_KEYWORD")
  /\ Len(Call(c).args) > Len(Positional(sig))

(* A call that was submitted reaches the function with every argument in   *)
(* its place, whatever mixture of positional, keyword and default          *)
(* arguments it used (_arguments_from_call, _call_from_arguments).         *)
ArgumentsAlwaysArrive == \A c \in Caller : Ran(c) => jobs[c].seen = Intended(c)

(* The same, except for varargs displaced by parameters passed by name.    *)
ArgumentsArrive ==
  \A c \in Caller : Ran(c) /\ ~Displaced(c) => jobs[c].seen = Intended(c)

(* What result() tells the producer is what happened: a value only if the  *)
(* function returned one, RemoteTaskError only if it did not and the       *)
(* report of it was accepted, JobCancelled only if somebody cancelled; and *)
(* a bounded report is always small enough to be accepted.                 *)
OutcomesTrue ==
  \A c \in Caller :
    /\ outcome[c] = "result" => Call(c).behaviour = "returns" /\ ~Displaced(c)
    /\ outcome[c] = "RemoteTaskError" => Call(c).behaviour # "returns" \/ Displaced(c)
    /\ outcome[c] = "JobCancelled" =>
         \E d \in Caller : Op(d) = "cancel_job" /\ Call(d).of = c /\ at[d] = "done"
    /\ Op(c) = "task" /\ Bytes(Call(c).error["type"]) <= MaxTypeBytes => report[c].ok

(* Declarations the SDK cannot judge or judges by a looser limit: the      *)
(* syntax of a cron expression, a first occurrence that depends on the     *)
(* server's clock and calendar, and an interval beyond the last whole unit.*)
BeyondClient(d) ==
  \/ d.kind = "cron" /\ (d.cron.text # "cron" \/ ~IsNull(d.start_at))
  \/ ~IsNull(d.delay)
  \/ d.kind = "every" /\ \E unit \in Present(d.every) :
       Quarters(d.every[unit], unit) > 4 * Multiplier(unit) * (MaxTime \div Multiplier(unit))

(* The SDK never raises on a declaration the server would have taken, and  *)
(* the server refuses none the SDK accepted except where its clock,        *)
(* calendar or cron parser decides (schedules.py, schedule.ex).            *)
DeclarationsAgree ==
  \A c \in Caller : Op(c) = "schedule" =>
    /\ at[c] = "invalid" /\ script.mode # "worker" => \A now \in Clock : ~New(Call(c).declaration, now)
    /\ at[c] = "refused" => BeyondClient(Call(c).declaration)

(* Client and server judge every request alike, jobs and schedules, except *)
(* where only the server can judge (job_options.py, schedules.py).         *)
SidesAgree == SubmissionsAgree /\ DeclarationsAgree

(* A job runs as its producer asked: with the settings and the arguments   *)
(* of the call, through binding, encoding and decoding (task.py).          *)
JobsAsAsked == SettingsKept /\ ArgumentsArrive

(* A finished listing holds, in order and once each, every schedule that   *)
(* was there when it began, whatever was declared or cancelled between its *)
(* pages, and no listing fails on the server's cursors (schedules,         *)
(* ScheduleIndex.page).                                                    *)
ListingComplete ==
  \A c \in Caller : Op(c) = "list" =>
    LET ids == listing[c].collected IN
    /\ \A i, j \in DOMAIN ids : i < j => ids[i] < ids[j]
    /\ at[c] # "refused"
    /\ at[c] = "done" => listing[c].from \subseteq ToSet(ids)
=============================================================================

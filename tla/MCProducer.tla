----------------------------- MODULE MCProducer -----------------------------
(***************************************************************************)
(* Instances of Producer: one call each for every combination of options,  *)
(* of declaration fields and of ways to pass arguments, and a few pairs of *)
(* calls that meet on a task, a job or the schedule table.                 *)
(***************************************************************************)
EXTENDS Producer

MCFactor == [seconds |-> 1, minutes |-> 3, hours |-> 5, days |-> 7]
MCSize == [i \in 1..6 |-> IF i = 3 THEN 9 ELSE 2]

x == Text("key")
y == Text("hex")
Object == [type |-> "object", num |-> 0, text |-> "bad"]
Infinite == [type |-> "inf", num |-> 0, text |-> "bad"]
True == [type |-> "bool", num |-> 1, text |-> "bad"]

(* The mappings that give each name one of its values, or leave it out.    *)
Mappings(choices) ==
  UNION {{f \in [names -> UNION {choices[n] : n \in names}] : \A n \in names : f[n] \in choices[n]}
         : names \in SUBSET DOMAIN choices}

Identities == Mappings([id |-> {Null, x, y, True}, submission_id |-> {Null, x, Text("long"), Text("bad")}])
Delays ==
  Mappings([delay |-> {Null, True, Infinite, IntValue(-1), IntValue(12), IntValue(13)}
                        \cup {FloatValue(q) : q \in 0..6 \cup {-1, 199, 200, 201}},
            delay_ms |-> {Null, IntValue(0), IntValue(MaxTime), IntValue(MaxTime + 1), FloatValue(4)},
            run_at |-> {Null, IntValue(MaxTime), IntValue(-1)}])
Timeouts ==
  Mappings([timeout |-> {Null, x, IntValue(0), IntValue(2), IntValue(3)}
                          \cup {FloatValue(q) : q \in 0..3 \cup {38, 39, 40, 41}},
            timeout_ms |-> {Null, IntValue(0), IntValue(1), IntValue(MaxTimeout), IntValue(MaxTimeout + 1)}])
Others ==
  Mappings([retries |-> {Null, True, IntValue(0), IntValue(MaxRetries), IntValue(MaxRetries + 1)},
            backoff |-> {Null, Text("exponential"), x},
            queue |-> {Null, x, Text("long"), Text("bad")},
            durability |-> {Null, Text("volatile"), x}])
Unknown == {[n \in {"other"} |-> Null]}

Named(options, kw, durability) ==
  [op |-> "enqueue", options |-> options, kw |-> kw, durability |-> durability]

Enqueues ==
  {Named(o, Empty, Null) : o \in Identities \cup Delays \cup Timeouts \cup Others \cup Unknown}
  \cup {Named(o, k, d) : o, k \in Mappings([retries |-> {IntValue(1)}, durability |-> {Null, Text("persistent")}]),
                         d \in {Null, Text("volatile")}}

-----------------------------------------------------------------------------
Par(name, kind, default) == [name |-> name, kind |-> kind, default |-> default]
PO(name) == Par(name, "POSITIONAL_ONLY", NoDefault)
PK(name) == Par(name, "POSITIONAL_OR_KEYWORD", NoDefault)
PKD(name) == Par(name, "POSITIONAL_OR_KEYWORD", IntValue(5))
KO(name, default) == Par(name, "KEYWORD_ONLY", default)
Star == Par("rest", "VAR_POSITIONAL", NoDefault)
StarStar == Par("extra", "VAR_KEYWORD", NoDefault)

Signatures ==
  {<<>>, <<PK("a"), PKD("b")>>, <<PO("a"), PKD("b"), KO("k", NoDefault)>>,
   <<PO("a"), Star, KO("k", IntValue(6))>>, <<PK("a"), StarStar>>, <<Star, StarStar>>,
   <<PKD("retries"), KO("k", IntValue(6))>>, <<PK("a"), KO("k", Object)>>}
Varargs == <<PK("a"), Star>>

Failure(traceback, msg, type) ==
  [n \in {"traceback", "message", "type"} |->
     [chars |-> CASE n = "traceback" -> traceback [] n = "message" -> msg [] n = "type" -> type, cut |-> FALSE]]

TaskCalls(signatures, argss, kws, options, configs, behaviours, errors) ==
  [op : {"task"}, name : {"t"}, function : {"f"}, sig : signatures, args : argss, kw : kws,
   options : options, config : configs, behaviour : behaviours, error : errors]

Arguments == {<<>>, <<x>>, <<x, y>>, <<x, y, IntValue(7)>>, <<Object>>}
KeywordArguments ==
  Mappings([a |-> {IntValue(3)}, b |-> {IntValue(4)}, k |-> {x}, retries |-> {IntValue(1)}])
Small == Failure(1, 1, 1)
Config == [n \in {"retries"} |-> IntValue(2)]

Calls ==
  TaskCalls(Signatures, Arguments, KeywordArguments, {Empty}, {Config}, {"returns"}, {Small})
  \cup TaskCalls({<<PKD("retries")>>, <<PK("a")>>}, {<<x>>},
         Mappings([retries |-> {Null, IntValue(0)}, durability |-> {Text("volatile")}]),
         Mappings([retries |-> {IntValue(1)}, durability |-> {Null}]),
         Mappings([retries |-> {IntValue(2), IntValue(9)}, durability |-> {Text("persistent")}]),
         {"returns"}, {Small})
  \cup TaskCalls({<<PK("a")>>}, {<<x>>}, {Empty}, {Empty}, {Config}, {"raises", "unsafe"},
         {Failure(t, m, n) : t, m \in 0..9, n \in {1, 3, 4, 9}})

-----------------------------------------------------------------------------
Every(unit, value) == [n \in {unit} |-> value]
Declaration(kind, cron, every, catch, overlap, delay, start) ==
  [kind |-> kind, id |-> 2, cron |-> cron, every |-> every, timezone |-> Text("offset"), catch_up |-> catch,
   overlap |-> overlap, delay |-> delay, start_at |-> start, options |-> Empty]

Starts == {<<Null, Null>>, <<IntValue(3), Null>>, <<Null, IntValue(3)>>, <<IntValue(9), Null>>,
           <<FloatValue(150), Null>>, <<FloatValue(-1), Null>>, <<Null, IntValue(MaxTime)>>,
           <<Null, IntValue(20)>>, <<Null, IntValue(MaxTime + 1)>>, <<IntValue(0), IntValue(0)>>,
           <<Infinite, Null>>, <<Null, FloatValue(4)>>}

Intervals ==
  {Every(u, v) : u \in Units, v \in {IntValue(0), IntValue(1), IntValue(2), Infinite, True}
                                     \cup {FloatValue(q) : q \in {0, 1, 2, 16, 26, 28, 29, 199, 200, 201}}}
  \cup {Every("other", IntValue(1)), [seconds |-> IntValue(1), days |-> IntValue(1)],
        [seconds |-> Null, minutes |-> IntValue(1)], [seconds |-> Null], Empty}

Declarations ==
  {Declaration("every", Null, e, Text("latest"), Null, s[1], s[2]) : e \in Intervals, s \in {<<Null, Null>>}}
  \cup {Declaration("every", Null, Every("seconds", IntValue(1)), Text("all"), Text("allow"), s[1], s[2]) : s \in Starts}
  \cup {Declaration("cron", e, Empty, Text("latest"), Null, s[1], s[2]) :
          e \in {Text("cron"), Text("never"), x, Text("bad"), IntValue(1)}, s \in Starts}
  \cup {Declaration("cron", Text("cron"), Empty, c, o, Null, Null) :
          c \in {Null, Text("all"), x}, o \in {Null, Text("skip"), x, True}}
  \cup {[Declaration("cron", Text("cron"), Empty, Text("latest"), Null, Null, Null) EXCEPT !.timezone = t] :
          t \in {Null, x, Text("offset")}}
  \cup {[Declaration("cron", Text("cron"), Empty, Text("latest"), Null, Null, Null) EXCEPT !.options = o] :
          o \in Others \cup Unknown}

-----------------------------------------------------------------------------
NoCall == [op |-> "none"]
NoSchedules == [i \in {} |-> Null]
Alone(calls, modes) ==
  {[mode |-> m, calls |-> [c \in Caller |-> IF c = 1 THEN call ELSE NoCall], schedules |-> NoSchedules] :
     call \in calls, m \in modes}

Simple == CHOOSE call \in TaskCalls({<<PK("a")>>}, {<<x>>}, {Empty}, {Empty}, {Config}, {"returns"}, {Small}) : TRUE
Hourly(id, overlap) ==
  [op |-> "schedule",
   declaration |-> [Declaration("every", Null, Every("hours", IntValue(1)), Text("latest"), overlap, Null, Null)
                      EXCEPT !.id = id]]
Before(ids) ==
  [i \in ids |-> [definition |-> Definition(Hourly(i, Null).declaration), next |-> 1, active |-> TRUE]]
Listing(ids, first, second) ==
  [mode |-> "client", schedules |-> Before(ids),
   calls |-> [c \in Caller |-> IF c = 1 THEN [op |-> "list"] ELSE IF c = 2 THEN first ELSE second]]

Pairs ==
  {[mode |-> "embedded", schedules |-> NoSchedules,
    calls |-> [c \in Caller |-> IF c = 1 THEN Simple ELSE IF c = 2 THEN second ELSE third]] :
     second \in {[Simple EXCEPT !.config = Empty], [Simple EXCEPT !.function = "g"],
                 [Simple EXCEPT !.name = "u", !.kw = [retries |-> IntValue(0)]]},
     third \in {[op |-> "cancel_job", of |-> 1], [op |-> "cancel_job", of |-> 2]}}
  \cup {Listing(ids, Hourly(2, Null), second) :
          ids \in {1..5, {1, 3, 5}, {1, 2, 4}, {}},
          second \in {Hourly(6, Null), Hourly(4, Text("allow")), [op |-> "cancel", id |-> 3], [op |-> "list"]}}

MCScripts ==
  Alone(Enqueues, {"client"}) \cup Alone(Calls, {"embedded"})
  \cup Alone({[op |-> "schedule", declaration |-> d] : d \in Declarations}, {"client"})
  \cup Alone({Named(Empty, Empty, Null), Simple, Hourly(1, Null)}, {"worker"})
  \cup Pairs

(* A function with varargs after a parameter that can be named.            *)
MCVarargs ==
  Alone(TaskCalls({Varargs}, Arguments, {Empty}, {Empty}, {Config}, {"returns"}, {Small}), {"embedded"})
=============================================================================

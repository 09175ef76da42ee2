----------------------------- MODULE JobOptions -----------------------------
(***************************************************************************)
(* The submission options of a job, validated twice by code that was       *)
(* written twice: by the Python SDK before a request is sent               *)
(* (clients/python/tay/job_options.py) and by the server when it arrives   *)
(* (lib/tay/protocol/job_options.ex).  The operators that keep a Python    *)
(* name are the client's; Parse and the operators it uses are the          *)
(* server's.                                                               *)
(*                                                                         *)
(* A value is a record: the JSON type, a number and a text class.  An int  *)
(* is its own number.  A float counts quarters of a millisecond, so that   *)
(* every way of rounding (.25 down, .5 up, .75 up) has a representative.   *)
(* A text is one of the classes the two validators tell apart: "hex" is a  *)
(* non-zero lowercase 128-bit ID, "key" any other short text, "long" has   *)
(* 129 to 255 bytes, "bad" is empty, too long or holds a NUL.  "inf" is a  *)
(* float that is not finite, "object" a Python object JSON does not have;  *)
(* a "digest" is the ID the server derives from a submission_id.  The last *)
(* seven classes are the words and expressions of schedules.               *)
(***************************************************************************)
EXTENDS Integers

CONSTANTS
  PerSecond,      \* milliseconds in a second
  MaxTime,        \* the largest time in milliseconds (2^63 - 1)
  MaxTimeout,     \* the longest timeout in milliseconds (a day)
  DefaultTimeout, \* the timeout of a job that names none (30 s)
  MaxRetries      \* 65534

ASSUME LimitsAssumption ==
  /\ PerSecond \in Nat \ {0}
  /\ MaxTime \in Nat
  /\ MaxTimeout \in Nat
  /\ DefaultTimeout \in 1..MaxTimeout
  /\ MaxRetries \in Nat

Types == {"null", "bool", "int", "float", "inf", "str", "object", "digest"}
Texts == {"hex", "key", "long", "bad", "exponential", "persistent", "volatile",
          "default", "cron", "never", "offset", "latest", "all", "allow", "skip"}
Value == [type : Types, num : Int, text : Texts]

Null == [type |-> "null", num |-> 0, text |-> "bad"]
IsNull(v) == v.type = "null"
IntValue(n) == [type |-> "int", num |-> n, text |-> "bad"]
FloatValue(q) == [type |-> "float", num |-> q, text |-> "bad"]
Text(t) == [type |-> "str", num |-> 0, text |-> t]

ENQUEUE_OPTION_NAMES ==
  {"id", "submission_id", "delay", "delay_ms", "run_at", "retries",
   "timeout", "timeout_ms", "backoff", "queue", "durability"}

(* An options mapping is a function from option names; "other" stands for  *)
(* every name the protocol does not know.                                  *)
OptionMaps == UNION {[names -> Value] : names \in SUBSET (ENQUEUE_OPTION_NAMES \cup {"other"})}

Get(o, name) == IF name \in DOMAIN o THEN o[name] ELSE Null
Given(o, name) == ~IsNull(Get(o, name))

IsNumber(v) == v.type \in {"int", "float"}
IsText(v) == v.type = "str"

-----------------------------------------------------------------------------
(* The client. *)

identifier(v) == IsText(v) /\ v.text \notin {"bad", "long"}

(* A rounding that cuts the fraction off.                                  *)
ScaledDown(v) == IF v.type = "float" THEN v.num \div 4 ELSE v.num * PerSecond

(* _milliseconds: floor, plus one from .5 on; an int is scaled exactly.    *)
Scaled(v) ==
  IF v.type = "float" THEN v.num \div 4 + (IF v.num % 4 >= 2 THEN 1 ELSE 0)
                      ELSE v.num * PerSecond

milliseconds(v, maximum, minimum) ==
  /\ IsNumber(v) /\ v.num >= 0
  /\ IF v.type = "float" THEN v.num <= maximum * 4 ELSE v.num * PerSecond <= maximum
  /\ minimum <= Scaled(v) /\ Scaled(v) <= maximum

validate_durability(v) == IsNull(v) \/ (IsText(v) /\ v.text \in {"persistent", "volatile"})

validate_execution_options(o) ==
  /\ LET retries == Get(o, "retries")
     IN IsNull(retries) \/ (retries.type = "int" /\ retries.num \in 0..MaxRetries)
  /\ LET backoff == Get(o, "backoff")
     IN IsNull(backoff) \/ (IsText(backoff) /\ backoff.text = "exponential")
  /\ validate_durability(Get(o, "durability"))

ValidIdentity(o) ==
  /\ Given(o, "id") => IsText(o["id"]) /\ o["id"].text = "hex"
  /\ Given(o, "submission_id") => identifier(o["submission_id"]) /\ ~Given(o, "id")

ValidTimes(o) ==
  /\ Given(o, "delay") => milliseconds(o["delay"], MaxTime, 0)
  /\ Given(o, "delay_ms") => o["delay_ms"].type = "int" /\ o["delay_ms"].num \in 0..MaxTime
  /\ ~(Given(o, "delay") /\ Given(o, "delay_ms"))
  /\ Given(o, "run_at") =>
       /\ o["run_at"].type = "int" /\ o["run_at"].num \in 0..MaxTime
       /\ ~Given(o, "delay") /\ ~Given(o, "delay_ms")
  /\ Given(o, "timeout") => milliseconds(o["timeout"], MaxTimeout, 1)
  /\ Given(o, "timeout_ms") => o["timeout_ms"].type = "int" /\ o["timeout_ms"].num \in 1..MaxTimeout
  /\ ~(Given(o, "timeout") /\ Given(o, "timeout_ms"))

validate_submission_options(o) ==
  /\ DOMAIN o \subseteq ENQUEUE_OPTION_NAMES
  /\ validate_execution_options(o)
  /\ ValidIdentity(o)
  /\ ValidTimes(o)
  /\ "queue" \in DOMAIN o => IsText(o["queue"]) /\ o["queue"].text # "bad"
  /\ "retries" \in DOMAIN o => ~IsNull(o["retries"])

(* merge_enqueue_options: a name given both ways is an error, null or not. *)
Mergeable(options, keywords) == DOMAIN options \cap DOMAIN keywords = {}
OverrideByDefaults(defaults, given) ==
  [name \in DOMAIN defaults \cup DOMAIN given |->
     IF name \in DOMAIN defaults THEN defaults[name] ELSE given[name]]
Override(defaults, given) ==
  [name \in DOMAIN defaults \cup DOMAIN given |->
     IF name \in DOMAIN given THEN given[name] ELSE defaults[name]]

-----------------------------------------------------------------------------
(* The server.  Each part of the parse accepts or refuses; Canonical is    *)
(* what an accepted parse hands to the Engine, where Null is an absent     *)
(* value and a time is in milliseconds.                                    *)

Round(v) == IF v.type = "float" THEN (v.num + 2) \div 4 ELSE v.num * PerSecond

MillisecondsOk(v, minimum, maximum) ==
  /\ IF v.type = "float" THEN v.num <= maximum * 4 ELSE v.num * PerSecond <= maximum
  /\ Round(v) >= minimum /\ Round(v) <= maximum

IdentityOk(o) ==
  LET id == Get(o, "id")  key == Get(o, "submission_id") IN
  \/ IsNull(id) /\ IsNull(key)
  \/ IsNull(key) /\ IsText(id) /\ id.text = "hex"
  \/ IsNull(id) /\ IsText(key) /\ key.text \notin {"bad", "long"}

DelayOk(o) ==
  LET delay == Get(o, "delay")  ms == Get(o, "delay_ms") IN
  \/ IsNull(delay) /\ IsNull(ms)
  \/ IsNull(ms) /\ IsNumber(delay) /\ delay.num >= 0 /\ MillisecondsOk(delay, 0, MaxTime)
  \/ IsNull(delay) /\ ms.type = "int" /\ ms.num >= 0 /\ ms.num <= MaxTime

RunAtOk(o) ==
  LET at == Get(o, "run_at") IN
  \/ IsNull(at)
  \/ /\ ~Given(o, "delay") /\ ~Given(o, "delay_ms")
     /\ at.type = "int" /\ at.num >= 0 /\ at.num <= MaxTime

RetriesOk(o) ==
  "retries" \in DOMAIN o =>
    o["retries"].type = "int" /\ o["retries"].num >= 0 /\ o["retries"].num <= MaxRetries

TimeoutOk(o) ==
  LET timeout == Get(o, "timeout")  ms == Get(o, "timeout_ms") IN
  \/ IsNull(timeout) /\ IsNull(ms)
  \/ IsNull(ms) /\ IsNumber(timeout) /\ timeout.num > 0 /\ MillisecondsOk(timeout, 1, MaxTimeout)
  \/ IsNull(timeout) /\ ms.type = "int" /\ ms.num \in 1..MaxTimeout

BackoffOk(o) ==
  LET backoff == Get(o, "backoff") IN
  IsNull(backoff) \/ (IsText(backoff) /\ backoff.text = "exponential")

QueueOk(o) == "queue" \in DOMAIN o => IsText(o["queue"]) /\ o["queue"].text # "bad"

DurabilityOk(o) ==
  LET durability == Get(o, "durability") IN
  IsNull(durability) \/ (IsText(durability) /\ durability.text \in {"persistent", "volatile"})

Parse(o) ==
  /\ DOMAIN o \subseteq ENQUEUE_OPTION_NAMES
  /\ IdentityOk(o) /\ DelayOk(o) /\ RunAtOk(o) /\ RetriesOk(o) /\ TimeoutOk(o)
  /\ BackoffOk(o) /\ QueueOk(o) /\ DurabilityOk(o)

(* The time an option pair sets, from its seconds or its milliseconds.     *)
Time(o, seconds, ms) ==
  IF Given(o, seconds) THEN IntValue(Round(o[seconds])) ELSE Get(o, ms)

Canonical(o) ==
  [id |-> IF Given(o, "submission_id") THEN [o["submission_id"] EXCEPT !.type = "digest"]
                                       ELSE Get(o, "id"),
   retries |-> IF "retries" \in DOMAIN o THEN o["retries"] ELSE IntValue(0),
   timeout |-> IF Given(o, "timeout") \/ Given(o, "timeout_ms")
                 THEN Time(o, "timeout", "timeout_ms") ELSE IntValue(DefaultTimeout),
   queue |-> IF "queue" \in DOMAIN o THEN o["queue"] ELSE Text("default"),
   delay |-> Time(o, "delay", "delay_ms"),
   at |-> Get(o, "run_at"),
   durability |-> Get(o, "durability")]

=============================================================================

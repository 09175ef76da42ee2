----------------------------- MODULE Schedules ------------------------------
(***************************************************************************)
(* A schedule declaration, validated by the Python SDK                     *)
(* (clients/python/tay/schedules.py) and built by the server               *)
(* (lib/tay/schedule.ex, lib/tay/schedule/coordinator.ex), and the pages   *)
(* in which the server lists schedules (lib/tay/state/schedule_index.ex).  *)
(*                                                                         *)
(* A declaration is a record: kind "cron" or "every", cron (a value),      *)
(* every (a function from unit names to values), id, the values timezone,  *)
(* catch_up, overlap, delay and start_at, of which the last three are left *)
(* out of the request when Null, and the mapping options.  The text "cron" *)
(* is an expression that matches every minute, "never" one that parses and *)
(* matches no date, any other text does not parse.  "offset" is an offset  *)
(* from UTC both sides can read.                                           *)
(***************************************************************************)
EXTENDS JobOptions, Sequences, SequencesExt, FiniteSets

CONSTANTS
  Factor,       \* seconds in each unit of an interval
  MaxDate,      \* the last time the calendar of the server can represent
  PageLimit,    \* schedules in a page (50)
  PageBytes,    \* bytes of schedules in a page, unless one alone is larger
  Size          \* bytes of a schedule, by its id

Units == {"seconds", "minutes", "hours", "days"}

ASSUME ScheduleAssumption ==
  /\ Factor \in [Units -> Nat \ {0}]
  /\ MaxDate \in 0..MaxTime
  /\ PageLimit \in Nat \ {0}
  /\ PageBytes \in Nat

Multiplier(unit) == Factor[unit] * PerSecond
Minute == Multiplier("minutes")

(* The units of an interval that have an amount.                           *)
Present(every) == {unit \in DOMAIN every : ~IsNull(every[unit])}

-----------------------------------------------------------------------------
(* The client. *)

validate_cron(v) == IsText(v) /\ v.text \notin {"bad", "long"}

(* An amount in quarters of a millisecond.                                 *)
Quarters(v, unit) ==
  IF v.type = "float" THEN v.num * Factor[unit] ELSE v.num * Multiplier(unit) * 4

validate_every_unbounded(every) ==
  /\ DOMAIN every \subseteq Units
  /\ Cardinality(Present(every)) = 1
  /\ \A unit \in Present(every) :
       /\ IsNumber(every[unit]) /\ every[unit].num > 0
       /\ Quarters(every[unit], unit) <= MaxTime * 4

validate_every(every) ==
  /\ DOMAIN every \subseteq Units
  /\ Cardinality(Present(every)) = 1
  /\ \A unit \in Present(every) :
       /\ IsNumber(every[unit]) /\ every[unit].num > 0
       /\ 2 <= Quarters(every[unit], unit) /\ Quarters(every[unit], unit) <= MaxTime * 4

validate_schedule_options(d) ==
  /\ IsText(d.timezone) /\ d.timezone.text = "offset"
  /\ IsText(d.catch_up) /\ d.catch_up.text \in {"latest", "all"}
  /\ IsNull(d.overlap) \/ (IsText(d.overlap) /\ d.overlap.text \in {"allow", "skip"})
  /\ IsNull(d.delay) \/
       /\ IsNumber(d.delay) /\ d.delay.num >= 0
       /\ IF d.delay.type = "float" THEN d.delay.num <= MaxTime * 4
                                    ELSE d.delay.num * PerSecond <= MaxTime
  /\ IsNull(d.start_at) \/ (d.start_at.type = "int" /\ d.start_at.num \in 0..MaxTime)
  /\ IsNull(d.delay) \/ IsNull(d.start_at)

(* schedule and every, up to the request.                                  *)
DeclarationValid(d) ==
  /\ IF d.kind = "cron" THEN validate_cron(d.cron) ELSE validate_every(d.every)
  /\ validate_schedule_options(d)
  /\ validate_submission_options(d.options)

-----------------------------------------------------------------------------
(* The server, at the time now. *)

IntervalOk(every) ==
  /\ Cardinality(Present(every)) = 1
  /\ \A unit \in Present(every) :
       LET amount == every[unit]  whole == MaxTime \div Multiplier(unit) IN
       /\ unit \in Units /\ IsNumber(amount) /\ amount.num > 0
       /\ IF amount.type = "float" THEN amount.num <= whole * PerSecond * 4 ELSE amount.num <= whole
       /\ (Quarters(amount, unit) + 2) \div 4 > 0

Interval(every) ==
  LET unit == CHOOSE u \in Present(every) : TRUE IN (Quarters(every[unit], unit) + 2) \div 4

FirstAtOk(d, now) ==
  LET whole == (MaxTime - now) \div PerSecond IN
  \/ IsNull(d.delay) /\ IsNull(d.start_at)
  \/ /\ IsNull(d.start_at) /\ IsNumber(d.delay) /\ d.delay.num >= 0
     /\ IF d.delay.type = "float" THEN d.delay.num <= whole * PerSecond * 4 ELSE d.delay.num <= whole
  \/ IsNull(d.delay) /\ d.start_at.type = "int" /\ d.start_at.num >= 0

FirstAt(d, now) ==
  CASE ~IsNull(d.delay) -> now + Round(d.delay)
    [] ~IsNull(d.start_at) -> d.start_at.num
    [] OTHER -> now

(* Cron.next for the expression that matches every minute: the first whole *)
(* minute strictly later.                                                  *)
CronNext(time) == (time \div Minute) * Minute + Minute

NextAt(d, now) ==
  IF d.kind = "cron" THEN CronNext(FirstAt(d, now) - Minute) ELSE FirstAt(d, now)

CronOk(d, now) ==
  /\ IsText(d.cron) /\ d.cron.text = "cron"
  /\ IsText(d.timezone) /\ d.timezone.text = "offset"
  /\ FirstAtOk(d, now)
  /\ FirstAt(d, now) >= Minute
  /\ NextAt(d, now) <= MaxDate

New(d, now) ==
  /\ IsNull(d.overlap) \/ (IsText(d.overlap) /\ d.overlap.text \in {"allow", "skip"})
  /\ IsText(d.catch_up) /\ d.catch_up.text \in {"latest", "all"}
  /\ IF d.kind = "cron" THEN CronOk(d, now) ELSE IntervalOk(d.every) /\ FirstAtOk(d, now)
  /\ NextAt(d, now) \in 0..MaxTime
  /\ Parse(d.options)

(* What a schedule keeps of its declaration, and what tells two apart.     *)
Definition(d) ==
  [kind |-> d.kind,
   interval |-> IF d.kind = "every" THEN Interval(d.every) ELSE 0,
   overlap |-> IF IsNull(d.overlap) THEN Text("skip") ELSE d.overlap,
   catch_up |-> d.catch_up,
   options |-> d.options]

-----------------------------------------------------------------------------
(* page and collect: the ids after the cursor in order, up to the limit    *)
(* and to the bytes a page may have, and the cursor of the next page.      *)

RECURSIVE Collect(_, _, _)
Collect(ids, acc, bytes) ==
  IF ids = {} THEN [ids |-> acc, next |-> 0]
  ELSE LET key == CHOOSE i \in ids : \A j \in ids : i <= j IN
       IF Len(acc) = PageLimit \/ (acc # <<>> /\ bytes + Size[key] > PageBytes)
         THEN [ids |-> acc, next |-> acc[Len(acc)]]
         ELSE Collect(ids \ {key}, Append(acc, key), bytes + Size[key])

PageFromCursor(ids, cursor) == Collect({i \in ids : i >= cursor}, <<>>, 0)

Page(ids, cursor) == Collect({i \in ids : i > cursor}, <<>>, 0)

=============================================================================

------------------------------ MODULE Triggers ------------------------------
(***************************************************************************)
(* The schedules of APScheduler, as functions from a previous fire time    *)
(* and the current time to the next fire time.  Time is a natural number   *)
(* of ticks; jitter, time zones and calendar arithmetic are left out.      *)
(*                                                                         *)
(*   interval  a fire every "length" ticks from "start", up to "end"       *)
(*   cron      a calendar expression, reduced to the set "at" of the       *)
(*             instants it denotes                                         *)
(*   date      one fire, at "run"                                          *)
(***************************************************************************)
EXTENDS Integers, FiniteSetsExt

\* Python's None where a date is expected: a paused job, an open end date, a
\* schedule that is over.
None == -1

Time == Nat

TimeOrNone == Time \cup {None}

IntervalTrigger ==
    [kind : {"interval"}, start : Time, length : Nat \ {0}, end : TimeOrNone]

CronTrigger == [kind : {"cron"}, at : SUBSET Time]

DateTrigger == [kind : {"date"}, run : Time]

Trigger == IntervalTrigger \cup CronTrigger \cup DateTrigger

IsInterval(trigger) == trigger.kind = "interval"

\* A date past the end date of an interval trigger is no fire time.
UpTo(end, t) == IF end = None \/ t <= end THEN t ELSE None

\* The earliest instant of a set that may be empty.
Earliest(S) == IF S = {} THEN None ELSE Min(S)

\* The smallest number of whole intervals that covers "ticks".
CeilDiv(ticks, length) == (ticks + length - 1) \div length

\* IntervalTrigger.get_next_fire_time: the previous fire plus one interval,
\* whatever "now" is; with no previous fire, the first one not before "now".
IntervalNext(trigger, previous, now) ==
    UpTo(trigger.end,
         IF previous # None
         THEN previous + trigger.length
         ELSE IF trigger.start > now
              THEN trigger.start
              ELSE trigger.start
                     + trigger.length * CeilDiv(now - trigger.start, trigger.length))

\* CronTrigger.get_next_fire_time: the search starts just after the previous
\* fire, or at "now" when that is earlier.
CronNext(trigger, previous, now) ==
    LET from == IF previous = None \/ now < previous THEN now ELSE previous + 1
    IN  Earliest({t \in trigger.at : t >= from})

\* DateTrigger.get_next_fire_time: the run date, once.
DateNext(trigger, previous) == IF previous = None THEN trigger.run ELSE None

NextFireTime(trigger, previous, now) ==
    CASE trigger.kind = "interval" -> IntervalNext(trigger, previous, now)
      [] trigger.kind = "cron"     -> CronNext(trigger, previous, now)
      [] trigger.kind = "date"     -> DateNext(trigger, previous)

\* t is a fire time that repeated calls of get_next_fire_time reach from the
\* fire time "previous".
FiresAfter(trigger, previous, t) ==
    /\ t > previous
    /\ CASE trigger.kind = "interval" ->
              /\ \E k \in 1 .. t : t = previous + k * trigger.length
              /\ trigger.end = None \/ t <= trigger.end
         [] trigger.kind = "cron" -> t \in trigger.at
         [] trigger.kind = "date" -> FALSE

\* t is on the schedule whose first fire is "first".
OnSchedule(trigger, first, t) == t = first \/ FiresAfter(trigger, first, t)

\* Job._get_run_times: the scheduled run times from next_run_time to "now".
RunTimes(trigger, nextRunTime, now) ==
    {t \in nextRunTime .. now : OnSchedule(trigger, nextRunTime, t)}

\* The run times handed to the executor: the last one when they coalesce.
Handed(coalesce, runTimes) == IF coalesce THEN {Max(runTimes)} ELSE runTimes

=============================================================================

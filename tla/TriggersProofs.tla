--------------------------- MODULE TriggersProofs ---------------------------
(***************************************************************************)
(* What the schedule operators return, for every trigger and every time.   *)
(***************************************************************************)
EXTENDS Triggers, TLAPS, WellFoundedInduction

\* A nonempty set of naturals has the least element that Min names.
LEMMA MinOfNaturals ==
    ASSUME NEW S \in SUBSET Nat, S # {}
    PROVE  Min(S) \in S /\ \A x \in S : Min(S) <= x
<1> DEFINE R == OpToRel(<, Nat)
<1>1. IsWellFoundedOn(R, Nat)
    BY NatLessThanWellFounded
<1> HIDE DEF R
<1>2. PICK m \in S : \A x \in S : <<x, m>> \notin R
    BY <1>1, WFMin, Zenon
<1>3. \A x \in S : ~(x < m)
    <2>1. ASSUME NEW x \in S, x < m PROVE FALSE
        <3>1. <<x, m>> \in Nat \X Nat
            BY <1>2
        <3>2. <<x, m>> \in R
            BY <2>1, <3>1 DEF R, OpToRel
        <3> QED BY <3>2, <1>2
    <2> QED BY <2>1
<1>4. \A x \in S : m <= x
    BY <1>2, <1>3
<1> QED BY <1>2, <1>4 DEF Min

\* A nonempty set of naturals with an upper bound has the greatest element
\* that Max names.
LEMMA MaxOfNaturals ==
    ASSUME NEW S \in SUBSET Nat, S # {}, NEW n \in Nat, \A x \in S : x <= n
    PROVE  Max(S) \in S /\ \A x \in S : x <= Max(S)
<1> DEFINE T == {n - x : x \in S}
<1>1. T \in SUBSET Nat /\ T # {}
    <2>1. ASSUME NEW x \in S PROVE n - x \in Nat
        <3>1. x \in Nat /\ x <= n
            OBVIOUS
        <3> QED BY <3>1
    <2> QED BY <2>1
<1>2. Min(T) \in T /\ \A y \in T : Min(T) <= y
    BY <1>1, MinOfNaturals
<1>3. PICK m \in S : Min(T) = n - m
    BY <1>2
<1>4. \A x \in S : m >= x
    <2> TAKE x \in S
    <2>1. n - m <= n - x
        BY <1>2, <1>3
    <2> QED BY <2>1
<1> QED BY <1>3, <1>4 DEF Max

LEMMA MaxOfTwo ==
    ASSUME NEW m \in Int, NEW n \in Nat
    PROVE  /\ Max({m, n}) \in Nat
           /\ Max({m, n}) = IF m > n THEN m ELSE n
BY DEF Max

LEMMA EarliestType ==
    ASSUME NEW S \in SUBSET Time
    PROVE  Earliest(S) \in TimeOrNone
BY MinOfNaturals DEF Earliest, Time, TimeOrNone

\* What the first instant of a set of future instants is.
LEMMA EarliestOf ==
    ASSUME NEW S \in SUBSET Time, Earliest(S) # None
    PROVE  Earliest(S) \in S /\ \A x \in S : Earliest(S) <= x
BY MinOfNaturals DEF Earliest, Time

LEMMA CeilDivType ==
    ASSUME NEW ticks \in Nat, NEW length \in Nat \ {0}
    PROVE  CeilDiv(ticks, length) \in Nat
BY DEF CeilDiv

LEMMA ProductType ==
    ASSUME NEW m \in Nat, NEW n \in Nat
    PROVE  m * n \in Nat
OBVIOUS

LEMMA ProductMonotone ==
    ASSUME NEW m \in Int, NEW n \in Int, NEW length \in Nat \ {0},
           m * length < n * length
    PROVE  m < n
<1>1. CASE m < n
    BY <1>1
<1>2. CASE m >= n
    <2>1. m - n \in Nat
        BY <1>2
    <2>2. (m - n) * length \in Nat
        BY <2>1, ProductType
    <2>3. (m - n) * length = m * length - n * length
        OBVIOUS
    <2> QED BY <2>2, <2>3
<1> QED BY <1>1, <1>2

\* Counting whole intervals from the same instant keeps the order.
LEMMA MultiplesOrder ==
    ASSUME NEW base \in Nat, NEW length \in Nat \ {0}, NEW m \in Nat, NEW n \in Nat,
           base + m * length < base + n * length
    PROVE  m < n
<1>1. m * length \in Nat /\ n * length \in Nat
    BY ProductType
<1>2. m * length < n * length
    BY <1>1
<1> QED BY <1>2, ProductMonotone

LEMMA PositiveProduct ==
    ASSUME NEW m \in Nat, m > 0, NEW length \in Nat \ {0}
    PROVE  m * length \in Nat /\ m * length > 0
<1>1. m * length \in Nat
    BY ProductType
<1>2. (m - 1) * length \in Nat
    BY ProductType
<1>3. (m - 1) * length = m * length - length
    OBVIOUS
<1> QED BY <1>1, <1>2, <1>3

LEMMA MultiplesAdd ==
    ASSUME NEW base \in Nat, NEW length \in Nat \ {0}, NEW m \in Nat, NEW n \in Nat
    PROVE  base + m * length + n * length = base + (m + n) * length
<1>1. m * length \in Nat /\ n * length \in Nat
    BY ProductType
<1>2. (m + n) * length = m * length + n * length
    OBVIOUS
<1> QED BY <1>1, <1>2

-----------------------------------------------------------------------------
(* Types *)

LEMMA NextFireTimeType ==
    ASSUME NEW trigger \in Trigger, NEW previous \in TimeOrNone, NEW now \in Time
    PROVE  NextFireTime(trigger, previous, now) \in TimeOrNone
<1>1. CASE trigger \in IntervalTrigger
    <2>1. /\ trigger.kind = "interval" /\ trigger.start \in Nat
          /\ trigger.length \in Nat \ {0} /\ trigger.end \in TimeOrNone
        BY <1>1 DEF IntervalTrigger, Time
    <2> DEFINE wait == CeilDiv(now - trigger.start, trigger.length)
    <2>2. ASSUME NEW t \in Nat PROVE UpTo(trigger.end, t) \in TimeOrNone
        BY <2>1 DEF UpTo, TimeOrNone, Time
    <2>3. CASE previous # None
        BY <2>1, <2>2, <2>3 DEF NextFireTime, IntervalNext, TimeOrNone, Time
    <2>4. CASE previous = None /\ trigger.start > now
        BY <2>1, <2>2, <2>4 DEF NextFireTime, IntervalNext
    <2>5. CASE previous = None /\ ~(trigger.start > now)
        <3>1. now - trigger.start \in Nat
            BY <2>1, <2>5 DEF Time
        <3>2. wait \in Nat
            BY <3>1, <2>1, CeilDivType
        <3>3. trigger.start + trigger.length * wait \in Nat
            <4> HIDE DEF wait
            <4>1. trigger.length * wait \in Nat
                BY <2>1, <3>2, ProductType
            <4> QED BY <4>1, <2>1
        <3> QED BY <2>1, <2>2, <2>5, <3>3 DEF NextFireTime, IntervalNext
    <2> QED BY <2>3, <2>4, <2>5
<1>2. CASE trigger \in CronTrigger
    <2>1. trigger.kind = "cron" /\ trigger.at \in SUBSET Time
        BY <1>2 DEF CronTrigger
    <2>2. ASSUME NEW from PROVE Earliest({t \in trigger.at : t >= from}) \in TimeOrNone
        BY <2>1, EarliestType
    <2> QED BY <2>1, <2>2 DEF NextFireTime, CronNext
<1>3. CASE trigger \in DateTrigger
    <2>1. trigger.kind = "date" /\ trigger.run \in Time
        BY <1>3 DEF DateTrigger
    <2> QED BY <2>1 DEF NextFireTime, DateNext, TimeOrNone
<1> QED BY <1>1, <1>2, <1>3 DEF Trigger

\* The run times between next_run_time and now: at least one, the last of
\* them not after now.
LEMMA RunTimesFacts ==
    ASSUME NEW trigger, NEW nrt \in Time, NEW now \in Time, nrt <= now
    PROVE  LET runs == RunTimes(trigger, nrt, now)
           IN  /\ runs \in SUBSET Time
               /\ nrt \in runs
               /\ Max(runs) \in runs
               /\ \A t \in runs : t <= Max(runs) /\ nrt <= t /\ t <= now
<1> DEFINE runs == RunTimes(trigger, nrt, now)
<1>1. runs \in SUBSET Nat /\ nrt \in runs /\ \A t \in runs : nrt <= t /\ t <= now
    BY DEF RunTimes, OnSchedule, Time
<1> HIDE DEF runs
<1>2. Max(runs) \in runs /\ \A t \in runs : t <= Max(runs)
    <2>1. now \in Nat /\ runs # {}
        BY <1>1 DEF Time
    <2> QED BY <1>1, <2>1, MaxOfNaturals
<1>3. runs \in SUBSET Time
    BY <1>1 DEF Time
<1> QED BY <1>1, <1>2, <1>3 DEF runs

LEMMA HandedFacts ==
    ASSUME NEW trigger, NEW nrt \in Time, NEW now \in Time, nrt <= now,
           NEW coalesce \in BOOLEAN
    PROVE  Handed(coalesce, RunTimes(trigger, nrt, now)) \subseteq RunTimes(trigger, nrt, now)
BY RunTimesFacts DEF Handed

-----------------------------------------------------------------------------
(* How a schedule advances *)

\* The fire times of an interval trigger are whole intervals after the first.
LEMMA IntervalSchedule ==
    ASSUME NEW trigger \in IntervalTrigger, NEW first \in Time, NEW t \in Time
    PROVE  OnSchedule(trigger, first, t) <=>
              \E k \in Nat : /\ t = first + k * trigger.length
                             /\ k > 0 => trigger.end = None \/ t <= trigger.end
<1>1. trigger.kind = "interval" /\ trigger.length \in Nat \ {0}
    BY DEF IntervalTrigger
<1> DEFINE length == trigger.length
           Bounded == trigger.end = None \/ t <= trigger.end
<1> HIDE DEF Bounded
<1>2. ASSUME OnSchedule(trigger, first, t)
      PROVE  \E k \in Nat : t = first + k * length /\ (k > 0 => Bounded)
    <2>1. CASE t = first
        BY <2>1, <1>1 DEF Time
    <2>2. CASE FiresAfter(trigger, first, t)
        <3>1. Bounded /\ \E k \in 1 .. t : t = first + k * length
            BY <2>2, <1>1 DEF FiresAfter, Bounded
        <3>2. \A k \in 1 .. t : k \in Nat
            OBVIOUS
        <3> QED BY <3>1, <3>2
    <2> QED BY <1>2, <2>1, <2>2 DEF OnSchedule
<1>3. ASSUME NEW k \in Nat, t = first + k * length, k > 0 => Bounded
      PROVE  OnSchedule(trigger, first, t)
    <2>1. CASE k = 0
        BY <2>1, <1>1, <1>3 DEF OnSchedule, Time
    <2>2. CASE k > 0
        <3>1. length >= 1 /\ length - 1 \in Nat
            BY <1>1
        <3>2. k * (length - 1) \in Nat
            BY <3>1, ProductType
        <3>3. k * (length - 1) = k * length - k
            BY <1>1
        <3>4. k * length \in Nat
            BY <1>1, ProductType
        <3>5. t > first /\ k \in 1 .. t
            BY <1>3, <2>2, <3>2, <3>3, <3>4 DEF Time
        <3> QED BY <1>1, <1>3, <2>2, <3>5 DEF OnSchedule, FiresAfter, Bounded
    <2> QED BY <2>1, <2>2
<1> QED BY <1>2, <1>3 DEF Bounded

\* From the run time nrt, due at "now", the schedule moves to n: n is on the
\* same schedule, and every fire time passed over is one of the run times.
LEMMA IntervalAdvance ==
    ASSUME NEW trigger \in IntervalTrigger, NEW first \in Time, NEW nrt \in Time,
           NEW now \in Time, nrt <= now, OnSchedule(trigger, first, nrt),
           NEW n, n = NextFireTime(trigger, Max(RunTimes(trigger, nrt, now)), now),
           n # None
    PROVE  /\ n \in Time /\ n > nrt
           /\ OnSchedule(trigger, first, n)
           /\ \A t \in nrt .. n - 1 :
                 OnSchedule(trigger, first, t) => t \in RunTimes(trigger, nrt, now)
<1> DEFINE length == trigger.length
           runs == RunTimes(trigger, nrt, now)
           final == Max(runs)
<1>1. /\ trigger.kind = "interval" /\ length \in Nat \ {0}
      /\ trigger.end \in TimeOrNone
    BY DEF IntervalTrigger
<1>2. /\ final \in Time /\ final \in runs
      /\ nrt <= final /\ final <= now
    BY RunTimesFacts
<1>3. /\ n = final + length
      /\ trigger.end = None \/ n <= trigger.end
    BY <1>1, <1>2 DEF NextFireTime, IntervalNext, UpTo, Time, None
<1>4. n \in Time /\ n > nrt
    BY <1>1, <1>2, <1>3 DEF Time
<1>5. PICK k \in Nat : nrt = first + k * length
    BY IntervalSchedule
<1>6. OnSchedule(trigger, nrt, final)
    BY <1>2 DEF RunTimes
<1>7. PICK p \in Nat : final = nrt + p * length
    BY <1>2, <1>6, IntervalSchedule
<1> HIDE DEF length, runs, final
<1>8. final = first + (k + p) * length /\ n = first + (k + p + 1) * length
    <2>1. first + k * length + p * length = first + (k + p) * length
        BY <1>1, MultiplesAdd DEF Time
    <2>2. first + (k + p) * length + 1 * length = first + (k + p + 1) * length
        BY <1>1, MultiplesAdd DEF Time
    <2>3. 1 * length = length
        BY <1>1
    <2> QED BY <1>3, <1>5, <1>7, <2>1, <2>2, <2>3
<1>9. OnSchedule(trigger, first, n)
    <2>1. k + p + 1 \in Nat
        OBVIOUS
    <2> QED BY <1>3, <1>4, <1>8, <2>1, IntervalSchedule DEF length
<1>10. ASSUME NEW t \in nrt .. n - 1, OnSchedule(trigger, first, t)
       PROVE  t \in runs
    <2>1. t \in Time /\ nrt <= t /\ t < n
        BY <1>4 DEF Time
    <2>2. PICK m \in Nat : /\ t = first + m * length
                           /\ m > 0 => trigger.end = None \/ t <= trigger.end
        BY <1>10, <2>1, IntervalSchedule DEF length
    <2>3. m < k + p + 1
        BY <1>1, <1>8, <2>1, <2>2, MultiplesOrder DEF Time
    <2>4. m >= k
        <3>1. CASE m < k
            <4>1. k - m \in Nat /\ k - m > 0
                BY <3>1
            <4>2. first + m * length + (k - m) * length = nrt
                BY <1>1, <1>5, <4>1, MultiplesAdd DEF Time
            <4>3. t < nrt
                BY <1>1, <2>1, <2>2, <4>1, <4>2, PositiveProduct DEF Time
            <4> QED BY <2>1, <4>3 DEF Time
        <3> QED BY <3>1
    <2>5. m - k \in Nat /\ k + p - m \in Nat
        BY <2>3, <2>4
    <2>6. t = nrt + (m - k) * length
        BY <1>1, <1>5, <2>2, <2>5, MultiplesAdd DEF Time
    <2>7. t <= final
        <3>1. first + m * length + (k + p - m) * length = first + (k + p) * length
            BY <1>1, <2>5, MultiplesAdd DEF Time
        <3>2. (k + p - m) * length \in Nat
            BY <1>1, <2>5, ProductType
        <3> QED BY <1>8, <2>1, <2>2, <3>1, <3>2 DEF Time
    <2>8. OnSchedule(trigger, nrt, t)
        <3>1. m - k > 0 => m > 0
            BY <2>5
        <3> QED BY <2>1, <2>2, <2>5, <2>6, <3>1, IntervalSchedule DEF length
    <2> QED BY <1>2, <2>1, <2>7, <2>8 DEF runs, RunTimes, Time
<1> QED BY <1>4, <1>9, <1>10 DEF runs

LEMMA CronAdvance ==
    ASSUME NEW trigger \in CronTrigger, NEW first \in Time, NEW nrt \in Time,
           NEW now \in Time, nrt <= now, OnSchedule(trigger, first, nrt),
           NEW n, n = NextFireTime(trigger, Max(RunTimes(trigger, nrt, now)), now),
           n # None
    PROVE  /\ n \in Time /\ n > nrt
           /\ OnSchedule(trigger, first, n)
           /\ \A t \in nrt .. n - 1 :
                 OnSchedule(trigger, first, t) => t \in RunTimes(trigger, nrt, now)
<1> DEFINE runs == RunTimes(trigger, nrt, now)
           final == Max(runs)
           after == {t \in trigger.at : t >= final + 1}
<1>1. trigger.kind = "cron" /\ trigger.at \in SUBSET Time
    BY DEF CronTrigger
<1>2. /\ final \in Time /\ final \in runs
      /\ nrt <= final /\ final <= now
      /\ \A t \in runs : t <= final
    BY RunTimesFacts
<1>3. first <= nrt
    BY <1>1 DEF OnSchedule, FiresAfter, Time
<1> HIDE DEF final, runs
<1>4. n = Earliest(after)
    BY <1>1, <1>2 DEF NextFireTime, CronNext, None, Time, runs, final
<1>5. n \in after /\ \A t \in after : n <= t
    BY <1>1, <1>4, EarliestOf
<1>6. n \in Time /\ n > nrt /\ n > final
    BY <1>1, <1>2, <1>5 DEF Time
<1>7. OnSchedule(trigger, first, n)
    BY <1>1, <1>3, <1>5, <1>6 DEF OnSchedule, FiresAfter, Time
<1>8. ASSUME NEW t \in nrt .. n - 1, OnSchedule(trigger, first, t)
      PROVE  t \in runs
    <2>1. t \in Time /\ nrt <= t /\ t < n
        BY <1>6 DEF Time
    <2>2. t = nrt \/ t \in trigger.at
        BY <1>1, <1>3, <1>8, <2>1 DEF OnSchedule, FiresAfter, Time
    <2>3. OnSchedule(trigger, nrt, t)
        BY <1>1, <2>1, <2>2 DEF OnSchedule, FiresAfter, Time
    <2>4. t <= final
        <3>1. CASE t = nrt
            BY <1>2, <3>1
        <3>2. CASE t \in trigger.at /\ t > final
            BY <1>2, <1>5, <1>6, <2>1, <3>2 DEF Time
        <3> QED BY <1>2, <2>1, <2>2, <3>1, <3>2 DEF Time
    <2> QED BY <1>2, <2>1, <2>3, <2>4 DEF runs, RunTimes, Time
<1> QED BY <1>6, <1>7, <1>8 DEF runs

LEMMA ScheduleAdvances ==
    ASSUME NEW trigger \in Trigger, NEW first \in Time, NEW nrt \in Time,
           NEW now \in Time, nrt <= now, OnSchedule(trigger, first, nrt),
           NEW n, n = NextFireTime(trigger, Max(RunTimes(trigger, nrt, now)), now),
           n # None
    PROVE  /\ n \in Time /\ n > nrt
           /\ OnSchedule(trigger, first, n)
           /\ \A t \in nrt .. n - 1 :
                 OnSchedule(trigger, first, t) => t \in RunTimes(trigger, nrt, now)
<1>1. CASE trigger \in IntervalTrigger
    BY <1>1, IntervalAdvance
<1>2. CASE trigger \in CronTrigger
    BY <1>2, CronAdvance
<1>3. CASE trigger \in DateTrigger
    <2>1. trigger.kind = "date"
        BY <1>3 DEF DateTrigger
    <2>2. Max(RunTimes(trigger, nrt, now)) \in Time
        BY RunTimesFacts
    <2>3. n = None
        BY <2>1, <2>2 DEF NextFireTime, DateNext, Time, None
    <2> QED BY <2>3
<1> QED BY <1>1, <1>2, <1>3 DEF Trigger

=============================================================================

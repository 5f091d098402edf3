--------------------------- MODULE S3ClusterProofs ---------------------------
(***************************************************************************)
(* The state of a cluster keeps its type, no loop oversleeps, a broadcast  *)
(* job that its creator removes stays removed, no fire time is skipped and *)
(* none of a broadcast interval job is run twice by one process, and runs  *)
(* leave their receipts, for every set of instances, jobs and schedules    *)
(* and for every bound.                                                    *)
(***************************************************************************)
EXTENDS S3Cluster, TriggersProofs

-----------------------------------------------------------------------------
(* Envelopes *)

LEMMA SlotCases ==
    ASSUME NEW e \in Slot, e # NoEnvelope
    PROVE  e \in Envelope
BY DEF Slot

LEMMA EnvelopeFields ==
    ASSUME NEW e \in Envelope
    PROVE  /\ e \in Slot
           /\ e # NoEnvelope
           /\ e.target \in Targets
           /\ e.creator \in Instances
           /\ e.trigger \in Trigger
           /\ e.coalesce \in BOOLEAN
           /\ e.nrt \in TimeOrNone
           /\ e.first \in TimeOrNone
BY NoEnvelopeAssumption DEF Envelope, Slot

LEMMA FreshType ==
    ASSUME NEW trigger \in Trigger, NEW t \in Time
    PROVE  Fresh(trigger, t) \in TimeOrNone
<1>1. None \in TimeOrNone
    BY DEF TimeOrNone
<1> QED BY <1>1, NextFireTimeType DEF Fresh

\* What an update makes of an envelope is an envelope for the same target and
\* by the same creator.
LEMMA AdvancedType ==
    ASSUME NEW e \in Envelope, NEW nrt \in TimeOrNone
    PROVE  [e EXCEPT !.nrt = nrt] \in Envelope
BY DEF Envelope

LEMMA CoalesceType ==
    ASSUME NEW e \in Envelope, NEW coalesce \in BOOLEAN
    PROVE  [e EXCEPT !.coalesce = coalesce] \in Envelope
BY DEF Envelope

LEMMA PausedType ==
    ASSUME NEW e \in Envelope
    PROVE  Paused(e) \in Envelope
<1>1. None \in TimeOrNone
    BY DEF TimeOrNone
<1> QED BY <1>1 DEF Envelope, Paused

LEMMA RescheduledType ==
    ASSUME NEW e \in Envelope, NEW trigger \in Trigger, NEW t \in Time
    PROVE  Rescheduled(e, trigger, t) \in Envelope
<1>1. Fresh(trigger, t) \in TimeOrNone
    BY FreshType
<1> QED BY <1>1 DEF Envelope, Rescheduled

LEMMA NewEnvelopeType ==
    ASSUME NEW i \in Instances, NEW r \in Request, NEW t \in Time
    PROVE  NewEnvelope(i, r.target, r.trigger, r.coalesce, t) \in Envelope
<1>1. r.target \in Targets /\ r.trigger \in Trigger /\ r.coalesce \in BOOLEAN
    BY DEF Request
<1>2. Fresh(r.trigger, t) \in TimeOrNone
    BY <1>1, FreshType
<1> QED BY <1>1, <1>2 DEF Envelope, NewEnvelope

-----------------------------------------------------------------------------
(* Due jobs *)

\* Whole intervals that fit in a duration.
LEMMA WholeIntervals ==
    ASSUME NEW ticks \in Nat, NEW length \in Nat \ {0}
    PROVE  LET n == ticks \div length
           IN  /\ n \in Nat
               /\ length * n \in Nat
               /\ length * n <= ticks
               /\ ticks < length * n + length
<1> DEFINE n == ticks \div length
<1>1. n \in Nat
    OBVIOUS
<1>2. length * n <= ticks /\ ticks < length * n + length
    OBVIOUS
<1> HIDE DEF n
<1>3. length * n \in Nat
    BY <1>1, ProductType
<1> QED BY <1>1, <1>2, <1>3 DEF n

\* The latest fire time of a broadcast interval job: it has come, and the
\* next one has not.
LEMMA CurrentFireFacts ==
    ASSUME NEW e \in Envelope, IsInterval(e.trigger), NEW t \in Time,
           t >= e.trigger.start
    PROVE  /\ e.trigger \in IntervalTrigger
           /\ e.trigger.length \in Nat \ {0}
           /\ CurrentFire(e, t) \in Time
           /\ CurrentFire(e, t) <= t
           /\ t < CurrentFire(e, t) + e.trigger.length
<1>1. e.trigger \in IntervalTrigger
    BY EnvelopeFields DEF IsInterval, Trigger, CronTrigger, DateTrigger
<1>2. e.trigger.start \in Nat /\ e.trigger.length \in Nat \ {0}
    BY <1>1 DEF IntervalTrigger, Time
<1> DEFINE length == e.trigger.length
           start == e.trigger.start
           whole == length * ((t - start) \div length)
<1>3. CurrentFire(e, t) = start + whole
    BY DEF CurrentFire
<1>4. t - start \in Nat
    BY <1>2 DEF Time
<1> HIDE DEF length, start
<1>5. whole \in Nat /\ whole <= t - start /\ t - start < whole + length
    BY <1>2, <1>4, WholeIntervals DEF length, start
<1> HIDE DEF whole
<1> QED BY <1>1, <1>2, <1>3, <1>4, <1>5 DEF length, start, Time

\* A job is returned as due for a fire time that has come, and only to an
\* instance it targets; unless it is a broadcast on an interval that fire
\* time is the next_run_time in the cache.
LEMMA DueFireFacts ==
    ASSUME NEW i \in Instances, NEW e \in Slot, NEW executed \in TimeOrNone,
           NEW t \in Time
    PROVE  /\ DueFire(i, e, executed, t) \in TimeOrNone
           /\ DueFire(i, e, executed, t) # None =>
                 /\ e \in Envelope
                 /\ JobTargetsMe(i, e.target)
                 /\ e.nrt # None
                 /\ DueFire(i, e, executed, t) <= t
                 /\ FollowsEveryFire(e) => DueFire(i, e, executed, t) = e.nrt
<1>1. None \in TimeOrNone /\ Time \subseteq TimeOrNone
    BY DEF TimeOrNone
<1>2. CASE e = NoEnvelope
    BY <1>1, <1>2 DEF DueFire
<1>3. CASE e \in Envelope
    <2>1. CASE e.nrt = None \/ ~JobTargetsMe(i, e.target)
        BY <1>1, <1>3, <2>1, EnvelopeFields DEF DueFire
    <2>2. CASE e.nrt # None /\ JobTargetsMe(i, e.target) /\ ~IsBroadcast(e)
        BY <1>1, <1>3, <2>2, EnvelopeFields DEF DueFire, TimeOrNone
    <2>3. CASE /\ e.nrt # None /\ JobTargetsMe(i, e.target) /\ IsBroadcast(e)
               /\ ~BroadcastDue(e, executed, t)
        BY <1>1, <1>3, <2>3, EnvelopeFields DEF DueFire
    <2>4. CASE /\ e.nrt # None /\ JobTargetsMe(i, e.target) /\ IsBroadcast(e)
               /\ BroadcastDue(e, executed, t)
        <3>1. DueFire(i, e, executed, t) = CurrentFire(e, t)
            BY <1>3, <2>4, EnvelopeFields DEF DueFire
        <3>2. CASE IsInterval(e.trigger)
            <4>1. CurrentFire(e, t) \in Time /\ CurrentFire(e, t) <= t
                BY <1>3, <2>4, <3>2, CurrentFireFacts DEF BroadcastDue
            <4> QED BY <1>1, <1>3, <2>4, <3>1, <3>2, <4>1 DEF FollowsEveryFire
        <3>3. CASE ~IsInterval(e.trigger)
            <4>1. CurrentFire(e, t) = e.nrt
                BY <3>3 DEF CurrentFire, IsInterval
            <4> QED BY <1>1, <1>3, <2>4, <3>1, <4>1, EnvelopeFields DEF BroadcastDue
        <3> QED BY <3>2, <3>3
    <2> QED BY <2>1, <2>2, <2>3, <2>4
<1> QED BY <1>2, <1>3, SlotCases

-----------------------------------------------------------------------------
(* Types.  TypeOK is not inductive alone: the run times of a due job are     *)
(* times only because its fire time has come, and the job is still in the    *)
(* cache only because nobody else touches the cache during a round.          *)

\* A job waits for its submission, or for the update after it, only within a
\* round, for a fire time that has come; the cache still holds the job then,
\* and its next_run_time is that fire time until the update replaces it.
DueOK(i, j) ==
    due[i][j] # None =>
        /\ pc[i] \in {"run", "save", "receipt"}
        /\ due[i][j] <= now[i]
        /\ cache[i][j] # NoEnvelope
        /\ JobTargetsMe(i, cache[i][j].target)
        /\ cache[i][j].nrt # None
        /\ FollowsEveryFire(cache[i][j]) /\ ~(pc[i] = "receipt" /\ j \in saving[i])
              => due[i][j] = cache[i][j].nrt

\* At most one job is being saved, one that has been submitted.
SavingOK(i) ==
    \A j \in saving[i] :
        /\ pc[i] \in {"save", "receipt"}
        /\ due[i][j] # None
        /\ saving[i] = {j}
        /\ pc[i] = "save" => Runs(i, j) \subseteq covered[i][j]

RoundOK ==
    \A i \in Instances : SavingOK(i) /\ \A j \in JobIds : DueOK(i, j)

Shape == TypeOK /\ RoundOK

LEMMA InitShape == Init => Shape
<1> SUFFICES ASSUME Init PROVE Shape
    OBVIOUS
<1>1. None \in TimeOrNone /\ 0 \in Time
    BY DEF TimeOrNone, Time
<1>2. EmptyCache \in [JobIds -> Slot] /\ Nothing \in [JobIds -> TimeOrNone]
    BY <1>1 DEF EmptyCache, Nothing, Slot
<1>3. bucket \in [JobIds -> Slot]
    BY ClusterAssumption DEF Init
<1>4. TypeOK
    BY <1>1, <1>2, <1>3 DEF Init, TypeOK, Locations, Time
<1>5. RoundOK
    BY DEF Init, RoundOK, SavingOK, DueOK, Nothing
<1> QED BY <1>4, <1>5 DEF Shape

\* The run times of a due job, when the loop comes to it.
LEMMA DueRuns ==
    ASSUME Shape, NEW i \in Instances, NEW j \in JobIds, due[i][j] # None
    PROVE  /\ due[i][j] \in Time /\ now[i] \in Time /\ due[i][j] <= now[i]
           /\ cache[i][j] \in Envelope
           /\ cache[i][j].trigger \in Trigger
           /\ Runs(i, j) \in SUBSET Time
           /\ HandedOver(i, j) \subseteq Runs(i, j)
           /\ Max(Runs(i, j)) \in Time
           /\ Following(i, j) \in TimeOrNone
<1>1. due[i][j] \in Time /\ now[i] \in Time /\ due[i][j] <= now[i]
    BY DEF Shape, TypeOK, RoundOK, DueOK, TimeOrNone
<1>2. cache[i][j] \in Envelope
    BY SlotCases DEF Shape, TypeOK, RoundOK, DueOK
<1>3. cache[i][j].trigger \in Trigger /\ cache[i][j].coalesce \in BOOLEAN
    BY <1>2, EnvelopeFields
<1>4. Runs(i, j) \in SUBSET Time /\ Max(Runs(i, j)) \in Time
    BY <1>1, <1>3, RunTimesFacts DEF Runs
<1>5. HandedOver(i, j) \subseteq Runs(i, j)
    BY <1>1, <1>3, HandedFacts DEF Runs, HandedOver
<1>6. Following(i, j) \in TimeOrNone
    BY <1>1, <1>3, <1>4, NextFireTimeType DEF Following, TimeOrNone
<1> QED BY <1>1, <1>2, <1>3, <1>4, <1>5, <1>6

\* What get_due_jobs finds and notes.
LEMMA FoundFacts ==
    ASSUME TypeOK, NEW i \in Instances
    PROVE  /\ Found(i) \in [JobIds -> TimeOrNone]
           /\ \A S \in SUBSET JobIds : Noted(i, S) \in [JobIds -> TimeOrNone]
           /\ \A j \in JobIds : Found(i)[j] # None =>
                 /\ cache[i][j] \in Envelope
                 /\ JobTargetsMe(i, cache[i][j].target)
                 /\ cache[i][j].nrt # None
                 /\ Found(i)[j] <= now[i]
                 /\ FollowsEveryFire(cache[i][j]) => Found(i)[j] = cache[i][j].nrt
<1>1. ASSUME NEW j \in JobIds
      PROVE  /\ Found(i)[j] \in TimeOrNone
             /\ Found(i)[j] # None =>
                 /\ cache[i][j] \in Envelope
                 /\ JobTargetsMe(i, cache[i][j].target)
                 /\ cache[i][j].nrt # None
                 /\ Found(i)[j] <= now[i]
                 /\ FollowsEveryFire(cache[i][j]) => Found(i)[j] = cache[i][j].nrt
    <2>1. /\ cache[i][j] \in Slot /\ last[i][j] \in TimeOrNone /\ now[i] \in Time
        BY DEF TypeOK
    <2> QED BY <2>1, DueFireFacts DEF Found
<1>2. Found(i) \in [JobIds -> TimeOrNone]
    BY <1>1 DEF Found
<1>3. ASSUME NEW S \in SUBSET JobIds PROVE Noted(i, S) \in [JobIds -> TimeOrNone]
    BY <1>2 DEF Noted, TypeOK
<1> QED BY <1>1, <1>2, <1>3

\* Updating a cached job, as the loop and the clients do.
LEMMA UpdateJobType ==
    ASSUME TypeOK, NEW i \in Instances, NEW j \in JobIds, NEW e \in Slot,
           UpdateJob(i, j, e)
    PROVE  /\ bucket' \in [JobIds -> Slot]
           /\ cache' \in [Instances -> [JobIds -> Slot]]
BY DEF TypeOK, UpdateJob

LEMMA DropJobType ==
    ASSUME TypeOK, NEW i \in Instances, NEW j \in JobIds, DropJob(i, j)
    PROVE  /\ bucket' \in [JobIds -> Slot]
           /\ cache' \in [Instances -> [JobIds -> Slot]]
BY DEF TypeOK, DropJob, Slot

LEMMA RoundTypes ==
    ASSUME Shape, NEW i \in Instances, Round(i)
    PROVE  TypeOK'
<1> USE DEF Shape, TypeOK
<1>t. None \in TimeOrNone /\ 0 \in Time
    BY DEF TimeOrNone, Time
<1>1. CASE Wake(i)
    BY <1>1, <1>t DEF Wake, Locations
<1>2. CASE List(i)
    BY <1>2, <1>t DEF List, Locations, EmptyCache, Slot
<1>3. CASE FindDue(i)
    BY <1>3, FoundFacts DEF FindDue, Locations
<1>4. CASE EndRound(i)
    <2> DEFINE next == NextRunTime(i, cache[i])
               wait == IF next = None THEN None ELSE Max({next - now[i], 0})
    <2>1. wait \in TimeOrNone
        <3>1. {cache[i][j].nrt : j \in Scheduled(i, cache[i])} \subseteq Time
            <4>1. ASSUME NEW j \in Scheduled(i, cache[i]) PROVE cache[i][j].nrt \in Time
                BY SlotCases, EnvelopeFields DEF Scheduled, TimeOrNone
            <4> QED BY <4>1
        <3>2. next \in TimeOrNone
            BY <3>1, EarliestType DEF NextRunTime
        <3>3. CASE next = None
            BY <3>3, <1>t
        <3>4. CASE next # None
            <4>1. next \in Nat /\ now[i] \in Nat
                BY <3>2, <3>4 DEF TimeOrNone, Time
            <4> DEFINE rest == next - now[i]
            <4>2. rest \in Int
                BY <4>1
            <4> HIDE DEF rest
            <4>3. Max({rest, 0}) \in Nat
                BY <4>2, MaxOfTwo
            <4> QED BY <3>4, <4>3 DEF TimeOrNone, Time, rest
        <3> QED BY <3>3, <3>4
    <2> HIDE DEF next
    <2>2. delay' = [delay EXCEPT ![i] = wait] /\ pc' = [pc EXCEPT ![i] = "idle"]
        BY <1>4 DEF EndRound, Sleep, Wait, next
    <2>3. since' = [since EXCEPT ![i] = clock]
        BY <1>4 DEF EndRound, Sleep
    <2> HIDE DEF wait
    <2> QED BY <1>4, <2>1, <2>2, <2>3 DEF EndRound, Locations
<1>5. ASSUME NEW j \in JobIds, Fetch(i, j) PROVE TypeOK'
    BY <1>5 DEF Fetch
<1>6. ASSUME NEW j \in JobIds, Submit(i, j) PROVE TypeOK'
    <2>1. due[i][j] # None
        BY <1>6 DEF Submit, IsNextDue
    <2>2. /\ Runs(i, j) \in SUBSET Time /\ HandedOver(i, j) \in SUBSET Time
          /\ cache[i][j].trigger \in Trigger
        BY <2>1, DueRuns
    <2>3. covered' \in [Instances -> [JobIds -> SUBSET Time]]
        BY <1>6, <2>2 DEF Submit
    <2>4. ran' \in [Instances -> [JobIds -> SUBSET (Trigger \X Time)]]
        <3>1. {<<cache[i][j].trigger, t>> : t \in HandedOver(i, j)} \subseteq Trigger \X Time
            BY <2>2
        <3> QED BY <1>6, <3>1 DEF Submit
    <2> QED BY <1>6, <2>3, <2>4 DEF Submit, Locations
<1>7. ASSUME NEW j \in JobIds, Save(i, j) PROVE TypeOK'
    <2> DEFINE e == [cache[i][j] EXCEPT !.nrt = Following(i, j)]
    <2>1. e \in Slot
        <3>1. due[i][j] # None
            BY <1>7 DEF Save, RoundOK, SavingOK
        <3>2. e \in Envelope
            BY <3>1, DueRuns, AdvancedType
        <3> QED BY <3>2 DEF Slot
    <2>2. UpdateJob(i, j, e)
        BY <1>7 DEF Save
    <2> HIDE DEF e
    <2>3. bucket' \in [JobIds -> Slot] /\ cache' \in [Instances -> [JobIds -> Slot]]
        BY <2>1, <2>2, UpdateJobType
    <2>4. /\ pc' \in [Instances -> Locations]
          /\ due' \in [Instances -> [JobIds -> TimeOrNone]]
          /\ saving' \in [Instances -> SUBSET JobIds]
        <3>1. \/ pc' = [pc EXCEPT ![i] = "receipt"] /\ UNCHANGED <<due, saving>>
              \/ pc' = [pc EXCEPT ![i] = "run"] /\ DoneWith(i, j)
            BY <1>7 DEF Save
        <3>2. CASE pc' = [pc EXCEPT ![i] = "receipt"] /\ UNCHANGED <<due, saving>>
            BY <3>2 DEF Locations
        <3>3. CASE pc' = [pc EXCEPT ![i] = "run"] /\ DoneWith(i, j)
            BY <3>3, <1>t DEF DoneWith, Locations
        <3> QED BY <3>1, <3>2, <3>3
    <2> QED BY <1>7, <2>3, <2>4 DEF Save
<1>8. ASSUME NEW j \in JobIds, WriteReceipt(i, j) PROVE TypeOK'
    BY <1>8, <1>t DEF WriteReceipt, Receipted, DoneWith, Locations, Receipt
<1>9. ASSUME NEW j \in JobIds, Finish(i, j) PROVE TypeOK'
    BY <1>9, <1>t, DropJobType DEF Finish, DoneWith, Locations
<1> QED BY <1>1, <1>2, <1>3, <1>4, <1>5, <1>6, <1>7, <1>8, <1>9 DEF Round

LEMMA BrokenTypes ==
    ASSUME Shape, NEW i \in Instances, Broken(i)
    PROVE  TypeOK'
<1> USE DEF Shape, TypeOK, Fault
<1>t. None \in TimeOrNone /\ 0 \in Time /\ RetryInterval \in TimeOrNone
    BY ClusterAssumption DEF TimeOrNone, Time
<1>e. EmptyCache \in [JobIds -> Slot] /\ Nothing \in [JobIds -> TimeOrNone]
    BY <1>t DEF EmptyCache, Nothing, Slot
<1>1. CASE FetchFails(i)
    BY <1>1, <1>t DEF FetchFails, Sleep, Locations
<1>2. CASE SaveFails(i)
    BY <1>2, <1>e DEF SaveFails, Locations
<1>3. CASE Crash(i)
    BY <1>3, <1>e, <1>t DEF Crash, Locations
<1>4. ASSUME NEW j \in JobIds, NoExecutor(i, j) PROVE TypeOK'
    BY <1>4, <1>t, DropJobType DEF NoExecutor
<1>5. ASSUME NEW j \in JobIds, NEW S \in SUBSET JobIds, RestoreFails(i, j, S)
      PROVE  TypeOK'
    BY <1>5, <1>t, FoundFacts DEF RestoreFails, Sleep, Locations
<1> QED BY <1>1, <1>2, <1>3, <1>4, <1>5 DEF Broken

\* A client's update of a cached job.
LEMMA ClientUpdateTypes ==
    ASSUME TypeOK, NEW i \in Instances, NEW j \in JobIds, NEW e \in Envelope,
           ClientUpdate(i, j, e), calls' \in Nat, UNCHANGED Undisturbed,
           removed' \subseteq Instances \X JobIds
    PROVE  TypeOK'
<1>1. e \in Slot /\ UpdateJob(i, j, e)
    BY DEF Slot, ClientUpdate
<1>2. bucket' \in [JobIds -> Slot] /\ cache' \in [Instances -> [JobIds -> Slot]]
    BY <1>1, UpdateJobType
<1>3. receipts' \subseteq Receipt /\ woken' \in [Instances -> BOOLEAN]
    BY DEF TypeOK, ClientUpdate, Receipted, Wakeup, Receipt
<1> QED BY <1>2, <1>3 DEF TypeOK, Undisturbed

LEMMA ClientTypes ==
    ASSUME TypeOK, NEW i \in Instances, Client(i)
    PROVE  TypeOK'
<1>c. ASSUME NEW name, Call(i, name) PROVE calls' \in Nat /\ clock \in Time
    BY <1>c DEF Call, TypeOK
<1>e. ASSUME NEW j \in JobIds, cache[i][j] # NoEnvelope
      PROVE  /\ cache[i][j] \in Envelope
             /\ cache[i][j].trigger \in Trigger
    BY <1>e, SlotCases, EnvelopeFields DEF TypeOK
<1>r. ASSUME NEW r \in Requests
      PROVE  r \in Request /\ r.trigger \in Trigger /\ r.coalesce \in BOOLEAN
    BY <1>r, ClusterAssumption DEF Request
<1>1. ASSUME NEW j \in JobIds, NEW r \in Requests, AddJob(i, j, r) PROVE TypeOK'
    <2> DEFINE e == NewEnvelope(i, r.target, r.trigger, r.coalesce, clock)
    <2>1. e \in Slot
        <3>1. clock \in Time /\ r \in Request
            BY <1>r DEF TypeOK
        <3> QED BY <3>1, NewEnvelopeType DEF Slot
    <2>2. /\ bucket' = [bucket EXCEPT ![j] = e]
          /\ cache' = [cache EXCEPT ![i][j] = e]
          /\ removed' \subseteq removed
          /\ calls' \in Nat
        BY <1>1, <1>c DEF AddJob, AddedAgain
    <2> HIDE DEF e
    <2> QED BY <1>1, <2>1, <2>2 DEF AddJob, Undisturbed, Wakeup, TypeOK
<1>2. ASSUME NEW j \in JobIds, NEW r \in Requests, ReplaceJob(i, j, r) PROVE TypeOK'
    <2> DEFINE e == [cache[i][j] EXCEPT !.coalesce = r.coalesce]
               new == Rescheduled(e, r.trigger, clock)
    <2>1. clock \in Time /\ calls' \in Nat /\ cache[i][j] \in Envelope
        BY <1>2, <1>c, <1>e DEF ReplaceJob
    <2>2. new \in Envelope
        BY <2>1, <1>r, CoalesceType, RescheduledType
    <2>3. ClientUpdate(i, j, new) /\ UNCHANGED Undisturbed
        BY <1>2 DEF ReplaceJob
    <2>4. removed' \subseteq Instances \X JobIds
        BY <1>2 DEF ReplaceJob, AddedAgain, TypeOK
    <2> HIDE DEF new
    <2> QED BY <2>1, <2>2, <2>3, <2>4, ClientUpdateTypes
<1>3. ASSUME NEW j \in JobIds, NEW r \in Requests, RescheduleJob(i, j, r) PROVE TypeOK'
    <2> DEFINE new == Rescheduled(cache[i][j], r.trigger, clock)
    <2>1. clock \in Time /\ calls' \in Nat /\ cache[i][j] \in Envelope
        BY <1>3, <1>c, <1>e DEF RescheduleJob
    <2>2. new \in Envelope
        BY <2>1, <1>r, RescheduledType
    <2>3. /\ ClientUpdate(i, j, new) /\ UNCHANGED Undisturbed
          /\ removed' \subseteq Instances \X JobIds
        BY <1>3 DEF RescheduleJob, TypeOK
    <2> HIDE DEF new
    <2> QED BY <2>1, <2>2, <2>3, ClientUpdateTypes
<1>4. ASSUME NEW j \in JobIds, ModifyJob(i, j) PROVE TypeOK'
    <2>1. calls' \in Nat /\ cache[i][j] \in Envelope
        BY <1>4, <1>c, <1>e DEF ModifyJob
    <2>2. /\ ClientUpdate(i, j, cache[i][j]) /\ UNCHANGED Undisturbed
          /\ removed' \subseteq Instances \X JobIds
        BY <1>4 DEF ModifyJob, TypeOK
    <2> QED BY <2>1, <2>2, ClientUpdateTypes
<1>5. ASSUME NEW j \in JobIds, PauseJob(i, j) PROVE TypeOK'
    <2>1. calls' \in Nat /\ Paused(cache[i][j]) \in Envelope
        BY <1>5, <1>c, <1>e, PausedType DEF PauseJob
    <2>2. /\ ClientUpdate(i, j, Paused(cache[i][j])) /\ UNCHANGED Undisturbed
          /\ removed' \subseteq Instances \X JobIds
        BY <1>5 DEF PauseJob, TypeOK
    <2> QED BY <2>1, <2>2, ClientUpdateTypes
<1>6. ASSUME NEW j \in JobIds, ResumeJob(i, j) PROVE TypeOK'
    <2> DEFINE new == Rescheduled(cache[i][j], cache[i][j].trigger, clock)
    <2>1. clock \in Time /\ calls' \in Nat /\ cache[i][j] # NoEnvelope
        BY <1>6, <1>c DEF ResumeJob
    <2>2. new \in Envelope
        BY <2>1, <1>e, RescheduledType
    <2>3. /\ ClientUpdate(i, j, new) /\ UNCHANGED Undisturbed
          /\ removed' \subseteq Instances \X JobIds
        BY <1>6 DEF ResumeJob, TypeOK
    <2> HIDE DEF new
    <2> QED BY <2>1, <2>2, <2>3, ClientUpdateTypes
<1>7. ASSUME NEW j \in JobIds, ResumeFinishedJob(i, j) PROVE TypeOK'
    BY <1>7, <1>c, DropJobType DEF ResumeFinishedJob, Undisturbed, TypeOK
<1>8. ASSUME NEW j \in JobIds, RemoveJob(i, j) PROVE TypeOK'
    BY <1>8, <1>c, DropJobType DEF RemoveJob, Undisturbed, TypeOK
<1>9. CASE RemoveAllJobs(i)
    <2>1. EmptyCache \in [JobIds -> Slot] /\ calls' \in Nat
        BY <1>9, <1>c DEF RemoveAllJobs, EmptyCache, Slot
    <2>2. bucket' \in [JobIds -> Slot] /\ removed' \subseteq Instances \X JobIds
        BY <1>9 DEF RemoveAllJobs, Slot, TypeOK
    <2> QED BY <1>9, <2>1, <2>2 DEF RemoveAllJobs, Undisturbed, TypeOK
<1> QED BY <1>1, <1>2, <1>3, <1>4, <1>5, <1>6, <1>7, <1>8, <1>9 DEF Client

-----------------------------------------------------------------------------
(* Rounds *)

LEMMA RoundRounds ==
    ASSUME Shape, NEW i \in Instances, Round(i)
    PROVE  RoundOK'
<1> USE DEF Shape, TypeOK, RoundOK, SavingOK, DueOK, Runs
<1>1. CASE Wake(i)
    BY <1>1 DEF Wake
<1>2. CASE List(i)
    BY <1>2 DEF List
<1>3. CASE FindDue(i)
    <2>1. /\ pc[i] = "fetch" /\ pc' = [pc EXCEPT ![i] = "run"]
          /\ due' = [due EXCEPT ![i] = Found(i)]
          /\ UNCHANGED <<cache, now, saving, covered>>
        BY <1>3 DEF FindDue
    <2>2. \A j \in JobIds : Found(i)[j] # None =>
             /\ cache[i][j] # NoEnvelope
             /\ JobTargetsMe(i, cache[i][j].target)
             /\ cache[i][j].nrt # None
             /\ Found(i)[j] <= now[i]
             /\ FollowsEveryFire(cache[i][j]) => Found(i)[j] = cache[i][j].nrt
        BY FoundFacts, NoEnvelopeAssumption
    <2>3. saving[i] = {}
        BY <2>1
    <2>4. ASSUME NEW k \in Instances PROVE SavingOK(k)'
        BY <2>1, <2>3
    <2>5. ASSUME NEW k \in Instances, NEW j \in JobIds PROVE DueOK(k, j)'
        <3>1. CASE k = i
            <4>1. due'[i][j] = Found(i)[j] /\ pc'[i] = "run"
                BY <2>1
            <4> QED BY <2>1, <2>2, <3>1, <4>1
        <3>2. CASE k # i
            <4>1. due'[k] = due[k] /\ pc'[k] = pc[k]
                BY <2>1, <3>2
            <4> QED BY <2>1, <4>1
        <3> QED BY <3>1, <3>2
    <2> QED BY <2>4, <2>5
<1>4. CASE EndRound(i)
    BY <1>4 DEF EndRound, Sleep, Nothing
<1>5. ASSUME NEW j \in JobIds, Fetch(i, j) PROVE RoundOK'
    BY <1>5 DEF Fetch
<1>6. ASSUME NEW j \in JobIds, Submit(i, j) PROVE RoundOK'
    BY <1>6 DEF Submit, IsNextDue
<1>7. ASSUME NEW j \in JobIds, Save(i, j) PROVE RoundOK'
    <2> DEFINE e == [cache[i][j] EXCEPT !.nrt = Following(i, j)]
    <2>1. due[i][j] # None /\ saving[i] = {j} /\ pc[i] = "save"
        BY <1>7 DEF Save
    <2>2. e \in Envelope /\ cache[i][j] \in Envelope
        BY <2>1, DueRuns, AdvancedType
    <2>3. /\ e # NoEnvelope /\ e.nrt # None
          /\ e.target = cache[i][j].target /\ e.trigger = cache[i][j].trigger
        BY <1>7, <2>2, EnvelopeFields DEF Envelope, Save
    <2>4. /\ cache' = [cache EXCEPT ![i][j] = e]
          /\ UNCHANGED <<now, covered>>
          /\ \/ pc' = [pc EXCEPT ![i] = "receipt"] /\ UNCHANGED <<due, saving>>
             \/ pc' = [pc EXCEPT ![i] = "run"] /\ DoneWith(i, j)
        BY <1>7 DEF Save, UpdateJob
    <2> HIDE DEF e
    <2>5. CASE pc' = [pc EXCEPT ![i] = "receipt"] /\ UNCHANGED <<due, saving>>
        BY <2>1, <2>3, <2>4, <2>5
    <2>6. CASE pc' = [pc EXCEPT ![i] = "run"] /\ DoneWith(i, j)
        BY <2>1, <2>4, <2>6 DEF DoneWith
    <2> QED BY <2>4, <2>5, <2>6
<1>8. ASSUME NEW j \in JobIds, WriteReceipt(i, j) PROVE RoundOK'
    BY <1>8 DEF WriteReceipt, DoneWith
<1>9. ASSUME NEW j \in JobIds, Finish(i, j) PROVE RoundOK'
    BY <1>9 DEF Finish, DoneWith, DropJob
<1> QED BY <1>1, <1>2, <1>3, <1>4, <1>5, <1>6, <1>7, <1>8, <1>9 DEF Round

LEMMA BrokenRounds ==
    ASSUME Shape, NEW i \in Instances, Broken(i)
    PROVE  RoundOK'
<1> USE DEF Shape, TypeOK, RoundOK, SavingOK, DueOK, Runs
<1>1. CASE FetchFails(i)
    BY <1>1 DEF FetchFails, Sleep
<1>2. CASE SaveFails(i)
    BY <1>2 DEF SaveFails, Nothing
<1>3. CASE Crash(i)
    BY <1>3 DEF Crash, Nothing
<1>4. ASSUME NEW j \in JobIds, NoExecutor(i, j) PROVE RoundOK'
    BY <1>4 DEF NoExecutor, DropJob
<1>5. ASSUME NEW j \in JobIds, NEW S \in SUBSET JobIds, RestoreFails(i, j, S)
      PROVE  RoundOK'
    BY <1>5 DEF RestoreFails, Sleep
<1> QED BY <1>1, <1>2, <1>3, <1>4, <1>5 DEF Broken

\* A client call leaves the rounds alone, and the other instances altogether.
LEMMA ClientsKeepOut ==
    ASSUME TypeOK, NEW i \in Instances, Client(i)
    PROVE  /\ pc[i] \in {"idle", "waking", "dead"}
           /\ UNCHANGED Undisturbed
           /\ \A k \in Instances \ {i} : cache'[k] = cache[k] /\ woken'[k] = woken[k]
<1>1. PICK name : Call(i, name)
    BY DEF Client, AddJob, ReplaceJob, RescheduleJob, ModifyJob, PauseJob, ResumeJob,
           ResumeFinishedJob, RemoveJob, RemoveAllJobs
<1>2. UNCHANGED Undisturbed
    BY DEF Client, AddJob, ReplaceJob, RescheduleJob, ModifyJob, PauseJob, ResumeJob,
           ResumeFinishedJob, RemoveJob, RemoveAllJobs
<1>3. \A k \in Instances \ {i} : cache'[k] = cache[k]
    BY DEF Client, AddJob, ReplaceJob, RescheduleJob, ModifyJob, PauseJob, ResumeJob,
           ResumeFinishedJob, RemoveJob, RemoveAllJobs, ClientUpdate, UpdateJob, DropJob,
           TypeOK
<1>4. \A k \in Instances \ {i} : woken'[k] = woken[k]
    BY DEF Client, AddJob, ReplaceJob, RescheduleJob, ModifyJob, PauseJob, ResumeJob,
           ResumeFinishedJob, RemoveJob, RemoveAllJobs, ClientUpdate, Wakeup, TypeOK
<1> QED BY <1>1, <1>2, <1>3, <1>4 DEF Call

\* A client is served outside a round, when no job of its instance is due.
LEMMA ClientRounds ==
    ASSUME Shape, NEW i \in Instances, Client(i)
    PROVE  RoundOK'
BY ClientsKeepOut DEF Undisturbed, Shape, RoundOK, SavingOK, DueOK, Runs

LEMMA NextShape ==
    ASSUME Shape, [Next]_vars
    PROVE  Shape'
<1>1. CASE Tick
    BY <1>1 DEF Tick, Shape, TypeOK, RoundOK, SavingOK, DueOK, Runs, Time
<1>2. ASSUME NEW i \in Instances, Round(i) PROVE Shape'
    BY <1>2, RoundTypes, RoundRounds DEF Shape
<1>3. ASSUME NEW i \in Instances, Broken(i) PROVE Shape'
    BY <1>3, BrokenTypes, BrokenRounds DEF Shape
<1>4. ASSUME NEW i \in Instances, Start(i) PROVE Shape'
    BY <1>4 DEF Start, Shape, TypeOK, RoundOK, SavingOK, DueOK, Runs
<1>5. ASSUME NEW i \in Instances, Client(i) PROVE Shape'
    BY <1>5, ClientTypes, ClientRounds DEF Shape
<1>6. CASE UNCHANGED vars
    BY <1>6 DEF vars, Shape, TypeOK, RoundOK, SavingOK, DueOK, Runs
<1> QED BY <1>1, <1>2, <1>3, <1>4, <1>5, <1>6 DEF Next

\* The type invariant, and with it that a job waits to be run only within a
\* round of an instance it targets, for a time that has come.
THEOREM ShapeInvariant == Spec => []Shape
<1> QED BY InitShape, NextShape, PTL DEF Spec

\* Every state of every cluster has its type.
THEOREM TypeInvariant == Spec => []TypeOK
<1>1. Shape => TypeOK
    BY DEF Shape
<1> QED BY <1>1, ShapeInvariant, PTL

-----------------------------------------------------------------------------
(* No loop oversleeps *)

\* NeverOversleeps, for one instance.
SleepsWell(i) ==
    up[i] /\ pc[i] = "idle" /\ ~woken[i] =>
        \A j \in Scheduled(i, cache[i]) :
            /\ delay[i] # None
            /\ \/ delay[i] <= Max({cache[i][j].nrt - now[i], 0})
               \/ faults > 0 /\ delay[i] = RetryInterval

\* What is asleep stays well asleep, whatever fault occurs elsewhere.
LEMMA SleepsOn ==
    ASSUME NEW k \in Instances, SleepsWell(k), faults \in Nat,
           faults' = faults \/ faults' = faults + 1,
           up'[k] = up[k], pc'[k] = pc[k], woken'[k] = woken[k], delay'[k] = delay[k],
           now'[k] = now[k], cache'[k] = cache[k]
    PROVE  SleepsWell(k)'
<1>1. faults > 0 => faults' > 0
    OBVIOUS
<1> QED BY <1>1 DEF SleepsWell

\* The wait that a round ends with suits every job in the cache.
LEMMA WaitIsShort ==
    ASSUME TypeOK, NEW i \in Instances, NEW j \in Scheduled(i, cache[i])
    PROVE  LET next == NextRunTime(i, cache[i])
               wait == Max({next - now[i], 0})
           IN  /\ next # None /\ wait # None
               /\ wait <= Max({cache[i][j].nrt - now[i], 0})
<1> DEFINE next == NextRunTime(i, cache[i])
           times == {cache[i][k].nrt : k \in Scheduled(i, cache[i])}
           nrt == cache[i][j].nrt
<1>1. times \in SUBSET Time
    <2>1. ASSUME NEW k \in Scheduled(i, cache[i]) PROVE cache[i][k].nrt \in Time
        BY SlotCases, EnvelopeFields DEF Scheduled, TimeOrNone, TypeOK
    <2> QED BY <2>1
<1>2. nrt \in times /\ nrt \in Time
    BY <1>1
<1>3. next \in Time /\ next <= nrt
    BY <1>1, <1>2, MinOfNaturals DEF NextRunTime, Earliest, Time
<1> HIDE DEF next, nrt, times
<1> DEFINE early == next - now[i]
           late == nrt - now[i]
<1>4. early \in Int /\ late \in Int /\ early <= late
    BY <1>2, <1>3 DEF TypeOK, Time
<1> HIDE DEF early, late
<1>5. /\ Max({early, 0}) \in Nat
      /\ Max({early, 0}) = IF early > 0 THEN early ELSE 0
      /\ Max({late, 0}) = IF late > 0 THEN late ELSE 0
    BY <1>4, MaxOfTwo
<1>6. Max({early, 0}) # None /\ Max({early, 0}) <= Max({late, 0})
    BY <1>4, <1>5 DEF None
<1> QED BY <1>3, <1>6 DEF early, late, next, nrt, None, Time

LEMMA RoundSleeps ==
    ASSUME TypeOK, NEW i \in Instances, Round(i), \A k \in Instances : SleepsWell(k)
    PROVE  \A k \in Instances : SleepsWell(k)'
<1> USE DEF TypeOK, SleepsWell
<1>1. CASE EndRound(i)
    <2> DEFINE next == NextRunTime(i, cache[i])
               wait == Max({next - now[i], 0})
    <2>1. /\ delay' = [delay EXCEPT ![i] = IF next = None THEN None ELSE wait]
          /\ UNCHANGED <<cache, now, up, woken, faults>>
          /\ pc' = [pc EXCEPT ![i] = "idle"]
        BY <1>1 DEF EndRound, Sleep, Wait
    <2>2. \A j \in Scheduled(i, cache[i]) :
             /\ next # None /\ wait # None
             /\ wait <= Max({cache[i][j].nrt - now[i], 0})
        BY WaitIsShort
    <2> HIDE DEF next, wait
    <2>3. Scheduled(i, cache[i]) # {} => delay'[i] # None /\ delay'[i] = wait
        BY <2>1, <2>2
    <2>4. SleepsWell(i)'
        BY <2>1, <2>2, <2>3
    <2>5. ASSUME NEW k \in Instances \ {i} PROVE SleepsWell(k)'
        BY <2>1, SleepsOn
    <2> QED BY <2>4, <2>5
<1>2. CASE Wake(i)
    BY <1>2 DEF Wake
<1>3. CASE List(i)
    BY <1>3 DEF List
<1>4. CASE FindDue(i)
    BY <1>4 DEF FindDue
<1>5. ASSUME NEW j \in JobIds, Fetch(i, j) PROVE \A k \in Instances : SleepsWell(k)'
    BY <1>5 DEF Fetch
<1>6. ASSUME NEW j \in JobIds, Submit(i, j) PROVE \A k \in Instances : SleepsWell(k)'
    BY <1>6 DEF Submit
<1>7. ASSUME NEW j \in JobIds, Save(i, j) PROVE \A k \in Instances : SleepsWell(k)'
    <2>1. /\ pc' = [pc EXCEPT ![i] = pc'[i]] /\ pc'[i] # "idle"
          /\ \A k \in Instances \ {i} : cache'[k] = cache[k]
          /\ UNCHANGED <<up, woken, delay, now, faults>>
        BY <1>7 DEF Save, UpdateJob, DoneWith
    <2>2. SleepsWell(i)'
        BY <2>1
    <2>3. ASSUME NEW k \in Instances \ {i} PROVE SleepsWell(k)'
        BY <2>1, SleepsOn
    <2> QED BY <2>2, <2>3
<1>8. ASSUME NEW j \in JobIds, WriteReceipt(i, j)
      PROVE  \A k \in Instances : SleepsWell(k)'
    BY <1>8 DEF WriteReceipt
<1>9. ASSUME NEW j \in JobIds, Finish(i, j) PROVE \A k \in Instances : SleepsWell(k)'
    BY <1>9 DEF Finish, DropJob
<1> QED BY <1>1, <1>2, <1>3, <1>4, <1>5, <1>6, <1>7, <1>8, <1>9 DEF Round

LEMMA BrokenSleeps ==
    ASSUME TypeOK, NEW i \in Instances, Broken(i), \A k \in Instances : SleepsWell(k)
    PROVE  \A k \in Instances : SleepsWell(k)'
<1> USE DEF TypeOK
<1>1. faults \in Nat /\ faults' = faults + 1 /\ faults' > 0
    BY DEF Broken, FetchFails, SaveFails, Crash, NoExecutor, RestoreFails, Fault
<1>2. ASSUME NEW k \in Instances \ {i} PROVE SleepsWell(k)'
    <2>1. /\ up'[k] = up[k] /\ pc'[k] = pc[k] /\ woken'[k] = woken[k]
          /\ delay'[k] = delay[k] /\ now'[k] = now[k] /\ cache'[k] = cache[k]
        BY DEF Broken, FetchFails, SaveFails, Crash, NoExecutor, RestoreFails, Sleep,
               DropJob
    <2> QED BY <1>1, <2>1, SleepsOn
<1>3. \/ delay'[i] = RetryInterval
      \/ pc'[i] # "idle"
      \/ ~up'[i]
    BY DEF Broken, FetchFails, SaveFails, Crash, NoExecutor, RestoreFails, Sleep, DropJob
<1>4. RetryInterval # None
    BY ClusterAssumption DEF None
<1>5. SleepsWell(i)'
    BY <1>1, <1>3, <1>4 DEF SleepsWell
<1> QED BY <1>2, <1>5

\* A client that may bring a run forward sets the event; one that does not
\* only takes jobs out of the cache.
LEMMA ClientSleeps ==
    ASSUME TypeOK, NEW i \in Instances, Client(i), \A k \in Instances : SleepsWell(k)
    PROVE  \A k \in Instances : SleepsWell(k)'
<1> USE DEF TypeOK, SleepsWell
<1>1. /\ UNCHANGED <<up, pc, now, delay, faults>>
      /\ \A k \in Instances \ {i} : cache'[k] = cache[k] /\ woken'[k] = woken[k]
    BY ClientsKeepOut DEF Undisturbed
<1>2. \/ woken'[i]
      \/ /\ woken'[i] = woken[i]
         /\ \A j \in JobIds : cache'[i][j] = NoEnvelope \/ cache'[i][j] = cache[i][j]
    <2>1. CASE RemoveAllJobs(i)
        BY <2>1 DEF RemoveAllJobs, EmptyCache
    <2>2. ASSUME NEW j \in JobIds, RemoveJob(i, j) \/ ResumeFinishedJob(i, j)
          PROVE  /\ woken'[i] = woken[i]
                 /\ \A m \in JobIds : \/ cache'[i][m] = NoEnvelope
                                      \/ cache'[i][m] = cache[i][m]
        BY <2>2 DEF RemoveJob, ResumeFinishedJob, DropJob
    <2>3. ASSUME NEW j \in JobIds, Wakeup(i) PROVE woken'[i]
        BY <2>3 DEF Wakeup
    <2> QED BY <2>1, <2>2, <2>3 DEF Client, AddJob, ReplaceJob, RescheduleJob, ModifyJob,
                PauseJob, ResumeJob, ClientUpdate
<1>3. ~woken'[i] => \A j \in Scheduled(i, cache'[i]) :
                       j \in Scheduled(i, cache[i]) /\ cache'[i][j] = cache[i][j]
    BY <1>2 DEF Scheduled
<1>4. SleepsWell(i)'
    BY <1>1, <1>2, <1>3
<1>5. ASSUME NEW k \in Instances \ {i} PROVE SleepsWell(k)'
    BY <1>1
<1> QED BY <1>4, <1>5

\* A loop that sleeps has either been woken or sleeps no longer than the job
\* that comes first in its cache allows: no wake-up of a client is lost.
THEOREM NeverOversleepsHolds == Spec => []NeverOversleeps
<1>1. NeverOversleeps <=> \A i \in Instances : SleepsWell(i)
    BY DEF NeverOversleeps, SleepsWell
<1>2. Init => NeverOversleeps
    BY DEF Init, NeverOversleeps
<1>3. ASSUME TypeOK, NeverOversleeps, [Next]_vars PROVE NeverOversleeps'
    <2> SUFFICES \A k \in Instances : SleepsWell(k)'
        BY DEF NeverOversleeps, SleepsWell
    <2>h. \A k \in Instances : SleepsWell(k)
        BY <1>1, <1>3
    <2>1. CASE Tick
        BY <2>1, <2>h DEF Tick, SleepsWell
    <2>2. ASSUME NEW i \in Instances, Round(i) PROVE \A k \in Instances : SleepsWell(k)'
        BY <1>3, <2>2, <2>h, RoundSleeps
    <2>3. ASSUME NEW i \in Instances, Broken(i) PROVE \A k \in Instances : SleepsWell(k)'
        BY <1>3, <2>3, <2>h, BrokenSleeps
    <2>4. ASSUME NEW i \in Instances, Start(i) PROVE \A k \in Instances : SleepsWell(k)'
        BY <1>3, <2>4, <2>h DEF Start, SleepsWell, TypeOK
    <2>5. ASSUME NEW i \in Instances, Client(i) PROVE \A k \in Instances : SleepsWell(k)'
        BY <1>3, <2>5, <2>h, ClientSleeps
    <2>6. CASE UNCHANGED vars
        BY <2>6, <2>h DEF vars, SleepsWell
    <2> QED BY <1>3, <2>1, <2>2, <2>3, <2>4, <2>5, <2>6 DEF Next
<1> QED BY <1>2, <1>3, TypeInvariant, PTL DEF Spec

-----------------------------------------------------------------------------
(* A broadcast job that its creator has removed is not put back              *)

\* CreatorRemovesForGood is not inductive: the object comes back from a cache,
\* and only from the creator's own, the one that may write it.
LetGo(i, j) == ~BroadcastOf(i, bucket[j]) /\ ~BroadcastOf(i, cache[i][j])

AllLetGo == \A x \in removed : LetGo(x[1], x[2])

\* What an update writes is of the kind of what is in the cache.
LEMMA UpdateLetsGo ==
    ASSUME TypeOK, AllLetGo, NEW i \in Instances, NEW j \in JobIds, NEW e,
           e # NoEnvelope => /\ e.target = cache[i][j].target
                             /\ e.creator = cache[i][j].creator,
           cache[i][j] # NoEnvelope,
           UpdateJob(i, j, e), removed' \subseteq removed
    PROVE  AllLetGo'
<1> SUFFICES ASSUME NEW x \in removed' PROVE LetGo(x[1], x[2])'
    BY DEF AllLetGo
<1>1. LetGo(x[1], x[2]) /\ x[1] \in Instances /\ x[2] \in JobIds
    BY DEF AllLetGo, TypeOK
<1>2. BroadcastOf(x[1], e) => BroadcastOf(x[1], cache[i][j])
    BY DEF BroadcastOf, IsBroadcast
<1>3. BroadcastOf(x[1], bucket'[x[2]]) => BroadcastOf(x[1], bucket[x[2]])
    <2>1. CASE x[2] = j /\ MayWrite(i, cache[i][j])
        <3>1. ~(x[1] # i /\ BroadcastOf(x[1], cache[i][j]))
            BY <2>1 DEF MayWrite, BroadcastOf
        <3>2. ~BroadcastOf(x[1], cache[i][j])
            BY <1>1, <2>1, <3>1 DEF LetGo
        <3>3. bucket'[x[2]] = e
            BY <1>1, <2>1 DEF UpdateJob, TypeOK
        <3> QED BY <1>2, <3>2, <3>3
    <2>2. CASE ~(x[2] = j /\ MayWrite(i, cache[i][j]))
        BY <1>1, <2>2 DEF UpdateJob, TypeOK
    <2> QED BY <2>1, <2>2
<1>4. BroadcastOf(x[1], cache'[x[1]][x[2]]) => BroadcastOf(x[1], cache[x[1]][x[2]])
    BY <1>1, <1>2 DEF UpdateJob, TypeOK
<1> QED BY <1>1, <1>3, <1>4 DEF LetGo, BroadcastOf

\* A removal, whether a client asks for it or the scheduler.
LEMMA DropLetsGo ==
    ASSUME TypeOK, AllLetGo, NEW i \in Instances, NEW j \in JobIds,
           DropJob(i, j), removed' \subseteq removed \cup {<<i, j>>}
    PROVE  AllLetGo'
BY DEF TypeOK, AllLetGo, LetGo, BroadcastOf, DropJob

LEMMA RoundLetsGo ==
    ASSUME Shape, AllLetGo, NEW i \in Instances, Round(i)
    PROVE  AllLetGo'
<1> USE DEF Shape
<1>1. CASE Wake(i) \/ FindDue(i) \/ EndRound(i)
    BY <1>1 DEF Wake, FindDue, EndRound, AllLetGo, LetGo, BroadcastOf
<1>2. CASE List(i)
    BY <1>2 DEF List, EmptyCache, TypeOK, AllLetGo, LetGo, BroadcastOf
<1>3. ASSUME NEW j \in JobIds, Fetch(i, j) PROVE AllLetGo'
    BY <1>3 DEF Fetch, TypeOK, AllLetGo, LetGo, BroadcastOf
<1>4. ASSUME NEW j \in JobIds, Submit(i, j) \/ WriteReceipt(i, j) PROVE AllLetGo'
    BY <1>4 DEF Submit, WriteReceipt, AllLetGo, LetGo, BroadcastOf
<1>5. ASSUME NEW j \in JobIds, Save(i, j) PROVE AllLetGo'
    <2> DEFINE e == [cache[i][j] EXCEPT !.nrt = Following(i, j)]
    <2>1. cache[i][j] # NoEnvelope
        BY <1>5 DEF Save, RoundOK, SavingOK, DueOK
    <2>2. UpdateJob(i, j, e) /\ removed' = removed
        BY <1>5 DEF Save
    <2>3. e.target = cache[i][j].target /\ e.creator = cache[i][j].creator
        BY <2>1, SlotCases DEF TypeOK, Envelope
    <2> HIDE DEF e
    <2> QED BY <2>1, <2>2, <2>3, UpdateLetsGo
<1>6. ASSUME NEW j \in JobIds, Finish(i, j) PROVE AllLetGo'
    BY <1>6, DropLetsGo DEF Finish
<1> QED BY <1>1, <1>2, <1>3, <1>4, <1>5, <1>6 DEF Round

LEMMA BrokenLetsGo ==
    ASSUME TypeOK, AllLetGo, NEW i \in Instances, Broken(i)
    PROVE  AllLetGo'
<1>1. CASE FetchFails(i) \/ SaveFails(i)
    BY <1>1 DEF FetchFails, SaveFails, AllLetGo, LetGo, BroadcastOf
<1>2. CASE Crash(i)
    BY <1>2 DEF Crash, EmptyCache, TypeOK, AllLetGo, LetGo, BroadcastOf
<1>3. ASSUME NEW j \in JobIds, NoExecutor(i, j) PROVE AllLetGo'
    BY <1>3, DropLetsGo DEF NoExecutor
<1>4. ASSUME NEW j \in JobIds, NEW S \in SUBSET JobIds, RestoreFails(i, j, S)
      PROVE  AllLetGo'
    BY <1>4 DEF RestoreFails, AllLetGo, LetGo, BroadcastOf
<1> QED BY <1>1, <1>2, <1>3, <1>4 DEF Broken

\* A client call updates a job of the cache with one of the same kind, unless
\* it adds one, which is then no longer a removed job.
LEMMA ClientLetsGo ==
    ASSUME TypeOK, AllLetGo, NEW i \in Instances, Client(i)
    PROVE  AllLetGo'
<1>e. ASSUME NEW j \in JobIds, cache[i][j] # NoEnvelope
      PROVE  cache[i][j] \in Envelope
    BY <1>e, SlotCases DEF TypeOK
<1>a. ASSUME NEW j \in JobIds
      PROVE  /\ AddedAgain(j) \subseteq removed
             /\ \A x \in AddedAgain(j) : x[2] # j
    BY DEF AddedAgain, TypeOK
<1>1. ASSUME NEW j \in JobIds, NEW r \in Requests, AddJob(i, j, r) PROVE AllLetGo'
    <2>1. \A x \in removed' : x \in removed /\ x[2] # j
        BY <1>1, <1>a DEF AddJob
    <2>2. \A x \in removed' : /\ bucket'[x[2]] = bucket[x[2]]
                              /\ cache'[x[1]][x[2]] = cache[x[1]][x[2]]
        BY <1>1, <2>1 DEF AddJob, TypeOK
    <2> QED BY <2>1, <2>2 DEF AllLetGo, LetGo, BroadcastOf
<1>2. ASSUME NEW j \in JobIds, NEW r \in Requests, ReplaceJob(i, j, r) PROVE AllLetGo'
    <2> DEFINE c == [cache[i][j] EXCEPT !.coalesce = r.coalesce]
               e == Rescheduled(c, r.trigger, clock)
    <2>1. cache[i][j] # NoEnvelope /\ UpdateJob(i, j, e) /\ removed' \subseteq removed
        BY <1>2, <1>a DEF ReplaceJob, ClientUpdate
    <2>2. e.target = cache[i][j].target /\ e.creator = cache[i][j].creator
        BY <2>1, <1>e DEF Rescheduled, Envelope
    <2> HIDE DEF e
    <2> QED BY <2>1, <2>2, UpdateLetsGo
<1>3. ASSUME NEW j \in JobIds, NEW trigger, NEW t,
             cache[i][j] # NoEnvelope, removed' = removed,
             \/ UpdateJob(i, j, cache[i][j])
             \/ UpdateJob(i, j, Paused(cache[i][j]))
             \/ UpdateJob(i, j, Rescheduled(cache[i][j], trigger, t))
      PROVE  AllLetGo'
    <2> DEFINE e == Rescheduled(cache[i][j], trigger, t)
               p == Paused(cache[i][j])
    <2>1. e.target = cache[i][j].target /\ e.creator = cache[i][j].creator
        BY <1>3, <1>e DEF Rescheduled, Envelope
    <2>2. p.target = cache[i][j].target /\ p.creator = cache[i][j].creator
        BY <1>3, <1>e DEF Paused, Envelope
    <2>3. \/ UpdateJob(i, j, cache[i][j]) \/ UpdateJob(i, j, p) \/ UpdateJob(i, j, e)
        BY <1>3
    <2> HIDE DEF e, p
    <2> QED BY <1>3, <2>1, <2>2, <2>3, UpdateLetsGo
<1>4. ASSUME NEW j \in JobIds, NEW r \in Requests, RescheduleJob(i, j, r) PROVE AllLetGo'
    BY <1>3, <1>4 DEF RescheduleJob, ClientUpdate
<1>5. ASSUME NEW j \in JobIds, ModifyJob(i, j) \/ PauseJob(i, j) \/ ResumeJob(i, j)
      PROVE  AllLetGo'
    BY <1>3, <1>5 DEF ModifyJob, PauseJob, ResumeJob, ClientUpdate
<1>6. ASSUME NEW j \in JobIds, ResumeFinishedJob(i, j) \/ RemoveJob(i, j)
      PROVE  AllLetGo'
    BY <1>6, DropLetsGo DEF ResumeFinishedJob, RemoveJob
<1>7. CASE RemoveAllJobs(i)
    BY <1>7 DEF RemoveAllJobs, EmptyCache, TypeOK, AllLetGo, LetGo, BroadcastOf
<1> QED BY <1>1, <1>2, <1>4, <1>5, <1>6, <1>7 DEF Client

\* With any number of instances, and whatever fails or restarts, a broadcast job
\* that a client has removed in the process of its creator is not put back: the
\* copies that other instances run and update stay in their caches.
THEOREM CreatorRemovesForGoodHolds == Spec => []CreatorRemovesForGood
<1>1. Init => AllLetGo
    BY DEF Init, AllLetGo
<1>2. ASSUME Shape, AllLetGo, [Next]_vars PROVE AllLetGo'
    <2>1. CASE Tick
        BY <1>2, <2>1 DEF Tick, AllLetGo, LetGo, BroadcastOf
    <2>2. ASSUME NEW i \in Instances, Round(i) PROVE AllLetGo'
        BY <1>2, <2>2, RoundLetsGo
    <2>3. ASSUME NEW i \in Instances, Broken(i) PROVE AllLetGo'
        BY <1>2, <2>3, BrokenLetsGo DEF Shape
    <2>4. ASSUME NEW i \in Instances, Start(i) PROVE AllLetGo'
        BY <1>2, <2>4 DEF Start, AllLetGo, LetGo, BroadcastOf
    <2>5. ASSUME NEW i \in Instances, Client(i) PROVE AllLetGo'
        BY <1>2, <2>5, ClientLetsGo DEF Shape
    <2>6. CASE UNCHANGED vars
        BY <1>2, <2>6 DEF vars, AllLetGo, LetGo, BroadcastOf
    <2> QED BY <1>2, <2>1, <2>2, <2>3, <2>4, <2>5, <2>6 DEF Next
<1>3. AllLetGo => CreatorRemovesForGood
    BY DEF AllLetGo, LetGo, CreatorRemovesForGood
<1> QED BY <1>1, <1>2, <1>3, ShapeInvariant, PTL DEF Spec

-----------------------------------------------------------------------------
(* No fire time is skipped, and none of an interval job broadcast to many   *)
(* is run twice by one process.                                              *)

\* NothingSkipped is kept up only if the fire times passed over are those of
\* the schedule that began at "first": next_run_time is on that schedule.
\* "done" are the run times given to each executor.
KeepsPace(done, j, e) ==
    e # NoEnvelope /\ e.nrt # None /\ FollowsEveryFire(e) =>
        /\ e.first # None
        /\ OnSchedule(e.trigger, e.first, e.nrt)
        /\ \A t \in e.first .. e.nrt - 1 :
              OnSchedule(e.trigger, e.first, t) => t \in done[Advancer(e)][j]

\* It is so of the objects in S3 and of the copies an instance may write back.
AllKeepPace ==
    \A j \in JobIds :
        /\ KeepsPace(covered, j, bucket[j])
        /\ \A i \in Instances :
              cache[i][j] # NoEnvelope /\ MayWrite(i, cache[i][j])
                  => KeepsPace(covered, j, cache[i][j])

\* A schedule that a client starts anew has nothing to skip yet.
LEMMA AnewKeepsPace ==
    ASSUME NEW done, NEW j \in JobIds, NEW e \in Envelope, e.first = e.nrt
    PROVE  KeepsPace(done, j, e)
<1> SUFFICES ASSUME e.nrt # None
             PROVE  e.first .. e.nrt - 1 = {}
    BY DEF KeepsPace, OnSchedule
<1>1. e.first \in Int /\ e.nrt \in Int
    BY EnvelopeFields DEF TimeOrNone, Time
<1> QED BY <1>1

\* Runs once given to an executor stay given.
LEMMA DoneGrows ==
    ASSUME NEW done, NEW more, NEW j \in JobIds, NEW e \in Slot, KeepsPace(done, j, e),
           \A i \in Instances : done[i][j] \subseteq more[i][j]
    PROVE  KeepsPace(more, j, e)
<1>1. e # NoEnvelope => Advancer(e) \in Instances
    BY SlotCases, EnvelopeFields DEF Advancer, IsBroadcast, Targets
<1> QED BY <1>1 DEF KeepsPace

\* A step that only takes copies away, or puts copies that keep pace.
LEMMA PaceStep ==
    ASSUME TypeOK, AllKeepPace,
           \A i \in Instances, j \in JobIds : covered[i][j] \subseteq covered'[i][j],
           \A j \in JobIds :
              \/ bucket'[j] \in {NoEnvelope, bucket[j]}
              \/ KeepsPace(covered', j, bucket'[j]),
           \A i \in Instances, j \in JobIds :
              \/ cache'[i][j] \in {NoEnvelope, cache[i][j]}
              \/ MayWrite(i, cache'[i][j]) => KeepsPace(covered', j, cache'[i][j])
    PROVE  AllKeepPace'
<1>1. ASSUME NEW j \in JobIds PROVE KeepsPace(covered', j, bucket'[j])
    <2>1. CASE bucket'[j] = NoEnvelope
        BY <2>1 DEF KeepsPace
    <2>2. CASE bucket'[j] = bucket[j]
        <3>1. bucket[j] \in Slot /\ KeepsPace(covered, j, bucket[j])
            BY DEF TypeOK, AllKeepPace
        <3> QED BY <2>2, <3>1, DoneGrows
    <2> QED BY <2>1, <2>2
<1>2. ASSUME NEW i \in Instances, NEW j \in JobIds,
             cache'[i][j] # NoEnvelope, MayWrite(i, cache'[i][j])
      PROVE  KeepsPace(covered', j, cache'[i][j])
    <2>1. CASE cache'[i][j] = cache[i][j]
        <3>1. cache[i][j] \in Slot /\ KeepsPace(covered, j, cache[i][j])
            BY <1>2, <2>1 DEF TypeOK, AllKeepPace
        <3> QED BY <2>1, <3>1, DoneGrows
    <2> QED BY <1>2, <2>1
<1> QED BY <1>1, <1>2 DEF AllKeepPace

\* A PUT of update_job, and the same copy in the cache.
LEMMA UpdateKeepsPace ==
    ASSUME TypeOK, AllKeepPace, UNCHANGED covered,
           NEW i \in Instances, NEW j \in JobIds, NEW e, UpdateJob(i, j, e),
           e.target = cache[i][j].target, e.creator = cache[i][j].creator,
           MayWrite(i, cache[i][j]) => KeepsPace(covered, j, e)
    PROVE  AllKeepPace'
<1>1. MayWrite(i, e) <=> MayWrite(i, cache[i][j])
    BY DEF MayWrite, IsBroadcast
<1>2. \A k \in JobIds : \/ bucket'[k] = bucket[k]
                        \/ KeepsPace(covered', k, bucket'[k])
    BY DEF UpdateJob, TypeOK
<1>3. \A m \in Instances, k \in JobIds :
          \/ cache'[m][k] = cache[m][k]
          \/ MayWrite(m, cache'[m][k]) => KeepsPace(covered', k, cache'[m][k])
    BY <1>1 DEF UpdateJob, TypeOK
<1> QED BY <1>2, <1>3, PaceStep

\* A DELETE, and the same in the cache.
LEMMA DropKeepsPace ==
    ASSUME TypeOK, AllKeepPace, UNCHANGED covered,
           NEW i \in Instances, NEW j \in JobIds, DropJob(i, j)
    PROVE  AllKeepPace'
<1>1. \A k \in JobIds : bucket'[k] \in {NoEnvelope, bucket[k]}
    BY DEF DropJob, TypeOK
<1>2. \A m \in Instances, k \in JobIds : cache'[m][k] \in {NoEnvelope, cache[m][k]}
    BY DEF DropJob, TypeOK
<1> QED BY <1>1, <1>2, PaceStep

\* The update after a submission: what it passes over has been submitted.
LEMMA SavedKeepsPace ==
    ASSUME Shape, NEW i \in Instances, NEW j \in JobIds, Save(i, j), AllKeepPace,
           MayWrite(i, cache[i][j])
    PROVE  KeepsPace(covered, j, [cache[i][j] EXCEPT !.nrt = Following(i, j)])
<1> DEFINE c == cache[i][j]
           n == Following(i, j)
           e == [c EXCEPT !.nrt = n]
           runs == Runs(i, j)
<1>1. due[i][j] # None /\ pc[i] = "save" /\ runs \subseteq covered[i][j] /\ n # None
    BY DEF Save, Shape, RoundOK, SavingOK
<1>2. c \in Envelope /\ JobTargetsMe(i, c.target)
    BY <1>1, DueRuns DEF Shape, RoundOK, DueOK
<1>3. /\ e \in Envelope /\ e.nrt = n /\ e.first = c.first
      /\ e.trigger = c.trigger /\ e.target = c.target /\ e.creator = c.creator
    BY <1>1, <1>2, DueRuns, AdvancedType DEF Envelope
<1>4. Advancer(e) = i
    BY <1>2, <1>3 DEF Advancer, MayWrite, IsBroadcast, JobTargetsMe
<1>5. FollowsEveryFire(e) <=> FollowsEveryFire(c)
    BY <1>3 DEF FollowsEveryFire, IsBroadcast
<1> SUFFICES ASSUME FollowsEveryFire(c)
             PROVE  /\ e.first # None
                    /\ OnSchedule(e.trigger, e.first, e.nrt)
                    /\ \A t \in e.first .. e.nrt - 1 :
                          OnSchedule(e.trigger, e.first, t) => t \in covered[Advancer(e)][j]
    BY <1>5 DEF KeepsPace
<1>6. /\ due[i][j] = c.nrt
      /\ c.nrt \in Time /\ now[i] \in Time /\ c.nrt <= now[i]
      /\ c.trigger \in Trigger
    BY <1>1, DueRuns DEF Shape, RoundOK, DueOK
<1>7. KeepsPace(covered, j, c)
    BY <1>2, EnvelopeFields DEF AllKeepPace
<1>8. /\ c.first \in Time
      /\ OnSchedule(c.trigger, c.first, c.nrt)
      /\ \A t \in c.first .. c.nrt - 1 :
            OnSchedule(c.trigger, c.first, t) => t \in covered[Advancer(c)][j]
    BY <1>2, <1>6, <1>7, EnvelopeFields DEF KeepsPace, TimeOrNone, None, Time
<1>9. n = NextFireTime(c.trigger, Max(RunTimes(c.trigger, c.nrt, now[i])), now[i])
    BY <1>6 DEF Following, Runs
<1>10. runs = RunTimes(c.trigger, c.nrt, now[i])
    BY <1>6 DEF Runs
<1> HIDE DEF c, n, e, runs
<1>11. /\ n \in Time /\ n > c.nrt
       /\ OnSchedule(c.trigger, c.first, n)
       /\ \A t \in c.nrt .. n - 1 : OnSchedule(c.trigger, c.first, t) => t \in runs
    BY <1>1, <1>6, <1>8, <1>9, <1>10, ScheduleAdvances
<1>12. ASSUME NEW t \in c.first .. n - 1, OnSchedule(c.trigger, c.first, t)
       PROVE  t \in covered[i][j]
    <2>1. t \in Int /\ c.first \in Int /\ c.nrt \in Int /\ n \in Int
        BY <1>6, <1>8, <1>11 DEF Time
    <2>2. CASE t < c.nrt
        <3>1. t \in c.first .. c.nrt - 1
            BY <2>1, <2>2
        <3>2. Advancer(c) = i /\ c # NoEnvelope /\ c.nrt # None
            BY <1>2, <1>3, <1>4, <1>6, EnvelopeFields
               DEF Advancer, IsBroadcast, Time, None
        <3> QED BY <1>8, <1>12, <3>1, <3>2
    <2>3. CASE t >= c.nrt
        <3>1. t \in c.nrt .. n - 1
            BY <2>1, <2>3
        <3> QED BY <1>1, <1>11, <1>12, <3>1
    <2> QED BY <2>1, <2>2, <2>3
<1> QED BY <1>3, <1>4, <1>8, <1>11, <1>12 DEF None, Time

LEMMA RoundKeepsPace ==
    ASSUME Shape, NEW i \in Instances, Round(i), AllKeepPace
    PROVE  AllKeepPace'
<1>t. TypeOK
    BY DEF Shape
<1>u. ASSUME UNCHANGED <<bucket, cache, covered>> PROVE AllKeepPace'
    BY <1>t, <1>u, PaceStep
<1>1. CASE Wake(i) \/ FindDue(i) \/ EndRound(i)
    BY <1>1, <1>u DEF Wake, FindDue, EndRound
<1>2. CASE List(i)
    <2>1. \A m \in Instances, k \in JobIds : cache'[m][k] \in {NoEnvelope, cache[m][k]}
        BY <1>2, <1>t DEF List, EmptyCache, TypeOK
    <2> QED BY <1>2, <1>t, <2>1, PaceStep DEF List
<1>3. ASSUME NEW j \in JobIds, Fetch(i, j) PROVE AllKeepPace'
    <2>1. /\ cache' = [cache EXCEPT ![i][j] = bucket[j]]
          /\ KeepsPace(covered', j, bucket[j])
          /\ UNCHANGED <<bucket, covered>>
        BY <1>3 DEF Fetch, AllKeepPace
    <2>2. \A m \in Instances, k \in JobIds :
             \/ cache'[m][k] = cache[m][k]
             \/ MayWrite(m, cache'[m][k]) => KeepsPace(covered', k, cache'[m][k])
        BY <1>t, <2>1 DEF TypeOK
    <2> QED BY <1>t, <2>1, <2>2, PaceStep
<1>4. ASSUME NEW j \in JobIds, Submit(i, j) PROVE AllKeepPace'
    <2>1. \A m \in Instances, k \in JobIds : covered[m][k] \subseteq covered'[m][k]
        BY <1>4, <1>t DEF Submit, TypeOK
    <2> QED BY <1>4, <1>t, <2>1, PaceStep DEF Submit
<1>5. ASSUME NEW j \in JobIds, Save(i, j) PROVE AllKeepPace'
    <2> DEFINE e == [cache[i][j] EXCEPT !.nrt = Following(i, j)]
    <2>1. due[i][j] # None
        BY <1>5 DEF Save, Shape, RoundOK, SavingOK
    <2>2. e.target = cache[i][j].target /\ e.creator = cache[i][j].creator
        BY <2>1, DueRuns DEF Envelope
    <2>3. UpdateJob(i, j, e) /\ UNCHANGED covered
        BY <1>5 DEF Save
    <2>4. MayWrite(i, cache[i][j]) => KeepsPace(covered, j, e)
        BY <1>5, SavedKeepsPace
    <2> HIDE DEF e
    <2> QED BY <1>t, <2>2, <2>3, <2>4, UpdateKeepsPace
<1>6. ASSUME NEW j \in JobIds, WriteReceipt(i, j) PROVE AllKeepPace'
    BY <1>6, <1>u DEF WriteReceipt
<1>7. ASSUME NEW j \in JobIds, Finish(i, j) PROVE AllKeepPace'
    BY <1>7, <1>t, DropKeepsPace DEF Finish
<1> QED BY <1>1, <1>2, <1>3, <1>4, <1>5, <1>6, <1>7 DEF Round

LEMMA BrokenKeepsPace ==
    ASSUME Shape, NEW i \in Instances, Broken(i), AllKeepPace
    PROVE  AllKeepPace'
<1>t. TypeOK
    BY DEF Shape
<1>u. ASSUME UNCHANGED <<bucket, cache, covered>> PROVE AllKeepPace'
    BY <1>t, <1>u, PaceStep
<1>1. CASE FetchFails(i) \/ SaveFails(i)
    BY <1>1, <1>u DEF FetchFails, SaveFails
<1>2. CASE Crash(i)
    <2>1. \A m \in Instances, k \in JobIds : cache'[m][k] \in {NoEnvelope, cache[m][k]}
        BY <1>2, <1>t DEF Crash, EmptyCache, TypeOK
    <2> QED BY <1>2, <1>t, <2>1, PaceStep DEF Crash
<1>3. ASSUME NEW j \in JobIds, NoExecutor(i, j) PROVE AllKeepPace'
    BY <1>3, <1>t, DropKeepsPace DEF NoExecutor
<1>4. ASSUME NEW j \in JobIds, NEW S \in SUBSET JobIds, RestoreFails(i, j, S)
      PROVE  AllKeepPace'
    BY <1>4, <1>u DEF RestoreFails
<1> QED BY <1>1, <1>2, <1>3, <1>4 DEF Broken

LEMMA ClientKeepsPace ==
    ASSUME Shape, NEW i \in Instances, Client(i), AllKeepPace
    PROVE  AllKeepPace'
<1>t. TypeOK /\ clock \in Time
    BY DEF Shape, TypeOK
<1>c. UNCHANGED covered
    BY <1>t, ClientsKeepOut DEF Undisturbed
<1>e. ASSUME NEW j \in JobIds, cache[i][j] # NoEnvelope
      PROVE  cache[i][j] \in Envelope /\ cache[i][j].trigger \in Trigger
    BY <1>e, <1>t, SlotCases, EnvelopeFields DEF TypeOK
<1>r. ASSUME NEW r \in Requests
      PROVE  r \in Request /\ r.trigger \in Trigger /\ r.coalesce \in BOOLEAN
    BY <1>r, ClusterAssumption DEF Request
<1>n. ASSUME NEW j \in JobIds, cache[i][j] # NoEnvelope, NEW trigger \in Trigger,
             NEW c \in Envelope, c.target = cache[i][j].target,
             c.creator = cache[i][j].creator,
             ClientUpdate(i, j, Rescheduled(c, trigger, clock))
      PROVE  AllKeepPace'
    <2> DEFINE e == Rescheduled(c, trigger, clock)
    <2>1. e \in Envelope
        BY <1>n, <1>t, RescheduledType
    <2>2. /\ e.target = c.target /\ e.creator = c.creator
          /\ e.first = e.nrt
        BY <2>1 DEF Rescheduled, Envelope
    <2>3. UpdateJob(i, j, e)
        BY <1>n DEF ClientUpdate
    <2> HIDE DEF e
    <2> QED BY <1>t, <1>c, <1>n, <2>1, <2>2, <2>3, AnewKeepsPace, UpdateKeepsPace
<1>1. ASSUME NEW j \in JobIds, NEW r \in Requests, AddJob(i, j, r) PROVE AllKeepPace'
    <2> DEFINE e == NewEnvelope(i, r.target, r.trigger, r.coalesce, clock)
    <2>1. e \in Envelope /\ e.first = e.nrt
        BY <1>t, <1>r, NewEnvelopeType DEF NewEnvelope
    <2>2. bucket' = [bucket EXCEPT ![j] = e] /\ cache' = [cache EXCEPT ![i][j] = e]
        BY <1>1 DEF AddJob
    <2> HIDE DEF e
    <2>3. KeepsPace(covered', j, e)
        BY <2>1, AnewKeepsPace
    <2>4. \A k \in JobIds : bucket'[k] = bucket[k] \/ KeepsPace(covered', k, bucket'[k])
        BY <1>t, <2>2, <2>3 DEF TypeOK
    <2>5. \A m \in Instances, k \in JobIds :
             cache'[m][k] = cache[m][k] \/ KeepsPace(covered', k, cache'[m][k])
        BY <1>t, <2>2, <2>3 DEF TypeOK
    <2> QED BY <1>t, <1>c, <2>4, <2>5, PaceStep
<1>2. ASSUME NEW j \in JobIds, NEW r \in Requests, ReplaceJob(i, j, r) PROVE AllKeepPace'
    <2> DEFINE c == [cache[i][j] EXCEPT !.coalesce = r.coalesce]
    <2>1. cache[i][j] # NoEnvelope /\ ClientUpdate(i, j, Rescheduled(c, r.trigger, clock))
        BY <1>2 DEF ReplaceJob
    <2>2. /\ c \in Envelope
          /\ c.target = cache[i][j].target /\ c.creator = cache[i][j].creator
        BY <1>e, <1>r, <2>1, CoalesceType DEF Envelope
    <2> HIDE DEF c
    <2> QED BY <1>n, <1>r, <2>1, <2>2
<1>3. ASSUME NEW j \in JobIds, NEW r \in Requests, RescheduleJob(i, j, r)
      PROVE  AllKeepPace'
    BY <1>3, <1>e, <1>n, <1>r DEF RescheduleJob
<1>4. ASSUME NEW j \in JobIds, ModifyJob(i, j) PROVE AllKeepPace'
    <2>1. cache[i][j] # NoEnvelope /\ UpdateJob(i, j, cache[i][j])
        BY <1>4 DEF ModifyJob, ClientUpdate
    <2>2. MayWrite(i, cache[i][j]) => KeepsPace(covered, j, cache[i][j])
        BY <2>1 DEF AllKeepPace
    <2> QED BY <1>t, <1>c, <2>1, <2>2, UpdateKeepsPace
<1>5. ASSUME NEW j \in JobIds, PauseJob(i, j) PROVE AllKeepPace'
    <2> DEFINE e == Paused(cache[i][j])
    <2>1. cache[i][j] # NoEnvelope /\ UpdateJob(i, j, e)
        BY <1>5 DEF PauseJob, ClientUpdate
    <2>2. e \in Envelope
        BY <1>e, <2>1, PausedType
    <2>3. /\ e.target = cache[i][j].target /\ e.creator = cache[i][j].creator
          /\ e.first = e.nrt
        BY <1>e, <2>1, <2>2 DEF Paused, Envelope
    <2> HIDE DEF e
    <2> QED BY <1>t, <1>c, <2>1, <2>2, <2>3, AnewKeepsPace, UpdateKeepsPace
<1>6. ASSUME NEW j \in JobIds, ResumeJob(i, j) PROVE AllKeepPace'
    BY <1>6, <1>e, <1>n DEF ResumeJob
<1>7. ASSUME NEW j \in JobIds, ResumeFinishedJob(i, j) \/ RemoveJob(i, j)
      PROVE  AllKeepPace'
    BY <1>7, <1>t, <1>c, DropKeepsPace DEF ResumeFinishedJob, RemoveJob
<1>8. CASE RemoveAllJobs(i)
    <2>1. \A k \in JobIds : bucket'[k] \in {NoEnvelope, bucket[k]}
        BY <1>8 DEF RemoveAllJobs
    <2>2. \A m \in Instances, k \in JobIds : cache'[m][k] \in {NoEnvelope, cache[m][k]}
        BY <1>8, <1>t DEF RemoveAllJobs, EmptyCache, TypeOK
    <2> QED BY <1>t, <1>c, <2>1, <2>2, PaceStep
<1> QED BY <1>1, <1>2, <1>3, <1>4, <1>5, <1>6, <1>7, <1>8 DEF Client

\* No run time is lost: every fire time an object in S3 has moved past, or a
\* copy that may be written back, was given to the executor that runs the job.
THEOREM NoFireSkippedHolds == Spec => []NoFireSkipped
<1>1. Init => AllKeepPace
    <2> SUFFICES ASSUME Init PROVE AllKeepPace
        OBVIOUS
    <2>1. ASSUME NEW j \in JobIds PROVE KeepsPace(covered, j, bucket[j])
        <3>1. CASE bucket[j] = NoEnvelope
            BY <3>1 DEF KeepsPace
        <3>2. CASE bucket[j] # NoEnvelope
            <4>1. bucket[j] \in Envelope /\ bucket[j].first = bucket[j].nrt
                BY <3>2, ClusterAssumption, SlotCases DEF Init
            <4> QED BY <4>1, AnewKeepsPace
        <3> QED BY <3>1, <3>2
    <2>2. \A i \in Instances, j \in JobIds : cache[i][j] = NoEnvelope
        BY DEF Init, EmptyCache
    <2> QED BY <2>1, <2>2 DEF AllKeepPace
<1>2. ASSUME Shape, AllKeepPace, [Next]_vars PROVE AllKeepPace'
    <2>1. TypeOK
        BY <1>2 DEF Shape
    <2>2. ASSUME UNCHANGED <<bucket, cache, covered>> PROVE AllKeepPace'
        BY <1>2, <2>1, <2>2, PaceStep
    <2>3. CASE Tick \/ UNCHANGED vars
        BY <2>2, <2>3 DEF Tick, vars
    <2>4. ASSUME NEW i \in Instances, Start(i) PROVE AllKeepPace'
        BY <2>2, <2>4 DEF Start
    <2>5. ASSUME NEW i \in Instances, Round(i) \/ Broken(i) \/ Client(i)
          PROVE  AllKeepPace'
        BY <1>2, <2>5, RoundKeepsPace, BrokenKeepsPace, ClientKeepsPace
    <2> QED BY <1>2, <2>3, <2>4, <2>5 DEF Next
<1>3. AllKeepPace => NoFireSkipped
    BY DEF AllKeepPace, KeepsPace, NoFireSkipped, NothingSkipped
<1> QED BY <1>1, <1>2, <1>3, ShapeInvariant, PTL DEF Spec

-----------------------------------------------------------------------------
(* Interval jobs broadcast to many *)

\* j waits to be submitted by i for the latest fire time of a broadcast on an
\* interval.
Pending(i, j) ==
    /\ due[i][j] # None /\ j \notin saving[i]
    /\ IsBroadcast(cache[i][j]) /\ IsInterval(cache[i][j].trigger)

\* What a process has run on an interval is no later than what it has noted,
\* and what it is about to run on one is the one fire time it noted last.
OnceOK(i, j) ==
    /\ \A p \in ran[i][j] :
          IsInterval(p[1]) => last[i][j] # None /\ p[2] <= last[i][j]
    /\ Pending(i, j) =>
          /\ due[i][j] = last[i][j]
          /\ Runs(i, j) = {due[i][j]}
          /\ \A p \in ran[i][j] : IsInterval(p[1]) => p[2] < due[i][j]

AllOnce == \A i \in Instances, j \in JobIds : OnceOK(i, j)

\* get_due_jobs returns such a job for one run, later than any it noted.
LEMMA FoundLatest ==
    ASSUME TypeOK, NEW i \in Instances, NEW j \in JobIds, Found(i)[j] # None,
           IsBroadcast(cache[i][j]), IsInterval(cache[i][j].trigger)
    PROVE  /\ Found(i)[j] \in Time
           /\ RunTimes(cache[i][j].trigger, Found(i)[j], now[i]) = {Found(i)[j]}
           /\ last[i][j] # None => Found(i)[j] > last[i][j]
<1> DEFINE c == cache[i][j]
           fire == Found(i)[j]
           length == c.trigger.length
<1>1. c \in Envelope /\ now[i] \in Time
    BY FoundFacts DEF TypeOK
<1>2. BroadcastDue(c, last[i][j], now[i]) /\ fire = CurrentFire(c, now[i])
    BY <1>1, EnvelopeFields DEF Found, DueFire
<1>3. /\ c.trigger \in IntervalTrigger /\ length \in Nat \ {0}
      /\ fire \in Time /\ fire <= now[i] /\ now[i] < fire + length
    BY <1>1, <1>2, CurrentFireFacts DEF BroadcastDue
<1>4. ASSUME NEW t \in RunTimes(c.trigger, fire, now[i]) PROVE t = fire
    <2>1. t \in Time /\ t <= now[i] /\ OnSchedule(c.trigger, fire, t)
        BY <1>1, <1>3 DEF RunTimes, Time
    <2>2. PICK k \in Nat : t = fire + k * length
        BY <1>3, <2>1, IntervalSchedule
    <2> HIDE DEF fire, length
    <2>3. CASE k = 0
        BY <1>3, <2>2, <2>3 DEF Time
    <2>4. CASE k > 0
        <3>1. k - 1 \in Nat
            BY <2>4
        <3>2. (k - 1) * length \in Nat
            BY <1>3, <3>1, ProductType
        <3>3. (k - 1) * length = k * length - length
            BY <1>3
        <3> QED BY <1>1, <1>3, <2>1, <2>2, <3>2, <3>3 DEF Time
    <2> QED BY <2>3, <2>4
<1>5. fire \in RunTimes(c.trigger, fire, now[i])
    BY <1>1, <1>3, RunTimesFacts
<1> QED BY <1>2, <1>3, <1>4, <1>5 DEF BroadcastDue

\* Noting a fire time never takes one back.
LEMMA NotedGrows ==
    ASSUME TypeOK, NEW i \in Instances, NEW j \in JobIds, NEW S \in SUBSET JobIds,
           last[i][j] # None
    PROVE  Noted(i, S)[j] # None /\ last[i][j] <= Noted(i, S)[j]
<1>1. last[i][j] \in Time
    BY DEF TypeOK, TimeOrNone
<1>2. CASE j \in S /\ Found(i)[j] # None /\ IsBroadcast(cache[i][j])
    <2>1. cache[i][j] \in Envelope /\ Found(i)[j] \in Time
        BY <1>2, FoundFacts DEF TimeOrNone
    <2>2. Found(i)[j] > last[i][j]
        BY <1>2, <2>1, EnvelopeFields DEF Found, DueFire, BroadcastDue
    <2> QED BY <1>1, <1>2, <2>1, <2>2 DEF Noted, Time
<1>3. CASE ~(j \in S /\ Found(i)[j] # None /\ IsBroadcast(cache[i][j]))
    BY <1>1, <1>3 DEF Noted, Time
<1> QED BY <1>2, <1>3

\* A step that notes and runs nothing, and gives no job a new fire time.
LEMMA NotTouched ==
    ASSUME AllOnce, UNCHANGED <<last, ran>>,
           \A i \in Instances, j \in JobIds : Pending(i, j)' =>
              /\ Pending(i, j)
              /\ due'[i][j] = due[i][j]
              /\ cache'[i][j] = cache[i][j] /\ now'[i] = now[i]
    PROVE  AllOnce'
BY DEF AllOnce, OnceOK, Runs

\* A step outside a round of i, or one that changes no due job of it.
LEMMA NothingDue ==
    ASSUME AllOnce, UNCHANGED <<last, ran, due, saving>>, NEW i \in Instances,
           \A j \in JobIds : due[i][j] = None \/ UNCHANGED <<cache[i][j], now[i]>>,
           \A k \in Instances \ {i} : UNCHANGED <<cache[k], now[k]>>
    PROVE  AllOnce'
<1>1. ASSUME NEW k \in Instances, NEW j \in JobIds, Pending(k, j)'
      PROVE  Pending(k, j) /\ UNCHANGED <<due[k][j], cache[k][j], now[k]>>
    <2>1. UNCHANGED <<cache[k][j], now[k], due[k][j], saving[k]>>
        BY <1>1 DEF Pending
    <2> QED BY <1>1, <2>1 DEF Pending
<1> QED BY <1>1, NotTouched

\* j is dealt with: it is no longer due, and only its copy in the cache changes.
LEMMA DealtWith ==
    ASSUME Shape, AllOnce, NEW i \in Instances, NEW j \in JobIds,
           UNCHANGED <<last, ran, now>>,
           due' = [due EXCEPT ![i][j] = None],
           saving[i] \in {{j}, {}}, saving' = [saving EXCEPT ![i] = {}],
           \A m \in JobIds \ {j} : cache'[i][m] = cache[i][m],
           \A k \in Instances \ {i} : cache'[k] = cache[k]
    PROVE  AllOnce'
<1>1. ASSUME NEW k \in Instances, NEW m \in JobIds, Pending(k, m)'
      PROVE  Pending(k, m) /\ UNCHANGED <<due[k][m], cache[k][m], now[k]>>
    <2>1. CASE k = i /\ m = j
        BY <1>1, <2>1 DEF Pending, Shape, TypeOK
    <2>2. CASE ~(k = i /\ m = j)
        <3>1. UNCHANGED <<due[k][m], cache[k][m], now[k]>>
            BY <2>2 DEF Shape, TypeOK
        <3>2. m \notin saving[k]
            BY <1>1, <2>2 DEF Pending, Shape, TypeOK
        <3> QED BY <1>1, <3>1, <3>2 DEF Pending
    <2> QED BY <2>1, <2>2
<1> QED BY <1>1, NotTouched

LEMMA RoundOnce ==
    ASSUME Shape, NEW i \in Instances, Round(i), AllOnce
    PROVE  AllOnce'
<1>t. TypeOK
    BY DEF Shape
<1>1. CASE Wake(i)
    BY <1>1, NothingDue DEF Wake, Shape, TypeOK, RoundOK, DueOK
<1>2. CASE List(i)
    <2>1. \A j \in JobIds : due[i][j] = None
        BY <1>2 DEF List, Shape, RoundOK, DueOK
    <2>2. \A k \in Instances \ {i} : cache'[k] = cache[k]
        BY <1>2, <1>t DEF List, TypeOK
    <2> QED BY <1>2, <2>1, <2>2, NothingDue DEF List
<1>3. CASE FindDue(i)
    <2>1. /\ due' = [due EXCEPT ![i] = Found(i)]
          /\ last' = [last EXCEPT ![i] = Noted(i, JobIds)]
          /\ UNCHANGED <<cache, now, saving, ran>>
        BY <1>3 DEF FindDue
    <2>2. ASSUME NEW j \in JobIds PROVE OnceOK(i, j)'
        <3>1. due'[i][j] = Found(i)[j] /\ last'[i][j] = Noted(i, JobIds)[j]
            BY <1>t, <2>1 DEF TypeOK
        <3>2. ASSUME NEW p \in ran[i][j], IsInterval(p[1])
              PROVE  last'[i][j] # None /\ p[2] <= last'[i][j]
            <4>1. last[i][j] # None /\ p[2] <= last[i][j]
                BY <3>2 DEF AllOnce, OnceOK
            <4>2. p[2] \in Time /\ last[i][j] \in Time /\ last'[i][j] \in TimeOrNone
                BY <1>t, <3>1, <4>1, FoundFacts DEF TypeOK, TimeOrNone
            <4> QED BY <1>t, <3>1, <4>1, <4>2, NotedGrows DEF Time, TimeOrNone
        <3>3. ASSUME Pending(i, j)'
              PROVE  /\ due'[i][j] = last'[i][j]
                     /\ Runs(i, j)' = {due'[i][j]}
                     /\ \A p \in ran[i][j] : IsInterval(p[1]) => p[2] < due'[i][j]
            <4>1. /\ Found(i)[j] # None
                  /\ IsBroadcast(cache[i][j]) /\ IsInterval(cache[i][j].trigger)
                BY <2>1, <3>1, <3>3 DEF Pending
            <4>2. /\ Found(i)[j] \in Time
                  /\ RunTimes(cache[i][j].trigger, Found(i)[j], now[i]) = {Found(i)[j]}
                  /\ last[i][j] # None => Found(i)[j] > last[i][j]
                BY <1>t, <4>1, FoundLatest
            <4>3. due'[i][j] = last'[i][j]
                BY <3>1, <4>1 DEF Noted
            <4>4. Runs(i, j)' = {due'[i][j]}
                BY <2>1, <3>1, <4>2 DEF Runs
            <4>5. ASSUME NEW p \in ran[i][j], IsInterval(p[1]) PROVE p[2] < due'[i][j]
                <5>1. last[i][j] # None /\ p[2] <= last[i][j]
                    BY <4>5 DEF AllOnce, OnceOK
                <5>2. p[2] \in Time /\ last[i][j] \in Time
                    BY <1>t, <5>1 DEF TypeOK, TimeOrNone
                <5> QED BY <3>1, <4>2, <5>1, <5>2 DEF Time
            <4> QED BY <4>3, <4>4, <4>5
        <3> QED BY <2>1, <3>2, <3>3 DEF OnceOK
    <2>3. ASSUME NEW k \in Instances \ {i}, NEW j \in JobIds PROVE OnceOK(k, j)'
        BY <2>1 DEF AllOnce, OnceOK, Pending, Runs
    <2> QED BY <2>2, <2>3 DEF AllOnce
<1>4. CASE EndRound(i)
    BY <1>4, NothingDue DEF EndRound
<1>5. ASSUME NEW j \in JobIds, Fetch(i, j) PROVE AllOnce'
    <2>1. \A m \in JobIds : due[i][m] = None
        BY <1>5 DEF Fetch, Shape, RoundOK, DueOK
    <2>2. \A k \in Instances \ {i} : cache'[k] = cache[k]
        BY <1>5, <1>t DEF Fetch, TypeOK
    <2> QED BY <1>5, <2>1, <2>2, NothingDue DEF Fetch
<1>6. ASSUME NEW j \in JobIds, Submit(i, j) PROVE AllOnce'
    <2>1. due[i][j] # None /\ pc[i] = "run" /\ saving[i] = {}
        BY <1>6 DEF Submit, IsNextDue, Shape, TypeOK, RoundOK, SavingOK
    <2>2. /\ UNCHANGED <<cache, last, now, due>>
          /\ saving' = [saving EXCEPT ![i] = {j}]
        BY <1>6 DEF Submit
    <2>3. \A k \in Instances, m \in JobIds : k # i \/ m # j => ran'[k][m] = ran[k][m]
        BY <1>6, <1>t DEF Submit, TypeOK
    <2>4. ASSUME NEW p \in ran'[i][j], IsInterval(p[1])
          PROVE  last[i][j] # None /\ p[2] <= last[i][j]
        <3>1. CASE p \in ran[i][j]
            BY <2>4, <3>1 DEF AllOnce, OnceOK
        <3>2. CASE p \notin ran[i][j]
            <4>1. /\ IsBroadcast(cache[i][j])
                  /\ p \in {<<cache[i][j].trigger, t>> : t \in HandedOver(i, j)}
                BY <1>6, <1>t, <2>4, <3>2 DEF Submit, TypeOK
            <4>2. Pending(i, j)
                BY <2>1, <2>4, <4>1 DEF Pending
            <4>3. p[2] \in Runs(i, j) /\ Runs(i, j) = {last[i][j]} /\ last[i][j] # None
                BY <2>1, <4>1, <4>2, DueRuns DEF AllOnce, OnceOK
            <4> QED BY <1>t, <4>3 DEF TypeOK, TimeOrNone, Time, None
        <3> QED BY <3>1, <3>2
    <2>5. OnceOK(i, j)'
        BY <1>t, <2>2, <2>4 DEF OnceOK, Pending, TypeOK
    <2>6. ASSUME NEW k \in Instances, NEW m \in JobIds, k # i \/ m # j PROVE OnceOK(k, m)'
        BY <1>t, <2>1, <2>2, <2>3, <2>6 DEF AllOnce, OnceOK, Pending, Runs, TypeOK
    <2> QED BY <2>5, <2>6 DEF AllOnce
<1>7. ASSUME NEW j \in JobIds, Save(i, j) PROVE AllOnce'
    <2>1. /\ saving[i] = {j}
          /\ \A m \in JobIds \ {j} : cache'[i][m] = cache[i][m]
          /\ \A k \in Instances \ {i} : cache'[k] = cache[k]
          /\ UNCHANGED <<last, ran, now>>
        BY <1>7, <1>t DEF Save, UpdateJob, Shape, TypeOK, RoundOK, SavingOK
    <2>2. CASE UNCHANGED <<due, saving>>
        BY <2>1, <2>2 DEF AllOnce, OnceOK, Pending, Runs
    <2>3. CASE DoneWith(i, j)
        BY <2>1, <2>3, DealtWith DEF DoneWith
    <2> QED BY <1>7, <2>2, <2>3 DEF Save
<1>8. ASSUME NEW j \in JobIds, WriteReceipt(i, j) PROVE AllOnce'
    BY <1>8, DealtWith DEF WriteReceipt, DoneWith, Shape, RoundOK, SavingOK
<1>9. ASSUME NEW j \in JobIds, Finish(i, j) PROVE AllOnce'
    <2>1. /\ \A m \in JobIds \ {j} : cache'[i][m] = cache[i][m]
          /\ \A k \in Instances \ {i} : cache'[k] = cache[k]
        BY <1>9, <1>t DEF Finish, DropJob, TypeOK
    <2>2. saving[i] = {j}
        BY <1>9 DEF Finish, Shape, RoundOK, SavingOK
    <2> QED BY <1>9, <2>1, <2>2, DealtWith DEF Finish, DoneWith
<1> QED BY <1>1, <1>2, <1>3, <1>4, <1>5, <1>6, <1>7, <1>8, <1>9 DEF Round

LEMMA BrokenOnce ==
    ASSUME Shape, NEW i \in Instances, Broken(i), AllOnce
    PROVE  AllOnce'
<1>t. TypeOK
    BY DEF Shape
<1>1. CASE FetchFails(i)
    BY <1>1, NothingDue DEF FetchFails
<1>2. CASE SaveFails(i)
    <2>1. ASSUME NEW k \in Instances, NEW j \in JobIds, Pending(k, j)' PROVE k # i
        BY <1>2, <1>t, <2>1 DEF SaveFails, Pending, Nothing, TypeOK
    <2>2. \A k \in Instances \ {i} : UNCHANGED <<due[k], saving[k]>>
        BY <1>2, <1>t DEF SaveFails, TypeOK
    <2> QED BY <1>2, <2>1, <2>2, NotTouched DEF SaveFails, Pending
<1>3. CASE Crash(i)
    <2>1. ASSUME NEW j \in JobIds PROVE OnceOK(i, j)'
        BY <1>3, <1>t DEF Crash, OnceOK, Pending, Nothing, TypeOK
    <2>2. ASSUME NEW k \in Instances \ {i}, NEW j \in JobIds PROVE OnceOK(k, j)'
        <3>1. UNCHANGED <<cache[k], last[k], due[k], saving[k], now[k], ran[k]>>
            BY <1>3, <1>t DEF Crash, TypeOK
        <3>2. OnceOK(k, j)
            BY DEF AllOnce
        <3> QED BY <3>1, <3>2 DEF OnceOK, Pending, Runs
    <2> QED BY <2>1, <2>2 DEF AllOnce
<1>4. ASSUME NEW j \in JobIds, NoExecutor(i, j) PROVE AllOnce'
    <2>1. /\ \A m \in JobIds \ {j} : cache'[i][m] = cache[i][m]
          /\ \A k \in Instances \ {i} : cache'[k] = cache[k]
        BY <1>4, <1>t DEF NoExecutor, DropJob, TypeOK
    <2>2. saving[i] = {}
        <3>1. pc[i] = "run"
            BY <1>4 DEF NoExecutor
        <3> QED BY <3>1, <1>t DEF Shape, RoundOK, SavingOK, TypeOK
    <2>3. saving' = [saving EXCEPT ![i] = {}]
        BY <1>4, <1>t, <2>2 DEF NoExecutor, TypeOK
    <2> QED BY <1>4, <2>1, <2>2, <2>3, DealtWith DEF NoExecutor
<1>5. ASSUME NEW j \in JobIds, NEW S \in SUBSET JobIds, RestoreFails(i, j, S)
      PROVE  AllOnce'
    <2>1. /\ last' = [last EXCEPT ![i] = Noted(i, S)]
          /\ UNCHANGED <<cache, now, due, saving, ran>>
          /\ \A m \in JobIds : due[i][m] = None
        BY <1>5 DEF RestoreFails, Shape, RoundOK, DueOK
    <2>2. ASSUME NEW m \in JobIds, NEW p \in ran[i][m], IsInterval(p[1])
          PROVE  last'[i][m] # None /\ p[2] <= last'[i][m]
        <3>1. last[i][m] # None /\ p[2] <= last[i][m]
            BY <2>2 DEF AllOnce, OnceOK
        <3>2. last'[i][m] = Noted(i, S)[m]
            BY <1>t, <2>1 DEF TypeOK
        <3>3. Noted(i, S) \in [JobIds -> TimeOrNone]
            BY <1>t, FoundFacts
        <3>4. p[2] \in Time /\ last[i][m] \in Time /\ last'[i][m] \in TimeOrNone
            BY <1>t, <3>1, <3>2, <3>3 DEF TypeOK, TimeOrNone
        <3>5. Noted(i, S)[m] # None /\ last[i][m] <= Noted(i, S)[m]
            BY <1>t, <3>1, NotedGrows
        <3> QED BY <3>1, <3>2, <3>4, <3>5 DEF Time, TimeOrNone
    <2>3. ASSUME NEW m \in JobIds PROVE OnceOK(i, m)'
        BY <2>1, <2>2 DEF OnceOK, Pending
    <2>4. ASSUME NEW k \in Instances \ {i}, NEW m \in JobIds PROVE OnceOK(k, m)'
        BY <2>1 DEF AllOnce, OnceOK, Pending, Runs
    <2> QED BY <2>3, <2>4 DEF AllOnce
<1> QED BY <1>1, <1>2, <1>3, <1>4, <1>5 DEF Broken

\* The step from "run" to "save" is the submission of the job then saved.
LEMMA OnlySubmit ==
    ASSUME TypeOK, [Next]_vars, NEW i \in Instances, NEW j \in JobIds,
           pc[i] = "run", pc'[i] = "save", j \in saving'[i]
    PROVE  Submit(i, j)
<1>1. \A k \in Instances : Start(k) \/ Client(k) => UNCHANGED pc
    BY ClientsKeepOut DEF Start, Undisturbed
<1>2. ASSUME NEW k \in Instances, Broken(k) PROVE pc'[i] \in {pc[i], "idle", "dead"}
    BY <1>2 DEF Broken, FetchFails, SaveFails, Crash, NoExecutor, RestoreFails, Sleep,
                TypeOK
<1>3. ASSUME NEW k \in Instances, Round(k) PROVE Submit(i, j)
    <2>1. ASSUME NEW m \in JobIds, Submit(k, m) PROVE Submit(i, j)
        <3>1. k = i
            BY <2>1 DEF Submit, TypeOK
        <3>2. saving'[i] = {m}
            BY <2>1, <3>1 DEF Submit, TypeOK
        <3> QED BY <2>1, <3>1, <3>2
    <2>2. Wake(k) \/ List(k) \/ FindDue(k) \/ EndRound(k) => pc'[i] # "save"
        BY DEF Wake, List, FindDue, EndRound, Sleep, TypeOK
    <2>3. ASSUME NEW m \in JobIds,
                 Fetch(k, m) \/ Save(k, m) \/ WriteReceipt(k, m) \/ Finish(k, m)
          PROVE  pc'[i] # "save"
        BY <2>3 DEF Fetch, Save, WriteReceipt, Finish, TypeOK
    <2> QED BY <1>3, <2>1, <2>2, <2>3 DEF Round
<1>4. Tick \/ UNCHANGED vars => UNCHANGED pc
    BY DEF Tick, vars
<1> QED BY <1>1, <1>2, <1>3, <1>4 DEF Next

\* A process runs no fire time of a broadcast interval job twice.
THEOREM BroadcastIntervalOnceHolds == Spec => BroadcastIntervalOnce
<1>1. Init => AllOnce
    BY DEF Init, AllOnce, OnceOK, Pending, Nothing
<1>2. ASSUME Shape, AllOnce, [Next]_vars PROVE AllOnce'
    <2>1. CASE Tick \/ UNCHANGED vars
        BY <1>2, <2>1, NotTouched DEF Tick, vars, Pending
    <2>2. ASSUME NEW i \in Instances, Start(i) PROVE AllOnce'
        BY <1>2, <2>2, NotTouched DEF Start, Pending
    <2>3. ASSUME NEW i \in Instances, Round(i) \/ Broken(i) PROVE AllOnce'
        BY <1>2, <2>3, RoundOnce, BrokenOnce
    <2>4. ASSUME NEW i \in Instances, Client(i) PROVE AllOnce'
        <3>1. /\ UNCHANGED <<last, ran, due, saving, now>>
              /\ pc[i] \in {"idle", "waking", "dead"}
              /\ \A k \in Instances \ {i} : cache'[k] = cache[k]
            BY <1>2, <2>4, ClientsKeepOut DEF Shape, Undisturbed
        <3>2. \A j \in JobIds : due[i][j] = None
            BY <1>2, <3>1 DEF Shape, RoundOK, DueOK
        <3> QED BY <1>2, <3>1, <3>2, NothingDue
    <2> QED BY <1>2, <2>1, <2>2, <2>3, <2>4 DEF Next
<1>3. ASSUME Shape, AllOnce, [Next]_vars,
             NEW i \in Instances, NEW j \in JobIds, RunsAgain(i, j)
      PROVE  ~IsInterval(cache[i][j].trigger)
    <2> SUFFICES ASSUME IsInterval(cache[i][j].trigger) PROVE FALSE
        OBVIOUS
    <2>1. Submit(i, j)
        BY <1>3, OnlySubmit DEF RunsAgain, Shape
    <2>2. due[i][j] # None /\ j \notin saving[i]
        BY <1>3, <2>1 DEF Submit, IsNextDue, Shape, RoundOK, SavingOK
    <2>3. Pending(i, j)
        BY <1>3, <2>2 DEF RunsAgain, Pending
    <2>4. PICK t \in HandedOver(i, j) : <<cache[i][j].trigger, t>> \in ran[i][j]
        BY <1>3 DEF RunsAgain
    <2>5. t = due[i][j]
        BY <1>3, <2>2, <2>3, <2>4, DueRuns DEF AllOnce, OnceOK
    <2>6. t < due[i][j]
        BY <1>3, <2>3, <2>4 DEF AllOnce, OnceOK
    <2>7. due[i][j] \in Time
        BY <1>3, <2>2, DueRuns
    <2> QED BY <2>5, <2>6, <2>7 DEF Time
<1>4. Shape /\ AllOnce /\ [Next]_vars =>
        [\A i \in Instances, j \in JobIds :
            RunsAgain(i, j) => ~IsInterval(cache[i][j].trigger)]_vars
    BY <1>3
<1> QED BY <1>1, <1>2, <1>4, ShapeInvariant, PTL DEF Spec, BroadcastIntervalOnce

-----------------------------------------------------------------------------
(* Receipts *)

\* A save moves the run time on from that of the run, and so from the one in
\* the cache, unless that one was past the run already.
LEMMA SaveAdvances ==
    ASSUME Shape, NEW i \in Instances, NEW j \in JobIds, Save(i, j)
    PROVE  LET c == cache[i][j]
           IN  \/ Advanced(c, [c EXCEPT !.nrt = Following(i, j)])
               \/ Outrun(i, j)
<1> DEFINE c == cache[i][j]
           n == Following(i, j)
           e == [c EXCEPT !.nrt = n]
           fire == due[i][j]
<1>1. fire # None /\ pc[i] = "save" /\ n # None
    BY DEF Save, Shape, RoundOK, SavingOK
<1>2. /\ c \in Envelope /\ c.trigger \in Trigger /\ n \in Time
      /\ fire \in Time /\ now[i] \in Time /\ fire <= now[i]
    BY <1>1, DueRuns DEF TimeOrNone
<1>3. e.nrt = n
    BY <1>2 DEF Envelope
<1>4. c.nrt \in Time /\ (FollowsEveryFire(c) => fire = c.nrt)
    <2>1. c.nrt # None /\ (FollowsEveryFire(c) => fire = c.nrt)
        BY <1>1 DEF Shape, RoundOK, DueOK
    <2> QED BY <1>2, <2>1, EnvelopeFields DEF TimeOrNone
<1>5. n > fire
    <2>1. n = NextFireTime(c.trigger, Max(RunTimes(c.trigger, fire, now[i])), now[i])
        BY DEF Following, Runs
    <2>2. OnSchedule(c.trigger, fire, fire)
        BY DEF OnSchedule
    <2> HIDE DEF c, n, fire
    <2> QED BY <1>1, <1>2, <2>1, <2>2, ScheduleAdvances
<1>6. CASE n > c.nrt
    <2>1. c.nrt # None
        BY <1>4 DEF Time, None
    <2> QED BY <1>1, <1>3, <1>6, <2>1 DEF Advanced
<1>7. CASE ~(n > c.nrt)
    <2>1. c.nrt > fire
        BY <1>2, <1>4, <1>5, <1>7 DEF Time
    <2>2. ~FollowsEveryFire(c)
        BY <1>2, <1>4, <2>1 DEF Time
    <2> QED BY <1>1, <2>1, <2>2 DEF Outrun
<1> QED BY <1>6, <1>7

\* The loop is done with a run only when it has saved it.
LEMMA OnlySaveIsDone ==
    ASSUME Shape, Next, NEW i \in Instances, NEW j \in JobIds, DoneWithRun(i, j)
    PROVE  (Save(i, j) /\ j \notin saving'[i]) \/ WriteReceipt(i, j)
<1> USE DEF DoneWithRun
<1>1. /\ pc[i] \in {"save", "receipt"} /\ saving[i] = {j}
      /\ cache \in [Instances -> [JobIds -> Slot]]
      /\ pc \in [Instances -> Locations] /\ saving \in [Instances -> SUBSET JobIds]
    BY DEF Shape, TypeOK, RoundOK, SavingOK
<1>2. ~Tick
    BY DEF Tick
<1>3. ASSUME NEW k \in Instances, Start(k) PROVE FALSE
    BY <1>3 DEF Start
<1>4. ASSUME NEW k \in Instances, Client(k) PROVE FALSE
    BY <1>4, ClientsKeepOut DEF Shape, Undisturbed
<1>5. ASSUME NEW k \in Instances, Broken(k) PROVE FALSE
    <2>1. ~FetchFails(k)
        BY <1>1 DEF FetchFails, Sleep
    <2>2. ~SaveFails(k)
        BY <1>1 DEF SaveFails
    <2>3. ~Crash(k)
        BY <1>1 DEF Crash
    <2>4. ASSUME NEW m \in JobIds, NoExecutor(k, m) PROVE FALSE
        BY <1>1, <2>4 DEF NoExecutor
    <2>5. ASSUME NEW m \in JobIds, NEW S \in SUBSET JobIds, RestoreFails(k, m, S)
          PROVE  FALSE
        BY <1>1, <2>5 DEF RestoreFails
    <2> QED BY <1>5, <2>1, <2>2, <2>3, <2>4, <2>5 DEF Broken
<1>6. ASSUME NEW k \in Instances, Round(k)
      PROVE  (Save(i, j) /\ j \notin saving'[i]) \/ WriteReceipt(i, j)
    <2>1. ~Wake(k) /\ ~List(k) /\ ~FindDue(k) /\ ~EndRound(k)
        BY <1>1 DEF Wake, List, FindDue, EndRound
    <2>2. ASSUME NEW m \in JobIds PROVE ~Fetch(k, m) /\ ~Submit(k, m)
        BY <1>1 DEF Fetch, Submit
    <2>3. ASSUME NEW m \in JobIds, Save(k, m) PROVE k = i /\ m = j
        BY <1>1, <2>3 DEF Save, DoneWith
    <2>4. ASSUME NEW m \in JobIds, WriteReceipt(k, m) PROVE k = i /\ m = j
        BY <1>1, <2>4 DEF WriteReceipt, DoneWith
    <2>5. ASSUME NEW m \in JobIds, Finish(k, m) PROVE FALSE
        <3>1. k = i /\ m = j
            BY <1>1, <2>5 DEF Finish, DoneWith
        <3> QED BY <1>1, <2>5, <3>1 DEF Finish, DropJob
    <2> QED BY <1>6, <2>1, <2>2, <2>3, <2>4, <2>5 DEF Round
<1> QED BY <1>2, <1>3, <1>4, <1>5, <1>6 DEF Next

\* In every cluster each run that is not the last of its job leaves a receipt
\* of its own time, but for an interval job broadcast to many whose object was
\* past the run when the instance read it.
THEOREM ReceiptOfRunHolds == Spec => ReceiptOfRun
<1> DEFINE Done(i, j) ==
              DoneWithRun(i, j) =>
                  \/ Outrun(i, j)
                  \/ [job |-> j, app |-> i, time |-> clock] \in receipts'
<1>1. ASSUME Shape, [Next]_vars, NEW i \in Instances, NEW j \in JobIds
      PROVE  Done(i, j)
    <2>1. CASE UNCHANGED vars
        BY <2>1 DEF vars, DoneWithRun
    <2>2. CASE Next /\ DoneWithRun(i, j)
        <3>1. CASE WriteReceipt(i, j)
            BY <3>1 DEF WriteReceipt, Receipted
        <3>2. CASE Save(i, j) /\ j \notin saving'[i]
            <4>1. ~Advanced(cache[i][j], [cache[i][j] EXCEPT !.nrt = Following(i, j)])
                BY <3>2 DEF Save
            <4> QED BY <1>1, <3>2, <4>1, SaveAdvances
        <3> QED BY <1>1, <2>2, <3>1, <3>2, OnlySaveIsDone
    <2> QED BY <1>1, <2>1, <2>2
<1>2. Shape /\ [Next]_vars => [\A i \in Instances, j \in JobIds : Done(i, j)]_vars
    BY <1>1
<1> QED BY <1>2, ShapeInvariant, PTL DEF Spec, ReceiptOfRun

=============================================================================

--------------------------- MODULE EventLoopProofs ---------------------------
(***************************************************************************)
(* The scheduler of an event loop always has its timer, and with a memory  *)
(* store none once it is shut down, for every set of jobs and schedules.   *)
(***************************************************************************)
EXTENDS EventLoopScheduler, TriggersProofs

-----------------------------------------------------------------------------
(* Types.  Only a round has due jobs, and as it holds the lock they stay in  *)
(* the store with times that have come.                                      *)

DueOK == \A j \in due : /\ loop = "round"
                        /\ store[j] >= 0 /\ store[j] <= now

Shape == TypeOK /\ DueOK

LEMMA FreshType ==
    ASSUME TypeOK, NEW j \in JobIds
    PROVE  Fresh(j) \in TimeOrNone
<1>1. TriggerOf[j] \in Trigger /\ None \in TimeOrNone /\ clock \in Time
    BY EventLoopAssumption DEF TimeOrNone, TypeOK, Time
<1> QED BY <1>1, NextFireTimeType DEF Fresh

LEMMA AskedType ==
    ASSUME TypeOK, NEW j \in JobIds
    PROVE  Asked(j) \subseteq TimeOrNone
<1>1. TriggerOf[j] \in Trigger /\ None \in TimeOrNone /\ 0 .. clock \subseteq Time
    BY EventLoopAssumption DEF TimeOrNone, TypeOK, Time
<1> QED BY <1>1, NextFireTimeType DEF Asked

\* What the queue is after a callback was called or added.
LEMMA QueueType ==
    ASSUME NEW q \in Seq({"wakeup", "shutdown"}), NEW c \in {"wakeup", "shutdown"}
    PROVE  /\ Append(q, c) \in Seq({"wakeup", "shutdown"})
           /\ Append(q, c) # <<>>
           /\ q # <<>> => Tail(q) \in Seq({"wakeup", "shutdown"})
OBVIOUS

LEMMA InitShape == Init => Shape
<1> SUFFICES ASSUME Init PROVE Shape
    OBVIOUS
<1>1. <<>> \in Seq({"wakeup", "shutdown"})
    OBVIOUS
<1>2. TypeOK
    BY <1>1 DEF Init, TypeOK, Nobody, TimeOrNone, Time
<1>3. DueOK
    BY DEF Init, DueOK
<1> QED BY <1>2, <1>3 DEF Shape

\* The runs of a due job, and the time that follows them.
LEMMA DueRuns ==
    ASSUME Shape, NEW j \in due
    PROVE  /\ store[j] \in Time
           /\ Runs(j) \subseteq Time
           /\ Following(j) \in TimeOrNone
<1>1. j \in JobIds /\ store[j] \in Time /\ now \in Time /\ store[j] <= now
    BY DEF Shape, TypeOK, DueOK, TimeOrNone, Time, None, Absent
<1>2. Runs(j) \subseteq Time /\ Max(Runs(j)) \in Time
    BY <1>1, RunTimesFacts DEF Runs
<1>3. TriggerOf[j] \in Trigger /\ Max(Runs(j)) \in TimeOrNone
    BY <1>1, <1>2, EventLoopAssumption DEF TimeOrNone
<1> QED BY <1>1, <1>2, <1>3, NextFireTimeType DEF Following

LEMMA HandOverType ==
    ASSUME Shape, NEW j \in due, HandOver(j)
    PROVE  busy' \subseteq JobIds /\ strays' \subseteq JobIds \X Time
BY DueRuns DEF HandOver, Shape, TypeOK

LEMMA NextRunTimeType ==
    ASSUME TypeOK
    PROVE  NextRunTime \in TimeOrNone
<1>1. {store[j] : j \in Scheduled} \in SUBSET Time
    BY DEF TypeOK, Scheduled, TimeOrNone, Time, None, Absent
<1> QED BY <1>1, EarliestType DEF NextRunTime

LEMMA WaitSecondsType ==
    ASSUME TypeOK
    PROVE  WaitSeconds \in TimeOrNone
BY MaxOfTwo DEF TypeOK, WaitSeconds, TimeOrNone, Time, None

LEMMA LoopShape ==
    ASSUME Shape, Loop
    PROVE  Shape'
<1> USE DEF Shape, TypeOK, DueOK, jobVars, roundVars, runVars, clientVars
<1>1. CASE TimerFires
    BY <1>1, QueueType DEF TimerFires, TimeOrNone
<1>2. CASE WakeUp
    BY <1>2, QueueType DEF WakeUp, Takes, TimeOrNone, Time
<1>3. CASE LoopLocks
    BY <1>3 DEF LoopLocks, Scheduled
<1>4. ASSUME NEW j \in JobIds, LoopSubmits(j) PROVE Shape'
    <2>1. j \in due
        BY <1>4 DEF LoopSubmits, IsNextDue
    <2>2. Following(j) \in TimeOrNone
        BY <2>1, DueRuns
    <2>3. busy' \subseteq JobIds /\ strays' \subseteq JobIds \X Time
        BY <1>4, <2>1, HandOverType DEF LoopSubmits
    <2> QED BY <1>4, <2>1, <2>2, <2>3 DEF LoopSubmits
<1>5. ASSUME NEW j \in JobIds, LoopFinishes(j) PROVE Shape'
    <2>1. j \in due
        BY <1>5 DEF LoopFinishes, IsNextDue
    <2>2. busy' \subseteq JobIds /\ strays' \subseteq JobIds \X Time
        BY <1>5, <2>1, HandOverType DEF LoopFinishes
    <2> QED BY <1>5, <2>1, <2>2 DEF LoopFinishes
<1>6. ASSUME NEW j \in JobIds, LoopStumbles(j) PROVE Shape'
    <2>1. j \in due
        BY <1>6 DEF LoopStumbles, IsNextDue
    <2>2. busy' \subseteq JobIds /\ strays' \subseteq JobIds \X Time
        BY <1>6, <2>1, HandOverType DEF LoopStumbles
    <2>3. CASE pending[j] # Absent
        BY <1>6, <2>1, <2>2, <2>3 DEF LoopStumbles
    <2>4. CASE pending[j] = Absent
        BY <1>6, <2>1, <2>2, <2>4 DEF LoopStumbles
    <2> QED BY <2>3, <2>4
<1>7. CASE LoopReleases
    BY <1>7, NextRunTimeType DEF LoopReleases
<1>8. CASE LoopDeparts
    <2>1. Deadline(WaitSeconds) \in TimeOrNone
        BY WaitSecondsType DEF Deadline, TimeOrNone, Time
    <2> QED BY <1>8, <2>1, WaitSecondsType DEF LoopDeparts
<1>9. CASE ShutDown
    BY <1>9, QueueType DEF ShutDown, Takes
<1>10. CASE LoopShuts
    BY <1>10 DEF LoopShuts, StoreShut, TimerStopped, Nobody, TimeOrNone
<1> QED BY <1>1, <1>2, <1>3, <1>4, <1>5, <1>6, <1>7, <1>8, <1>9, <1>10 DEF Loop

LEMMA OwnerShape ==
    ASSUME Shape, Owner
    PROVE  Shape'
<1> USE DEF Shape, TypeOK, DueOK, jobVars, roundVars, runVars
<1>1. CASE OwnerStarts
    <2>1. \A j \in JobIds : Flushed(j) \in TimeOrNone \cup {Absent}
        BY FreshType DEF Flushed
    <2>2. due = {}
        BY <1>1 DEF OwnerStarts, Unlocked
    <2>3. store' \in [JobIds -> TimeOrNone \cup {Absent}]
        BY <1>1, <2>1 DEF OwnerStarts
    <2>4. pending' \in [JobIds -> TimeOrNone \cup {Absent, Undefined}]
        BY <1>1 DEF OwnerStarts, Nobody
    <2>5. /\ starts' \in Nat /\ starting' = TRUE
          /\ UNCHANGED <<clock, state, queue, timer, busy, strays, loop, now, due,
                         alarm, delay, nudging, calls>>
        BY <1>1 DEF OwnerStarts
    <2> QED BY <2>2, <2>3, <2>4, <2>5
<1>2. CASE OwnerPauses
    BY <1>2 DEF OwnerPauses, Call
<1>3. CASE OwnerResumes
    BY <1>3, QueueType DEF OwnerResumes, Call
<1>4. CASE OwnerStops
    BY <1>4, QueueType DEF OwnerStops, Call
<1>5. ASSUME NEW paused \in BOOLEAN, OwnerLaunches(paused) PROVE Shape'
    <2>1. CASE paused
        BY <1>5, <2>1 DEF OwnerLaunches
    <2>2. CASE ~paused
        BY <1>5, <2>2, QueueType DEF OwnerLaunches
    <2> QED BY <2>1, <2>2
<1> QED BY <1>1, <1>2, <1>3, <1>4, <1>5 DEF Owner

LEMMA IfRunningType ==
    ASSUME TypeOK, IfRunning
    PROVE  /\ queue' \in Seq({"wakeup", "shutdown"})
           /\ state = "running" => queue' # <<>>
<1>1. queue \in Seq({"wakeup", "shutdown"})
    BY DEF TypeOK
<1>2. CASE state = "running"
    <2>1. queue' = Append(queue, "wakeup")
        BY <1>2 DEF IfRunning
    <2> QED BY <1>1, <2>1, QueueType
<1>3. CASE state # "running"
    BY <1>1, <1>3 DEF IfRunning
<1> QED BY <1>2, <1>3

\* What a client writes fits, and it writes only when no round is under way.
LEMMA SetNextRunShape ==
    ASSUME Shape, Unlocked, NEW j \in JobIds,
           NEW t \in TimeOrNone \cup {Absent}, SetNextRun(j, t)
    PROVE  /\ pending' \in [JobIds -> TimeOrNone \cup {Absent, Undefined}]
           /\ store' \in [JobIds -> TimeOrNone \cup {Absent}]
           /\ due = {}
BY DEF Shape, TypeOK, DueOK, SetNextRun, Unlocked

LEMMA ClientShape ==
    ASSUME Shape, Client
    PROVE  Shape'
<1> USE DEF Shape, TypeOK, DueOK, jobVars, roundVars, runVars, Call
<1>1. CASE Nudge
    BY <1>1, IfRunningType DEF Nudge
<1>2. ASSUME NEW j \in JobIds, AddJob(j) PROVE Shape'
    <2>1. Fresh(j) \in TimeOrNone
        BY FreshType
    <2>2. queue' \in Seq({"wakeup", "shutdown"})
        BY <1>2, IfRunningType DEF AddJob
    <2>3. due = {}
        BY <1>2 DEF AddJob, Unlocked
    <2>4. /\ pending' \in [JobIds -> TimeOrNone \cup {Absent, Undefined}]
          /\ store' \in [JobIds -> TimeOrNone \cup {Absent}]
        BY <1>2, <2>1 DEF AddJob
    <2> QED BY <1>2, <2>2, <2>3, <2>4 DEF AddJob
<1>3. ASSUME NEW j \in JobIds, ResumeJob(j) PROVE Shape'
    BY <1>3, FreshType, SetNextRunShape, IfRunningType DEF ResumeJob
<1>4. ASSUME NEW j \in JobIds, RemoveJob(j) PROVE Shape'
    BY <1>4, SetNextRunShape DEF RemoveJob
<1>5. ASSUME NEW j \in JobIds, NEW t \in Asked(j), ModifyJob(j, t) PROVE Shape'
    <2>1. t \in TimeOrNone
        BY AskedType
    <2> QED BY <1>5, <2>1, SetNextRunShape DEF ModifyJob
<1> QED BY <1>1, <1>2, <1>3, <1>4, <1>5 DEF Client

LEMMA NextShape ==
    ASSUME Shape, [Next]_vars
    PROVE  Shape'
<1> USE DEF Shape, TypeOK, DueOK, jobVars, roundVars, runVars, clientVars
<1>1. CASE Tick
    BY <1>1 DEF Tick
<1>2. ASSUME NEW j \in JobIds, RunEnds(j) PROVE Shape'
    BY <1>2 DEF RunEnds
<1>3. CASE UNCHANGED vars
    BY <1>3 DEF vars
<1> QED BY <1>1, <1>2, <1>3, LoopShape, OwnerShape, ClientShape DEF Next

\* The inductive invariant of types and due jobs.
THEOREM ShapeInvariant == Spec => []Shape
<1> QED BY InitShape, NextShape, PTL DEF Spec

\* Every state of every scheduler has its type.
THEOREM TypeInvariant == Spec => []TypeOK
<1>1. Shape => TypeOK
    BY DEF Shape
<1> QED BY <1>1, ShapeInvariant, PTL

-----------------------------------------------------------------------------
(* The timer *)

\* A wait of d, counted from "now", ends in time for every job of the store.
Covers(d) == \A j \in Scheduled : d # None /\ d <= Max({store[j] - now, 0})

\* TimerCovers is not inductive alone: before the timer is set it must hold of
\* the wait that will be computed, and no shutdown that a start has overtaken
\* may stop the timer without a wake-up behind it in the queue.
Wakes ==
    state = "running" /\ queue = <<>> =>
        /\ loop # "stopping"
        /\ nudging = 0 =>
              /\ loop = "idle" => Covers(delay) /\ (Scheduled # {} => timer # None)
              /\ loop = "depart" => Covers(WaitSeconds)

\* The earliest run time gives a wait that covers every job.
LEMMA EarliestCovers ==
    ASSUME TypeOK, state # "paused", alarm' = NextRunTime, UNCHANGED <<state, store, now>>
    PROVE  Covers(WaitSeconds)'
<1> SUFFICES ASSUME NEW j \in Scheduled
             PROVE  /\ WaitSeconds' # None
                    /\ WaitSeconds' <= Max({store[j] - now, 0})
    BY DEF Covers, Scheduled
<1> DEFINE times == {store[k] : k \in Scheduled}
           early == alarm' - now
           late == store[j] - now
<1>1. times \in SUBSET Time /\ store[j] \in times
    BY DEF TypeOK, Scheduled, TimeOrNone, Time, None, Absent
<1>2. alarm' \in Time /\ alarm' <= store[j]
    BY <1>1, MinOfNaturals DEF NextRunTime, Earliest, Time
<1>3. WaitSeconds' = Max({early, 0})
    BY <1>2 DEF WaitSeconds, None, Time
<1>4. early \in Int /\ late \in Int /\ early <= late
    <2>1. now \in Nat
        BY DEF TypeOK, Time
    <2>2. store[j] \in Nat
        BY <1>1 DEF Time
    <2> QED BY <1>2, <2>1, <2>2 DEF Time
<1> HIDE DEF early, late
<1>5. /\ Max({early, 0}) \in Nat
      /\ Max({early, 0}) = IF early > 0 THEN early ELSE 0
      /\ Max({late, 0}) = IF late > 0 THEN late ELSE 0
    BY <1>4, MaxOfTwo
<1>6. Max({early, 0}) # None /\ Max({early, 0}) <= Max({late, 0})
    BY <1>4, <1>5 DEF None
<1> QED BY <1>3, <1>6 DEF late

LEMMA WakesKept ==
    ASSUME Wakes,
           UNCHANGED <<state, queue, store, timer, loop, now, delay, alarm, nudging>>
    PROVE  Wakes'
BY DEF Wakes, Covers, Scheduled, WaitSeconds

LEMMA LoopWakes ==
    ASSUME Shape, Wakes, Loop
    PROVE  Wakes'
<1>1. CASE TimerFires
    <2>1. queue' # <<>>
        BY <1>1, QueueType DEF TimerFires, Shape, TypeOK
    <2> QED BY <2>1 DEF Wakes
<1>2. CASE WakeUp
    BY <1>2 DEF WakeUp, Wakes
<1>3. CASE LoopLocks
    BY <1>3 DEF LoopLocks, Wakes
<1>4. ASSUME NEW j \in JobIds, LoopSubmits(j) PROVE Wakes'
    BY <1>4 DEF LoopSubmits, Wakes
<1>5. ASSUME NEW j \in JobIds, LoopFinishes(j) PROVE Wakes'
    BY <1>5 DEF LoopFinishes, Wakes
<1>6. ASSUME NEW j \in JobIds, LoopStumbles(j) PROVE Wakes'
    BY <1>6 DEF LoopStumbles, Wakes
<1>7. CASE LoopReleases
    <2>1. loop' = "depart"
        BY <1>7 DEF LoopReleases
    <2>2. state' = "running" => Covers(WaitSeconds)'
        BY <1>7, EarliestCovers DEF LoopReleases, Shape, jobVars
    <2> QED BY <2>1, <2>2 DEF Wakes
<1>8. CASE LoopDeparts
    <2>1. /\ UNCHANGED <<state, queue, store, now, nudging>>
          /\ loop = "depart" /\ loop' = "idle"
          /\ delay' = WaitSeconds /\ timer' = Deadline(WaitSeconds)
        BY <1>8 DEF LoopDeparts, jobVars, clientVars
    <2>2. Scheduled' = Scheduled
        BY <2>1 DEF Scheduled
    <2>3. Covers(WaitSeconds) => Covers(delay)'
        BY <2>1, <2>2 DEF Covers
    <2>4. Covers(WaitSeconds) /\ Scheduled # {} => timer' # None
        <3>1. clock \in Nat /\ (WaitSeconds # None => WaitSeconds \in Nat)
            BY WaitSecondsType DEF Shape, TypeOK, TimeOrNone, Time
        <3>2. Covers(WaitSeconds) /\ Scheduled # {} => WaitSeconds # None
            BY DEF Covers
        <3>3. WaitSeconds # None => timer' = clock + WaitSeconds
            BY <2>1 DEF Deadline
        <3> QED BY <3>1, <3>2, <3>3 DEF None
    <2> QED BY <2>1, <2>2, <2>3, <2>4 DEF Wakes
<1>9. CASE ShutDown
    BY <1>9, WakesKept DEF ShutDown, Takes, Wakes
<1>10. CASE LoopShuts
    BY <1>10 DEF LoopShuts, Wakes
<1> QED BY <1>1, <1>2, <1>3, <1>4, <1>5, <1>6, <1>7, <1>8, <1>9, <1>10 DEF Loop

LEMMA OwnerWakes ==
    ASSUME Shape, Wakes, Owner
    PROVE  Wakes'
<1>1. CASE OwnerStarts
    BY <1>1 DEF OwnerStarts, Wakes
<1>2. CASE OwnerPauses
    BY <1>2 DEF OwnerPauses, Wakes
<1>3. CASE OwnerResumes
    <2>1. queue' # <<>>
        BY <1>3, QueueType DEF OwnerResumes, Shape, TypeOK
    <2> QED BY <2>1 DEF Wakes
<1>4. CASE OwnerStops
    <2>1. queue' # <<>>
        BY <1>4, QueueType DEF OwnerStops, Shape, TypeOK
    <2> QED BY <2>1 DEF Wakes
<1>5. ASSUME NEW paused \in BOOLEAN, OwnerLaunches(paused) PROVE Wakes'
    <2>1. CASE paused
        BY <1>5, <2>1 DEF OwnerLaunches, Wakes
    <2>2. CASE ~paused
        <3>1. queue' # <<>>
            BY <1>5, <2>2, QueueType DEF OwnerLaunches, Shape, TypeOK
        <3> QED BY <3>1 DEF Wakes
    <2> QED BY <2>1, <2>2
<1> QED BY <1>1, <1>2, <1>3, <1>4, <1>5 DEF Owner

LEMMA ClientWakes ==
    ASSUME Shape, Wakes, Client
    PROVE  Wakes'
<1>1. ASSUME IfRunning, UNCHANGED state PROVE Wakes'
    <2>1. state' = "running" => queue' # <<>>
        BY <1>1, IfRunningType DEF Shape
    <2> QED BY <2>1 DEF Wakes
<1>2. CASE Nudge
    BY <1>1, <1>2 DEF Nudge
<1>3. ASSUME NEW j \in JobIds, AddJob(j) PROVE Wakes'
    BY <1>1, <1>3 DEF AddJob
<1>4. ASSUME NEW j \in JobIds, ResumeJob(j) PROVE Wakes'
    BY <1>1, <1>4 DEF ResumeJob
<1>5. ASSUME NEW j \in JobIds, RemoveJob(j) PROVE Wakes'
    <2>1. /\ UNCHANGED <<state, queue, timer, nudging, loop, now, alarm, delay>>
          /\ store' = store \/ store' = [store EXCEPT ![j] = Absent]
        BY <1>5 DEF RemoveJob, SetNextRun, roundVars
    <2>2. \A k \in Scheduled' : k \in Scheduled /\ store'[k] = store[k]
        BY <2>1 DEF Scheduled, Absent, Shape, TypeOK
    <2>3. WaitSeconds' = WaitSeconds
        BY <2>1 DEF WaitSeconds
    <2> QED BY <2>1, <2>2, <2>3 DEF Wakes, Covers
<1>6. ASSUME NEW j \in JobIds, NEW t \in Asked(j), ModifyJob(j, t) PROVE Wakes'
    <2>1. nudging' # 0 /\ UNCHANGED <<state, queue, loop>>
        BY <1>6 DEF ModifyJob, Shape, TypeOK, roundVars
    <2> QED BY <2>1 DEF Wakes
<1> QED BY <1>2, <1>3, <1>4, <1>5, <1>6 DEF Client

LEMMA NextWakes ==
    ASSUME Shape, Wakes, [Next]_vars
    PROVE  Wakes'
<1> USE DEF jobVars, roundVars, clientVars
<1>1. CASE Tick
    BY <1>1, WakesKept DEF Tick
<1>2. ASSUME NEW j \in JobIds, RunEnds(j) PROVE Wakes'
    BY <1>2, WakesKept DEF RunEnds
<1>3. CASE UNCHANGED vars
    BY <1>3, WakesKept DEF vars
<1> QED BY <1>1, <1>2, <1>3, LoopWakes, OwnerWakes, ClientWakes DEF Next

\* Wherever pause, resume, shutdown, start and the clients' calls come between
\* the steps of rounds and the callbacks of the queue, the event loop of a
\* running scheduler has a timer for the first run time, or a wake-up coming.
THEOREM TimerCoversHolds == Spec => []TimerCovers
<1>1. Init => Wakes
    BY DEF Init, Wakes
<1>2. Wakes => TimerCovers
    BY DEF Wakes, Covers, TimerCovers
<1> QED BY <1>1, <1>2, NextWakes, ShapeInvariant, PTL DEF Spec

-----------------------------------------------------------------------------
(* Shutdown *)

\* A scheduler that is shut down, with its memory store emptied: the rounds of
\* the wake-ups that are left find no job and no next run time.
Quiet == /\ store = Nobody /\ timer = None /\ due = {}
         /\ loop = "depart" => alarm = None

Shut == ~Persistent =>
            /\ strays = {}
            /\ state = "stopped" /\ ~starting => loop = "stopping" \/ Quiet

\* An empty store has no next run time.
LEMMA NobodyScheduled ==
    ASSUME store = Nobody
    PROVE  Scheduled = {} /\ NextRunTime = None
<1>1. Scheduled = {}
    BY DEF Scheduled, Nobody, Absent
<1> QED BY <1>1 DEF NextRunTime, Earliest

\* Hence no run is a stray.
LEMMA NoStrays ==
    ASSUME Shape, Shut, ~Persistent, NEW j \in due, HandOver(j)
    PROVE  strays' = strays /\ (state = "stopped" => starting)
<1>1. loop = "round" /\ due # {}
    BY DEF Shape, DueOK
<1> QED BY <1>1 DEF Shut, Quiet, HandOver, Shape, TypeOK

LEMMA LoopShut ==
    ASSUME Shape, Shut, Loop
    PROVE  Shut'
<1> USE DEF Shut, Quiet, jobVars, roundVars, runVars, clientVars
<1>1. CASE TimerFires
    BY <1>1 DEF TimerFires
<1>2. CASE WakeUp
    BY <1>2 DEF WakeUp, Takes
<1>3. CASE LoopLocks
    BY <1>3, NobodyScheduled DEF LoopLocks
<1>4. ASSUME NEW j \in JobIds, LoopSubmits(j) PROVE Shut'
    BY <1>4, NoStrays DEF LoopSubmits, IsNextDue
<1>5. ASSUME NEW j \in JobIds, LoopFinishes(j) PROVE Shut'
    BY <1>5, NoStrays DEF LoopFinishes, IsNextDue
<1>6. ASSUME NEW j \in JobIds, LoopStumbles(j) PROVE Shut'
    BY <1>6, NoStrays DEF LoopStumbles, IsNextDue
<1>7. CASE LoopReleases
    BY <1>7, NobodyScheduled DEF LoopReleases
<1>8. CASE LoopDeparts
    BY <1>8 DEF LoopDeparts, Deadline, WaitSeconds
<1>9. CASE ShutDown
    BY <1>9 DEF ShutDown, Takes
<1>10. CASE LoopShuts
    <2>1. due = {}
        BY <1>10 DEF LoopShuts, Shape, DueOK
    <2> QED BY <1>10, <2>1 DEF LoopShuts, StoreShut, TimerStopped
<1> QED BY <1>1, <1>2, <1>3, <1>4, <1>5, <1>6, <1>7, <1>8, <1>9, <1>10 DEF Loop

LEMMA OwnerShut ==
    ASSUME Shape, Shut, Owner
    PROVE  Shut'
<1> USE DEF Shut, Quiet, jobVars, roundVars, runVars
<1>1. CASE OwnerStarts
    BY <1>1 DEF OwnerStarts
<1>2. CASE OwnerPauses \/ OwnerResumes
    BY <1>2 DEF OwnerPauses, OwnerResumes
<1>3. CASE OwnerStops
    BY <1>3 DEF OwnerStops
<1>4. ASSUME NEW paused \in BOOLEAN, OwnerLaunches(paused) PROVE Shut'
    BY <1>4 DEF OwnerLaunches
<1> QED BY <1>1, <1>2, <1>3, <1>4 DEF Owner

LEMMA ClientShut ==
    ASSUME Shape, Shut, Client
    PROVE  Shut'
<1> USE DEF Shut, Quiet, jobVars, roundVars, runVars, SetNextRun
<1>1. CASE Nudge
    BY <1>1 DEF Nudge
<1>2. ASSUME NEW j \in JobIds, AddJob(j) PROVE Shut'
    BY <1>2 DEF AddJob
<1>3. ASSUME NEW j \in JobIds, ResumeJob(j) PROVE Shut'
    BY <1>3 DEF ResumeJob
<1>4. ASSUME NEW j \in JobIds, RemoveJob(j) PROVE Shut'
    BY <1>4 DEF RemoveJob
<1>5. ASSUME NEW j \in JobIds, NEW t \in Asked(j), ModifyJob(j, t) PROVE Shut'
    BY <1>5 DEF ModifyJob
<1> QED BY <1>1, <1>2, <1>3, <1>4, <1>5 DEF Client

LEMMA NextShut ==
    ASSUME Shape, Shut, [Next]_vars
    PROVE  Shut'
<1> USE DEF Shut, Quiet, jobVars, roundVars, runVars, clientVars
<1>1. CASE Tick
    BY <1>1 DEF Tick
<1>2. ASSUME NEW j \in JobIds, RunEnds(j) PROVE Shut'
    BY <1>2 DEF RunEnds
<1>3. CASE UNCHANGED vars
    BY <1>3 DEF vars
<1> QED BY <1>1, <1>2, <1>3, LoopShut, OwnerShut, ClientShut DEF Next

\* With a memory store, a wake-up that is queued before shutdown() and called
\* after it submits nothing and arms no timer.
THEOREM StaysShutInMemoryHolds == Spec => []StaysShutInMemory
<1>1. Init => Shut
    BY DEF Init, Shut, Quiet
<1>2. Shut => StaysShutInMemory
    BY DEF Shut, Quiet, StaysShutInMemory, StaysShut
<1> QED BY <1>1, <1>2, NextShut, ShapeInvariant, PTL DEF Spec

=============================================================================

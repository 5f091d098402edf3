----------------------- MODULE ThreadedSchedulerProofs -----------------------
(***************************************************************************)
(* The threads of a scheduler lose no wake-up and no loop, for every set   *)
(* of jobs, schedules, calling jobs, and for either kind of store.         *)
(***************************************************************************)
EXTENDS ThreadedScheduler, TriggersProofs

-----------------------------------------------------------------------------
(* Types and places.  The type of what a round computes rests on its due     *)
(* jobs being in the store with times that have come, which they are because *)
(* nobody changes the store while the loop holds the lock.                   *)

\* Who holds the lock, and where shutdown and start leave the state.
Places ==
    /\ holder = "loop" <=> loop = "round"
    /\ holder = "owner" <=> owner = "draining"
    /\ owner \in {"flushed", "stopping", "draining", "joining"} => state = "stopped"
    /\ owner \in {"launching", "resuming"} => state # "stopped"
    /\ state = "stopped" /\ owner \in {"idle", "flushed"} => loop = "none"
    /\ owner = "launching" => loop = "none"
    /\ state # "stopped" /\ owner \in {"idle", "resuming"} => loop # "none"

DueOK == \A j \in due : /\ loop = "round"
                        /\ store[j] >= 0 /\ store[j] <= now

Shape == TypeOK /\ Places /\ DueOK

LEMMA FreshType ==
    ASSUME TypeOK, NEW j \in JobIds
    PROVE  Fresh(j) \in TimeOrNone
<1>1. TriggerOf[j] \in Trigger /\ None \in TimeOrNone /\ clock \in Time
    BY SchedulerAssumption DEF TimeOrNone, TypeOK, Time
<1> QED BY <1>1, NextFireTimeType DEF Fresh

LEMMA AskedType ==
    ASSUME TypeOK, NEW j \in JobIds
    PROVE  Asked(j) \subseteq TimeOrNone
<1>1. TriggerOf[j] \in Trigger /\ None \in TimeOrNone /\ 0 .. clock \subseteq Time
    BY SchedulerAssumption DEF TimeOrNone, TypeOK, Time
<1> QED BY <1>1, NextFireTimeType DEF Asked

LEMMA InitShape == Init => Shape
<1> SUFFICES ASSUME Init PROVE Shape
    OBVIOUS
<1>1. TypeOK
    BY DEF Init, TypeOK, Nobody, TimeOrNone, Time, LoopPlaces, OwnerPlaces
<1>2. Places /\ DueOK
    BY DEF Init, Places, DueOK, LoopLives
<1> QED BY <1>1, <1>2 DEF Shape

\* The runs of a due job, and the time that follows them.
LEMMA DueRuns ==
    ASSUME Shape, NEW j \in due
    PROVE  /\ store[j] \in Time
           /\ Runs(j) \subseteq Time
           /\ Following(j) \in TimeOrNone
<1>1. j \in JobIds /\ store[j] \in Time /\ now \in Time /\ store[j] <= now
    BY DEF Shape, TypeOK, DueOK, TimeOrNone, Time, None, Absent
<1>2. Runs(j) \subseteq Time /\ Max(Runs(j)) \in Time
    BY <1>1, RunTimesFacts DEF Runs
<1>3. TriggerOf[j] \in Trigger /\ Max(Runs(j)) \in TimeOrNone
    BY <1>1, <1>2, SchedulerAssumption DEF TimeOrNone
<1> QED BY <1>1, <1>2, <1>3, NextFireTimeType DEF Following

LEMMA HandOverType ==
    ASSUME Shape, NEW j \in due, HandOver(j)
    PROVE  running' \subseteq JobIds /\ lost' \subseteq JobIds \X Time
BY DueRuns DEF HandOver, Shape, TypeOK

LEMMA NextRunTimeType ==
    ASSUME TypeOK
    PROVE  NextRunTime \in TimeOrNone
<1>1. {store[j] : j \in Scheduled} \in SUBSET Time
    BY DEF TypeOK, Scheduled, TimeOrNone, Time, None, Absent
<1> QED BY <1>1, EarliestType DEF NextRunTime

LEMMA WaitSecondsType ==
    ASSUME TypeOK
    PROVE  WaitSeconds \in TimeOrNone
BY MaxOfTwo DEF TypeOK, WaitSeconds, TimeOrNone, Time, None

LEMMA LoopShape ==
    ASSUME Shape, Loop
    PROVE  Shape'
<1> USE DEF Shape, TypeOK, Places, LoopLives, DueOK, LoopPlaces, OwnerPlaces,
            ownerVars
<1>1. CASE LoopCheck
    BY <1>1 DEF LoopCheck, Time
<1>2. CASE LoopWakes
    BY <1>2 DEF LoopWakes
<1>3. CASE LoopClears
    BY <1>3 DEF LoopClears
<1>4. CASE LoopEnters
    BY <1>4 DEF LoopEnters, Time, TimeOrNone
<1>5. CASE LoopLocks
    BY <1>5 DEF LoopLocks, Scheduled
<1>6. ASSUME NEW j \in JobIds, LoopSubmits(j) PROVE Shape'
    <2>1. j \in due
        BY <1>6 DEF LoopSubmits, IsNextDue
    <2>2. Following(j) \in TimeOrNone
        BY <2>1, DueRuns
    <2>3. running' \subseteq JobIds /\ lost' \subseteq JobIds \X Time
        BY <1>6, <2>1, HandOverType DEF LoopSubmits
    <2> QED BY <1>6, <2>1, <2>2, <2>3 DEF LoopSubmits
<1>7. ASSUME NEW j \in JobIds, LoopFinishes(j) PROVE Shape'
    <2>1. j \in due
        BY <1>7 DEF LoopFinishes, IsNextDue
    <2>2. running' \subseteq JobIds /\ lost' \subseteq JobIds \X Time
        BY <1>7, <2>1, HandOverType DEF LoopFinishes
    <2> QED BY <1>7, <2>1, <2>2 DEF LoopFinishes
<1>8. ASSUME NEW j \in JobIds, LoopStumbles(j) PROVE Shape'
    <2>1. j \in due
        BY <1>8 DEF LoopStumbles, IsNextDue
    <2>2. running' \subseteq JobIds /\ lost' \subseteq JobIds \X Time
        BY <1>8, <2>1, HandOverType DEF LoopStumbles
    <2>3. CASE pending[j] # Absent
        BY <1>8, <2>1, <2>2, <2>3 DEF LoopStumbles
    <2>4. CASE pending[j] = Absent
        BY <1>8, <2>1, <2>2, <2>4 DEF LoopStumbles
    <2> QED BY <2>3, <2>4
<1>9. CASE LoopReleases
    BY <1>9, NextRunTimeType DEF LoopReleases
<1>10. CASE LoopDeparts
    BY <1>10, WaitSecondsType DEF LoopDeparts, TimeOrNone
<1> QED BY <1>1, <1>2, <1>3, <1>4, <1>5, <1>6, <1>7, <1>8, <1>9, <1>10 DEF Loop

LEMMA OwnerShape ==
    ASSUME Shape, Owner
    PROVE  Shape'
<1> USE DEF Shape, TypeOK, Places, LoopLives, DueOK, LoopPlaces, OwnerPlaces,
            ownerVars, loopVars
<1>1. CASE OwnerStarts
    <2>1. \A j \in JobIds : Flushed(j) \in TimeOrNone \cup {Absent}
        BY FreshType DEF Flushed
    <2>2. due = {}
        BY <1>1 DEF OwnerStarts
    <2>3. store' \in [JobIds -> TimeOrNone \cup {Absent}]
        BY <1>1, <2>1 DEF OwnerStarts
    <2>4. pending' \in [JobIds -> TimeOrNone \cup {Absent, Undefined}]
        BY <1>1 DEF OwnerStarts, Nobody
    <2>5. /\ starts' \in Nat /\ owner' = "flushed" /\ event' = FALSE
          /\ UNCHANGED <<clock, state, holder, pool, running, lost, waits, nudging, calls>>
          /\ UNCHANGED loopVars
        BY <1>1 DEF OwnerStarts
    <2>6. TypeOK'
        BY <2>5, <2>3, <2>4
    <2>7. Places'
        BY <1>1 DEF OwnerStarts
    <2>8. due' = {}
        BY <1>1, <2>2 DEF OwnerStarts
    <2>9. DueOK'
        BY <2>8
    <2> QED BY <2>6, <2>7, <2>9
<1>2. CASE OwnerPauses
    BY <1>2 DEF OwnerPauses, Call
<1>3. CASE OwnerResumes
    BY <1>3 DEF OwnerResumes, Call
<1>4. ASSUME NEW paused \in BOOLEAN, OwnerLaunches(paused) PROVE Shape'
    BY <1>4 DEF OwnerLaunches
<1>5. CASE OwnerLocks
    BY <1>5 DEF OwnerLocks
<1>6. CASE OwnerDrains
    BY <1>6 DEF OwnerDrains, StoreShut, EventSet, Nobody
<1>7. CASE OwnerJoins
    BY <1>7 DEF OwnerJoins
<1>8. ASSUME NEW wait \in BOOLEAN, OwnerStops(wait) PROVE Shape'
    BY <1>8 DEF OwnerStops
<1>9. CASE OwnerBegins
    <2>1. loop = "none" /\ due = {}
        BY <1>9 DEF OwnerBegins
    <2> QED BY <1>9, <2>1 DEF OwnerBegins, TimeOrNone
<1>10. CASE OwnerWakes
    BY <1>10 DEF OwnerWakes
<1> QED BY <1>1, <1>2, <1>3, <1>4, <1>5, <1>6, <1>7, <1>8, <1>9, <1>10 DEF Owner, OwnerGoesOn

\* What a client writes fits, and it writes only when no round is under way.
LEMMA SetNextRunShape ==
    ASSUME Shape, holder = "nobody", NEW j \in JobIds,
           NEW t \in TimeOrNone \cup {Absent}, SetNextRun(j, t)
    PROVE  /\ pending' \in [JobIds -> TimeOrNone \cup {Absent, Undefined}]
           /\ store' \in [JobIds -> TimeOrNone \cup {Absent}]
           /\ due = {}
BY DEF Shape, TypeOK, Places, DueOK, SetNextRun

LEMMA ClientShape ==
    ASSUME Shape, Client
    PROVE  Shape'
<1> USE DEF Shape, TypeOK, Places, LoopLives, DueOK, ownerVars, loopVars, Call, IfRunning
<1>1. CASE Nudge
    BY <1>1 DEF Nudge
<1>2. ASSUME NEW j \in JobIds, AddJob(j) PROVE Shape'
    BY <1>2, FreshType DEF AddJob
<1>3. ASSUME NEW j \in JobIds, ResumeJob(j) PROVE Shape'
    BY <1>3, FreshType, SetNextRunShape DEF ResumeJob
<1>4. ASSUME NEW j \in JobIds, RemoveJob(j) PROVE Shape'
    BY <1>4, SetNextRunShape DEF RemoveJob
<1>5. ASSUME NEW j \in JobIds, NEW t \in Asked(j), ModifyJob(j, t) PROVE Shape'
    <2>1. t \in TimeOrNone
        BY AskedType
    <2> QED BY <1>5, <2>1, SetNextRunShape DEF ModifyJob
<1> QED BY <1>1, <1>2, <1>3, <1>4, <1>5 DEF Client

LEMMA NextShape ==
    ASSUME Shape, [Next]_vars
    PROVE  Shape'
<1> USE DEF Shape, TypeOK, Places, LoopLives, DueOK
<1>1. CASE Tick
    BY <1>1 DEF Tick, ownerVars, loopVars
<1>2. ASSUME NEW j \in JobIds, RunEnds(j) PROVE Shape'
    BY <1>2 DEF RunEnds, ownerVars, loopVars
<1>3. CASE UNCHANGED vars
    BY <1>3 DEF vars
<1> QED BY <1>1, <1>2, <1>3, LoopShape, OwnerShape, ClientShape DEF Next

\* The inductive invariant of the threads' places.
THEOREM ShapeInvariant == Spec => []Shape
<1> QED BY InitShape, NextShape, PTL DEF Spec

\* Every state of every scheduler has its type.
THEOREM TypeInvariant == Spec => []TypeOK
<1>1. Shape => TypeOK
    BY DEF Shape
<1> QED BY <1>1, ShapeInvariant, PTL

\* A scheduler that was started and not shut down has its loop: shutdown waits
\* for the thread to end before start can make another one, and only a state
\* that says stopped, or an exception that only a stopped scheduler can raise,
\* ends it.
THEOREM LoopLivesHolds == Spec => []LoopLives
<1>1. Shape => LoopLives
    BY DEF Shape, Places, LoopLives
<1> QED BY <1>1, ShapeInvariant, PTL

-----------------------------------------------------------------------------
(* No wake-up is lost *)

\* A wait of d, counted from "now", ends in time for every job of the store.
Covers(d) == \A j \in Scheduled : d # None /\ d <= Max({store[j] - now, 0})

\* NeverOversleeps is not inductive alone: it must hold as soon as the wait is
\* computed, and before that of the wait that will be computed.
Wakes ==
    state = "running" /\ owner # "resuming" /\ ~event /\ nudging = 0 =>
        /\ loop \in {"check", "wait"} => Covers(delay)
        /\ loop = "depart" => Covers(WaitSeconds)

\* The earliest run time gives a wait that covers every job.
LEMMA EarliestCovers ==
    ASSUME TypeOK, alarm' = NextRunTime, UNCHANGED <<store, now>>
    PROVE  Covers(WaitSeconds)'
<1> SUFFICES ASSUME NEW j \in Scheduled
             PROVE  /\ WaitSeconds' # None
                    /\ WaitSeconds' <= Max({store[j] - now, 0})
    BY DEF Covers, Scheduled
<1> DEFINE times == {store[k] : k \in Scheduled}
           early == alarm' - now
           late == store[j] - now
<1>1. times \in SUBSET Time /\ store[j] \in times
    BY DEF TypeOK, Scheduled, TimeOrNone, Time, None, Absent
<1>2. alarm' \in Time /\ alarm' <= store[j]
    BY <1>1, MinOfNaturals DEF NextRunTime, Earliest, Time
<1>3. WaitSeconds' = Max({early, 0})
    BY <1>2 DEF WaitSeconds, None, Time
<1>4. early \in Int /\ late \in Int /\ early <= late
    BY <1>1, <1>2 DEF TypeOK, Time
<1> HIDE DEF early, late
<1>5. /\ Max({early, 0}) \in Nat
      /\ Max({early, 0}) = IF early > 0 THEN early ELSE 0
      /\ Max({late, 0}) = IF late > 0 THEN late ELSE 0
    BY <1>4, MaxOfTwo
<1>6. Max({early, 0}) # None /\ Max({early, 0}) <= Max({late, 0})
    BY <1>4, <1>5 DEF None
<1> QED BY <1>3, <1>6 DEF late

LEMMA WakesKept ==
    ASSUME Wakes, UNCHANGED <<state, event, store, now, delay, alarm, loop, nudging>>,
           owner' = owner \/ owner # "resuming"
    PROVE  Wakes'
BY DEF Wakes, Covers, Scheduled, WaitSeconds

LEMMA LoopWakesUp ==
    ASSUME Shape, Wakes, Loop
    PROVE  Wakes'
<1> USE DEF Wakes, Covers, Scheduled, WaitSeconds, ownerVars
<1>1. CASE LoopCheck
    BY <1>1 DEF LoopCheck
<1>2. CASE LoopWakes
    BY <1>2 DEF LoopWakes
<1>3. CASE LoopClears
    BY <1>3 DEF LoopClears
<1>4. CASE LoopEnters
    BY <1>4 DEF LoopEnters
<1>5. CASE LoopLocks
    BY <1>5 DEF LoopLocks
<1>6. ASSUME NEW j \in JobIds, LoopSubmits(j) PROVE Wakes'
    BY <1>6 DEF LoopSubmits
<1>7. ASSUME NEW j \in JobIds, LoopFinishes(j) PROVE Wakes'
    BY <1>7 DEF LoopFinishes
<1>8. ASSUME NEW j \in JobIds, LoopStumbles(j) PROVE Wakes'
    BY <1>8 DEF LoopStumbles
<1>9. CASE LoopReleases
    <2>1. loop' = "depart"
        BY <1>9 DEF LoopReleases
    <2>2. Covers(WaitSeconds)'
        BY <1>9, EarliestCovers DEF LoopReleases, Shape
    <2> QED BY <2>1, <2>2 DEF Wakes
<1>10. CASE LoopDeparts
    BY <1>10 DEF LoopDeparts
<1> QED BY <1>1, <1>2, <1>3, <1>4, <1>5, <1>6, <1>7, <1>8, <1>9, <1>10 DEF Loop

LEMMA OwnerWakesUp ==
    ASSUME Shape, Wakes, Owner
    PROVE  Wakes'
<1>1. CASE OwnerStarts
    BY <1>1 DEF OwnerStarts, Wakes
<1>2. CASE OwnerPauses
    BY <1>2 DEF OwnerPauses, Wakes
<1>3. CASE OwnerResumes
    BY <1>3 DEF OwnerResumes, Wakes
<1>4. ASSUME NEW paused \in BOOLEAN, OwnerLaunches(paused) PROVE Wakes'
    <2>1. loop' = "none"
        BY <1>4 DEF OwnerLaunches, Shape, Places, loopVars
    <2> QED BY <2>1 DEF Wakes
<1>5. CASE OwnerLocks
    BY <1>5, WakesKept DEF OwnerLocks, loopVars
<1>6. CASE OwnerDrains
    BY <1>6 DEF OwnerDrains, EventSet, Wakes
<1>7. CASE OwnerJoins
    BY <1>7, WakesKept DEF OwnerJoins, loopVars
<1>8. ASSUME NEW wait \in BOOLEAN, OwnerStops(wait) PROVE Wakes'
    BY <1>8 DEF OwnerStops, Wakes
<1>9. CASE OwnerBegins
    <2>1. state' = "running" => event'
        BY <1>9 DEF OwnerBegins
    <2> QED BY <2>1 DEF Wakes
<1>10. CASE OwnerWakes
    BY <1>10 DEF OwnerWakes, Wakes
<1> QED BY <1>1, <1>2, <1>3, <1>4, <1>5, <1>6, <1>7, <1>8, <1>9, <1>10 DEF Owner, OwnerGoesOn

LEMMA ClientWakes ==
    ASSUME Shape, Wakes, Client
    PROVE  Wakes'
<1> USE DEF IfRunning
<1>1. CASE Nudge
    <2>1. state' = "running" => event'
        BY <1>1 DEF Nudge
    <2> QED BY <2>1 DEF Wakes
<1>2. ASSUME NEW j \in JobIds, AddJob(j) PROVE Wakes'
    <2>1. state' = "running" => event'
        BY <1>2 DEF AddJob
    <2> QED BY <2>1 DEF Wakes
<1>3. ASSUME NEW j \in JobIds, ResumeJob(j) PROVE Wakes'
    <2>1. state' = "running" => event'
        BY <1>3 DEF ResumeJob
    <2> QED BY <2>1 DEF Wakes
<1>4. ASSUME NEW j \in JobIds, RemoveJob(j) PROVE Wakes'
    <2>1. /\ UNCHANGED <<state, event, owner, nudging, loop, now, alarm, delay>>
          /\ store' = store \/ store' = [store EXCEPT ![j] = Absent]
        BY <1>4 DEF RemoveJob, SetNextRun, loopVars, ownerVars
    <2>2. \A k \in Scheduled' : k \in Scheduled /\ store'[k] = store[k]
        BY <2>1 DEF Scheduled, Absent, Shape, TypeOK
    <2>3. WaitSeconds' = WaitSeconds
        BY <2>1 DEF WaitSeconds
    <2> QED BY <2>1, <2>2, <2>3 DEF Wakes, Covers
<1>5. ASSUME NEW j \in JobIds, NEW t \in Asked(j), ModifyJob(j, t) PROVE Wakes'
    <2>1. nudging' # 0
        BY <1>5 DEF ModifyJob, Shape, TypeOK
    <2> QED BY <2>1 DEF Wakes
<1> QED BY <1>1, <1>2, <1>3, <1>4, <1>5 DEF Client

LEMMA NextWakes ==
    ASSUME Shape, Wakes, [Next]_vars
    PROVE  Wakes'
<1>1. CASE Tick
    BY <1>1, WakesKept DEF Tick, loopVars, ownerVars
<1>2. ASSUME NEW j \in JobIds, RunEnds(j) PROVE Wakes'
    BY <1>2, WakesKept DEF RunEnds, loopVars, ownerVars
<1>3. CASE UNCHANGED vars
    BY <1>3, WakesKept DEF vars
<1> QED BY <1>1, <1>2, <1>3, LoopWakesUp, OwnerWakesUp, ClientWakes DEF Next

\* No wake-up is lost, wherever in a round clients, pause, resume, shutdown and
\* start come: the loop of a running scheduler never waits past the first run
\* time in its store.
THEOREM NeverOversleepsHolds == Spec => []NeverOversleeps
<1>1. Init => Wakes
    BY DEF Init, Wakes
<1>2. Wakes => NeverOversleeps
    BY DEF Wakes, Covers, NeverOversleeps
<1> QED BY <1>1, <1>2, NextWakes, ShapeInvariant, PTL DEF Spec

-----------------------------------------------------------------------------
(* Shutdown and rounds *)

\* In the first life of a scheduler with a memory store: once the pool is shut
\* the store is empty, or the owner holds the lock until it is.
FirstLife ==
    ~Persistent /\ starts <= 1 =>
        /\ lost = {}
        /\ starts = 0 => owner = "idle" /\ state = "stopped" /\ pool = "open"
        /\ pool = "shut" =>
              /\ state = "stopped"
              /\ owner \in {"draining", "joining", "idle"}
              /\ owner # "draining" => store = Nobody

\* Hence no round finds a due job when the pool is shut.
LEMMA NoDueJob ==
    ASSUME Shape, FirstLife, ~Persistent, starts <= 1, NEW j \in due
    PROVE  pool = "open"
<1>1. j \in JobIds /\ loop = "round" /\ store[j] # Absent
    BY DEF Shape, DueOK, TypeOK, Absent
<1>2. owner # "draining" /\ store # Nobody
    BY <1>1 DEF Shape, Places, Nobody
<1> QED BY <1>2 DEF FirstLife, Shape, TypeOK

LEMMA LoopFirstLife ==
    ASSUME Shape, FirstLife, Loop
    PROVE  FirstLife'
<1>1. ASSUME NEW j \in due, HandOver(j), ~Persistent, starts <= 1, UNCHANGED <<pool, starts>>
      PROVE  pool = "open" /\ lost' = lost
    BY <1>1, NoDueJob DEF HandOver
<1> USE DEF FirstLife, ownerVars
<1>2. CASE LoopCheck \/ LoopWakes \/ LoopClears \/ LoopEnters \/ LoopLocks
    BY <1>2 DEF LoopCheck, LoopWakes, LoopClears, LoopEnters, LoopLocks
<1>3. ASSUME NEW j \in JobIds, LoopSubmits(j) PROVE FirstLife'
    BY <1>1, <1>3 DEF LoopSubmits, IsNextDue
<1>4. ASSUME NEW j \in JobIds, LoopFinishes(j) PROVE FirstLife'
    BY <1>1, <1>4 DEF LoopFinishes, IsNextDue
<1>5. ASSUME NEW j \in JobIds, LoopStumbles(j) PROVE FirstLife'
    BY <1>1, <1>5 DEF LoopStumbles, IsNextDue
<1>6. CASE LoopReleases \/ LoopDeparts
    BY <1>6 DEF LoopReleases, LoopDeparts
<1> QED BY <1>2, <1>3, <1>4, <1>5, <1>6 DEF Loop

LEMMA OwnerFirstLife ==
    ASSUME Shape, FirstLife, Owner
    PROVE  FirstLife'
<1> USE DEF FirstLife, ownerVars
<1>1. CASE OwnerStarts
    <2>1. starts = 0 \/ starts' > 1
        BY <1>1 DEF OwnerStarts, Shape, TypeOK
    <2> QED BY <1>1, <2>1 DEF OwnerStarts, Shape, TypeOK
<1>2. CASE OwnerPauses \/ OwnerResumes
    BY <1>2 DEF OwnerPauses, OwnerResumes
<1>3. ASSUME NEW paused \in BOOLEAN, OwnerLaunches(paused) PROVE FirstLife'
    BY <1>3 DEF OwnerLaunches, Shape, TypeOK
<1>4. CASE OwnerLocks
    BY <1>4 DEF OwnerLocks, Shape, Places
<1>5. CASE OwnerDrains
    BY <1>5 DEF OwnerDrains, StoreShut, Shape, Places
<1>6. CASE OwnerJoins
    BY <1>6 DEF OwnerJoins
<1>7. ASSUME NEW wait \in BOOLEAN, OwnerStops(wait) PROVE FirstLife'
    BY <1>7 DEF OwnerStops
<1>8. CASE OwnerBegins \/ OwnerWakes
    BY <1>8 DEF OwnerBegins, OwnerWakes, Shape, TypeOK, Places
<1> QED BY <1>1, <1>2, <1>3, <1>4, <1>5, <1>6, <1>7, <1>8 DEF Owner, OwnerGoesOn

LEMMA ClientFirstLife ==
    ASSUME Shape, FirstLife, Client
    PROVE  FirstLife'
<1> USE DEF FirstLife, ownerVars, SetNextRun
<1>1. CASE Nudge
    BY <1>1 DEF Nudge
<1>2. ASSUME NEW j \in JobIds, AddJob(j) PROVE FirstLife'
    BY <1>2 DEF AddJob
<1>3. ASSUME NEW j \in JobIds, ResumeJob(j) PROVE FirstLife'
    BY <1>3 DEF ResumeJob
<1>4. ASSUME NEW j \in JobIds, RemoveJob(j) PROVE FirstLife'
    BY <1>4 DEF RemoveJob
<1>5. ASSUME NEW j \in JobIds, NEW t \in Asked(j), ModifyJob(j, t)
      PROVE  FirstLife'
    BY <1>5 DEF ModifyJob
<1> QED BY <1>1, <1>2, <1>3, <1>4, <1>5 DEF Client

LEMMA NextFirstLife ==
    ASSUME Shape, FirstLife, [Next]_vars
    PROVE  FirstLife'
<1> USE DEF FirstLife, ownerVars
<1>1. CASE Tick
    BY <1>1 DEF Tick
<1>2. ASSUME NEW j \in JobIds, RunEnds(j) PROVE FirstLife'
    BY <1>2 DEF RunEnds
<1>3. CASE UNCHANGED vars
    BY <1>3 DEF vars
<1> QED BY <1>1, <1>2, <1>3, LoopFirstLife, OwnerFirstLife, ClientFirstLife DEF Next

\* Shutting a scheduler with a memory store down, wherever in a round, makes
\* no round hand a due job to the pool that was shut; only a scheduler that is
\* started again does.
THEOREM LostOnlyAfterRestartHolds == Spec => []LostOnlyAfterRestart
<1>1. Init => FirstLife
    BY DEF Init, FirstLife
<1>2. Shape /\ FirstLife => LostOnlyAfterRestart
    BY DEF Shape, TypeOK, FirstLife, LostOnlyAfterRestart
<1> QED BY <1>1, <1>2, NextFirstLife, ShapeInvariant, PTL DEF Spec

=============================================================================

------------------------- MODULE EventLoopScheduler -------------------------
(***************************************************************************)
(* An AsyncIOScheduler with one job store and one executor.  Rounds run in *)
(* the event loop: wakeup() and shutdown() only queue a callback, which    *)
(* the loop calls in turn, and between rounds a timer of the event loop    *)
(* waits.  The owner (start, pause, resume, shutdown) and the clients may  *)
(* be callbacks of the loop or other threads; what they do without a lock  *)
(* falls between any two steps of a round.  The schedulers for Tornado and *)
(* Twisted differ in the names of the event loop's functions only.         *)
(***************************************************************************)
EXTENDS Triggers, Sequences

CONSTANTS
    JobIds,
    TriggerOf,    \* the trigger of each job
    Persistent,   \* the job store outlives shutdown()
    MaxTime,      \* bound: the last tick of the clock
    MaxStarts,    \* bound: calls of start() in a behaviour
    MaxCalls      \* bound: other calls in a behaviour

ASSUME EventLoopAssumption ==
    /\ TriggerOf \in [JobIds -> Trigger]
    /\ Persistent \in BOOLEAN
    /\ MaxTime \in Nat /\ MaxStarts \in Nat /\ MaxCalls \in Nat

Absent == -2      \* a job that is not there
Undefined == -3   \* a next_run_time that is not yet computed

VARIABLES
    clock,
    state,     \* BaseScheduler.state
    pending,   \* _pending_jobs, by id: the next_run_time they were given
    store,     \* the job store, by id: the next_run_time
    queue,     \* the scheduler's callbacks in the event loop's queue
    timer,     \* the time at which the armed timer fires, or None
    busy,      \* jobs whose future is pending in the executor
    strays,    \* history: run times submitted by a scheduler that is shut down
    loop,      \* where the event loop is
    now,       \* the time at which its current or last round began
    due,       \* the due jobs it has yet to submit
    alarm,     \* next_wakeup_time of the round
    delay,     \* wait_seconds of the last round
    starting,  \* start() has flushed the pending jobs and not set the state yet
    nudging,   \* modify_job calls that have released the lock
    starts, calls

vars == <<clock, state, pending, store, queue, timer, busy, strays, loop, now, due,
          alarm, delay, starting, nudging, starts, calls>>

Nobody == [j \in JobIds |-> Absent]

Init ==
    /\ clock = 0
    /\ state = "stopped"
    /\ pending = Nobody /\ store = Nobody
    /\ queue = <<>> /\ timer = None
    /\ busy = {} /\ strays = {}
    /\ loop = "idle" /\ now = 0 /\ due = {} /\ alarm = None /\ delay = None
    /\ starting = FALSE /\ nudging = 0 /\ starts = 0 /\ calls = 0

Fresh(j) == NextFireTime(TriggerOf[j], None, clock)

Scheduled == {j \in JobIds : store[j] >= 0}

jobVars == <<pending, store>>
roundVars == <<loop, now, due, alarm, delay>>
runVars == <<busy, strays>>
clientVars == <<starting, nudging, starts, calls>>

\* The lock on the job stores is free: only a round holds it over several steps.
Unlocked == loop # "round"

-----------------------------------------------------------------------------
(* The event loop *)

Takes(name) == loop = "idle" /\ queue # <<>> /\ Head(queue) = name /\ queue' = Tail(queue)

\* The timer's callback is wakeup(), which queues a round.
TimerFires ==
    /\ loop = "idle"
    /\ timer # None /\ timer <= clock
    /\ timer' = None
    /\ queue' = Append(queue, "wakeup")
    /\ UNCHANGED <<clock, state, jobVars, runVars, roundVars, clientVars>>

\* The body of wakeup(): the timer is stopped and _process_jobs entered, which
\* is over at once while the scheduler is paused.
WakeUp ==
    /\ Takes("wakeup")
    /\ timer' = None
    /\ IF state = "paused"
       THEN delay' = None /\ UNCHANGED <<loop, now>>
       ELSE loop' = "enter" /\ now' = clock /\ delay' = delay
    /\ UNCHANGED <<clock, state, jobVars, runVars, due, alarm, clientVars>>

\* It takes the lock and asks the store for the due jobs.
LoopLocks ==
    /\ loop = "enter"
    /\ loop' = "round"
    /\ due' = {j \in Scheduled : store[j] <= now}
    /\ UNCHANGED <<clock, state, jobVars, queue, timer, runVars, now, alarm, delay, clientVars>>

IsNextDue(j) == j \in due /\ \A k \in due : store[j] <= store[k]

Runs(j) == RunTimes(TriggerOf[j], store[j], now)

Following(j) == NextFireTime(TriggerOf[j], Max(Runs(j)), now)

\* executor.submit_job: a job that runs already is refused; nothing else is,
\* whether the executor is shut down or not.
HandOver(j) ==
    /\ busy' = busy \cup {j}
    /\ strays' = IF state = "stopped" /\ ~starting /\ j \notin busy
                 THEN strays \cup {<<j, t>> : t \in Runs(j)} ELSE strays

LoopSubmits(j) ==
    /\ loop = "round" /\ IsNextDue(j)
    /\ Following(j) # None
    /\ HandOver(j)
    /\ store' = [store EXCEPT ![j] = Following(j)]
    /\ due' = due \ {j}
    /\ UNCHANGED <<clock, state, pending, queue, timer, loop, now, alarm, delay, clientVars>>

\* A job whose schedule is over: remove_job takes it out of the store ...
LoopFinishes(j) ==
    /\ loop = "round" /\ IsNextDue(j)
    /\ Following(j) = None
    /\ state # "stopped"
    /\ HandOver(j)
    /\ store' = [store EXCEPT ![j] = Absent]
    /\ due' = due \ {j}
    /\ UNCHANGED <<clock, state, pending, queue, timer, loop, now, alarm, delay, clientVars>>

\* ... or, of a stopped scheduler, out of the pending jobs.  When it is not there
\* the JobLookupError ends the callback, and no timer is started.
LoopStumbles(j) ==
    /\ loop = "round" /\ IsNextDue(j)
    /\ Following(j) = None
    /\ state = "stopped"
    /\ HandOver(j)
    /\ IF pending[j] # Absent
       THEN /\ pending' = [pending EXCEPT ![j] = Absent]
            /\ due' = due \ {j}
            /\ loop' = loop
       ELSE /\ pending' = pending
            /\ due' = {}
            /\ loop' = "idle"
    /\ UNCHANGED <<clock, state, store, queue, timer, now, alarm, delay, clientVars>>

NextRunTime == Earliest({store[j] : j \in Scheduled})

\* No due job is left: note the next run time and release the lock.
LoopReleases ==
    /\ loop = "round" /\ due = {}
    /\ loop' = "depart"
    /\ alarm' = NextRunTime
    /\ UNCHANGED <<clock, state, jobVars, queue, timer, runVars, now, due, delay, clientVars>>

WaitSeconds ==
    IF state = "paused" \/ alarm = None THEN None ELSE Max({alarm - now, 0})

\* call_later counts from the present time.
Deadline(wait) == IF wait = None THEN None ELSE clock + wait

\* The end of _process_jobs and of wakeup(): _start_timer.
LoopDeparts ==
    /\ loop = "depart"
    /\ loop' = "idle"
    /\ delay' = WaitSeconds
    /\ timer' = Deadline(WaitSeconds)
    /\ UNCHANGED <<clock, state, jobVars, queue, runVars, now, due, alarm, clientVars>>

\* The body of shutdown(): first the state; SchedulerNotRunningError if there is
\* nothing to shut down.
ShutDown ==
    /\ Takes("shutdown")
    /\ IF state = "stopped"
       THEN UNCHANGED <<state, loop>>
       ELSE state' = "stopped" /\ loop' = "stopping"
    /\ UNCHANGED <<clock, jobVars, timer, runVars, now, due, alarm, delay, clientVars>>

\* Mutant of TimerStopped: shutdown() without _stop_timer().
TimerLeft == timer

StoreShut == IF Persistent THEN store ELSE Nobody

TimerStopped == None

\* Then the executor and the store, under their locks, and the timer.
LoopShuts ==
    /\ loop = "stopping"
    /\ loop' = "idle"
    /\ store' = StoreShut
    /\ timer' = TimerStopped
    /\ UNCHANGED <<clock, state, pending, queue, runVars, now, due, alarm, delay, clientVars>>

-----------------------------------------------------------------------------
(* The owner *)

\* Mutant of Flushed: _real_add_job without "Calculate the next run time".
FlushedAsIs(j) == IF pending[j] = Absent THEN store[j] ELSE pending[j]

\* The next_run_time of j in the store once the pending jobs have been added,
\* with replace_existing.
Flushed(j) ==
    IF pending[j] = Absent THEN store[j]
    ELSE IF pending[j] = Undefined THEN Fresh(j) ELSE pending[j]

\* start(), up to the release of the lock: the pending jobs go to the store.
OwnerStarts ==
    /\ state = "stopped" /\ ~starting /\ Unlocked
    /\ starts < MaxStarts
    /\ starts' = starts + 1
    /\ starting' = TRUE
    /\ store' = [j \in JobIds |-> Flushed(j)]
    /\ pending' = Nobody
    /\ UNCHANGED <<clock, state, queue, timer, runVars, roundVars, nudging, calls>>

\* The rest of start(): the state and the wake-up.
OwnerLaunches(paused) ==
    /\ starting
    /\ starting' = FALSE
    /\ state' = IF paused THEN "paused" ELSE "running"
    /\ queue' = IF paused THEN queue ELSE Append(queue, "wakeup")
    /\ UNCHANGED <<clock, jobVars, timer, runVars, roundVars, nudging, starts, calls>>

Call == calls < MaxCalls /\ calls' = calls + 1

OwnerPauses ==
    /\ Call
    /\ state = "running"
    /\ state' = "paused"
    /\ UNCHANGED <<clock, jobVars, queue, timer, runVars, roundVars, starting, nudging, starts>>

OwnerResumes ==
    /\ Call
    /\ state = "paused"
    /\ state' = "running"
    /\ queue' = Append(queue, "wakeup")
    /\ UNCHANGED <<clock, jobVars, timer, runVars, roundVars, starting, nudging, starts>>

\* shutdown() returns before anything has been shut down.
OwnerStops ==
    /\ Call
    /\ starts > 0 /\ ~starting
    /\ queue' = Append(queue, "shutdown")
    /\ UNCHANGED <<clock, state, jobVars, timer, runVars, roundVars, starting, nudging, starts>>

-----------------------------------------------------------------------------
(* Clients and the executor *)

\* Mutant of IfRunning: clients change the store without wakeup().
NoWakeup == queue' = queue

IfRunning == queue' = IF state = "running" THEN Append(queue, "wakeup") ELSE queue

\* add_job: to the pending jobs of a stopped scheduler, else to the store, and
\* a wake-up.  Clients do not add an id twice to the pending jobs.
AddJob(j) ==
    /\ Call /\ Unlocked
    /\ state = "stopped" => pending[j] = Absent
    /\ IF state = "stopped"
       THEN pending' = [pending EXCEPT ![j] = Undefined] /\ store' = store
       ELSE store' = [store EXCEPT ![j] = Fresh(j)] /\ pending' = pending
    /\ IfRunning
    /\ UNCHANGED <<clock, state, timer, runVars, roundVars, starting, nudging, starts>>

Known(j) == IF state = "stopped" THEN pending[j] # Absent ELSE store[j] # Absent

SetNextRun(j, t) ==
    IF state = "stopped"
    THEN pending' = [pending EXCEPT ![j] = t] /\ store' = store
    ELSE store' = [store EXCEPT ![j] = t] /\ pending' = pending

\* The run times that pause_job and reschedule_job ask modify_job for; the
\* latter reads the clock before modify_job waits for the lock.
Asked(j) == {None} \cup {NextFireTime(TriggerOf[j], None, at) : at \in 0 .. clock}

\* modify_job: the change under the lock; the wake-up comes after its release.
ModifyJob(j, t) ==
    /\ Call /\ Unlocked
    /\ Known(j)
    /\ SetNextRun(j, t)
    /\ nudging' = nudging + 1
    /\ UNCHANGED <<clock, state, queue, timer, runVars, roundVars, starting, starts>>

Nudge ==
    /\ nudging > 0
    /\ nudging' = nudging - 1
    /\ IfRunning
    /\ UNCHANGED <<clock, state, jobVars, timer, runVars, roundVars, starting, starts, calls>>

\* resume_job calls modify_job with the lock held, or remove_job when the
\* schedule is over.
ResumeJob(j) ==
    /\ Call /\ Unlocked
    /\ Known(j)
    /\ Fresh(j) # None
    /\ SetNextRun(j, Fresh(j))
    /\ IfRunning
    /\ UNCHANGED <<clock, state, timer, runVars, roundVars, starting, nudging, starts>>

RemoveJob(j) ==
    /\ Call /\ Unlocked
    /\ Known(j)
    /\ SetNextRun(j, Absent)
    /\ UNCHANGED <<clock, state, queue, timer, runVars, roundVars, starting, nudging, starts>>

\* The callback of a future that is done, or that shutdown() has cancelled.
RunEnds(j) ==
    /\ j \in busy
    /\ busy' = busy \ {j}
    /\ UNCHANGED <<clock, state, jobVars, queue, timer, strays, roundVars, clientVars>>

Tick ==
    /\ clock < MaxTime
    /\ clock' = clock + 1
    /\ UNCHANGED <<state, jobVars, queue, timer, runVars, roundVars, clientVars>>

-----------------------------------------------------------------------------

Loop ==
    \/ TimerFires \/ WakeUp \/ LoopLocks \/ LoopReleases \/ LoopDeparts
    \/ ShutDown \/ LoopShuts
    \/ \E j \in JobIds : LoopSubmits(j) \/ LoopFinishes(j) \/ LoopStumbles(j)

Owner ==
    \/ OwnerStarts \/ OwnerPauses \/ OwnerResumes \/ OwnerStops
    \/ \E paused \in BOOLEAN : OwnerLaunches(paused)

Client ==
    \/ Nudge
    \/ \E j \in JobIds :
          \/ AddJob(j) \/ ResumeJob(j) \/ RemoveJob(j)
          \/ \E t \in Asked(j) : ModifyJob(j, t)

Next == Tick \/ Loop \/ Owner \/ Client \/ \E j \in JobIds : RunEnds(j)

Spec == Init /\ [][Next]_vars

-----------------------------------------------------------------------------
(* Properties *)

TypeOK ==
    /\ clock \in Nat
    /\ state \in {"stopped", "running", "paused"}
    /\ pending \in [JobIds -> TimeOrNone \cup {Absent, Undefined}]
    /\ store \in [JobIds -> TimeOrNone \cup {Absent}]
    /\ queue \in Seq({"wakeup", "shutdown"})
    /\ timer \in TimeOrNone
    /\ busy \subseteq JobIds
    /\ strays \subseteq JobIds \X Time
    /\ loop \in {"idle", "enter", "round", "depart", "stopping"}
    /\ now \in Time
    /\ due \subseteq JobIds
    /\ alarm \in TimeOrNone /\ delay \in TimeOrNone
    /\ starting \in BOOLEAN
    /\ nudging \in Nat /\ starts \in Nat /\ calls \in Nat

\* Between rounds, with no callback in the queue and no modify_job about to
\* wake it, a running scheduler has a timer for the first run time of its store,
\* whatever was called during the last round, exceptions and restarts included.
TimerCovers ==
    state = "running" /\ loop = "idle" /\ queue = <<>> /\ nudging = 0 =>
        \A j \in Scheduled : timer # None /\ delay <= Max({store[j] - now, 0})

\* Once shutdown() has run its course nothing goes on: no timer is armed and no
\* job is given to the executor, whatever wake-ups are still in the queue, until
\* the scheduler is started again.
StaysShut ==
    state = "stopped" /\ loop = "idle" /\ ~starting => timer = None /\ strays = {}

\* That holds of a scheduler with a memory store, which shutdown() empties.
StaysShutInMemory == ~Persistent => StaysShut

=============================================================================

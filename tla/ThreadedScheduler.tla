-------------------------- MODULE ThreadedScheduler --------------------------
(***************************************************************************)
(* A BackgroundScheduler with one job store and one thread pool executor.  *)
(* Its threads meet at three places: the state, which everybody reads and  *)
(* the owner writes without a lock; the wake-up event; and _jobstores_lock.*)
(*                                                                         *)
(*   the loop     _main_loop, in the thread that start() made              *)
(*   the owner    the application thread that calls start, pause, resume   *)
(*                and shutdown, one after the other                        *)
(*   clients      threads that add, change and remove jobs                 *)
(*   workers      threads of the pool that run the functions of jobs       *)
(*                                                                         *)
(* A step is what a thread does between two points at which another thread *)
(* can make a difference: a section under the lock that waits for nothing  *)
(* is one step; reads of the state outside the lock are steps of their own.*)
(***************************************************************************)
EXTENDS Triggers, FiniteSets

CONSTANTS
    JobIds,
    TriggerOf,    \* the trigger of each job
    Callers,      \* jobs whose function calls the scheduler that runs it
    Persistent,   \* the job store outlives shutdown()
    MaxTime,      \* bound: the last tick of the clock
    MaxStarts,    \* bound: calls of start() in a behaviour
    MaxCalls      \* bound: other calls in a behaviour

ASSUME SchedulerAssumption ==
    /\ TriggerOf \in [JobIds -> Trigger]
    /\ Callers \subseteq JobIds
    /\ Persistent \in BOOLEAN
    /\ MaxTime \in Nat /\ MaxStarts \in Nat /\ MaxCalls \in Nat

\* A job that is not there, and one whose next_run_time is not yet computed.
Absent == -2
Undefined == -3

VARIABLES
    clock,
    state,      \* BaseScheduler.state
    event,      \* the wake-up event is set
    holder,     \* who holds _jobstores_lock over several steps
    pending,    \* _pending_jobs, by id: the next_run_time they were given
    store,      \* the job store, by id: the next_run_time
    pool,       \* the thread pool accepts work
    running,    \* jobs that a worker is running
    lost,       \* history: run times dropped as the pool refused them
    loop,       \* where the loop is
    now,        \* the time at which its current or last round began
    due,        \* the due jobs it has yet to submit
    alarm,      \* next_wakeup_time of the round
    since,      \* when it went to sleep
    delay,      \* wait_seconds, None for no timeout
    owner,      \* where the owner is
    waits,      \* shutdown was called with wait=True
    nudging,    \* modify_job calls that have released the lock
    starts, calls

vars == <<clock, state, event, holder, pending, store, pool, running, lost, loop,
          now, due, alarm, since, delay, owner, waits, nudging, starts, calls>>

LoopPlaces == {"none", "check", "wait", "woken", "enter", "blocked", "round", "depart"}
OwnerPlaces == {"idle", "flushed", "launching", "resuming", "stopping", "draining", "joining"}

Nobody == [j \in JobIds |-> Absent]

Init ==
    /\ clock = 0
    /\ state = "stopped" /\ event = FALSE /\ holder = "nobody"
    /\ pending = Nobody /\ store = Nobody
    /\ pool = "open" /\ running = {} /\ lost = {}
    /\ loop = "none" /\ now = 0 /\ due = {} /\ alarm = None
    /\ since = 0 /\ delay = None
    /\ owner = "idle" /\ waits = TRUE
    /\ nudging = 0 /\ starts = 0 /\ calls = 0

\* The first fire time of a job scheduled at the present time.
Fresh(j) == NextFireTime(TriggerOf[j], None, clock)

\* The jobs of the store that have a next_run_time.
Scheduled == {j \in JobIds : store[j] >= 0}

loopVars == <<loop, now, due, alarm, since, delay>>
ownerVars == <<owner, waits, starts>>

-----------------------------------------------------------------------------
(* The loop *)

\* Mutant of LoopCheck: while self.state == STATE_RUNNING.
LoopChecksRunning ==
    /\ loop = "check"
    /\ loop' = IF state = "running" THEN "wait" ELSE "none"
    /\ since' = clock
    /\ UNCHANGED <<clock, state, event, holder, pending, store, pool, running, lost,
                   now, due, alarm, delay, nudging, calls>>
    /\ UNCHANGED ownerVars

\* while self.state != STATE_STOPPED
LoopCheck ==
    /\ loop = "check"
    /\ loop' = IF state = "stopped" THEN "none" ELSE "wait"
    /\ since' = clock
    /\ UNCHANGED <<clock, state, event, holder, pending, store, pool, running, lost,
                   now, due, alarm, delay, nudging, calls>>
    /\ UNCHANGED ownerVars

\* Event.wait returns; only then is the event cleared.
LoopWakes ==
    /\ loop = "wait"
    /\ event \/ (delay # None /\ since + delay <= clock)
    /\ loop' = "woken"
    /\ UNCHANGED <<clock, state, event, holder, pending, store, pool, running, lost,
                   now, due, alarm, since, delay, nudging, calls>>
    /\ UNCHANGED ownerVars

LoopClears ==
    /\ loop = "woken"
    /\ loop' = "enter"
    /\ event' = FALSE
    /\ UNCHANGED <<clock, state, holder, pending, store, pool, running, lost,
                   now, due, alarm, since, delay, nudging, calls>>
    /\ UNCHANGED ownerVars

\* The head of _process_jobs: nothing to do while paused.
LoopEnters ==
    /\ loop = "enter"
    /\ IF state = "paused"
       THEN loop' = "check" /\ delay' = None /\ now' = now
       ELSE loop' = "blocked" /\ now' = clock /\ delay' = delay
    /\ UNCHANGED <<clock, state, event, holder, pending, store, pool, running, lost,
                   due, alarm, since, nudging, calls>>
    /\ UNCHANGED ownerVars

\* It gets the lock and asks the store for the due jobs.
LoopLocks ==
    /\ loop = "blocked" /\ holder = "nobody"
    /\ loop' = "round"
    /\ holder' = "loop"
    /\ due' = {j \in Scheduled : store[j] <= now}
    /\ UNCHANGED <<clock, state, event, pending, store, pool, running, lost,
                   now, alarm, since, delay, nudging, calls>>
    /\ UNCHANGED ownerVars

IsNextDue(j) == j \in due /\ \A k \in due : store[j] <= store[k]

Runs(j) == RunTimes(TriggerOf[j], store[j], now)

Following(j) == NextFireTime(TriggerOf[j], Max(Runs(j)), now)

\* executor.submit_job: a job that runs already is refused, a pool that is shut
\* raises RuntimeError, and _process_jobs swallows either.
HandOver(j) ==
    /\ running' = IF pool = "open" THEN running \cup {j} ELSE running
    /\ lost' = IF pool = "shut" /\ j \notin running
               THEN lost \cup {<<j, t>> : t \in Runs(j)} ELSE lost

\* A due job that goes on: submit it and update it.
LoopSubmits(j) ==
    /\ loop = "round" /\ IsNextDue(j)
    /\ Following(j) # None
    /\ HandOver(j)
    /\ store' = [store EXCEPT ![j] = Following(j)]
    /\ due' = due \ {j}
    /\ UNCHANGED <<clock, state, event, holder, pending, pool, loop, now, alarm,
                   since, delay, nudging, calls>>
    /\ UNCHANGED ownerVars

\* A due job whose schedule is over: submit it and call remove_job, which takes
\* it out of the store as long as the scheduler is not stopped ...
LoopFinishes(j) ==
    /\ loop = "round" /\ IsNextDue(j)
    /\ Following(j) = None
    /\ state # "stopped"
    /\ HandOver(j)
    /\ store' = [store EXCEPT ![j] = Absent]
    /\ due' = due \ {j}
    /\ UNCHANGED <<clock, state, event, holder, pending, pool, loop, now, alarm,
                   since, delay, nudging, calls>>
    /\ UNCHANGED ownerVars

\* ... but looks for it among the pending jobs once shutdown() has begun: a
\* pending job of the same id is dropped in its stead, and when there is none
\* JobLookupError ends the loop.
LoopStumbles(j) ==
    /\ loop = "round" /\ IsNextDue(j)
    /\ Following(j) = None
    /\ state = "stopped"
    /\ HandOver(j)
    /\ IF pending[j] # Absent
       THEN /\ pending' = [pending EXCEPT ![j] = Absent]
            /\ due' = due \ {j}
            /\ UNCHANGED <<loop, holder>>
       ELSE /\ pending' = pending
            /\ due' = {}
            /\ loop' = "none"
            /\ holder' = "nobody"
    /\ UNCHANGED <<clock, state, event, store, pool, now, alarm, since, delay,
                   nudging, calls>>
    /\ UNCHANGED ownerVars

NextRunTime == Earliest({store[j] : j \in Scheduled})

\* No due job is left: note the next run time and release the lock.
LoopReleases ==
    /\ loop = "round" /\ due = {}
    /\ loop' = "depart"
    /\ holder' = "nobody"
    /\ alarm' = NextRunTime
    /\ UNCHANGED <<clock, state, event, pending, store, pool, running, lost,
                   now, due, since, delay, nudging, calls>>
    /\ UNCHANGED ownerVars

\* The time from the beginning of the round to its next wake-up time.
WaitSeconds == IF alarm = None THEN None ELSE Max({alarm - now, 0})

\* The end of _process_jobs, which returns wait_seconds.
LoopDeparts ==
    /\ loop = "depart"
    /\ loop' = "check"
    /\ delay' = IF state = "paused" THEN None ELSE WaitSeconds
    /\ UNCHANGED <<clock, state, event, holder, pending, store, pool, running, lost,
                   now, due, alarm, since, nudging, calls>>
    /\ UNCHANGED ownerVars

-----------------------------------------------------------------------------
(* The owner *)

\* Mutant of Flushed: _real_add_job without "Calculate the next run time".
FlushedAsIs(j) == IF pending[j] = Absent THEN store[j] ELSE pending[j]

\* The next_run_time of j in the store once the pending jobs have been added,
\* with replace_existing.
Flushed(j) ==
    IF pending[j] = Absent THEN store[j]
    ELSE IF pending[j] = Undefined THEN Fresh(j) ELSE pending[j]

\* start(), up to the release of the lock: a new event, and the pending jobs
\* go to the store; the state is still STATE_STOPPED.
OwnerStarts ==
    /\ owner = "idle" /\ state = "stopped" /\ holder = "nobody"
    /\ starts < MaxStarts
    /\ starts' = starts + 1
    /\ owner' = "flushed"
    /\ event' = FALSE
    /\ store' = [j \in JobIds |-> Flushed(j)]
    /\ pending' = Nobody
    /\ UNCHANGED <<clock, state, holder, pool, running, lost, waits, nudging, calls>>
    /\ UNCHANGED loopVars

\* The rest of start(): the state, ...
OwnerLaunches(paused) ==
    /\ owner = "flushed"
    /\ owner' = "launching"
    /\ state' = IF paused THEN "paused" ELSE "running"
    /\ UNCHANGED <<clock, event, holder, pending, store, pool, running, lost, waits,
                   starts, nudging, calls>>
    /\ UNCHANGED loopVars

\* ... the wake-up unless paused, and the thread.
OwnerBegins ==
    /\ owner = "launching"
    /\ owner' = "idle"
    /\ event' = (event \/ state = "running")
    /\ loop' = "check"
    /\ delay' = None
    /\ UNCHANGED <<clock, state, holder, pending, store, pool, running, lost, now, due,
                   alarm, since, waits, starts, nudging, calls>>

Call == calls < MaxCalls /\ calls' = calls + 1

OwnerPauses ==
    /\ Call
    /\ owner = "idle" /\ state = "running"
    /\ state' = "paused"
    /\ UNCHANGED <<clock, event, holder, pending, store, pool, running, lost, nudging>>
    /\ UNCHANGED <<loopVars, ownerVars>>

\* Mutant of OwnerResumes: resume() without wakeup().
ResumeAsleep ==
    /\ Call
    /\ owner = "idle" /\ state = "paused"
    /\ state' = "running"
    /\ UNCHANGED <<clock, event, holder, pending, store, pool, running, lost, nudging>>
    /\ UNCHANGED <<loopVars, ownerVars>>

\* resume(): the state first, and then the wake-up.
OwnerResumes ==
    /\ Call
    /\ owner = "idle" /\ state = "paused"
    /\ owner' = "resuming"
    /\ state' = "running"
    /\ UNCHANGED <<clock, event, holder, pending, store, pool, running, lost, waits,
                   starts, nudging>>
    /\ UNCHANGED loopVars

OwnerWakes ==
    /\ owner = "resuming"
    /\ owner' = "idle"
    /\ event' = TRUE
    /\ UNCHANGED <<clock, state, holder, pending, store, pool, running, lost, waits,
                   starts, nudging, calls>>
    /\ UNCHANGED loopVars

\* shutdown(wait): first the state, without a lock.
OwnerStops(wait) ==
    /\ owner = "idle" /\ state # "stopped"
    /\ owner' = "stopping"
    /\ state' = "stopped"
    /\ waits' = wait
    /\ UNCHANGED <<clock, event, holder, pending, store, pool, running, lost, starts,
                   nudging, calls>>
    /\ UNCHANGED loopVars

\* Then the locks, under which the pool is shut ...
OwnerLocks ==
    /\ owner = "stopping" /\ holder = "nobody"
    /\ owner' = "draining"
    /\ holder' = "owner"
    /\ pool' = "shut"
    /\ UNCHANGED <<clock, state, event, pending, store, running, lost, waits, starts,
                   nudging, calls>>
    /\ UNCHANGED loopVars

\* Mutants of the stores' and the loop's part in it: a memory store that keeps
\* its jobs; a shutdown that leaves the loop asleep.
StoreKept == store
EventLeft == event

\* What is left of the store, and the event, once the stores are shut down.
StoreShut == IF Persistent THEN store ELSE Nobody
EventSet == TRUE

\* ... and, still under the locks, its threads joined if wait=True and the
\* store shut down.  The event is set so that the loop sees the state.
OwnerDrains ==
    /\ owner = "draining"
    /\ waits => running = {}
    /\ owner' = "joining"
    /\ holder' = "nobody"
    /\ store' = StoreShut
    /\ event' = EventSet
    /\ UNCHANGED <<clock, state, pending, pool, running, lost, waits, starts, nudging,
                   calls>>
    /\ UNCHANGED loopVars

OwnerJoins ==
    /\ owner = "joining" /\ loop = "none"
    /\ owner' = "idle"
    /\ UNCHANGED <<clock, state, event, holder, pending, store, pool, running, lost,
                   waits, starts, nudging, calls>>
    /\ UNCHANGED loopVars

-----------------------------------------------------------------------------
(* Clients and workers *)

IfRunning == event' = (event \/ state = "running")

\* add_job: to the pending jobs of a stopped scheduler, else to the store, and
\* a wake-up.  Clients do not add an id twice to the pending jobs.
AddJob(j) ==
    /\ Call /\ holder = "nobody"
    /\ state = "stopped" => pending[j] = Absent
    /\ IF state = "stopped"
       THEN pending' = [pending EXCEPT ![j] = Undefined] /\ store' = store
       ELSE store' = [store EXCEPT ![j] = Fresh(j)] /\ pending' = pending
    /\ IfRunning
    /\ UNCHANGED <<clock, state, holder, pool, running, lost, nudging>>
    /\ UNCHANGED <<loopVars, ownerVars>>

Known(j) == IF state = "stopped" THEN pending[j] # Absent ELSE store[j] # Absent

SetNextRun(j, t) ==
    IF state = "stopped"
    THEN pending' = [pending EXCEPT ![j] = t] /\ store' = store
    ELSE store' = [store EXCEPT ![j] = t] /\ pending' = pending

\* The run times that pause_job and reschedule_job ask modify_job for: the
\* latter reads the clock before modify_job waits for the lock.
Asked(j) == {None} \cup {NextFireTime(TriggerOf[j], None, at) : at \in 0 .. clock}

\* modify_job: the change under the lock; the wake-up comes after its release.
ModifyJob(j, t) ==
    /\ Call /\ holder = "nobody"
    /\ Known(j)
    /\ SetNextRun(j, t)
    /\ nudging' = nudging + 1
    /\ UNCHANGED <<clock, state, event, holder, pool, running, lost>>
    /\ UNCHANGED <<loopVars, ownerVars>>

Nudge ==
    /\ nudging > 0
    /\ nudging' = nudging - 1
    /\ IfRunning
    /\ UNCHANGED <<clock, state, holder, pending, store, pool, running, lost, calls>>
    /\ UNCHANGED <<loopVars, ownerVars>>

\* resume_job calls modify_job with the lock held.
ResumeJob(j) ==
    /\ Call /\ holder = "nobody"
    /\ Known(j)
    /\ Fresh(j) # None
    /\ SetNextRun(j, Fresh(j))
    /\ IfRunning
    /\ UNCHANGED <<clock, state, holder, pool, running, lost, nudging>>
    /\ UNCHANGED <<loopVars, ownerVars>>

\* remove_job, and resume_job of a job whose schedule is over.
RemoveJob(j) ==
    /\ Call /\ holder = "nobody"
    /\ Known(j)
    /\ SetNextRun(j, Absent)
    /\ UNCHANGED <<clock, state, event, holder, pool, running, lost, nudging>>
    /\ UNCHANGED <<loopVars, ownerVars>>

\* A worker finishes; a function that calls the scheduler needs the lock first.
RunEnds(j) ==
    /\ j \in running
    /\ j \in Callers => holder = "nobody"
    /\ running' = running \ {j}
    /\ UNCHANGED <<clock, state, event, holder, pending, store, pool, lost, nudging,
                   calls>>
    /\ UNCHANGED <<loopVars, ownerVars>>

-----------------------------------------------------------------------------

Tick ==
    /\ clock < MaxTime
    /\ clock' = clock + 1
    /\ UNCHANGED <<state, event, holder, pending, store, pool, running, lost, nudging,
                   calls>>
    /\ UNCHANGED <<loopVars, ownerVars>>

Loop ==
    \/ LoopCheck \/ LoopWakes \/ LoopClears \/ LoopEnters \/ LoopLocks
    \/ \E j \in JobIds : LoopSubmits(j) \/ LoopFinishes(j) \/ LoopStumbles(j)
    \/ LoopReleases \/ LoopDeparts

OwnerGoesOn ==
    \/ \E paused \in BOOLEAN : OwnerLaunches(paused)
    \/ OwnerBegins \/ OwnerWakes \/ OwnerLocks \/ OwnerDrains \/ OwnerJoins

Owner ==
    \/ OwnerStarts \/ OwnerPauses \/ OwnerResumes \/ OwnerGoesOn
    \/ \E wait \in BOOLEAN : OwnerStops(wait)

Client ==
    \/ Nudge
    \/ \E j \in JobIds :
          \/ AddJob(j) \/ ResumeJob(j) \/ RemoveJob(j)
          \/ \E t \in Asked(j) : ModifyJob(j, t)

Next == Tick \/ Loop \/ Owner \/ Client \/ \E j \in JobIds : RunEnds(j)

Spec == Init /\ [][Next]_vars

\* Every thread goes on running, functions of jobs return, and the lock is
\* contended by finitely many others.
Fairness ==
    /\ WF_vars(Loop)
    /\ WF_vars(OwnerGoesOn)
    /\ \A j \in JobIds : WF_vars(RunEnds(j))

FairSpec == Spec /\ Fairness

-----------------------------------------------------------------------------
(* Properties *)

TypeOK ==
    /\ clock \in Nat
    /\ state \in {"stopped", "running", "paused"}
    /\ event \in BOOLEAN
    /\ holder \in {"nobody", "loop", "owner"}
    /\ pending \in [JobIds -> TimeOrNone \cup {Absent, Undefined}]
    /\ store \in [JobIds -> TimeOrNone \cup {Absent}]
    /\ pool \in {"open", "shut"}
    /\ running \subseteq JobIds
    /\ lost \subseteq JobIds \X Time
    /\ loop \in LoopPlaces
    /\ now \in Time
    /\ due \subseteq JobIds
    /\ alarm \in TimeOrNone
    /\ since \in Time
    /\ delay \in TimeOrNone
    /\ owner \in OwnerPlaces
    /\ waits \in BOOLEAN
    /\ nudging \in Nat /\ starts \in Nat /\ calls \in Nat

\* No wake-up is lost between the threads: when the loop of a running scheduler
\* waits with its event clear, and no resume or modify_job is about to set it, the
\* wait ends no later than the first run time in the store asks for.  Calls of
\* pause and resume, and of clients, fall anywhere in the round.
NeverOversleeps ==
    state = "running" /\ owner = "idle" /\ loop = "wait" /\ ~event /\ nudging = 0 =>
        \A j \in Scheduled : delay # None /\ delay <= Max({store[j] - now, 0})

\* A scheduler that has been started and not shut down has its loop, however
\* its last shutdown raced with a round, an exception of remove_job included.
LoopLives == state # "stopped" /\ owner = "idle" => loop # "none"

\* Shutting down a scheduler with a memory store costs no run: the pool is shut
\* and the store emptied under the lock a round holds, so no round can bring a
\* due job to a pool that is shut, until the scheduler is started again.
LostOnlyAfterRestart == ~Persistent /\ lost # {} => starts > 1

\* shutdown() returns.
ShutdownReturns == owner = "stopping" ~> owner = "idle"

=============================================================================

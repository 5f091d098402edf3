------------------------------ MODULE Registry ------------------------------
(***************************************************************************)
(* The executors and job stores of a scheduler, which can be added and     *)
(* removed at any time: by configure() and start(), and by other threads   *)
(* while the scheduler starts, runs and shuts down.                        *)
(*                                                                         *)
(*   the owner    the thread that calls configure, start, pause, resume    *)
(*                and shutdown, one after the other                        *)
(*   clients      threads that add and remove executors, stores and jobs   *)
(*   the loop     _main_loop of a BackgroundScheduler                      *)
(*                                                                         *)
(* add_executor holds _executors_lock and a round _jobstores_lock, but a   *)
(* round looks executors up without a lock: it may see one half added.     *)
(* Executors are pool executors, which can be shut down once; job stores   *)
(* can be started again.  What becomes of a plugin after its removal is    *)
(* not followed.  All jobs are in the default store, which is empty when   *)
(* it is added, one job for each executor that jobs name; the jobs that    *)
(* wait for a start are those of ThreadedScheduler.                        *)
(*                                                                         *)
(* The names of the specification are its own, so that one module can hold *)
(* the theorems about it and those about Executors.                        *)
(***************************************************************************)
EXTENDS Naturals

CONSTANTS
    Aliases,
    Default,     \* the alias "default"
    Nobody,
    MaxStarts,   \* bound: calls of start() in a behaviour
    MaxCalls     \* bound: other calls in a behaviour

ASSUME RegistryAssumption ==
    /\ Default \in Aliases /\ Nobody \notin Aliases
    /\ MaxStarts \in Nat /\ MaxCalls \in Nat

VARIABLES
    state,       \* BaseScheduler.state
    executors,   \* _executors, by alias
    stores,      \* _jobstores, by alias
    adding,      \* the executor that add_executor has entered but not started
    owner,       \* where the owner is
    loop,        \* where the loop is
    event,       \* the wake-up event is set
    jobs,        \* the executors named by the jobs of the default store
    due,         \* those of the due jobs that the round has yet to submit
    notifying,   \* add_jobstore calls that have released the lock
    unasked,     \* history: stores that no round has asked since they were added
    late,        \* history: plugins added after start() had started the others
    starts, calls

registryVars ==
    <<state, executors, stores, adding, owner, loop, event, jobs, due,
      notifying, unasked, late, starts, calls>>

\* A plugin is new until start() is called on it, and shut after shutdown().
Status == {"absent", "new", "started", "shut"}

Plugin == {"executor", "jobstore"} \X Aliases

RegistryInit ==
    /\ state = "stopped"
    /\ executors \in [Aliases -> {"absent", "new"}]
    /\ stores \in [Aliases -> {"absent", "new"}]
    /\ adding = Nobody
    /\ owner = "idle" /\ loop = "none" /\ event = FALSE
    /\ jobs = {} /\ due = {}
    /\ notifying = 0 /\ unasked = {} /\ late = {}
    /\ starts = 0 /\ calls = 0

registry == <<executors, stores, adding>>
loopVars == <<loop, event, due>>
history == <<unasked, late>>
bounds == <<starts, calls>>

\* Mutants of the locks: clients do not take them.
AlwaysFree == TRUE

ExecutorsFree == adding = Nobody /\ owner # "locking"

StoresFree == loop # "round"

Present(plugins) == {a \in Aliases : plugins[a] # "absent"}

\* The dictionary once "default" has been added, if it was not there.
WithDefault(plugins) ==
    [plugins EXCEPT ![Default] = IF @ = "absent" THEN "new" ELSE @]

\* start() of every executor.  A pool that is shut stays shut.
ExecutorsStarted(plugins) ==
    [a \in Aliases |-> IF plugins[a] = "new" THEN "started" ELSE plugins[a]]

StoresStarted(plugins) ==
    [a \in Aliases |-> IF plugins[a] = "absent" THEN "absent" ELSE "started"]

AllShut(plugins) ==
    [a \in Aliases |-> IF plugins[a] = "absent" THEN "absent" ELSE "shut"]

-----------------------------------------------------------------------------
(* The owner *)

Call == calls < MaxCalls /\ calls' = calls + 1

\* configure(): the executors are cleared, without a lock, and added one by one
\* with add_executor, ...
OwnerClears ==
    /\ Call
    /\ state = "stopped" /\ owner = "idle"
    /\ owner' = "configuring"
    /\ executors' = [a \in Aliases |-> "absent"]
    /\ UNCHANGED <<state, stores, adding, loopVars, jobs, notifying, history, starts>>

OwnerAddsExecutor(a) ==
    /\ owner = "configuring" /\ ExecutorsFree
    /\ executors[a] = "absent"
    /\ executors' = [executors EXCEPT ![a] = "new"]
    /\ UNCHANGED <<state, stores, adding, owner, loopVars, jobs, notifying, history, bounds>>

\* ... and then the job stores likewise.
OwnerClearsStores ==
    /\ owner = "configuring"
    /\ owner' = "configuringStores"
    /\ stores' = [a \in Aliases |-> "absent"]
    /\ jobs' = {}
    /\ UNCHANGED <<state, executors, adding, loopVars, notifying, history, bounds>>

OwnerAddsStore(a) ==
    /\ owner = "configuringStores" /\ StoresFree
    /\ stores[a] = "absent"
    /\ stores' = [stores EXCEPT ![a] = "new"]
    /\ UNCHANGED <<state, executors, adding, owner, loopVars, jobs, notifying, history, bounds>>

\* An alias that somebody else has added since, or a value of the wrong type,
\* raises and ends configure() before its time.
OwnerConfigured ==
    /\ owner \in {"configuring", "configuringStores"}
    /\ owner' = "idle"
    /\ UNCHANGED <<state, registry, loopVars, jobs, notifying, history, bounds>>

\* start(): first the executors, under their lock,
OwnerStarts ==
    /\ state = "stopped" /\ owner = "idle" /\ ExecutorsFree
    /\ starts < MaxStarts
    /\ starts' = starts + 1
    /\ owner' = "executors"
    /\ executors' = ExecutorsStarted(WithDefault(executors))
    /\ event' = FALSE
    /\ late' = {}
    /\ UNCHANGED <<state, stores, adding, loop, jobs, due, notifying, unasked, calls>>

\* then the job stores, under theirs,
OwnerStartsStores ==
    /\ owner = "executors" /\ StoresFree
    /\ owner' = "stores"
    /\ stores' = StoresStarted(WithDefault(stores))
    /\ unasked' = Present(WithDefault(stores))
    /\ UNCHANGED <<state, executors, adding, loopVars, jobs, notifying, late, bounds>>

\* and last the state, ...
OwnerLaunches(paused) ==
    /\ owner = "stores"
    /\ owner' = "launching"
    /\ state' = IF paused THEN "paused" ELSE "running"
    /\ UNCHANGED <<registry, loopVars, jobs, notifying, history, bounds>>

\* ... the wake-up unless paused, and the loop's thread.
OwnerBegins ==
    /\ owner = "launching"
    /\ owner' = "idle"
    /\ event' = (event \/ state = "running")
    /\ loop' = "idle"
    /\ UNCHANGED <<state, registry, jobs, due, notifying, history, bounds>>

OwnerPauses ==
    /\ Call
    /\ state = "running" /\ owner = "idle"
    /\ state' = "paused"
    /\ UNCHANGED <<registry, owner, loopVars, jobs, notifying, history, starts>>

\* resume(): the state, and then the wake-up.
OwnerResumes ==
    /\ Call
    /\ state = "paused" /\ owner = "idle"
    /\ owner' = "resuming"
    /\ state' = "running"
    /\ UNCHANGED <<registry, loopVars, jobs, notifying, history, starts>>

OwnerWakes ==
    /\ owner = "resuming"
    /\ owner' = "idle"
    /\ event' = TRUE
    /\ UNCHANGED <<state, registry, loop, due, jobs, notifying, history, bounds>>

\* shutdown(): the state, both locks one after the other, and then everything.
\* A memory store forgets its jobs, others keep them.
OwnerStops ==
    /\ state # "stopped" /\ owner = "idle"
    /\ state' = "stopped"
    /\ owner' = "stopping"
    /\ UNCHANGED <<registry, loopVars, jobs, notifying, history, bounds>>

OwnerLocks ==
    /\ owner = "stopping" /\ ExecutorsFree
    /\ owner' = "locking"
    /\ UNCHANGED <<state, registry, loopVars, jobs, notifying, history, bounds>>

OwnerShuts ==
    /\ owner = "locking" /\ StoresFree
    /\ owner' = "joining"
    /\ executors' = AllShut(executors)
    /\ stores' = AllShut(stores)
    /\ jobs' \in {{}, jobs}
    /\ event' = TRUE
    /\ UNCHANGED <<state, adding, loop, due, notifying, history, bounds>>

OwnerJoins ==
    /\ owner = "joining" /\ loop = "none"
    /\ owner' = "idle"
    /\ UNCHANGED <<state, registry, loopVars, jobs, notifying, history, bounds>>

-----------------------------------------------------------------------------
(* Clients *)

\* Mutants of Live: a plugin is started whatever the state, or when running only.
LiveAlways == TRUE
LiveIfRunning == state = "running"

\* The scheduler is, or seems, started: so is a plugin that is added.
Live == state # "stopped"

\* start() has been past the plugins of this kind.
PassedBy(owners) == ~Live /\ owner \in owners

\* add_executor: the executor is in the dictionary ...
AddExecutor(a) ==
    /\ Call
    /\ ExecutorsFree
    /\ executors[a] = "absent"
    /\ executors' = [executors EXCEPT ![a] = "new"]
    /\ adding' = a
    /\ UNCHANGED <<state, stores, owner, loopVars, jobs, notifying, history, starts>>

\* ... before it is started, with the lock held; or not, while the state says
\* stopped.  configure() may have cleared the dictionary.
AddingEnds ==
    /\ adding # Nobody
    /\ adding' = Nobody
    /\ executors' = [executors EXCEPT ![adding] =
                        IF @ = "new" /\ Live THEN "started" ELSE @]
    /\ late' = IF PassedBy({"executors", "stores"})
               THEN late \cup {<<"executor", adding>>} ELSE late
    /\ UNCHANGED <<state, stores, owner, loopVars, jobs, notifying, unasked, bounds>>

RemoveExecutor(a) ==
    /\ Call
    /\ ExecutorsFree
    /\ executors[a] # "absent"
    /\ executors' = [executors EXCEPT ![a] = "absent"]
    /\ UNCHANGED <<state, stores, adding, owner, loopVars, jobs, notifying, history, starts>>

\* add_jobstore, up to the release of the lock.
AddJobstore(a) ==
    /\ Call
    /\ StoresFree
    /\ stores[a] = "absent"
    /\ stores' = [stores EXCEPT ![a] = IF Live THEN "started" ELSE "new"]
    /\ unasked' = unasked \cup {a}
    /\ late' = IF PassedBy({"stores"}) THEN late \cup {<<"jobstore", a>>} ELSE late
    /\ notifying' = notifying + 1
    /\ UNCHANGED <<state, executors, adding, owner, loopVars, jobs, starts>>

\* Mutant of NotifiedEvent: add_jobstore without wakeup().
NotNotified == event

NotifiedEvent == event \/ Live

\* Its last step looks at the state and wakes the loop.
Notify ==
    /\ notifying > 0
    /\ notifying' = notifying - 1
    /\ event' = NotifiedEvent
    /\ UNCHANGED <<state, registry, owner, loop, due, jobs, history, bounds>>

RemoveJobstore(a) ==
    /\ Call
    /\ StoresFree
    /\ stores[a] # "absent"
    /\ stores' = [stores EXCEPT ![a] = "absent"]
    /\ unasked' = unasked \ {a}
    /\ jobs' = IF a = Default THEN {} ELSE jobs
    /\ UNCHANGED <<state, executors, adding, owner, loopVars, notifying, late, starts>>

\* add_job does not ask whether the executor it names is there.
AddJob(a) ==
    /\ Call
    /\ StoresFree /\ Live /\ stores[Default] # "absent"
    /\ jobs' = jobs \cup {a}
    /\ event' = (event \/ state = "running")
    /\ UNCHANGED <<state, registry, owner, loop, due, notifying, history, starts>>

RemoveJob(a) ==
    /\ Call
    /\ StoresFree /\ Live
    /\ a \in jobs
    /\ jobs' = jobs \ {a}
    /\ UNCHANGED <<state, registry, owner, loopVars, notifying, history, starts>>

-----------------------------------------------------------------------------
(* The loop *)

\* _main_loop: leave when the state says stopped, else wait for the event or the
\* timeout, clear the event, and process the jobs.
LoopExits ==
    /\ loop = "idle" /\ state = "stopped"
    /\ loop' = "none"
    /\ UNCHANGED <<state, registry, owner, event, due, jobs, notifying, history, bounds>>

LoopWakes ==
    /\ loop = "idle"
    /\ loop' = "awake"
    /\ event' = FALSE
    /\ UNCHANGED <<state, registry, owner, due, jobs, notifying, history, bounds>>

LoopSkips ==
    /\ loop = "awake" /\ state = "paused"
    /\ loop' = "idle"
    /\ UNCHANGED <<state, registry, owner, event, due, jobs, notifying, history, bounds>>

\* A round takes the lock, which must not be held by shutdown, and asks every
\* store for its due jobs.
LoopAsks ==
    /\ loop = "awake" /\ state # "paused"
    /\ loop' = "round"
    /\ unasked' = {}
    /\ due' \in SUBSET jobs
    /\ UNCHANGED <<state, registry, owner, event, jobs, notifying, late, bounds>>

\* The executor of a due job is looked up; one that has not been started, or is
\* shut, raises, and the run is lost.  The job's schedule goes on ...
LoopSubmits(a) ==
    /\ loop = "round" /\ a \in due
    /\ executors[a] # "absent"
    /\ due' = due \ {a}
    /\ UNCHANGED <<state, registry, owner, loop, event, jobs, notifying, history, bounds>>

\* ... or it is over, or there is no such executor: the job is removed.
LoopDrops(a) ==
    /\ loop = "round" /\ a \in due
    /\ Live
    /\ due' = due \ {a}
    /\ jobs' = jobs \ {a}
    /\ UNCHANGED <<state, registry, owner, loop, event, notifying, history, bounds>>

\* remove_job of a stopped scheduler looks among the pending jobs only: the
\* JobLookupError ends the loop's thread.
LoopStumbles(a) ==
    /\ loop = "round" /\ a \in due
    /\ ~Live
    /\ due' = {}
    /\ loop' = "none"
    /\ UNCHANGED <<state, registry, owner, event, jobs, notifying, history, bounds>>

LoopReleases ==
    /\ loop = "round" /\ due = {}
    /\ loop' = "idle"
    /\ UNCHANGED <<state, registry, owner, event, due, jobs, notifying, history, bounds>>

-----------------------------------------------------------------------------

Owner ==
    \/ OwnerClears \/ OwnerClearsStores \/ OwnerConfigured
    \/ OwnerStarts \/ OwnerStartsStores \/ OwnerBegins
    \/ OwnerPauses \/ OwnerResumes \/ OwnerWakes
    \/ OwnerStops \/ OwnerLocks \/ OwnerShuts \/ OwnerJoins
    \/ \E a \in Aliases : OwnerAddsExecutor(a) \/ OwnerAddsStore(a)
    \/ \E paused \in BOOLEAN : OwnerLaunches(paused)

Client ==
    \/ AddingEnds \/ Notify
    \/ \E a \in Aliases :
          \/ AddExecutor(a) \/ RemoveExecutor(a) \/ AddJobstore(a) \/ RemoveJobstore(a)
          \/ AddJob(a) \/ RemoveJob(a)

Loop ==
    \/ LoopExits \/ LoopWakes \/ LoopSkips \/ LoopAsks \/ LoopReleases
    \/ \E a \in Aliases : LoopSubmits(a) \/ LoopDrops(a) \/ LoopStumbles(a)

RegistryNext == Owner \/ Client \/ Loop

RegistrySpec == RegistryInit /\ [][RegistryNext]_registryVars

-----------------------------------------------------------------------------
(* Properties *)

\* The due jobs of a round stay in the store while it goes through them.
RegistryTypeOK ==
    /\ state \in {"stopped", "running", "paused"}
    /\ executors \in [Aliases -> Status]
    /\ stores \in [Aliases -> Status]
    /\ adding \in Aliases \cup {Nobody}
    /\ owner \in {"idle", "configuring", "configuringStores", "executors", "stores",
                  "launching", "resuming", "stopping", "locking", "joining"}
    /\ loop \in {"none", "idle", "awake", "round"}
    /\ event \in BOOLEAN
    /\ jobs \subseteq Aliases /\ due \subseteq jobs
    /\ notifying \in Nat
    /\ unasked \subseteq Aliases
    /\ late \subseteq Plugin
    /\ starts \in Nat /\ calls \in Nat

\* shutdown() reaches every plugin: once it has gone through them nothing that
\* was added in the meantime, or is added later, is left started in a scheduler
\* that is stopped.
NothingLeftStarted ==
    /\ state = "stopped"
    /\ owner \in {"idle", "configuring", "configuringStores", "joining"}
    =>
        \A a \in Aliases : executors[a] # "started" /\ stores[a] # "started"

\* submit_job asserts that the executor has been started, and a store must be
\* before it is asked.  In a scheduler that is started, all are, but for an
\* executor that is just being added and the plugins that were added between
\* start() going through the plugins and setting the state.
StartedUnlessLate ==
    state # "stopped" =>
        \A a \in Aliases :
            /\ executors[a] = "new" => adding = a \/ <<"executor", a>> \in late
            /\ stores[a] = "new" => <<"jobstore", a>> \in late

\* A store that is added is asked for its jobs: the loop of a running scheduler
\* never sleeps with a store in its dictionary that no round has asked, wherever
\* between pause, resume and the steps of start() and of a round it was added.
NewStoreAsked ==
    state = "running" /\ owner = "idle" /\ loop = "idle" /\ ~event /\ notifying = 0 =>
        unasked = {}

=============================================================================

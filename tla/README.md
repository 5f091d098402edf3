# A TLA+ verification project for APScheduler with an S3 job store

The repository is APScheduler 3 (a Python in-process scheduler) with one
addition: `S3JobStore`, through which several application instances share jobs
in an S3 bucket. This project holds TLA+ models of the parts of it that are hard
to test, the TLC runs that check them on small instances, and TLAPS proofs of
the properties that matter most for every instance. `PROJECT.json` is the index:
components, runs, the lines each definition models, findings and hazards.

## 1. The system

| Component | State | Operations | Meets |
|---|---|---|---|
| `jobstores/s3.py` | bucket: one object per job (envelope: target, creator, job state), receipts; per process: `_cache`, `_last_executed` | `get_due_jobs` (LIST, GET each), `add_job`, `update_job` (PUT, receipt PUT), `remove_job`, `remove_all_jobs`, `get_next_run_time` | other instances, through the bucket |
| `schedulers/base.py` | `state`, `_pending_jobs`, stores, executors, three locks | `start`, `shutdown`, `pause`, `resume`, job calls, `_process_jobs` | stores and executors (calls), loops (`wakeup`) |
| `schedulers/blocking.py`, `background.py` | the wake-up event, the loop's thread | `_main_loop`, `wakeup`, `start`, `shutdown` | base scheduler |
| `schedulers/asyncio.py`, `gevent.py`, `qt.py`, `tornado.py`, `twisted.py` | a timer, the event loop's queue | `wakeup`, timers | base scheduler, event loop |
| `executors/base.py`, `pool.py` | `_instances` counters, a lock, a pool | `submit_job`, callbacks, `shutdown` | scheduler's loop, worker threads |
| `executors/asyncio.py`, `tornado.py`, `twisted.py`, `gevent.py`, `debug.py` | the same counters; asyncio: `_pending_futures` | the same | event loop, its threads, greenlets |
| `jobstores/memory.py` | a sorted list and an index | the job store interface | base scheduler, under its lock |
| `jobstores/sqlalchemy.py`, `mongodb.py`, `rethinkdb.py`, `redis.py`, `zookeeper.py` | a database; ZooKeeper: `_ensured_path` | the job store interface, a few requests each | drivers; base scheduler, under its lock |
| `triggers/*`, `job.py` | none that changes | `get_next_fire_time`, `_get_run_times` | scheduler, stores |

What is hard about them, and what makes them correct:

* **S3 store.** Every instance works on a cache that is stale as soon as it is
  read; a round is many requests between which other instances write, a process
  dies, or a request fails. Correct means: no fire time of a job is skipped, an
  instance does not run a broadcast fire time twice and every matching one runs it,
  each run leaves its receipt, a removed job stays removed, a stored job is found.
  The last four promises are kept in part only (section 3).
* **Scheduler threads.** The state is read and written without a lock, the event
  is waited for, cleared and set by different threads, `start` and `shutdown`
  change the state outside the sections they lock. Correct means: no wake-up is
  lost, a started scheduler has its loop, `shutdown` returns, no run falls between
  two lives.
* **Event-loop schedulers.** `wakeup()` and `shutdown()` only queue a callback;
  by the time it is called the scheduler may be paused, shut down or started
  again. Correct means: a running scheduler always has its timer, one that is
  shut down does nothing.
* **Executors and stores that come and go.** They are added and removed by
  several threads while `start` and `shutdown` go through them and rounds look
  them up. Correct means: all are started in a started scheduler, none in a
  stopped one, and a new store is asked for its jobs.
* **Executors.** A future may be done before its callback is added; callbacks
  contend with submissions for the counter; a pool breaks or is shut, futures are
  cancelled while their function runs on. Correct means: the counter counts,
  `max_instances` holds, every slot comes back, and listeners hear of every run,
  once it is over.
* **Memory store.** The job object in the list is changed before the store is
  told. Correct means: the store is the map with ordered lists that
  `jobstores/base.py` describes.
* **Database stores.** An operation is a few requests, each of which may fail
  before the database has carried it out or after. A stored job whose function is
  gone is deleted by the operation that finds it, and by no other way. Redis keeps
  the run times twice, ZooKeeper remembers that it has created its node, SQL
  databases differ in where they sort NULL. Correct means: every one of them is
  the store that `jobstores/base.py` describes.
* **Triggers.** Rounding at interval boundaries, ends of schedules, the carry from
  one calendar field to the next. Correct means: the runs of a round and the next
  run time together leave out no fire time; the search of a cron trigger ends,
  with the first date that satisfies all fields.

## 2. Modules

| Module | Models | Remarks |
|---|---|---|
| `Triggers` | interval, cron and date triggers, `Job._get_run_times` | pure operators on ticks |
| `S3JobStore` | what one store computes from its cache | pure operators |
| `S3Cluster` | instances, their loops and clients, the bucket, faults | extends `S3JobStore` |
| `ThreadedScheduler` | `BackgroundScheduler` with one store and one pool | extends `Triggers` |
| `EventLoopScheduler` | `AsyncIOScheduler` (and Tornado's, Twisted's) with one store and one executor | extends `Triggers` |
| `Registry` | the executors and stores of a `BackgroundScheduler` | |
| `Executors` | the executors of all kinds, with their pool or event loop | |
| `JobStore` | the abstract job store, from `jobstores/base.py` | specification only |
| `MemoryJobStore` | `jobstores/memory.py` | refines `JobStore` |
| `DatabaseJobStore` | the five stores over a database | refines `JobStore` |
| `CronSearch` | `CronTrigger.get_next_fire_time` over its fields and expressions | checked against `Triggers` |
| `CombiningTriggers` | `AndTrigger`, `OrTrigger` | extends `Triggers` |
| `MC...` | one for each specification that runs | constants for TLC |
| `...Proofs` | theorems | see section 5 |

Definitions named "Mutant of X" stand next to some definitions: each is X with a
plausible mistake, kept to show that a property notices it. No specification
uses them.

### Triggers

Time is a natural number of ticks and `None` is -1. A cron expression is the set
of instants it denotes. `IntervalNext`, `CronNext` and `DateNext` follow the
`get_next_fire_time` of their class, branch by branch. `RunTimes` gives the list
that `_get_run_times` builds as a set: the fire times from `next_run_time` to
now. Jitter and time zones are left out.

### S3Cluster

`bucket[j]` is the object under a job's key, `cache[i]` and `last[i]` are
`_cache` and `_last_executed` of instance `i`, `pc[i]` says where its loop is.
A round is `Wake` (the event is cleared, the clock is read), `List`, a `Fetch`
for each key, `FindDue` (the rest of `get_due_jobs`), then for each due job
`Submit` and `Save`/`WriteReceipt` or `Finish`, and `EndRound`, which computes the
wait. Each step of the loop is at most one S3 request, so everything that can happen
between two requests does: other instances' writes, client calls outside the round
(`_jobstores_lock` keeps them out of it), a crash. A client call is one step with
all its requests: the first PUT is followed only by that of a receipt, which no
instance reads, and by a wake-up (whose delay is `Nudge` of `ThreadedScheduler`), and
the DELETEs of `remove_all_jobs` are of different keys. Of a job's state only the
schedule is kept. `receipts` are the keys of the execution receipts: job, instance and
the time of the write, so that two in the same tick are one object, as two in the same
second are in the code. `covered` (run times given to the executor), `ran` and
`removed` (who has removed which job through a client, until it is added again) are
history; the field `first` of an envelope remembers where its schedule was last
started by a client and is not in the object.

Faults: `Crash` at any step, a LIST or GET that fails, a job that cannot be
reconstituted (after any of the other broadcast jobs have been noted, as the
order of a dict is not fixed), a PUT or DELETE of `_process_jobs` that fails and
ends the loop, an executor that is not configured. Not modelled: failing
requests of client calls, a bucket that is not strongly consistent, the
scheduler's pause and shutdown, jobs stored by clients before `start`.

### ThreadedScheduler

Threads: the loop, one owner (calling `start`, `pause`, `resume`, `shutdown` one
after the other), clients, and workers. A section under `_jobstores_lock` that
waits for nothing is one step; a section that others may meet half way (the
round, `shutdown`) holds the lock in `holder`. Reads of `state` outside the lock
are steps of their own: the loop's test, the head and the tail of
`_process_jobs`, the state in `start` (`OwnerLaunches`, then `OwnerBegins`), `resume`
(`OwnerResumes`, then `OwnerWakes`) and `shutdown`. `modify_job` wakes the loop
after it has released the lock (`Nudge`). `LoopStumbles` is `remove_job` called by
the round that `shutdown` has overtaken. `Persistent` is a store that can be
used after its `shutdown` (SQLAlchemy's); otherwise the store is the memory
store. `Callers` are jobs whose function calls the scheduler. `running` holds at
most one instance of a job (`max_instances=1`, the default). An id is added at
most once to the pending jobs, with `replace_existing`. Listeners,
coalescing and misfires are left out, as is a second owner and a `start` on a
running scheduler; several stores and executors are in `Registry`.

Two behaviours of the module are worth knowing, although no run is about them. A
client that finds the scheduler stopped between the sections of `start` adds its
job to a pending list that was just flushed: the job waits for the next life.
And the loop makes one more round after `shutdown` has set the state; with a
store that outlives `shutdown` the runs of that round are refused by the pool
and, as the schedule goes on, lost. After a restart so are all runs, since the pool that `shutdown` has
shut is never replaced, although `README.rst` (line 55) promises that a restarted
scheduler runs what it should have run while it was offline.

### EventLoopScheduler

The event loop calls one callback at a time: `WakeUp` begins a round, which goes
through `LoopLocks`, `LoopSubmits` and so on to `LoopDeparts`, where the timer is
armed; `ShutDown` and `LoopShuts` are the two halves of `shutdown()`. `queue` holds
the scheduler's own callbacks in the order they were queued. The owner and the
clients may be callbacks or other threads: they take their steps at any time, but
for the lock, which only a round holds over several steps. The futures of the
executor end at any time (`RunEnds`), cancelled or not. `strays` is history. With a
store that outlives `shutdown` (`Persistent`), a wake-up that was queued behind it
submits jobs and arms the timer of a stopped scheduler, again and again, so that
`StaysShut` holds with the memory store only. Job functions that call the
scheduler, a second owner, and a `start` on a running scheduler are left out.

### Registry

`executors` and `stores` are the two dictionaries, with each plugin's own state.
The owner's calls are cut where they release a lock or read the state: `start` is
`OwnerStarts`, `OwnerStartsStores`, `OwnerLaunches`, `OwnerBegins`; `resume` is
`OwnerResumes` and `OwnerWakes`; `shutdown` is `OwnerStops`, `OwnerLocks`, `OwnerShuts`,
`OwnerJoins`; `configure` is `OwnerClears` and `OwnerAddsExecutor` for each executor, then
`OwnerClearsStores` and `OwnerAddsStore` for each store, and `OwnerConfigured`, which an
error brings about at any point. `add_executor` puts the executor in the dictionary (`AddExecutor`)
before it starts it (`AddingEnds`), and a round, which takes no lock for its
lookup, may meet it in between; `add_jobstore` ends with a wake-up (`Notify`)
after the lock. `late` remembers which plugins were added while the state still
said stopped but `start` had been past them: they stay unstarted, which is what
`StartedUnlessLate` has to leave out. The jobs are those of the default store,
one for each executor they name; a job whose executor is missing is removed.
What becomes of a plugin after its removal, plugin classes, and the jobs that
wait for a start are left out.

### CronSearch

The fields and expressions of the code on a calendar that is a parameter, so that
TLC can go through all of it; weeks and weekdays are derived fields there too.
One step is one turn of the `while` loop: the field at `fieldnum` has no value left
(`NoValue`), a later one that can be set (`SetField`), a later one that can only be
reached day by day (`NextDay`), or keeps its value (`Keep`). `Increment` is
`_increment_field_value` with its carry. Hours stand for hours, minutes and seconds. The
reference is the meaning of the expressions, without any search (`Denotes`): the
answer must be that of `CronNext`, by which the other modules stand for cron
triggers. A calendar is given by the day each month begins on (`MonthStart`) and the
limits of `MIN_VALUES` and `MAX_VALUES`; it is assumed that a later month begins later
and that no date is beyond the limits, as is true of the code's.

### CombiningTriggers

A scheduler asks an `AndTrigger` for a fire time, and again after each run. A step
of `Disagree` is one turn of the loop; when the triggers give the same times
again it changes nothing, and every turn after it is the same.

### Executors

`kind` is the class of the executor; a future stands for one accepted `submit_job`,
with as many run times as `RunTimes` says. `SubmitJob`, `AddCallback` (asyncio:
`AsyncIOAddsCallback`, debug: `DebugCallsBack`) and `CountInstance` are the three
moments of `submit_job` between which a worker can make a difference; the
executor's lock is reentrant, and a future of a pool that is done before
`add_done_callback` runs its callback there and then. `RunJob` and
`RunCoroutineJob` are the turns of the loop over the run times, `Callback` gives
the slot back under the lock, `Tell` dispatches the events, without it, one by one.
Where futures belong to an event loop (`OnLoop`), `LoopFree` says that it does one
thing at a time.

`PoolBreaks` ends all futures of a process pool at once, and the result of a
process may fail to be pickled: the events of such runs are lost. `AsyncIOShutdown` is
`shutdown` of the asyncio executor. The future of a thread is over at once while
the thread goes on (`orphans`), one that was queued may just be taken, a coroutine
notices (`cancelled`) when it takes its next step. `PoolShutdown` shuts an open pool for
good. One that has broken (`pool = "broken"`) is not affected by it, for the next
submission finds it broken first and replaces it; the other executors do nothing when
they are shut down.

Two behaviours are worth knowing, although no run is about them. A coroutine that
runs is interrupted by that shutdown, of which `schedulers/base.py` says that it
"does not interrupt any currently running jobs"; the run it interrupts becomes an
error event, and its remaining run times take place. And a thread that goes on
has given its slot back, so that the next life of the scheduler runs the job a
second time beside it: the exception in `InstancesBounded`.

`max_instances` is fixed per job; whether an event says missed, failed or executed
is left out, since all three are dispatched alike, and so is `start`, which makes
a new lock. Waiting for the pool in `shutdown` is in `ThreadedScheduler`.

### JobStore and MemoryJobStore

`JobStore` is a map from ids to run times whose operations return a reply: lists
in the order of run times with paused jobs last, or the error. Two things that
only stores over a database do are part of the promise: an operation may fail,
having done its work or not, and a job that cannot be read (`unreadable`, which
changes by itself) may be dropped when a list is asked for. `MemoryJobStore`
is the store without unreadable jobs (`unreadable <- {}`). It has the list and the index, with the binary search step for step. The scheduler
changes the job object before `update_job`, so only the time stamp the store
kept tells where the job is. `Abstract == INSTANCE JobStore WITH timeOf <-
jobsIndex, unreadable <- {}` is the refinement mapping.

### DatabaseJobStore

`kind` is the class of the store. `db.jobs` has the run time of each row, document,
field or node; `db.bad` are the jobs whose state cannot be restored; `db.runTimes` is
the sorted set of Redis, `db.path` the node under which ZooKeeper keeps the jobs,
`ensuredPath` the store's belief about it. Each store has its own section with one
operator for each method.

Failures: a request fails before it changes anything (`RequestFails`, `ZkFails`); the
last request of an operation is carried out but its answer is lost (`Write`); a
deletion of several documents or nodes stops half way (`Interrupted`); ZooKeeper's
connection is lost while a list is read (`ConnectionDrops`, `unread`); the process
restarts, with code in which the functions of any set of jobs are gone (`Restart`).
The mapping to `JobStore` is `timeOf <- db.jobs, unreadable <- db.bad \cup unread`.

Three behaviours of the module are worth knowing:

* `_get_jobs` of ZooKeeper takes every exception, one of the connection too, for
  a job that cannot be restored, and deletes the node. The promise of the other
  stores is narrower: they drop no job of which only a read failed.
* `remove_all_jobs` of ZooKeeper whose last answer is lost has deleted the node of
  the store but not reset `_ensured_path`: `add_job` fails until the process is
  restarted. `StorePathKept` says that nothing else has this effect.
* ZooKeeper's lists take a run time of 0, the epoch, for none; run times are positive in the module (`DatabaseAssumption`).

Left out: connections, the creation of tables and indexes, pickling, and two
processes over one store, which `docs/faq.rst` rules out.

## 3. Runs

| Run | Expect | Question | Bounds |
|---|---|---|---|
| `S3Cluster` | pass | do fire times, removals and receipts survive staleness, clients and faults? | 2 instances, 1 job (exact or broadcast), ticks 0..3, rounds of up to 1 tick that begin any time late, 1 client call of any kind, 1 fault (crash or failed poll) |
| `S3Fair` | pass | is every run time a loop has read given to the executor? do two jobs of one poll get in each other's way? | 1 instance, 2 jobs (both its own, one of them for one run; or one broadcast), ticks 0..3, rounds of up to 1 tick, 1 call (all but remove_all), 1 fault of any kind |
| `Threads` | pass | do the threads lose wake-ups, loops or runs? does shutdown return? | 2 jobs, ticks 0..2, 2 starts, 2 calls |
| `EventLoop` | pass | is there always a timer, and none after shutdown? | 2 jobs, memory store, ticks 0..2, 2 starts, 4 calls |
| `Registry` | pass | are plugins started, shut and asked whenever they come? | 2 aliases of each kind, 2 starts, 3 calls |
| `Executors` | pass | is the counter right, does every slot come back, what do listeners hear? | 7 kinds, 2 jobs (1 instance; 2 instances, a coroutine), 3 futures of 1 or 2 run times, 2 workers |
| `MemoryJobStore` | pass | does the sorted list implement the store? | 4 jobs, 3 run times and the paused state |
| `DatabaseJobStore` | pass | does each of the five databases, with failures and restarts? | 3 jobs, 2 run times and the paused state |
| `CronSearch` | pass | does the search end with the first date that matches, each turn moving it on? | 2 years of 2 months of 7 to 9 days, weeks of 3 days, days of 2 hours, 1 or 2 given fields |
| `S3Discovery` | violation | is a job stored for another instance found? | as `S3Cluster`, empty bucket |
| `AndTrigger` | violation | does an `AndTrigger` answer? | ticks 0..9 |
| `ThreadsShutdown` | violation | does shutdown return when a job calls the scheduler? | 1 start, 1 call, store that outlives shutdown |

The bounds are constants of the specifications (`MaxTime`, `MaxRound`,
`MaxCalls`, `MaxFaults`, `MaxStarts`). Three ticks and an interval of two give a
fire before, at and after a round, late rounds with two runs, and schedules that
end within the run (`end`, the last instant of a calendar). One client call and
one fault, at any point, are enough for every mutant of the cluster listed in
`PROJECT.json` to break its property; the proofs do away with the bounds for the
safety properties. `CHECK_DEADLOCK FALSE` is set where a behaviour ends when the
bounded clock or the bounded calls are used up.

The small calendar of `CronSearch` has what makes the large one hard: months of
different length, a month whose length depends on the year, weeks that begin in
one year and belong to another, months with two or three of each weekday. Two
given fields are enough for every pair of them to conflict.

Three jobs are what an order needs to go wrong on either side of a paused one, and
two run times are one that is due and one that is not. No failure is bounded in
number.

`update_job` takes the advancement of `next_run_time`, against its cache, for an
execution. `ReceiptOfRun` says what that is worth: a loop that is done with a run
whose schedule goes on has written the receipt of this run, at this time, whatever
clients, faults and other instances did since the job was read, but for an interval job
broadcast to many that was past the fire time it ran when it was read. That
exception is no accident of the bounds: an instance that polls after the creator has
moved the job on runs its fire time and leaves no receipt, although
`openspec/specs/execution-status/spec.md` (line 26) promises one for each execution by
each instance. Nor do receipts speak of runs only: a client that reschedules a job to a
later time leaves one of a job that may never have run, against line 22 of the same file.
The last run of a schedule never has one, since the job is then removed.

That a removed job stays removed (`schedulers/base.py`, line 596; `userguide.rst`, line
289) is not true of the code: a save of an instance that read the job before another
removed it puts it back, as `Save` does after `RemoveJob` in the model. What does hold,
with any number of instances, is `CreatorRemovesForGood`: for a broadcast job whose
creator removes it, since the others update their caches only.

`KnownJobRuns` speaks of a run time from the moment its only target has read it. The
obligation is discharged by handing it to the executor, or by the object in S3 going
away or getting another run time, or by the death of the process or its loop; it is not
discharged by the next poll, although a poll empties the cache it was read into. The
same is false of a broadcast job and its creator, once a poll has noted the run in
`_last_executed` and then stumbled over another job that cannot be restored: the next
poll takes the run for done. On a calendar, where the fire time is the `next_run_time` in
S3 that only this run would have moved on, the creator then has no due job and no wait
until its process is restarted or a client changes the job.

`BroadcastIntervalOnce` is about intervals: a broadcast job on a calendar
can run one fire time twice in a process, when its creator, waking late, writes a
later one of the fire times that are past.

Some properties leave out just the case they are listed near, and cover its neighbours:
`StartedUnlessLate` the plugins that `start` has passed by, `StorePathKept` a
`remove_all_jobs` whose last answer is lost, `InstancesBounded` a thread that goes on
after it was cancelled, `StaysShutInMemory` a store that outlives `shutdown`,
`LostOnlyAfterRestart` the restarted pool.
`HeardWhenOver` says that nobody hears of a thread's run that was cancelled before it
was over; an interrupted coroutine is heard of, by an error event.

The violation runs are disagreements between the code and what the repository
says of it; each is described under "findings" with the line and the sentence.

## 4. Fairness

* `S3Cluster`: the clock ticks on, and the loop of each instance goes on taking
  the steps of a round that it can (a thread that is scheduled, requests that
  return). Client calls, faults and restarts have no fairness.
* `ThreadedScheduler`: the loop's thread and the owner's calls under way go on,
  and functions of jobs return. Nobody is made to call anything.
* `CronSearch`: the `while` loop goes on. `CombiningTriggers`: so does the loop of
  `AndTrigger`, and nobody needs to ask for a fire time.
* `EventLoopScheduler`, `Registry`, `MemoryJobStore` and `DatabaseJobStore` state
  safety properties only: a store does something when it is called.
* `Executors`: each step of the submitting thread, each worker, the event loop and
  each callback, separately; functions return. Weak fairness is enough for the
  lock and the loop: they are held for a bounded number of steps and futures are
  finite. Nothing makes a pool break or anybody shut it down.

`ShutdownReturns` under `WF` of `OwnerGoesOn` means that the owner gets the lock
when it stays free; behaviours have finitely many calls that contend for it.

## 5. Proofs

`tlapm` checks them for every value of the constants, under the assumptions
named in the modules (`TargetsAssumption`, `NoEnvelopeAssumption`,
`ClusterAssumption`, `SchedulerAssumption`, `EventLoopAssumption`,
`RegistryAssumption`, `ExecutorAssumption`, `DatabaseAssumption`,
`CalendarAssumption`, `CallsAssumption`), which TLC also evaluates on each run. `ClusterAssumption` says that a preloaded object has not
yet been advanced: its schedule begins where it stands.

* `TriggersProofs`: `RunTimes` of a due job are natural numbers that include the
  present run; `ScheduleAdvances`: the next fire time after them is on the
  schedule, is later, and passes over no fire time that was not among them. For
  intervals this is arithmetic on multiples, done once in the lemmas before it.
* `S3ClusterProofs`: `Shape`, the inductive invariant behind the type, ties what
  a round is about to do to the cache (a due job is cached, its time has come,
  a job being saved was just submitted). `NeverOversleepsHolds` needs it since
  the wait is computed from the cache the round leaves. `CreatorRemovesForGoodHolds`
  strengthens its property with the cache of the instance that removed the job
  (`LetGo`), for it is from there, and from there only, that the creator's object could
  come back: whoever else updates the job fails `MayWrite`.
  `NoFireSkipped` is not inductive: the strengthening, `AllKeepPace`, adds that `next_run_time` is itself on the schedule that began
  at `first`. An instance that writes an envelope either has just handed over
  what lies between, or copies one that already kept pace.
  `BroadcastIntervalOnceHolds` relates `ran` to `_last_executed`: what a process
  has run is not later than what it noted, and a fire time is due only when it
  is later than that.
  `ReceiptOfRunHolds` shows that the update after a run advances the cached run time
  (`SaveAdvances`): the next fire time is later than all runs (`ScheduleAdvances`), and
  the cached one is not later than the run unless `Outrun`; only `WriteReceipt` and a
  `Save` without an advancement are done with a run (`OnlySaveIsDone`). None of the
  theorems restricts the number of instances, the calls or the faults.
* `ThreadedSchedulerProofs`: `Places` (who holds the lock when, which state goes
  with which step of the owner) and `DueOK` (due jobs stay in the store while
  the loop holds the lock); `Wakes` extends `NeverOversleeps` back to the moment
  the wait is computed; `FirstLife` says that before a restart a pool is shut
  only together with an empty store or a held lock.
* `EventLoopProofs`: `DueOK` as above, a round being the only holder of the lock;
  `Wakes` extends `TimerCovers` to the moment a round computes its wait, and to a
  queue that a wake-up is in; `Shut` says that with a memory store a stopped
  scheduler is in the middle of `shutdown()` or has an empty store and no timer.
* `RegistryExecutorsProofs`, the registry: `LoopGone` says that the loop of one life ends before the next
  begins; `Passed` extends `StartedUnlessLate` to the sections of `start`, and
  `Traced` extends `NewStoreAsked` to a round, which has asked every store.
* `RegistryExecutorsProofs`, an executor: the counter is the number of futures in flight, less the
  one whose submission has not been counted yet (`Counted`); `CalledOnce` says that a
  callback runs once, of a future that is over, and `Told` that a result is a
  complete list of events. `max_instances` follows, since a function whose future
  has not been cancelled runs in flight.
* `DatabaseJobStoreProofs`: the inductive invariant is the type together with
  `Shape` (what is unreadable is stored) and `RunTimesMirror`. The refinement goes in
  three layers: what a request makes of `db`, as `JobStore` sees it; the lists, with
  the rotation of `_fix_paused_jobs_sorting` (a list with the paused jobs first and the
  rest in order becomes one with them last); and then, per store, that each
  operation is one of `JobStore`'s or a change of what is unreadable.
* `MemoryJobStoreProofs`: the binary search is a function defined by recursion on a range
  of positions. That it exists and divides the list where the job belongs is induction,
  which the library's theorems cannot give here; it is had from a least counterexample
  (`SetInduction`, on `WFMin`). The invariant is a strictly sorted list that holds what
  the index says; inserting and removing at the place the search returns keep it, and
  what is read off the head of the list refines `JobStore`.
* `CronSearchProofs`: the invariant, `SearchInv`, says that every date the search has
  passed over fails a field (`Passed`) and that the fields before `fieldnum` are satisfied
  (`Settled`). It rests on three things: the order of dates, field by field, is the order
  of instants (`EarlierBefore`), so that what lies between a date and the one that
  `Increment` or `SetValue` makes of it agrees with the date on the fields that were
  found wanting (`IncrementSkips`, `DatesBetween`); what each kind of expression
  returns is the least value from there on that it means (`ExprNextIsNext`; for steps
  and weekday positions this is arithmetic on remainders); and what a field means
  depends on more significant fields only (`MeansAgree`).

Only model-checked: liveness (`KnownJobRuns`, `ShutdownReturns`,
`SlotsComeBack`, `EveryRunHeard`, `SearchEnds`), which needs ENABLED. Of `SearchEnds` the
safety half is proved (`MovesOn`): no turn of the search leads back.

## 6. Not modelled, and the plan

Not modelled: parsing of configurations, plugin classes, events and
listeners, pickling and references to functions, jitter and time zones, date
conversions, the schedulers for gevent and Qt (section 1; see `PROJECT.json` for
the reasons).

Next, in this order:

1. Two owners, and `start` on a running scheduler, which replaces the event of the
   loop before it raises an error.
2. Misfires and coalescing; listeners (`remove_listener` during a dispatch, the copy
   of the list that `_dispatch_event` makes).
3. The clients of `S3Cluster` with requests that fail, and jobs stored before
   `start`.
4. Proofs of what these add.

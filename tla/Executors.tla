------------------------------- MODULE Executors -------------------------------
(***************************************************************************)
(* The executors.  The scheduler submits a job with the run times that are *)
(* due; a worker (a thread, a process, a greenlet, or the event loop that  *)
(* runs a coroutine) goes through them in run_job; a callback hands the    *)
(* slot of the job back and tells the listeners what became of each run.   *)
(* The executor's lock is reentrant, and a future that is done before its  *)
(* callback is added may call it at once, in the thread that submits.      *)
(*                                                                         *)
(* A future stands for one call of submit_job that was not refused.  An    *)
(* event, be it of a run that was missed, failed or succeeded, is counted. *)
(***************************************************************************)
EXTENDS Integers, FiniteSets

CONSTANTS
    JobIds,
    MaxInstances,   \* max_instances of each job
    Coroutines,     \* jobs whose function is a coroutine function
    Futures,        \* the calls of submit_job
    Submissions,    \* which jobs they may be calls for
    RunTimes,       \* how many run times each of them has
    Workers,        \* the size of the pool
    Free            \* nobody holds the lock over several steps

ASSUME ExecutorAssumption ==
    /\ MaxInstances \in [JobIds -> Nat \ {0}]
    /\ Coroutines \subseteq JobIds
    /\ IsFiniteSet(Futures)
    /\ Submissions \subseteq [Futures -> JobIds]
    /\ RunTimes \in [Futures -> Nat \ {0}]
    /\ Workers \in Nat \ {0}
    /\ Free \notin Futures

Kinds == {"threadpool", "processpool", "asyncio", "tornado", "twisted", "gevent", "debug"}

VARIABLES
    kind,            \* the class of the executor
    job,             \* job[f]: the job f runs
    future,          \* future[f]: the state of f
    events,          \* events[f]: how many events run_job has made so far
    hooked,          \* futures whose callback has been registered
    calling,         \* futures whose callback is about to be called
    returned,        \* history: futures whose slot has come back
    heard,           \* history, heard[f]: how many events listeners were told
    instances,       \* BaseExecutor._instances; 0 for a key that is not there
    lock,            \* the future being submitted, Free if there is none
    hooking,         \* its callback is yet to be added
    pendingFutures,  \* asyncio: _pending_futures
    cancelled,       \* asyncio: coroutines that were cancelled and have not noticed
    orphans,         \* asyncio: cancelled futures whose thread goes on
    pool             \* the pool is open, shut down or broken

callbacks == <<hooked, calling, returned, heard, instances>>
submission == <<lock, hooking>>
shutdown == <<pendingFutures, cancelled, orphans, pool>>

vars == <<kind, job, future, events, callbacks, submission, shutdown>>

FutureStates == {"none", "queued", "running", "done", "failed"}

Init ==
    /\ kind \in Kinds
    /\ job \in Submissions
    /\ future = [f \in Futures |-> "none"]
    /\ events = [f \in Futures |-> 0]
    /\ hooked = {} /\ calling = {} /\ returned = {}
    /\ heard = [f \in Futures |-> 0]
    /\ instances = [j \in JobIds |-> 0]
    /\ lock = Free /\ hooking = FALSE
    /\ pendingFutures = {} /\ cancelled = {} /\ orphans = {}
    /\ pool = "open"

Pools == {"threadpool", "processpool"}

\* Jobs that run in the event loop itself, a step at a time.
IsCoroutine(f) == kind \in {"asyncio", "tornado"} /\ job[f] \in Coroutines

\* Futures that are done, and call back, in the thread of the event loop.
OnLoop(f) == kind \in {"asyncio", "gevent"} \/ IsCoroutine(f)

Pooled(f) == kind \notin {"gevent", "debug"} /\ ~IsCoroutine(f)

\* Mutant of Telling: the events are dispatched before the slot is given back.
TellingEarly == {f \in returned \cup calling : future[f] = "done" /\ heard[f] < events[f]}

\* Mutant of Telling: only the event of the first run is dispatched.
TellingFirst == {f \in returned : future[f] = "done" /\ heard[f] = 0}

\* Callbacks that have given their slot back and are dispatching the events.
Telling == {f \in returned : future[f] = "done" /\ heard[f] < events[f]}

\* Futures in the middle of a turn of the event loop: their callback dispatches
\* events, or the last function of a coroutine has just returned.
OnTurn == {f \in Telling : OnLoop(f)} \cup
          {f \in Futures : IsCoroutine(f) /\ future[f] = "running" /\ events[f] = RunTimes[f]}

\* The event loop can begin something new.
LoopFree == lock = Free /\ OnTurn = {}

-----------------------------------------------------------------------------
(* The submitting thread *)

\* Mutant of HasRoom: one instance too many.
HasMoreRoom(j) == instances[j] <= MaxInstances[j]

HasRoom(j) == instances[j] < MaxInstances[j]

\* Twisted's thread pool takes the callback together with the job.
TakenWithJob(f) == IF kind = "twisted" THEN {f} ELSE {}

\* submit_job up to the call that takes the job, under the lock; it refuses a
\* job that has no room, and a pool that is shut takes none.  A pool found
\* broken is replaced first, whether or not it has been shut since.
SubmitJob(f) ==
    /\ LoopFree
    /\ future[f] = "none"
    /\ HasRoom(job[f])
    /\ pool # "shut"
    /\ pool' = "open"
    /\ lock' = f
    /\ hooking' = (TakenWithJob(f) = {})
    /\ hooked' = hooked \cup TakenWithJob(f)
    /\ future' = [future EXCEPT ![f] = "queued"]
    /\ UNCHANGED <<kind, job, events, calling, returned, heard, instances,
                   pendingFutures, cancelled, orphans>>

\* Mutant of Decreased: a count of 0 stays 0.
DecreasedIfAny(j) == IF instances[j] = 0 THEN 0 ELSE instances[j] - 1

Decreased(j) == instances[j] - 1

\* _run_job_success or _run_job_error: the slot comes back.
GiveBack(f) ==
    /\ instances' = [instances EXCEPT ![job[f]] = Decreased(job[f])]
    /\ returned' = returned \cup {f}

\* Mutant of Finished: add_done_callback only ever registers.
FinishedNever(f) == FALSE

Finished(f) == future[f] \in {"done", "failed"}

\* add_done_callback: register the callback, or call it on a finished future.
AddCallback(f) ==
    /\ lock = f /\ hooking
    /\ kind \notin {"asyncio", "debug"}
    /\ hooking' = FALSE
    /\ IF Finished(f)
       THEN GiveBack(f) /\ UNCHANGED hooked
       ELSE hooked' = hooked \cup {f} /\ UNCHANGED <<instances, returned>>
    /\ UNCHANGED <<kind, job, future, events, calling, heard, lock, shutdown>>

\* In an event loop of asyncio the future cannot be finished yet.
AsyncIOAddsCallback(f) ==
    /\ lock = f /\ hooking
    /\ kind = "asyncio"
    /\ hooking' = FALSE
    /\ hooked' = hooked \cup {f}
    /\ pendingFutures' = pendingFutures \cup {f}
    /\ UNCHANGED <<kind, job, future, events, calling, returned, heard, instances, lock,
                   cancelled, orphans, pool>>

\* The DebugExecutor runs the job before it goes on.
DebugCallsBack(f) ==
    /\ lock = f /\ hooking
    /\ kind = "debug" /\ Finished(f)
    /\ hooking' = FALSE
    /\ GiveBack(f)
    /\ UNCHANGED <<kind, job, future, events, hooked, calling, heard, lock, shutdown>>

\* The rest of submit_job counts the instance and releases the lock; a callback
\* that was called at once has told the listeners by then.
CountInstance(f) ==
    /\ lock = f /\ ~hooking
    /\ f \in hooked \/ f \notin Telling
    /\ instances' = [instances EXCEPT ![job[f]] = @ + 1]
    /\ lock' = Free
    /\ UNCHANGED <<kind, job, future, events, hooked, calling, returned, heard, hooking, shutdown>>

-----------------------------------------------------------------------------
(* The workers *)

Busy == {f \in Futures : Pooled(f) /\ (future[f] = "running" \/ f \in orphans)}

WorkerStarts(f) ==
    /\ future[f] = "queued"
    /\ f \notin cancelled
    /\ Pooled(f) => Cardinality(Busy) < Workers
    /\ IsCoroutine(f) => LoopFree
    /\ future' = [future EXCEPT ![f] = "running"]
    /\ UNCHANGED <<kind, job, events, callbacks, submission, shutdown>>

\* One turn of the loop in run_job: the run is missed, or the function returns
\* or raises an exception.
RunJob(f) ==
    /\ future[f] = "running" /\ events[f] < RunTimes[f]
    /\ ~IsCoroutine(f)
    /\ events' = [events EXCEPT ![f] = @ + 1]
    /\ UNCHANGED <<kind, job, future, callbacks, submission, shutdown>>

\* The same in run_coroutine_job.  The exception may be that of cancel(), which
\* makes an event like any other: the runs that are left take place.
RunCoroutineJob(f) ==
    /\ future[f] = "running" /\ events[f] < RunTimes[f]
    /\ IsCoroutine(f) /\ LoopFree
    /\ events' = [events EXCEPT ![f] = @ + 1]
    /\ cancelled' = cancelled \ {f}
    /\ UNCHANGED <<kind, job, future, callbacks, submission,
                   pendingFutures, orphans, pool>>

\* f is over, with the list of events as its result or with an exception; what
\* is registered gets called.
Ends(f, state) ==
    /\ future' = [future EXCEPT ![f] = state]
    /\ calling' = IF f \in hooked THEN calling \cup {f} ELSE calling
    /\ UNCHANGED <<kind, job, events, hooked, returned, heard, instances, submission,
                   pendingFutures, orphans, pool>>

\* run_job returns.  What a process returns has to be pickled, which may fail.
WorkerEnds(f) ==
    /\ future[f] = "running" /\ events[f] = RunTimes[f]
    /\ OnLoop(f) => lock = Free /\ OnTurn \subseteq {f}
    /\ \E state \in {"done"} \cup (IF kind = "processpool" THEN {"failed"} ELSE {}) :
          Ends(f, state)
    /\ UNCHANGED cancelled

\* A coroutine that was cancelled before its first step never takes it.
CoroutineEnds(f) ==
    /\ future[f] = "queued" /\ f \in cancelled
    /\ LoopFree
    /\ Ends(f, "failed")
    /\ cancelled' = cancelled \ {f}

\* A process dies: the pool is broken, which ends all of its futures.
PoolBreaks ==
    LET ended == {f \in Futures : future[f] \in {"queued", "running"}}
    IN  /\ kind = "processpool" /\ ended # {}
        /\ future' = [f \in Futures |-> IF f \in ended THEN "failed" ELSE future[f]]
        /\ calling' = calling \cup (ended \cap hooked)
        /\ pool' = "broken"
        /\ UNCHANGED <<kind, job, events, hooked, returned, heard, instances, submission,
                       pendingFutures, cancelled, orphans>>

\* The thread of a cancelled future comes to its end, unheard.
OrphanEnds(f) ==
    /\ f \in orphans
    /\ orphans' = orphans \ {f}
    /\ UNCHANGED <<kind, job, future, events, callbacks, submission,
                   pendingFutures, cancelled, pool>>

-----------------------------------------------------------------------------
(* The callback *)

\* It needs the lock, in a thread of the pool or in the event loop.
CallsBack(f) ==
    /\ f \in calling
    /\ lock = Free
    /\ OnLoop(f) => LoopFree
    /\ calling' = calling \ {f}
    /\ GiveBack(f)
    /\ UNCHANGED <<kind, job, future, events, hooked, heard, submission,
                   cancelled, orphans, pool>>

Callback(f) == kind # "asyncio" /\ CallsBack(f) /\ UNCHANGED pendingFutures

AsyncIOCallback(f) ==
    kind = "asyncio" /\ CallsBack(f) /\ pendingFutures' = pendingFutures \ {f}

\* _dispatch_event, without the lock, for the next of the events.
Tell(f) ==
    /\ f \in Telling
    /\ heard' = [heard EXCEPT ![f] = @ + 1]
    /\ UNCHANGED <<kind, job, future, events, hooked, calling, returned, instances,
                   submission, shutdown>>

-----------------------------------------------------------------------------
(* shutdown() *)

\* No job is taken any more; what was taken runs.
PoolShutdown ==
    /\ kind \in Pools /\ pool = "open"
    /\ pool' = "shut"
    /\ UNCHANGED <<kind, job, future, events, callbacks, submission,
                   pendingFutures, cancelled, orphans>>

ToCancel == {f \in pendingFutures : ~Finished(f)}

\* cancel() ends the future of a thread at once and is noticed by a coroutine
\* when it takes its next step.  A function that waits in a queue may just be
\* taken by a thread; one that runs goes on.
AsyncIOShutdown ==
    LET threads == {f \in ToCancel : ~IsCoroutine(f)}
        running == {f \in ToCancel : future[f] = "running"}
    IN  /\ kind = "asyncio" /\ LoopFree
        /\ pendingFutures # {}
        /\ \E taken \in SUBSET (threads \ running) :
              orphans' = orphans \cup (threads \cap running) \cup taken
        /\ future' = [f \in Futures |-> IF f \in threads THEN "failed" ELSE future[f]]
        /\ calling' = calling \cup (threads \cap hooked)
        /\ cancelled' = cancelled \cup (ToCancel \ threads)
        /\ pendingFutures' = {}
        /\ UNCHANGED <<kind, job, events, hooked, returned, heard, instances, submission, pool>>

-----------------------------------------------------------------------------

Next ==
    \/ \E f \in Futures :
          \/ SubmitJob(f) \/ CountInstance(f)
          \/ AddCallback(f) \/ AsyncIOAddsCallback(f) \/ DebugCallsBack(f)
          \/ WorkerStarts(f) \/ RunJob(f) \/ RunCoroutineJob(f) \/ WorkerEnds(f)
          \/ CoroutineEnds(f) \/ OrphanEnds(f)
          \/ Callback(f) \/ AsyncIOCallback(f) \/ Tell(f)
    \/ PoolBreaks
    \/ PoolShutdown \/ AsyncIOShutdown

Spec == Init /\ [][Next]_vars

\* The submitting thread, the workers and the event loop go on running, and
\* functions return.
Fairness ==
    \A f \in Futures :
        /\ WF_vars(AddCallback(f)) /\ WF_vars(AsyncIOAddsCallback(f))
        /\ WF_vars(DebugCallsBack(f)) /\ WF_vars(CountInstance(f))
        /\ WF_vars(WorkerStarts(f)) /\ WF_vars(WorkerEnds(f))
        /\ WF_vars(RunJob(f)) /\ WF_vars(RunCoroutineJob(f))
        /\ WF_vars(CoroutineEnds(f)) /\ WF_vars(OrphanEnds(f))
        /\ WF_vars(Callback(f)) /\ WF_vars(AsyncIOCallback(f)) /\ WF_vars(Tell(f))

FairSpec == Spec /\ Fairness

-----------------------------------------------------------------------------
(* Properties *)

TypeOK ==
    /\ kind \in Kinds
    /\ job \in [Futures -> JobIds]
    /\ future \in [Futures -> FutureStates]
    /\ events \in [Futures -> Nat] /\ heard \in [Futures -> Nat]
    /\ \A s \in {hooked, calling, returned, pendingFutures, cancelled, orphans} :
          s \subseteq Futures
    /\ instances \in [JobIds -> Int]
    /\ \A j \in JobIds : instances[j] \in -1 .. MaxInstances[j]
    /\ lock \in Futures \cup {Free}
    /\ hooking \in BOOLEAN /\ pool \in {"open", "shut", "broken"}

\* The futures of j that have been submitted and not given back.
InFlight(j) == {f \in Futures : future[f] # "none" /\ job[f] = j /\ f \notin returned}

\* Between submissions the counter of a job is the number of its futures in
\* flight, however early they got done: one that is done before its callback
\* is added takes the counter down first, below zero if need be, and up again.
CounterExact ==
    lock = Free => \A j \in JobIds : instances[j] = Cardinality(InFlight(j))

\* The submissions of j whose function may be running.
Executing(j) == {f \in Futures : job[f] = j /\ (future[f] = "running" \/ f \in orphans)}

\* The promise of max_instances: no more instances of a job than that ever run
\* at the same time, unless one of them runs in a thread that the shutdown of an
\* AsyncIOExecutor has forsaken.
InstancesBounded ==
    \A j \in JobIds :
        Cardinality(Executing(j)) > MaxInstances[j] => Executing(j) \cap orphans # {}

\* What a listener is told of a submission is the whole truth: it hears of no
\* run before all runs are over and the slot is back, so that it can run the
\* job again, and never of one that was lost with its pool or whose thread was
\* forsaken.  (A coroutine's run that was interrupted is over: it is heard of.)
HeardWhenOver ==
    \A f \in Futures :
        /\ heard[f] \in {0} \cup (IF f \in returned THEN 1 .. RunTimes[f] ELSE {})
        /\ heard[f] > 0 => future[f] = "done" /\ events[f] = RunTimes[f]
                           /\ f \notin calling \cup orphans

\* Every slot comes back, so that a job is not refused for ever.
SlotsComeBack ==
    \A f \in Futures : future[f] = "queued" ~> f \in returned

\* A submission that ends with a result has an event for each of its run times
\* heard; an interrupted coroutine ends like that too.
EveryRunHeard ==
    \A f \in Futures :
        future[f] = "running" ~> heard[f] = RunTimes[f] \/ future[f] = "failed"

=============================================================================

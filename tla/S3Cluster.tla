------------------------------ MODULE S3Cluster ------------------------------
(***************************************************************************)
(* Application instances that share jobs through one S3 bucket.  Every     *)
(* instance runs a scheduler whose only job store is an S3JobStore: a loop *)
(* that sleeps until an alarm or a wake-up, reads the whole bucket into    *)
(* its cache, hands the due jobs to the executor and writes back what it   *)
(* advanced, while clients in the same process add, change and remove jobs *)
(* through the cache.                                                      *)
(*                                                                         *)
(* A step of the loop is at most one S3 request, so requests of different  *)
(* instances interleave and a process can die between any two of its own.  *)
(* Within an instance the loop holds _jobstores_lock from the LIST to the  *)
(* end of the round; client calls take the lock, so they fall outside a    *)
(* round.  A client call is one step with all its requests: after the PUT  *)
(* of a job follow only a receipt, which no instance reads, and a wake-up; *)
(* the DELETEs of remove_all_jobs are of different keys.                   *)
(***************************************************************************)
EXTENDS S3JobStore, FiniteSets

CONSTANTS
    Preloaded,       \* the buckets a behaviour may start with
    Requests,        \* the jobs clients ask for
    Calls,           \* the client calls a behaviour may make
    Faults,          \* the faults a behaviour may contain
    RetryInterval,   \* jobstore_retry_interval
    MaxTime,         \* bound: the last tick of the clock
    MaxRound,        \* bound: the ticks one round of a loop may take
    MaxCalls,        \* bound: client calls in a behaviour
    MaxFaults        \* bound: faults in a behaviour

AllCalls == {"add", "replace", "modify", "pause", "resume", "reschedule",
             "remove", "remove_all"}

AllFaults == {"crash", "fetch", "restore", "save", "executor"}

Request == [target : Targets, trigger : Trigger, coalesce : BOOLEAN]

ASSUME ClusterAssumption ==
    /\ Preloaded \subseteq [JobIds -> Slot]
    /\ \A bucket \in Preloaded, j \in JobIds :
          bucket[j] # NoEnvelope => bucket[j].first = bucket[j].nrt
    /\ Requests \subseteq Request
    /\ Calls \subseteq AllCalls
    /\ Faults \subseteq AllFaults
    /\ RetryInterval \in Nat
    /\ MaxTime \in Nat /\ MaxRound \in Nat
    /\ MaxCalls \in Nat /\ MaxFaults \in Nat

VARIABLES
    clock,
    bucket,     \* bucket[j]: the object under j's key
    receipts,   \* the execution receipts in the bucket
    up,         \* up[i]: the process of i runs, with its scheduler started
    cache,      \* cache[i]: S3JobStore._cache
    last,       \* last[i]: S3JobStore._last_executed
    pc,         \* pc[i]: where the scheduler's loop is
    now,        \* now[i]: the time at which the current or last round began
    todo,       \* todo[i]: listed keys that remain to be fetched
    due,        \* due[i][j]: the fire time for which j waits to be submitted
    saving,     \* saving[i]: the job submitted last, whose update is under way
    since,      \* since[i]: when the loop went to sleep
    delay,      \* delay[i]: the timeout of its wait, None to wait for an event
    woken,      \* woken[i]: the wake-up event is set
    covered,    \* history: run times given to the executor of i, ever
    ran,        \* history: broadcast runs handed by i since its last start
    removed,    \* history: <<i, j>>, a client of i removed j; nobody has added it since
    calls, faults

vars == <<clock, bucket, receipts, up, cache, last, pc, now, todo, due, saving,
          since, delay, woken, covered, ran, removed, calls, faults>>

Locations == {"idle", "waking", "fetch", "run", "save", "receipt", "dead"}

\* The key of a receipt: the job, the time at which it is written, the app_id.
Receipt == [job : JobIds, app : Instances, time : Time]

\* _write_execution_receipt: a PUT over whatever has the same key.
Receipted(i, j) == receipts \cup {[job |-> j, app |-> i, time |-> clock]}

EmptyCache == [j \in JobIds |-> NoEnvelope]

Nothing == [j \in JobIds |-> None]

Init ==
    /\ clock = 0
    /\ bucket \in Preloaded
    /\ receipts = {}
    /\ up = [i \in Instances |-> TRUE]
    /\ cache = [i \in Instances |-> EmptyCache]
    /\ last = [i \in Instances |-> Nothing]
    /\ pc = [i \in Instances |-> "idle"]
    /\ now = [i \in Instances |-> 0]
    /\ todo = [i \in Instances |-> {}]
    /\ due = [i \in Instances |-> Nothing]
    /\ saving = [i \in Instances |-> {}]
    /\ since = [i \in Instances |-> 0]
    /\ delay = [i \in Instances |-> None]
    /\ woken = [i \in Instances |-> TRUE]
    /\ covered = [i \in Instances |-> [j \in JobIds |-> {}]]
    /\ ran = [i \in Instances |-> [j \in JobIds |-> {}]]
    /\ removed = {}
    /\ calls = 0
    /\ faults = 0

-----------------------------------------------------------------------------
(* The scheduler's loop *)

\* Event.wait returns: the event was set or the timeout has passed.
WakesUp(i) == woken[i] \/ (delay[i] # None /\ since[i] + delay[i] <= clock)

\* The loop wakes up, clears the event and reads the clock.
Wake(i) ==
    /\ up[i] /\ pc[i] = "idle" /\ WakesUp(i)
    /\ pc' = [pc EXCEPT ![i] = "waking"]
    /\ woken' = [woken EXCEPT ![i] = FALSE]
    /\ now' = [now EXCEPT ![i] = clock]
    /\ since' = [since EXCEPT ![i] = 0]
    /\ delay' = [delay EXCEPT ![i] = None]
    /\ UNCHANGED <<clock, bucket, receipts, up, cache, last, todo, due, saving,
                   covered, ran, removed, calls, faults>>

\* It takes the lock; _refresh_cache empties the cache and lists the keys.
List(i) ==
    /\ pc[i] = "waking"
    /\ pc' = [pc EXCEPT ![i] = "fetch"]
    /\ cache' = [cache EXCEPT ![i] = EmptyCache]
    /\ todo' = [todo EXCEPT ![i] = {j \in JobIds : bucket[j] # NoEnvelope}]
    /\ UNCHANGED <<clock, bucket, receipts, up, last, now, due, saving, since,
                   delay, woken, covered, ran, removed, calls, faults>>

\* One GET; an object deleted since the LIST is skipped.
Fetch(i, j) ==
    /\ pc[i] = "fetch" /\ j \in todo[i]
    /\ cache' = [cache EXCEPT ![i][j] = bucket[j]]
    /\ todo' = [todo EXCEPT ![i] = @ \ {j}]
    /\ UNCHANGED <<clock, bucket, receipts, up, last, pc, now, due, saving, since,
                   delay, woken, covered, ran, removed, calls, faults>>

\* The jobs get_due_jobs returns, as a function to their fire times.
Found(i) == [j \in JobIds |-> DueFire(i, cache[i][j], last[i][j], now[i])]

\* Mutant of Noted: _last_executed is left for later.
NotNoted(i, S) == last[i]

\* _last_executed once the broadcast jobs of S have been found due: it notes
\* at once which fire time is about to be run.
Noted(i, S) ==
    [j \in JobIds |->
        IF j \in S /\ Found(i)[j] # None /\ IsBroadcast(cache[i][j])
        THEN Found(i)[j] ELSE last[i][j]]

\* The rest of get_due_jobs: pick the due jobs out of the new cache.
FindDue(i) ==
    /\ pc[i] = "fetch" /\ todo[i] = {}
    /\ pc' = [pc EXCEPT ![i] = "run"]
    /\ due' = [due EXCEPT ![i] = Found(i)]
    /\ last' = [last EXCEPT ![i] = Noted(i, JobIds)]
    /\ UNCHANGED <<clock, bucket, receipts, up, cache, now, todo, saving, since,
                   delay, woken, covered, ran, removed, calls, faults>>

\* Due jobs are sorted by run time; ties come in any order.
IsNextDue(i, j) ==
    /\ due[i][j] # None
    /\ \A k \in JobIds : due[i][k] # None => due[i][j] <= due[i][k]

Runs(i, j) == RunTimes(cache[i][j].trigger, due[i][j], now[i])

HandedOver(i, j) == Handed(cache[i][j].coalesce, Runs(i, j))

\* executor.submit_job for the next due job; whether the executor takes the
\* runs or refuses them, the schedule goes on.
Submit(i, j) ==
    /\ pc[i] = "run" /\ IsNextDue(i, j)
    /\ pc' = [pc EXCEPT ![i] = "save"]
    /\ saving' = [saving EXCEPT ![i] = {j}]
    /\ covered' = [covered EXCEPT ![i][j] = @ \cup Runs(i, j)]
    /\ ran' = IF IsBroadcast(cache[i][j])
              THEN [ran EXCEPT ![i][j] =
                       @ \cup {<<cache[i][j].trigger, t>> : t \in HandedOver(i, j)}]
              ELSE ran
    /\ UNCHANGED <<clock, bucket, receipts, up, cache, last, now, todo, due,
                   since, delay, woken, removed, calls, faults>>

\* Mutant of Following: the schedule goes on from the present time.
FollowingNow(i, j) == NextFireTime(cache[i][j].trigger, now[i], now[i])

\* The run time that follows the runs just submitted.
Following(i, j) ==
    NextFireTime(cache[i][j].trigger, Max(Runs(i, j)), now[i])

\* Mutant of UpdateJob: every instance writes its updates to S3.
UpdateForAll(i, j, e) ==
    /\ bucket' = [bucket EXCEPT ![j] = e]
    /\ cache' = [cache EXCEPT ![i][j] = e]

\* update_job: the PUT that only the creator of a broadcast job makes, and
\* the cache, whoever updates it.
UpdateJob(i, j, e) ==
    /\ bucket' = IF MayWrite(i, cache[i][j]) THEN [bucket EXCEPT ![j] = e] ELSE bucket
    /\ cache' = [cache EXCEPT ![i][j] = e]

\* remove_job: the DELETE, then the cache.
DropJob(i, j) ==
    /\ bucket' = [bucket EXCEPT ![j] = NoEnvelope]
    /\ cache' = [cache EXCEPT ![i][j] = NoEnvelope]

DoneWith(i, j) ==
    /\ due' = [due EXCEPT ![i][j] = None]
    /\ saving' = [saving EXCEPT ![i] = {}]

\* The submitted job has a next run time: update it.
Save(i, j) ==
    LET e == [cache[i][j] EXCEPT !.nrt = Following(i, j)]
    IN  /\ pc[i] = "save" /\ j \in saving[i]
        /\ Following(i, j) # None
        /\ UpdateJob(i, j, e)
        /\ IF Advanced(cache[i][j], e)
           THEN pc' = [pc EXCEPT ![i] = "receipt"] /\ UNCHANGED <<due, saving>>
           ELSE pc' = [pc EXCEPT ![i] = "run"] /\ DoneWith(i, j)
        /\ UNCHANGED <<clock, receipts, up, last, now, todo, since, delay, woken, covered,
                       ran, removed, calls, faults>>

\* The second PUT of update_job, the execution receipt.
WriteReceipt(i, j) ==
    /\ pc[i] = "receipt" /\ j \in saving[i]
    /\ pc' = [pc EXCEPT ![i] = "run"]
    /\ receipts' = Receipted(i, j)
    /\ DoneWith(i, j)
    /\ UNCHANGED <<clock, bucket, up, cache, last, now, todo, since, delay, woken, covered,
                   ran, removed, calls, faults>>

\* The submitted job's schedule is over: remove it.
Finish(i, j) ==
    /\ pc[i] = "save" /\ j \in saving[i]
    /\ Following(i, j) = None
    /\ DropJob(i, j)
    /\ pc' = [pc EXCEPT ![i] = "run"]
    /\ DoneWith(i, j)
    /\ UNCHANGED <<clock, receipts, up, last, now, todo, since, delay, woken, covered,
                   ran, removed, calls, faults>>

\* The loop goes to sleep for a time counted from "now", when the round began.
Sleep(i, wait) ==
    /\ pc' = [pc EXCEPT ![i] = "idle"]
    /\ since' = [since EXCEPT ![i] = clock]
    /\ delay' = [delay EXCEPT ![i] = wait]

\* Mutants of Wait: the time left is not clamped to 0; no timeout at all.
UnclampedWait(i) == NextRunTime(i, cache[i]) - now[i]
EventWait(i) == None

\* The time from "now" to the earliest run time in the cache.
Wait(i) ==
    LET next == NextRunTime(i, cache[i])
    IN  IF next = None THEN None ELSE Max({next - now[i], 0})

\* No due job is left: sleep.
EndRound(i) ==
    /\ pc[i] = "run" /\ due[i] = Nothing
    /\ Sleep(i, Wait(i))
    /\ UNCHANGED <<clock, bucket, receipts, up, cache, last, now, todo, due,
                   saving, woken, covered, ran, removed, calls, faults>>

-----------------------------------------------------------------------------
(* Faults *)

Fault(kind) ==
    /\ kind \in Faults
    /\ faults < MaxFaults
    /\ faults' = faults + 1

\* The LIST or a GET raises: the round ends with the cache half filled and the
\* loop comes back after jobstore_retry_interval.
FetchFails(i) ==
    /\ Fault("fetch")
    /\ pc[i] = "fetch"
    /\ todo' = [todo EXCEPT ![i] = {}]
    /\ Sleep(i, RetryInterval)
    /\ UNCHANGED <<clock, bucket, receipts, up, cache, last, now, due, saving,
                   woken, covered, ran, removed, calls>>

\* get_due_jobs raises on a job it cannot reconstitute, after it has noted the
\* broadcast jobs of S; no job is run, and the loop comes back as above.
RestoreFails(i, j, S) ==
    /\ Fault("restore")
    /\ pc[i] = "fetch" /\ todo[i] = {}
    /\ j \in Scheduled(i, cache[i])
    /\ IsBroadcast(cache[i][j]) \/ Found(i)[j] # None
    /\ last' = [last EXCEPT ![i] = Noted(i, S)]
    /\ Sleep(i, RetryInterval)
    /\ UNCHANGED <<clock, bucket, receipts, up, cache, now, todo, due, saving,
                   woken, covered, ran, removed, calls>>

\* A PUT or DELETE of _process_jobs raises: the exception ends the loop and
\* its thread, with the scheduler still in the running state.
SaveFails(i) ==
    /\ Fault("save")
    /\ pc[i] \in {"save", "receipt"}
    /\ pc' = [pc EXCEPT ![i] = "dead"]
    /\ due' = [due EXCEPT ![i] = Nothing]
    /\ saving' = [saving EXCEPT ![i] = {}]
    /\ UNCHANGED <<clock, bucket, receipts, up, cache, last, now, todo, since,
                   delay, woken, covered, ran, removed, calls>>

\* The executor of a due job is not configured here: the job is removed.
NoExecutor(i, j) ==
    /\ Fault("executor")
    /\ pc[i] = "run" /\ IsNextDue(i, j)
    /\ DropJob(i, j)
    /\ due' = [due EXCEPT ![i][j] = None]
    /\ UNCHANGED <<clock, receipts, up, last, pc, now, todo, saving, since, delay,
                   woken, covered, ran, removed, calls>>

\* The process dies: all it kept in memory is lost.
Crash(i) ==
    /\ Fault("crash")
    /\ up[i]
    /\ up' = [up EXCEPT ![i] = FALSE]
    /\ cache' = [cache EXCEPT ![i] = EmptyCache]
    /\ last' = [last EXCEPT ![i] = Nothing]
    /\ pc' = [pc EXCEPT ![i] = "idle"]
    /\ todo' = [todo EXCEPT ![i] = {}]
    /\ due' = [due EXCEPT ![i] = Nothing]
    /\ saving' = [saving EXCEPT ![i] = {}]
    /\ delay' = [delay EXCEPT ![i] = None]
    /\ woken' = [woken EXCEPT ![i] = FALSE]
    /\ now' = [now EXCEPT ![i] = 0]
    /\ since' = [since EXCEPT ![i] = 0]
    /\ ran' = [ran EXCEPT ![i] = [j \in JobIds |-> {}]]
    /\ UNCHANGED <<clock, bucket, receipts, covered, removed, calls>>

\* BaseScheduler.start: an empty cache and a wake-up for the new loop.
Start(i) ==
    /\ ~up[i]
    /\ up' = [up EXCEPT ![i] = TRUE]
    /\ woken' = [woken EXCEPT ![i] = TRUE]
    /\ UNCHANGED <<clock, bucket, receipts, cache, last, pc, now, todo, due, saving,
                   since, delay, covered, ran, removed, calls, faults>>

-----------------------------------------------------------------------------
(* Client calls, made in the process of i while the loop is outside a round *)

Call(i, name) ==
    /\ name \in Calls
    /\ calls < MaxCalls
    /\ calls' = calls + 1
    /\ up[i] /\ pc[i] \in {"idle", "waking", "dead"}

\* What every client call leaves alone.
Undisturbed == <<clock, up, last, pc, now, todo, due, saving, since, delay,
                 covered, ran, faults>>

\* Mutant of Wakeup: the loop is left asleep.
NoWakeup(i) == UNCHANGED woken

Wakeup(i) == woken' = [woken EXCEPT ![i] = TRUE]

\* update_job called with the schedule of e, which another call computed.
ClientUpdate(i, j, e) ==
    /\ UpdateJob(i, j, e)
    /\ receipts' = IF Advanced(cache[i][j], e) THEN Receipted(i, j) ELSE receipts
    /\ Wakeup(i)

AddedAgain(j) == removed \ (Instances \X {j})

\* add_job of an id that is not in the cache: PUT whatever the bucket holds.
AddJob(i, j, r) ==
    LET e == NewEnvelope(i, r.target, r.trigger, r.coalesce, clock)
    IN  /\ Call(i, "add")
        /\ cache[i][j] = NoEnvelope
        /\ bucket' = [bucket EXCEPT ![j] = e]
        /\ cache' = [cache EXCEPT ![i][j] = e]
        /\ removed' = AddedAgain(j)
        /\ Wakeup(i)
        /\ UNCHANGED receipts
        /\ UNCHANGED Undisturbed

\* add_job(replace_existing=True) of an id in the cache: update_job, which
\* keeps the target and the creator even when the request names a target.
ReplaceJob(i, j, r) ==
    /\ Call(i, "replace")
    /\ cache[i][j] # NoEnvelope
    /\ ClientUpdate(i, j, Rescheduled([cache[i][j] EXCEPT !.coalesce = r.coalesce],
                                      r.trigger, clock))
    /\ removed' = IF MayWrite(i, cache[i][j]) THEN AddedAgain(j) ELSE removed
    /\ UNCHANGED Undisturbed

\* modify_job of an attribute outside the schedule, such as the name.
ModifyJob(i, j) ==
    /\ Call(i, "modify")
    /\ cache[i][j] # NoEnvelope
    /\ ClientUpdate(i, j, cache[i][j])
    /\ UNCHANGED removed
    /\ UNCHANGED Undisturbed

PauseJob(i, j) ==
    /\ Call(i, "pause")
    /\ cache[i][j] # NoEnvelope
    /\ ClientUpdate(i, j, Paused(cache[i][j]))
    /\ UNCHANGED removed
    /\ UNCHANGED Undisturbed

\* resume_job and reschedule_job start the schedule anew at the present time.
ResumeJob(i, j) ==
    LET e == cache[i][j]
    IN  /\ Call(i, "resume")
        /\ e # NoEnvelope
        /\ Fresh(e.trigger, clock) # None
        /\ ClientUpdate(i, j, Rescheduled(e, e.trigger, clock))
        /\ UNCHANGED removed
        /\ UNCHANGED Undisturbed

\* resume_job of a job whose schedule is over removes it.
ResumeFinishedJob(i, j) ==
    /\ Call(i, "resume")
    /\ cache[i][j] # NoEnvelope
    /\ Fresh(cache[i][j].trigger, clock) = None
    /\ DropJob(i, j)
    /\ removed' = removed \cup {<<i, j>>}
    /\ UNCHANGED <<receipts, woken>>
    /\ UNCHANGED Undisturbed

RescheduleJob(i, j, r) ==
    /\ Call(i, "reschedule")
    /\ cache[i][j] # NoEnvelope
    /\ ClientUpdate(i, j, Rescheduled(cache[i][j], r.trigger, clock))
    /\ UNCHANGED removed
    /\ UNCHANGED Undisturbed

RemoveJob(i, j) ==
    /\ Call(i, "remove")
    /\ cache[i][j] # NoEnvelope
    /\ DropJob(i, j)
    /\ removed' = removed \cup {<<i, j>>}
    /\ UNCHANGED <<receipts, woken>>
    /\ UNCHANGED Undisturbed

\* remove_all_jobs deletes the keys the cache knows of, whoever made them.
RemoveAllJobs(i) ==
    LET known == {j \in JobIds : cache[i][j] # NoEnvelope}
    IN  /\ Call(i, "remove_all")
        /\ bucket' = [j \in JobIds |-> IF j \in known THEN NoEnvelope ELSE bucket[j]]
        /\ cache' = [cache EXCEPT ![i] = EmptyCache]
        /\ removed' = removed \cup ({i} \X known)
        /\ UNCHANGED <<receipts, woken>>
        /\ UNCHANGED Undisturbed

-----------------------------------------------------------------------------
(* The whole system *)

InRound(i) == pc[i] \in {"waking", "fetch", "run", "save", "receipt"}

Tick ==
    /\ clock < MaxTime
    /\ \A i \in Instances : InRound(i) => clock < now[i] + MaxRound
    /\ clock' = clock + 1
    /\ UNCHANGED <<bucket, receipts, up, cache, last, pc, now, todo, due, saving,
                   since, delay, woken, covered, ran, removed, calls, faults>>

Round(i) ==
    \/ Wake(i) \/ List(i) \/ FindDue(i) \/ EndRound(i)
    \/ \E j \in JobIds : \/ Fetch(i, j) \/ Submit(i, j) \/ Save(i, j)
                         \/ WriteReceipt(i, j) \/ Finish(i, j)

Broken(i) ==
    \/ FetchFails(i) \/ SaveFails(i) \/ Crash(i)
    \/ \E j \in JobIds : NoExecutor(i, j)
    \/ \E j \in JobIds : \E S \in SUBSET (JobIds \ {j}) : RestoreFails(i, j, S)

Client(i) ==
    \/ \E j \in JobIds, r \in Requests :
          AddJob(i, j, r) \/ ReplaceJob(i, j, r) \/ RescheduleJob(i, j, r)
    \/ \E j \in JobIds :
          \/ ModifyJob(i, j) \/ PauseJob(i, j) \/ ResumeJob(i, j)
          \/ ResumeFinishedJob(i, j) \/ RemoveJob(i, j)
    \/ RemoveAllJobs(i)

Next ==
    \/ Tick
    \/ \E i \in Instances : Round(i) \/ Broken(i) \/ Start(i) \/ Client(i)

Spec == Init /\ [][Next]_vars

\* The loop's thread goes on running and S3 answers; time passes.
Fairness == WF_vars(Tick) /\ \A i \in Instances : WF_vars(Round(i))

FairSpec == Spec /\ Fairness

-----------------------------------------------------------------------------
(* Properties *)

TypeOK ==
    /\ clock \in Time
    /\ bucket \in [JobIds -> Slot]
    /\ receipts \subseteq Receipt
    /\ up \in [Instances -> BOOLEAN]
    /\ cache \in [Instances -> [JobIds -> Slot]]
    /\ last \in [Instances -> [JobIds -> TimeOrNone]]
    /\ pc \in [Instances -> Locations]
    /\ now \in [Instances -> Time]
    /\ todo \in [Instances -> SUBSET JobIds]
    /\ due \in [Instances -> [JobIds -> TimeOrNone]]
    /\ saving \in [Instances -> SUBSET JobIds]
    /\ since \in [Instances -> Time]
    /\ delay \in [Instances -> TimeOrNone]
    /\ woken \in [Instances -> BOOLEAN]
    /\ covered \in [Instances -> [JobIds -> SUBSET Time]]
    /\ ran \in [Instances -> [JobIds -> SUBSET (Trigger \X Time)]]
    /\ removed \subseteq Instances \X JobIds
    /\ calls \in Nat
    /\ faults \in Nat

\* No job sleeps past its time because of a change made while the loop was not
\* looking: whenever the loop sleeps, either its event is set or it waits no
\* longer than the cached job that comes first needs, or, once a fault has
\* occurred, just for jobstore_retry_interval.  Every client call that may bring
\* a run forward must therefore wake the loop, at whatever point of the round it
\* comes, and the event must be cleared before the bucket is read, not after.
NeverOversleeps ==
    \A i \in Instances :
        up[i] /\ pc[i] = "idle" /\ ~woken[i] =>
            \A j \in Scheduled(i, cache[i]) :
                /\ delay[i] # None
                /\ \/ delay[i] <= Max({cache[i][j].nrt - now[i], 0})
                   \/ faults > 0 /\ delay[i] = RetryInterval

\* The instance whose runs advance the schedule that is kept in S3.
Advancer(e) == IF IsBroadcast(e) THEN e.creator ELSE e.target

\* An interval job broadcast to many runs only its latest fire time; every
\* other job goes through all of its fire times.
FollowsEveryFire(e) == ~(IsBroadcast(e) /\ IsInterval(e.trigger))

\* e's schedule has moved to nrt only over run times given to the executor.
NothingSkipped(j, e) ==
    e # NoEnvelope /\ e.nrt # None /\ FollowsEveryFire(e) =>
        \A t \in e.first .. e.nrt - 1 :
            OnSchedule(e.trigger, e.first, t) => t \in covered[Advancer(e)][j]

\* A fire time is never lost: not by a crash between submitting and saving,
\* not by a stale cache written over a newer object, not by a half finished
\* poll.  It may be run again, but an object in S3 has moved past it, or an
\* instance could move it past, only if the instance that runs the job has
\* given it to its executor.
NoFireSkipped ==
    \A j \in JobIds :
        /\ NothingSkipped(j, bucket[j])
        /\ \A i \in Instances :
              cache[i][j] # NoEnvelope /\ MayWrite(i, cache[i][j])
                  => NothingSkipped(j, cache[i][j])

\* The step hands over a run of j that this process has handed over before.
RunsAgain(i, j) ==
    /\ pc[i] = "run" /\ pc'[i] = "save" /\ j \in saving'[i]
    /\ IsBroadcast(cache[i][j])
    /\ \E t \in HandedOver(i, j) : <<cache[i][j].trigger, t>> \in ran[i][j]

\* As long as a process lives it runs each fire time of a broadcast interval
\* job at most once, although the object in S3 goes forward and backward as
\* its creator and the clients of other instances write it.
BroadcastIntervalOnce ==
    [][\A i \in Instances, j \in JobIds :
          RunsAgain(i, j) => ~IsInterval(cache[i][j].trigger)]_vars

\* The bucket holds t as the next run time of j, which i is to run and advance.
Deposited(i, j, t) ==
    /\ up[i] /\ pc[i] # "dead"
    /\ bucket[j] # NoEnvelope
    /\ JobTargetsMe(i, bucket[j].target) /\ i = Advancer(bucket[j])
    /\ bucket[j].nrt = t

\* i has read that object and not lost it since.
Known(i, j, t) == Deposited(i, j, t) /\ cache[i][j] = bucket[j]

\* The bound on t leaves the time a loop that dozed off late needs to wake up.
SoonEnough == 0 .. MaxTime - MaxRound

\* A run time that the only target of a job has once read comes to its turn: the
\* executor gets it, unless the object in S3 goes away or gets another run time
\* first, or the process or its loop dies.  That the loop polls again, which
\* empties its cache, discharges nothing.
KnownJobRuns ==
    \A i \in Instances, j \in JobIds : \A t \in SoonEnough :
        Known(i, j, t) /\ ~IsBroadcast(bucket[j])
            ~> t \in covered[i][j] \/ ~Deposited(i, j, t)

\* Discovery by polling: a job put in the bucket by one instance for another
\* is found there and run by the other.
StoredJobRuns ==
    \A i \in Instances, j \in JobIds : \A t \in SoonEnough :
        Deposited(i, j, t) ~> t \in covered[i][j] \/ ~Deposited(i, j, t)

BroadcastOf(i, e) == e # NoEnvelope /\ IsBroadcast(e) /\ e.creator = i

\* A broadcast job that its creator has removed stays removed until a client adds
\* it again, although update_job looks at the cache only: the other instances may
\* have the job in theirs, run it and update it, in rounds and for clients, but
\* none of them writes the creator's object back, and the creator's own cache has
\* let go of it.  (A job for one instance does come back: see README.)
CreatorRemovesForGood == \A x \in removed : ~BroadcastOf(x[1], bucket[x[2]])

\* In this step the loop of i is done with a run of j whose schedule goes on.
DoneWithRun(i, j) ==
    /\ j \in saving[i] /\ j \notin saving'[i]
    /\ pc'[i] = "run" /\ cache'[i][j] # NoEnvelope

\* A broadcast interval job had been moved past its present fire time by the
\* time i read it.
Outrun(i, j) ==
    /\ pc[i] = "save" /\ ~FollowsEveryFire(cache[i][j])
    /\ cache[i][j].nrt > due[i][j]

\* Each run that is not the last of its job leaves its own receipt: update_job
\* finds the run time advanced whatever other instances wrote and clients did
\* between the run time's computation, the poll and the update, except for an
\* interval job broadcast to many that its creator, perhaps this very instance
\* in an earlier life, has moved on already.
ReceiptOfRun ==
    [][\A i \in Instances, j \in JobIds :
          DoneWithRun(i, j) =>
              \/ Outrun(i, j)
              \/ [job |-> j, app |-> i, time |-> clock] \in receipts']_vars

=============================================================================

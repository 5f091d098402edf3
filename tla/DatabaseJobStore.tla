--------------------------- MODULE DatabaseJobStore ---------------------------
(***************************************************************************)
(* The job stores over a database: SQLAlchemy, MongoDB, RethinkDB, Redis   *)
(* and ZooKeeper.  The scheduler calls a store with the job stores' lock   *)
(* held, one operation at a time; an operation is a few requests, each of  *)
(* which may fail before or after the database has carried it out.  A      *)
(* stored job that cannot be restored (its function is gone in the code    *)
(* that was started last) is deleted by the operation that finds it.       *)
(***************************************************************************)
EXTENDS Integers, Sequences, SequencesExt

CONSTANTS
    JobIds,
    Times,     \* run times, in seconds after the epoch, and times of questions
    None,      \* the next_run_time of a paused job
    Absent     \* no row, document, field or node under an id

ASSUME DatabaseAssumption ==
    /\ IsFiniteSet(JobIds) /\ Times \subseteq Nat \ {0}
    /\ None \notin Nat /\ Absent \notin Nat \cup {None}

Kinds == {"sqlalchemy", "mongodb", "rethinkdb", "redis", "zookeeper"}

VARIABLES
    kind,         \* the class of the job store
    db,           \* what the database holds, see Database
    unread,       \* zookeeper: the nodes whose next read fails
    ensuredPath,  \* zookeeper: _ensured_path
    reply         \* what the last operation returned or raised

vars == <<kind, db, unread, ensuredPath, reply>>

TimeOrNot == Times \cup {None, Absent}

Database ==
    [jobs     : [JobIds -> TimeOrNot],               \* next_run_time of each job
     bad      : SUBSET JobIds,                       \* jobs whose state cannot be restored
     runTimes : [JobIds -> Times \cup {Absent}],     \* redis: the sorted set run_times
     path     : BOOLEAN]                             \* zookeeper: the node of the store

Nothing == <<"none">>
Error(name) == <<"error", name>>
Jobs(seq) == <<"jobs", seq>>
RunTime(t) == <<"time", t>>
Failed(op) == <<"failed", op>>

Rows == {j \in JobIds : db.jobs[j] # Absent}

Active == {j \in Rows : db.jobs[j] # None}

Init ==
    /\ kind \in Kinds
    /\ db = [jobs |-> [j \in JobIds |-> Absent], bad |-> {},
             runTimes |-> [j \in JobIds |-> Absent], path |-> FALSE]
    /\ unread = {}
    /\ ensuredPath = FALSE
    /\ reply = Nothing

Without(f, D) == [j \in JobIds |-> IF j \in D THEN Absent ELSE f[j]]

\* The database d with the job j written anew, and without the jobs of D.
Put(d, j, t) == [d EXCEPT !.jobs = [@ EXCEPT ![j] = t], !.bad = @ \ {j}]

Delete(d, D) == [d EXCEPT !.jobs = Without(@, D), !.bad = @ \ D]

\* The last request of the operation op takes the database to new; the
\* operation returns r, or the answer is lost.
Write(op, new, r) == db' = new /\ reply' \in {r, Failed(op)}

Raise(error) == db' = db /\ reply' = Error(error)

\* The operation op fails with only the jobs of a set of parts deleted.
Interrupted(op, parts) == \E D \in parts : db' = Delete(db, D) /\ reply' = Failed(op)

MinOrNone(T) == IF T = {} THEN None ELSE Min(T)

\* The jobs of S in an order of key, those without one at an end of the list.
NoLater(t, u) == t = None \/ u = None \/ t <= u

Ordered(S, key) ==
    {seq \in SetToSeqs(S) : \A m, n \in DOMAIN seq : m < n => NoLater(key[seq[m]], key[seq[n]])}

PausedLast(S, key) ==
    {seq \in Ordered(S, key) :
        \A m, n \in DOMAIN seq : m < n /\ key[seq[m]] = None => key[seq[n]] = None}

PausedFirst(S, key) ==
    {seq \in Ordered(S, key) :
        \A m, n \in DOMAIN seq : m < n /\ key[seq[n]] = None => key[seq[m]] = None}

\* Mutant of FixPausedSorting: the order of the database.
AsRead(seq) == seq

\* _fix_paused_jobs_sorting: the jobs before the first one with a run time go last.
FixPausedSorting(seq) ==
    LET runs == {n \in DOMAIN seq : db.jobs[seq[n]] # None}
        i    == Min(runs)
    IN  IF runs = {} THEN seq
        ELSE SubSeq(seq, i, Len(seq)) \o SubSeq(seq, 1, i - 1)

Fixed(lists) == {FixPausedSorting(seq) : seq \in lists}

-----------------------------------------------------------------------------
(* SQLAlchemyJobStore: one statement each, the clean-up a second one. *)

SqlAddJob(j, t) ==
    IF j \in Rows THEN Raise("ConflictingIdError") ELSE Write("add_job", Put(db, j, t), Nothing)

SqlUpdateJob(j, t) ==
    IF j \in Rows THEN Write("update_job", Put(db, j, t), Nothing) ELSE Raise("JobLookupError")

SqlRemoveJob(j) ==
    IF j \in Rows THEN Write("remove_job", Delete(db, {j}), Nothing) ELSE Raise("JobLookupError")

SqlRemoveAllJobs == Write("remove_all_jobs", Delete(db, JobIds), Nothing)

\* Where NULL is sorted is up to the database.
SqlOrders(S) == PausedFirst(S, db.jobs) \cup PausedLast(S, db.jobs)

\* Mutant of SqlGetJobs: a lost parenthesis, and every row read is deleted.
SqlGetJobsAllGone(op, S, lists) ==
    \E seq \in lists : Write(op, Delete(db, S), Jobs(seq))

\* _get_jobs: lists has the orders of the rows of S that can be restored.
SqlGetJobs(op, S, lists) ==
    \E seq \in lists : Write(op, Delete(db, S \cap db.bad), Jobs(seq))

SqlGetDueJobs(now) ==
    LET due == {j \in Active : db.jobs[j] <= now}
    IN  SqlGetJobs("get_due_jobs", due, SqlOrders(due \ db.bad))

SqlGetAllJobs == SqlGetJobs("get_all_jobs", Rows, Fixed(SqlOrders(Rows \ db.bad)))

SqlGetNextRunTime ==
    Write("get_next_run_time", db, RunTime(MinOrNone({db.jobs[j] : j \in Active})))

SqlLookupJob(j) == j \notin db.bad /\ Write("lookup_job", db, RunTime(db.jobs[j]))

SqlNext ==
    /\ kind = "sqlalchemy"
    /\ \/ \E j \in JobIds, t \in Times \cup {None} : SqlAddJob(j, t) \/ SqlUpdateJob(j, t)
       \/ \E j \in JobIds : SqlRemoveJob(j) \/ SqlLookupJob(j)
       \/ \E now \in Times : SqlGetDueJobs(now)
       \/ SqlRemoveAllJobs \/ SqlGetAllJobs \/ SqlGetNextRunTime
    /\ UNCHANGED <<kind, unread, ensuredPath>>

-----------------------------------------------------------------------------
(* MongoDBJobStore: a request that deletes many documents may stop halfway. *)

MongoAddJob(j, t) ==
    IF j \in Rows THEN Raise("ConflictingIdError") ELSE Write("add_job", Put(db, j, t), Nothing)

MongoUpdateJob(j, t) ==
    IF j \in Rows THEN Write("update_job", Put(db, j, t), Nothing) ELSE Raise("JobLookupError")

MongoRemoveJob(j) ==
    IF j \in Rows THEN Write("remove_job", Delete(db, {j}), Nothing) ELSE Raise("JobLookupError")

MongoRemoveAllJobs ==
    \/ Write("remove_all_jobs", Delete(db, JobIds), Nothing)
    \/ Interrupted("remove_all_jobs", SUBSET Rows)

MongoGetJobs(op, S, lists) ==
    \/ \E seq \in lists : Write(op, Delete(db, S \cap db.bad), Jobs(seq))
    \/ Interrupted(op, SUBSET (S \cap db.bad))

\* Documents with null do not compare with a number.
MongoGetDueJobs(now) ==
    LET due == {j \in Active : db.jobs[j] <= now}
    IN  MongoGetJobs("get_due_jobs", due, PausedFirst(due \ db.bad, db.jobs))

MongoGetAllJobs ==
    MongoGetJobs("get_all_jobs", Rows, Fixed(PausedFirst(Rows \ db.bad, db.jobs)))

MongoGetNextRunTime ==
    Write("get_next_run_time", db, RunTime(MinOrNone({db.jobs[j] : j \in Active})))

MongoLookupJob(j) == j \notin db.bad /\ Write("lookup_job", db, RunTime(db.jobs[j]))

MongoNext ==
    /\ kind = "mongodb"
    /\ \/ \E j \in JobIds, t \in Times \cup {None} : MongoAddJob(j, t) \/ MongoUpdateJob(j, t)
       \/ \E j \in JobIds : MongoRemoveJob(j) \/ MongoLookupJob(j)
       \/ \E now \in Times : MongoGetDueJobs(now)
       \/ MongoRemoveAllJobs \/ MongoGetAllJobs \/ MongoGetNextRunTime
    /\ UNCHANGED <<kind, unread, ensuredPath>>

-----------------------------------------------------------------------------
(* RethinkDBJobStore: nothing is said of an id but how many documents were  *)
(* inserted, replaced, left unchanged, skipped or deleted.                  *)

RethinkAddJob(j, t) ==
    IF j \in Rows THEN Raise("ConflictingIdError") ELSE Write("add_job", Put(db, j, t), Nothing)

\* No document is replaced or unchanged: every count is 0.
RethinkUpdateJob(j, t) ==
    LET counted == Cardinality({j} \cap Rows)
    IN  IF counted = 0 THEN Raise("JobLookupError") ELSE Write("update_job", Put(db, j, t), Nothing)

RethinkRemoveJob(j) ==
    LET deleted == Cardinality({j} \cap Rows)
    IN  IF deleted # 1 THEN Raise("JobLookupError")
        ELSE Write("remove_job", Delete(db, {j}), Nothing)

RethinkRemoveAllJobs ==
    \/ Write("remove_all_jobs", Delete(db, JobIds), Nothing)
    \/ Interrupted("remove_all_jobs", SUBSET Rows)

\* Ordered by run time and id, null first.
RethinkGetJobs(op, S, lists) ==
    \/ \E seq \in lists : Write(op, Delete(db, S \cap db.bad), Jobs(seq))
    \/ Interrupted(op, SUBSET (S \cap db.bad))

RethinkGetDueJobs(now) ==
    LET due == {j \in Active : db.jobs[j] <= now}
    IN  RethinkGetJobs("get_due_jobs", due, PausedFirst(due \ db.bad, db.jobs))

RethinkGetAllJobs ==
    RethinkGetJobs("get_all_jobs", Rows, Fixed(PausedFirst(Rows \ db.bad, db.jobs)))

RethinkGetNextRunTime ==
    Write("get_next_run_time", db, RunTime(MinOrNone({db.jobs[j] : j \in Active})))

RethinkLookupJob(j) == j \notin db.bad /\ Write("lookup_job", db, RunTime(db.jobs[j]))

RethinkNext ==
    /\ kind = "rethinkdb"
    /\ \/ \E j \in JobIds, t \in Times \cup {None} : RethinkAddJob(j, t) \/ RethinkUpdateJob(j, t)
       \/ \E j \in JobIds : RethinkRemoveJob(j) \/ RethinkLookupJob(j)
       \/ \E now \in Times : RethinkGetDueJobs(now)
       \/ RethinkRemoveAllJobs \/ RethinkGetAllJobs \/ RethinkGetNextRunTime
    /\ UNCHANGED <<kind, unread, ensuredPath>>

-----------------------------------------------------------------------------
(* RedisJobStore: a hash of the jobs and a sorted set of the run times of   *)
(* those that are not paused, changed together in a transaction.            *)

RedisPut(j, t, score) == [Put(db, j, t) EXCEPT !.runTimes = [@ EXCEPT ![j] = score]]

RedisDelete(D) == [Delete(db, D) EXCEPT !.runTimes = Without(@, D)]

RedisAddJob(j, t) ==
    IF j \in Rows THEN Raise("ConflictingIdError")
    ELSE Write("add_job", RedisPut(j, t, IF t = None THEN db.runTimes[j] ELSE t), Nothing)

\* Mutant of UpdatedScore: a pause leaves the old run time in the sorted set.
UpdatedScoreKept(j, t) == IF t = None THEN db.runTimes[j] ELSE t

\* Mutant of UpdatedScore: a paused job is added to the sorted set as well.
UpdatedScoreOfPaused(j, t) == t

UpdatedScore(j, t) == IF t = None THEN Absent ELSE t

RedisUpdateJob(j, t) ==
    IF j \in Rows THEN Write("update_job", RedisPut(j, t, UpdatedScore(j, t)), Nothing)
    ELSE Raise("JobLookupError")

RedisRemoveJob(j) ==
    IF j \in Rows THEN Write("remove_job", RedisDelete({j}), Nothing) ELSE Raise("JobLookupError")

RedisRemoveAllJobs == Write("remove_all_jobs", RedisDelete(JobIds), Nothing)

RedisReconstituteJobs(op, ids, lists) ==
    \E seq \in lists : Write(op, RedisDelete(ids \ (Rows \ db.bad)), Jobs(seq))

RedisScores == {j \in JobIds : db.runTimes[j] # Absent}

RedisGetDueJobs(now) ==
    LET ids == {j \in RedisScores : db.runTimes[j] <= now}
    IN  RedisReconstituteJobs("get_due_jobs", ids, Ordered(ids \cap (Rows \ db.bad), db.runTimes))

RedisGetAllJobs ==
    RedisReconstituteJobs("get_all_jobs", Rows, PausedLast(Rows \ db.bad, db.jobs))

RedisGetNextRunTime ==
    Write("get_next_run_time", db, RunTime(MinOrNone({db.runTimes[j] : j \in RedisScores})))

RedisLookupJob(j) == j \notin db.bad /\ Write("lookup_job", db, RunTime(db.jobs[j]))

RedisNext ==
    /\ kind = "redis"
    /\ \/ \E j \in JobIds, t \in Times \cup {None} : RedisAddJob(j, t) \/ RedisUpdateJob(j, t)
       \/ \E j \in JobIds : RedisRemoveJob(j) \/ RedisLookupJob(j)
       \/ \E now \in Times : RedisGetDueJobs(now)
       \/ RedisRemoveAllJobs \/ RedisGetAllJobs \/ RedisGetNextRunTime
    /\ UNCHANGED <<kind, unread, ensuredPath>>

-----------------------------------------------------------------------------
(* ZooKeeperJobStore: a node per job under the node of the store, which is  *)
(* created when _ensured_path does not say that it is there.                *)

\* The database after _ensure_paths.
Ensured == [db EXCEPT !.path = @ \/ ~ensuredPath]

\* Without the node of the store, create raises NoNodeError: see ZkFails.
ZkAddJob(j, t) ==
    /\ Ensured.path
    /\ IF j \in Rows THEN db' = Ensured /\ reply' = Error("ConflictingIdError")
       ELSE Write("add_job", Put(Ensured, j, t), Nothing)
    /\ ensuredPath' = TRUE

ZkUpdateJob(j, t) ==
    /\ IF j \in Rows THEN Write("update_job", Put(Ensured, j, t), Nothing)
       ELSE db' = Ensured /\ reply' = Error("JobLookupError")
    /\ ensuredPath' = TRUE

ZkRemoveJob(j) ==
    /\ IF j \in Rows THEN Write("remove_job", Delete(Ensured, {j}), Nothing)
       ELSE db' = Ensured /\ reply' = Error("JobLookupError")
    /\ ensuredPath' = TRUE

\* Without any node.
ZkEmpty == [Delete(db, JobIds) EXCEPT !.path = FALSE]

\* Mutant of ZkRemoveAllJobs: _ensured_path is not reset.
ZkRemoveAllJobsEnsured ==
    /\ db' = ZkEmpty
    /\ reply' \in {Nothing, Failed("remove_all_jobs")}
    /\ UNCHANGED ensuredPath

\* The nodes are deleted one by one, that of the store last.
ZkRemoveAllJobs ==
    \/ db' = ZkEmpty /\ reply' = Nothing /\ ensuredPath' = FALSE
    \/ /\ db' \in {Delete(db, D) : D \in SUBSET Rows} \cup {ZkEmpty}
       /\ reply' = Failed("remove_all_jobs")
       /\ UNCHANGED ensuredPath

\* Any error counts: also that of a request which fails.
ZkUnrestored == Rows \cap (db.bad \cup unread)

\* _get_jobs for an operation that returns one of replies.
ZkGetJobs(op, replies) ==
    /\ Ensured.path
    /\ ensuredPath' = TRUE
    /\ \/ db' = Delete(Ensured, ZkUnrestored) /\ reply' \in replies
       \/ \E D \in SUBSET ZkUnrestored : db' = Delete(Ensured, D) /\ reply' = Failed(op)

ZkGetDueJobs(now) ==
    LET due == {j \in Active \ ZkUnrestored : db.jobs[j] <= now}
    IN  ZkGetJobs("get_due_jobs", {Jobs(seq) : seq \in PausedLast(due, db.jobs)})

ZkGetAllJobs ==
    ZkGetJobs("get_all_jobs", {Jobs(seq) : seq \in Fixed(PausedLast(Rows \ ZkUnrestored, db.jobs))})

ZkGetNextRunTime ==
    ZkGetJobs("get_next_run_time",
              {RunTime(MinOrNone({db.jobs[j] : j \in Active \ ZkUnrestored}))})

ZkLookupJob(j) ==
    /\ db' = Ensured
    /\ reply' = RunTime(IF j \in ZkUnrestored THEN Absent ELSE db.jobs[j])
    /\ ensuredPath' = TRUE

\* The request of _ensure_paths fails, or the one after it; lookup_job says
\* None to the latter.
ZkFails(op) ==
    /\ \/ ~ensuredPath /\ db' \in {db, Ensured} /\ UNCHANGED ensuredPath
       \/ op # "lookup_job" /\ db' = Ensured /\ ensuredPath' = TRUE
    /\ reply' = Failed(op)

Reads == {"get_due_jobs", "get_all_jobs", "get_next_run_time", "lookup_job"}

Writes == {"add_job", "update_job", "remove_job"}

ZkNext ==
    /\ kind = "zookeeper"
    /\ \/ \E j \in JobIds, t \in Times \cup {None} : ZkAddJob(j, t) \/ ZkUpdateJob(j, t)
       \/ \E j \in JobIds : ZkRemoveJob(j) \/ ZkLookupJob(j)
       \/ \E now \in Times : ZkGetDueJobs(now)
       \/ ZkRemoveAllJobs \/ ZkGetAllJobs \/ ZkGetNextRunTime
       \/ \E op \in Reads \cup Writes : ZkFails(op)
    /\ unread' = {}
    /\ UNCHANGED kind

-----------------------------------------------------------------------------

\* A request fails before it changes anything, or the job that is looked up
\* cannot be restored.
RequestFails(op) ==
    /\ kind # "zookeeper"
    /\ db' = db /\ reply' = Failed(op)
    /\ UNCHANGED <<kind, unread, ensuredPath>>

\* The connection is lost while nodes are read in the next operation.
ConnectionDrops ==
    /\ kind = "zookeeper" /\ unread = {}
    /\ unread' \in SUBSET Rows \ {{}}
    /\ UNCHANGED <<kind, db, ensuredPath, reply>>

\* The process ends or is killed, and is started with code that finds the
\* functions of other jobs.
Restart ==
    /\ \E bad \in SUBSET Rows : db' = [db EXCEPT !.bad = bad]
    /\ unread' = {}
    /\ ensuredPath' = FALSE
    /\ UNCHANGED <<kind, reply>>

Next ==
    \/ SqlNext \/ MongoNext \/ RethinkNext \/ RedisNext \/ ZkNext
    \/ \E op \in Reads \cup Writes \cup {"remove_all_jobs"} : RequestFails(op)
    \/ ConnectionDrops
    \/ Restart

Spec == Init /\ [][Next]_vars

-----------------------------------------------------------------------------
(* Properties *)

TypeOK ==
    /\ kind \in Kinds
    /\ db \in Database
    /\ unread \subseteq Rows /\ db.bad \subseteq Rows
    /\ ensuredPath \in BOOLEAN

\* What Redis keeps twice agrees in every state, whatever requests failed and
\* whatever was paused or dropped: the sorted set has the run times of the jobs
\* in the hash that are not paused, and nothing else.
RunTimesMirror ==
    kind = "redis" =>
        \A j \in JobIds :
            db.runTimes[j] = IF db.jobs[j] = None THEN Absent ELSE db.jobs[j]

\* Every store does what a job store promises.  A job leaves it only when it is
\* removed, or when a list was asked for and the job could not be read; the
\* lists are in order and have every other job; an error tells the truth.
Abstract == INSTANCE JobStore WITH timeOf <- db.jobs, unreadable <- db.bad \cup unread

ImplementsJobStore == Abstract!Spec

\* ZooKeeperJobStore relies on the node of the store to be there once it has
\* seen to it: only a remove_all_jobs whose last answer is lost breaks that.
StorePathKept ==
    [][(ensuredPath => db.path) /\ ~(ensuredPath' => db'.path)
       => reply' = Failed("remove_all_jobs")]_vars

=============================================================================

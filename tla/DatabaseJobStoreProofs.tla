------------------------ MODULE DatabaseJobStoreProofs ------------------------
(***************************************************************************)
(* The job stores over a database are job stores: whatever requests fail,  *)
(* each operation is one of JobStore's, for any jobs and run times.        *)
(***************************************************************************)
EXTENDS DatabaseJobStore, FiniteSetTheorems, SequenceTheorems, WellFoundedInduction, TLAPS

-----------------------------------------------------------------------------
(* What the requests make of the database.                                   *)

LEMMA PutFields ==
    ASSUME NEW d \in Database, NEW j \in JobIds, NEW t \in Times \cup {None}
    PROVE  /\ Put(d, j, t) \in Database
           /\ Put(d, j, t).jobs = [d.jobs EXCEPT ![j] = t]
           /\ Put(d, j, t).bad = d.bad \ {j}
           /\ Put(d, j, t).runTimes = d.runTimes
           /\ Put(d, j, t).path = d.path
BY DEF Put, Database, TimeOrNot

LEMMA DeleteFields ==
    ASSUME NEW d \in Database, NEW D \in SUBSET JobIds
    PROVE  /\ Delete(d, D) \in Database
           /\ Delete(d, D).jobs = [k \in JobIds |-> IF k \in D THEN Absent ELSE d.jobs[k]]
           /\ Delete(d, D).bad = d.bad \ D
           /\ Delete(d, D).runTimes = d.runTimes
           /\ Delete(d, D).path = d.path
BY DEF Delete, Without, Database, TimeOrNot

LEMMA RedisPutFields ==
    ASSUME db \in Database, NEW j \in JobIds, NEW t \in Times \cup {None},
           NEW score \in Times \cup {Absent}
    PROVE  /\ RedisPut(j, t, score) \in Database
           /\ RedisPut(j, t, score).jobs = [db.jobs EXCEPT ![j] = t]
           /\ RedisPut(j, t, score).bad = db.bad \ {j}
           /\ RedisPut(j, t, score).runTimes = [db.runTimes EXCEPT ![j] = score]
<1> DEFINE p == Put(db, j, t)
<1>1. /\ p \in Database /\ p.jobs = [db.jobs EXCEPT ![j] = t]
      /\ p.bad = db.bad \ {j} /\ p.runTimes = db.runTimes
    BY PutFields
<1>2. RedisPut(j, t, score) = [p EXCEPT !.runTimes = [p.runTimes EXCEPT ![j] = score]]
    BY DEF RedisPut
<1> HIDE DEF p
<1> QED BY <1>1, <1>2 DEF Database

LEMMA RedisDeleteFields ==
    ASSUME db \in Database, NEW D \in SUBSET JobIds
    PROVE  /\ RedisDelete(D) \in Database
           /\ RedisDelete(D).jobs = [k \in JobIds |-> IF k \in D THEN Absent ELSE db.jobs[k]]
           /\ RedisDelete(D).bad = db.bad \ D
           /\ RedisDelete(D).runTimes =
                  [k \in JobIds |-> IF k \in D THEN Absent ELSE db.runTimes[k]]
           /\ RedisDelete(D).path = db.path
BY DeleteFields DEF RedisDelete, Without, Database

LEMMA EnsuredFields ==
    ASSUME db \in Database, ensuredPath \in BOOLEAN
    PROVE  /\ Ensured \in Database
           /\ Ensured.jobs = db.jobs /\ Ensured.bad = db.bad
           /\ Ensured.path = (db.path \/ ~ensuredPath)
BY DEF Ensured, Database

LEMMA ZkEmptyFields ==
    ASSUME db \in Database
    PROVE  /\ ZkEmpty \in Database
           /\ ZkEmpty.jobs = [k \in JobIds |-> Absent]
           /\ ZkEmpty.bad = {} /\ ZkEmpty.path = FALSE
<1> DEFINE p == Delete(db, JobIds)
<1>1. /\ p \in Database /\ p.bad = db.bad \ JobIds
      /\ p.jobs = [k \in JobIds |-> IF k \in JobIds THEN Absent ELSE db.jobs[k]]
    BY DeleteFields
<1>2. ZkEmpty = [p EXCEPT !.path = FALSE]
    BY DEF ZkEmpty
<1>3. db.bad \subseteq JobIds
    BY DEF Database
<1> HIDE DEF p
<1> QED BY <1>1, <1>2, <1>3 DEF Database

\* Put and Delete once more, for a database in which bad jobs are stored.
Sound(d) == d \in Database /\ \A k \in d.bad : d.jobs[k] # Absent

LEMMA PutSound ==
    ASSUME NEW d, Sound(d), NEW j \in JobIds, NEW t \in Times \cup {None}
    PROVE  Sound(Put(d, j, t))
<1> DEFINE p == Put(d, j, t)
<1>1. d \in Database /\ d.jobs \in [JobIds -> TimeOrNot] /\ d.bad \in SUBSET JobIds
    BY DEF Sound, Database
<1>2. t # Absent
    BY DatabaseAssumption
<1>3. p \in Database /\ p.jobs = [d.jobs EXCEPT ![j] = t] /\ p.bad = d.bad \ {j}
    BY <1>1, PutFields
<1> HIDE DEF p
<1>4. \A k \in p.bad : p.jobs[k] # Absent
    BY <1>1, <1>2, <1>3 DEF Sound
<1> QED BY <1>3, <1>4 DEF Sound, p

LEMMA DeleteSound ==
    ASSUME NEW d, Sound(d), NEW D \in SUBSET JobIds
    PROVE  Sound(Delete(d, D))
<1> DEFINE p == Delete(d, D)
<1>1. d \in Database /\ d.bad \in SUBSET JobIds
    BY DEF Sound, Database
<1>2. /\ p \in Database /\ p.bad = d.bad \ D
      /\ p.jobs = [k \in JobIds |-> IF k \in D THEN Absent ELSE d.jobs[k]]
    BY <1>1, DeleteFields
<1> HIDE DEF p
<1>3. \A k \in p.bad : p.jobs[k] # Absent
    BY <1>1, <1>2 DEF Sound
<1> QED BY <1>2, <1>3 DEF Sound, p

-----------------------------------------------------------------------------
(* The invariant.                                                            *)

Shape ==
    /\ kind \in Kinds
    /\ Sound(db)
    /\ unread \subseteq Rows
    /\ kind # "zookeeper" => unread = {}
    /\ ensuredPath \in BOOLEAN

IInv == Shape /\ RunTimesMirror

\* A step of a store that keeps a job in one row or document.
RowStep ==
    \/ db' = db
    \/ \E j \in JobIds, t \in Times \cup {None} : db' = Put(db, j, t)
    \/ \E D \in SUBSET JobIds : db' = Delete(db, D)

LEMMA RowsAreIds == Rows \in SUBSET JobIds /\ Active \in SUBSET JobIds
BY DEF Rows, Active

LEMMA SqlStep ==
    ASSUME SqlNext
    PROVE  RowStep
<1>1. ASSUME NEW j \in JobIds, NEW t \in Times \cup {None}, SqlAddJob(j, t) \/ SqlUpdateJob(j, t)
      PROVE  RowStep
    BY <1>1 DEF SqlAddJob, SqlUpdateJob, Write, Raise, RowStep
<1>2. ASSUME NEW j \in JobIds, SqlRemoveJob(j) \/ SqlLookupJob(j)
      PROVE  RowStep
    BY <1>2 DEF SqlRemoveJob, SqlLookupJob, Write, Raise, RowStep
<1>3. ASSUME NEW op, NEW S \in SUBSET JobIds, NEW lists, SqlGetJobs(op, S, lists)
      PROVE  RowStep
    BY <1>3 DEF SqlGetJobs, Write, RowStep
<1>4. ASSUME NEW now \in Times, SqlGetDueJobs(now)
      PROVE  RowStep
    BY <1>3, <1>4, RowsAreIds DEF SqlGetDueJobs
<1>5. ASSUME SqlGetAllJobs
      PROVE  RowStep
    BY <1>3, <1>5, RowsAreIds DEF SqlGetAllJobs
<1>6. ASSUME SqlRemoveAllJobs \/ SqlGetNextRunTime
      PROVE  RowStep
    BY <1>6 DEF SqlRemoveAllJobs, SqlGetNextRunTime, Write, RowStep
<1> QED BY <1>1, <1>2, <1>4, <1>5, <1>6 DEF SqlNext

LEMMA MongoStep ==
    ASSUME MongoNext
    PROVE  RowStep
<1>1. ASSUME NEW j \in JobIds, NEW t \in Times \cup {None},
             MongoAddJob(j, t) \/ MongoUpdateJob(j, t)
      PROVE  RowStep
    BY <1>1 DEF MongoAddJob, MongoUpdateJob, Write, Raise, RowStep
<1>2. ASSUME NEW j \in JobIds, MongoRemoveJob(j) \/ MongoLookupJob(j)
      PROVE  RowStep
    BY <1>2 DEF MongoRemoveJob, MongoLookupJob, Write, Raise, RowStep
<1>3. ASSUME NEW op, NEW S \in SUBSET JobIds, NEW lists, MongoGetJobs(op, S, lists)
      PROVE  RowStep
    BY <1>3 DEF MongoGetJobs, Write, Interrupted, RowStep
<1>4. ASSUME NEW now \in Times, MongoGetDueJobs(now)
      PROVE  RowStep
    BY <1>3, <1>4, RowsAreIds DEF MongoGetDueJobs
<1>5. ASSUME MongoGetAllJobs
      PROVE  RowStep
    BY <1>3, <1>5, RowsAreIds DEF MongoGetAllJobs
<1>6. ASSUME MongoRemoveAllJobs \/ MongoGetNextRunTime
      PROVE  RowStep
    BY <1>6, RowsAreIds DEF MongoRemoveAllJobs, MongoGetNextRunTime, Write, Interrupted, RowStep
<1> QED BY <1>1, <1>2, <1>4, <1>5, <1>6 DEF MongoNext

LEMMA RethinkStep ==
    ASSUME RethinkNext
    PROVE  RowStep
<1>1. ASSUME NEW j \in JobIds, NEW t \in Times \cup {None},
             RethinkAddJob(j, t) \/ RethinkUpdateJob(j, t)
      PROVE  RowStep
    BY <1>1 DEF RethinkAddJob, RethinkUpdateJob, Write, Raise, RowStep
<1>2. ASSUME NEW j \in JobIds, RethinkRemoveJob(j) \/ RethinkLookupJob(j)
      PROVE  RowStep
    BY <1>2 DEF RethinkRemoveJob, RethinkLookupJob, Write, Raise, RowStep
<1>3. ASSUME NEW op, NEW S \in SUBSET JobIds, NEW lists, RethinkGetJobs(op, S, lists)
      PROVE  RowStep
    BY <1>3 DEF RethinkGetJobs, Write, Interrupted, RowStep
<1>4. ASSUME NEW now \in Times, RethinkGetDueJobs(now)
      PROVE  RowStep
    BY <1>3, <1>4, RowsAreIds DEF RethinkGetDueJobs
<1>5. ASSUME RethinkGetAllJobs
      PROVE  RowStep
    BY <1>3, <1>5, RowsAreIds DEF RethinkGetAllJobs
<1>6. ASSUME RethinkRemoveAllJobs \/ RethinkGetNextRunTime
      PROVE  RowStep
    BY <1>6, RowsAreIds DEF RethinkRemoveAllJobs, RethinkGetNextRunTime, Write, Interrupted, RowStep
<1> QED BY <1>1, <1>2, <1>4, <1>5, <1>6 DEF RethinkNext

\* A step of Redis keeps the sorted set with the hash.
RedisStep ==
    \/ db' = db
    \/ \E j \in JobIds, t \in Times \cup {None} :
          \/ db' = RedisPut(j, t, UpdatedScore(j, t))
          \/ j \notin Rows /\ db' = RedisPut(j, t, IF t = None THEN db.runTimes[j] ELSE t)
    \/ \E D \in SUBSET JobIds : db' = RedisDelete(D)

LEMMA RedisIsStep ==
    ASSUME RedisNext
    PROVE  RedisStep
<1>1. ASSUME NEW j \in JobIds, NEW t \in Times \cup {None},
             RedisAddJob(j, t) \/ RedisUpdateJob(j, t)
      PROVE  RedisStep
    BY <1>1 DEF RedisAddJob, RedisUpdateJob, Write, Raise, RedisStep
<1>2. ASSUME NEW j \in JobIds, RedisRemoveJob(j) \/ RedisLookupJob(j)
      PROVE  RedisStep
    BY <1>2 DEF RedisRemoveJob, RedisLookupJob, Write, Raise, RedisStep
<1>3. ASSUME NEW op, NEW ids \in SUBSET JobIds, NEW lists, RedisReconstituteJobs(op, ids, lists)
      PROVE  RedisStep
    BY <1>3 DEF RedisReconstituteJobs, Write, RedisStep
<1>4. ASSUME NEW now \in Times, RedisGetDueJobs(now)
      PROVE  RedisStep
    BY <1>3, <1>4 DEF RedisGetDueJobs, RedisScores
<1>5. ASSUME RedisGetAllJobs
      PROVE  RedisStep
    BY <1>3, <1>5, RowsAreIds DEF RedisGetAllJobs
<1>6. ASSUME RedisRemoveAllJobs \/ RedisGetNextRunTime
      PROVE  RedisStep
    BY <1>6 DEF RedisRemoveAllJobs, RedisGetNextRunTime, Write, RedisStep
<1> QED BY <1>1, <1>2, <1>4, <1>5, <1>6 DEF RedisNext

\* A step of ZooKeeper: the node of the store comes first and goes last.
ZkStep ==
    \/ db' \in {db, Ensured}
    \/ \E j \in JobIds, t \in Times \cup {None} : db' = Put(Ensured, j, t)
    \/ \E D \in SUBSET JobIds : db' \in {Delete(db, D), Delete(Ensured, D)}
    \/ db' = ZkEmpty

LEMMA ZkIsStep ==
    ASSUME ZkNext, ensuredPath \in BOOLEAN
    PROVE  ZkStep /\ ensuredPath' \in BOOLEAN
<1>1. ASSUME NEW j \in JobIds, NEW t \in Times \cup {None},
             ZkAddJob(j, t) \/ ZkUpdateJob(j, t)
      PROVE  ZkStep /\ ensuredPath' \in BOOLEAN
    BY <1>1 DEF ZkAddJob, ZkUpdateJob, Write, ZkStep
<1>2. ASSUME NEW j \in JobIds, ZkRemoveJob(j) \/ ZkLookupJob(j)
      PROVE  ZkStep /\ ensuredPath' \in BOOLEAN
    BY <1>2 DEF ZkRemoveJob, ZkLookupJob, Write, ZkStep
<1>3. ASSUME NEW op, NEW replies, ZkGetJobs(op, replies)
      PROVE  ZkStep /\ ensuredPath' \in BOOLEAN
    BY <1>3, RowsAreIds DEF ZkGetJobs, ZkUnrestored, ZkStep
<1>4. ASSUME NEW now \in Times, ZkGetDueJobs(now)
      PROVE  ZkStep /\ ensuredPath' \in BOOLEAN
    BY <1>3, <1>4 DEF ZkGetDueJobs
<1>5. ASSUME ZkGetAllJobs \/ ZkGetNextRunTime
      PROVE  ZkStep /\ ensuredPath' \in BOOLEAN
    BY <1>3, <1>5 DEF ZkGetAllJobs, ZkGetNextRunTime
<1>6. ASSUME ZkRemoveAllJobs
      PROVE  ZkStep /\ ensuredPath' \in BOOLEAN
    BY <1>6, RowsAreIds DEF ZkRemoveAllJobs, ZkStep
<1>7. ASSUME NEW op, ZkFails(op)
      PROVE  ZkStep /\ ensuredPath' \in BOOLEAN
    BY <1>7 DEF ZkFails, ZkStep
<1> QED BY <1>1, <1>2, <1>4, <1>5, <1>6, <1>7 DEF ZkNext

LEMMA InitInvariant == Init => IInv
<1> SUFFICES ASSUME Init PROVE IInv
    OBVIOUS
<1>1. db.jobs = [j \in JobIds |-> Absent] /\ db.bad = {} /\ db.runTimes = [j \in JobIds |-> Absent]
    BY DEF Init
<1>2. db \in Database
    BY DEF Init, Database, TimeOrNot
<1>3. Absent # None
    BY DatabaseAssumption
<1> QED BY <1>1, <1>2, <1>3 DEF Init, IInv, Shape, Sound, RunTimesMirror

LEMMA RowStepInvariant ==
    ASSUME IInv, RowStep, kind \in Kinds \ {"redis", "zookeeper"}, UNCHANGED <<kind, unread, ensuredPath>>
    PROVE  IInv'
<1>1. Sound(db')
    BY PutSound, DeleteSound DEF IInv, Shape, RowStep
<1> QED BY <1>1 DEF IInv, Shape, Sound, RunTimesMirror, Rows, Kinds

LEMMA RedisStepInvariant ==
    ASSUME IInv, RedisStep, kind = "redis", UNCHANGED <<kind, unread, ensuredPath>>
    PROVE  IInv'
<1> USE DEF IInv, Shape
<1>0. /\ db \in Database /\ db.jobs \in [JobIds -> TimeOrNot] /\ db.bad \in SUBSET JobIds
      /\ db.runTimes \in [JobIds -> Times \cup {Absent}]
      /\ \A k \in db.bad : db.jobs[k] # Absent
      /\ None # Absent /\ None \notin Times /\ Absent \notin Times
      /\ \A k \in JobIds : db.runTimes[k] = IF db.jobs[k] = None THEN Absent ELSE db.jobs[k]
    BY DatabaseAssumption DEF Sound, Database, RunTimesMirror
<1>1. ASSUME NEW j \in JobIds, NEW t \in Times \cup {None},
             NEW score, score = (IF t = None THEN Absent ELSE t), db' = RedisPut(j, t, score)
      PROVE  Sound(db') /\ RunTimesMirror'
    <2>1. score \in Times \cup {Absent}
        BY <1>1
    <2>2. /\ db' \in Database /\ db'.jobs = [db.jobs EXCEPT ![j] = t] /\ db'.bad = db.bad \ {j}
          /\ db'.runTimes = [db.runTimes EXCEPT ![j] = score]
        BY <1>0, <1>1, <2>1, RedisPutFields
    <2>3. Sound(db')
        BY <1>0, <2>2 DEF Sound
    <2>4. \A k \in JobIds : db'.runTimes[k] = IF db'.jobs[k] = None THEN Absent ELSE db'.jobs[k]
        BY <1>0, <1>1, <2>2
    <2> QED BY <2>3, <2>4 DEF RunTimesMirror
<1>2. ASSUME NEW D \in SUBSET JobIds, db' = RedisDelete(D)
      PROVE  Sound(db') /\ RunTimesMirror'
    <2>2. /\ db' \in Database /\ db'.bad = db.bad \ D
          /\ db'.jobs = [k \in JobIds |-> IF k \in D THEN Absent ELSE db.jobs[k]]
          /\ db'.runTimes = [k \in JobIds |-> IF k \in D THEN Absent ELSE db.runTimes[k]]
        BY <1>0, <1>2, RedisDeleteFields
    <2>3. Sound(db')
        BY <1>0, <2>2 DEF Sound
    <2>4. \A k \in JobIds : db'.runTimes[k] = IF db'.jobs[k] = None THEN Absent ELSE db'.jobs[k]
        BY <1>0, <2>2
    <2> QED BY <2>3, <2>4 DEF RunTimesMirror
<1>3. ASSUME NEW j \in JobIds \ Rows
      PROVE  db.runTimes[j] = Absent
    BY <1>0 DEF Rows
<1>4. Sound(db') /\ RunTimesMirror'
    <2>1. CASE db' = db
        BY <2>1 DEF RunTimesMirror
    <2>2. ASSUME NEW j \in JobIds, NEW t \in Times \cup {None}, db' = RedisPut(j, t, UpdatedScore(j, t))
          PROVE  Sound(db') /\ RunTimesMirror'
        BY <1>1, <2>2 DEF UpdatedScore
    <2>3. ASSUME NEW j \in JobIds \ Rows, NEW t \in Times \cup {None},
                 db' = RedisPut(j, t, IF t = None THEN db.runTimes[j] ELSE t)
          PROVE  Sound(db') /\ RunTimesMirror'
        BY <1>1, <1>3, <2>3
    <2> QED BY <1>2, <2>1, <2>2, <2>3 DEF RedisStep
<1> QED BY <1>4 DEF Rows

LEMMA ZkStepInvariant ==
    ASSUME IInv, ZkNext
    PROVE  IInv'
<1>1. ZkStep /\ ensuredPath' \in BOOLEAN
    BY ZkIsStep DEF IInv, Shape
<1>2. kind' = "zookeeper" /\ unread' = {}
    BY DEF ZkNext
<1>3. Sound(db) /\ Sound(Ensured) /\ Sound(ZkEmpty)
    BY EnsuredFields, ZkEmptyFields DEF IInv, Shape, Sound
<1>4. Sound(db')
    BY <1>1, <1>3, PutSound, DeleteSound DEF ZkStep
<1> QED BY <1>1, <1>2, <1>4 DEF IInv, Shape, RunTimesMirror, Kinds

LEMMA NextInvariant == IInv /\ [Next]_vars => IInv'
<1> SUFFICES ASSUME IInv, [Next]_vars PROVE IInv'
    OBVIOUS
<1>1. CASE SqlNext \/ MongoNext \/ RethinkNext
    <2>1. RowStep
        BY <1>1, SqlStep, MongoStep, RethinkStep
    <2>2. kind \in Kinds \ {"redis", "zookeeper"} /\ UNCHANGED <<kind, unread, ensuredPath>>
        BY <1>1 DEF SqlNext, MongoNext, RethinkNext, Kinds
    <2> QED BY <2>1, <2>2, RowStepInvariant
<1>2. CASE RedisNext
    BY <1>2, RedisIsStep, RedisStepInvariant DEF RedisNext
<1>3. CASE ZkNext
    BY <1>3, ZkStepInvariant
<1>4. ASSUME NEW op, RequestFails(op)
      PROVE  IInv'
    BY <1>4 DEF RequestFails, IInv, Shape, RunTimesMirror, Rows
<1>5. CASE ConnectionDrops
    BY <1>5 DEF ConnectionDrops, IInv, Shape, RunTimesMirror, Rows
<1>6. CASE Restart
    <2>1. PICK bad \in SUBSET Rows : db' = [db EXCEPT !.bad = bad]
        BY <1>6 DEF Restart
    <2>2. db \in Database /\ bad \in SUBSET JobIds
        BY <2>1, RowsAreIds DEF IInv, Shape, Sound
    <2>3. db' \in Database /\ db'.jobs = db.jobs /\ db'.bad = bad /\ db'.runTimes = db.runTimes
        BY <2>1, <2>2 DEF Database
    <2> QED BY <1>6, <2>1, <2>3 DEF Restart, IInv, Shape, Sound, RunTimesMirror, Rows
<1>7. CASE UNCHANGED vars
    BY <1>7 DEF vars, IInv, Shape, RunTimesMirror, Rows
<1> QED BY <1>1, <1>2, <1>3, <1>4, <1>5, <1>6, <1>7 DEF Next

LEMMA Invariant == Spec => []IInv
BY InitInvariant, NextInvariant, PTL DEF Spec

\* The database and what the process knows of it are well formed; the jobs that
\* cannot be restored or read are stored ones.
THEOREM Typed == Spec => []TypeOK
<1>1. IInv => TypeOK
    BY DEF IInv, Shape, Sound, TypeOK, Rows, Database
<1> QED BY <1>1, Invariant, PTL

\* The hash and the sorted set of Redis agree, whatever fails between them.
THEOREM SetMirrorsHash == Spec => []RunTimesMirror
BY Invariant, PTL DEF IInv

LEMMA RowStepPath ==
    ASSUME db \in Database, RowStep
    PROVE  db'.path = db.path
<1>1. ASSUME NEW j \in JobIds, NEW t \in Times \cup {None}
      PROVE  Put(db, j, t).path = db.path
    BY PutFields
<1>2. ASSUME NEW D \in SUBSET JobIds
      PROVE  Delete(db, D).path = db.path
    BY DeleteFields
<1> QED BY <1>1, <1>2 DEF RowStep

LEMMA RedisStepPath ==
    ASSUME db \in Database, RedisStep
    PROVE  db'.path = db.path
<1>1. ASSUME NEW j \in JobIds, NEW t \in Times \cup {None}, NEW score \in Times \cup {Absent}
      PROVE  RedisPut(j, t, score).path = db.path
    <2> DEFINE p == Put(db, j, t)
    <2>1. p \in Database
        BY PutFields
    <2>2. p.path = db.path
        BY DEF Put, Database
    <2>3. RedisPut(j, t, score) = [p EXCEPT !.runTimes = [p.runTimes EXCEPT ![j] = score]]
        BY DEF RedisPut
    <2> HIDE DEF p
    <2> QED BY <2>1, <2>2, <2>3 DEF Database
<1>2. ASSUME NEW D \in SUBSET JobIds
      PROVE  RedisDelete(D).path = db.path
    BY RedisDeleteFields
<1>3. ASSUME NEW j \in JobIds, NEW t \in Times \cup {None}
      PROVE  /\ UpdatedScore(j, t) \in Times \cup {Absent}
             /\ (IF t = None THEN db.runTimes[j] ELSE t) \in Times \cup {Absent}
    BY DEF UpdatedScore, Database
<1> QED BY <1>1, <1>2, <1>3 DEF RedisStep

LEMMA ZkKeepsPath ==
    ASSUME IInv, ZkNext, ensuredPath => db.path, ensuredPath', ~db'.path
    PROVE  reply' = Failed("remove_all_jobs")
<1>1. Ensured \in Database /\ Ensured.path
    BY EnsuredFields DEF IInv, Shape, Sound
<1>2. ASSUME NEW D \in SUBSET JobIds
      PROVE  Delete(Ensured, D).path
    BY <1>1, DeleteFields
<1>3. ASSUME NEW j \in JobIds, NEW t \in Times \cup {None}
      PROVE  /\ ~ZkAddJob(j, t) /\ ~ZkUpdateJob(j, t)
             /\ ~ZkRemoveJob(j) /\ ~ZkLookupJob(j)
    <2>1. Put(Ensured, j, t).path /\ Delete(Ensured, {j}).path
        BY <1>1, <1>2, PutFields
    <2> QED BY <1>1, <2>1 DEF ZkAddJob, ZkUpdateJob, ZkRemoveJob, ZkLookupJob, Write
<1>4. ASSUME NEW op, NEW replies
      PROVE  ~ZkGetJobs(op, replies)
    BY <1>1, <1>2, RowsAreIds DEF ZkGetJobs, ZkUnrestored
<1>5. ASSUME NEW op
      PROVE  ~ZkFails(op)
    BY <1>1 DEF ZkFails
<1>6. ZkRemoveAllJobs
    BY <1>3, <1>4, <1>5 DEF ZkNext, ZkGetDueJobs, ZkGetAllJobs, ZkGetNextRunTime
<1> QED BY <1>6 DEF ZkRemoveAllJobs

\* Once ZooKeeperJobStore has seen to the node it keeps its jobs under, the node
\* goes only with a remove_all_jobs that resets _ensured_path or that fails.
THEOREM PathKept == Spec => StorePathKept
<1>1. ASSUME IInv, [Next]_vars
      PROVE  [(ensuredPath => db.path) /\ ~(ensuredPath' => db'.path)
              => reply' = Failed("remove_all_jobs")]_vars
    <2> SUFFICES ASSUME ensuredPath => db.path, ensuredPath', ~db'.path
                 PROVE  reply' = Failed("remove_all_jobs")
        OBVIOUS
    <2>0. db \in Database
        BY <1>1 DEF IInv, Shape, Sound
    <2>1. CASE SqlNext \/ MongoNext \/ RethinkNext
        <3>1. RowStep /\ ensuredPath' = ensuredPath
            BY <2>1, SqlStep, MongoStep, RethinkStep DEF SqlNext, MongoNext, RethinkNext
        <3> QED BY <2>0, <3>1, RowStepPath
    <2>2. CASE RedisNext
        <3>1. RedisStep /\ ensuredPath' = ensuredPath
            BY <2>2, RedisIsStep DEF RedisNext
        <3> QED BY <2>0, <3>1, RedisStepPath
    <2>3. CASE ZkNext
        BY <1>1, <2>3, ZkKeepsPath
    <2>4. ASSUME NEW op, RequestFails(op)
          PROVE  FALSE
        BY <2>4 DEF RequestFails
    <2>5. CASE ConnectionDrops \/ Restart \/ UNCHANGED vars
        BY <2>5 DEF ConnectionDrops, Restart, vars
    <2> QED BY <1>1, <2>1, <2>2, <2>3, <2>4, <2>5 DEF Next
<1> QED BY <1>1, Invariant, PTL DEF Spec, StorePathKept

-----------------------------------------------------------------------------
(* The lists.                                                                *)

LEMMA MinOfNaturals ==
    ASSUME NEW S \in SUBSET Nat, S # {}
    PROVE  Min(S) \in S /\ \A x \in S : Min(S) <= x
<1> DEFINE R == OpToRel(<, Nat)
<1>1. IsWellFoundedOn(R, Nat)
    BY NatLessThanWellFounded
<1> HIDE DEF R
<1>2. PICK m \in S : \A x \in S : <<x, m>> \notin R
    BY <1>1, WFMin, Zenon
<1>3. \A x \in S : ~(x < m)
    <2> SUFFICES ASSUME NEW x \in S, x < m PROVE FALSE
        OBVIOUS
    <2>1. <<x, m>> \in Nat \X Nat
        BY <1>2
    <2>2. <<x, m>> \in R
        BY <2>1 DEF R, OpToRel
    <2> QED BY <2>2, <1>2
<1>4. \A x \in S : m <= x
    BY <1>2, <1>3
<1> QED BY <1>2, <1>4 DEF Min

\* A sequence of a set has each of its elements, once.
LEMMA SeqOfSet ==
    ASSUME NEW S \in SUBSET JobIds, NEW seq \in SetToSeqs(S)
    PROVE  /\ seq \in Seq(S)
           /\ S \subseteq ToSet(seq)
           /\ \A m, n \in DOMAIN seq : m # n => seq[m] # seq[n]
<1> DEFINE N == Cardinality(S)
           D == 1 .. N
<1>1. IsFiniteSet(S) /\ N \in Nat
    BY DatabaseAssumption, FS_Subset, FS_CardinalityType
<1>2. IsFiniteSet(D) /\ Cardinality(D) = N
    BY <1>1, FS_Interval
<1> HIDE DEF N
<1>3. /\ seq \in [D -> S]
      /\ \A i, j \in D : i # j => seq[i] # seq[j]
    BY DEF SetToSeqs, N
<1>4. seq \in Injection(D, S)
    BY <1>3 DEF Injection, IsInjective
<1>5. seq \in Surjection(D, S)
    BY <1>1, <1>2, <1>4, FS_Injection DEF N
<1>6. S \subseteq ToSet(seq)
    BY <1>3, <1>5 DEF Surjection, ToSet
<1> QED BY <1>1, <1>3, <1>6

\* The run times of stored jobs are numbers or None.
LEMMA StoredTimes ==
    ASSUME db \in Database
    PROVE  /\ \A k \in Rows : db.jobs[k] \in Times \cup {None}
           /\ Times \subseteq Nat /\ None \notin Nat /\ Absent \notin Nat \cup {None}
BY DatabaseAssumption DEF Rows, Database, TimeOrNot

\* Sorted with paused jobs last: as JobStore asks.
LEMMA PausedLastLists ==
    ASSUME db \in Database, NEW S \in SUBSET Rows, NEW seq \in PausedLast(S, db.jobs)
    PROVE  Abstract!Lists(seq, S)
<1>1. /\ seq \in Seq(S) /\ S \subseteq ToSet(seq)
      /\ \A m, n \in DOMAIN seq : m # n => seq[m] # seq[n]
    BY SeqOfSet, RowsAreIds DEF PausedLast, Ordered
<1>2. \A m \in DOMAIN seq : m \in Nat /\ seq[m] \in S
    BY <1>1
<1>3. ASSUME NEW m \in DOMAIN seq, NEW n \in DOMAIN seq, m < n
      PROVE  seq[m] # seq[n] /\ Abstract!NoLaterThan(db.jobs[seq[m]], db.jobs[seq[n]])
    <2>1. seq[m] # seq[n]
        BY <1>1, <1>2, <1>3
    <2>2. Abstract!NoLaterThan(db.jobs[seq[m]], db.jobs[seq[n]])
        BY <1>3 DEF PausedLast, Ordered, NoLater, Abstract!NoLaterThan
    <2> QED BY <2>1, <2>2
<1>4. \A m, n \in DOMAIN seq :
          m < n => seq[m] # seq[n] /\ Abstract!NoLaterThan(db.jobs[seq[m]], db.jobs[seq[n]])
    BY <1>3, Zenon
<1> QED BY <1>1, <1>4, Zenon DEF Abstract!Lists, ToSet, Abstract!ToSet

\* The list that _fix_paused_jobs_sorting makes, by position.
LEMMA Rotated ==
    ASSUME NEW S, NEW seq \in Seq(S), NEW i \in 1 .. Len(seq)
    PROVE  LET N == Len(seq)
               r == SubSeq(seq, i, N) \o SubSeq(seq, 1, i - 1)
           IN  /\ r \in Seq(S) /\ Len(r) = N
               /\ \A k \in 1 .. N : r[k] = IF k <= N - i + 1 THEN seq[k + i - 1]
                                          ELSE seq[k - (N - i + 1)]
<1> DEFINE N == Len(seq)
           a == SubSeq(seq, i, N)
           b == SubSeq(seq, 1, i - 1)
<1>1. N \in Nat /\ i \in Nat /\ 1 <= i /\ i <= N /\ \A k \in 1 .. N : seq[k] \in S
    BY ElementOfSeq, LenProperties
<1>2. /\ a \in Seq(S) /\ Len(a) = N - i + 1
      /\ \A k \in 1 .. N - i + 1 : a[k] = seq[i + k - 1]
    BY <1>1, SubSeqProperties
<1>3. /\ b \in Seq(S) /\ Len(b) = i - 1
      /\ \A k \in 1 .. i - 1 : b[k] = seq[1 + k - 1]
    <2>1. 1 \in Int /\ i - 1 \in Int /\ \A k \in 1 .. i - 1 : seq[k] \in S
        BY <1>1
    <2>2. /\ b \in Seq(S) /\ Len(b) = (IF 1 <= i - 1 THEN (i - 1) - 1 + 1 ELSE 0)
          /\ \A k \in 1 .. (i - 1) - 1 + 1 : b[k] = seq[1 + k - 1]
        BY <2>1, SubSeqProperties
    <2> QED BY <1>1, <2>2
<1> HIDE DEF N, a, b
<1>4. /\ a \o b \in Seq(S) /\ Len(a \o b) = Len(a) + Len(b)
      /\ \A k \in 1 .. Len(a) + Len(b) : (a \o b)[k] = IF k <= Len(a) THEN a[k] ELSE b[k - Len(a)]
    BY <1>2, <1>3, ConcatProperties
<1>5. ASSUME NEW k \in 1 .. N
      PROVE  (a \o b)[k] = IF k <= N - i + 1 THEN seq[k + i - 1] ELSE seq[k - (N - i + 1)]
    <2>1. CASE k <= N - i + 1
        BY <1>1, <1>2, <1>3, <1>4, <2>1
    <2>2. CASE ~(k <= N - i + 1)
        <3> DEFINE l == k - (N - i + 1)
        <3>1. l \in 1 .. i - 1 /\ 1 + l - 1 = l
            BY <1>1, <2>2
        <3>2. (a \o b)[k] = b[l]
            BY <1>1, <1>2, <1>3, <1>4, <2>2
        <3> QED BY <1>3, <2>2, <3>1, <3>2
    <2> QED BY <2>1, <2>2
<1>6. Len(a \o b) = N
    BY <1>1, <1>2, <1>3, <1>4
<1> QED BY <1>4, <1>5, <1>6 DEF N, a, b

\* Paused jobs first, or last, and rotated: as JobStore asks.
LEMMA FixedLists ==
    ASSUME db \in Database, NEW S \in SUBSET Rows,
           NEW seq \in PausedFirst(S, db.jobs) \cup PausedLast(S, db.jobs)
    PROVE  Abstract!Lists(FixPausedSorting(seq), S)
<1> DEFINE N == Len(seq)
           runs == {n \in DOMAIN seq : db.jobs[seq[n]] # None}
           i == Min(runs)
<1>1. /\ seq \in Seq(S) /\ S \subseteq ToSet(seq)
      /\ \A m, n \in DOMAIN seq : m # n => seq[m] # seq[n]
    BY SeqOfSet, RowsAreIds DEF PausedFirst, PausedLast, Ordered
<1>2. N \in Nat /\ DOMAIN seq = 1 .. N /\ \A k \in 1 .. N : seq[k] \in S
    BY <1>1, LenProperties, ElementOfSeq
<1>3. CASE runs = {}
    <2>1. \A k \in DOMAIN seq : db.jobs[seq[k]] = None
        BY <1>3
    <2>2. seq \in PausedLast(S, db.jobs)
        BY <2>1 DEF PausedFirst, PausedLast
    <2>3. FixPausedSorting(seq) = seq
        BY <1>3 DEF FixPausedSorting
    <2> QED BY <2>2, <2>3, PausedLastLists
<1>4. CASE runs # {}
    <2>1. i \in runs /\ \A x \in runs : i <= x
        <3>1. runs \in SUBSET Nat
            BY <1>2
        <3> QED BY <1>4, <3>1, MinOfNaturals
    <2> HIDE DEF i
    <2>2. i \in 1 .. N /\ db.jobs[seq[i]] # None /\ \A k \in 1 .. N : k < i => db.jobs[seq[k]] = None
        <3> HIDE DEF N
        <3> QED BY <1>2, <2>1
    <2> DEFINE r == SubSeq(seq, i, N) \o SubSeq(seq, 1, i - 1)
               h(k) == IF k <= N - i + 1 THEN k + i - 1 ELSE k - (N - i + 1)
    <2>3. FixPausedSorting(seq) = r
        BY <1>4 DEF FixPausedSorting, i
    <2> HIDE DEF runs
    <2>4. /\ r \in Seq(S) /\ Len(r) = N /\ DOMAIN r = 1 .. N
          /\ \A k \in 1 .. N : r[k] = seq[h(k)]
        <3>1. /\ r \in Seq(S) /\ Len(r) = N
              /\ \A k \in 1 .. N : r[k] = seq[h(k)]
            BY <1>1, <2>2, Rotated
        <3> QED BY <3>1, LenProperties
    <2> HIDE DEF r, N
    <2>5. \A k \in 1 .. N : h(k) \in 1 .. N
        BY <1>2, <2>2
    <2>6. S \subseteq ToSet(r)
        <3> SUFFICES ASSUME NEW x \in S PROVE \E k \in 1 .. N : r[k] = x
            BY <2>4 DEF ToSet
        <3>1. PICK n \in 1 .. N : seq[n] = x
            BY <1>1, <1>2 DEF ToSet
        <3>2. CASE n >= i
            <4>1. n - i + 1 \in 1 .. N /\ h(n - i + 1) = n
                BY <1>2, <2>2, <3>2
            <4> QED BY <2>4, <3>1, <4>1
        <3>3. CASE n < i
            <4>1. n + (N - i + 1) \in 1 .. N /\ h(n + (N - i + 1)) = n
                BY <1>2, <2>2, <3>3
            <4> QED BY <2>4, <3>1, <4>1
        <3> QED BY <1>2, <2>2, <3>2, <3>3
    <2>7. ASSUME NEW m \in 1 .. N, NEW n \in 1 .. N, m < n
          PROVE  r[m] # r[n] /\ Abstract!NoLaterThan(db.jobs[r[m]], db.jobs[r[n]])
        <3>1. h(m) # h(n) /\ h(m) \in 1 .. N /\ h(n) \in 1 .. N
            BY <1>2, <2>2, <2>7
        <3>2. r[m] # r[n]
            BY <1>1, <1>2, <2>4, <3>1
        <3>3. Abstract!NoLaterThan(db.jobs[r[m]], db.jobs[r[n]])
            <4>1. CASE h(n) < i
                <5>1. db.jobs[r[n]] = None
                    BY <2>2, <2>4, <3>1, <4>1
                <5> QED BY <5>1 DEF Abstract!NoLaterThan
            <4>2. CASE ~(h(n) < i)
                <5>1. h(m) < h(n) /\ i <= h(m)
                    BY <1>2, <2>2, <2>7, <4>2
                <5> HIDE DEF h
                <5>2. \A p, q \in 1 .. N : p < q => NoLater(db.jobs[seq[p]], db.jobs[seq[q]])
                    BY <1>2 DEF PausedFirst, PausedLast, Ordered
                <5>3. \/ \A p, q \in 1 .. N : p < q /\ db.jobs[seq[q]] = None => db.jobs[seq[p]] = None
                      \/ \A p, q \in 1 .. N : p < q /\ db.jobs[seq[p]] = None => db.jobs[seq[q]] = None
                    BY <1>2 DEF PausedFirst, PausedLast
                <5>4. db.jobs[seq[h(m)]] = None => db.jobs[seq[h(n)]] = None
                    BY <1>2, <2>2, <3>1, <5>1, <5>3
                <5> QED BY <2>4, <3>1, <5>1, <5>2, <5>4 DEF NoLater, Abstract!NoLaterThan
            <4> QED BY <4>1, <4>2
        <3> QED BY <3>2, <3>3
    <2>8. \A m, n \in DOMAIN r : m < n => r[m] # r[n] /\ Abstract!NoLaterThan(db.jobs[r[m]], db.jobs[r[n]])
        BY <2>4, <2>7, Zenon
    <2>9. Abstract!Lists(r, S)
        BY <2>4, <2>6, <2>8, Zenon DEF Abstract!Lists, ToSet, Abstract!ToSet
    <2> QED BY <2>3, <2>9
<1> QED BY <1>3, <1>4

-----------------------------------------------------------------------------
(* Each operation, by what it makes of the jobs, is one of JobStore's.       *)

LEMMA AddRefines ==
    ASSUME NEW j \in JobIds, NEW t \in Times \cup {None}, j \notin Rows,
           db'.jobs = [db.jobs EXCEPT ![j] = t], reply' \in {Nothing, Failed("add_job")}
    PROVE  Abstract!Next
<1>1. Abstract!AddJob(j, t)
    BY DEF Abstract!AddJob, Abstract!Answer, Abstract!Stored, Rows, Nothing, Failed,
           Abstract!Nothing, Abstract!Failed
<1> QED BY <1>1 DEF Abstract!Next

LEMMA ConflictRefines ==
    ASSUME NEW j \in Rows, NEW t \in Times \cup {None},
           db'.jobs = db.jobs, reply' = Error("ConflictingIdError")
    PROVE  Abstract!Next
<1>1. j \in JobIds /\ Abstract!AddJob(j, t)
    BY DEF Abstract!AddJob, Abstract!Raises, Abstract!Stored, Rows, Error, Abstract!Error
<1> QED BY <1>1 DEF Abstract!Next

LEMMA UpdateRefines ==
    ASSUME NEW j \in Rows, NEW t \in Times \cup {None},
           db'.jobs = [db.jobs EXCEPT ![j] = t], reply' \in {Nothing, Failed("update_job")}
    PROVE  Abstract!Next
<1>1. j \in JobIds /\ Abstract!UpdateJob(j, t)
    BY DEF Abstract!UpdateJob, Abstract!Answer, Abstract!Stored, Rows, Nothing, Failed,
           Abstract!Nothing, Abstract!Failed
<1> QED BY <1>1 DEF Abstract!Next

LEMMA UnknownRefines ==
    ASSUME NEW j \in JobIds, j \notin Rows, db'.jobs = db.jobs, reply' = Error("JobLookupError")
    PROVE  Abstract!Next
<1>1. Abstract!RemoveJob(j)
    BY DEF Abstract!RemoveJob, Abstract!Raises, Abstract!Stored, Rows, Error, Abstract!Error
<1> QED BY <1>1 DEF Abstract!Next

LEMMA RemoveRefines ==
    ASSUME NEW j \in Rows, reply' \in {Nothing, Failed("remove_job")},
           db'.jobs = [k \in JobIds |-> IF k \in {j} THEN Absent ELSE db.jobs[k]]
    PROVE  Abstract!Next
<1>1. j \in JobIds /\ Abstract!RemoveJob(j)
    BY DEF Abstract!RemoveJob, Abstract!Answer, Abstract!Delete, Abstract!Stored, Rows, Nothing,
           Failed, Abstract!Nothing, Abstract!Failed
<1> QED BY <1>1 DEF Abstract!Next

LEMMA RemoveSomeRefines ==
    ASSUME NEW D \in SUBSET JobIds,
           db'.jobs = [k \in JobIds |-> IF k \in D THEN Absent ELSE db.jobs[k]],
           \/ reply' = Failed("remove_all_jobs")
           \/ reply' = Nothing /\ D = JobIds
    PROVE  Abstract!Next
<1>1. CASE reply' = Nothing /\ D = JobIds
    BY <1>1 DEF Abstract!Next, Abstract!RemoveAllJobs, Abstract!Delete, Nothing, Abstract!Nothing
<1>2. CASE reply' = Failed("remove_all_jobs")
    BY <1>2 DEF Abstract!Next, Abstract!RemoveSomeJobs, Abstract!Delete, Failed, Abstract!Failed
<1> QED BY <1>1, <1>2

Unreadable == db.bad \cup unread

LEMMA DueRefines ==
    ASSUME NEW now \in Times, NEW gone \in SUBSET Unreadable, NEW seq,
           db'.jobs = [k \in JobIds |-> IF k \in gone THEN Absent ELSE db.jobs[k]],
           \/ reply' = Failed("get_due_jobs")
           \/ /\ reply' = Jobs(seq)
              /\ Abstract!Lists(seq, {j \in Active : db.jobs[j] <= now} \ Unreadable)
    PROVE  Abstract!Next
<1>1. Abstract!GetDueJobs(now)
    BY DEF Abstract!GetDueJobs, Abstract!Return, Abstract!Active, Abstract!Stored, Active, Rows,
           Abstract!Delete, Failed, Abstract!Failed, Jobs, Abstract!Jobs, Unreadable
<1> QED BY <1>1 DEF Abstract!Next

LEMMA AllRefines ==
    ASSUME NEW gone \in SUBSET Unreadable, NEW seq,
           db'.jobs = [k \in JobIds |-> IF k \in gone THEN Absent ELSE db.jobs[k]],
           \/ reply' = Failed("get_all_jobs")
           \/ reply' = Jobs(seq) /\ Abstract!Lists(seq, Rows \ Unreadable)
    PROVE  Abstract!Next
<1>1. Abstract!GetAllJobs
    BY DEF Abstract!GetAllJobs, Abstract!Return, Abstract!Stored, Rows, Abstract!Delete,
           Failed, Abstract!Failed, Jobs, Abstract!Jobs, Unreadable
<1> QED BY <1>1 DEF Abstract!Next

LEMMA NextRunTimeRefines ==
    ASSUME NEW gone \in SUBSET Unreadable, NEW times, times = {db.jobs[j] : j \in Active \ gone},
           db'.jobs = [k \in JobIds |-> IF k \in gone THEN Absent ELSE db.jobs[k]],
           \/ reply' = Failed("get_next_run_time")
           \/ reply' = RunTime(MinOrNone(times))
    PROVE  Abstract!Next
<1>1. Abstract!GetNextRunTime
    BY DEF Abstract!GetNextRunTime, Abstract!Answer, Abstract!Active, Abstract!Stored, Active, Rows,
           Abstract!Delete, Failed, Abstract!Failed, RunTime, Abstract!RunTime, Unreadable,
           MinOrNone, Min, Abstract!Min
<1> QED BY <1>1 DEF Abstract!Next

LEMMA LookupRefines ==
    ASSUME NEW j \in JobIds, db'.jobs = db.jobs,
           reply' = RunTime(IF j \in Unreadable THEN Absent ELSE db.jobs[j])
    PROVE  Abstract!Next
<1>1. Abstract!LookupJob(j)
    BY DEF Abstract!LookupJob, RunTime, Abstract!RunTime, Unreadable
<1> QED BY <1>1 DEF Abstract!Next

LEMMA FailsRefines ==
    ASSUME NEW op \in Reads \cup Writes \cup {"remove_all_jobs"},
           db'.jobs = db.jobs, reply' = Failed(op)
    PROVE  Abstract!Next
<1>1. op \in Abstract!Operations /\ Abstract!Fails(op)
    BY DEF Reads, Writes, Abstract!Operations, Abstract!Fails, Failed, Abstract!Failed
<1> QED BY <1>1 DEF Abstract!Next

\* Without paused jobs both orders are one.
LEMMA ActiveOrders ==
    ASSUME NEW S \in SUBSET Active, NEW seq \in PausedFirst(S, db.jobs)
    PROVE  seq \in PausedLast(S, db.jobs)
<1>1. S \subseteq JobIds
    BY RowsAreIds
<1>2. \A n \in DOMAIN seq : seq[n] \in S
    BY <1>1, SeqOfSet DEF PausedFirst, Ordered
<1> QED BY <1>2 DEF PausedFirst, PausedLast, Active

\* What every operation of a store of rows or documents comes down to.
LEMMA RowWrites ==
    ASSUME IInv, NEW j \in JobIds, NEW t \in Times \cup {None}
    PROVE  /\ j \notin Rows /\ Write("add_job", Put(db, j, t), Nothing) => Abstract!Next
           /\ j \in Rows /\ Raise("ConflictingIdError") => Abstract!Next
           /\ j \in Rows /\ Write("update_job", Put(db, j, t), Nothing) => Abstract!Next
           /\ j \notin Rows /\ Raise("JobLookupError") => Abstract!Next
           /\ j \in Rows /\ Write("remove_job", Delete(db, {j}), Nothing) => Abstract!Next
<1>1. db \in Database
    BY DEF IInv, Shape, Sound
<1>2. Put(db, j, t).jobs = [db.jobs EXCEPT ![j] = t]
    BY <1>1, PutFields
<1>3. Delete(db, {j}).jobs = [k \in JobIds |-> IF k \in {j} THEN Absent ELSE db.jobs[k]]
    BY <1>1, DeleteFields
<1>4. j \notin Rows /\ Write("add_job", Put(db, j, t), Nothing) => Abstract!Next
    BY <1>2, AddRefines DEF Write
<1>5. j \in Rows /\ Raise("ConflictingIdError") => Abstract!Next
    BY ConflictRefines DEF Raise
<1>6. j \in Rows /\ Write("update_job", Put(db, j, t), Nothing) => Abstract!Next
    BY <1>2, UpdateRefines DEF Write
<1>7. j \notin Rows /\ Raise("JobLookupError") => Abstract!Next
    BY UnknownRefines DEF Raise
<1>8. j \in Rows /\ Write("remove_job", Delete(db, {j}), Nothing) => Abstract!Next
    BY <1>3, RemoveRefines DEF Write
<1> QED BY <1>4, <1>5, <1>6, <1>7, <1>8

LEMMA RowRemoveAll ==
    ASSUME IInv,
           \/ Write("remove_all_jobs", Delete(db, JobIds), Nothing)
           \/ Interrupted("remove_all_jobs", SUBSET Rows)
    PROVE  Abstract!Next
<1>1. db \in Database
    BY DEF IInv, Shape, Sound
<1>2. PICK D \in SUBSET JobIds :
          /\ db' = Delete(db, D)
          /\ \/ reply' = Failed("remove_all_jobs")
             \/ reply' = Nothing /\ D = JobIds
    BY RowsAreIds DEF Write, Interrupted
<1>3. db'.jobs = [k \in JobIds |-> IF k \in D THEN Absent ELSE db.jobs[k]]
    BY <1>1, <1>2, DeleteFields
<1> QED BY <1>2, <1>3, RemoveSomeRefines

LEMMA RowLookup ==
    ASSUME IInv, kind # "zookeeper", NEW j \in JobIds, j \notin db.bad,
           Write("lookup_job", db, RunTime(db.jobs[j]))
    PROVE  Abstract!Next
<1>1. j \notin Unreadable
    BY DEF IInv, Shape, Unreadable
<1>2. CASE reply' = RunTime(db.jobs[j])
    BY <1>1, <1>2, LookupRefines DEF Write
<1>3. CASE reply' = Failed("lookup_job")
    BY <1>3, FailsRefines DEF Write, Reads
<1> QED BY <1>2, <1>3 DEF Write

LEMMA RowNextRunTime ==
    ASSUME Write("get_next_run_time", db, RunTime(MinOrNone({db.jobs[j] : j \in Active}))), IInv
    PROVE  Abstract!Next
<1>1. db'.jobs = [k \in JobIds |-> IF k \in {} THEN Absent ELSE db.jobs[k]]
    BY DEF Write, IInv, Shape, Sound, Database
<1>2. {} \in SUBSET Unreadable /\ {db.jobs[j] : j \in Active} = {db.jobs[j] : j \in Active \ {}}
    OBVIOUS
<1> QED BY <1>1, <1>2, NextRunTimeRefines DEF Write

LEMMA RowDue ==
    ASSUME IInv, kind # "zookeeper", NEW now \in Times, NEW due,
           due = {j \in Active : db.jobs[j] <= now}, NEW D \in SUBSET (due \cap db.bad),
           db' = Delete(db, D),
           \/ reply' = Failed("get_due_jobs")
           \/ \E seq \in PausedFirst(due \ db.bad, db.jobs) \cup PausedLast(due \ db.bad, db.jobs) :
                 reply' = Jobs(seq)
    PROVE  Abstract!Next
<1>1. db \in Database /\ Unreadable = db.bad /\ db.bad \subseteq JobIds
    BY DEF IInv, Shape, Sound, Database, Unreadable
<1>2. db'.jobs = [k \in JobIds |-> IF k \in D THEN Absent ELSE db.jobs[k]]
    BY <1>1, DeleteFields
<1>3. CASE reply' = Failed("get_due_jobs")
    BY <1>1, <1>2, <1>3, DueRefines
<1>4. ASSUME NEW seq \in PausedFirst(due \ db.bad, db.jobs) \cup PausedLast(due \ db.bad, db.jobs),
             reply' = Jobs(seq)
      PROVE  Abstract!Next
    <2>1. due \ db.bad \in SUBSET Active /\ due \ db.bad \in SUBSET Rows
        BY DEF Active
    <2>2. seq \in PausedLast(due \ db.bad, db.jobs)
        BY <2>1, <1>4, ActiveOrders
    <2>3. Abstract!Lists(seq, due \ db.bad)
        BY <1>1, <2>1, <2>2, PausedLastLists
    <2> QED BY <1>1, <1>2, <1>4, <2>3, DueRefines
<1> QED BY <1>3, <1>4

LEMMA RowAll ==
    ASSUME IInv, kind # "zookeeper", NEW D \in SUBSET (Rows \cap db.bad), db' = Delete(db, D),
           \/ reply' = Failed("get_all_jobs")
           \/ \E seq \in PausedFirst(Rows \ db.bad, db.jobs) \cup PausedLast(Rows \ db.bad, db.jobs) :
                 reply' = Jobs(FixPausedSorting(seq))
    PROVE  Abstract!Next
<1>1. db \in Database /\ Unreadable = db.bad /\ db.bad \subseteq JobIds
    BY DEF IInv, Shape, Sound, Database, Unreadable
<1>2. db'.jobs = [k \in JobIds |-> IF k \in D THEN Absent ELSE db.jobs[k]]
    BY <1>1, DeleteFields
<1>3. CASE reply' = Failed("get_all_jobs")
    BY <1>1, <1>2, <1>3, AllRefines
<1>4. ASSUME NEW seq \in PausedFirst(Rows \ db.bad, db.jobs) \cup PausedLast(Rows \ db.bad, db.jobs),
             reply' = Jobs(FixPausedSorting(seq))
      PROVE  Abstract!Next
    <2>1. Abstract!Lists(FixPausedSorting(seq), Rows \ db.bad)
        BY <1>1, FixedLists
    <2> QED BY <1>1, <1>2, <1>4, <2>1, AllRefines
<1> QED BY <1>3, <1>4

LEMMA SqlRefines ==
    ASSUME IInv, SqlNext
    PROVE  Abstract!Next
<1> USE DEF SqlNext
<1>1. ASSUME NEW j \in JobIds, NEW t \in Times \cup {None}, SqlAddJob(j, t)
      PROVE  Abstract!Next
    BY <1>1, RowWrites DEF SqlAddJob
<1>2. ASSUME NEW j \in JobIds, NEW t \in Times \cup {None}, SqlUpdateJob(j, t)
      PROVE  Abstract!Next
    BY <1>2, RowWrites DEF SqlUpdateJob
<1>3. ASSUME NEW j \in JobIds, SqlRemoveJob(j)
      PROVE  Abstract!Next
    BY <1>3, RowWrites DEF SqlRemoveJob
<1>4. ASSUME NEW j \in JobIds, SqlLookupJob(j)
      PROVE  Abstract!Next
    BY <1>4, RowLookup DEF SqlLookupJob
<1>5. ASSUME NEW now \in Times, SqlGetDueJobs(now)
      PROVE  Abstract!Next
    <2> DEFINE due == {j \in Active : db.jobs[j] <= now}
    <2>1. PICK D \in SUBSET (due \cap db.bad) :
              /\ db' = Delete(db, D)
              /\ \/ reply' = Failed("get_due_jobs")
                 \/ \E seq \in SqlOrders(due \ db.bad) : reply' = Jobs(seq)
        BY <1>5 DEF SqlGetDueJobs, SqlGetJobs, Write, SqlOrders
    <2> QED BY <2>1, RowDue DEF SqlOrders
<1>6. ASSUME SqlGetAllJobs
      PROVE  Abstract!Next
    <2>1. PICK D \in SUBSET (Rows \cap db.bad) :
              /\ db' = Delete(db, D)
              /\ \/ reply' = Failed("get_all_jobs")
                 \/ \E seq \in SqlOrders(Rows \ db.bad) : reply' = Jobs(FixPausedSorting(seq))
        BY <1>6 DEF SqlGetAllJobs, SqlGetJobs, Write, Fixed, SqlOrders
    <2> QED BY <2>1, RowAll DEF SqlOrders
<1>7. CASE SqlRemoveAllJobs
    BY <1>7, RowRemoveAll DEF SqlRemoveAllJobs
<1>8. CASE SqlGetNextRunTime
    BY <1>8, RowNextRunTime DEF SqlGetNextRunTime
<1> QED BY <1>1, <1>2, <1>3, <1>4, <1>5, <1>6, <1>7, <1>8

LEMMA MongoRefines ==
    ASSUME IInv, MongoNext
    PROVE  Abstract!Next
<1> USE DEF MongoNext
<1>1. ASSUME NEW j \in JobIds, NEW t \in Times \cup {None}, MongoAddJob(j, t)
      PROVE  Abstract!Next
    BY <1>1, RowWrites DEF MongoAddJob
<1>2. ASSUME NEW j \in JobIds, NEW t \in Times \cup {None}, MongoUpdateJob(j, t)
      PROVE  Abstract!Next
    BY <1>2, RowWrites DEF MongoUpdateJob
<1>3. ASSUME NEW j \in JobIds, MongoRemoveJob(j)
      PROVE  Abstract!Next
    BY <1>3, RowWrites DEF MongoRemoveJob
<1>4. ASSUME NEW j \in JobIds, MongoLookupJob(j)
      PROVE  Abstract!Next
    BY <1>4, RowLookup DEF MongoLookupJob
<1>5. ASSUME NEW now \in Times, MongoGetDueJobs(now)
      PROVE  Abstract!Next
    <2> DEFINE due == {j \in Active : db.jobs[j] <= now}
    <2>1. PICK D \in SUBSET (due \cap db.bad) :
              /\ db' = Delete(db, D)
              /\ \/ reply' = Failed("get_due_jobs")
                 \/ \E seq \in PausedFirst(due \ db.bad, db.jobs) : reply' = Jobs(seq)
        BY <1>5 DEF MongoGetDueJobs, MongoGetJobs, Write, Interrupted
    <2> QED BY <2>1, RowDue
<1>6. ASSUME MongoGetAllJobs
      PROVE  Abstract!Next
    <2>1. PICK D \in SUBSET (Rows \cap db.bad) :
              /\ db' = Delete(db, D)
              /\ \/ reply' = Failed("get_all_jobs")
                 \/ \E seq \in PausedFirst(Rows \ db.bad, db.jobs) : reply' = Jobs(FixPausedSorting(seq))
        BY <1>6 DEF MongoGetAllJobs, MongoGetJobs, Write, Fixed, Interrupted
    <2> QED BY <2>1, RowAll
<1>7. CASE MongoRemoveAllJobs
    BY <1>7, RowRemoveAll DEF MongoRemoveAllJobs
<1>8. CASE MongoGetNextRunTime
    BY <1>8, RowNextRunTime DEF MongoGetNextRunTime
<1> QED BY <1>1, <1>2, <1>3, <1>4, <1>5, <1>6, <1>7, <1>8

LEMMA RethinkRefines ==
    ASSUME IInv, RethinkNext
    PROVE  Abstract!Next
<1> USE DEF RethinkNext
<1>0. ASSUME NEW j
      PROVE  /\ Cardinality({j} \cap Rows) = 0 <=> j \notin Rows
             /\ Cardinality({j} \cap Rows) = 1 <=> j \in Rows
    <2>1. CASE j \in Rows
        <3>1. {j} \cap Rows = {j}
            BY <2>1
        <3>2. Cardinality({j}) = 1
            BY FS_Singleton
        <3> QED BY <2>1, <3>1, <3>2
    <2>2. CASE j \notin Rows
        <3>1. {j} \cap Rows = {}
            BY <2>2
        <3>2. Cardinality({}) = 0
            BY FS_EmptySet
        <3> QED BY <2>2, <3>1, <3>2
    <2> QED BY <2>1, <2>2
<1>1. ASSUME NEW j \in JobIds, NEW t \in Times \cup {None}, RethinkAddJob(j, t)
      PROVE  Abstract!Next
    BY <1>1, RowWrites DEF RethinkAddJob
<1>2. ASSUME NEW j \in JobIds, NEW t \in Times \cup {None}, RethinkUpdateJob(j, t)
      PROVE  Abstract!Next
    BY <1>0, <1>2, RowWrites DEF RethinkUpdateJob
<1>3. ASSUME NEW j \in JobIds, RethinkRemoveJob(j)
      PROVE  Abstract!Next
    BY <1>0, <1>3, RowWrites DEF RethinkRemoveJob
<1>4. ASSUME NEW j \in JobIds, RethinkLookupJob(j)
      PROVE  Abstract!Next
    BY <1>4, RowLookup DEF RethinkLookupJob
<1>5. ASSUME NEW now \in Times, RethinkGetDueJobs(now)
      PROVE  Abstract!Next
    <2> DEFINE due == {j \in Active : db.jobs[j] <= now}
    <2>1. PICK D \in SUBSET (due \cap db.bad) :
              /\ db' = Delete(db, D)
              /\ \/ reply' = Failed("get_due_jobs")
                 \/ \E seq \in PausedFirst(due \ db.bad, db.jobs) : reply' = Jobs(seq)
        BY <1>5 DEF RethinkGetDueJobs, RethinkGetJobs, Write, Interrupted
    <2> QED BY <2>1, RowDue
<1>6. ASSUME RethinkGetAllJobs
      PROVE  Abstract!Next
    <2>1. PICK D \in SUBSET (Rows \cap db.bad) :
              /\ db' = Delete(db, D)
              /\ \/ reply' = Failed("get_all_jobs")
                 \/ \E seq \in PausedFirst(Rows \ db.bad, db.jobs) : reply' = Jobs(FixPausedSorting(seq))
        BY <1>6 DEF RethinkGetAllJobs, RethinkGetJobs, Write, Fixed, Interrupted
    <2> QED BY <2>1, RowAll
<1>7. CASE RethinkRemoveAllJobs
    BY <1>7, RowRemoveAll DEF RethinkRemoveAllJobs
<1>8. CASE RethinkGetNextRunTime
    BY <1>8, RowNextRunTime DEF RethinkGetNextRunTime
<1> QED BY <1>1, <1>2, <1>3, <1>4, <1>5, <1>6, <1>7, <1>8

\* The sorted set has the jobs that are not paused.
LEMMA Scores ==
    ASSUME IInv, kind = "redis"
    PROVE  /\ RedisScores = Active
           /\ \A k \in Active : db.runTimes[k] = db.jobs[k]
BY DEF IInv, RunTimesMirror, RedisScores, Active, Rows, Shape, Sound, Database

LEMMA RedisPutJobs ==
    ASSUME db \in Database, NEW j \in JobIds, NEW t \in Times \cup {None}, NEW score
    PROVE  RedisPut(j, t, score).jobs = [db.jobs EXCEPT ![j] = t]
<1> DEFINE p == Put(db, j, t)
<1>1. p \in Database /\ p.jobs = [db.jobs EXCEPT ![j] = t]
    BY PutFields
<1>2. RedisPut(j, t, score) = [p EXCEPT !.runTimes = [p.runTimes EXCEPT ![j] = score]]
    BY DEF RedisPut
<1> HIDE DEF p
<1> QED BY <1>1, <1>2 DEF Database

LEMMA RedisRefines ==
    ASSUME IInv, RedisNext
    PROVE  Abstract!Next
<1> USE DEF RedisNext
<1>0. /\ db \in Database /\ Unreadable = db.bad /\ db.bad \subseteq Rows /\ Rows \subseteq JobIds
      /\ RedisScores = Active /\ \A k \in Active : db.runTimes[k] = db.jobs[k]
    BY Scores, RowsAreIds DEF IInv, Shape, Sound, Database, Unreadable, Rows
<1>1. ASSUME NEW j \in JobIds, NEW t \in Times \cup {None}, RedisAddJob(j, t)
      PROVE  Abstract!Next
    <2>1. CASE j \in Rows
        BY <1>1, <2>1, RowWrites DEF RedisAddJob
    <2>2. CASE j \notin Rows
        <3> DEFINE score == IF t = None THEN db.runTimes[j] ELSE t
        <3>2. db' = RedisPut(j, t, score) /\ reply' \in {Nothing, Failed("add_job")}
            BY <1>1, <2>2 DEF RedisAddJob, Write
        <3> HIDE DEF score
        <3>3. db'.jobs = [db.jobs EXCEPT ![j] = t]
            BY <1>0, <3>2, RedisPutJobs
        <3> QED BY <2>2, <3>2, <3>3, AddRefines
    <2> QED BY <2>1, <2>2
<1>2. ASSUME NEW j \in JobIds, NEW t \in Times \cup {None}, RedisUpdateJob(j, t)
      PROVE  Abstract!Next
    <2>1. CASE j \notin Rows
        BY <1>2, <2>1, RowWrites DEF RedisUpdateJob
    <2>2. CASE j \in Rows
        <3>2. db' = RedisPut(j, t, UpdatedScore(j, t)) /\ reply' \in {Nothing, Failed("update_job")}
            BY <1>2, <2>2 DEF RedisUpdateJob, Write
        <3>3. db'.jobs = [db.jobs EXCEPT ![j] = t]
            BY <1>0, <3>2, RedisPutJobs
        <3> QED BY <2>2, <3>2, <3>3, UpdateRefines
    <2> QED BY <2>1, <2>2
<1>3. ASSUME NEW j \in JobIds, RedisRemoveJob(j)
      PROVE  Abstract!Next
    <2>1. CASE j \notin Rows
        BY <1>3, <2>1, UnknownRefines DEF RedisRemoveJob, Raise
    <2>2. CASE j \in Rows
        <3>1. db' = RedisDelete({j}) /\ reply' \in {Nothing, Failed("remove_job")}
            BY <1>3, <2>2 DEF RedisRemoveJob, Write
        <3>2. {j} \in SUBSET JobIds
            OBVIOUS
        <3>3. RedisDelete({j}).jobs = [k \in JobIds |-> IF k \in {j} THEN Absent ELSE db.jobs[k]]
            BY <1>0, <3>2, RedisDeleteFields
        <3> QED BY <2>2, <3>1, <3>3, RemoveRefines
    <2> QED BY <2>1, <2>2
<1>4. ASSUME NEW j \in JobIds, RedisLookupJob(j)
      PROVE  Abstract!Next
    BY <1>4, RowLookup DEF RedisLookupJob
<1>5. ASSUME NEW now \in Times, RedisGetDueJobs(now)
      PROVE  Abstract!Next
    <2> DEFINE due == {j \in Active : db.jobs[j] <= now}
               ids == {j \in RedisScores : db.runTimes[j] <= now}
    <2>1. /\ ids = due /\ due \subseteq Active /\ Active \subseteq Rows
          /\ ids \ (Rows \ db.bad) = due \cap db.bad
          /\ ids \cap (Rows \ db.bad) = due \ db.bad
        BY <1>0 DEF Active
    <2> HIDE DEF ids
    <2>2. PICK seq \in Ordered(due \ db.bad, db.runTimes) :
              db' = RedisDelete(due \cap db.bad) /\ reply' \in {Jobs(seq), Failed("get_due_jobs")}
        BY <1>5, <2>1 DEF RedisGetDueJobs, RedisReconstituteJobs, Write, ids
    <2>3. \A n \in DOMAIN seq : seq[n] \in due
        BY <1>0, <2>1, <2>2, SeqOfSet DEF Ordered
    <2>4. seq \in PausedLast(due \ db.bad, db.jobs)
        BY <1>0, <2>1, <2>2, <2>3 DEF Ordered, PausedLast, Active
    <2>5. Abstract!Lists(seq, due \ db.bad)
        BY <1>0, <2>1, <2>4, PausedLastLists
    <2>6. db'.jobs = [k \in JobIds |-> IF k \in due \cap db.bad THEN Absent ELSE db.jobs[k]]
        BY <1>0, <2>1, <2>2, RedisDeleteFields
    <2> QED BY <1>0, <2>2, <2>5, <2>6, DueRefines
<1>6. ASSUME RedisGetAllJobs
      PROVE  Abstract!Next
    <2>1. Rows \ (Rows \ db.bad) = db.bad
        BY <1>0
    <2>2. PICK seq \in PausedLast(Rows \ db.bad, db.jobs) :
              db' = RedisDelete(db.bad) /\ reply' \in {Jobs(seq), Failed("get_all_jobs")}
        BY <1>6, <2>1 DEF RedisGetAllJobs, RedisReconstituteJobs, Write
    <2>3. Abstract!Lists(seq, Rows \ db.bad)
        BY <1>0, <2>2, PausedLastLists
    <2>4. db'.jobs = [k \in JobIds |-> IF k \in db.bad THEN Absent ELSE db.jobs[k]]
        BY <1>0, <2>2, RedisDeleteFields
    <2> QED BY <1>0, <2>2, <2>3, <2>4, AllRefines
<1>7. CASE RedisRemoveAllJobs
    <2>1. /\ db'.jobs = [k \in JobIds |-> IF k \in JobIds THEN Absent ELSE db.jobs[k]]
          /\ reply' \in {Nothing, Failed("remove_all_jobs")}
        BY <1>0, <1>7, RedisDeleteFields DEF RedisRemoveAllJobs, Write
    <2> QED BY <2>1, RemoveSomeRefines
<1>8. CASE RedisGetNextRunTime
    <2>1. {db.runTimes[j] : j \in RedisScores} = {db.jobs[j] : j \in Active}
        BY <1>0
    <2> QED BY <1>8, <2>1, RowNextRunTime DEF RedisGetNextRunTime
<1> QED BY <1>1, <1>2, <1>3, <1>4, <1>5, <1>6, <1>7, <1>8

LEMMA ZkRefines ==
    ASSUME IInv, ZkNext
    PROVE  Abstract!Next
<1> USE DEF ZkNext
<1>0. /\ Ensured \in Database /\ Ensured.jobs = db.jobs /\ db \in Database
      /\ Rows \subseteq JobIds /\ Active \subseteq Rows
      /\ ZkUnrestored = Unreadable /\ Unreadable \subseteq Rows
    BY EnsuredFields, RowsAreIds DEF IInv, Shape, Sound, ZkUnrestored, Unreadable, Rows, Active, Database
<1> HIDE DEF ZkNext
<1>1. ASSUME NEW j \in JobIds, NEW t \in Times \cup {None}, ZkAddJob(j, t) \/ ZkUpdateJob(j, t)
      PROVE  Abstract!Next
    <2>1. Put(Ensured, j, t).jobs = [db.jobs EXCEPT ![j] = t]
        BY <1>0, PutFields
    <2>2. CASE ZkAddJob(j, t)
        BY <1>0, <2>1, <2>2, AddRefines, ConflictRefines DEF ZkAddJob, Write
    <2>3. CASE ZkUpdateJob(j, t)
        BY <1>0, <2>1, <2>3, UpdateRefines, UnknownRefines DEF ZkUpdateJob, Write
    <2> QED BY <1>1, <2>2, <2>3
<1>2. ASSUME NEW j \in JobIds, ZkRemoveJob(j)
      PROVE  Abstract!Next
    <2>1. Delete(Ensured, {j}).jobs = [k \in JobIds |-> IF k \in {j} THEN Absent ELSE db.jobs[k]]
        BY <1>0, DeleteFields
    <2> QED BY <1>0, <1>2, <2>1, RemoveRefines, UnknownRefines DEF ZkRemoveJob, Write
<1>3. ASSUME NEW j \in JobIds, ZkLookupJob(j)
      PROVE  Abstract!Next
    BY <1>0, <1>3, LookupRefines DEF ZkLookupJob
<1>4. ASSUME NEW op, NEW replies, ZkGetJobs(op, replies)
      PROVE  \E gone \in SUBSET Unreadable :
                /\ db'.jobs = [k \in JobIds |-> IF k \in gone THEN Absent ELSE db.jobs[k]]
                /\ reply' = Failed(op) \/ (gone = Unreadable /\ reply' \in replies)
    <2>1. PICK D \in SUBSET Unreadable :
              /\ db' = Delete(Ensured, D)
              /\ reply' = Failed(op) \/ (D = Unreadable /\ reply' \in replies)
        BY <1>0, <1>4 DEF ZkGetJobs
    <2>2. D \in SUBSET JobIds
        BY <1>0
    <2>3. db'.jobs = [k \in JobIds |-> IF k \in D THEN Absent ELSE db.jobs[k]]
        BY <1>0, <2>1, <2>2, DeleteFields
    <2> QED BY <2>1, <2>3
<1>5. ASSUME NEW now \in Times, ZkGetDueJobs(now)
      PROVE  Abstract!Next
    <2> DEFINE due == {j \in Active : db.jobs[j] <= now}
               lists == PausedLast(due \ Unreadable, db.jobs)
    <2>1. {j \in Active \ ZkUnrestored : db.jobs[j] <= now} = due \ Unreadable
        BY <1>0
    <2>2. ZkGetJobs("get_due_jobs", {Jobs(seq) : seq \in lists})
        BY <1>5, <2>1 DEF ZkGetDueJobs
    <2>3. PICK gone \in SUBSET Unreadable :
              /\ db'.jobs = [k \in JobIds |-> IF k \in gone THEN Absent ELSE db.jobs[k]]
              /\ reply' = Failed("get_due_jobs") \/ reply' \in {Jobs(seq) : seq \in lists}
        BY <1>4, <2>2
    <2>4. ASSUME NEW seq \in lists
          PROVE  Abstract!Lists(seq, due \ Unreadable)
        <3>1. due \ Unreadable \in SUBSET Rows
            BY <1>0
        <3> QED BY <1>0, <3>1, PausedLastLists
    <2>5. CASE reply' = Failed("get_due_jobs")
        BY <2>3, <2>5, DueRefines
    <2>6. ASSUME NEW seq \in lists, reply' = Jobs(seq)
          PROVE  Abstract!Next
        BY <2>3, <2>4, <2>6, DueRefines
    <2> QED BY <2>3, <2>5, <2>6
<1>6. ASSUME ZkGetAllJobs
      PROVE  Abstract!Next
    <2> DEFINE lists == PausedLast(Rows \ Unreadable, db.jobs)
    <2>1. ZkGetJobs("get_all_jobs", {Jobs(seq) : seq \in Fixed(lists)})
        BY <1>0, <1>6 DEF ZkGetAllJobs
    <2>2. PICK gone \in SUBSET Unreadable :
              /\ db'.jobs = [k \in JobIds |-> IF k \in gone THEN Absent ELSE db.jobs[k]]
              /\ reply' = Failed("get_all_jobs") \/ reply' \in {Jobs(seq) : seq \in Fixed(lists)}
        BY <1>4, <2>1
    <2>3. CASE reply' = Failed("get_all_jobs")
        BY <2>2, <2>3, AllRefines
    <2>4. ASSUME NEW seq \in lists, reply' = Jobs(FixPausedSorting(seq))
          PROVE  Abstract!Next
        <3>1. Abstract!Lists(FixPausedSorting(seq), Rows \ Unreadable)
            BY <1>0, FixedLists
        <3> QED BY <2>2, <2>4, <3>1, AllRefines
    <2> QED BY <2>2, <2>3, <2>4 DEF Fixed
<1>7. ASSUME ZkGetNextRunTime
      PROVE  Abstract!Next
    <2> DEFINE times == {db.jobs[j] : j \in Active \ Unreadable}
               replies == {RunTime(MinOrNone(times))}
    <2>1. ZkGetJobs("get_next_run_time", replies)
        BY <1>0, <1>7 DEF ZkGetNextRunTime
    <2> HIDE DEF replies, times
    <2>2. PICK gone \in SUBSET Unreadable :
              /\ db'.jobs = [k \in JobIds |-> IF k \in gone THEN Absent ELSE db.jobs[k]]
              /\ \/ reply' = Failed("get_next_run_time")
                 \/ gone = Unreadable /\ reply' \in replies
        BY <1>4, <2>1
    <2> QED BY <2>2, NextRunTimeRefines DEF replies, times
<1>8. CASE ZkRemoveAllJobs
    <2>1. ZkEmpty.jobs = [k \in JobIds |-> IF k \in JobIds THEN Absent ELSE db.jobs[k]]
        BY <1>0, ZkEmptyFields
    <2>2. CASE db' = ZkEmpty /\ reply' \in {Nothing, Failed("remove_all_jobs")}
        BY <2>1, <2>2, RemoveSomeRefines
    <2>3. ASSUME NEW D \in SUBSET Rows, db' = Delete(db, D), reply' = Failed("remove_all_jobs")
          PROVE  Abstract!Next
        <3>1. D \in SUBSET JobIds
            BY <1>0
        <3>2. db'.jobs = [k \in JobIds |-> IF k \in D THEN Absent ELSE db.jobs[k]]
            BY <1>0, <2>3, <3>1, DeleteFields
        <3> QED BY <2>3, <3>1, <3>2, RemoveSomeRefines
    <2> QED BY <1>8, <2>2, <2>3 DEF ZkRemoveAllJobs
<1>9. ASSUME NEW op \in Reads \cup Writes, ZkFails(op)
      PROVE  Abstract!Next
    BY <1>0, <1>9, FailsRefines DEF ZkFails
<1> QED BY <1>1, <1>2, <1>3, <1>5, <1>6, <1>7, <1>8, <1>9 DEF ZkNext

-----------------------------------------------------------------------------

LEMMA NextRefines == IInv /\ [Next]_vars => [Abstract!Next]_<<db.jobs, reply>>
<1> SUFFICES ASSUME IInv, [Next]_vars PROVE [Abstract!Next]_<<db.jobs, reply>>
    OBVIOUS
<1>1. CASE SqlNext \/ MongoNext \/ RethinkNext \/ RedisNext \/ ZkNext
    BY <1>1, SqlRefines, MongoRefines, RethinkRefines, RedisRefines, ZkRefines
<1>2. ASSUME NEW op \in Reads \cup Writes \cup {"remove_all_jobs"}, RequestFails(op)
      PROVE  Abstract!Next
    BY <1>2, FailsRefines DEF RequestFails
<1>3. CASE ConnectionDrops \/ UNCHANGED vars
    BY <1>3 DEF ConnectionDrops, vars
<1>4. CASE Restart
    <2>1. db'.jobs = db.jobs /\ reply' = reply
        BY <1>4 DEF Restart, IInv, Shape, Sound, Database
    <2> QED BY <2>1
<1> QED BY <1>1, <1>2, <1>3, <1>4 DEF Next

\* SQLAlchemyJobStore, MongoDBJobStore, RethinkDBJobStore, RedisJobStore and
\* ZooKeeperJobStore are job stores: every operation, however its requests fail
\* and whatever jobs cannot be read, is one that JobStore allows.
THEOREM Implements == Spec => ImplementsJobStore
<1>1. Init => Abstract!Init
    BY DEF Init, Abstract!Init, Nothing, Abstract!Nothing
<1> QED BY <1>1, Invariant, NextRefines, PTL DEF Spec, ImplementsJobStore, Abstract!Spec

=============================================================================

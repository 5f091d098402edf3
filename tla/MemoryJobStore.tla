---------------------------- MODULE MemoryJobStore ----------------------------
(***************************************************************************)
(* MemoryJobStore: a list of jobs kept sorted by run time and id through a *)
(* binary search, and an index by id.  The scheduler changes the run time  *)
(* of a job object before it calls update_job with it, so the place of a   *)
(* job is found by the time stamp the store has kept.                      *)
(***************************************************************************)
EXTENDS Integers, Sequences, SequencesExt

CONSTANTS
    JobIds,    \* positive numbers, ordered as the ids are
    Times,
    None,      \* the next_run_time of a paused job
    Absent     \* an id that is not in the index

ASSUME MemoryAssumption ==
    /\ JobIds \subseteq Nat \ {0} /\ Times \subseteq Nat
    /\ None \notin Nat /\ Absent \notin Nat \cup {None}

VARIABLES
    jobs,        \* _jobs: the list of (job, timestamp)
    jobsIndex,   \* _jobs_index: the timestamp under each id
    reply        \* what the last operation returned or raised

vars == <<jobs, jobsIndex, reply>>

TimeStamp == Times \cup {None}

Entry == [id : JobIds, timestamp : TimeStamp]

Init ==
    /\ jobs = <<>>
    /\ jobsIndex = [j \in JobIds |-> Absent]
    /\ reply = <<"none">>

\* None counts as float('inf').
Earlier(t, u) == t # None /\ (u = None \/ t < u)

\* Mutant of Before: paused jobs first.
BeforePausedFirst(t, j, u, k) ==
    (t = None /\ u # None) \/ (t # None /\ u # None /\ t < u) \/ (t = u /\ j < k)

\* Where the time stamp t and the id j stand to u and k.
Before(t, j, u, k) == Earlier(t, u) \/ (t = u /\ j < k)

\* One look of the search for t and j between two positions of the list s,
\* which count from 0; "rest" is what the search finds in a smaller range.
Probe(s, t, j, range, rest) ==
    LET lo  == range[1]
        hi  == range[2]
        mid == (lo + hi) \div 2
        e   == s[mid + 1]
    IN  IF lo >= hi THEN lo
        ELSE IF Before(t, j, e.timestamp, e.id) THEN rest[<<lo, mid>>]
        ELSE IF Before(e.timestamp, e.id, t, j) THEN rest[<<mid + 1, hi>>]
        ELSE mid

Ranges(s) == (0 .. Len(s)) \X (0 .. Len(s))

\* _get_job_index in the list s: where the job is, or where it should go;
\* positions count from 1.
JobIndex(s, t, j) ==
    LET search[range \in Ranges(s)] == Probe(s, t, j, range, search)
    IN  search[<<0, Len(s)>>] + 1

Known(j) == jobsIndex[j] # Absent

Raise(error) == reply' = <<"error", error>> /\ UNCHANGED <<jobs, jobsIndex>>

Done == reply' = <<"none">>

AddJob(j, t) ==
    IF Known(j) THEN Raise("ConflictingIdError")
    ELSE /\ jobs' = InsertAt(jobs, JobIndex(jobs, t, j), [id |-> j, timestamp |-> t])
         /\ jobsIndex' = [jobsIndex EXCEPT ![j] = t]
         /\ Done

\* Mutant of OldIndex: search by the run time the job object has now.
OldIndexOfNew(j, t) == JobIndex(jobs, t, j)

OldIndex(j, t) == JobIndex(jobs, jobsIndex[j], j)

\* The job j with the new run time t: replaced in its place, or moved.
UpdateJob(j, t) ==
    LET entry == [id |-> j, timestamp |-> t]
        old   == OldIndex(j, t)
        rest  == RemoveAt(jobs, old)
    IN  IF ~Known(j) THEN Raise("JobLookupError")
        ELSE /\ jobs' = IF jobsIndex[j] = t THEN ReplaceAt(jobs, old, entry)
                        ELSE InsertAt(rest, JobIndex(rest, t, j), entry)
             /\ jobsIndex' = [jobsIndex EXCEPT ![j] = t]
             /\ Done

RemoveJob(j) ==
    IF ~Known(j) THEN Raise("JobLookupError")
    ELSE /\ jobs' = RemoveAt(jobs, JobIndex(jobs, jobsIndex[j], j))
         /\ jobsIndex' = [jobsIndex EXCEPT ![j] = Absent]
         /\ Done

\* remove_all_jobs, and shutdown.
RemoveAllJobs ==
    /\ jobs' = <<>>
    /\ jobsIndex' = [j \in JobIds |-> Absent]
    /\ Done

Return(kind, value) == reply' = <<kind, value>> /\ UNCHANGED <<jobs, jobsIndex>>

Ids(s) == [n \in DOMAIN s |-> s[n].id]

\* The head of the list up to the first job that is paused or later than now.
GetDueJobs(now) ==
    \E n \in 0 .. Len(jobs) :
        /\ \A m \in 1 .. n : jobs[m].timestamp # None /\ jobs[m].timestamp <= now
        /\ n < Len(jobs) => jobs[n + 1].timestamp = None \/ jobs[n + 1].timestamp > now
        /\ Return("jobs", Ids(SubSeq(jobs, 1, n)))

GetNextRunTime == Return("time", IF jobs = <<>> THEN None ELSE jobs[1].timestamp)

GetAllJobs == Return("jobs", Ids(jobs))

LookupJob(j) == Return("time", jobsIndex[j])

Next ==
    \/ \E j \in JobIds, t \in TimeStamp : AddJob(j, t) \/ UpdateJob(j, t)
    \/ \E j \in JobIds : RemoveJob(j) \/ LookupJob(j)
    \/ \E now \in Times : GetDueJobs(now)
    \/ RemoveAllJobs \/ GetNextRunTime \/ GetAllJobs

Spec == Init /\ [][Next]_vars

-----------------------------------------------------------------------------
(* Properties *)

\* The list is strictly sorted and holds exactly what the index says, so that
\* a binary search by the time stamp of the index finds every job.
ListMatchesIndex ==
    /\ jobs \in Seq(Entry)
    /\ \A n \in 1 .. Len(jobs) - 1 :
          Before(jobs[n].timestamp, jobs[n].id, jobs[n + 1].timestamp, jobs[n + 1].id)
    /\ ToSet(jobs) = {[id |-> j, timestamp |-> jobsIndex[j]] :
                         j \in {k \in JobIds : Known(k)}}

\* A memory store does what a job store promises: every list it returns, read
\* off the head of its own list, is the one the run times ask for.
Abstract == INSTANCE JobStore WITH timeOf <- jobsIndex, unreadable <- {}

ListImplementsJobStore == Abstract!Spec

=============================================================================

------------------------------- MODULE JobStore -------------------------------
(***************************************************************************)
(* What BaseJobStore asks of a job store: jobs by id with a next run time, *)
(* the due ones and all of them in the order of their run times, paused    *)
(* jobs last, and an error for an id that is taken or unknown.  Jobs with  *)
(* the same run time may come in any order.  A persistent store may hold   *)
(* jobs it cannot read: they are left out of the lists, and may be deleted *)
(* on the way.  Its driver may fail: the operation then raised, and was    *)
(* either carried out or not.                                              *)
(***************************************************************************)
EXTENDS Integers, Sequences, SequencesExt

CONSTANTS
    JobIds,
    Times,     \* run times and the times at which due jobs are asked for
    None,      \* no run time: a paused job
    Absent     \* no job under an id

VARIABLES
    timeOf,      \* timeOf[j]: the next_run_time of j, Absent if there is no j
    unreadable,  \* the jobs that cannot be read: a matter of the environment
    reply        \* what the last operation returned or raised

\* The replies of the operations.
Nothing == <<"none">>
Error(name) == <<"error", name>>
Jobs(seq) == <<"jobs", seq>>
RunTime(t) == <<"time", t>>
Failed(op) == <<"failed", op>>

Operations == {"add_job", "update_job", "remove_job", "remove_all_jobs",
               "get_due_jobs", "get_all_jobs", "get_next_run_time", "lookup_job"}

Stored == {j \in JobIds : timeOf[j] # Absent}

Active == {j \in Stored : timeOf[j] # None}

NoLaterThan(t, u) == u = None \/ (t # None /\ t <= u)

\* seq lists the jobs of S, each of them once, in an order of their run times.
Lists(seq, S) ==
    /\ seq \in Seq(S)
    /\ S \subseteq ToSet(seq)
    /\ \A m, n \in DOMAIN seq : m < n => seq[m] # seq[n] /\ NoLaterThan(timeOf[seq[m]], timeOf[seq[n]])

Init == timeOf = [j \in JobIds |-> Absent] /\ reply = Nothing

\* The driver may fail after the operation has been carried out, or before.
Answer(op, r) == reply' \in {r, Failed(op)}

Raises(error) == reply' = Error(error) /\ UNCHANGED timeOf

Delete(S) == timeOf' = [j \in JobIds |-> IF j \in S THEN Absent ELSE timeOf[j]]

AddJob(j, t) ==
    IF j \in Stored THEN Raises("ConflictingIdError")
    ELSE Answer("add_job", Nothing) /\ timeOf' = [timeOf EXCEPT ![j] = t]

UpdateJob(j, t) ==
    IF j \in Stored
    THEN Answer("update_job", Nothing) /\ timeOf' = [timeOf EXCEPT ![j] = t]
    ELSE Raises("JobLookupError")

RemoveJob(j) ==
    IF j \in Stored
    THEN Answer("remove_job", Nothing) /\ Delete({j})
    ELSE Raises("JobLookupError")

RemoveAllJobs == reply' = Nothing /\ Delete(JobIds)

\* remove_all_jobs need not be all or nothing.
RemoveSomeJobs == reply' = Failed("remove_all_jobs") /\ \E S \in SUBSET JobIds : Delete(S)

\* A list of the jobs of S that can be read.
Return(op, S) ==
    /\ \/ reply' = Failed(op)
       \/ /\ reply'[1] = "jobs"
          /\ reply' = Jobs(reply'[2])
          /\ Lists(reply'[2], S \ unreadable)
    /\ \E gone \in SUBSET unreadable : Delete(gone)

GetDueJobs(time) == Return("get_due_jobs", {j \in Active : timeOf[j] <= time})

GetAllJobs == Return("get_all_jobs", Stored)

GetNextRunTime ==
    \E gone \in SUBSET unreadable :
        LET times == {timeOf[j] : j \in Active \ gone}
        IN  /\ Delete(gone)
            /\ Answer("get_next_run_time", RunTime(IF times = {} THEN None ELSE Min(times)))

LookupJob(j) ==
    /\ UNCHANGED timeOf
    /\ \/ reply' = RunTime(timeOf[j])
       \/ j \in unreadable /\ reply' = RunTime(Absent)

\* The operation was not carried out.
Fails(op) == reply' = Failed(op) /\ UNCHANGED timeOf

Next ==
    \/ \E j \in JobIds, t \in Times \cup {None} : AddJob(j, t) \/ UpdateJob(j, t)
    \/ \E j \in JobIds : RemoveJob(j) \/ LookupJob(j)
    \/ \E time \in Times : GetDueJobs(time)
    \/ RemoveAllJobs \/ RemoveSomeJobs \/ GetAllJobs \/ GetNextRunTime
    \/ \E op \in Operations : Fails(op)

Spec == Init /\ [][Next]_<<timeOf, reply>>

=============================================================================

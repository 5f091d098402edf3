----------------------------- MODULE S3JobStore -----------------------------
(***************************************************************************)
(* What one S3JobStore computes from the envelopes it has cached: which    *)
(* jobs target its instance, which of them are due, when the next one is,  *)
(* and what an update writes.  S3Cluster puts several instances with their *)
(* stores around one bucket.                                               *)
(***************************************************************************)
EXTENDS Triggers

CONSTANTS
    Instances,   \* the application instances, each named by its app_id
    JobIds,      \* job identifiers, without the "::target" suffix
    Globs,       \* target patterns with a wildcard, such as "web-*"
    GlobMatch,   \* the instances whose app_id a wildcard pattern matches
    NoEnvelope   \* no object under a key, or a job id that is not in the cache

Targets == Instances \cup Globs

\* An app_id is not a wildcard pattern.
ASSUME TargetsAssumption ==
    /\ Instances \cap Globs = {}
    /\ GlobMatch \in [Globs -> SUBSET Instances]

\* What is stored under <prefix>/jobs/<id>.pkl.  Of the job state only the
\* schedule is kept.  "first" is not in the object: it remembers the run time
\* from which the schedule has been followed without a client changing it.
Envelope ==
    [target   : Targets,
     creator  : Instances,
     trigger  : Trigger,
     coalesce : BOOLEAN,
     nrt      : TimeOrNone,
     first    : TimeOrNone]

ASSUME NoEnvelopeAssumption == NoEnvelope \notin Envelope

Slot == Envelope \cup {NoEnvelope}

-----------------------------------------------------------------------------
(* Target routing *)

JobTargetsMe(i, target) ==
    IF target \in Globs THEN i \in GlobMatch[target] ELSE i = target

IsBroadcast(e) == e.target \in Globs

\* update_job writes to S3 unless this is a broadcast job of someone else.
MayWrite(i, e) == ~IsBroadcast(e) \/ e.creator = i

-----------------------------------------------------------------------------
(* Due jobs *)

\* The latest fire time of a broadcast job that is not after "now", from the
\* trigger when it is an interval, else the next_run_time found in S3.
CurrentFire(e, now) ==
    IF IsInterval(e.trigger)
    THEN e.trigger.start
           + e.trigger.length * ((now - e.trigger.start) \div e.trigger.length)
    ELSE e.nrt

\* Mutant of BroadcastDue: get_due_jobs without _last_executed.
AnyTimeDue(e, lastExecuted, now) ==
    /\ IsInterval(e.trigger) => now >= e.trigger.start
    /\ CurrentFire(e, now) <= now

\* lastExecuted is the newest fire time this process has already returned.
BroadcastDue(e, lastExecuted, now) ==
    /\ IsInterval(e.trigger) => now >= e.trigger.start
    /\ lastExecuted # None => CurrentFire(e, now) > lastExecuted
    /\ CurrentFire(e, now) <= now

\* The fire time at which get_due_jobs returns the job, None if it does not.
DueFire(i, e, lastExecuted, now) ==
    IF e = NoEnvelope THEN None
    ELSE IF e.nrt = None \/ ~JobTargetsMe(i, e.target) THEN None
    ELSE IF IsBroadcast(e)
         THEN IF BroadcastDue(e, lastExecuted, now) THEN CurrentFire(e, now) ELSE None
         ELSE IF e.nrt <= now THEN e.nrt ELSE None

\* The cached jobs that get_next_run_time looks at.
Scheduled(i, slots) ==
    {j \in JobIds : /\ slots[j] # NoEnvelope
                    /\ JobTargetsMe(i, slots[j].target)
                    /\ slots[j].nrt # None}

NextRunTime(i, slots) == Earliest({slots[j].nrt : j \in Scheduled(i, slots)})

-----------------------------------------------------------------------------
(* What clients of the scheduler make of a job *)

\* A schedule started by a client at time "now".
Fresh(trigger, now) == NextFireTime(trigger, None, now)

Rescheduled(e, trigger, now) ==
    [e EXCEPT !.trigger = trigger,
              !.nrt     = Fresh(trigger, now),
              !.first   = Fresh(trigger, now)]

Paused(e) == [e EXCEPT !.nrt = None, !.first = None]

NewEnvelope(i, target, trigger, coalesce, now) ==
    [target   |-> target,
     creator  |-> i,
     trigger  |-> trigger,
     coalesce |-> coalesce,
     nrt      |-> Fresh(trigger, now),
     first    |-> Fresh(trigger, now)]

\* Mutant of Advanced: the cache is updated before it is compared.
AdvancedLate(old, new) == new.nrt # None /\ new.nrt > new.nrt

\* update_job took a later next_run_time than the cached one: it writes a receipt.
Advanced(old, new) == old.nrt # None /\ new.nrt # None /\ new.nrt > old.nrt

=============================================================================

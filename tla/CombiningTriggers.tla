------------------------- MODULE CombiningTriggers --------------------------
(***************************************************************************)
(* AndTrigger and OrTrigger.  A scheduler asks an AndTrigger for its first *)
(* fire time and then, each time the job has run, for the one after.  The  *)
(* answer is a loop of questions to the triggers it combines, which can be *)
(* OrTriggers; an OrTrigger asks each of its triggers once.  Jitter is     *)
(* left out.                                                               *)
(***************************************************************************)
EXTENDS Triggers

CONSTANTS
    Combinations,   \* the sets of triggers, none empty, that an AndTrigger combines
    MaxTime         \* bound of the clock

VARIABLES
    triggers,   \* the triggers that the AndTrigger combines
    previous,   \* previous_fire_time, or None
    now,        \* the local variable of get_next_fire_time
    answer      \* the fire time returned, None, or Searching

vars == <<triggers, previous, now, answer>>

Searching == -2

\* OrTrigger.get_next_fire_time: the earliest fire time of any of the triggers.
OrNext(any, before, time) ==
    Earliest({NextFireTime(trigger, before, time) : trigger \in any} \ {None})

FireTime(trigger, before, time) ==
    IF trigger.kind = "or"
    THEN OrNext(trigger.any, before, time)
    ELSE NextFireTime(trigger, before, time)

FireTimes == {FireTime(trigger, previous, now) : trigger \in triggers}

Init ==
    /\ triggers \in Combinations
    /\ previous = None
    /\ now \in 0 .. MaxTime
    /\ answer = Searching

\* One of the schedules is over.
Finish ==
    /\ answer = Searching
    /\ None \in FireTimes
    /\ answer' = None
    /\ UNCHANGED <<triggers, previous, now>>

Agree ==
    /\ answer = Searching
    /\ None \notin FireTimes
    /\ Min(FireTimes) = Max(FireTimes)
    /\ answer' = Max(FireTimes)
    /\ UNCHANGED <<triggers, previous, now>>

\* Otherwise they are asked again, for the latest of their fire times.  When
\* they give the same times again, this is a turn of the loop that changes no
\* variable: every further turn is the same, a stuttering step for ever.
Disagree ==
    /\ answer = Searching
    /\ None \notin FireTimes
    /\ Min(FireTimes) # Max(FireTimes)
    /\ now' = Max(FireTimes)
    /\ UNCHANGED <<triggers, previous, answer>>

\* The job runs at the fire time it was given, or later, and the scheduler asks
\* for the next one.
AskNext ==
    /\ answer \in Time
    /\ \E time \in answer .. MaxTime : now' = time
    /\ previous' = answer
    /\ answer' = Searching
    /\ UNCHANGED triggers

Search == Finish \/ Agree \/ Disagree

Next == Search \/ AskNext

\* The loop goes on; nobody needs to ask.
Spec == Init /\ [][Next]_vars /\ WF_vars(Search)

----------------------------------------------------------------------------
\* An AndTrigger that is asked for a fire time answers.
AndTriggerAnswers == [](answer = Searching => <>(answer # Searching))

=============================================================================

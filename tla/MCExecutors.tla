------------------------------ MODULE MCExecutors ------------------------------
(***************************************************************************)
(* A small executor for TLC: a job with one instance, one with two whose   *)
(* function is a coroutine function, and submissions of one or two runs.   *)
(***************************************************************************)
EXTENDS Executors

CONSTANTS j1, j2, f1, f2

MCMaxInstances == [j \in JobIds |-> IF j = j1 THEN 1 ELSE 2]

MCRunTimes == [f \in Futures |-> IF f = f2 THEN 2 ELSE 1]

\* The second submission is of either job, with another one of the same job.
MCSubmissions ==
    {[f \in Futures |-> IF f = f1 THEN j1 ELSE j2],
     [f \in Futures |-> IF f \in {f1, f2} THEN j1 ELSE j2],
     [f \in Futures |-> j2]}

=============================================================================

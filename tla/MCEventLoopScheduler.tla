------------------------ MODULE MCEventLoopScheduler ------------------------
(***************************************************************************)
(* Small schedulers for TLC: a job that goes on and a job that ends.       *)
(***************************************************************************)
EXTENDS EventLoopScheduler

CONSTANTS j1, j2

EverySecondTick == [kind |-> "interval", start |-> 1, length |-> 2, end |-> None]
Once == [kind |-> "date", run |-> 1]

MCTriggerOf == [j \in JobIds |-> IF j = j1 THEN EverySecondTick ELSE Once]

=============================================================================

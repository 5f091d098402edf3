------------------------- MODULE MCThreadedScheduler -------------------------
(***************************************************************************)
(* Small schedulers for TLC: a job that goes on and a job that ends.       *)
(***************************************************************************)
EXTENDS ThreadedScheduler

CONSTANTS j1, j2

EveryTick == [kind |-> "interval", start |-> 0, length |-> 1, end |-> None]
Once == [kind |-> "date", run |-> 1]

MCTriggerOf == [j \in JobIds |-> IF j = j1 THEN EveryTick ELSE Once]

=============================================================================

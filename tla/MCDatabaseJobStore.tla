-------------------------- MODULE MCDatabaseJobStore --------------------------
(***************************************************************************)
(* Three jobs, two run times and the paused state for TLC, in a store of   *)
(* any of the five classes.                                                *)
(***************************************************************************)
EXTENDS DatabaseJobStore

MCNone == -1
MCAbsent == -2

=============================================================================

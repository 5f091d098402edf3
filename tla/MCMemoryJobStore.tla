--------------------------- MODULE MCMemoryJobStore ---------------------------
(***************************************************************************)
(* Four jobs, three run times and the paused state for TLC.                *)
(***************************************************************************)
EXTENDS MemoryJobStore

MCNone == -1
MCAbsent == -2

=============================================================================

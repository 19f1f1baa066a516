--------------------------- MODULE MCScheduleJobs ---------------------------
(***************************************************************************)
(* One schedule with two digests and one or two files.                     *)
(***************************************************************************)
EXTENDS ScheduleJobs

CONSTANTS daily, old, new, first, renamed
=============================================================================

------------------------------- MODULE MCTimers -------------------------------
(***************************************************************************)
(* TLC instance of the timers alone, for the check of Timeout.h that fails.   *)
(***************************************************************************)
EXTENDS Timers
==============================================================================

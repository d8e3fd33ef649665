------------------------ MODULE MCConcurrentScheduler ------------------------
(***************************************************************************)
(* TLC instances of ConcurrentScheduler: the main thread and another.        *)
(***************************************************************************)
EXTENDS ConcurrentScheduler, TLC

CONSTANTS main, s1, a, b

HomeOf == a :> main @@ b :> s1
==============================================================================

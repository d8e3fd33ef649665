----------------------------- MODULE MCScheduler -----------------------------
(***************************************************************************)
(* TLC instances of Scheduler: two threads, and actors that live on either.  *)
(***************************************************************************)
EXTENDS Scheduler

CONSTANTS s0, s1, a, b, c

(* Two slots in the pool of the first scheduler, one in that of the second. *)
HomeOf == a :> s0 @@ b :> s1 @@ c :> s0

(* One slot in each pool. *)
HomeOfTwo == a :> s0 @@ b :> s1
==============================================================================

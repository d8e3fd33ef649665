--------------------------- MODULE MCSchedulerSafe ---------------------------
(***************************************************************************)
(* TLC instance of Scheduler for its invariants.  In a behaviour, either      *)
(* actors migrate and are created on other threads, or slots are reused.      *)
(***************************************************************************)
EXTENDS MCScheduler

VARIABLE slots_are_reused

Reused(i) == i \in alive' /\ generation'[i] > 0

MigrateOrReuseInit == Init /\ slots_are_reused \in BOOLEAN

MigrateOrReuseNext ==
  /\ Next
  /\ UNCHANGED slots_are_reused
  /\ IF slots_are_reused
       THEN \A i \in Info : ~sched_id_'[i].migrating
       ELSE \A i \in Info : ~Reused(i)

MigrateOrReuse ==
  MigrateOrReuseInit /\ [][MigrateOrReuseNext]_<<vars, slots_are_reused>>
==============================================================================

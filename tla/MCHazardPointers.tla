--------------------------- MODULE MCHazardPointers ---------------------------
(***************************************************************************)
(* TLC instance of the two structures that reclaim with hazard pointers: in   *)
(* a behaviour one of them is used, and the other stays as it is.             *)
(***************************************************************************)
EXTENDS MCMpmcQueue, MCConcurrentHashMap

VARIABLE structure

hazardVars == <<vars, filledVars, structure>>

HazardInit ==
  \/ structure = "queue" /\ Init /\ MapInit /\ filled = FALSE
  \/ structure = "map" /\ FilledInit /\ Init /\ workload = <<0, 1, 1>>

HazardNext ==
  /\ UNCHANGED structure
  /\ \/ structure = "queue" /\ Next /\ UNCHANGED filledVars
     \/ structure = "map" /\ FilledNext /\ UNCHANGED vars

HazardSpec == HazardInit /\ [][HazardNext]_hazardVars
==============================================================================

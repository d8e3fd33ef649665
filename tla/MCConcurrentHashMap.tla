------------------------- MODULE MCConcurrentHashMap -------------------------
(***************************************************************************)
(* TLC instances of the map.  Either three calls are made, of three keys, or    *)
(* four inserts, of which the first two are over before the others, fill the  *)
(* tables with one key after the other.                                      *)
(***************************************************************************)
EXTENDS ConcurrentHashMap, TLC

CONSTANT Fillers            \* the keys of the inserts

Threads == Permutations(MapThread)

(* In a table of four cells or eight, 9, 17 and 25 have the same place, and    *)
(* 10 the next.                                                             *)
Colliding == <<9, 17, 10, 25>>

Idle == \A t \in MapThread : mpc[t] = "idle"

VARIABLE filled

filledVars == <<mapVars, filled>>

FilledInit == MapInit /\ filled \in BOOLEAN

FilledNext ==
  /\ UNCHANGED filled
  /\ MapNext
  /\ \A t \in MapThread : op'[t] # op[t] /\ op'[t] # NoOp =>
       IF filled
         THEN op'[t].kind = "insert" /\ op'[t].key = Fillers[called'] /\ (called < 3 => Idle)
         ELSE called' <= 3 /\ op'[t].key # Fillers[4]

FilledSpec == FilledInit /\ [][FilledNext]_filledVars
==============================================================================

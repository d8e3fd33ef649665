---------------------------- MODULE MCConnections ----------------------------
(***************************************************************************)
(* TLC instance of Connections: a peer that sends two chunks, and one that  *)
(* comes and goes.                                                           *)
(***************************************************************************)
EXTENDS Connections, TLC

CONSTANTS c1, c2

DataOf == c1 :> 2 @@ c2 :> 0
==============================================================================

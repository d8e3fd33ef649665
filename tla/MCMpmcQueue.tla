----------------------------- MODULE MCMpmcQueue -----------------------------
(***************************************************************************)
(* TLC instances of MpmcQueue with three threads.                           *)
(***************************************************************************)
EXTENDS MpmcQueue

Addresses == Permutations(Node)

(* Two producers of a value each, or two consumers of one producer's two. *)
OneOrTwoProducers == {<<0, 1, 1>>, <<0, 0, 2>>}
==============================================================================

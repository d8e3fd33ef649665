------------------------------ MODULE KHeapCalls ------------------------------
(***************************************************************************)
(* Every sequence of legal calls on one KHeap: a node is inserted when it is *)
(* not in the heap, and given another key or erased when it is.             *)
(***************************************************************************)
EXTENDS KHeap, FiniteSets

CONSTANTS
  HeapNode,                 \* nodes that may be put into the heap
  HeapKey                   \* keys they are given

ASSUME HeapAssumption == HeapKey \subseteq Int

VARIABLES
  array_,                   \* the items, array_[1] being the top
  keys_given                \* history: the keys given to the nodes in the heap

heapVars == <<array_, keys_given>>

HeapInit ==
  /\ array_ = <<>>
  /\ keys_given = <<>>

HeapInsert(n, k) ==
  /\ ~InHeap(array_, n)
  /\ array_' = Insert(array_, k, n)
  /\ keys_given' = [m \in DOMAIN keys_given \union {n} |-> IF m = n THEN k ELSE keys_given[m]]

HeapFix(n, k) ==
  /\ InHeap(array_, n)
  /\ array_' = Fix(array_, k, n)
  /\ keys_given' = [keys_given EXCEPT ![n] = k]

Forget(n) == [m \in DOMAIN keys_given \ {n} |-> keys_given[m]]

HeapErase(n) ==
  /\ InHeap(array_, n)
  /\ array_' = Erase(array_, n)
  /\ keys_given' = Forget(n)

HeapPop ==
  /\ array_ # <<>>
  /\ array_' = WithoutTop(array_)
  /\ keys_given' = Forget(array_[1].node)

HeapNext ==
  \/ \E n \in HeapNode : HeapErase(n) \/ \E k \in HeapKey : HeapInsert(n, k) \/ HeapFix(n, k)
  \/ HeapPop

HeapSpec == HeapInit /\ [][HeapNext]_heapVars

-----------------------------------------------------------------------------
(* After any calls the array is a heap, the top being least, of exactly the *)
(* nodes inserted and not removed, each with the key it was last given.      *)
(* What is erased from the middle is replaced by an item of another subtree. *)
HeapIsRight ==
  /\ \A p \in 2..Len(array_) : array_[Parent(p)].key <= array_[p].key
  /\ Len(array_) = Cardinality(DOMAIN keys_given)
  /\ ToSet(array_) = {[key |-> keys_given[n], node |-> n] : n \in DOMAIN keys_given}
=============================================================================

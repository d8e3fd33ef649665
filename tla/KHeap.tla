-------------------------------- MODULE KHeap --------------------------------
(***************************************************************************)
(* KHeap<KeyT, K>: the heap of deadlines of a Scheduler and of a            *)
(* MultiTimeout.  Items form a K-ary tree laid out in an array, and a node   *)
(* knows its position.  Positions count from 1 here.                         *)
(*                                                                         *)
(* An operation is an operator from the old array to the new one.            *)
(***************************************************************************)
EXTENDS Integers, SequencesExt

CONSTANT Arity              \* K

ASSUME ArityAssumption == Arity \in Nat \ {0}

Parent(p) == (p - 2) \div Arity + 1

Children(h, p) == {c \in (p - 1) * Arity + 2 .. p * Arity + 1 : c <= Len(h)}

(* The item at p goes up.  Up to q it meets no parent before it; one with an   *)
(* equal key is passed too, and each that is passed goes down a level.        *)
FixUp(h, p) ==
  LET reached[q \in 1..p] ==
        q = p \/ \E c \in Children(h, q) : c <= p /\ reached[c] /\ h[p].key <= h[q].key
  IN [q \in DOMAIN h |->
        IF q > p \/ ~reached[q] THEN h[q]
        ELSE IF q # 1 /\ reached[Parent(q)] THEN h[Parent(q)] ELSE h[p]]

(* The first of the smallest children of its parent. *)
IsNext(h, c) ==
  \A d \in Children(h, Parent(c)) : h[c].key < h[d].key \/ (h[c].key = h[d].key /\ c <= d)

(* The item at p goes down, as long as a child has a smaller key.             *)
FixDown(h, p) ==
  LET reached[q \in p..Len(h)] ==
        \/ q = p
        \/ q > p /\ Parent(q) >= p /\ reached[Parent(q)] /\ IsNext(h, q) /\ h[q].key < h[p].key
      Below(q) == {c \in Children(h, q) : reached[c]}
  IN [q \in DOMAIN h |->
        IF q < p \/ ~reached[q] THEN h[q]
        ELSE IF Below(q) # {} THEN h[CHOOSE c \in Below(q) : TRUE] ELSE h[p]]

InHeap(h, node) == \E p \in DOMAIN h : h[p].node = node

PosOf(h, node) == CHOOSE p \in DOMAIN h : h[p].node = node

IsTop(h, node) == h # <<>> /\ h[1].node = node

TopKey(h) == h[1].key

Insert(h, key, node) == FixUp(Append(h, [key |-> key, node |-> node]), Len(h) + 1)

Fix(h, key, node) ==
  LET p == PosOf(h, node)
      g == [h EXCEPT ![p].key = key]
  IN IF key < h[p].key THEN FixUp(g, p) ELSE FixDown(g, p)

(* The last item is put in the place of the one at p. *)
Refilled(h, p) == [Front(h) EXCEPT ![p] = Last(h)]

(* Mutant: it is only moved down. *)
EraseDown(h, p) == IF p = Len(h) THEN Front(h) ELSE FixDown(Refilled(h, p), p)

EraseAt(h, p) ==
  IF p = Len(h) THEN Front(h) ELSE FixUp(FixDown(Refilled(h, p), p), p)

Erase(h, node) == EraseAt(h, PosOf(h, node))

WithoutTop(h) == EraseAt(h, 1)
=============================================================================

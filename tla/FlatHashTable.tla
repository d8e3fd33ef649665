----------------------------- MODULE FlatHashTable -----------------------------
(***************************************************************************)
(* FlatHashTable: linear probing in an array of 2^i buckets.  A key that is   *)
(* erased leaves no mark; keys after it move back into the hole, also round    *)
(* the end of the array.  The array grows and shrinks.  Buckets count from 0.  *)
(***************************************************************************)
EXTENDS Integers, FiniteSets

CONSTANTS
  TableKeys,                \* bound: the keys are 1..TableKeys
  Hashes                    \* the hash functions to choose from

TableKey == 1..TableKeys

ASSUME TableAssumption == \A h \in Hashes : \A k \in TableKey : h[k] \in Nat

FreeBucket == 0
INVALID_BUCKET == -1

VARIABLES
  HashT,
  nodes_,                   \* <<>> before the first key and after clear
  used_node_count_, begin_bucket_,
  inserted                  \* the keys that should be there

tableVars == <<HashT, nodes_, used_node_count_, begin_bucket_, inserted>>

TableInit ==
  /\ HashT \in Hashes
  /\ nodes_ = <<>> /\ used_node_count_ = 0 /\ begin_bucket_ = 0
  /\ inserted = {}

-----------------------------------------------------------------------------
(* Arrays of buckets *)

BucketCount(ns) == Cardinality(DOMAIN ns)

Vacant(size) == [b \in 0..size - 1 |-> FreeBucket]

CalcBucket(ns, k) == HashT[k] % BucketCount(ns)

RECURSIVE BucketFrom(_, _, _), PutAll(_, _, _), ShiftToEnd(_, _, _), ShiftRound(_, _, _),
          RemoveFrom(_, _, _, _)

(* The first bucket from b on that is free or has the key. *)
BucketFrom(ns, k, b) ==
  IF ns[b] \in {FreeBucket, k} THEN b ELSE BucketFrom(ns, k, (b + 1) % BucketCount(ns))

BucketOf(ns, k) == BucketFrom(ns, k, CalcBucket(ns, k))

Has(ns, k) == ns # <<>> /\ ns[BucketOf(ns, k)] = k

(* The keys of old, from bucket b on, put in ns in their order. *)
PutAll(ns, old, b) ==
  IF b = BucketCount(old) THEN ns
  ELSE PutAll(IF old[b] = FreeBucket THEN ns ELSE [ns EXCEPT ![BucketOf(ns, old[b])] = old[b]],
              old, b + 1)

Resized(ns, size) == IF ns = <<>> THEN Vacant(size) ELSE PutAll(Vacant(size), ns, 0)

(* The least power of two above size, and at least 8. *)
Normalize(size) ==
  CHOOSE p \in {2^i : i \in 3..size + 3} : size < p /\ (p = 8 \/ p \div 2 <= size)

MovedBack(ns, from, to) == [ns EXCEPT ![to] = ns[from], ![from] = FreeBucket]

(* Mutant: the place a key wants is not carried round the end. *)
WantPlain(ns, hole, test) == CalcBucket(ns, ns[test % BucketCount(ns)])

Want(ns, hole, test) ==
  LET want == CalcBucket(ns, ns[test % BucketCount(ns)])
  IN IF want < hole THEN want + BucketCount(ns) ELSE want

(* The second loop of erase_node: test goes on from the bucket count. *)
ShiftRound(ns, hole, test) ==
  LET n == BucketCount(ns)  want == Want(ns, hole, test)
  IN IF ns[test % n] = FreeBucket THEN ns
     ELSE IF want <= hole \/ want > test
       THEN ShiftRound(MovedBack(ns, test % n, hole % n), test, test + 1)
       ELSE ShiftRound(ns, hole, test + 1)

(* The first loop: up to the end of the array. *)
ShiftToEnd(ns, hole, test) ==
  IF test = BucketCount(ns) THEN ShiftRound(ns, hole, test)
  ELSE IF ns[test] = FreeBucket THEN ns
  ELSE LET want == CalcBucket(ns, ns[test])
       IN IF want <= hole \/ want > test
            THEN ShiftToEnd(MovedBack(ns, test, hole), test, test + 1)
            ELSE ShiftToEnd(ns, hole, test + 1)

EraseNode(ns, b) == ShiftToEnd([ns EXCEPT ![b] = FreeBucket], b, b + 1)

(* remove_if's loops: a bucket whose key goes is looked at again. *)
RemoveFrom(ns, b, end, ks) ==
  IF b = end THEN ns
  ELSE IF ns[b] \in ks THEN RemoveFrom(EraseNode(ns, b), b, end, ks)
  ELSE RemoveFrom(ns, b + 1, end, ks)

(* Where it starts: a free bucket after b, or else before the end. *)
FirstEmpty(ns, b) ==
  LET free  == {c \in DOMAIN ns : ns[c] = FreeBucket}
      after == {c \in free : c > b}
  IN IF after # {} THEN CHOOSE c \in after : \A d \in after : c <= d
     ELSE CHOOSE c \in free : \A d \in free : d <= c

RemoveIf(ns, b, ks) ==
  LET start == FirstEmpty(ns, b)
  IN RemoveFrom(RemoveFrom(ns, start, BucketCount(ns), ks), 0, start, ks)

-----------------------------------------------------------------------------
(* Calls *)

Emplace(k) ==
  LET ns == IF nodes_ = <<>> THEN Vacant(8) ELSE nodes_
      grows == used_node_count_ * 5 >= (BucketCount(ns) - 1) * 3
      room  == IF grows THEN Resized(ns, 2 * BucketCount(ns)) ELSE ns
  IN  IF Has(ns, k)
        THEN UNCHANGED tableVars
        ELSE /\ nodes_' = [room EXCEPT ![BucketOf(room, k)] = k]
             /\ used_node_count_' = used_node_count_ + 1
             /\ begin_bucket_' = INVALID_BUCKET
             /\ inserted' = inserted \union {k}
             /\ UNCHANGED HashT

(* try_shrink, after ks went and ns was left. *)
Shrink(ns, ks) ==
  LET used == used_node_count_ - Cardinality(ks)  mask == BucketCount(ns) - 1
  IN  /\ nodes_' = IF used * 10 < mask /\ mask > 7
                     THEN Resized(ns, Normalize(((used + 1) * 5) \div 3 + 1)) ELSE ns
      /\ used_node_count_' = used
      /\ begin_bucket_' = INVALID_BUCKET
      /\ inserted' = inserted \ ks
      /\ UNCHANGED HashT

EraseTableKey(k) == Has(nodes_, k) /\ Shrink(EraseNode(nodes_, BucketOf(nodes_, k)), {k})

(* begin_impl: a random bucket, or the next that is used; it is kept. *)
Beginnings ==
  IF begin_bucket_ # INVALID_BUCKET THEN {begin_bucket_}
  ELSE {b \in DOMAIN nodes_ : nodes_[b] # FreeBucket}

BeginTable ==
  /\ used_node_count_ > 0
  /\ begin_bucket_' \in Beginnings
  /\ UNCHANGED <<HashT, nodes_, used_node_count_, inserted>>

RemoveKeysIf(ks) ==
  /\ used_node_count_ > 0
  /\ \E b \in Beginnings : Shrink(RemoveIf(nodes_, b, ks), inserted \intersect ks)

Reserve(size) ==
  LET want == Normalize((size * 5) \div 3 + 1)
  IN  /\ want > BucketCount(nodes_)
      /\ nodes_' = Resized(nodes_, want)
      /\ begin_bucket_' = INVALID_BUCKET
      /\ UNCHANGED <<HashT, used_node_count_, inserted>>

ClearTable ==
  /\ nodes_ # <<>>
  /\ nodes_' = <<>> /\ used_node_count_' = 0 /\ begin_bucket_' = 0
  /\ inserted' = {}
  /\ UNCHANGED HashT

TableNext ==
  \/ \E k \in TableKey : Emplace(k) \/ EraseTableKey(k) \/ Reserve(k)
  \/ \E ks \in SUBSET TableKey : RemoveKeysIf(ks)
  \/ BeginTable
  \/ ClearTable

TableSpec == TableInit /\ [][TableNext]_tableVars

-----------------------------------------------------------------------------
(* Properties *)

(* A key is found when it was inserted and not erased, and is there once; the   *)
(* array keeps less than 3/5 of its buckets in use, so that every probe ends;   *)
(* and a bucket that is kept as the begin of an iteration is in use.            *)
TableAgrees ==
  LET used == {b \in DOMAIN nodes_ : nodes_[b] # FreeBucket}
  IN  /\ \A k \in TableKey : Has(nodes_, k) <=> k \in inserted
      /\ used_node_count_ = Cardinality(inserted) /\ used_node_count_ = Cardinality(used)
      /\ nodes_ # <<>> => (used_node_count_ - 1) * 5 < (BucketCount(nodes_) - 1) * 3
      /\ used # {} /\ begin_bucket_ # INVALID_BUCKET => begin_bucket_ \in used
==============================================================================

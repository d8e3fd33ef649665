--------------------------- MODULE MpmcQueue_proofs ---------------------------
(***************************************************************************)
(* Theorems of MpmcQueue for any threads, nodes, blocks and workloads:        *)
(* consumers use no deleted node; each value comes out once and in the order  *)
(* of the pushes; a queue that is found empty is empty.  HazardInv is the     *)
(* invariant of the list and the hazard pointers, ValuesInv says where each   *)
(* value is, and OrderInv how the values lie with regard to each other.       *)
(***************************************************************************)
EXTENDS MpmcQueue, SequenceTheorems, TLAPS

Pointer == Node \union {NoNode}

(* What a slot can hold; values are pairs too. *)
OneValue == (0..ThreadsN) \X Nat

PusherPlace == {"idle", "load", "store", "check", "use", "return",
                "set", "load_next", "link", "help", "swing"}
PopperPlace == {"idle", "load", "store", "check", "use", "return",
                "compare", "last", "claim", "take", "follow", "advance", "retire", "scan"}

NodeBlock == [write_pos : Nat, read_pos : Nat, next : Pointer, data : [Slot -> OneValue]]
Variables == [node : Pointer, next : Pointer, pos : Nat, item : Nat \ {0}, thread : Nat \ {0}]

QueueType ==
  /\ write_pos_ \in Node /\ read_pos_ \in Node /\ alive \subseteq Node
  /\ block \in [Node -> NodeBlock]
  /\ hazard_ \in [Thread -> Pointer]
  /\ to_delete_ \in [Thread -> Seq(Node)]
  /\ pc \in [Thread -> PusherPlace \union PopperPlace]
  /\ local \in [Thread -> Variables]
  /\ workload \in [Thread -> Nat]
  /\ begun \in [Thread -> Nat]

(* What a thread's local variables and hazard pointer are where it is. *)
Locals ==
  \A t \in Thread :
    /\ pc[t] \in IF t \in Pusher THEN PusherPlace ELSE PopperPlace
    /\ pc[t] \in Using \union {"store", "check", "retire"} => local[t].node \in Node
    /\ pc[t] \in Using \union {"check"} => hazard_[t] = local[t].node
    /\ pc[t] \in {"link", "help", "swing", "advance"} => local[t].next \in Node
    /\ pc[t] \in {"help", "swing", "advance"} /\ local[t].node \in alive =>
         block[local[t].node].next = local[t].next

(* A node that a producer has made and not linked yet. *)
Unlinked(n) == \E t \in Thread : pc[t] = "link" /\ local[t].next = n

(* A node that was left behind by the thread that swung read_pos_ over it, t. *)
RetiredBy(t, n) == n \in ToSet(to_delete_[t]) \/ (pc[t] = "retire" /\ local[t].node = n)
Retired(n) == \E t \in Thread : RetiredBy(t, n)

(* The nodes of the queue: from read_pos_ on, and not yet retired.             *)
Linked(n) == n \in alive /\ ~Unlinked(n) /\ ~Retired(n)

(* The new nodes are their producers' own. *)
New ==
  \A t \in Thread : pc[t] = "link" =>
    /\ local[t].next \in alive /\ block[local[t].next].next = NoNode
    /\ \A u \in Thread :
         /\ pc[u] = "link" /\ local[u].next = local[t].next => u = t
         /\ pc[u] \in Using => local[u].node # local[t].next

(* The queue is a list without branches, which nothing leads back to.          *)
List ==
  /\ Linked(read_pos_)
  /\ \A m \in Node : Linked(m) => 
       /\ block[m].next # NoNode => Linked(block[m].next)
       /\ block[m].next # read_pos_
  /\ \A m, n \in Node : Linked(m) /\ Linked(n) /\ block[m].next = block[n].next => m = n \/ block[m].next = NoNode

(* Nodes are retired once, by one thread, and had a next node then.            *)
Left ==
  /\ \A n \in Node : Retired(n) => n \in alive /\ ~Unlinked(n) /\ block[n].next # NoNode
  /\ \A t, u \in Thread, n \in Node : RetiredBy(t, n) /\ RetiredBy(u, n) => t = u
  /\ \A t \in Thread :
       /\ \A i, j \in DOMAIN to_delete_[t] : to_delete_[t][i] = to_delete_[t][j] => i = j
       /\ pc[t] = "retire" => local[t].node \notin ToSet(to_delete_[t])

(* write_pos_ is at the last node, or at the one before and the producer that  *)
(* linked the last is about to swing it.  Producers use no later node.         *)
WritePos ==
  /\ write_pos_ \in alive /\ ~Unlinked(write_pos_)
  /\ block[write_pos_].next # NoNode =>
       /\ Linked(block[write_pos_].next)
       /\ block[block[write_pos_].next].next = NoNode
       /\ \E t \in Thread : pc[t] = "swing" /\ local[t].node = write_pos_
  /\ \A t \in Pusher : pc[t] \in Using /\ local[t].node \in alive /\ block[local[t].node].next = NoNode =>
       local[t].node = write_pos_

(* A scan that is at n has not passed t's hazard pointer. *)
Unpassed(t, n) ==
  \A u \in Thread : pc[u] = "scan" /\ local[u].item \in DOMAIN to_delete_[u]
                      /\ to_delete_[u][local[u].item] = n => local[u].thread <= t

(* What a consumer uses, and what a producer swings write_pos_ from, is safe.  *)
Protected ==
  /\ \A t \in Popper : pc[t] \in Using => local[t].node \in alive /\ Unpassed(t, local[t].node)
  /\ \A t \in Thread : pc[t] = "swing" /\ local[t].node = write_pos_ => Unpassed(t, write_pos_)

HazardInv == QueueType /\ Locals /\ New /\ List /\ Left /\ WritePos /\ Protected

-----------------------------------------------------------------------------
(* Steps that change neither the list nor who retired what                    *)

(* A step of t that only moves t on, and gets it a node only from Source(t).   *)
QuietStep(t) ==
  /\ UNCHANGED <<write_pos_, read_pos_, alive, to_delete_, workload>>
  /\ \A n \in Node : block'[n].next = block[n].next
  /\ \A u \in Thread \ {t} : pc'[u] = pc[u] /\ local'[u] = local[u]
  /\ pc[t] \notin {"link", "swing", "retire"} /\ pc'[t] \notin {"link", "swing", "retire", "scan"}
  /\ pc'[t] \in Using => \/ pc[t] \in Using /\ local'[t].node = local[t].node
                         \/ local'[t].node = Source(t)

LEMMA QuietSets ==
  ASSUME NEW t \in Thread, QuietStep(t)
  PROVE  /\ Pusher' = Pusher /\ Popper' = Popper
         /\ \A n : Unlinked(n)' = Unlinked(n)
         /\ \A u, n : RetiredBy(u, n)' = RetiredBy(u, n) \/ u \notin Thread
         /\ \A n : Retired(n)' = Retired(n) /\ Linked(n)' = Linked(n)
PROOF
  <1>1. Pusher' = Pusher /\ Popper' = Popper
    BY DEF QuietStep, Pusher, Popper
  <1>2. \A n : Unlinked(n)' = Unlinked(n)
    BY DEF QuietStep, Unlinked
  <1>3. \A u \in Thread : \A n : RetiredBy(u, n)' = RetiredBy(u, n)
    BY DEF QuietStep, RetiredBy
  <1>4. \A n : Retired(n)' = Retired(n)
    BY <1>3 DEF Retired
  <1>5. \A n : Linked(n)' = Linked(n)
    BY <1>2, <1>4 DEF Linked, QuietStep
  <1> QED BY <1>1, <1>2, <1>3, <1>4, <1>5

LEMMA Quiet ==
  ASSUME HazardInv, NEW t \in Thread, QuietStep(t), QueueType', Locals'
  PROVE  HazardInv'
PROOF
  <1>1. /\ Pusher' = Pusher /\ Popper' = Popper
        /\ \A n : Unlinked(n)' = Unlinked(n) /\ Linked(n)' = Linked(n) /\ Retired(n)' = Retired(n)
        /\ \A u \in Thread : \A n : RetiredBy(u, n)' = RetiredBy(u, n)
    BY QuietSets
  <1>2. QueueType /\ Locals /\ New /\ List /\ Left /\ WritePos /\ Protected
    BY DEF HazardInv
  <1>3. Source(t) \in {read_pos_, write_pos_} /\ ~Unlinked(Source(t))
    BY <1>2 DEF Source, List, WritePos, Linked
  <1>4. New'
    <2>1. SUFFICES ASSUME NEW u \in Thread, pc'[u] = "link", NEW v \in Thread
                   PROVE  /\ local'[u].next \in alive' /\ block'[local'[u].next].next = NoNode
                          /\ pc'[v] = "link" /\ local'[v].next = local'[u].next => v = u
                          /\ pc'[v] \in Using => local'[v].node # local'[u].next
      BY DEF New
    <2>2. u # t /\ pc[u] = "link" /\ local'[u] = local[u] /\ local[u].next \in alive
      BY <2>1, <1>2 DEF QuietStep, New
    <2>3. local'[u].next \in alive' /\ block'[local'[u].next].next = NoNode
      BY <2>2, <1>2 DEF QuietStep, New, QueueType
    <2>4. pc'[v] = "link" /\ local'[v].next = local'[u].next => v = u
      BY <2>1, <2>2, <1>2 DEF QuietStep, New
    <2>5. ASSUME pc'[v] \in Using PROVE local'[v].node # local'[u].next
      <3>1. CASE v = t
        <4>1. CASE pc[t] \in Using /\ local'[t].node = local[t].node
          BY <3>1, <4>1, <2>2, <1>2 DEF New
        <4>2. CASE local'[t].node = Source(t)
          BY <3>1, <4>2, <2>2, <1>3 DEF Unlinked
        <4> QED BY <3>1, <4>1, <4>2, <2>5 DEF QuietStep
      <3>2. CASE v # t
        BY <3>2, <2>5, <2>2, <1>2 DEF New, QuietStep
      <3> QED BY <3>1, <3>2
    <2> QED BY <2>3, <2>4, <2>5
  <1>5. List'
    <2>1. read_pos_' = read_pos_ /\ \A n \in Node : block'[n].next = block[n].next
      BY DEF QuietStep
    <2> QED BY <2>1, <1>1, <1>2 DEF List
  <1>6. Left'
    <2>1. /\ to_delete_' = to_delete_ /\ alive' = alive
          /\ \A n \in Node : block'[n].next = block[n].next
          /\ \A u \in Thread : pc'[u] = "retire" => pc[u] = "retire" /\ local'[u] = local[u]
      BY DEF QuietStep
    <2> QED BY <2>1, <1>1, <1>2 DEF Left
  <1>7. WritePos'
    <2>1. /\ write_pos_' = write_pos_ /\ alive' = alive /\ write_pos_ \in Node /\ alive \subseteq Node
          /\ \A n \in Node : block'[n].next = block[n].next /\ block[n].next \in Pointer
      BY <1>2 DEF QuietStep, QueueType, NodeBlock
    <2>2. write_pos_ \in alive /\ ~Unlinked(write_pos_)'
      BY <2>1, <1>2 DEF WritePos, Unlinked, QuietStep
    <2>3. ASSUME block[write_pos_].next # NoNode
          PROVE  /\ Linked(block[write_pos_].next)' /\ block'[block[write_pos_].next].next = NoNode
                 /\ \E u \in Thread : pc'[u] = "swing" /\ local'[u].node = write_pos_
      <3>1. block[write_pos_].next \in Node
        BY <2>1, <2>3 DEF Pointer
      <3>2. PICK u \in Thread : pc[u] = "swing" /\ local[u].node = write_pos_
        BY <2>3, <1>2 DEF WritePos
      <3>3. pc'[u] = "swing" /\ local'[u].node = write_pos_
        BY <3>2 DEF QuietStep
      <3> QED BY <2>1, <2>3, <3>1, <3>3, <1>1, <1>2 DEF WritePos
    <2>4. ASSUME NEW u \in Pusher, pc'[u] \in Using, local'[u].node \in alive,
                 block[local'[u].node].next = NoNode
          PROVE  local'[u].node = write_pos_
      <3>1. u \in Thread
        BY DEF Pusher
      <3>2. u \notin Popper
        BY DEF Popper
      <3>3. CASE u = t /\ local'[t].node = Source(t)
        BY <3>2, <3>3 DEF Source
      <3>4. CASE pc[u] \in Using /\ local'[u].node = local[u].node
        BY <3>4, <2>4, <1>2 DEF WritePos
      <3> QED BY <3>1, <3>3, <3>4, <2>4 DEF QuietStep
    <2> QED BY <1>1, <2>1, <2>2, <2>3, <2>4 DEF WritePos
  <1>8. Protected'
    <2>1. ASSUME NEW u \in Thread, NEW n, Unpassed(u, n) PROVE Unpassed(u, n)'
      <3>1. \A v \in Thread : pc'[v] = "scan" => pc[v] = "scan" /\ local'[v] = local[v]
        BY DEF QuietStep
      <3> QED BY <2>1, <3>1 DEF Unpassed, QuietStep
    <2>2. ASSUME NEW u \in Popper, pc'[u] \in Using
          PROVE  (local[u].node \in alive /\ Unpassed(u, local[u].node))'
      <3>1. u \in Thread
        BY DEF Popper
      <3>2. CASE u = t /\ local'[t].node = Source(t)
        <4>1. local'[u].node = read_pos_ /\ Linked(read_pos_)
          BY <3>2, <1>2 DEF Source, List
        <4>2. \A v \in Thread : read_pos_ \notin ToSet(to_delete_[v])
          BY <4>1 DEF Linked, Retired, RetiredBy
        <4>3. Unpassed(u, read_pos_)
          BY <4>2 DEF Unpassed, ToSet
        <4>4. Unpassed(u, read_pos_)' /\ read_pos_' = read_pos_
          BY <3>1, <4>3, <2>1 DEF QuietStep
        <4>5. \A n : n = read_pos_' => Unpassed(u, n)' = Unpassed(u, read_pos_)'
          OBVIOUS
        <4> QED BY <4>1, <4>4, <4>5 DEF Linked, QuietStep
      <3>3. CASE pc[u] \in Using /\ local'[u].node = local[u].node
        BY <3>1, <3>3, <1>2, <2>1 DEF Protected, QuietStep
      <3> QED BY <3>1, <3>2, <3>3, <2>2 DEF QuietStep
    <2>3. ASSUME NEW u \in Thread, pc'[u] = "swing", local'[u].node = write_pos_
          PROVE  Unpassed(u, write_pos_)'
      <3>1. pc[u] = "swing" /\ local[u].node = write_pos_
        BY <2>3 DEF QuietStep
      <3>2. Unpassed(u, write_pos_)
        BY <3>1, <1>2 DEF Protected
      <3>3. \A v \in Thread : pc'[v] = "scan" => pc[v] = "scan" /\ local'[v] = local[v]
        BY DEF QuietStep
      <3> QED BY <3>2, <3>3 DEF Unpassed, QuietStep
    <2>4. write_pos_' = write_pos_
      BY DEF QuietStep
    <2> QED BY <1>1, <2>2, <2>3, <2>4 DEF Protected
  <1> QED BY <1>4, <1>5, <1>6, <1>7, <1>8 DEF HazardInv

(* What t is when only t has moved. *)
LocalsOf(t) ==
  /\ pc[t] \in IF t \in Pusher THEN PusherPlace ELSE PopperPlace
  /\ pc[t] \in Using \union {"store", "check", "retire"} => local[t].node \in Node
  /\ pc[t] \in Using \union {"check"} => hazard_[t] = local[t].node
  /\ pc[t] \in {"link", "help", "swing", "advance"} => local[t].next \in Node
  /\ pc[t] \in {"help", "swing", "advance"} /\ local[t].node \in alive =>
       block[local[t].node].next = local[t].next

LEMMA LocalsMoved ==
  ASSUME QueueType, Locals, NEW t \in Thread, LocalsOf(t)', workload' = workload,
         \A u \in Thread \ {t} : pc'[u] = pc[u] /\ local'[u] = local[u] /\ hazard_'[u] = hazard_[u],
         \A u \in Thread \ {t} :
           pc[u] \in {"help", "swing", "advance"} /\ local[u].node \in alive' =>
             local[u].node \in alive /\ block'[local[u].node].next = block[local[u].node].next
  PROVE  Locals'
PROOF
  <1>1. Pusher' = Pusher
    BY DEF Pusher
  <1>2. SUFFICES ASSUME NEW u \in Thread PROVE LocalsOf(u)'
    BY DEF Locals, LocalsOf
  <1>3. CASE u = t
    BY <1>3
  <1>4. CASE u # t
    <2>1. LocalsOf(u)
      BY DEF Locals, LocalsOf
    <2>2. pc'[u] = pc[u] /\ local'[u] = local[u] /\ hazard_'[u] = hazard_[u]
      BY <1>4
    <2> QED BY <1>1, <1>4, <2>1, <2>2 DEF LocalsOf
  <1> QED BY <1>3, <1>4

(* Writing a field of a node, or a local variable. *)

LEMMA BlockWritten ==
  ASSUME NEW b \in [Node -> NodeBlock], NEW n \in Node
  PROVE  /\ \A p \in Nat : /\ [b EXCEPT ![n].write_pos = p] \in [Node -> NodeBlock]
                            /\ \A m \in Node : [b EXCEPT ![n].write_pos = p][m].next = b[m].next
         /\ \A p \in Nat : /\ [b EXCEPT ![n].read_pos = p] \in [Node -> NodeBlock]
                            /\ \A m \in Node : [b EXCEPT ![n].read_pos = p][m].next = b[m].next
         /\ \A m \in Node : b[m].write_pos \in Nat /\ b[m].read_pos \in Nat /\ b[m].next \in Pointer
PROOF
  <1>1. ASSUME NEW p \in Nat
        PROVE  /\ [b EXCEPT ![n].write_pos = p] \in [Node -> NodeBlock]
               /\ \A m \in Node : [b EXCEPT ![n].write_pos = p][m].next = b[m].next
    BY DEF NodeBlock
  <1>2. ASSUME NEW p \in Nat
        PROVE  /\ [b EXCEPT ![n].read_pos = p] \in [Node -> NodeBlock]
               /\ \A m \in Node : [b EXCEPT ![n].read_pos = p][m].next = b[m].next
    BY DEF NodeBlock
  <1>3. \A m \in Node : b[m].write_pos \in Nat /\ b[m].read_pos \in Nat /\ b[m].next \in Pointer
    BY DEF NodeBlock
  <1> QED BY <1>1, <1>2, <1>3

LEMMA DataWritten ==
  ASSUME NEW b \in [Node -> NodeBlock], NEW n \in Node, NEW d \in [Slot -> OneValue]
  PROVE  /\ [b EXCEPT ![n].data = d] \in [Node -> NodeBlock]
         /\ \A m \in Node : [b EXCEPT ![n].data = d][m].next = b[m].next
PROOF
  BY DEF NodeBlock

LEMMA LocalWritten ==
  ASSUME NEW r \in Variables, MpmcQueueAssumption
  PROVE  /\ NoLocal \in Variables
         /\ \A n \in Pointer : [r EXCEPT !.node = n] \in Variables /\ [r EXCEPT !.next = n] \in Variables
         /\ \A p \in Nat : [r EXCEPT !.pos = p] \in Variables
         /\ \A i \in Nat \ {0} : [r EXCEPT !.item = i] \in Variables /\ [r EXCEPT !.thread = i] \in Variables
PROOF
  BY DEF NoLocal, Variables, Pointer

LEMMA ProtectLoadSafe ==
  ASSUME MpmcQueueAssumption, HazardInv, NEW t \in Thread, ProtectLoad(t)
  PROVE  HazardInv'
PROOF
  <1>1. QueueType /\ Locals
    BY DEF HazardInv
  <1>2. /\ local[t] \in Variables /\ local \in [Thread -> Variables] /\ block \in [Node -> NodeBlock]
        /\ local[t].node \in Pointer /\ local[t].next \in Pointer /\ local[t].pos \in Nat
    BY <1>1 DEF QueueType, Variables
  <1>3. pc[t] \in Using => local[t].node \in Node
    BY <1>1 DEF Locals
  <1>4. block' = block
    BY DEF ProtectLoad, queue
  <1>5. local' \in [Thread -> Variables]
    <2>1. Source(t) \in Pointer
      BY <1>1 DEF Source, QueueType, Pointer
    <2>2. [NoLocal EXCEPT !.node = Source(t)] \in Variables
      BY <1>2, <2>1, LocalWritten
    <2> QED BY <1>2, <2>2 DEF ProtectLoad
  <1>6. QueueType'
    <2>1. pc' \in [Thread -> PusherPlace \union PopperPlace]
      BY <1>1 DEF ProtectLoad, QueueType, Goto, EndRound, PusherPlace, PopperPlace
    <2>2. hazard_' \in [Thread -> Pointer] /\ workload' = workload /\ begun' \in [Thread -> Nat]
      <3>1. begun[t] \in Nat /\ begun \in [Thread -> Nat]
        BY <1>1 DEF QueueType
      <3>2. begun' = begun \/ begun' = [begun EXCEPT ![t] = begun[t] + 1]
        BY DEF ProtectLoad
      <3>3. begun' \in [Thread -> Nat]
        BY <3>1, <3>2
      <3> QED BY <1>1, <3>3 DEF ProtectLoad, QueueType, hazard
    <2>3. UNCHANGED <<write_pos_, read_pos_, alive, to_delete_>>
      BY DEF ProtectLoad, queue, hazard
    <2> QED BY <1>1, <1>4, <1>5, <2>1, <2>2, <2>3 DEF QueueType
  <1>7. QuietStep(t)
    BY <1>1, <1>4 DEF ProtectLoad, QuietStep, QueueType, Goto, Using, queue, hazard, ghosts, NoLocal, Source
  <1>8. LocalsOf(t)'
    <2>1. LocalsOf(t)
      BY <1>1 DEF Locals, LocalsOf
    <2>2. Pusher' = Pusher /\ Popper' = Popper /\ alive' = alive
      BY DEF ProtectLoad, Pusher, Popper, queue, ghosts
    <2> QED BY <1>1, <1>2, <1>3, <1>4, <2>1, <2>2 DEF ProtectLoad, LocalsOf, QueueType, Goto, Using, Popper,
      PusherPlace, PopperPlace, Pointer, queue, hazard, ghosts, NoLocal, Source
  <1>9. Locals'
    <2>1. workload' = workload /\ alive' = alive
      BY DEF ProtectLoad, queue, ghosts
    <2>2. \A u \in Thread \ {t} : pc'[u] = pc[u] /\ local'[u] = local[u] /\ hazard_'[u] = hazard_[u]
      BY <1>1 DEF ProtectLoad, QueueType, Goto, EndRound, hazard
    <2>3. \A u \in Thread \ {t} :
            pc[u] \in {"help", "swing", "advance"} /\ local[u].node \in alive' =>
              local[u].node \in alive /\ block'[local[u].node].next = block[local[u].node].next
      BY <1>1, <1>4, <2>1 DEF QueueType
    <2> QED BY <1>1, <1>8, <2>1, <2>2, <2>3, LocalsMoved
  <1> QED BY <1>6, <1>7, <1>9, Quiet

LEMMA ProtectStoreSafe ==
  ASSUME MpmcQueueAssumption, HazardInv, NEW t \in Thread, ProtectStore(t)
  PROVE  HazardInv'
PROOF
  <1>1. QueueType /\ Locals
    BY DEF HazardInv
  <1>2. /\ local[t] \in Variables /\ local \in [Thread -> Variables] /\ block \in [Node -> NodeBlock]
        /\ local[t].node \in Pointer /\ local[t].next \in Pointer /\ local[t].pos \in Nat
    BY <1>1 DEF QueueType, Variables
  <1>3. pc[t] \in Using => local[t].node \in Node
    BY <1>1 DEF Locals
  <1>4. block' = block
    BY DEF ProtectStore, queue
  <1>5. local' \in [Thread -> Variables]
    BY <1>2, LocalWritten DEF ProtectStore, EndRound
  <1>6. QueueType'
    <2>1. pc' \in [Thread -> PusherPlace \union PopperPlace]
      BY <1>1 DEF ProtectStore, QueueType, Goto, EndRound, PusherPlace, PopperPlace
    <2>2. hazard_' \in [Thread -> Pointer] /\ workload' = workload /\ begun' \in [Thread -> Nat]
      BY <1>1, <1>2 DEF ProtectStore, QueueType, hazard, ghosts, Pointer
    <2>3. UNCHANGED <<write_pos_, read_pos_, alive, to_delete_>>
      BY DEF ProtectStore, queue, hazard
    <2> QED BY <1>1, <1>4, <1>5, <2>1, <2>2, <2>3 DEF QueueType
  <1>7. QuietStep(t)
    BY <1>1, <1>4 DEF ProtectStore, QuietStep, QueueType, Goto, Using, queue, hazard, ghosts
  <1>8. LocalsOf(t)'
    <2>1. LocalsOf(t)
      BY <1>1 DEF Locals, LocalsOf
    <2>2. Pusher' = Pusher /\ Popper' = Popper /\ alive' = alive
      BY DEF ProtectStore, Pusher, Popper, queue, ghosts
    <2> QED BY <1>1, <1>2, <1>3, <1>4, <2>1, <2>2 DEF ProtectStore, LocalsOf, QueueType, Goto, Using, Popper,
      PusherPlace, PopperPlace, Pointer, queue, hazard, ghosts
  <1>9. Locals'
    <2>1. workload' = workload /\ alive' = alive
      BY DEF ProtectStore, queue, ghosts
    <2>2. \A u \in Thread \ {t} : pc'[u] = pc[u] /\ local'[u] = local[u] /\ hazard_'[u] = hazard_[u]
      BY <1>1 DEF ProtectStore, QueueType, Goto, EndRound, hazard
    <2>3. \A u \in Thread \ {t} :
            pc[u] \in {"help", "swing", "advance"} /\ local[u].node \in alive' =>
              local[u].node \in alive /\ block'[local[u].node].next = block[local[u].node].next
      BY <1>1, <1>4, <2>1 DEF QueueType
    <2> QED BY <1>1, <1>8, <2>1, <2>2, <2>3, LocalsMoved
  <1> QED BY <1>6, <1>7, <1>9, Quiet

LEMMA ProtectCheckSafe ==
  ASSUME MpmcQueueAssumption, HazardInv, NEW t \in Thread, ProtectCheck(t)
  PROVE  HazardInv'
PROOF
  <1>1. QueueType /\ Locals
    BY DEF HazardInv
  <1>2. /\ local[t] \in Variables /\ local \in [Thread -> Variables] /\ block \in [Node -> NodeBlock]
        /\ local[t].node \in Pointer /\ local[t].next \in Pointer /\ local[t].pos \in Nat
    BY <1>1 DEF QueueType, Variables
  <1>3. pc[t] \in Using => local[t].node \in Node
    BY <1>1 DEF Locals
  <1>4. block' = block
    BY DEF ProtectCheck, queue
  <1>5. local' \in [Thread -> Variables]
    <2>1. Source(t) \in Pointer
      BY <1>1 DEF Source, QueueType, Pointer
    <2>2. [local[t] EXCEPT !.node = Source(t)] \in Variables
      BY <1>2, <2>1, LocalWritten
    <2> QED BY <1>2, <2>2 DEF ProtectCheck
  <1>6. QueueType'
    <2>1. pc' \in [Thread -> PusherPlace \union PopperPlace]
      BY <1>1 DEF ProtectCheck, QueueType, Goto, EndRound, PusherPlace, PopperPlace
    <2>2. hazard_' \in [Thread -> Pointer] /\ workload' = workload /\ begun' \in [Thread -> Nat]
      BY <1>1, <1>2 DEF ProtectCheck, QueueType, hazard, ghosts, Pointer
    <2>3. UNCHANGED <<write_pos_, read_pos_, alive, to_delete_>>
      BY DEF ProtectCheck, queue, hazard
    <2> QED BY <1>1, <1>4, <1>5, <2>1, <2>2, <2>3 DEF QueueType
  <1>7. QuietStep(t)
    BY <1>1, <1>4 DEF ProtectCheck, QuietStep, QueueType, Goto, Using, queue, hazard, ghosts, Source
  <1>8. LocalsOf(t)'
    <2>1. LocalsOf(t)
      BY <1>1 DEF Locals, LocalsOf
    <2>2. Pusher' = Pusher /\ Popper' = Popper /\ alive' = alive
      BY DEF ProtectCheck, Pusher, Popper, queue, ghosts
    <2>3. Source(t) \in Node /\ hazard_' = hazard_
      BY <1>1 DEF Source, QueueType, ProtectCheck, hazard
    <2>4. CASE Source(t) = local[t].node
      <3>1. local' = local /\ pc'[t] = "use" /\ pc[t] = "check"
        BY <1>1, <2>4 DEF ProtectCheck, Goto, QueueType
      <3> QED BY <2>1, <2>2, <2>3, <2>4, <3>1 DEF LocalsOf, PusherPlace, PopperPlace
    <2>5. CASE Source(t) # local[t].node
      <3>1. local'[t].node = Source(t) /\ pc'[t] = "store"
        BY <1>1, <1>2, <2>5 DEF ProtectCheck, Goto, QueueType, Variables
      <3> QED BY <2>1, <2>2, <2>3, <3>1 DEF LocalsOf, PusherPlace, PopperPlace, Using
    <2> QED BY <2>4, <2>5
  <1>9. Locals'
    <2>1. workload' = workload /\ alive' = alive
      BY DEF ProtectCheck, queue, ghosts
    <2>2. \A u \in Thread \ {t} : pc'[u] = pc[u] /\ local'[u] = local[u] /\ hazard_'[u] = hazard_[u]
      BY <1>1 DEF ProtectCheck, QueueType, Goto, EndRound, hazard
    <2>3. \A u \in Thread \ {t} :
            pc[u] \in {"help", "swing", "advance"} /\ local[u].node \in alive' =>
              local[u].node \in alive /\ block'[local[u].node].next = block[local[u].node].next
      BY <1>1, <1>4, <2>1 DEF QueueType
    <2> QED BY <1>1, <1>8, <2>1, <2>2, <2>3, LocalsMoved
  <1> QED BY <1>6, <1>7, <1>9, Quiet

LEMMA ReturnSafe ==
  ASSUME MpmcQueueAssumption, HazardInv, NEW t \in Thread, Return(t)
  PROVE  HazardInv'
PROOF
  <1>1. QueueType /\ Locals
    BY DEF HazardInv
  <1>2. /\ local[t] \in Variables /\ local \in [Thread -> Variables] /\ block \in [Node -> NodeBlock]
        /\ local[t].node \in Pointer /\ local[t].next \in Pointer /\ local[t].pos \in Nat
    BY <1>1 DEF QueueType, Variables
  <1>3. pc[t] \in Using => local[t].node \in Node
    BY <1>1 DEF Locals
  <1>4. block' = block
    BY DEF Return, queue
  <1>5. local' \in [Thread -> Variables]
    BY <1>2, LocalWritten DEF Return, EndRound
  <1>6. QueueType'
    <2>1. pc' \in [Thread -> PusherPlace \union PopperPlace]
      BY <1>1 DEF Return, QueueType, Goto, EndRound, PusherPlace, PopperPlace
    <2>2. hazard_' \in [Thread -> Pointer] /\ workload' = workload /\ begun' \in [Thread -> Nat]
      BY <1>1, <1>2 DEF Return, QueueType, hazard, ghosts, Pointer
    <2>3. UNCHANGED <<write_pos_, read_pos_, alive, to_delete_>>
      BY DEF Return, queue, hazard
    <2> QED BY <1>1, <1>4, <1>5, <2>1, <2>2, <2>3 DEF QueueType
  <1>7. QuietStep(t)
    BY <1>1, <1>4 DEF Return, QuietStep, QueueType, Goto, Using, queue, hazard, ghosts
  <1>8. LocalsOf(t)'
    <2>1. LocalsOf(t)
      BY <1>1 DEF Locals, LocalsOf
    <2>2. Pusher' = Pusher /\ Popper' = Popper /\ alive' = alive
      BY DEF Return, Pusher, Popper, queue, ghosts
    <2> QED BY <1>1, <1>2, <1>3, <1>4, <2>1, <2>2 DEF Return, LocalsOf, QueueType, Goto, Using, Popper,
      PusherPlace, PopperPlace, Pointer, queue, hazard, ghosts
  <1>9. Locals'
    <2>1. workload' = workload /\ alive' = alive
      BY DEF Return, queue, ghosts
    <2>2. \A u \in Thread \ {t} : pc'[u] = pc[u] /\ local'[u] = local[u] /\ hazard_'[u] = hazard_[u]
      BY <1>1 DEF Return, QueueType, Goto, EndRound, hazard
    <2>3. \A u \in Thread \ {t} :
            pc[u] \in {"help", "swing", "advance"} /\ local[u].node \in alive' =>
              local[u].node \in alive /\ block'[local[u].node].next = block[local[u].node].next
      BY <1>1, <1>4, <2>1 DEF QueueType
    <2> QED BY <1>1, <1>8, <2>1, <2>2, <2>3, LocalsMoved
  <1> QED BY <1>6, <1>7, <1>9, Quiet

LEMMA ClaimWriteSafe ==
  ASSUME MpmcQueueAssumption, HazardInv, NEW t \in Thread, ClaimWrite(t)
  PROVE  HazardInv'
PROOF
  <1>1. QueueType /\ Locals
    BY DEF HazardInv
  <1>2. /\ local[t] \in Variables /\ local \in [Thread -> Variables] /\ block \in [Node -> NodeBlock]
        /\ local[t].node \in Pointer /\ local[t].next \in Pointer /\ local[t].pos \in Nat
    BY <1>1 DEF QueueType, Variables
  <1>3. pc[t] \in Using => local[t].node \in Node
    BY <1>1 DEF Locals
  <1>4. block' \in [Node -> NodeBlock] /\ \A m \in Node : block'[m].next = block[m].next
    <2>1. local[t].node \in Node
      BY <1>3 DEF ClaimWrite, Using
    <2>2. block[local[t].node].write_pos \in Nat
      BY <1>2, <2>1, BlockWritten
    <2>3. block[local[t].node].write_pos + 1 \in Nat
      BY <2>2
    <2>4. block' = [block EXCEPT ![local[t].node].write_pos = block[local[t].node].write_pos + 1]
      BY DEF ClaimWrite
    <2> QED BY <1>2, <2>1, <2>3, <2>4, BlockWritten
  <1>5. local' \in [Thread -> Variables]
    <2>1. block[local[t].node].write_pos \in Nat
      BY <1>2, <1>3, BlockWritten DEF ClaimWrite, Using
    <2>2. [local[t] EXCEPT !.pos = block[local[t].node].write_pos] \in Variables
      BY <1>2, <2>1, LocalWritten
    <2> QED BY <1>2, <2>2 DEF ClaimWrite
  <1>6. QueueType'
    <2>1. pc' \in [Thread -> PusherPlace \union PopperPlace]
      BY <1>1 DEF ClaimWrite, QueueType, Goto, EndRound, PusherPlace, PopperPlace
    <2>2. hazard_' \in [Thread -> Pointer] /\ workload' = workload /\ begun' \in [Thread -> Nat]
      BY <1>1, <1>2 DEF ClaimWrite, QueueType, hazard, ghosts, Pointer
    <2>3. UNCHANGED <<write_pos_, read_pos_, alive, to_delete_>>
      BY DEF ClaimWrite, queue, hazard
    <2> QED BY <1>1, <1>4, <1>5, <2>1, <2>2, <2>3 DEF QueueType
  <1>7. QuietStep(t)
    BY <1>1, <1>4 DEF ClaimWrite, QuietStep, QueueType, Goto, Using, queue, hazard, ghosts
  <1>8. LocalsOf(t)'
    <2>1. LocalsOf(t)
      BY <1>1 DEF Locals, LocalsOf
    <2>2. Pusher' = Pusher /\ Popper' = Popper /\ alive' = alive
      BY DEF ClaimWrite, Pusher, Popper, queue, ghosts
    <2> QED BY <1>1, <1>2, <1>3, <1>4, <2>1, <2>2 DEF ClaimWrite, LocalsOf, QueueType, Goto, Using, Popper,
      PusherPlace, PopperPlace, Pointer, queue, hazard, ghosts
  <1>9. Locals'
    <2>1. workload' = workload /\ alive' = alive
      BY DEF ClaimWrite, queue, ghosts
    <2>2. \A u \in Thread \ {t} : pc'[u] = pc[u] /\ local'[u] = local[u] /\ hazard_'[u] = hazard_[u]
      BY <1>1 DEF ClaimWrite, QueueType, Goto, EndRound, hazard
    <2>3. \A u \in Thread \ {t} :
            pc[u] \in {"help", "swing", "advance"} /\ local[u].node \in alive' =>
              local[u].node \in alive /\ block'[local[u].node].next = block[local[u].node].next
      BY <1>1, <1>4, <2>1 DEF QueueType
    <2> QED BY <1>1, <1>8, <2>1, <2>2, <2>3, LocalsMoved
  <1> QED BY <1>6, <1>7, <1>9, Quiet

LEMMA SetValueSafe ==
  ASSUME MpmcQueueAssumption, HazardInv, NEW t \in Thread, SetValue(t)
  PROVE  HazardInv'
PROOF
  <1>1. QueueType /\ Locals
    BY DEF HazardInv
  <1>2. /\ local[t] \in Variables /\ local \in [Thread -> Variables] /\ block \in [Node -> NodeBlock]
        /\ local[t].node \in Pointer /\ local[t].next \in Pointer /\ local[t].pos \in Nat
    BY <1>1 DEF QueueType, Variables
  <1>3. pc[t] \in Using => local[t].node \in Node
    BY <1>1 DEF Locals
  <1>4. block' \in [Node -> NodeBlock] /\ \A m \in Node : block'[m].next = block[m].next
    <2>1. Pushing(t) \in OneValue
      BY <1>1, MpmcQueueAssumption DEF Pushing, OneValue, QueueType, Thread
    <2>2. \/ block' = block
          \/ \E n \in Node : \E i \in Nat : \E v \in OneValue : block' = [block EXCEPT ![n].data[i] = v]
      BY <1>2, <1>3, <2>1 DEF SetValue, Using
    <2>3. ASSUME NEW n \in Node, NEW i \in Nat, NEW v \in OneValue, block' = [block EXCEPT ![n].data[i] = v]
          PROVE  block' \in [Node -> NodeBlock] /\ \A m \in Node : block'[m].next = block[m].next
      <3>1. block[n].data \in [Slot -> OneValue]
        BY <1>2 DEF NodeBlock
      <3>2. PICK d : d = [block[n].data EXCEPT ![i] = v]
        OBVIOUS
      <3>3. d \in [Slot -> OneValue]
        BY <3>1, <3>2
      <3>4. block' = [block EXCEPT ![n].data = d]
        BY <2>3, <3>2
      <3> QED BY <1>2, <3>3, <3>4, DataWritten
    <2> QED BY <1>2, <2>2, <2>3
  <1>5. local' \in [Thread -> Variables]
    BY <1>2, LocalWritten DEF SetValue, EndRound
  <1>6. QueueType'
    <2>1. pc' \in [Thread -> PusherPlace \union PopperPlace]
      BY <1>1 DEF SetValue, QueueType, Goto, EndRound, PusherPlace, PopperPlace
    <2>2. hazard_' \in [Thread -> Pointer] /\ workload' = workload /\ begun' \in [Thread -> Nat]
      BY <1>1, <1>2 DEF SetValue, QueueType, hazard, ghosts, Pointer
    <2>3. UNCHANGED <<write_pos_, read_pos_, alive, to_delete_>>
      BY DEF SetValue, queue, hazard
    <2> QED BY <1>1, <1>4, <1>5, <2>1, <2>2, <2>3 DEF QueueType
  <1>7. QuietStep(t)
    BY <1>1, <1>4 DEF SetValue, QuietStep, QueueType, Goto, Using, queue, hazard, ghosts, EndRound, NoLocal
  <1>8. LocalsOf(t)'
    <2>1. LocalsOf(t)
      BY <1>1 DEF Locals, LocalsOf
    <2>2. Pusher' = Pusher /\ Popper' = Popper /\ alive' = alive
      BY DEF SetValue, Pusher, Popper, queue, ghosts
    <2> QED BY <1>1, <1>2, <1>3, <1>4, <2>1, <2>2 DEF SetValue, LocalsOf, QueueType, Goto, Using, Popper,
      PusherPlace, PopperPlace, Pointer, queue, hazard, ghosts, EndRound, NoLocal
  <1>9. Locals'
    <2>1. workload' = workload /\ alive' = alive
      BY DEF SetValue, queue, ghosts
    <2>2. \A u \in Thread \ {t} : pc'[u] = pc[u] /\ local'[u] = local[u] /\ hazard_'[u] = hazard_[u]
      BY <1>1 DEF SetValue, QueueType, Goto, EndRound, hazard
    <2>3. \A u \in Thread \ {t} :
            pc[u] \in {"help", "swing", "advance"} /\ local[u].node \in alive' =>
              local[u].node \in alive /\ block'[local[u].node].next = block[local[u].node].next
      BY <1>1, <1>4, <2>1 DEF QueueType
    <2> QED BY <1>1, <1>8, <2>1, <2>2, <2>3, LocalsMoved
  <1> QED BY <1>6, <1>7, <1>9, Quiet

LEMMA ReadWritePosSafe ==
  ASSUME MpmcQueueAssumption, HazardInv, NEW t \in Thread, ReadWritePos(t)
  PROVE  HazardInv'
PROOF
  <1>1. QueueType /\ Locals
    BY DEF HazardInv
  <1>2. /\ local[t] \in Variables /\ local \in [Thread -> Variables] /\ block \in [Node -> NodeBlock]
        /\ local[t].node \in Pointer /\ local[t].next \in Pointer /\ local[t].pos \in Nat
    BY <1>1 DEF QueueType, Variables
  <1>3. pc[t] \in Using => local[t].node \in Node
    BY <1>1 DEF Locals
  <1>4. block' = block
    BY DEF ReadWritePos, queue
  <1>5. local' \in [Thread -> Variables]
    <2>1. block[local[t].node].write_pos \in Nat
      BY <1>2, <1>3, BlockWritten DEF ReadWritePos, Using
    <2>2. [local[t] EXCEPT !.pos = block[local[t].node].write_pos] \in Variables
      BY <1>2, <2>1, LocalWritten
    <2> QED BY <1>2, <2>2 DEF ReadWritePos
  <1>6. QueueType'
    <2>1. pc' \in [Thread -> PusherPlace \union PopperPlace]
      BY <1>1 DEF ReadWritePos, QueueType, Goto, EndRound, PusherPlace, PopperPlace
    <2>2. hazard_' \in [Thread -> Pointer] /\ workload' = workload /\ begun' \in [Thread -> Nat]
      BY <1>1, <1>2 DEF ReadWritePos, QueueType, hazard, ghosts, Pointer
    <2>3. UNCHANGED <<write_pos_, read_pos_, alive, to_delete_>>
      BY DEF ReadWritePos, queue, hazard
    <2> QED BY <1>1, <1>4, <1>5, <2>1, <2>2, <2>3 DEF QueueType
  <1>7. QuietStep(t)
    BY <1>1, <1>4 DEF ReadWritePos, QuietStep, QueueType, Goto, Using, queue, hazard, ghosts
  <1>8. LocalsOf(t)'
    <2>1. LocalsOf(t)
      BY <1>1 DEF Locals, LocalsOf
    <2>2. Pusher' = Pusher /\ Popper' = Popper /\ alive' = alive
      BY DEF ReadWritePos, Pusher, Popper, queue, ghosts
    <2> QED BY <1>1, <1>2, <1>3, <1>4, <2>1, <2>2 DEF ReadWritePos, LocalsOf, QueueType, Goto, Using, Popper,
      PusherPlace, PopperPlace, Pointer, queue, hazard, ghosts
  <1>9. Locals'
    <2>1. workload' = workload /\ alive' = alive
      BY DEF ReadWritePos, queue, ghosts
    <2>2. \A u \in Thread \ {t} : pc'[u] = pc[u] /\ local'[u] = local[u] /\ hazard_'[u] = hazard_[u]
      BY <1>1 DEF ReadWritePos, QueueType, Goto, EndRound, hazard
    <2>3. \A u \in Thread \ {t} :
            pc[u] \in {"help", "swing", "advance"} /\ local[u].node \in alive' =>
              local[u].node \in alive /\ block'[local[u].node].next = block[local[u].node].next
      BY <1>1, <1>4, <2>1 DEF QueueType
    <2> QED BY <1>1, <1>8, <2>1, <2>2, <2>3, LocalsMoved
  <1> QED BY <1>6, <1>7, <1>9, Quiet

LEMMA ComparePosSafe ==
  ASSUME MpmcQueueAssumption, HazardInv, NEW t \in Thread, ComparePos(t)
  PROVE  HazardInv'
PROOF
  <1>1. QueueType /\ Locals
    BY DEF HazardInv
  <1>2. /\ local[t] \in Variables /\ local \in [Thread -> Variables] /\ block \in [Node -> NodeBlock]
        /\ local[t].node \in Pointer /\ local[t].next \in Pointer /\ local[t].pos \in Nat
    BY <1>1 DEF QueueType, Variables
  <1>3. pc[t] \in Using => local[t].node \in Node
    BY <1>1 DEF Locals
  <1>4. block' = block
    BY DEF ComparePos, queue
  <1>5. local' \in [Thread -> Variables]
    <2>1. 0 \in Nat
      BY <1>2, <1>3, BlockWritten DEF ComparePos, Using
    <2>2. [local[t] EXCEPT !.pos = 0] \in Variables
      BY <1>2, <2>1, LocalWritten
    <2> QED BY <1>2, <2>2 DEF ComparePos
  <1>6. QueueType'
    <2>1. pc' \in [Thread -> PusherPlace \union PopperPlace]
      BY <1>1 DEF ComparePos, QueueType, Goto, EndRound, PusherPlace, PopperPlace
    <2>2. hazard_' \in [Thread -> Pointer] /\ workload' = workload /\ begun' \in [Thread -> Nat]
      BY <1>1, <1>2 DEF ComparePos, QueueType, hazard, ghosts, Pointer
    <2>3. UNCHANGED <<write_pos_, read_pos_, alive, to_delete_>>
      BY DEF ComparePos, queue, hazard
    <2> QED BY <1>1, <1>4, <1>5, <2>1, <2>2, <2>3 DEF QueueType
  <1>7. QuietStep(t)
    BY <1>1, <1>4 DEF ComparePos, QuietStep, QueueType, Goto, Using, queue, hazard, ghosts
  <1>8. LocalsOf(t)'
    <2>1. LocalsOf(t)
      BY <1>1 DEF Locals, LocalsOf
    <2>2. Pusher' = Pusher /\ Popper' = Popper /\ alive' = alive
      BY DEF ComparePos, Pusher, Popper, queue, ghosts
    <2> QED BY <1>1, <1>2, <1>3, <1>4, <2>1, <2>2 DEF ComparePos, LocalsOf, QueueType, Goto, Using, Popper,
      PusherPlace, PopperPlace, Pointer, queue, hazard, ghosts
  <1>9. Locals'
    <2>1. workload' = workload /\ alive' = alive
      BY DEF ComparePos, queue, ghosts
    <2>2. \A u \in Thread \ {t} : pc'[u] = pc[u] /\ local'[u] = local[u] /\ hazard_'[u] = hazard_[u]
      BY <1>1 DEF ComparePos, QueueType, Goto, EndRound, hazard
    <2>3. \A u \in Thread \ {t} :
            pc[u] \in {"help", "swing", "advance"} /\ local[u].node \in alive' =>
              local[u].node \in alive /\ block'[local[u].node].next = block[local[u].node].next
      BY <1>1, <1>4, <2>1 DEF QueueType
    <2> QED BY <1>1, <1>8, <2>1, <2>2, <2>3, LocalsMoved
  <1> QED BY <1>6, <1>7, <1>9, Quiet

LEMMA IsLastSafe ==
  ASSUME MpmcQueueAssumption, HazardInv, NEW t \in Thread, IsLast(t)
  PROVE  HazardInv'
PROOF
  <1>1. QueueType /\ Locals
    BY DEF HazardInv
  <1>2. /\ local[t] \in Variables /\ local \in [Thread -> Variables] /\ block \in [Node -> NodeBlock]
        /\ local[t].node \in Pointer /\ local[t].next \in Pointer /\ local[t].pos \in Nat
    BY <1>1 DEF QueueType, Variables
  <1>3. pc[t] \in Using => local[t].node \in Node
    BY <1>1 DEF Locals
  <1>4. block' = block
    BY DEF IsLast, queue
  <1>5. local' \in [Thread -> Variables]
    BY <1>2, LocalWritten DEF IsLast, EndRound
  <1>6. QueueType'
    <2>1. pc' \in [Thread -> PusherPlace \union PopperPlace]
      BY <1>1 DEF IsLast, QueueType, Goto, EndRound, PusherPlace, PopperPlace
    <2>2. hazard_' \in [Thread -> Pointer] /\ workload' = workload /\ begun' \in [Thread -> Nat]
      BY <1>1, <1>2 DEF IsLast, QueueType, hazard, ghosts, Pointer
    <2>3. UNCHANGED <<write_pos_, read_pos_, alive, to_delete_>>
      BY DEF IsLast, queue, hazard
    <2> QED BY <1>1, <1>4, <1>5, <2>1, <2>2, <2>3 DEF QueueType
  <1>7. QuietStep(t)
    BY <1>1, <1>4 DEF IsLast, QuietStep, QueueType, Goto, Using, queue, hazard, ghosts, EndRound, NoLocal
  <1>8. LocalsOf(t)'
    <2>1. LocalsOf(t)
      BY <1>1 DEF Locals, LocalsOf
    <2>2. Pusher' = Pusher /\ Popper' = Popper /\ alive' = alive
      BY DEF IsLast, Pusher, Popper, queue, ghosts
    <2> QED BY <1>1, <1>2, <1>3, <1>4, <2>1, <2>2 DEF IsLast, LocalsOf, QueueType, Goto, Using, Popper,
      PusherPlace, PopperPlace, Pointer, queue, hazard, ghosts, EndRound, NoLocal
  <1>9. Locals'
    <2>1. workload' = workload /\ alive' = alive
      BY DEF IsLast, queue, ghosts
    <2>2. \A u \in Thread \ {t} : pc'[u] = pc[u] /\ local'[u] = local[u] /\ hazard_'[u] = hazard_[u]
      BY <1>1 DEF IsLast, QueueType, Goto, EndRound, hazard
    <2>3. \A u \in Thread \ {t} :
            pc[u] \in {"help", "swing", "advance"} /\ local[u].node \in alive' =>
              local[u].node \in alive /\ block'[local[u].node].next = block[local[u].node].next
      BY <1>1, <1>4, <2>1 DEF QueueType
    <2> QED BY <1>1, <1>8, <2>1, <2>2, <2>3, LocalsMoved
  <1> QED BY <1>6, <1>7, <1>9, Quiet

LEMMA ClaimReadSafe ==
  ASSUME MpmcQueueAssumption, HazardInv, NEW t \in Thread, ClaimRead(t)
  PROVE  HazardInv'
PROOF
  <1>1. QueueType /\ Locals
    BY DEF HazardInv
  <1>2. /\ local[t] \in Variables /\ local \in [Thread -> Variables] /\ block \in [Node -> NodeBlock]
        /\ local[t].node \in Pointer /\ local[t].next \in Pointer /\ local[t].pos \in Nat
    BY <1>1 DEF QueueType, Variables
  <1>3. pc[t] \in Using => local[t].node \in Node
    BY <1>1 DEF Locals
  <1>4. block' \in [Node -> NodeBlock] /\ \A m \in Node : block'[m].next = block[m].next
    <2>1. local[t].node \in Node
      BY <1>3 DEF ClaimRead, Using
    <2>2. block[local[t].node].read_pos \in Nat
      BY <1>2, <2>1, BlockWritten
    <2>3. block[local[t].node].read_pos + 1 \in Nat
      BY <2>2
    <2>4. block' = [block EXCEPT ![local[t].node].read_pos = block[local[t].node].read_pos + 1]
      BY DEF ClaimRead
    <2> QED BY <1>2, <2>1, <2>3, <2>4, BlockWritten
  <1>5. local' \in [Thread -> Variables]
    <2>1. block[local[t].node].read_pos \in Nat
      BY <1>2, <1>3, BlockWritten DEF ClaimRead, Using
    <2>2. [local[t] EXCEPT !.pos = block[local[t].node].read_pos] \in Variables
      BY <1>2, <2>1, LocalWritten
    <2> QED BY <1>2, <2>2 DEF ClaimRead
  <1>6. QueueType'
    <2>1. pc' \in [Thread -> PusherPlace \union PopperPlace]
      BY <1>1 DEF ClaimRead, QueueType, Goto, EndRound, PusherPlace, PopperPlace
    <2>2. hazard_' \in [Thread -> Pointer] /\ workload' = workload /\ begun' \in [Thread -> Nat]
      BY <1>1, <1>2 DEF ClaimRead, QueueType, hazard, ghosts, Pointer
    <2>3. UNCHANGED <<write_pos_, read_pos_, alive, to_delete_>>
      BY DEF ClaimRead, queue, hazard
    <2> QED BY <1>1, <1>4, <1>5, <2>1, <2>2, <2>3 DEF QueueType
  <1>7. QuietStep(t)
    BY <1>1, <1>4 DEF ClaimRead, QuietStep, QueueType, Goto, Using, queue, hazard, ghosts
  <1>8. LocalsOf(t)'
    <2>1. LocalsOf(t)
      BY <1>1 DEF Locals, LocalsOf
    <2>2. Pusher' = Pusher /\ Popper' = Popper /\ alive' = alive
      BY DEF ClaimRead, Pusher, Popper, queue, ghosts
    <2> QED BY <1>1, <1>2, <1>3, <1>4, <2>1, <2>2 DEF ClaimRead, LocalsOf, QueueType, Goto, Using, Popper,
      PusherPlace, PopperPlace, Pointer, queue, hazard, ghosts
  <1>9. Locals'
    <2>1. workload' = workload /\ alive' = alive
      BY DEF ClaimRead, queue, ghosts
    <2>2. \A u \in Thread \ {t} : pc'[u] = pc[u] /\ local'[u] = local[u] /\ hazard_'[u] = hazard_[u]
      BY <1>1 DEF ClaimRead, QueueType, Goto, EndRound, hazard
    <2>3. \A u \in Thread \ {t} :
            pc[u] \in {"help", "swing", "advance"} /\ local[u].node \in alive' =>
              local[u].node \in alive /\ block'[local[u].node].next = block[local[u].node].next
      BY <1>1, <1>4, <2>1 DEF QueueType
    <2> QED BY <1>1, <1>8, <2>1, <2>2, <2>3, LocalsMoved
  <1> QED BY <1>6, <1>7, <1>9, Quiet

LEMMA GetValueSafe ==
  ASSUME MpmcQueueAssumption, HazardInv, NEW t \in Thread, GetValue(t)
  PROVE  HazardInv'
PROOF
  <1>1. QueueType /\ Locals
    BY DEF HazardInv
  <1>2. /\ local[t] \in Variables /\ local \in [Thread -> Variables] /\ block \in [Node -> NodeBlock]
        /\ local[t].node \in Pointer /\ local[t].next \in Pointer /\ local[t].pos \in Nat
    BY <1>1 DEF QueueType, Variables
  <1>3. pc[t] \in Using => local[t].node \in Node
    BY <1>1 DEF Locals
  <1>4. block' \in [Node -> NodeBlock] /\ \A m \in Node : block'[m].next = block[m].next
    <2>1. Taken \in OneValue
      BY MpmcQueueAssumption DEF OneValue, Taken
    <2>2. PICK q \in Node, j \in Nat : block' = [block EXCEPT ![q].data[j] = Taken]
      BY <1>2, <1>3 DEF GetValue, Using
    <2>3. ASSUME NEW n \in Node, NEW i \in Nat, NEW v \in OneValue, block' = [block EXCEPT ![n].data[i] = v]
          PROVE  block' \in [Node -> NodeBlock] /\ \A m \in Node : block'[m].next = block[m].next
      <3>1. block[n].data \in [Slot -> OneValue]
        BY <1>2 DEF NodeBlock
      <3>2. PICK d : d = [block[n].data EXCEPT ![i] = v]
        OBVIOUS
      <3>3. d \in [Slot -> OneValue]
        BY <3>1, <3>2
      <3>4. block' = [block EXCEPT ![n].data = d]
        BY <2>3, <3>2
      <3> QED BY <1>2, <3>3, <3>4, DataWritten
    <2> QED BY <2>1, <2>2, <2>3
  <1>5. local' \in [Thread -> Variables]
    BY <1>2, LocalWritten DEF GetValue, EndRound
  <1>6. QueueType'
    <2>1. pc' \in [Thread -> PusherPlace \union PopperPlace]
      BY <1>1 DEF GetValue, QueueType, Goto, EndRound, PusherPlace, PopperPlace
    <2>2. hazard_' \in [Thread -> Pointer] /\ workload' = workload /\ begun' \in [Thread -> Nat]
      BY <1>1, <1>2 DEF GetValue, QueueType, hazard, ghosts, Pointer
    <2>3. UNCHANGED <<write_pos_, read_pos_, alive, to_delete_>>
      BY DEF GetValue, queue, hazard
    <2> QED BY <1>1, <1>4, <1>5, <2>1, <2>2, <2>3 DEF QueueType
  <1>7. QuietStep(t)
    BY <1>1, <1>4 DEF GetValue, QuietStep, QueueType, Goto, Using, queue, hazard, ghosts, EndRound, NoLocal
  <1>8. LocalsOf(t)'
    <2>1. LocalsOf(t)
      BY <1>1 DEF Locals, LocalsOf
    <2>2. Pusher' = Pusher /\ Popper' = Popper /\ alive' = alive
      BY DEF GetValue, Pusher, Popper, queue, ghosts
    <2> QED BY <1>1, <1>2, <1>3, <1>4, <2>1, <2>2 DEF GetValue, LocalsOf, QueueType, Goto, Using, Popper,
      PusherPlace, PopperPlace, Pointer, queue, hazard, ghosts, EndRound, NoLocal
  <1>9. Locals'
    <2>1. workload' = workload /\ alive' = alive
      BY DEF GetValue, queue, ghosts
    <2>2. \A u \in Thread \ {t} : pc'[u] = pc[u] /\ local'[u] = local[u] /\ hazard_'[u] = hazard_[u]
      BY <1>1 DEF GetValue, QueueType, Goto, EndRound, hazard
    <2>3. \A u \in Thread \ {t} :
            pc[u] \in {"help", "swing", "advance"} /\ local[u].node \in alive' =>
              local[u].node \in alive /\ block'[local[u].node].next = block[local[u].node].next
      BY <1>1, <1>4, <2>1 DEF QueueType
    <2> QED BY <1>1, <1>8, <2>1, <2>2, <2>3, LocalsMoved
  <1> QED BY <1>6, <1>7, <1>9, Quiet

LEMMA FollowSafe ==
  ASSUME MpmcQueueAssumption, HazardInv, NEW t \in Thread, Follow(t)
  PROVE  HazardInv'
PROOF
  <1>1. QueueType /\ Locals
    BY DEF HazardInv
  <1>2. /\ local[t] \in Variables /\ local \in [Thread -> Variables] /\ block \in [Node -> NodeBlock]
        /\ local[t].node \in Pointer /\ local[t].next \in Pointer /\ local[t].pos \in Nat
    BY <1>1 DEF QueueType, Variables
  <1>3. pc[t] \in Using => local[t].node \in Node
    BY <1>1 DEF Locals
  <1>4. block' = block
    BY DEF Follow, queue
  <1>5. local' \in [Thread -> Variables]
    <2>1. block[local[t].node].next \in Pointer
      BY <1>2, <1>3, BlockWritten DEF Follow, Using
    <2>2. [local[t] EXCEPT !.next = block[local[t].node].next] \in Variables /\ NoLocal \in Variables
      BY <1>2, <2>1, LocalWritten
    <2> QED BY <1>2, <2>2 DEF Follow, EndRound
  <1>6. QueueType'
    <2>1. pc' \in [Thread -> PusherPlace \union PopperPlace]
      BY <1>1 DEF Follow, QueueType, Goto, EndRound, PusherPlace, PopperPlace
    <2>2. hazard_' \in [Thread -> Pointer] /\ workload' = workload /\ begun' \in [Thread -> Nat]
      BY <1>1, <1>2 DEF Follow, QueueType, hazard, ghosts, Pointer
    <2>3. UNCHANGED <<write_pos_, read_pos_, alive, to_delete_>>
      BY DEF Follow, queue, hazard
    <2> QED BY <1>1, <1>4, <1>5, <2>1, <2>2, <2>3 DEF QueueType
  <1>7. QuietStep(t)
    <2>1. local'[t].node = local[t].node \/ pc'[t] = "return"
      BY <1>1, <1>2 DEF Follow, EndRound, Goto, QueueType, Variables
    <2>2. pc[t] = "follow" /\ pc'[t] \in {"return", "advance"}
      BY <1>1 DEF Follow, EndRound, Goto, QueueType
    <2>3. \A u \in Thread \ {t} : pc'[u] = pc[u] /\ local'[u] = local[u]
      BY <1>1 DEF Follow, EndRound, Goto, QueueType
    <2> QED BY <1>4, <2>1, <2>2, <2>3 DEF QuietStep, Follow, queue, hazard, ghosts, Using
  <1>8. LocalsOf(t)'
    <2>1. LocalsOf(t) /\ pc[t] = "follow"
      BY <1>1 DEF Locals, LocalsOf, Follow
    <2>2. Pusher' = Pusher /\ Popper' = Popper /\ alive' = alive /\ hazard_' = hazard_
      BY DEF Follow, Pusher, Popper, queue, hazard, ghosts
    <2>3. CASE block[local[t].node].next = NoNode
      <3>1. pc'[t] = "return"
        BY <1>1, <2>3 DEF Follow, EndRound, Goto, QueueType
      <3> QED BY <2>2, <3>1, <2>1 DEF LocalsOf, Using, PusherPlace, PopperPlace
    <2>4. CASE block[local[t].node].next # NoNode
      <3>1. /\ pc'[t] = "advance" /\ local'[t].node = local[t].node
            /\ local'[t].next = block[local[t].node].next
        BY <1>1, <1>2, <2>4 DEF Follow, Goto, QueueType, Variables
      <3>2. local[t].node \in Node /\ block[local[t].node].next \in Node
        BY <1>2, <1>3, <2>1, <2>4, BlockWritten DEF Using, Pointer
      <3> QED BY <1>4, <2>1, <2>2, <3>1, <3>2 DEF LocalsOf, Using, PusherPlace, PopperPlace
    <2> QED BY <2>3, <2>4
  <1>9. Locals'
    <2>1. workload' = workload /\ alive' = alive
      BY DEF Follow, queue, ghosts
    <2>2. \A u \in Thread \ {t} : pc'[u] = pc[u] /\ local'[u] = local[u] /\ hazard_'[u] = hazard_[u]
      BY <1>1 DEF Follow, QueueType, Goto, EndRound, hazard
    <2>3. \A u \in Thread \ {t} :
            pc[u] \in {"help", "swing", "advance"} /\ local[u].node \in alive' =>
              local[u].node \in alive /\ block'[local[u].node].next = block[local[u].node].next
      BY <1>1, <1>4, <2>1 DEF QueueType
    <2> QED BY <1>1, <1>8, <2>1, <2>2, <2>3, LocalsMoved
  <1> QED BY <1>6, <1>7, <1>9, Quiet

-----------------------------------------------------------------------------
(* Steps of producers that change the list                                    *)

LEMMA LoadNextSafe ==
  ASSUME MpmcQueueAssumption, HazardInv, \A t \in Thread : ~Dangling(t), NEW t \in Thread, LoadNext(t)
  PROVE  HazardInv'
PROOF
  <1>1. QueueType /\ Locals /\ New /\ List /\ Left /\ WritePos /\ Protected
    BY DEF HazardInv
  <1>2. /\ local[t] \in Variables /\ local \in [Thread -> Variables] /\ block \in [Node -> NodeBlock]
        /\ pc \in [Thread -> PusherPlace \union PopperPlace]
    BY <1>1 DEF QueueType
  <1>3. PICK k : k = local[t].node
    OBVIOUS
  <1>4. pc[t] = "load_next" /\ k \in Node /\ hazard_[t] = k /\ t \in Pusher
    <2>1. pc[t] = "load_next"
      BY DEF LoadNext
    <2> QED BY <1>1, <1>3, <2>1 DEF Locals, Using, PopperPlace
  <1>5. UNCHANGED <<write_pos_, read_pos_, hazard_, to_delete_, workload, begun>>
    BY DEF LoadNext, hazard, ghosts
  <1>6. Pusher' = Pusher /\ Popper' = Popper
    BY <1>5 DEF Pusher, Popper
  <1>7. \A u \in Thread : pc[u] \in Using => local[u].node \in alive
    BY DEF Dangling
  <1>8. CASE block[k].next # NoNode
    <2>1. /\ local' = [local EXCEPT ![t].next = block[k].next] /\ pc' = [pc EXCEPT ![t] = "help"]
          /\ UNCHANGED <<alive, block>>
      BY <1>3, <1>8 DEF LoadNext, Goto
    <2>2. block[k].next \in Node
      BY <1>2, <1>4, <1>8, BlockWritten DEF Pointer
    <2>3. local' \in [Thread -> Variables]
      <3>1. [local[t] EXCEPT !.next = block[k].next] \in Variables
        BY <1>2, <2>2, LocalWritten DEF Pointer
      <3> QED BY <1>2, <2>1, <3>1
    <2>4. pc' \in [Thread -> PusherPlace \union PopperPlace]
      BY <1>2, <2>1 DEF PusherPlace
    <2>5. QueueType'
      BY <1>1, <1>5, <2>1, <2>3, <2>4 DEF QueueType
    <2>6. pc'[t] = "help" /\ local'[t].node = k /\ local'[t].next = block[k].next
      BY <1>2, <1>3, <2>1 DEF Variables
    <2>7. \A u \in Thread \ {t} : pc'[u] = pc[u] /\ local'[u] = local[u] /\ hazard_'[u] = hazard_[u]
      BY <1>2, <1>5, <2>1
    <2>8. LocalsOf(t)'
      BY <1>4, <1>5, <1>6, <2>1, <2>2, <2>6 DEF LocalsOf, PusherPlace
    <2>9. Locals'
      BY <1>1, <1>5, <2>1, <2>7, <2>8, LocalsMoved
    <2>10. QuietStep(t)
      BY <1>3, <1>4, <1>5, <2>1, <2>6, <2>7 DEF QuietStep, Using
    <2> QED BY <2>5, <2>9, <2>10, Quiet
  <1>9. CASE block[k].next = NoNode
    <2>1. PICK n \in Node \ alive :
            /\ alive' = alive \union {n}
            /\ block' = [block EXCEPT ![n] = [FreshBlock EXCEPT !.write_pos = 1, !.data[0] = Pushing(t)]]
            /\ local' = [local EXCEPT ![t].next = n]
            /\ pc' = [pc EXCEPT ![t] = "link"]
      BY <1>3, <1>9 DEF LoadNext, Goto
    <2>2. [FreshBlock EXCEPT !.write_pos = 1, !.data[0] = Pushing(t)] \in NodeBlock
      <3>1. Pushing(t) \in OneValue /\ Empty \in OneValue
        BY <1>1, MpmcQueueAssumption DEF Pushing, OneValue, QueueType, Thread, Empty
      <3>2. PICK d : d = [i \in Slot |-> Empty]
        OBVIOUS
      <3>3. d \in [Slot -> OneValue] /\ [d EXCEPT ![0] = Pushing(t)] \in [Slot -> OneValue]
        BY <3>1, <3>2
      <3>4. PICK e : e = [d EXCEPT ![0] = Pushing(t)]
        OBVIOUS
      <3>5. FreshBlock = [write_pos |-> 0, read_pos |-> 0, next |-> NoNode, data |-> d]
        BY <3>2 DEF FreshBlock
      <3>6. FreshBlock.data = d
        BY <3>5
      <3>7. [FreshBlock EXCEPT !.write_pos = 1, !.data[0] = Pushing(t)]
              = [FreshBlock EXCEPT !.write_pos = 1, !.data = e]
        BY <3>4, <3>5, <3>6
      <3> QED BY <3>3, <3>4, <3>5, <3>7 DEF NodeBlock, Pointer
    <2>3. block' \in [Node -> NodeBlock]
      BY <1>2, <2>1, <2>2
    <2>4. block'[n].next = NoNode /\ \A m \in Node : m # n => block'[m].next = block[m].next
      BY <1>2, <2>1 DEF FreshBlock
    <2>5. local' \in [Thread -> Variables]
      <3>1. [local[t] EXCEPT !.next = n] \in Variables
        BY <1>2, LocalWritten DEF Pointer
      <3> QED BY <1>2, <2>1, <3>1
    <2>6. pc' \in [Thread -> PusherPlace \union PopperPlace]
      BY <1>2, <2>1 DEF PusherPlace
    <2>7. QueueType'
      BY <1>1, <1>5, <2>1, <2>3, <2>5, <2>6 DEF QueueType
    <2>8. pc'[t] = "link" /\ local'[t].node = k /\ local'[t].next = n
      BY <1>2, <1>3, <2>1 DEF Variables
    <2>9. \A u \in Thread \ {t} : pc'[u] = pc[u] /\ local'[u] = local[u] /\ hazard_'[u] = hazard_[u]
      BY <1>2, <1>5, <2>1
    <2>10. Locals'
      <3>1. LocalsOf(t)'
        BY <1>4, <1>5, <1>6, <2>8 DEF LocalsOf, PusherPlace
      <3>2. \A u \in Thread \ {t} :
              pc[u] \in {"help", "swing", "advance"} /\ local[u].node \in alive' =>
                local[u].node \in alive /\ block'[local[u].node].next = block[local[u].node].next
        BY <1>7, <1>1, <2>1, <2>4 DEF Using, QueueType
      <3> QED BY <1>1, <1>5, <2>9, <3>1, <3>2, LocalsMoved
    <2>11. ~Unlinked(n) /\ ~Retired(n) /\ ~Linked(n)
      BY <1>1, <2>1 DEF New, Unlinked, Left, Linked
    <2>12. \A m : Unlinked(m)' <=> Unlinked(m) \/ m = n
      BY <1>4, <2>8, <2>9 DEF Unlinked
    <2>13. \A u \in Thread : \A m : RetiredBy(u, m)' <=> RetiredBy(u, m)
      BY <1>4, <1>5, <2>8, <2>9 DEF RetiredBy
    <2>14. \A m : Retired(m)' <=> Retired(m)
      BY <2>13 DEF Retired
    <2>15. \A m : Linked(m)' <=> Linked(m)
      BY <2>1, <2>11, <2>12, <2>14 DEF Linked
    <2>16. New'
      <3>1. SUFFICES ASSUME NEW u \in Thread, pc'[u] = "link", NEW v \in Thread
                     PROVE  /\ local'[u].next \in alive' /\ block'[local'[u].next].next = NoNode
                            /\ pc'[v] = "link" /\ local'[v].next = local'[u].next => v = u
                            /\ pc'[v] \in Using => local'[v].node # local'[u].next
        BY DEF New
      <3>2. pc'[v] \in Using => local'[v].node = local[v].node /\ local[v].node \in alive /\ pc[v] \in Using
        BY <1>3, <1>4, <1>7, <2>8, <2>9 DEF Using
      <3>3. CASE u = t
        <4>1. pc'[v] = "link" /\ v # t => local[v].next \in alive /\ local'[v] = local[v]
          BY <1>1, <2>9 DEF New
        <4> QED BY <2>1, <2>4, <2>8, <3>2, <3>3, <4>1
      <3>4. CASE u # t
        <4>1. pc[u] = "link" /\ local'[u] = local[u]
          BY <2>9, <3>1, <3>4
        <4>2. /\ local[u].next \in alive /\ block[local[u].next].next = NoNode
              /\ pc[v] = "link" /\ local[v].next = local[u].next => v = u
              /\ pc[v] \in Using => local[v].node # local[u].next
          BY <1>1, <4>1 DEF New
        <4>3. local[u].next \in Node /\ local[u].next # n
          BY <1>1, <2>1, <4>2 DEF QueueType
        <4>4. v # t => pc'[v] = pc[v] /\ local'[v] = local[v]
          BY <2>9
        <4>5. local'[u].next \in alive' /\ block'[local'[u].next].next = NoNode
          BY <2>1, <2>4, <4>1, <4>2, <4>3
        <4>6. pc'[v] \in Using => local'[v].node # local'[u].next
          BY <3>2, <4>1, <4>2
        <4>7. CASE v = t
          BY <2>8, <4>1, <4>3, <4>5, <4>6, <4>7
        <4>8. CASE v # t
          BY <4>1, <4>2, <4>4, <4>5, <4>6, <4>8
        <4> QED BY <4>7, <4>8
      <3> QED BY <3>3, <3>4
    <2>17. List'
      <3>1. \A m \in Node : Linked(m) => block'[m].next = block[m].next
        BY <2>4, <2>11
      <3> QED BY <1>1, <1>5, <2>15, <3>1 DEF List
    <2>18. Left'
      <3>1. \A m \in Node : Retired(m) => block'[m].next = block[m].next /\ m # n
        BY <2>4, <2>11
      <3>2. \A u \in Thread : pc'[u] = "retire" => pc[u] = "retire" /\ local'[u] = local[u]
        BY <2>8, <2>9
      <3> QED BY <1>1, <1>5, <2>1, <2>12, <2>13, <2>14, <3>1, <3>2 DEF Left
    <2>19. WritePos'
      <3>1. write_pos_ \in alive /\ write_pos_ # n /\ write_pos_ \in Node /\ ~Unlinked(write_pos_)
        BY <1>1, <2>1 DEF WritePos, QueueType
      <3>2. block'[write_pos_].next = block[write_pos_].next /\ write_pos_' = write_pos_
        BY <1>5, <2>4, <3>1
      <3>3. ASSUME block[write_pos_].next # NoNode
            PROVE  /\ Linked(block[write_pos_].next)' /\ block'[block[write_pos_].next].next = NoNode
                   /\ \E u \in Thread : pc'[u] = "swing" /\ local'[u].node = write_pos_
        <4>1. PICK m : m = block[write_pos_].next
          OBVIOUS
        <4>2. Linked(m) /\ block[m].next = NoNode /\ m \in Node
          BY <1>1, <3>3, <4>1 DEF WritePos, Linked, QueueType
        <4>3. Linked(m)' /\ block'[m].next = NoNode
          BY <2>4, <2>15, <4>2
        <4>4. PICK u \in Thread : pc[u] = "swing" /\ local[u].node = write_pos_
          BY <1>1, <3>3 DEF WritePos
        <4>5. block[write_pos_].next = m /\ block'[write_pos_].next = m
          BY <3>2, <4>1
        <4>6. Linked(block[write_pos_].next)'
          BY <3>2, <4>3, <4>5 DEF Linked, Unlinked, Retired, RetiredBy
        <4> QED BY <1>4, <2>9, <4>3, <4>4, <4>5, <4>6
      <3>4. ASSUME NEW u \in Pusher, pc'[u] \in Using, block'[local'[u].node].next = NoNode
            PROVE  local'[u].node = write_pos_
        <4>1. u \in Thread
          BY DEF Pusher
        <4>2. local'[u].node = local[u].node /\ pc[u] \in Using /\ local[u].node \in alive
          BY <1>3, <1>4, <1>7, <2>8, <2>9, <3>4, <4>1 DEF Using
        <4>3. local[u].node # n /\ local[u].node \in Node
          BY <1>1, <2>1, <4>2 DEF QueueType
        <4> QED BY <1>1, <2>4, <3>4, <4>2, <4>3 DEF WritePos
      <3>5. ~Unlinked(write_pos_)'
        BY <2>8, <2>9, <3>1, <3>2 DEF Unlinked
      <3> QED BY <1>6, <2>1, <3>1, <3>2, <3>3, <3>4, <3>5 DEF WritePos
    <2>20. Protected'
      <3>1. \A u \in Thread : pc'[u] = "scan" => pc[u] = "scan" /\ local'[u] = local[u]
        BY <2>8, <2>9
      <3>2. ASSUME NEW u \in Popper, pc'[u] \in Using
            PROVE  (local[u].node \in alive /\ Unpassed(u, local[u].node))'
        <4>1. u \in Thread /\ u # t
          BY <1>4 DEF Popper
        <4>2. local[u].node \in alive /\ Unpassed(u, local[u].node)
          BY <1>1, <2>9, <3>2, <4>1 DEF Protected
        <4> QED BY <1>5, <2>1, <2>9, <3>1, <4>1, <4>2 DEF Unpassed
      <3>3. ASSUME NEW u \in Thread, pc'[u] = "swing", local'[u].node = write_pos_
            PROVE  Unpassed(u, write_pos_)'
        <4>1. Unpassed(u, write_pos_)
          BY <1>1, <2>8, <2>9, <3>3 DEF Protected
        <4> QED BY <1>5, <3>1, <4>1 DEF Unpassed
      <3> QED BY <1>5, <1>6, <3>2, <3>3 DEF Protected
    <2> QED BY <2>7, <2>10, <2>16, <2>17, <2>18, <2>19, <2>20 DEF HazardInv
  <1> QED BY <1>8, <1>9

LEMMA LinkSafe ==
  ASSUME MpmcQueueAssumption, HazardInv, \A t \in Thread : ~Dangling(t), NEW t \in Thread, Link(t)
  PROVE  HazardInv'
PROOF
  <1>1. QueueType /\ Locals /\ New /\ List /\ Left /\ WritePos /\ Protected
    BY DEF HazardInv
  <1>2. /\ local[t] \in Variables /\ local \in [Thread -> Variables] /\ block \in [Node -> NodeBlock]
        /\ pc \in [Thread -> PusherPlace \union PopperPlace]
    BY <1>1 DEF QueueType
  <1>3. PICK k, m : k = local[t].node /\ m = local[t].next
    OBVIOUS
  <1>4. pc[t] = "link"
    BY DEF Link
  <1>5. /\ k \in Node /\ m \in Node /\ hazard_[t] = k /\ t \in Pusher /\ k \in alive
        /\ m \in alive /\ block[m].next = NoNode /\ k # m
    BY <1>1, <1>3, <1>4 DEF Locals, Using, PopperPlace, New, Dangling
  <1>6. UNCHANGED <<write_pos_, read_pos_, hazard_, to_delete_, workload, begun>>
    BY DEF Link, hazard, ghosts
  <1>7. Pusher' = Pusher /\ Popper' = Popper
    BY <1>6 DEF Pusher, Popper
  <1>8. \A u \in Thread : pc[u] \in Using => local[u].node \in alive /\ local[u].node # m
    BY <1>1, <1>3, <1>4 DEF Dangling, New
  <1>9. \A u \in Thread : pc[u] = "link" /\ u # t => local[u].next # m /\ local[u].next \in Node
    BY <1>1, <1>3, <1>4 DEF New, QueueType
  <1>10. Unlinked(m) /\ ~Retired(m) /\ ~Linked(m) /\ write_pos_ # m /\ read_pos_ # m
    <2>1. Unlinked(m)
      BY <1>3, <1>4 DEF Unlinked
    <2>2. ~Retired(m)
      BY <1>1, <1>5, <2>1 DEF Left
    <2> QED BY <1>1, <2>1, <2>2 DEF Linked, WritePos, List
  <1>11. CASE block[k].next = NoNode
    <2>1. /\ block' = [block EXCEPT ![k].next = m] /\ pc' = [pc EXCEPT ![t] = "swing"]
          /\ UNCHANGED <<alive, local>>
      BY <1>3, <1>11 DEF Link, Goto
    <2>2. block' \in [Node -> NodeBlock]
      BY <1>2, <1>5, <2>1 DEF NodeBlock, Pointer
    <2>3. block'[k].next = m /\ \A n \in Node : n # k => block'[n].next = block[n].next
      BY <1>2, <1>5, <2>1 DEF NodeBlock
    <2>4. QueueType'
      <3>1. pc' \in [Thread -> PusherPlace \union PopperPlace]
        BY <1>2, <2>1 DEF PusherPlace
      <3> QED BY <1>1, <1>6, <2>1, <2>2, <3>1 DEF QueueType
    <2>5. pc'[t] = "swing" /\ \A u \in Thread \ {t} : pc'[u] = pc[u]
      BY <1>2, <2>1
    <2>6. Locals'
      <3>1. LocalsOf(t)'
        BY <1>3, <1>5, <1>6, <1>7, <2>1, <2>3, <2>5 DEF LocalsOf, PusherPlace
      <3>2. \A u \in Thread \ {t} :
              pc[u] \in {"help", "swing", "advance"} /\ local[u].node \in alive' =>
                local[u].node \in alive /\ block'[local[u].node].next = block[local[u].node].next
        <4>1. SUFFICES ASSUME NEW u \in Thread \ {t}, pc[u] \in {"help", "swing", "advance"}
                       PROVE  local[u].node \in alive /\ block'[local[u].node].next = block[local[u].node].next
          OBVIOUS
        <4>2. local[u].node \in alive /\ local[u].node \in Node
          BY <1>1, <1>8, <4>1 DEF Using, QueueType
        <4>3. block[local[u].node].next = local[u].next /\ local[u].next \in Node
          BY <1>1, <4>1, <4>2 DEF Locals
        <4> QED BY <1>11, <2>3, <4>2, <4>3, MpmcQueueAssumption
      <3>3. \A u \in Thread \ {t} : pc'[u] = pc[u] /\ local'[u] = local[u] /\ hazard_'[u] = hazard_[u]
        BY <1>6, <2>1, <2>5
      <3> QED BY <1>1, <1>6, <3>1, <3>2, <3>3, LocalsMoved
    <2>7. k = write_pos_ /\ Linked(k)
      <3>1. k = write_pos_
        BY <1>1, <1>3, <1>4, <1>5, <1>11 DEF WritePos, Using
      <3> QED BY <1>1, <1>5, <1>11, <3>1 DEF WritePos, Left, Linked
    <2>8. \A n : Unlinked(n)' <=> Unlinked(n) /\ n # m
      BY <1>3, <1>4, <1>9, <2>1, <2>5 DEF Unlinked
    <2>9. \A u \in Thread : \A n : RetiredBy(u, n)' <=> RetiredBy(u, n)
      BY <1>4, <1>6, <2>1, <2>5 DEF RetiredBy
    <2>10. \A n : Retired(n)' <=> Retired(n)
      BY <2>9 DEF Retired
    <2>11. \A n : Linked(n)' <=> Linked(n) \/ n = m
      BY <1>5, <1>10, <2>1, <2>8, <2>10 DEF Linked
    <2>12. New'
      <3>1. SUFFICES ASSUME NEW u \in Thread, pc'[u] = "link", NEW v \in Thread
                     PROVE  /\ local[u].next \in alive /\ block'[local[u].next].next = NoNode
                            /\ pc'[v] = "link" /\ local[v].next = local[u].next => v = u
                            /\ pc'[v] \in Using => local[v].node # local[u].next
        BY <2>1 DEF New
      <3>2. u # t /\ pc[u] = "link"
        BY <2>5, <3>1
      <3>3. pc'[v] \in Using => pc[v] \in Using
        BY <1>4, <2>5 DEF Using
      <3>4. pc'[v] = "link" => pc[v] = "link"
        BY <1>4, <2>5
      <3>5. /\ local[u].next \in alive /\ block[local[u].next].next = NoNode
            /\ pc[v] = "link" /\ local[v].next = local[u].next => v = u
            /\ pc[v] \in Using => local[v].node # local[u].next
            /\ local[u].next # k
        BY <1>1, <1>3, <1>4, <3>2 DEF New, Using
      <3>6. block'[local[u].next].next = NoNode
        BY <1>9, <2>3, <3>2, <3>5
      <3> QED BY <3>3, <3>4, <3>5, <3>6
    <2>13. List'
      <3>1. \A n \in Node : Linked(n) => block[n].next # m
        BY <1>1, <1>10, MpmcQueueAssumption, <1>5 DEF List
      <3>2. Linked(read_pos_)'
        BY <1>1, <1>6, <2>11 DEF List, Linked, Unlinked, Retired, RetiredBy
      <3>3. ASSUME NEW n \in Node, Linked(n)'
            PROVE  (block'[n].next # NoNode => \E q \in Node : q = block'[n].next /\ Linked(q)') /\ block'[n].next # read_pos_
        <4>1. CASE n = k
          BY <1>5, <1>10, <2>3, <2>11, <4>1
        <4>2. CASE n = m
          BY <1>1, <1>5, <2>3, <4>2, MpmcQueueAssumption DEF QueueType
        <4>3. CASE n # k /\ n # m
          <5>1. Linked(n) /\ block'[n].next = block[n].next
            BY <2>3, <2>11, <3>3, <4>3
          <5>2. block[n].next # read_pos_ /\ (block[n].next # NoNode => Linked(block[n].next) /\ block[n].next \in Node)
            BY <1>1, <5>1 DEF List, Linked, QueueType
          <5> QED BY <2>11, <5>1, <5>2
        <4> QED BY <4>1, <4>2, <4>3
      <3>4. ASSUME NEW n \in Node, NEW q \in Node, Linked(n)', Linked(q)', block'[n].next = block'[q].next
            PROVE  n = q \/ block'[n].next = NoNode
        <4>1. CASE n = m \/ q = m
          BY <1>5, <2>3, <3>4, <4>1
        <4>2. CASE n # m /\ q # m
          <5>1. Linked(n) /\ Linked(q)
            BY <2>11, <3>4, <4>2
          <5>2. n # k => block'[n].next = block[n].next /\ block[n].next # m
            BY <2>3, <3>1, <5>1
          <5>3. q # k => block'[q].next = block[q].next /\ block[q].next # m
            BY <2>3, <3>1, <5>1
          <5> QED BY <1>1, <2>3, <3>4, <5>1, <5>2, <5>3 DEF List
        <4> QED BY <4>1, <4>2
      <3>6. ASSUME NEW n \in Node, Linked(n)', block'[n].next # NoNode
            PROVE  Linked(block[n].next)'
        <4>1. PICK q \in Node : q = block'[n].next /\ Linked(q)'
          BY <3>3, <3>6
        <4> QED BY <4>1 DEF Linked, Unlinked, Retired, RetiredBy
      <3> QED BY <1>6, <3>2, <3>3, <3>4, <3>6 DEF List
    <2>14. Left'
      <3>1. \A n \in Node : Retired(n) => n # k /\ block'[n].next = block[n].next
        BY <1>1, <1>11, <2>3 DEF Left
      <3>2. \A u \in Thread : pc'[u] = "retire" => pc[u] = "retire" /\ local'[u] = local[u]
        BY <2>1, <2>5
      <3> QED BY <1>1, <1>6, <2>1, <2>8, <2>9, <2>10, <3>1, <3>2 DEF Left
    <2>15. WritePos'
      <3>1. Linked(m)' /\ block'[m].next = NoNode /\ block'[write_pos_].next = m
        BY <1>5, <2>3, <2>7, <2>11
      <3>2. \E u \in Thread : pc'[u] = "swing" /\ local'[u].node = write_pos_
        BY <1>3, <2>1, <2>5, <2>7
      <3>3. ASSUME NEW u \in Pusher, pc'[u] \in Using, block'[local[u].node].next = NoNode
            PROVE  local[u].node = write_pos_
        <4>1. u \in Thread /\ pc[u] \in Using
          BY <1>4, <2>5, <3>3 DEF Pusher, Using
        <4>2. local[u].node \in alive /\ local[u].node \in Node
          BY <1>1, <1>8, <4>1 DEF QueueType
        <4> QED BY <1>1, <2>3, <2>7, <3>3, <4>1, <4>2 DEF WritePos
      <3>4. write_pos_' = write_pos_ /\ write_pos_ \in alive' /\ ~Unlinked(write_pos_)'
        BY <1>1, <1>6, <2>1, <2>5, <1>4 DEF WritePos, Unlinked
      <3>5. \A n : n = m => Linked(n)'
        BY <3>1
      <3>6. Linked(block[write_pos_].next)'
        BY <3>1, <3>4, <3>5 DEF Linked, Unlinked, Retired, RetiredBy
      <3> QED BY <1>7, <2>1, <3>1, <3>2, <3>3, <3>4, <3>6 DEF WritePos
    <2>16. Protected'
      <3>1. \A u \in Thread : pc'[u] = "scan" => pc[u] = "scan"
        BY <2>5
      <3>2. ASSUME NEW u \in Popper, pc'[u] \in Using
            PROVE  local[u].node \in alive /\ Unpassed(u, local[u].node)'
        <4>1. u \in Thread /\ u # t
          BY <1>5 DEF Popper
        <4>2. local[u].node \in alive /\ Unpassed(u, local[u].node)
          BY <1>1, <2>5, <3>2, <4>1 DEF Protected
        <4> QED BY <1>6, <2>1, <3>1, <4>2 DEF Unpassed
      <3>3. Unpassed(t, write_pos_)'
        <4>1. \A u \in Thread : write_pos_ \notin ToSet(to_delete_[u])
          BY <2>7 DEF Linked, Retired, RetiredBy
        <4> QED BY <1>6, <4>1 DEF Unpassed, ToSet
      <3>4. ASSUME NEW u \in Thread \ {t}, pc'[u] = "swing", local[u].node = write_pos_
            PROVE  Unpassed(u, write_pos_)'
        <4>1. Unpassed(u, write_pos_)
          BY <1>1, <2>5, <3>4 DEF Protected
        <4> QED BY <1>6, <2>1, <3>1, <4>1 DEF Unpassed
      <3> QED BY <1>6, <1>7, <2>1, <3>2, <3>3, <3>4 DEF Protected
    <2> QED BY <2>4, <2>6, <2>12, <2>13, <2>14, <2>15, <2>16 DEF HazardInv
  <1>12. CASE block[k].next # NoNode
    <2>1. /\ block' = [block EXCEPT ![m] = FreshBlock] /\ alive' = alive \ {m}
          /\ pc' = [pc EXCEPT ![t] = "load"] /\ local' = [local EXCEPT ![t] = NoLocal]
      BY <1>3, <1>12 DEF Link, EndRound, Goto
    <2>2. FreshBlock \in NodeBlock /\ FreshBlock.next = NoNode
      <3>1. Empty \in OneValue
        BY MpmcQueueAssumption DEF OneValue, Empty
      <3> QED BY <3>1 DEF FreshBlock, NodeBlock, Pointer
    <2>3. block' \in [Node -> NodeBlock] /\ \A n \in Node : block'[n].next = block[n].next
      BY <1>2, <1>5, <2>1, <2>2
    <2>4. local' \in [Thread -> Variables] /\ pc' \in [Thread -> PusherPlace \union PopperPlace]
      BY <1>2, <2>1, LocalWritten DEF PusherPlace
    <2>5. QueueType'
      BY <1>1, <1>6, <2>1, <2>3, <2>4 DEF QueueType
    <2>6. pc'[t] = "load" /\ \A u \in Thread \ {t} : pc'[u] = pc[u] /\ local'[u] = local[u] /\ hazard_'[u] = hazard_[u]
      BY <1>2, <1>6, <2>1
    <2>7. Locals'
      <3>1. LocalsOf(t)'
        BY <1>5, <1>7, <2>6 DEF LocalsOf, PusherPlace, Using
      <3>2. \A u \in Thread \ {t} :
              pc[u] \in {"help", "swing", "advance"} /\ local[u].node \in alive' =>
                local[u].node \in alive /\ block'[local[u].node].next = block[local[u].node].next
        BY <1>1, <2>1, <2>3 DEF QueueType
      <3> QED BY <1>1, <1>6, <2>6, <3>1, <3>2, LocalsMoved
    <2>8. \A n : Unlinked(n)' <=> Unlinked(n) /\ n # m
      BY <1>3, <1>4, <1>9, <2>6 DEF Unlinked
    <2>9. \A u \in Thread : \A n : RetiredBy(u, n)' <=> RetiredBy(u, n)
      BY <1>4, <1>6, <2>6 DEF RetiredBy
    <2>10. \A n : Retired(n)' <=> Retired(n)
      BY <2>9 DEF Retired
    <2>11. \A n : Linked(n)' <=> Linked(n)
      BY <1>10, <2>1, <2>8, <2>10 DEF Linked
    <2>12. New'
      <3>1. SUFFICES ASSUME NEW u \in Thread, pc'[u] = "link", NEW v \in Thread
                     PROVE  /\ local'[u].next \in alive' /\ block'[local'[u].next].next = NoNode
                            /\ pc'[v] = "link" /\ local'[v].next = local'[u].next => v = u
                            /\ pc'[v] \in Using => local'[v].node # local'[u].next
        BY DEF New
      <3>2. u # t /\ pc[u] = "link" /\ local'[u] = local[u]
        BY <2>6, <3>1
      <3>3. v # t => pc'[v] = pc[v] /\ local'[v] = local[v]
        BY <2>6
      <3>4. /\ local[u].next \in alive /\ block[local[u].next].next = NoNode
            /\ pc[v] = "link" /\ local[v].next = local[u].next => v = u
            /\ pc[v] \in Using => local[v].node # local[u].next
        BY <1>1, <3>2 DEF New
      <3>5. local'[u].next \in alive' /\ block'[local'[u].next].next = NoNode
        BY <1>9, <2>1, <2>3, <3>2, <3>4
      <3> QED BY <2>6, <3>2, <3>3, <3>4, <3>5 DEF Using
    <2>13. List'
      BY <1>1, <1>6, <2>3, <2>11 DEF List
    <2>14. Left'
      <3>1. \A u \in Thread : pc'[u] = "retire" => pc[u] = "retire" /\ local'[u] = local[u]
        BY <2>6
      <3> QED BY <1>1, <1>6, <1>10, <2>1, <2>3, <2>8, <2>9, <2>10, <3>1 DEF Left
    <2>15. WritePos'
      <3>1. write_pos_' = write_pos_ /\ write_pos_ \in alive' /\ ~Unlinked(write_pos_)' /\ write_pos_ \in Node
        BY <1>1, <1>4, <1>6, <1>10, <2>1, <2>6 DEF WritePos, Unlinked, QueueType
      <3>2. ASSUME block[write_pos_].next # NoNode
            PROVE  /\ Linked(block[write_pos_].next)' /\ block'[block[write_pos_].next].next = NoNode
                   /\ \E u \in Thread : pc'[u] = "swing" /\ local'[u].node = write_pos_
        <4>1. PICK q : q = block[write_pos_].next
          OBVIOUS
        <4>2. Linked(q) /\ block[q].next = NoNode /\ q \in Node
          BY <1>1, <3>2, <4>1 DEF WritePos, Linked, QueueType
        <4>3. Linked(q)' /\ block'[q].next = NoNode
          BY <2>3, <2>11, <4>2
        <4>4. PICK u \in Thread : pc[u] = "swing" /\ local[u].node = write_pos_
          BY <1>1, <3>2 DEF WritePos
        <4>5. block'[write_pos_].next = q
          BY <2>3, <3>1, <4>1
        <4>6. Linked(block[write_pos_].next)'
          BY <3>1, <4>3, <4>5 DEF Linked, Unlinked, Retired, RetiredBy
        <4> QED BY <1>4, <2>6, <4>1, <4>3, <4>4, <4>6
      <3>3. ASSUME NEW u \in Pusher, pc'[u] \in Using, block'[local'[u].node].next = NoNode
            PROVE  local'[u].node = write_pos_
        <4>1. u \in Thread /\ u # t
          BY <2>6, <3>3 DEF Pusher, Using
        <4>2. local'[u] = local[u] /\ pc[u] \in Using
          BY <2>6, <3>3, <4>1
        <4>3. local[u].node \in alive /\ local[u].node \in Node
          BY <1>1, <1>8, <4>1, <4>2 DEF QueueType
        <4> QED BY <1>1, <2>3, <3>3, <4>2, <4>3 DEF WritePos
      <3>4. block'[write_pos_].next = block[write_pos_].next
        BY <2>3, <3>1
      <3> QED BY <1>7, <3>1, <3>2, <3>3, <3>4 DEF WritePos
    <2>16. Protected'
      <3>1. \A u \in Thread : pc'[u] = "scan" => pc[u] = "scan" /\ local'[u] = local[u]
        BY <2>6
      <3>2. ASSUME NEW u \in Popper, pc'[u] \in Using
            PROVE  (local[u].node \in alive /\ Unpassed(u, local[u].node))'
        <4>1. u \in Thread /\ u # t
          BY <1>5 DEF Popper
        <4>2. local[u].node \in alive /\ Unpassed(u, local[u].node) /\ local[u].node # m
          BY <1>1, <1>8, <2>6, <3>2, <4>1 DEF Protected
        <4> QED BY <1>6, <2>1, <2>6, <3>1, <4>1, <4>2 DEF Unpassed
      <3>3. ASSUME NEW u \in Thread, pc'[u] = "swing", local'[u].node = write_pos_
            PROVE  Unpassed(u, write_pos_)'
        <4>1. Unpassed(u, write_pos_)
          BY <1>1, <2>6, <3>3 DEF Protected
        <4> QED BY <1>6, <3>1, <4>1 DEF Unpassed
      <3> QED BY <1>6, <1>7, <3>2, <3>3 DEF Protected
    <2> QED BY <2>5, <2>7, <2>12, <2>13, <2>14, <2>15, <2>16 DEF HazardInv
  <1> QED BY <1>11, <1>12

LEMMA SwingWriteSafe ==
  ASSUME MpmcQueueAssumption, HazardInv, \A t \in Thread : ~Dangling(t), NEW t \in Thread, SwingWrite(t)
  PROVE  HazardInv'
PROOF
  <1>1. QueueType /\ Locals /\ New /\ List /\ Left /\ WritePos /\ Protected
    BY DEF HazardInv
  <1>2. /\ local[t] \in Variables /\ local \in [Thread -> Variables]
        /\ pc \in [Thread -> PusherPlace \union PopperPlace]
    BY <1>1 DEF QueueType
  <1>3. PICK k, m : k = local[t].node /\ m = local[t].next
    OBVIOUS
  <1>4. pc[t] \in {"swing", "help"}
    BY DEF SwingWrite
  <1>5. k \in Node /\ m \in Node /\ k \in alive /\ block[k].next = m /\ hazard_[t] = k /\ t \in Pusher
    BY <1>1, <1>3, <1>4 DEF Locals, Using, PopperPlace, Dangling
  <1>6. UNCHANGED <<read_pos_, block, alive, hazard_, to_delete_, workload, begun>>
    BY DEF SwingWrite, hazard, ghosts
  <1>7. Pusher' = Pusher /\ Popper' = Popper
    BY <1>6 DEF Pusher, Popper
  <1>8. \A u \in Thread \ {t} : pc'[u] = pc[u] /\ local'[u] = local[u]
    BY <1>2 DEF SwingWrite, EndRound, Goto
  <1>9. pc'[t] \in {"return", "load"} /\ local'[t] = NoLocal
    BY <1>2 DEF SwingWrite, EndRound, Goto
  <1>10. write_pos_' = IF write_pos_ = k THEN m ELSE write_pos_
    BY <1>3 DEF SwingWrite
  <1>11. QueueType'
    <2>1. pc' \in [Thread -> PusherPlace \union PopperPlace]
      BY <1>2 DEF SwingWrite, EndRound, Goto, PusherPlace
    <2>2. local' \in [Thread -> Variables]
      BY <1>2, LocalWritten DEF SwingWrite, EndRound
    <2> QED BY <1>1, <1>5, <1>6, <1>10, <2>1, <2>2 DEF QueueType
  <1>12. Locals'
    <2>1. LocalsOf(t)'
      BY <1>5, <1>7, <1>9 DEF LocalsOf, PusherPlace, Using
    <2> QED BY <1>1, <1>6, <1>8, <2>1, LocalsMoved
  <1>13. \A n : Unlinked(n)' <=> Unlinked(n)
    BY <1>4, <1>8, <1>9 DEF Unlinked
  <1>14. \A u \in Thread : \A n : RetiredBy(u, n)' <=> RetiredBy(u, n)
    BY <1>4, <1>6, <1>8, <1>9 DEF RetiredBy
  <1>15. \A n : Retired(n)' <=> Retired(n)
    BY <1>14 DEF Retired
  <1>16. \A n : Linked(n)' <=> Linked(n)
    BY <1>6, <1>13, <1>15 DEF Linked
  <1>17. New'
    <2>1. SUFFICES ASSUME NEW u \in Thread, pc'[u] = "link", NEW v \in Thread
                   PROVE  /\ local'[u].next \in alive /\ block[local'[u].next].next = NoNode
                          /\ pc'[v] = "link" /\ local'[v].next = local'[u].next => v = u
                          /\ pc'[v] \in Using => local'[v].node # local'[u].next
      BY <1>6 DEF New
    <2>2. u # t /\ pc[u] = "link" /\ local'[u] = local[u]
      BY <1>8, <1>9, <2>1
    <2>3. v # t => pc'[v] = pc[v] /\ local'[v] = local[v]
      BY <1>8
    <2>4. /\ local[u].next \in alive /\ block[local[u].next].next = NoNode
          /\ pc[v] = "link" /\ local[v].next = local[u].next => v = u
          /\ pc[v] \in Using => local[v].node # local[u].next
      BY <1>1, <2>2 DEF New
    <2> QED BY <1>9, <2>2, <2>3, <2>4 DEF Using
  <1>18. List'
    BY <1>1, <1>6, <1>16 DEF List
  <1>19. Left'
    <2>1. \A u \in Thread : pc'[u] = "retire" => pc[u] = "retire" /\ local'[u] = local[u]
      BY <1>8, <1>9
    <2> QED BY <1>1, <1>6, <1>13, <1>14, <1>15, <2>1 DEF Left
  <1>20. \A u \in Thread : pc'[u] \in Using => u # t /\ pc[u] \in Using /\ local'[u] = local[u]
    BY <1>8, <1>9 DEF Using
  <1>21. \A u \in Thread : pc'[u] = "scan" => pc[u] = "scan" /\ local'[u] = local[u]
    BY <1>8, <1>9
  <1>22. \A u \in Popper : pc'[u] \in Using => (local[u].node \in alive /\ Unpassed(u, local[u].node))'
    <2>1. SUFFICES ASSUME NEW u \in Popper, pc'[u] \in Using
                   PROVE  (local[u].node \in alive /\ Unpassed(u, local[u].node))'
      OBVIOUS
    <2>2. u \in Thread
      BY DEF Popper
    <2>3. local[u].node \in alive /\ Unpassed(u, local[u].node) /\ local'[u] = local[u]
      BY <1>1, <1>20, <2>1, <2>2 DEF Protected
    <2> QED BY <1>6, <1>21, <2>3 DEF Unpassed
  <1>23. CASE write_pos_ = k
    <2>1. Linked(m) /\ block[m].next = NoNode /\ write_pos_' = m /\ m \in alive /\ ~Unlinked(m)
      BY <1>1, <1>5, <1>10, <1>23, MpmcQueueAssumption DEF WritePos, Linked
    <2>2. WritePos'
      <3>1. ~Unlinked(write_pos_)' /\ block'[write_pos_'].next = NoNode /\ write_pos_' \in alive'
        BY <1>4, <1>6, <1>8, <1>9, <2>1 DEF Unlinked
      <3>2. ASSUME NEW u \in Pusher, pc'[u] \in Using, block[local'[u].node].next = NoNode
            PROVE  FALSE
        <4>1. u \in Thread /\ pc[u] \in Using /\ local'[u] = local[u]
          BY <1>20, <3>2 DEF Pusher
        <4>2. local[u].node \in alive
          BY <4>1 DEF Dangling
        <4>3. local[u].node = k
          BY <1>1, <1>23, <3>2, <4>1, <4>2 DEF WritePos
        <4> QED BY <1>5, <3>2, <4>1, <4>3, MpmcQueueAssumption
      <3> QED BY <1>6, <1>7, <3>1, <3>2 DEF WritePos
    <2>3. Protected'
      <3>1. ASSUME NEW u \in Thread, pc'[u] = "swing", local'[u].node = m PROVE FALSE
        <4>1. pc[u] = "swing" /\ local[u].node = m
          BY <1>8, <1>9, <3>1
        <4>2. block[m].next \in Node
          BY <1>1, <2>1, <4>1 DEF Locals
        <4> QED BY <2>1, <4>2, MpmcQueueAssumption
      <3> QED BY <1>7, <1>22, <2>1, <3>1 DEF Protected
    <2> QED BY <1>11, <1>12, <1>17, <1>18, <1>19, <2>2, <2>3 DEF HazardInv
  <1>24. CASE write_pos_ # k
    <2>1. write_pos_' = write_pos_
      BY <1>10, <1>24
    <2>2. WritePos'
      <3>1. ~Unlinked(write_pos_)' /\ write_pos_ \in alive
        BY <1>1, <1>4, <1>8, <1>9, <2>1 DEF Unlinked, WritePos
      <3>2. ASSUME block[write_pos_].next # NoNode
            PROVE  /\ Linked(block[write_pos_].next)' /\ block[block[write_pos_].next].next = NoNode
                   /\ \E u \in Thread : pc'[u] = "swing" /\ local'[u].node = write_pos_
        <4>1. PICK q : q = block[write_pos_].next
          OBVIOUS
        <4>2. Linked(q)' /\ block[q].next = NoNode
          BY <1>1, <1>16, <3>2, <4>1 DEF WritePos
        <4>3. PICK u \in Thread : pc[u] = "swing" /\ local[u].node = write_pos_
          BY <1>1, <3>2 DEF WritePos
        <4>4. u # t
          BY <1>3, <1>24, <4>3
        <4>5. Linked(block[write_pos_].next)'
          BY <1>6, <2>1, <4>1, <4>2 DEF Linked, Unlinked, Retired, RetiredBy
        <4> QED BY <1>8, <4>1, <4>2, <4>3, <4>4, <4>5
      <3>3. ASSUME NEW u \in Pusher, pc'[u] \in Using, block[local'[u].node].next = NoNode
            PROVE  local'[u].node = write_pos_
        <4>1. u \in Thread /\ pc[u] \in Using /\ local'[u] = local[u]
          BY <1>20, <3>3 DEF Pusher
        <4>2. local[u].node \in alive
          BY <4>1 DEF Dangling
        <4> QED BY <1>1, <3>3, <4>1, <4>2 DEF WritePos
      <3> QED BY <1>6, <1>7, <2>1, <3>1, <3>2, <3>3 DEF WritePos
    <2>3. Protected'
      <3>1. ASSUME NEW u \in Thread, pc'[u] = "swing", local'[u].node = write_pos_
            PROVE  Unpassed(u, write_pos_)'
        <4>1. Unpassed(u, write_pos_)
          BY <1>1, <1>8, <1>9, <3>1 DEF Protected
        <4> QED BY <1>6, <1>21, <2>1, <4>1 DEF Unpassed
      <3> QED BY <1>7, <1>22, <2>1, <3>1 DEF Protected
    <2> QED BY <1>11, <1>12, <1>17, <1>18, <1>19, <2>2, <2>3 DEF HazardInv
  <1> QED BY <1>23, <1>24

-----------------------------------------------------------------------------
(* Steps of consumers that change the list, and the scan                      *)

LEMMA SwingReadSafe ==
  ASSUME MpmcQueueAssumption, HazardInv, NEW t \in Thread, SwingRead(t)
  PROVE  HazardInv'
PROOF
  <1>1. QueueType /\ Locals /\ New /\ List /\ Left /\ WritePos /\ Protected
    BY DEF HazardInv
  <1>2. /\ local[t] \in Variables /\ local \in [Thread -> Variables]
        /\ pc \in [Thread -> PusherPlace \union PopperPlace]
    BY <1>1 DEF QueueType
  <1>3. PICK k, m : k = local[t].node /\ m = local[t].next
    OBVIOUS
  <1>4. pc[t] = "advance"
    BY DEF SwingRead
  <1>5. k \in Node /\ m \in Node /\ k \in alive /\ block[k].next = m /\ t \in Popper /\ m # NoNode
    <2>1. t \in Popper
      BY <1>1, <1>4 DEF Locals, PusherPlace, Popper
    <2>2. k \in alive
      BY <1>1, <1>3, <1>4, <2>1 DEF Protected, Using
    <2> QED BY <1>1, <1>3, <1>4, <2>1, <2>2, MpmcQueueAssumption DEF Locals, Using
  <1>6. UNCHANGED <<write_pos_, block, alive, hazard_, to_delete_, workload, begun>>
    BY DEF SwingRead, hazard, ghosts
  <1>7. Pusher' = Pusher /\ Popper' = Popper
    BY <1>6 DEF Pusher, Popper
  <1>8. \A u \in Thread \ {t} : pc'[u] = pc[u] /\ local'[u] = local[u]
    BY <1>2 DEF SwingRead, EndRound, Goto
  <1>9. CASE read_pos_ # k
    <2>1. read_pos_' = read_pos_ /\ pc' = [pc EXCEPT ![t] = "load"] /\ local' = [local EXCEPT ![t] = NoLocal]
      BY <1>3, <1>9 DEF SwingRead, EndRound, Goto
    <2>2. pc' \in [Thread -> PusherPlace \union PopperPlace] /\ local' \in [Thread -> Variables] /\ pc'[t] = "load"
      BY <1>2, <2>1, LocalWritten DEF PopperPlace
    <2>3. QueueType'
      BY <1>1, <1>6, <2>1, <2>2 DEF QueueType
    <2>4. LocalsOf(t)'
      BY <1>5, <1>7, <2>2 DEF LocalsOf, PopperPlace, PusherPlace, Using
    <2>5. Locals'
      BY <1>1, <1>6, <1>8, <2>4, LocalsMoved
    <2>6. QuietStep(t)
      BY <1>4, <1>6, <1>8, <2>1, <2>2 DEF QuietStep, Using
    <2> QED BY <2>3, <2>5, <2>6, Quiet
  <1>10. CASE read_pos_ = k
    <2>1. read_pos_' = m /\ pc' = [pc EXCEPT ![t] = "retire"] /\ local' = local
      BY <1>3, <1>10 DEF SwingRead, Goto
    <2>2. pc' \in [Thread -> PusherPlace \union PopperPlace] /\ pc'[t] = "retire"
      BY <1>2, <2>1 DEF PopperPlace
    <2>3. QueueType'
      BY <1>1, <1>5, <1>6, <2>1, <2>2 DEF QueueType
    <2>4. Locals'
      <3>1. LocalsOf(t)'
        BY <1>3, <1>5, <1>7, <2>1, <2>2 DEF LocalsOf, PopperPlace, Using, Popper
      <3> QED BY <1>1, <1>6, <1>8, <3>1, LocalsMoved
    <2>5. Linked(k) /\ Linked(m) /\ m # k /\ ~Retired(k) /\ ~Unlinked(k)
      BY <1>1, <1>5, <1>10 DEF List, Linked
    <2>6. \A n : Unlinked(n)' <=> Unlinked(n)
      BY <1>4, <1>8, <2>1, <2>2 DEF Unlinked
    <2>7. \A u \in Thread : \A n : RetiredBy(u, n)' <=> RetiredBy(u, n) \/ (u = t /\ n = k)
      BY <1>3, <1>4, <1>6, <1>8, <2>1, <2>2 DEF RetiredBy
    <2>8. \A n : Retired(n)' <=> Retired(n) \/ n = k
      BY <2>7 DEF Retired
    <2>9. \A n : Linked(n)' <=> Linked(n) /\ n # k
      BY <1>6, <2>6, <2>8 DEF Linked
    <2>10. \A u \in Thread : pc'[u] \in Using => u # t /\ pc[u] \in Using
      BY <1>8, <2>2 DEF Using
    <2>11. \A u \in Thread : pc'[u] = "scan" => pc[u] = "scan"
      BY <1>8, <2>2
    <2>12. New'
      <3>1. \A u \in Thread : pc'[u] = "link" => pc[u] = "link"
        BY <1>8, <2>2
      <3> QED BY <1>1, <1>6, <2>1, <2>10, <3>1 DEF New
    <2>13. List'
      <3>1. Linked(read_pos_)'
        <4>1. \A n : n = m => Linked(n)'
          BY <2>5, <2>9
        <4> QED BY <2>1, <4>1 DEF Linked, Unlinked, Retired, RetiredBy
      <3>2. ASSUME NEW n \in Node, Linked(n)'
            PROVE  (block[n].next # NoNode => Linked(block[n].next)') /\ block[n].next # m
        <4>1. Linked(n) /\ n # k
          BY <2>9, <3>2
        <4>2. block[n].next # k /\ (block[n].next # NoNode => Linked(block[n].next))
          BY <1>1, <1>10, <4>1 DEF List
        <4>3. PICK q : q = block[n].next
          OBVIOUS
        <4>4. q # NoNode => Linked(q)'
          BY <2>9, <4>2, <4>3
        <4>5. q # NoNode => Linked(block[n].next)'
          BY <1>6, <4>3, <4>4 DEF Linked, Unlinked, Retired, RetiredBy
        <4>6. block[n].next # m
          BY <1>1, <1>5, <2>5, <4>1 DEF List
        <4> QED BY <4>3, <4>5, <4>6
      <3> QED BY <1>1, <1>6, <2>1, <2>9, <3>1, <3>2 DEF List
    <2>14. Left'
      <3>1. \A n \in Node : Retired(n)' => n \in alive /\ ~Unlinked(n)' /\ block[n].next # NoNode
        BY <1>1, <1>5, <2>5, <2>6, <2>8 DEF Left
      <3>2. ASSUME NEW u \in Thread, NEW v \in Thread, NEW n \in Node, RetiredBy(u, n)', RetiredBy(v, n)'
            PROVE  u = v
        <4>1. n = k => ~RetiredBy(u, n) /\ ~RetiredBy(v, n)
          BY <2>5 DEF Retired
        <4> QED BY <1>1, <2>7, <3>2, <4>1 DEF Left
      <3>3. \A u \in Thread : pc'[u] = "retire" => local[u].node \notin ToSet(to_delete_[u])
        <4>1. k \notin ToSet(to_delete_[t])
          BY <2>5 DEF Retired, RetiredBy
        <4> QED BY <1>1, <1>3, <1>8, <4>1 DEF Left
      <3> QED BY <1>1, <1>6, <2>1, <3>1, <3>2, <3>3 DEF Left
    <2>15. WritePos'
      <3>1. ~Unlinked(write_pos_)' /\ write_pos_ \in alive /\ write_pos_' = write_pos_
        BY <1>1, <1>4, <1>6, <1>8, <2>1, <2>2 DEF Unlinked, WritePos
      <3>2. ASSUME block[write_pos_].next # NoNode
            PROVE  /\ Linked(block[write_pos_].next)' /\ block[block[write_pos_].next].next = NoNode
                   /\ \E u \in Thread : pc'[u] = "swing" /\ local[u].node = write_pos_
        <4>1. PICK q : q = block[write_pos_].next
          OBVIOUS
        <4>2. Linked(q) /\ block[q].next = NoNode /\ q # k
          BY <1>1, <1>5, <3>2, <4>1 DEF WritePos
        <4>3. Linked(q)'
          BY <2>9, <4>2
        <4>4. PICK u \in Thread : pc[u] = "swing" /\ local[u].node = write_pos_
          BY <1>1, <3>2 DEF WritePos
        <4>5. Linked(block[write_pos_].next)'
          BY <1>6, <4>1, <4>3 DEF Linked, Unlinked, Retired, RetiredBy
        <4> QED BY <1>4, <1>8, <4>1, <4>2, <4>4, <4>5
      <3> QED BY <1>1, <1>6, <1>7, <2>1, <2>10, <3>1, <3>2 DEF WritePos, Pusher
    <2>16. Protected'
      <3>2. ASSUME NEW u \in Popper, pc'[u] \in Using
            PROVE  local[u].node \in alive /\ Unpassed(u, local[u].node)'
        <4>1. local[u].node \in alive /\ Unpassed(u, local[u].node)
          BY <1>1, <2>10, <3>2 DEF Protected, Popper
        <4> QED BY <1>6, <2>1, <2>11, <4>1 DEF Unpassed
      <3>3. ASSUME NEW u \in Thread, pc'[u] = "swing", local[u].node = write_pos_
            PROVE  Unpassed(u, write_pos_)'
        <4>1. Unpassed(u, write_pos_)
          BY <1>1, <1>8, <2>2, <3>3 DEF Protected
        <4> QED BY <1>6, <2>1, <2>11, <4>1 DEF Unpassed
      <3> QED BY <1>6, <1>7, <2>1, <3>2, <3>3 DEF Protected
    <2> QED BY <2>3, <2>4, <2>12, <2>13, <2>14, <2>15, <2>16 DEF HazardInv
  <1> QED BY <1>9, <1>10

(* A step of t's retire leaves the queue as it is for all but t.               *)
RetireStep(t) ==
  /\ UNCHANGED <<write_pos_, read_pos_, workload>>
  /\ pc[t] \in {"retire", "scan"} /\ pc'[t] = "scan"
  /\ \A u \in Thread \ {t} : pc'[u] = pc[u] /\ local'[u] = local[u] /\ hazard_'[u] = hazard_[u]
                               /\ to_delete_'[u] = to_delete_[u]

(* What the list and write_pos_ say is of nodes that are not retired.          *)
LEMMA RetireKeeps ==
  ASSUME HazardInv, NEW t \in Thread, RetireStep(t),
         \A n : Retired(n)' => Retired(n),
         \A n : Linked(n)' <=> Linked(n),
         \A n \in Node : ~Retired(n) => block'[n].next = block[n].next,
         alive' \subseteq alive, write_pos_ \in alive',
         \A u \in Pusher : pc[u] \in Using /\ local[u].node \in alive' =>
           block'[local[u].node].next = block[local[u].node].next,
         block'[write_pos_].next = block[write_pos_].next,
         \A u \in Thread : Unlinked(local[u].next) => local[u].next \in alive'
  PROVE  New' /\ List' /\ WritePos'
PROOF
  <1>1. QueueType /\ New /\ List /\ Left /\ WritePos
    BY DEF HazardInv
  <1>2. \A u \in Thread : pc'[u] # "scan" => u # t /\ pc'[u] = pc[u] /\ local'[u] = local[u]
    BY DEF RetireStep
  <1>3. Pusher' = Pusher
    BY DEF RetireStep, Pusher
  <1>4. \A n : Linked(n) => n \in alive /\ ~Retired(n)
    BY DEF Linked
  <1>5. New'
    <2>1. SUFFICES ASSUME NEW u \in Thread, pc'[u] = "link", NEW v \in Thread
                   PROVE  /\ local[u].next \in alive' /\ block'[local[u].next].next = NoNode
                          /\ local'[u] = local[u]
                          /\ pc'[v] = "link" /\ local'[v].next = local[u].next => v = u
                          /\ pc'[v] \in Using => local'[v].node # local[u].next
      BY DEF New
    <2>2. pc[u] = "link" /\ local'[u] = local[u]
      BY <1>2, <2>1
    <2>3. Unlinked(local[u].next) /\ local[u].next \in Node /\ block[local[u].next].next = NoNode
      BY <1>1, <2>2 DEF Unlinked, New, QueueType
    <2>4. ~Retired(local[u].next)
      BY <1>1, <2>3 DEF Left
    <2>5. local[u].next \in alive' /\ block'[local[u].next].next = NoNode
      BY <2>3, <2>4
    <2>6. pc'[v] \in Using \union {"link"} => pc[v] = pc'[v] /\ local'[v] = local[v]
      BY <1>2 DEF Using
    <2> QED BY <1>1, <2>2, <2>5, <2>6 DEF New
  <1>6. List'
    <2>1. \A n \in Node : Linked(n) => block'[n].next = block[n].next
      BY <1>4
    <2>2. \A n \in Node : Linked(n) /\ block[n].next # NoNode => Linked(block[n].next)
      BY <1>1 DEF List
    <2>3. read_pos_' = read_pos_
      BY DEF RetireStep
    <2>4. Linked(read_pos_)'
      <3>1. PICK r : r = read_pos_
        OBVIOUS
      <3>2. Linked(r)'
        BY <1>1, <3>1 DEF List
      <3> QED BY <2>3, <3>1, <3>2 DEF Linked, Unlinked, Retired, RetiredBy
    <2>5. ASSUME NEW n \in Node, Linked(n), block[n].next # NoNode PROVE Linked(block[n].next)'
      <3>1. PICK q : q = block'[n].next
        OBVIOUS
      <3>2. Linked(q)'
        BY <2>1, <2>2, <2>5, <3>1
      <3> QED BY <3>1, <3>2 DEF Linked, Unlinked, Retired, RetiredBy
    <2> QED BY <1>1, <2>1, <2>3, <2>4, <2>5 DEF List
  <1>7. WritePos'
    <2>1. write_pos_' = write_pos_ /\ write_pos_ \in Node
      BY <1>1 DEF RetireStep, QueueType
    <2>2. ~Unlinked(write_pos_)'
      BY <1>1, <1>2, <2>1 DEF WritePos, Unlinked
    <2>3. ASSUME block[write_pos_].next # NoNode
          PROVE  /\ Linked(block[write_pos_].next)' /\ block'[block[write_pos_].next].next = NoNode
                 /\ \E u \in Thread : pc'[u] = "swing" /\ local'[u].node = write_pos_
      <3>1. PICK q : q = block[write_pos_].next
        OBVIOUS
      <3>2. Linked(q) /\ block[q].next = NoNode /\ q \in Node
        BY <1>1, <2>3, <3>1 DEF WritePos, Linked, QueueType
      <3>3. Linked(q)' /\ block'[q].next = NoNode
        BY <1>4, <3>2
      <3>4. PICK u \in Thread : pc[u] = "swing" /\ local[u].node = write_pos_
        BY <1>1, <2>3 DEF WritePos
      <3>5. pc'[u] = "swing" /\ local'[u] = local[u]
        BY <3>4 DEF RetireStep
      <3>6. Linked(block[write_pos_].next)'
        BY <2>1, <3>1, <3>3 DEF Linked, Unlinked, Retired, RetiredBy
      <3> QED BY <3>1, <3>3, <3>4, <3>5, <3>6
    <2>4. ASSUME NEW u \in Pusher, pc'[u] \in Using, local'[u].node \in alive', block'[local'[u].node].next = NoNode
          PROVE  local'[u].node = write_pos_
      <3>1. pc[u] \in Using /\ local'[u] = local[u]
        BY <1>2, <2>4 DEF Using, Pusher
      <3> QED BY <1>1, <2>4, <3>1 DEF WritePos
    <2> QED BY <1>3, <2>1, <2>2, <2>3, <2>4 DEF WritePos
  <1> QED BY <1>5, <1>6, <1>7

LEMMA RetireSafe ==
  ASSUME MpmcQueueAssumption, HazardInv, NEW t \in Thread, Retire(t)
  PROVE  HazardInv'
PROOF
  <1>1. QueueType /\ Locals /\ New /\ List /\ Left /\ WritePos /\ Protected
    BY DEF HazardInv
  <1>2. /\ local[t] \in Variables /\ local \in [Thread -> Variables]
        /\ pc \in [Thread -> PusherPlace \union PopperPlace]
        /\ to_delete_ \in [Thread -> Seq(Node)] /\ to_delete_[t] \in Seq(Node)
    BY <1>1 DEF QueueType
  <1>3. PICK k : k = local[t].node
    OBVIOUS
  <1>4. pc[t] = "retire" /\ pc' = [pc EXCEPT ![t] = "scan"] /\ local' = [local EXCEPT ![t] = NoLocal]
    BY DEF Retire, Goto
  <1>5. k \in Node /\ t \in Popper /\ k \notin ToSet(to_delete_[t]) /\ RetiredBy(t, k)
    BY <1>1, <1>3, <1>4 DEF Locals, PusherPlace, Popper, Left, RetiredBy
  <1>6. UNCHANGED <<write_pos_, read_pos_, block, alive, workload, begun>>
    BY DEF Retire, queue, ghosts
  <1>7. hazard_' = [hazard_ EXCEPT ![t] = NoNode] /\ to_delete_' = [to_delete_ EXCEPT ![t] = Append(to_delete_[t], k)]
    BY <1>3 DEF Retire
  <1>8. PICK list : list = Append(to_delete_[t], k)
    OBVIOUS
  <1>9. /\ list \in Seq(Node) /\ DOMAIN list = 1..(Len(to_delete_[t]) + 1) /\ Len(to_delete_[t]) \in Nat
        /\ DOMAIN to_delete_[t] = 1..Len(to_delete_[t])
        /\ \A i \in 1..Len(to_delete_[t]) : list[i] = to_delete_[t][i]
        /\ list[Len(to_delete_[t]) + 1] = k
    BY <1>2, <1>5, <1>8, AppendProperties, LenProperties
  <1>10. to_delete_'[t] = list /\ pc'[t] = "scan" /\ local'[t] = NoLocal
    BY <1>2, <1>4, <1>7, <1>8
  <1>11. ToSet(list) = ToSet(to_delete_[t]) \union {k}
    <2>1. \A x : x \in ToSet(list) <=> \E i \in 1..(Len(to_delete_[t]) + 1) : list[i] = x
      BY <1>9 DEF ToSet
    <2>2. \A x : x \in ToSet(to_delete_[t]) <=> \E i \in 1..Len(to_delete_[t]) : to_delete_[t][i] = x
      BY <1>9 DEF ToSet
    <2>3. \A i \in 1..(Len(to_delete_[t]) + 1) : i \in 1..Len(to_delete_[t]) \/ i = Len(to_delete_[t]) + 1
      BY <1>9
    <2>4. \A i \in 1..Len(to_delete_[t]) : i \in 1..(Len(to_delete_[t]) + 1)
      BY <1>9
    <2>5. Len(to_delete_[t]) + 1 \in 1..(Len(to_delete_[t]) + 1)
      BY <1>9
    <2>6. \A x \in ToSet(list) : x \in ToSet(to_delete_[t]) \union {k}
      BY <1>9, <2>1, <2>2, <2>3
    <2>7. \A x \in ToSet(to_delete_[t]) \union {k} : x \in ToSet(list)
      BY <1>9, <2>1, <2>2, <2>4, <2>5
    <2> QED BY <2>6, <2>7
  <1>12. RetireStep(t)
    BY <1>1, <1>4, <1>6, <1>7, <1>10 DEF RetireStep, QueueType
  <1>13. QueueType'
    <2>1. pc' \in [Thread -> PusherPlace \union PopperPlace] /\ local' \in [Thread -> Variables]
      BY <1>2, <1>4, LocalWritten DEF PopperPlace
    <2>2. hazard_' \in [Thread -> Pointer] /\ to_delete_' \in [Thread -> Seq(Node)]
      BY <1>1, <1>7, <1>8, <1>9 DEF QueueType, Pointer
    <2> QED BY <1>1, <1>6, <2>1, <2>2 DEF QueueType
  <1>14. Pusher' = Pusher /\ Popper' = Popper
    BY <1>6 DEF Pusher, Popper
  <1>15. Locals'
    <2>1. LocalsOf(t)'
      BY <1>5, <1>10, <1>14 DEF LocalsOf, PopperPlace, Using, Popper
    <2> QED BY <1>1, <1>6, <1>12, <2>1, LocalsMoved DEF RetireStep
  <1>16. \A u \in Thread : \A n : RetiredBy(u, n)' <=> RetiredBy(u, n)
    BY <1>3, <1>4, <1>10, <1>11, <1>12 DEF RetiredBy, RetireStep
  <1>17. \A n : (Retired(n)' <=> Retired(n)) /\ (Unlinked(n)' <=> Unlinked(n))
    <2>1. \A n : Retired(n)' <=> Retired(n)
      BY <1>16 DEF Retired
    <2>2. \A n : Unlinked(n)' <=> Unlinked(n)
      BY <1>4, <1>10, <1>12 DEF Unlinked, RetireStep
    <2> QED BY <2>1, <2>2
  <1>18. \A n : Linked(n)' <=> Linked(n)
    BY <1>6, <1>17 DEF Linked
  <1>19. New' /\ List' /\ WritePos'
    <2>1. \A u \in Thread : Unlinked(local[u].next) => local[u].next \in alive'
      BY <1>1, <1>6 DEF Unlinked, New
    <2>2. write_pos_ \in alive'
      BY <1>1, <1>6 DEF WritePos
    <2> QED BY <1>6, <1>12, <1>17, <1>18, <2>1, <2>2, RetireKeeps
  <1>20. Left'
    <2>1. \A i, j \in DOMAIN list : list[i] = list[j] => i = j
      <3>1. \A i \in 1..Len(to_delete_[t]) : list[i] = to_delete_[t][i] /\ list[i] # k
        BY <1>5, <1>9 DEF ToSet
      <3>2. \A i \in DOMAIN list : i \in 1..Len(to_delete_[t]) \/ (i = Len(to_delete_[t]) + 1 /\ list[i] = k)
        BY <1>9
      <3> QED BY <1>1, <1>9, <3>1, <3>2 DEF Left
    <2>2. \A u \in Thread \ {t} : to_delete_'[u] = to_delete_[u] /\ pc'[u] = pc[u] /\ local'[u] = local[u]
      BY <1>12 DEF RetireStep
    <2> QED BY <1>1, <1>6, <1>10, <1>16, <1>17, <2>1, <2>2 DEF Left
  <1>21. Protected'
    <2>1. ASSUME NEW u \in Thread, NEW n \in Node, Unpassed(u, n) PROVE Unpassed(u, n)'
      <3>1. u >= 1 /\ u \in Nat
        BY MpmcQueueAssumption DEF Thread
      <3>2. local'[t].thread <= u
        BY <1>10, <3>1 DEF NoLocal
      <3> QED BY <1>12, <2>1, <3>2 DEF Unpassed, RetireStep
    <2>2. ASSUME NEW u \in Popper, pc'[u] \in Using
          PROVE  (local[u].node \in alive /\ Unpassed(u, local[u].node))'
      <3>1. PICK n : n = local[u].node
        OBVIOUS
      <3>2. u # t /\ u \in Thread /\ pc[u] \in Using /\ local'[u] = local[u]
        BY <1>10, <1>12, <2>2 DEF RetireStep, Popper, Using
      <3>3. n \in Node /\ n \in alive /\ Unpassed(u, n)
        BY <1>1, <3>1, <3>2 DEF Protected, QueueType
      <3>4. Unpassed(u, n)'
        BY <2>1, <3>2, <3>3
      <3> QED BY <1>6, <3>1, <3>2, <3>3, <3>4 DEF Unpassed
    <2>3. ASSUME NEW u \in Thread, pc'[u] = "swing", local'[u].node = write_pos_
          PROVE  Unpassed(u, write_pos_)'
      <3>1. PICK n : n = write_pos_
        OBVIOUS
      <3>2. Unpassed(u, n) /\ n \in Node
        BY <1>1, <1>10, <1>12, <2>3, <3>1 DEF Protected, RetireStep, QueueType
      <3>3. Unpassed(u, n)' /\ write_pos_' = n
        BY <1>6, <2>1, <3>1, <3>2
      <3> QED BY <3>3 DEF Unpassed
    <2> QED BY <1>6, <1>14, <2>2, <2>3 DEF Protected
  <1> QED BY <1>13, <1>15, <1>19, <1>20, <1>21 DEF HazardInv

(* Scanning one item further, or one hazard pointer further.                   *)
LEMMA ScanOnSafe ==
  ASSUME MpmcQueueAssumption, HazardInv, NEW t \in Thread, pc[t] = "scan",
         UNCHANGED <<queue, hazard, pc, workload, begun>>,
         NEW r \in Variables, local' = [local EXCEPT ![t] = r],
         \/ r.thread = 1
         \/ /\ local[t].item \in DOMAIN to_delete_[t] /\ r.item = local[t].item
            /\ r.thread = local[t].thread + 1
            /\ hazard_[local[t].thread] # to_delete_[t][local[t].item]
  PROVE  HazardInv'
PROOF
  <1>1. QueueType /\ Locals /\ New /\ List /\ Left /\ WritePos /\ Protected
    BY DEF HazardInv
  <1>2. local \in [Thread -> Variables] /\ pc \in [Thread -> PusherPlace \union PopperPlace]
    BY <1>1 DEF QueueType
  <1>3. UNCHANGED <<write_pos_, read_pos_, block, alive, hazard_, to_delete_, pc, workload, begun>>
    BY DEF queue, hazard
  <1>4. local'[t] = r /\ \A u \in Thread \ {t} : local'[u] = local[u]
    BY <1>2
  <1>5. local' \in [Thread -> Variables]
    BY <1>2
  <1>6. QueueType'
    BY <1>1, <1>3, <1>5 DEF QueueType
  <1>7. Pusher' = Pusher /\ Popper' = Popper
    BY <1>3 DEF Pusher, Popper
  <1>8. Locals'
    <2>1. LocalsOf(t)'
      BY <1>1, <1>3, <1>7 DEF LocalsOf, Locals, Using
    <2> QED BY <1>1, <1>3, <1>4, <2>1, LocalsMoved
  <1>9. RetireStep(t)
    BY <1>3, <1>4 DEF RetireStep
  <1>10. \A u \in Thread : \A n : RetiredBy(u, n)' <=> RetiredBy(u, n)
    BY <1>3, <1>4 DEF RetiredBy
  <1>11. \A n : (Retired(n)' <=> Retired(n)) /\ (Unlinked(n)' <=> Unlinked(n))
    <2>1. \A n : Retired(n)' <=> Retired(n)
      BY <1>10 DEF Retired
    <2>2. \A n : Unlinked(n)' <=> Unlinked(n)
      BY <1>3, <1>4 DEF Unlinked
    <2> QED BY <2>1, <2>2
  <1>12. \A n : Linked(n)' <=> Linked(n)
    BY <1>3, <1>11 DEF Linked
  <1>13. New' /\ List' /\ WritePos'
    <2>1. \A u \in Thread : Unlinked(local[u].next) => local[u].next \in alive'
      BY <1>1, <1>3 DEF Unlinked, New
    <2>2. write_pos_ \in alive'
      BY <1>1, <1>3 DEF WritePos
    <2> QED BY <1>3, <1>9, <1>11, <1>12, <2>1, <2>2, RetireKeeps
  <1>14. Left'
    <2>1. \A u \in Thread : pc[u] = "retire" => local'[u] = local[u]
      BY <1>4
    <2> QED BY <1>1, <1>3, <1>10, <1>11, <2>1 DEF Left
  <1>15. ASSUME NEW u \in Thread, NEW n \in Node, Unpassed(u, n), hazard_[u] = n PROVE Unpassed(u, n)'
    <2>1. u >= 1 /\ u \in Nat
      BY MpmcQueueAssumption DEF Thread
    <2>2. ASSUME r.item \in DOMAIN to_delete_[t], to_delete_[t][r.item] = n PROVE r.thread <= u
      <3>1. CASE r.thread = 1
        BY <2>1, <3>1
      <3>2. CASE /\ r.item = local[t].item /\ r.thread = local[t].thread + 1
                 /\ hazard_[local[t].thread] # to_delete_[t][local[t].item]
        <4>1. local[t].thread <= u
          BY <1>15, <2>2, <3>2 DEF Unpassed
        <4>2. local[t].thread # u
          BY <1>15, <2>2, <3>2
        <4>3. local[t].thread \in Nat
          BY <1>2 DEF Variables
        <4> QED BY <2>1, <3>2, <4>1, <4>2, <4>3
      <3> QED BY <3>1, <3>2
    <2> QED BY <1>3, <1>4, <1>15, <2>2 DEF Unpassed
  <1>16. Protected'
    <2>1. ASSUME NEW u \in Popper, pc[u] \in Using
          PROVE  (local[u].node \in alive /\ Unpassed(u, local[u].node))'
      <3>1. PICK n : n = local[u].node
        OBVIOUS
      <3>2. u # t /\ u \in Thread /\ local'[u] = local[u]
        BY <1>4, <2>1 DEF Popper, Using
      <3>3. n \in Node /\ n \in alive /\ Unpassed(u, n) /\ hazard_[u] = n
        BY <1>1, <2>1, <3>1, <3>2 DEF Protected, Locals
      <3>4. Unpassed(u, n)'
        BY <1>15, <3>2, <3>3
      <3> QED BY <1>3, <3>1, <3>2, <3>3, <3>4 DEF Unpassed
    <2>2. ASSUME NEW u \in Thread, pc[u] = "swing", local'[u].node = write_pos_
          PROVE  Unpassed(u, write_pos_)'
      <3>1. PICK n : n = write_pos_
        OBVIOUS
      <3>2. Unpassed(u, n) /\ n \in Node /\ hazard_[u] = n
        BY <1>1, <1>4, <2>2, <3>1 DEF Protected, Locals, Using, QueueType
      <3>3. Unpassed(u, n)' /\ write_pos_' = n
        BY <1>3, <1>15, <3>1, <3>2
      <3> QED BY <3>3 DEF Unpassed
    <2> QED BY <1>3, <1>7, <2>1, <2>2 DEF Protected
  <1> QED BY <1>6, <1>8, <1>13, <1>14, <1>16 DEF HazardInv

(* What is erased of a list without repetitions.                               *)
LEMMA ErasedOnce ==
  ASSUME NEW S, NEW list \in Seq(S), NEW i \in DOMAIN list,
         \A j, k \in DOMAIN list : list[j] = list[k] => j = k
  PROVE  /\ Erased(list, i) \in Seq(S)
         /\ ToSet(Erased(list, i)) = ToSet(list) \ {list[i]}
         /\ \A j, k \in DOMAIN Erased(list, i) : Erased(list, i)[j] = Erased(list, i)[k] => j = k
PROOF
  <1>1. PICK n : n = Len(list)
    OBVIOUS
  <1>2. n \in Nat /\ DOMAIN list = 1..n /\ i \in 1..n /\ i \in Nat
    BY <1>1, LenProperties
  <1>3. PICK p, q : p = SubSeq(list, 1, i - 1) /\ q = SubSeq(list, i + 1, n)
    OBVIOUS
  <1>4. p \in Seq(S) /\ Len(p) = i - 1 /\ \A j \in 1..(i - 1) : p[j] = list[j]
    BY <1>2, <1>3, SubSeqProperties
  <1>5. q \in Seq(S) /\ Len(q) = n - i /\ \A j \in 1..(n - i) : q[j] = list[i + j]
    BY <1>2, <1>3, SubSeqProperties
  <1>6. PICK e : e = Erased(list, i)
    OBVIOUS
  <1>7. e = p \o q
    BY <1>1, <1>3, <1>6 DEF Erased, RemoveAt
  <1>8. e \in Seq(S) /\ Len(e) = n - 1 /\ DOMAIN e = 1..(n - 1)
    BY <1>2, <1>4, <1>5, <1>7, ConcatProperties, LenProperties
  <1>9. \A j \in 1..(n - 1) : e[j] = IF j < i THEN list[j] ELSE list[j + 1]
    <2>1. SUFFICES ASSUME NEW j \in 1..(n - 1) PROVE e[j] = IF j < i THEN list[j] ELSE list[j + 1]
      OBVIOUS
    <2>2. CASE j < i
      <3>1. e[j] = p[j] /\ j \in 1..(i - 1)
        BY <1>2, <1>4, <1>5, <1>7, <2>2, ConcatProperties
      <3> QED BY <1>4, <2>2, <3>1
    <2>3. CASE j >= i
      <3>1. e[j] = q[j - (i - 1)] /\ j - (i - 1) \in 1..(n - i)
        BY <1>2, <1>4, <1>5, <1>7, <2>3, ConcatProperties
      <3>2. i + (j - (i - 1)) = j + 1
        BY <1>2
      <3> QED BY <1>2, <1>5, <2>3, <3>1, <3>2
    <2> QED BY <1>2, <2>2, <2>3
  <1>10. \A j \in 1..(n - 1) : \E h \in 1..n : h # i /\ e[j] = list[h] /\ h = IF j < i THEN j ELSE j + 1
    BY <1>2, <1>9
  <1>11. \A h \in 1..n : h # i => \E j \in 1..(n - 1) : e[j] = list[h]
    <2>1. SUFFICES ASSUME NEW h \in 1..n, h # i PROVE \E j \in 1..(n - 1) : e[j] = list[h]
      OBVIOUS
    <2>2. CASE h < i
      <3>1. h \in 1..(n - 1) /\ e[h] = list[h]
        BY <1>2, <1>9, <2>2
      <3> QED BY <3>1
    <2>3. CASE h > i
      <3>1. h - 1 \in 1..(n - 1) /\ ~(h - 1 < i) /\ (h - 1) + 1 = h
        BY <1>2, <2>3
      <3>2. e[h - 1] = list[h]
        BY <1>9, <3>1
      <3> QED BY <3>1, <3>2
    <2> QED BY <1>2, <2>1, <2>2, <2>3
  <1>12. ToSet(e) = ToSet(list) \ {list[i]}
    <2>1. \A x : x \in ToSet(e) <=> \E j \in 1..(n - 1) : e[j] = x
      BY <1>8 DEF ToSet
    <2>2. \A x : x \in ToSet(list) <=> \E h \in 1..n : list[h] = x
      BY <1>2 DEF ToSet
    <2>3. \A h \in 1..n : list[h] = list[i] => h = i
      BY <1>2
    <2>4. \A x \in ToSet(e) : x \in ToSet(list) \ {list[i]}
      BY <1>10, <2>1, <2>2, <2>3
    <2>5. \A x \in ToSet(list) \ {list[i]} : x \in ToSet(e)
      BY <1>11, <2>1, <2>2
    <2> QED BY <2>4, <2>5
  <1>13. \A j, k \in 1..(n - 1) : e[j] = e[k] => j = k
    <2>1. SUFFICES ASSUME NEW j \in 1..(n - 1), NEW k \in 1..(n - 1), e[j] = e[k] PROVE j = k
      OBVIOUS
    <2>2. PICK g, h \in 1..n : /\ e[j] = list[g] /\ g = IF j < i THEN j ELSE j + 1
                              /\ e[k] = list[h] /\ h = IF k < i THEN k ELSE k + 1
      BY <1>10
    <2>3. g = h
      BY <1>2, <2>1, <2>2
    <2> QED BY <1>2, <2>2, <2>3
  <1> QED BY <1>6, <1>8, <1>12, <1>13

(* Deleting an item that the scan has compared with every hazard pointer: each *)
(* of them was passed, so no consumer uses the node, and write_pos_ is not at  *)
(* it, since the producer that would have to swing it protects it.             *)
LEMMA DeleteSafe ==
  ASSUME MpmcQueueAssumption, HazardInv, NEW t \in Thread, pc[t] = "scan",
         NEW i \in Nat \ {0}, i = local[t].item, i \in DOMAIN to_delete_[t],
         NEW n \in Node, n = to_delete_[t][i],
         hazard_[local[t].thread] # n, ~(local[t].thread < ThreadsN),
         local' = [local EXCEPT ![t].thread = 1],
         alive' = alive \ {n}, block' = [block EXCEPT ![n] = FreshBlock],
         to_delete_' = [to_delete_ EXCEPT ![t] = Erased(to_delete_[t], i)],
         UNCHANGED <<write_pos_, read_pos_, hazard_, pc, workload, begun>>
  PROVE  HazardInv'
PROOF
  <1>1. QueueType /\ Locals /\ New /\ List /\ Left /\ WritePos /\ Protected
    BY DEF HazardInv
  <1>2. /\ local[t] \in Variables /\ local \in [Thread -> Variables]
        /\ pc \in [Thread -> PusherPlace \union PopperPlace]
        /\ to_delete_ \in [Thread -> Seq(Node)] /\ to_delete_[t] \in Seq(Node)
        /\ alive \subseteq Node /\ block \in [Node -> NodeBlock] /\ write_pos_ \in Node
    BY <1>1 DEF QueueType
  <1>3. PICK r : r = [local[t] EXCEPT !.thread = 1]
    OBVIOUS
  <1>4. r \in Variables /\ r.thread = 1 /\ local' = [local EXCEPT ![t] = r]
    <2>1. r.thread = 1 /\ 1 \in Nat \ {0}
      BY <1>2, <1>3 DEF Variables
    <2>2. r \in Variables
      BY <1>2, <1>3, <2>1, MpmcQueueAssumption, LocalWritten
    <2> QED BY <1>2, <1>3, <2>1, <2>2
  <1>5. local'[t] = r /\ \A u \in Thread \ {t} : local'[u] = local[u]
    BY <1>2, <1>4
  <1>6. PICK list : list = Erased(to_delete_[t], i)
    OBVIOUS
  <1>7. \A j, k \in DOMAIN to_delete_[t] : to_delete_[t][j] = to_delete_[t][k] => j = k
    BY <1>1 DEF Left
  <1>8. /\ list \in Seq(Node) /\ ToSet(list) = ToSet(to_delete_[t]) \ {n}
        /\ \A j, k \in DOMAIN list : list[j] = list[k] => j = k
    BY <1>2, <1>6, <1>7, ErasedOnce
  <1>9. to_delete_'[t] = list /\ \A u \in Thread \ {t} : to_delete_'[u] = to_delete_[u]
    BY <1>2, <1>6
  <1>10. RetiredBy(t, n) /\ Retired(n)
    <2>1. n \in ToSet(to_delete_[t])
      BY DEF ToSet
    <2> QED BY <2>1 DEF RetiredBy, Retired
  <1>11. n \in alive /\ ~Unlinked(n) /\ block[n].next # NoNode /\ ~Linked(n)
    BY <1>1, <1>10 DEF Left, Linked
  <1>12. t \in Popper
    BY <1>1 DEF Locals, PusherPlace, Popper
  <1>13. ASSUME NEW u \in Thread, Unpassed(u, n) PROVE hazard_[u] # n
    <2>1. local[t].thread <= u
      BY <1>13 DEF Unpassed
    <2>2. local[t].thread \in Nat /\ u \in Nat /\ u <= ThreadsN /\ ThreadsN \in Nat
      BY <1>2, MpmcQueueAssumption DEF Variables, Thread
    <2>3. local[t].thread = u
      BY <2>1, <2>2
    <2> QED BY <2>3
  <1>14. \A u \in Popper : pc[u] \in Using => local[u].node # n
    <2>1. SUFFICES ASSUME NEW u \in Popper, pc[u] \in Using, local[u].node = n PROVE FALSE
      OBVIOUS
    <2>2. u \in Thread /\ hazard_[u] = n
      BY <1>1, <2>1 DEF Popper, Locals
    <2>3. Unpassed(u, n)
      BY <1>1, <2>1 DEF Protected
    <2> QED BY <1>13, <2>2, <2>3
  <1>15. write_pos_ # n
    <2>1. SUFFICES ASSUME write_pos_ = n PROVE FALSE
      OBVIOUS
    <2>2. PICK u \in Thread : pc[u] = "swing" /\ local[u].node = n
      BY <1>1, <1>11, <2>1 DEF WritePos
    <2>3. hazard_[u] = n /\ Unpassed(u, n)
      BY <1>1, <2>1, <2>2 DEF Locals, Protected, Using
    <2> QED BY <1>13, <2>3
  <1>16. block'[n] = FreshBlock /\ \A m \in Node \ {n} : block'[m] = block[m]
    BY <1>2
  <1>17. QueueType'
    <2>1. FreshBlock \in NodeBlock
      BY MpmcQueueAssumption DEF FreshBlock, NodeBlock, Pointer, OneValue, Empty
    <2>2. block' \in [Node -> NodeBlock] /\ local' \in [Thread -> Variables]
      BY <1>2, <1>4, <2>1
    <2>3. to_delete_' \in [Thread -> Seq(Node)]
      BY <1>2, <1>6, <1>8
    <2> QED BY <1>1, <2>2, <2>3 DEF QueueType
  <1>18. Pusher' = Pusher /\ Popper' = Popper
    BY DEF Pusher, Popper
  <1>19. Locals'
    <2>1. LocalsOf(t)'
      BY <1>12, <1>18 DEF LocalsOf, PopperPlace, Using, Popper
    <2>2. \A u \in Thread \ {t} : local[u].node \in alive' =>
            local[u].node \in alive /\ block'[local[u].node].next = block[local[u].node].next
      BY <1>2, <1>16
    <2> QED BY <1>1, <1>5, <2>1, <2>2, LocalsMoved
  <1>20. \A u \in Thread : \A m : RetiredBy(u, m)' <=> RetiredBy(u, m) /\ m # n
    <2>1. \A m : RetiredBy(t, m)' <=> RetiredBy(t, m) /\ m # n
      BY <1>8, <1>9 DEF RetiredBy
    <2>2. ASSUME NEW u \in Thread \ {t} PROVE \A m : RetiredBy(u, m)' <=> RetiredBy(u, m) /\ m # n
      <3>1. ~RetiredBy(u, n)
        BY <1>1, <1>10, <2>2 DEF Left
      <3>2. \A m : RetiredBy(u, m)' <=> RetiredBy(u, m)
        BY <1>5, <1>9, <2>2 DEF RetiredBy
      <3> QED BY <3>1, <3>2
    <2> QED BY <2>1, <2>2
  <1>21. \A m : (Retired(m)' <=> Retired(m) /\ m # n) /\ (Unlinked(m)' <=> Unlinked(m))
    <2>1. \A m : Retired(m)' <=> Retired(m) /\ m # n
      BY <1>20 DEF Retired
    <2>2. \A u \in Thread : local'[u].next = local[u].next
      BY <1>2, <1>3, <1>5 DEF Variables
    <2>3. \A m : Unlinked(m)' <=> Unlinked(m)
      BY <2>2 DEF Unlinked
    <2> QED BY <2>1, <2>3
  <1>22. \A m : Linked(m)' <=> Linked(m)
    <2>1. \A m : m # n => (Linked(m)' <=> Linked(m))
      BY <1>21 DEF Linked
    <2>2. ~Linked(n)'
      BY DEF Linked
    <2> QED BY <1>11, <2>1, <2>2
  <1>23. New' /\ List' /\ WritePos'
    <2>1. RetireStep(t)
      BY <1>5, <1>9 DEF RetireStep
    <2>2. \A m \in Node : ~Retired(m) => block'[m].next = block[m].next
      BY <1>10, <1>16
    <2>3. alive' \subseteq alive /\ write_pos_ \in alive' /\ block'[write_pos_].next = block[write_pos_].next
      BY <1>1, <1>2, <1>15, <1>16 DEF WritePos
    <2>4. \A u \in Pusher : pc[u] \in Using /\ local[u].node \in alive' =>
            block'[local[u].node].next = block[local[u].node].next
      BY <1>2, <1>16
    <2>5. \A u \in Thread : Unlinked(local[u].next) => local[u].next \in alive'
      BY <1>1, <1>11 DEF Unlinked, New
    <2>6. \A m : Retired(m)' => Retired(m)
      BY <1>21
    <2> QED BY <1>22, <2>1, <2>2, <2>3, <2>4, <2>5, <2>6, RetireKeeps
  <1>24. Left'
    <2>1. ASSUME NEW m \in Node, Retired(m)' PROVE m \in alive' /\ ~Unlinked(m)' /\ block'[m].next # NoNode
      BY <1>1, <1>16, <1>21, <2>1 DEF Left
    <2>2. \A u, v \in Thread, m \in Node : RetiredBy(u, m)' /\ RetiredBy(v, m)' => u = v
      BY <1>1, <1>20 DEF Left
    <2>3. ASSUME NEW u \in Thread
          PROVE  /\ \A j, k \in DOMAIN to_delete_'[u] : to_delete_'[u][j] = to_delete_'[u][k] => j = k
                 /\ pc[u] = "retire" => local'[u].node \notin ToSet(to_delete_'[u])
      BY <1>1, <1>5, <1>8, <1>9 DEF Left
    <2> QED BY <2>1, <2>2, <2>3 DEF Left
  <1>25. ASSUME NEW u \in Thread, NEW m \in Node, Unpassed(u, m) PROVE Unpassed(u, m)'
    <2>1. r.thread <= u
      BY <1>4, MpmcQueueAssumption DEF Thread
    <2> QED BY <1>5, <1>9, <1>25, <2>1 DEF Unpassed
  <1>26. Protected'
    <2>1. ASSUME NEW u \in Popper, pc[u] \in Using
          PROVE  (local[u].node \in alive /\ Unpassed(u, local[u].node))'
      <3>1. PICK m : m = local[u].node
        OBVIOUS
      <3>2. u # t /\ u \in Thread /\ local'[u] = local[u]
        BY <1>5, <2>1 DEF Popper, Using
      <3>3. m \in Node /\ m \in alive' /\ Unpassed(u, m)
        BY <1>1, <1>14, <2>1, <3>1, <3>2 DEF Protected, QueueType
      <3>4. Unpassed(u, m)'
        BY <1>25, <3>2, <3>3
      <3> QED BY <3>1, <3>2, <3>3, <3>4 DEF Unpassed
    <2>2. ASSUME NEW u \in Thread, pc[u] = "swing", local'[u].node = write_pos_
          PROVE  Unpassed(u, write_pos_)'
      <3>1. PICK m : m = write_pos_
        OBVIOUS
      <3>2. u # t /\ local'[u] = local[u]
        BY <1>5, <2>2
      <3>3. Unpassed(u, m) /\ m \in Node
        BY <1>1, <1>2, <2>2, <3>1, <3>2 DEF Protected
      <3>4. Unpassed(u, m)' /\ write_pos_' = m
        BY <1>25, <3>1, <3>3
      <3> QED BY <3>4 DEF Unpassed
    <2> QED BY <1>18, <2>1, <2>2 DEF Protected
  <1> QED BY <1>17, <1>19, <1>23, <1>24, <1>26 DEF HazardInv

LEMMA ScanSafe ==
  ASSUME MpmcQueueAssumption, HazardInv, NEW t \in Thread, Scan(t)
  PROVE  HazardInv'
PROOF
  <1>1. /\ local[t] \in Variables /\ local \in [Thread -> Variables] /\ hazard_ \in [Thread -> Pointer]
        /\ to_delete_[t] \in Seq(Node)
    BY DEF HazardInv, QueueType
  <1>2. PICK i, k : i = local[t].item /\ k = local[t].thread
    OBVIOUS
  <1>3. i \in Nat \ {0} /\ k \in Nat \ {0} /\ i + 1 \in Nat \ {0} /\ k + 1 \in Nat \ {0} /\ 1 \in Nat \ {0}
    BY <1>1, <1>2 DEF Variables
  <1>4. pc[t] = "scan" /\ UNCHANGED <<write_pos_, read_pos_, hazard_, pc, workload, begun>>
    BY DEF Scan, ghosts
  <1>5. i \in DOMAIN to_delete_[t] /\ to_delete_[t][i] \in Node
    <2>1. i <= Len(to_delete_[t])
      BY <1>2 DEF Scan
    <2>2. Len(to_delete_[t]) \in Nat /\ DOMAIN to_delete_[t] = 1..Len(to_delete_[t])
      BY <1>1, LenProperties
    <2>3. i \in 1..Len(to_delete_[t])
      BY <1>3, <2>1, <2>2
    <2> QED BY <1>1, <2>2, <2>3, ElementOfSeq
  <1>6. CASE hazard_[k] = to_delete_[t][i]
    <2>1. PICK r : r = [local[t] EXCEPT !.item = i + 1, !.thread = 1]
      OBVIOUS
    <2>2. local' = [local EXCEPT ![t].item = i + 1, ![t].thread = 1] /\ UNCHANGED <<alive, block, to_delete_>>
      BY <1>2, <1>6 DEF Scan
    <2>3. local' = [local EXCEPT ![t] = r]
      BY <1>1, <2>1, <2>2
    <2>4. r \in Variables /\ r.thread = 1
      BY <1>1, <1>3, <2>1 DEF Variables
    <2>5. UNCHANGED <<queue, hazard, pc, workload, begun>>
      BY <1>4, <2>2 DEF queue, hazard
    <2> QED BY <1>4, <2>3, <2>4, <2>5, MpmcQueueAssumption, ScanOnSafe
  <1>7. CASE hazard_[k] # to_delete_[t][i] /\ k < ThreadsN
    <2>1. PICK r : r = [local[t] EXCEPT !.thread = k + 1]
      OBVIOUS
    <2>2. local' = [local EXCEPT ![t].thread = k + 1] /\ UNCHANGED <<alive, block, to_delete_>>
      BY <1>2, <1>7 DEF Scan
    <2>3. local' = [local EXCEPT ![t] = r]
      BY <1>1, <2>1, <2>2
    <2>4. r \in Variables /\ r.thread = k + 1 /\ r.item = i
      BY <1>1, <1>2, <1>3, <2>1 DEF Variables
    <2>5. UNCHANGED <<queue, hazard, pc, workload, begun>>
      BY <1>4, <2>2 DEF queue, hazard
    <2>6. /\ local[t].item \in DOMAIN to_delete_[t] /\ r.item = local[t].item
          /\ r.thread = local[t].thread + 1
          /\ hazard_[local[t].thread] # to_delete_[t][local[t].item]
      BY <1>2, <1>5, <1>7, <2>4
    <2> QED BY <1>4, <2>3, <2>4, <2>5, <2>6, MpmcQueueAssumption, ScanOnSafe
  <1>8. CASE hazard_[k] # to_delete_[t][i] /\ ~(k < ThreadsN)
    <2>1. PICK n \in Node : n = to_delete_[t][i]
      BY <1>5
    <2>2. /\ local' = [local EXCEPT ![t].thread = 1]
          /\ alive' = alive \ {n} /\ block' = [block EXCEPT ![n] = FreshBlock]
          /\ to_delete_' = [to_delete_ EXCEPT ![t] = Erased(to_delete_[t], i)]
      BY <1>2, <1>8, <2>1 DEF Scan
    <2>3. hazard_[local[t].thread] # n /\ ~(local[t].thread < ThreadsN) /\ i = local[t].item
      BY <1>2, <1>8, <2>1
    <2> QED BY <1>3, <1>4, <1>5, <2>1, <2>2, <2>3, MpmcQueueAssumption, DeleteSafe
  <1> QED BY <1>6, <1>7, <1>8

LEMMA InitSafe ==
  ASSUME MpmcQueueAssumption, Init
  PROVE  HazardInv
PROOF
  <1>1. PICK n \in Node : write_pos_ = n /\ read_pos_ = n /\ alive = {n}
    BY DEF Init
  <1>2. /\ block = [m \in Node |-> FreshBlock] /\ hazard_ = [t \in Thread |-> NoNode]
        /\ to_delete_ = [t \in Thread |-> <<>>] /\ pc = [t \in Thread |-> "idle"]
        /\ local = [t \in Thread |-> NoLocal] /\ begun = [t \in Thread |-> 0]
    BY DEF Init
  <1>3. \A m \in Node : block[m].next = NoNode
    BY <1>2 DEF FreshBlock
  <1>4. \A t \in Thread : pc[t] = "idle" /\ ToSet(to_delete_[t]) = {}
    BY <1>2 DEF ToSet
  <1>5. QueueType
    <2>1. FreshBlock \in NodeBlock
      BY MpmcQueueAssumption DEF FreshBlock, NodeBlock, Pointer, OneValue, Empty
    <2>2. NoLocal \in Variables
      BY DEF NoLocal, Variables, Pointer
    <2>3. workload \in [Thread -> Nat]
      BY MpmcQueueAssumption DEF Init, Thread
    <2>4. hazard_ \in [Thread -> Pointer] /\ to_delete_ \in [Thread -> Seq(Node)]
      BY <1>2 DEF Pointer
    <2>5. pc \in [Thread -> PusherPlace \union PopperPlace]
      BY <1>2 DEF PusherPlace
    <2> QED BY <1>1, <1>2, <2>1, <2>2, <2>3, <2>4, <2>5 DEF QueueType
  <1>6. Locals
    BY <1>4 DEF Locals, Using, PusherPlace, PopperPlace
  <1>7. \A m : ~Unlinked(m) /\ ~Retired(m)
    BY <1>4 DEF Unlinked, Retired, RetiredBy
  <1>8. New
    BY <1>4 DEF New
  <1>9. List
    <2>1. \A m : Linked(m) <=> m = n
      BY <1>1, <1>7 DEF Linked
    <2> QED BY <1>1, <1>3, <2>1, MpmcQueueAssumption DEF List
  <1>10. Left
    <2>1. \A t \in Thread : \A m : ~RetiredBy(t, m)
      BY <1>4 DEF RetiredBy
    <2>2. \A t \in Thread : DOMAIN to_delete_[t] = {}
      BY <1>2
    <2> QED BY <1>4, <1>7, <2>1, <2>2 DEF Left
  <1>11. WritePos
    BY <1>1, <1>3, <1>4, <1>7 DEF WritePos, Using, Pusher
  <1>12. Protected
    BY <1>4 DEF Protected, Using, Popper
  <1> QED BY <1>5, <1>6, <1>8, <1>9, <1>10, <1>11, <1>12 DEF HazardInv

LEMMA NextSafe ==
  ASSUME MpmcQueueAssumption, HazardInv, [Next]_vars
  PROVE  HazardInv'
PROOF
  <1>1. CASE UNCHANGED vars
    <2>1. /\ UNCHANGED <<write_pos_, read_pos_, block, alive, hazard_, to_delete_, pc, local>>
          /\ UNCHANGED <<workload, begun>>
      BY <1>1 DEF vars, queue, hazard, ghosts
    <2>2. Pusher' = Pusher /\ Popper' = Popper
      BY <2>1 DEF Pusher, Popper
    <2>3. QueueType' /\ Locals'
      BY <2>1, <2>2 DEF HazardInv, QueueType, Locals
    <2>4. \A n : Unlinked(n)' = Unlinked(n) /\ Retired(n)' = Retired(n) /\ Linked(n)' = Linked(n)
      BY <2>1 DEF Unlinked, Linked, Retired, RetiredBy
    <2>5. New' /\ List' /\ Left' /\ WritePos' /\ Protected'
      BY <2>1, <2>2 DEF HazardInv, New, List, Left, WritePos, Protected, Unlinked, Linked, Retired,
                        RetiredBy, Unpassed
    <2> QED BY <2>3, <2>5 DEF HazardInv
  <1>2. ASSUME \A u \in Thread : ~Dangling(u), NEW t \in Thread, Step(t) PROVE HazardInv'
    <2>1. CASE ProtectLoad(t)
      BY <2>1, MpmcQueueAssumption, ProtectLoadSafe
    <2>2. CASE ProtectStore(t)
      BY <2>2, MpmcQueueAssumption, ProtectStoreSafe
    <2>3. CASE ProtectCheck(t)
      BY <2>3, MpmcQueueAssumption, ProtectCheckSafe
    <2>4. CASE Return(t)
      BY <2>4, MpmcQueueAssumption, ReturnSafe
    <2>5. CASE Push(t)
      <3>1. CASE ClaimWrite(t)
        BY <3>1, MpmcQueueAssumption, ClaimWriteSafe
      <3>2. CASE SetValue(t)
        BY <3>2, MpmcQueueAssumption, SetValueSafe
      <3>3. CASE LoadNext(t)
        BY <1>2, <3>3, MpmcQueueAssumption, LoadNextSafe
      <3>4. CASE Link(t)
        BY <1>2, <3>4, MpmcQueueAssumption, LinkSafe
      <3>5. CASE SwingWrite(t)
        BY <1>2, <3>5, MpmcQueueAssumption, SwingWriteSafe
      <3> QED BY <2>5, <3>1, <3>2, <3>3, <3>4, <3>5 DEF Push
    <2>6. CASE TryPop(t)
      <3>1. CASE ReadWritePos(t)
        BY <3>1, MpmcQueueAssumption, ReadWritePosSafe
      <3>2. CASE ComparePos(t)
        BY <3>2, MpmcQueueAssumption, ComparePosSafe
      <3>3. CASE IsLast(t)
        BY <3>3, MpmcQueueAssumption, IsLastSafe
      <3>4. CASE ClaimRead(t)
        BY <3>4, MpmcQueueAssumption, ClaimReadSafe
      <3>5. CASE GetValue(t)
        BY <3>5, MpmcQueueAssumption, GetValueSafe
      <3>6. CASE Follow(t)
        BY <3>6, MpmcQueueAssumption, FollowSafe
      <3>7. CASE SwingRead(t)
        BY <3>7, MpmcQueueAssumption, SwingReadSafe
      <3>8. CASE Retire(t)
        BY <3>8, MpmcQueueAssumption, RetireSafe
      <3>9. CASE Scan(t)
        BY <3>9, MpmcQueueAssumption, ScanSafe
      <3> QED BY <2>6, <3>1, <3>2, <3>3, <3>4, <3>5, <3>6, <3>7, <3>8, <3>9 DEF TryPop
    <2> QED BY <1>2, <2>1, <2>2, <2>3, <2>4, <2>5, <2>6 DEF Step
  <1> QED BY <1>1, <1>2 DEF Next

(* A consumer that is between HazardPointers::protect and clear (or retire)   *)
(* works on an allocated node, for any threads, nodes, blocks and workloads:   *)
(* the scan of retire (HazardPointers.h:72) deletes a node only after it has   *)
(* compared it with the hazard pointer of every thread, and a consumer that    *)
(* publishes the node later finds read_pos_ moved on (do_protect reads again).  *)
THEOREM ConsumersAreProtected == Spec => []ConsumersProtected
PROOF
  <1>1. Init => HazardInv
    BY MpmcQueueAssumption, InitSafe
  <1>2. HazardInv /\ [Next]_vars => HazardInv'
    BY MpmcQueueAssumption, NextSafe
  <1>3. HazardInv => ConsumersProtected
    BY DEF HazardInv, Protected, ConsumersProtected, Dangling
  <1> QED BY <1>1, <1>2, <1>3, PTL DEF Spec

(* write_pos_ and read_pos_ point to allocated nodes, and write_pos_ lags at   *)
(* most one node behind the last, while a producer in push is about to swing   *)
(* it: there is nothing a thread that begins push or try_pop can miss.         *)
EndsAreAllocated ==
  /\ read_pos_ \in alive /\ write_pos_ \in alive
  /\ block[write_pos_].next # NoNode =>
       /\ block[block[write_pos_].next].next = NoNode
       /\ \E t \in Thread : pc[t] = "swing" /\ local[t].node = write_pos_

(* The two pointers of the queue, whatever the consumers delete.               *)
THEOREM EndsStayAllocated == Spec => []EndsAreAllocated
PROOF
  <1>1. Init => HazardInv
    BY MpmcQueueAssumption, InitSafe
  <1>2. HazardInv /\ [Next]_vars => HazardInv'
    BY MpmcQueueAssumption, NextSafe
  <1>3. HazardInv => EndsAreAllocated
    BY DEF HazardInv, List, Linked, WritePos, EndsAreAllocated
  <1> QED BY <1>1, <1>2, <1>3, PTL DEF Spec

-----------------------------------------------------------------------------
(* The values: each is in one place, and in the order of the pushes.          *)

(* The nodes that hold the values of the queue; the others are producers' own. *)
Used(n) == n \in alive /\ ~Unlinked(n)

Holds(n, i, v) == i \in Slot /\ block[n].data[i] = v

(* The push of v has found it a slot that consumers come to.                   *)
Done(v) ==
  \/ v[2] < begun[v[1]]
  \/ v[2] = begun[v[1]] /\ pc[v[1]] \in {"idle", "return", "swing"}

(* Each value is in one place.                                                 *)
OnePlace ==
  /\ \A n \in Node, i \in Slot : block[n].data[i] \in Value \union {Empty, Taken}
  /\ \A n \in Node, i \in Slot, v \in Value : Used(n) /\ Holds(n, i, v) =>
       Done(v) /\ v \notin Popped /\ i < block[n].write_pos
  /\ \A m, n \in Node, i, j \in Slot, v \in Value :
       Used(m) /\ Holds(m, i, v) /\ Used(n) /\ Holds(n, j, v) => m = n /\ i = j
  /\ \A v \in Value : Done(v) => v \in Popped \/ \E n \in Node, i \in Slot : Used(n) /\ Holds(n, i, v)
  /\ got \in [Thread -> Seq(Value)]
  /\ \A v \in Popped : Done(v)
  /\ \A t, u \in Thread : \A i \in DOMAIN got[t], j \in DOMAIN got[u] :
       got[t][i] = got[u][j] => t = u /\ i = j

(* What was claimed for consumers is taken, or one of them is about to.        *)
ReadClaims ==
  /\ \A n \in Node, i \in Slot : Used(n) /\ i < block[n].read_pos =>
       block[n].data[i] = Taken \/ Claimed(n, i)
  /\ \A n \in Node : Retired(n) => block[n].read_pos >= BlockSize
  /\ \A t \in Thread :
       /\ pc[t] = "take" => local[t].pos \in Slot /\ local[t].pos < block[local[t].node].read_pos
       /\ pc[t] \in {"follow", "advance"} => block[local[t].node].read_pos >= BlockSize
       /\ t \in Popper /\ pc[t] \in Using => local[t].node = read_pos_ \/ Retired(local[t].node)
  /\ \A t, u \in Thread :
       pc[t] = "take" /\ pc[u] = "take" /\ local[t].node = local[u].node /\ local[t].pos = local[u].pos
         => t = u

(* A slot is claimed by one producer, who will find no value in it.            *)
WriteClaims ==
  /\ \A t \in Thread : pc[t] = "set" /\ local[t].node \in alive =>
       /\ local[t].pos \in Slot /\ local[t].pos < block[local[t].node].write_pos
       /\ block[local[t].node].data[local[t].pos] \notin Value
  /\ \A t, u \in Thread :
       /\ pc[t] = "set" /\ pc[u] = "set" /\ local[t].node \in alive
       /\ local[t].node = local[u].node /\ local[t].pos = local[u].pos
       => t = u
  /\ \A t \in Thread : pc[t] = "link" =>
       block[local[t].next] = [FreshBlock EXCEPT !.write_pos = 1, !.data[0] = Pushing(t)]

Begun ==
  /\ workload \in Workloads /\ \A t \in Thread : begun[t] <= workload[t]
  /\ \A t \in Pusher : pc[t] # "idle" => begun[t] > 0

ValuesInv == Begun /\ OnePlace /\ ReadClaims /\ WriteClaims

(* The queue leads from n to m.                                                *)
Closed(S)   == \A k \in S : Linked(k) /\ block[k].next # NoNode => block[k].next \in S
Leads(n, m) == \A S \in SUBSET Node : n \in S /\ Closed(S) => m \in S

(* v waits in a slot that no consumer has claimed.                             *)
Waits(v, n, i) == Linked(n) /\ Holds(n, i, v) /\ i >= block[n].read_pos

(* All nodes follow read_pos_, and write_pos_ those with the values whose push *)
(* has returned or is about to.                                                *)
WriteOrder ==
  /\ \A n \in Node : Linked(n) => Leads(read_pos_, n)
  /\ \A n \in Node, i \in Slot, v \in Value : Linked(n) /\ Holds(n, i, v) =>
       \/ Leads(n, write_pos_)
       \/ /\ v = Pushing(v[1]) /\ pc[v[1]] = "swing"
          /\ local[v[1]].node = write_pos_ /\ local[v[1]].next = n
  /\ \A t \in Pusher : pc[t] \in Using /\ Linked(local[t].node) => Leads(local[t].node, write_pos_)

(* A value goes behind those that were there when its push began.              *)
Behind ==
  /\ before \in [Value \union (Thread \X {0}) -> SUBSET Value]
  /\ \A x \in DOMAIN before : before[x] \subseteq Pushed
  /\ \A v \in Value : \A u \in before[v], n \in Node, i \in Slot : Waits(u, n, i) =>
       /\ v \notin Popped
       /\ \A m \in Node, j \in Slot : Used(m) /\ Holds(m, j, v) => Leads(n, m) /\ (n = m => i < j)
  /\ \A t \in Pusher : pc[t] \in Using /\ local[t].node \in alive =>
       \A u \in before[Pushing(t)], n \in Node, i \in Slot : Waits(u, n, i) =>
         /\ Leads(n, local[t].node)
         /\ pc[t] = "set" /\ n = local[t].node => i < local[t].pos

(* What a consumer has seen of the block at which it calls the queue empty.    *)
SeenEmpty ==
  \A t \in Popper : \A u \in before[<<t, 0>>], i \in Slot : Waits(u, local[t].node, i) =>
    /\ pc[t] # "last"
    /\ pc[t] = "compare" => i < local[t].pos

OrderInv == WriteOrder /\ Behind /\ SeenEmpty

-----------------------------------------------------------------------------
(* Where the values are                                                       *)

(* Facts about nodes and threads that HazardInv implies.                       *)
LEMMA UsedNodes ==
  ASSUME HazardInv
  PROVE  /\ \A n \in Node : Used(n) <=> Linked(n) \/ Retired(n)
         /\ \A t \in Thread : pc[t] \in Using /\ local[t].node \in alive => Used(local[t].node)
         /\ \A t \in Popper : pc[t] \in Using => local[t].node \in alive
         /\ \A t \in Thread : pc[t] \in Using => local[t].node \in Node
PROOF
  <1>1. \A n \in Node : Used(n) <=> Linked(n) \/ Retired(n)
    BY DEF HazardInv, Left, Used, Linked
  <1>2. ASSUME NEW t \in Thread, pc[t] \in Using, local[t].node \in alive
        PROVE  Used(local[t].node)
    BY <1>2 DEF HazardInv, New, Used, Unlinked
  <1>3. \A t \in Popper : pc[t] \in Using => local[t].node \in alive
    BY DEF HazardInv, Protected
  <1>4. \A t \in Thread : pc[t] \in Using => local[t].node \in Node
    BY DEF HazardInv, Locals
  <1> QED BY <1>1, <1>2, <1>3, <1>4

(* Only a thread of the right kind is at each place.                           *)
LEMMA Places ==
  ASSUME HazardInv
  PROVE  /\ \A t \in Thread : /\ pc[t] \in {"set", "load_next", "link", "help", "swing"} => t \in Pusher
                              /\ pc[t] \in {"compare", "last", "claim", "take", "follow", "advance",
                                            "retire", "scan"} => t \in Popper
         /\ \A t \in Thread : t \in Pusher \/ t \in Popper
         /\ Pusher \intersect Popper = {}
PROOF
  <1>1. \A t \in Thread : pc[t] \in IF t \in Pusher THEN PusherPlace ELSE PopperPlace
    BY DEF HazardInv, Locals
  <1> QED BY <1>1 DEF Popper, PusherPlace, PopperPlace, Pusher

LEMMA Values ==
  ASSUME MpmcQueueAssumption, NEW v \in Value
  PROVE  /\ v[1] \in Thread /\ v[2] \in Nat /\ v[2] > 0 /\ v = <<v[1], v[2]>>
         /\ v # Empty /\ v # Taken /\ v # <<v[1], 0>>
PROOF
  <1>1. PICK t \in Thread, w \in Workloads : v \in {t} \X (1..w[t])
    BY DEF Value
  <1>2. w[t] \in Nat
    BY <1>1, MpmcQueueAssumption DEF MpmcQueueAssumption, Thread
  <1>3. PICK k \in 1..w[t] : v = <<t, k>>
    BY <1>1
  <1>4. t \in Nat /\ t > 0 /\ k \in Nat /\ k > 0
    BY <1>2, MpmcQueueAssumption DEF Thread, MpmcQueueAssumption
  <1> QED BY <1>3, <1>4 DEF Empty, Taken

(* Done depends on where its producer is.                                      *)
Settled == {"idle", "return", "swing"}

LEMMA DoneKept ==
  ASSUME MpmcQueueAssumption, HazardInv, Begun, NEW t \in Thread, begun' = begun,
         \A u \in Thread \ {t} : pc'[u] = pc[u],
         t \in Popper \/ (pc[t] \in Settled <=> pc'[t] \in Settled)
  PROVE  \A v \in Value : Done(v)' = Done(v)
PROOF
  <1>1. SUFFICES ASSUME NEW v \in Value PROVE Done(v)' = Done(v)
    OBVIOUS
  <1>2. v[1] \in Thread /\ v[2] \in Nat /\ v[2] > 0
    BY Values
  <1>3. CASE v[1] = t /\ t \in Popper
    <2>1. begun[t] <= workload[t] /\ workload[t] \in Nat /\ begun[t] \in Nat /\ ~(workload[t] > 0)
      BY <1>3 DEF Begun, HazardInv, QueueType, Popper, Pusher
    <2>2. begun[t] = 0
      BY <2>1
    <2>3. ~(v[2] < begun[v[1]]) /\ v[2] # begun[v[1]]
      BY <2>2, <1>2, <1>3
    <2> QED BY <2>3 DEF Done
  <1>4. CASE ~(v[1] = t /\ t \in Popper)
    <2>1. pc[v[1]] \in Settled <=> pc'[v[1]] \in Settled
      BY <1>2, <1>4
    <2> QED BY <2>1 DEF Done, Settled
  <1> QED BY <1>3, <1>4

LEMMA OnePlaceKept ==
  ASSUME HazardInv, MpmcQueueAssumption, OnePlace, QueueType', got' = got,
         \A v \in Value : Done(v)' = Done(v),
         \A n \in Node : Used(n)' => Used(n),
         \A n \in Node : Used(n) => 
           Used(n)' \/ \A i \in Slot : block[n].data[i] \notin Value,
         \A n \in Node : Used(n)' => block'[n].data = block[n].data /\ block'[n].write_pos >= block[n].write_pos,
         \A n \in Node, i \in Slot : block'[n].data[i] \in Value \union {Empty, Taken}
  PROVE  OnePlace'
PROOF
  <1>1. Popped' = Popped
    BY DEF Popped
  <1>2. \A n \in Node, i \in Slot, v \in Value : Used(n)' /\ Holds(n, i, v)' <=> Used(n) /\ Holds(n, i, v)
    BY DEF Holds
  <1>3. \A n \in Node : block'[n].write_pos \in Nat /\ block[n].write_pos \in Nat
    BY DEF HazardInv, QueueType, NodeBlock
  <1>4. \A n \in Node, i \in Slot, v \in Value : Used(n)' /\ Holds(n, i, v)' =>
          Done(v)' /\ v \notin Popped' /\ i < block'[n].write_pos
    <2>1. SUFFICES ASSUME NEW n \in Node, NEW i \in Slot, NEW v \in Value, Used(n)', Holds(n, i, v)'
                   PROVE  Done(v)' /\ v \notin Popped' /\ i < block'[n].write_pos
      OBVIOUS
    <2>2. Done(v) /\ v \notin Popped /\ i < block[n].write_pos
      BY <1>2, <2>1 DEF OnePlace
    <2>3. i \in Int /\ block'[n].write_pos >= block[n].write_pos
      BY <2>1 DEF Slot
    <2> QED BY <1>1, <1>3, <2>2, <2>3
  <1>5. \A m, n \in Node, i, j \in Slot, v \in Value :
          Used(m)' /\ Holds(m, i, v)' /\ Used(n)' /\ Holds(n, j, v)' => m = n /\ i = j
    <2>1. SUFFICES ASSUME NEW m \in Node, NEW n \in Node, NEW i \in Slot, NEW j \in Slot, NEW v \in Value,
                          Used(m)' /\ Holds(m, i, v)' /\ Used(n)' /\ Holds(n, j, v)'
                   PROVE  m = n /\ i = j
      OBVIOUS
    <2>2. Used(m) /\ Holds(m, i, v) /\ Used(n) /\ Holds(n, j, v)
      BY <1>2, <2>1
    <2> QED BY <2>2 DEF OnePlace
  <1>6. \A v \in Value : Done(v)' => v \in Popped' \/ \E n \in Node, i \in Slot : Used(n)' /\ Holds(n, i, v)'
    BY <1>1, <1>2 DEF OnePlace
  <1>7. \A v \in Popped' : Done(v)'
    <2>1. \A v \in Popped : v \in Value /\ Done(v)
      <3>1. SUFFICES ASSUME NEW v \in Popped PROVE v \in Value /\ Done(v)
        OBVIOUS
      <3>2. PICK t \in Thread : v \in ToSet(got[t])
        BY DEF Popped
      <3>3. got[t] \in Seq(Value)
        BY DEF OnePlace
      <3>4. v \in Value
        BY <3>2, <3>3 DEF ToSet
      <3> QED BY <3>4 DEF OnePlace
    <2> QED BY <1>1, <2>1
  <1> QED BY <1>4, <1>5, <1>6, <1>7 DEF OnePlace

LEMMA ReadClaimsKept ==
  ASSUME MpmcQueueAssumption, HazardInv, HazardInv', ReadClaims, NEW t \in Thread,
         \A u \in Thread \ {t} : pc'[u] = pc[u] /\ local'[u] = local[u],
         workload' = workload, read_pos_' = read_pos_,
         \A n \in Node : Used(n)' => Used(n) \/ block'[n].read_pos = 0,
         \A n \in Node : Used(n) /\ n \in alive' =>
           /\ block'[n].read_pos = block[n].read_pos
           /\ \A i \in Slot : block[n].data[i] = Taken => block'[n].data[i] = Taken,
         \A n \in Node : n \in alive' => (Retired(n)' <=> Retired(n)),
         pc[t] # "take", pc'[t] # "take",
         pc'[t] \in {"follow", "advance"} => block'[local'[t].node].read_pos >= BlockSize,
         t \in Popper /\ pc'[t] \in Using => local'[t].node = read_pos_ \/ Retired(local'[t].node)
  PROVE  ReadClaims'
PROOF
  <1>1. Popper' = Popper
    BY DEF Popper, Pusher
  <1>2. \A u \in Popper : u \in Thread
    BY DEF Popper
  <1>3. \A n, i : Claimed(n, i)' <=> Claimed(n, i)
    <2>1. SUFFICES ASSUME NEW n, NEW i PROVE Claimed(n, i)' <=> Claimed(n, i)
      OBVIOUS
    <2>2. \A u \in Popper : (pc'[u] = "take" /\ local'[u].node = n /\ local'[u].pos = i)
                        <=> (pc[u] = "take" /\ local[u].node = n /\ local[u].pos = i)
      BY <1>2
    <2> QED BY <1>1, <2>2 DEF Claimed
  <1>4. \A n \in Node : Used(n)' => n \in alive'
    BY DEF Used
  <1>5. /\ \A u \in Popper : pc[u] \in Using => local[u].node \in Node /\ Used(local[u].node)
        /\ \A u \in Popper : pc'[u] \in Using => local'[u].node \in Node /\ local'[u].node \in alive'
    <2>1. \A u \in Popper : pc[u] \in Using => local[u].node \in Node /\ Used(local[u].node)
      BY <1>2, UsedNodes
    <2>2. \A u \in Popper : pc'[u] \in Using => local'[u].node \in Node /\ local'[u].node \in alive'
      BY <1>1, <1>2 DEF HazardInv, Locals, Protected
    <2> QED BY <2>1, <2>2
  <1>6. \A n \in Node, i \in Slot : Used(n)' /\ i < block'[n].read_pos =>
          block'[n].data[i] = Taken \/ Claimed(n, i)'
    <2>1. SUFFICES ASSUME NEW n \in Node, NEW i \in Slot, Used(n)', i < block'[n].read_pos
                   PROVE  block'[n].data[i] = Taken \/ Claimed(n, i)'
      OBVIOUS
    <2>2. i \in Nat
      BY DEF Slot
    <2>3. Used(n)
      BY <2>1, <2>2
    <2>4. i < block[n].read_pos
      BY <1>4, <2>1, <2>3
    <2> QED BY <1>3, <1>4, <2>1, <2>3, <2>4 DEF ReadClaims
  <1>7. \A n \in Node : Retired(n)' => block'[n].read_pos >= BlockSize
    <2>1. \A n \in Node : Retired(n)' => n \in alive'
      BY DEF HazardInv, Left
    <2>2. \A n \in Node : Retired(n) => Used(n)
      BY UsedNodes
    <2> QED BY <2>1, <2>2 DEF ReadClaims
  <1>8. ASSUME NEW u \in Thread
        PROVE  /\ pc'[u] = "take" => local'[u].pos \in Slot /\ local'[u].pos < block'[local'[u].node].read_pos
               /\ pc'[u] \in {"follow", "advance"} => block'[local'[u].node].read_pos >= BlockSize
               /\ \A n : u \in Popper' /\ pc'[u] \in Using /\ local'[u].node = n =>
                         n = read_pos_' \/ Retired(n)'
    <2>1. CASE u = t
      <3>1. t \in Popper /\ pc'[t] \in Using => local'[t].node \in Node /\ local'[t].node \in alive'
        BY <1>5
      <3>2. \A n : u \in Popper' /\ pc'[u] \in Using /\ local'[u].node = n =>
                    n = read_pos_' \/ Retired(n)'
        BY <1>1, <2>1, <3>1
      <3> QED BY <2>1, <3>2
    <2>2. CASE u # t
      <3>1. pc'[u] = pc[u] /\ local'[u] = local[u]
        BY <2>2
      <3>2. pc[u] \in {"take", "follow", "advance"} => u \in Popper /\ pc[u] \in Using
        BY Places DEF Using
      <3>3. u \in Popper /\ pc[u] \in Using =>
              local[u].node \in Node /\ Used(local[u].node) /\ local[u].node \in alive'
        BY <1>5, <3>1
      <3>4. u \in Popper /\ pc[u] \in Using => block'[local[u].node].read_pos = block[local[u].node].read_pos
        BY <3>3
      <3>5. \A n : u \in Popper' /\ pc'[u] \in Using /\ local'[u].node = n =>
                    n = read_pos_' \/ Retired(n)'
        BY <1>1, <3>1, <3>3 DEF ReadClaims
      <3> QED BY <3>1, <3>2, <3>4, <3>5 DEF ReadClaims
    <2> QED BY <2>1, <2>2
  <1>9. \A u, v \in Thread :
          pc'[u] = "take" /\ pc'[v] = "take" /\ local'[u].node = local'[v].node /\ local'[u].pos = local'[v].pos
            => u = v
    BY DEF ReadClaims
  <1> QED BY <1>6, <1>7, <1>8, <1>9 DEF ReadClaims

LEMMA WriteClaimsMoved ==
  ASSUME MpmcQueueAssumption, HazardInv, HazardInv', WriteClaims, NEW t \in Thread,
         \A u \in Thread \ {t} : pc'[u] = pc[u] /\ local'[u] = local[u] /\ begun'[u] = begun[u],
         \A u \in Thread \ {t} : pc[u] = "set" /\ local[u].node \in alive' =>
           /\ local[u].node \in alive
           /\ block'[local[u].node].write_pos >= block[local[u].node].write_pos
           /\ block'[local[u].node].data[local[u].pos] \notin Value,
         \A u \in Thread \ {t} : pc[u] = "link" => block'[local[u].next] = block[local[u].next],
         pc'[t] = "set" /\ local'[t].node \in alive' =>
           /\ local'[t].pos \in Slot /\ local'[t].pos < block'[local'[t].node].write_pos
           /\ block'[local'[t].node].data[local'[t].pos] \notin Value
           /\ \A u \in Thread \ {t} : pc[u] = "set" /\ local[u].node = local'[t].node =>
                local[u].pos # local'[t].pos,
         pc'[t] = "link" =>
           block'[local'[t].next] = [FreshBlock EXCEPT !.write_pos = 1, !.data[0] = Pushing(t)']
  PROVE  WriteClaims'
PROOF
  <1>1. ASSUME NEW u \in Thread, pc'[u] = "set", local'[u].node \in alive'
        PROVE  /\ local'[u].pos \in Slot /\ local'[u].pos < block'[local'[u].node].write_pos
               /\ block'[local'[u].node].data[local'[u].pos] \notin Value
    <2>1. CASE u = t
      BY <1>1, <2>1
    <2>2. CASE u # t
      <3>1. pc[u] = "set" /\ local'[u] = local[u] /\ local[u].node \in Node /\ local[u].node \in alive
        BY <1>1, <2>2, UsedNodes DEF Using
      <3>2. local[u].pos \in Slot /\ local[u].pos < block[local[u].node].write_pos
        BY <3>1 DEF WriteClaims
      <3>3. block'[local[u].node].write_pos \in Nat /\ block[local[u].node].write_pos \in Nat
        BY <3>1 DEF HazardInv, QueueType, NodeBlock
      <3>4. local[u].pos \in Nat /\ block'[local[u].node].write_pos >= block[local[u].node].write_pos
        BY <1>1, <2>2, <3>1, <3>2 DEF Slot
      <3>5. local[u].pos < block'[local[u].node].write_pos
        BY <3>2, <3>3, <3>4
      <3>6. block'[local[u].node].data[local[u].pos] \notin Value
        BY <1>1, <2>2, <3>1
      <3> QED BY <3>1, <3>2, <3>5, <3>6
    <2> QED BY <2>1, <2>2
  <1>2. ASSUME NEW u \in Thread, NEW v \in Thread, pc'[u] = "set", pc'[v] = "set", local'[u].node \in alive',
               local'[u].node = local'[v].node, local'[u].pos = local'[v].pos
        PROVE  u = v
    <2>1. CASE u # t /\ v # t
      <3>1. /\ pc[u] = "set" /\ local'[u] = local[u] /\ local[u].node \in alive
            /\ pc[v] = "set" /\ local'[v] = local[v]
        BY <1>2, <2>1
      <3>2. local[u].node = local[v].node /\ local[u].pos = local[v].pos
        BY <1>2, <3>1
      <3> QED BY <3>1, <3>2 DEF WriteClaims
    <2>2. CASE u = t /\ v # t
      <3>1. pc[v] = "set" /\ local'[v] = local[v]
        BY <1>2, <2>2
      <3>2. local[v].pos # local'[t].pos
        BY <1>2, <2>2, <3>1
      <3> QED BY <1>2, <2>2, <3>1, <3>2
    <2>3. CASE u # t /\ v = t
      <3>1. pc[u] = "set" /\ local'[u] = local[u]
        BY <1>2, <2>3
      <3>2. local'[t].node \in alive' /\ local[u].node = local'[t].node
        BY <1>2, <2>3, <3>1
      <3>3. local[u].pos # local'[t].pos
        BY <1>2, <2>3, <3>1, <3>2
      <3> QED BY <1>2, <2>3, <3>1, <3>3
    <2> QED BY <2>1, <2>2, <2>3
  <1>3. FreshBlock' = FreshBlock
    BY DEF FreshBlock
  <1>4. ASSUME NEW u \in Thread, pc'[u] = "link"
        PROVE  block'[local'[u].next] = [FreshBlock EXCEPT !.write_pos = 1, !.data[0] = Pushing(u)']
    <2>1. CASE u = t
      BY <1>4, <2>1
    <2>2. CASE u # t
      <3>1. pc[u] = "link" /\ local'[u] = local[u] /\ begun'[u] = begun[u]
        BY <1>4, <2>2
      <3>2. block[local[u].next] = [FreshBlock EXCEPT !.write_pos = 1, !.data[0] = Pushing(u)]
        BY <3>1 DEF WriteClaims
      <3>3. Pushing(u)' = Pushing(u)
        BY <3>1 DEF Pushing
      <3> QED BY <2>2, <3>1, <3>2, <3>3
    <2> QED BY <2>1, <2>2
  <1> QED BY <1>1, <1>2, <1>3, <1>4 DEF WriteClaims

LEMMA WriteClaimsKept ==
  ASSUME MpmcQueueAssumption, HazardInv, HazardInv', WriteClaims, NEW t \in Thread,
         \A u \in Thread \ {t} : pc'[u] = pc[u] /\ local'[u] = local[u] /\ begun'[u] = begun[u],
         \A n \in Node : n \in alive /\ n \in alive' =>
           /\ block'[n].write_pos >= block[n].write_pos
           /\ \A i \in Slot : block[n].data[i] \notin Value => block'[n].data[i] \notin Value,
         \A u \in Thread : pc[u] \in Using => local[u].node \in alive,
         \A n \in Node : Unlinked(n)' /\ Unlinked(n) => block'[n] = block[n],
         pc'[t] \notin {"set", "link"}
  PROVE  WriteClaims'
PROOF
  <1>1. ASSUME NEW u \in Thread \ {t}, pc[u] = "set", local[u].node \in alive'
        PROVE  /\ local[u].node \in alive
               /\ block'[local[u].node].write_pos >= block[local[u].node].write_pos
               /\ block'[local[u].node].data[local[u].pos] \notin Value
    <2>1. local[u].node \in Node /\ local[u].node \in alive
      BY <1>1, UsedNodes DEF Using
    <2> QED BY <1>1, <2>1 DEF WriteClaims
  <1>2. ASSUME NEW u \in Thread \ {t}, pc[u] = "link" PROVE block'[local[u].next] = block[local[u].next]
    <2>1. local[u].next \in Node /\ Unlinked(local[u].next) /\ Unlinked(local[u].next)'
      BY <1>2 DEF HazardInv, Locals, Unlinked
    <2> QED BY <2>1
  <1> QED BY <1>1, <1>2, WriteClaimsMoved

(* Steps of t that change no block, and neither what is linked nor what is retired. *)
LEMMA ValuesStay ==
  ASSUME MpmcQueueAssumption, HazardInv, HazardInv', ValuesInv, NEW t \in Thread,
         UNCHANGED <<block, alive, read_pos_, got, workload>>,
         \A u \in Thread \ {t} : pc'[u] = pc[u] /\ local'[u] = local[u] /\ begun'[u] = begun[u],
         \A n : Retired(n)' <=> Retired(n),
         \A v \in Value : Done(v)' = Done(v), Begun',
         \A u \in Thread : pc[u] \in Using => local[u].node \in alive,
         pc[t] \notin {"take", "link"}, pc'[t] \notin {"take", "set", "link"},
         pc'[t] \in {"follow", "advance"} => block[local'[t].node].read_pos >= BlockSize,
         t \in Popper /\ pc'[t] \in Using => local'[t].node = read_pos_ \/ Retired(local'[t].node)
  PROVE  ValuesInv'
PROOF
  <1>1. OnePlace /\ ReadClaims /\ WriteClaims
    BY DEF ValuesInv
  <1>2. \A n : Unlinked(n)' <=> Unlinked(n)
    <2>1. SUFFICES ASSUME NEW n PROVE Unlinked(n)' <=> Unlinked(n)
      OBVIOUS
    <2>2. \A u \in Thread : (pc'[u] = "link" /\ local'[u].next = n) <=> (pc[u] = "link" /\ local[u].next = n)
      OBVIOUS
    <2> QED BY <2>2 DEF Unlinked
  <1>3. \A n : Used(n)' <=> Used(n)
    BY <1>2 DEF Used
  <1>4. \A n \in Node : block[n].write_pos >= block[n].write_pos
    BY DEF HazardInv, QueueType, NodeBlock
  <1>5. OnePlace'
    <2>1. QueueType' /\ \A n \in Node, i \in Slot : block'[n].data[i] \in Value \union {Empty, Taken}
      BY <1>1 DEF HazardInv, OnePlace
    <2> QED BY <1>1, <1>3, <1>4, <2>1, OnePlaceKept
  <1>6. ReadClaims'
    BY <1>1, <1>3, ReadClaimsKept
  <1>7. WriteClaims'
    BY <1>1, <1>4, WriteClaimsKept
  <1> QED BY <1>5, <1>6, <1>7 DEF ValuesInv

LEMMA RetiredStay ==
  ASSUME NEW t \in Thread, to_delete_' = to_delete_,
         \A u \in Thread \ {t} : pc'[u] = pc[u] /\ local'[u] = local[u],
         pc[t] # "retire", pc'[t] # "retire"
  PROVE  \A n : Retired(n)' <=> Retired(n)
PROOF
  <1>1. SUFFICES ASSUME NEW n PROVE Retired(n)' <=> Retired(n)
    OBVIOUS
  <1>2. \A u \in Thread : RetiredBy(u, n)' <=> RetiredBy(u, n)
    BY DEF RetiredBy
  <1> QED BY <1>2 DEF Retired

LEMMA AppendedSet ==
  ASSUME NEW S, NEW s \in Seq(S), NEW e \in S
  PROVE  ToSet(Append(s, e)) = ToSet(s) \union {e}
PROOF
  <1>1. PICK n : n = Len(s)
    OBVIOUS
  <1>2. n \in Nat /\ DOMAIN s = 1..n
    BY <1>1, LenProperties
  <1>3. PICK list : list = Append(s, e)
    OBVIOUS
  <1>4. DOMAIN list = 1..(n + 1) /\ list[n + 1] = e /\ \A i \in 1..n : list[i] = s[i]
    BY <1>1, <1>2, <1>3, AppendProperties, LenProperties
  <1>5. \A i \in 1..(n + 1) : i \in 1..n \/ i = n + 1
    BY <1>2
  <1>6. n + 1 \in 1..(n + 1) /\ \A i \in 1..n : i \in 1..(n + 1)
    BY <1>2
  <1>7. \A x : x \in ToSet(list) <=> \E i \in 1..(n + 1) : list[i] = x
    BY <1>4 DEF ToSet
  <1>8. \A x : x \in ToSet(s) <=> \E i \in 1..n : s[i] = x
    BY <1>2 DEF ToSet
  <1>9. \A x \in ToSet(list) : x \in ToSet(s) \union {e}
    BY <1>4, <1>5, <1>7, <1>8
  <1>10. \A x \in ToSet(s) \union {e} : x \in ToSet(list)
    BY <1>4, <1>6, <1>7, <1>8
  <1> QED BY <1>3, <1>9, <1>10

LEMMA BegunKept ==
  ASSUME Begun, NEW t \in Thread, workload' = workload, begun' = begun,
         \A u \in Thread \ {t} : pc'[u] = pc[u],
         t \in Pusher /\ pc'[t] # "idle" => pc[t] # "idle"
  PROVE  Begun'
PROOF
  <1>1. Pusher' = Pusher
    BY DEF Pusher
  <1>2. ASSUME NEW u \in Pusher, pc'[u] # "idle" PROVE begun'[u] > 0
    <2>1. u \in Thread /\ pc[u] # "idle"
      BY <1>2 DEF Pusher
    <2> QED BY <2>1 DEF Begun
  <1> QED BY <1>1, <1>2 DEF Begun

(* A step that only moves t on, and ends no push.                              *)
Passive(t) ==
  /\ UNCHANGED <<block, alive, read_pos_, to_delete_, got, workload, begun>>
  /\ \A u \in Thread \ {t} : pc'[u] = pc[u] /\ local'[u] = local[u]
  /\ pc[t] \notin {"take", "link", "retire", "idle"}
  /\ pc'[t] \notin {"take", "set", "link", "retire"}
  /\ t \in Popper \/ (pc[t] \in Settled <=> pc'[t] \in Settled)
  /\ pc'[t] \in {"follow", "advance"} => block[local'[t].node].read_pos >= BlockSize
  /\ t \in Popper /\ pc'[t] \in Using => local'[t].node = read_pos_ \/ Retired(local'[t].node)

LEMMA PassiveValues ==
  ASSUME MpmcQueueAssumption, HazardInv, HazardInv', ValuesInv, NEW t \in Thread, Passive(t),
         \A u \in Thread : pc[u] \in Using => local[u].node \in alive
  PROVE  ValuesInv'
PROOF
  <1>1. \A n : Retired(n)' <=> Retired(n)
    BY RetiredStay DEF Passive
  <1>2. Begun /\ Begun'
    BY BegunKept DEF Passive, ValuesInv
  <1>3. \A v \in Value : Done(v)' = Done(v)
    BY <1>2, DoneKept DEF Passive
  <1>4. /\ UNCHANGED <<block, alive, read_pos_, got, workload>>
        /\ \A u \in Thread \ {t} : pc'[u] = pc[u] /\ local'[u] = local[u] /\ begun'[u] = begun[u]
        /\ pc[t] \notin {"take", "link"} /\ pc'[t] \notin {"take", "set", "link"}
        /\ pc'[t] \in {"follow", "advance"} => block[local'[t].node].read_pos >= BlockSize
        /\ t \in Popper /\ pc'[t] \in Using => local'[t].node = read_pos_ \/ Retired(local'[t].node)
    BY DEF Passive
  <1> QED BY <1>1, <1>2, <1>3, <1>4, ValuesStay

LEMMA PassiveSteps ==
  ASSUME HazardInv, ReadClaims, NEW t \in Thread,
         \/ (ProtectLoad(t) /\ pc[t] # "idle") \/ ProtectStore(t) \/ ProtectCheck(t)
         \/ Return(t) \/ ReadWritePos(t) \/ ComparePos(t) \/ IsLast(t) \/ Follow(t) \/ SwingWrite(t)
         \/ SetValue(t) /\ block[local[t].node].data[local[t].pos] # Empty
         \/ LoadNext(t) /\ block[local[t].node].next # NoNode
         \/ Scan(t) /\ UNCHANGED <<alive, block, to_delete_>>
  PROVE  Passive(t)
PROOF
  <1>1. pc \in [Thread -> PusherPlace \union PopperPlace] /\ local \in [Thread -> Variables]
    BY DEF HazardInv, QueueType
  <1>2. pc[t] \in {"set", "load_next", "link", "help", "swing"} => t \notin Popper
    BY Places
  <1>3. t \in Popper /\ pc[t] \in Using => local[t].node = read_pos_ \/ Retired(local[t].node)
    BY DEF ReadClaims
  <1>4. CASE ProtectLoad(t) /\ pc[t] # "idle"
    BY <1>1, <1>4 DEF ProtectLoad, Passive, Goto, queue, hazard, Settled, Using
  <1>5. CASE ProtectStore(t)
    BY <1>1, <1>5 DEF ProtectStore, Passive, Goto, queue, ghosts, Settled, Using
  <1>6. CASE ProtectCheck(t)
    BY <1>1, <1>6 DEF ProtectCheck, Passive, Goto, queue, hazard, ghosts, Settled, Using, Source
  <1>7. CASE Return(t)
    BY <1>1, <1>7 DEF Return, Passive, Goto, queue, ghosts, Settled, Using
  <1>8. CASE ReadWritePos(t)
    BY <1>1, <1>3, <1>8 DEF ReadWritePos, Passive, Goto, queue, hazard, ghosts, Using, Variables
  <1>9. CASE ComparePos(t)
    BY <1>1, <1>3, <1>9, Places DEF ComparePos, Passive, Goto, queue, hazard, ghosts, Using, Variables
  <1>10. CASE IsLast(t)
    BY <1>1, <1>3, <1>10, Places DEF IsLast, Passive, Goto, EndRound, queue, hazard, ghosts, Using
  <1>11. CASE Follow(t)
    BY <1>1, <1>3, <1>11, Places DEF Follow, Passive, Goto, EndRound, queue, hazard, ghosts, Using, ReadClaims, Variables
  <1>12. CASE SwingWrite(t)
    BY <1>1, <1>2, <1>12 DEF SwingWrite, Passive, Goto, EndRound, hazard, ghosts, Settled, Using
  <1>13. CASE SetValue(t) /\ block[local[t].node].data[local[t].pos] # Empty
    BY <1>1, <1>2, <1>13 DEF SetValue, Passive, Goto, EndRound, hazard, ghosts, Settled, Using
  <1>14. CASE LoadNext(t) /\ block[local[t].node].next # NoNode
    BY <1>1, <1>2, <1>14 DEF LoadNext, Passive, Goto, hazard, ghosts, Settled, Using
  <1>15. CASE Scan(t) /\ UNCHANGED <<alive, block, to_delete_>>
    BY <1>1, <1>15, Places DEF Scan, Passive, ghosts, Using
  <1> QED BY <1>4, <1>5, <1>6, <1>7, <1>8, <1>9, <1>10, <1>11, <1>12, <1>13, <1>14, <1>15

(* A thread begins push or try_pop.                                            *)
LEMMA BeginValues ==
  ASSUME MpmcQueueAssumption, HazardInv, HazardInv', ValuesInv, NEW t \in Thread, ProtectLoad(t), pc[t] = "idle",
         \A u \in Thread : pc[u] \in Using => local[u].node \in alive
  PROVE  ValuesInv'
PROOF
  <1>1. /\ pc \in [Thread -> PusherPlace \union PopperPlace] /\ local \in [Thread -> Variables]
        /\ begun \in [Thread -> Nat] /\ workload \in [Thread -> Nat]
    BY DEF HazardInv, QueueType
  <1>2. /\ UNCHANGED <<block, alive, read_pos_, to_delete_, got, workload>>
        /\ pc' = [pc EXCEPT ![t] = "store"]
        /\ \A u \in Thread \ {t} : pc'[u] = pc[u] /\ local'[u] = local[u] /\ begun'[u] = begun[u]
    BY <1>1 DEF ProtectLoad, queue, hazard, Goto
  <1>3. pc'[t] = "store" /\ begun'[t] = IF t \in Popper THEN begun[t] ELSE begun[t] + 1
    BY <1>1, <1>2 DEF ProtectLoad
  <1>4. /\ t \in Popper \/ begun[t] < workload[t]
        /\ t \in Popper => workload[t] = 0 /\ begun[t] = 0
    <2>1. t \in Popper => ~(workload[t] > 0) /\ begun[t] <= workload[t]
      BY DEF Popper, Pusher, ValuesInv, Begun
    <2>2. workload[t] \in Nat /\ begun[t] \in Nat
      BY <1>1
    <2> QED BY <2>1, <2>2 DEF ProtectLoad
  <1>5. Begun'
    <2>1. begun'[t] <= workload[t] /\ (t \in Pusher => begun'[t] > 0)
      BY <1>1, <1>3, <1>4 DEF Popper
    <2>2. Pusher' = Pusher
      BY <1>2 DEF Pusher
    <2> QED BY <1>2, <2>1, <2>2 DEF ValuesInv, Begun, Pusher
  <1>6. \A v \in Value : Done(v)' = Done(v)
    <2>1. SUFFICES ASSUME NEW v \in Value PROVE Done(v)' = Done(v)
      OBVIOUS
    <2>2. v[1] \in Thread /\ v[2] \in Nat /\ v[2] > 0
      BY Values
    <2>3. CASE v[1] = t
      <3>1. CASE t \in Popper
        <4>1. begun[t] = 0 /\ begun'[t] = 0
          BY <1>3, <1>4, <3>1
        <4> QED BY <2>2, <2>3, <4>1 DEF Done
      <3>2. CASE t \notin Popper
        <4>1. begun'[t] = begun[t] + 1 /\ begun[t] \in Nat /\ pc[t] = "idle"
          BY <1>1, <1>3, <3>2
        <4>2. v[2] < begun[t] + 1 <=> v[2] < begun[t] \/ v[2] = begun[t]
          BY <2>2, <4>1
        <4>3. Done(v)' <=> v[2] < begun[t] + 1
          BY <1>3, <2>3, <4>1 DEF Done
        <4>4. Done(v) <=> v[2] < begun[t] \/ v[2] = begun[t]
          BY <2>3, <4>1 DEF Done
        <4>5. Done(v) \in BOOLEAN /\ Done(v)' \in BOOLEAN
          BY DEF Done
        <4> QED BY <4>2, <4>3, <4>4, <4>5
      <3> QED BY <3>1, <3>2
    <2>4. CASE v[1] # t
      BY <1>2, <2>2, <2>4 DEF Done
    <2> QED BY <2>3, <2>4
  <1>7. \A n : Retired(n)' <=> Retired(n)
    BY <1>2, <1>3, RetiredStay
  <1>8. pc'[t] \notin {"take", "set", "link"} \union Using
    BY <1>3 DEF Using
  <1>9. /\ pc'[t] \in {"follow", "advance"} => block[local'[t].node].read_pos >= BlockSize
        /\ t \in Popper /\ pc'[t] \in Using => local'[t].node = read_pos_ \/ Retired(local'[t].node)
    BY <1>3 DEF Using
  <1> QED BY <1>2, <1>5, <1>6, <1>7, <1>8, <1>9, ValuesStay

(* retire puts the node on its thread's list, where it was as good as.          *)
LEMMA RetireEffect ==
  ASSUME HazardInv, NEW t \in Thread, Retire(t)
  PROVE  \A n : Retired(n)' <=> Retired(n)
PROOF
  <1>1. /\ pc \in [Thread -> PusherPlace \union PopperPlace] /\ local \in [Thread -> Variables]
        /\ to_delete_ \in [Thread -> Seq(Node)]
    BY DEF HazardInv, QueueType
  <1>2. pc[t] = "retire" /\ pc'[t] = "scan" /\ local[t].node \in Node
        /\ to_delete_' = [to_delete_ EXCEPT ![t] = Append(to_delete_[t], local[t].node)]
    BY <1>1 DEF Retire, Goto, HazardInv, Locals
  <1>3. ToSet(to_delete_'[t]) = ToSet(to_delete_[t]) \union {local[t].node}
    BY <1>1, <1>2, AppendedSet
  <1>4. \A n : RetiredBy(t, n)' <=> RetiredBy(t, n)
    BY <1>2, <1>3 DEF RetiredBy
  <1>5. \A u \in Thread \ {t} : to_delete_'[u] = to_delete_[u] /\ pc'[u] = pc[u] /\ local'[u] = local[u]
    BY <1>1, <1>2 DEF Retire, Goto
  <1>6. ASSUME NEW n PROVE Retired(n)' <=> Retired(n)
    <2>1. \A u \in Thread : RetiredBy(u, n)' <=> RetiredBy(u, n)
      BY <1>4, <1>5 DEF RetiredBy
    <2> QED BY <2>1 DEF Retired
  <1> QED BY <1>6

LEMMA RetireValues ==
  ASSUME MpmcQueueAssumption, HazardInv, HazardInv', ValuesInv, NEW t \in Thread, Retire(t),
         \A u \in Thread : pc[u] \in Using => local[u].node \in alive
  PROVE  ValuesInv'
PROOF
  <1>1. pc \in [Thread -> PusherPlace \union PopperPlace] /\ local \in [Thread -> Variables]
    BY DEF HazardInv, QueueType
  <1>2. /\ UNCHANGED <<block, alive, read_pos_, got, workload, begun>>
        /\ pc[t] = "retire" /\ pc'[t] = "scan"
        /\ \A u \in Thread \ {t} : pc'[u] = pc[u] /\ local'[u] = local[u]
    BY <1>1 DEF Retire, queue, ghosts, Goto
  <1>3. t \in Popper
    BY <1>2, Places
  <1>4. Begun /\ Begun'
    BY <1>2, BegunKept DEF ValuesInv
  <1>5. \A v \in Value : Done(v)' = Done(v)
    BY <1>2, <1>3, <1>4, DoneKept
  <1>6. \A n : Retired(n)' <=> Retired(n)
    BY RetireEffect
  <1>7. pc'[t] \notin {"take", "set", "link"} \union Using
    BY <1>2 DEF Using
  <1>8. /\ \A u \in Thread \ {t} : pc'[u] = pc[u] /\ local'[u] = local[u] /\ begun'[u] = begun[u]
        /\ pc'[t] \in {"follow", "advance"} => block[local'[t].node].read_pos >= BlockSize
        /\ t \in Popper /\ pc'[t] \in Using => local'[t].node = read_pos_ \/ Retired(local'[t].node)
        /\ pc[t] \notin {"take", "link"}
    BY <1>2, <1>7 DEF Using
  <1> QED BY <1>2, <1>4, <1>5, <1>6, <1>7, <1>8, ValuesStay

(* Delete, the last step of a scan.                                            *)
Deletes(t, n) ==
  /\ pc[t] = "scan" /\ n \in Node /\ Retired(n)
  /\ alive' = alive \ {n} /\ block' = [block EXCEPT ![n] = FreshBlock]
  /\ UNCHANGED <<write_pos_, read_pos_, hazard_, pc, ghosts>>
  /\ \A u \in Thread \ {t} : local'[u] = local[u]
  /\ \A m : Retired(m)' <=> Retired(m) /\ m # n

LEMMA ScanEffect ==
  ASSUME HazardInv, NEW t \in Thread, Scan(t)
  PROVE  UNCHANGED <<alive, block, to_delete_>> \/ \E n \in Node : Deletes(t, n)
PROOF
  <1>1. /\ local \in [Thread -> Variables] /\ to_delete_ \in [Thread -> Seq(Node)]
        /\ to_delete_[t] \in Seq(Node) /\ local[t].item \in Nat \ {0}
    BY DEF HazardInv, QueueType, Variables
  <1>2. PICK i, n : i = local[t].item /\ n = to_delete_[t][i]
    OBVIOUS
  <1>3. pc[t] = "scan" /\ UNCHANGED <<write_pos_, read_pos_, hazard_, pc, ghosts>>
        /\ i \in 1..Len(to_delete_[t]) /\ Len(to_delete_[t]) \in Nat
    BY <1>1, <1>2, LenProperties DEF Scan
  <1>4. i \in DOMAIN to_delete_[t] /\ n \in Node
    BY <1>1, <1>2, <1>3, LenProperties, ElementOfSeq
  <1>5. SUFFICES ASSUME ~UNCHANGED <<alive, block, to_delete_>> PROVE Deletes(t, n)
    BY <1>4
  <1>6. /\ local' = [local EXCEPT ![t].thread = 1]
        /\ alive' = alive \ {n} /\ block' = [block EXCEPT ![n] = FreshBlock]
        /\ to_delete_' = [to_delete_ EXCEPT ![t] = Erased(to_delete_[t], i)]
    BY <1>2, <1>5 DEF Scan
  <1>7. RetiredBy(t, n)
    BY <1>2, <1>4 DEF RetiredBy, ToSet
  <1>8. \A j, k \in DOMAIN to_delete_[t] : to_delete_[t][j] = to_delete_[t][k] => j = k
    BY DEF HazardInv, Left
  <1>9. ToSet(to_delete_'[t]) = ToSet(to_delete_[t]) \ {n}
    BY <1>1, <1>2, <1>4, <1>6, <1>8, ErasedOnce
  <1>10. \A u \in Thread \ {t} : local'[u] = local[u] /\ to_delete_'[u] = to_delete_[u]
    BY <1>1, <1>6
  <1>11. ASSUME NEW m PROVE Retired(m)' <=> Retired(m) /\ m # n
    <2>1. RetiredBy(t, m)' <=> RetiredBy(t, m) /\ m # n
      BY <1>3, <1>9 DEF RetiredBy
    <2>2. ASSUME NEW u \in Thread \ {t} PROVE RetiredBy(u, m)' <=> RetiredBy(u, m) /\ m # n
      <3>1. ~RetiredBy(u, n)
        BY <1>4, <1>7, <2>2 DEF HazardInv, Left
      <3> QED BY <1>3, <1>10, <3>1 DEF RetiredBy
    <2>3. \A u \in Thread : RetiredBy(u, m)' <=> RetiredBy(u, m) /\ m # n
      BY <2>1, <2>2
    <2> QED BY <2>3 DEF Retired
  <1> QED BY <1>3, <1>4, <1>6, <1>7, <1>10, <1>11 DEF Deletes, Retired

(* No value is lost with a node: whatever is left is in a consumer's hands, and *)
(* then the node stays.                                                         *)
LEMMA DeleteValues ==
  ASSUME MpmcQueueAssumption, HazardInv, HazardInv', ValuesInv, NEW t \in Thread, NEW n \in Node, Deletes(t, n),
         \A u \in Thread : pc[u] \in Using => local[u].node \in alive
  PROVE  ValuesInv'
PROOF
  <1>1. /\ pc \in [Thread -> PusherPlace \union PopperPlace] /\ local \in [Thread -> Variables]
        /\ block \in [Node -> NodeBlock]
    BY DEF HazardInv, QueueType
  <1>2. /\ pc[t] = "scan" /\ Retired(n) /\ alive' = alive \ {n}
        /\ UNCHANGED <<write_pos_, read_pos_, pc, got, workload, begun>>
        /\ \A u \in Thread \ {t} : pc'[u] = pc[u] /\ local'[u] = local[u] /\ begun'[u] = begun[u]
        /\ \A m : Retired(m)' <=> Retired(m) /\ m # n
        /\ block'[n] = FreshBlock /\ \A m \in Node \ {n} : block'[m] = block[m]
    BY <1>1 DEF Deletes, ghosts
  <1>3. t \in Popper /\ pc'[t] = "scan"
    BY <1>2, Places
  <1>4. Begun /\ Begun' /\ OnePlace /\ ReadClaims /\ WriteClaims
    BY <1>2, <1>3, BegunKept DEF ValuesInv
  <1>5. \A v \in Value : Done(v)' = Done(v)
    BY <1>2, <1>3, <1>4, DoneKept
  <1>6. \A m : Unlinked(m)' <=> Unlinked(m)
    <2>1. SUFFICES ASSUME NEW m PROVE Unlinked(m)' <=> Unlinked(m)
      OBVIOUS
    <2>2. \A u \in Thread : (pc'[u] = "link" /\ local'[u].next = m) <=> (pc[u] = "link" /\ local[u].next = m)
      BY <1>2, <1>3
    <2> QED BY <2>2 DEF Unlinked
  <1>7. \A m : Used(m)' <=> Used(m) /\ m # n
    BY <1>2, <1>6 DEF Used
  <1>8. Used(n)
    BY <1>2, UsedNodes
  <1>9. \A i \in Slot : block[n].data[i] \notin Value
    <2>1. SUFFICES ASSUME NEW i \in Slot, block[n].data[i] \in Value PROVE FALSE
      OBVIOUS
    <2>2. block[n].read_pos >= BlockSize /\ i \in Nat /\ i < BlockSize /\ block[n].read_pos \in Nat /\ BlockSize \in Nat
      BY <1>1, <1>2, <1>4, MpmcQueueAssumption DEF ReadClaims, Slot, MpmcQueueAssumption, NodeBlock
    <2>3. block[n].data[i] # Taken
      BY <2>1, Values
    <2>4. i < block[n].read_pos
      BY <2>2
    <2>5. Claimed(n, i)
      BY <1>4, <1>8, <2>3, <2>4 DEF ReadClaims
    <2>6. PICK u \in Popper : pc[u] = "take" /\ local[u].node = n
      BY <2>5 DEF Claimed
    <2>7. u \in Thread /\ u # t /\ u \in Popper'
      BY <1>2, <2>6 DEF Popper, Pusher
    <2>8. local'[u].node \in alive'
      BY <1>2, <2>6, <2>7 DEF HazardInv, Protected, Using
    <2> QED BY <1>2, <2>6, <2>7, <2>8
  <1>10. OnePlace'
    <2>1. QueueType'
      BY DEF HazardInv
    <2>2. \A m \in Node, i \in Slot : block'[m].data[i] \in Value \union {Empty, Taken}
      BY <1>2, <1>4 DEF OnePlace, FreshBlock
    <2>3. \A m \in Node : block[m].write_pos >= block[m].write_pos
      BY <1>1 DEF NodeBlock
    <2>4. \A m \in Node : Used(m)' => block'[m].data = block[m].data /\ block'[m].write_pos >= block[m].write_pos
      BY <1>2, <1>7, <2>3
    <2> QED BY <1>2, <1>4, <1>5, <1>7, <1>9, <2>1, <2>2, <2>4, OnePlaceKept
  <1>11. ReadClaims'
    <2>1. \A m \in Node : Used(m) /\ m \in alive' =>
            /\ block'[m].read_pos = block[m].read_pos
            /\ \A i \in Slot : block[m].data[i] = Taken => block'[m].data[i] = Taken
      BY <1>2
    <2>2. pc[t] # "take" /\ pc'[t] # "take" /\ pc'[t] \notin {"follow", "advance"} /\ pc'[t] \notin Using
      BY <1>2, <1>3 DEF Using
    <2>3. \A m \in Node : m \in alive' => (Retired(m)' <=> Retired(m))
      BY <1>2
    <2> QED BY <1>2, <1>4, <1>7, <2>1, <2>2, <2>3, ReadClaimsKept
  <1>12. WriteClaims'
    <2>1. \A m \in Node : m \in alive /\ m \in alive' =>
            /\ block'[m].write_pos >= block[m].write_pos
            /\ \A i \in Slot : block[m].data[i] \notin Value => block'[m].data[i] \notin Value
      <3>1. \A m \in Node : block[m].write_pos >= block[m].write_pos
        BY <1>1 DEF NodeBlock
      <3> QED BY <1>2, <3>1
    <2>2. \A m \in Node : Unlinked(m)' /\ Unlinked(m) => block'[m] = block[m]
      BY <1>2, <1>8 DEF Used
    <2> QED BY <1>2, <1>3, <1>4, <2>1, <2>2, WriteClaimsKept
  <1> QED BY <1>4, <1>10, <1>11, <1>12 DEF ValuesInv

LEMMA ClaimWriteValues ==
  ASSUME MpmcQueueAssumption, HazardInv, HazardInv', ValuesInv, NEW t \in Thread, ClaimWrite(t),
         \A u \in Thread : pc[u] \in Using => local[u].node \in alive
  PROVE  ValuesInv'
PROOF
  <1>1. /\ pc \in [Thread -> PusherPlace \union PopperPlace] /\ local \in [Thread -> Variables]
        /\ block \in [Node -> NodeBlock]
    BY DEF HazardInv, QueueType
  <1>2. PICK n, p : n = local[t].node /\ p = block[n].write_pos
    OBVIOUS
  <1>3. t \in Pusher /\ t \notin Popper /\ pc[t] = "use" /\ n \in Node /\ n \in alive
    BY <1>2, UsedNodes DEF ClaimWrite, Popper, Using
  <1>4. p \in Nat /\ block[n].read_pos \in Nat /\ \A m \in Node : block[m].write_pos >= block[m].write_pos
    BY <1>1, <1>2, <1>3 DEF NodeBlock
  <1>5. /\ UNCHANGED <<write_pos_, read_pos_, alive, hazard_, to_delete_, got, workload, begun>>
        /\ \A u \in Thread \ {t} : pc'[u] = pc[u] /\ local'[u] = local[u] /\ begun'[u] = begun[u]
        /\ block' = [block EXCEPT ![n].write_pos = p + 1]
        /\ local'[t].node = n /\ local'[t].pos = p
        /\ pc'[t] = IF p >= BlockSize THEN "load_next" ELSE "set"
    BY <1>1, <1>2 DEF ClaimWrite, Goto, hazard, ghosts, Variables
  <1>6. /\ \A m \in Node \ {n} : block'[m] = block[m]
        /\ block'[n].write_pos = p + 1 /\ block'[n].data = block[n].data /\ block'[n].read_pos = block[n].read_pos
    BY <1>1, <1>3, <1>5 DEF NodeBlock
  <1>7. Begun /\ Begun' /\ OnePlace /\ ReadClaims /\ WriteClaims
    BY <1>3, <1>5, BegunKept DEF ValuesInv
  <1>8. \A v \in Value : Done(v)' = Done(v)
    <2>1. pc[t] \notin Settled /\ pc'[t] \notin Settled
      BY <1>3, <1>5 DEF Settled
    <2> QED BY <1>5, <1>7, <2>1, DoneKept
  <1>9. \A m : Unlinked(m)' <=> Unlinked(m)
    <2>1. SUFFICES ASSUME NEW m PROVE Unlinked(m)' <=> Unlinked(m)
      OBVIOUS
    <2>2. \A u \in Thread : (pc'[u] = "link" /\ local'[u].next = m) <=> (pc[u] = "link" /\ local[u].next = m)
      BY <1>3, <1>5
    <2> QED BY <2>2 DEF Unlinked
  <1>10. \A m : Used(m)' <=> Used(m)
    BY <1>5, <1>9 DEF Used
  <1>11. \A m : Retired(m)' <=> Retired(m)
    BY <1>3, <1>5, RetiredStay
  <1>12. \A m \in Node : block'[m].data = block[m].data /\ block'[m].write_pos >= block[m].write_pos
                           /\ block'[m].read_pos = block[m].read_pos
    BY <1>2, <1>4, <1>6
  <1>13. OnePlace'
    <2>1. QueueType'
      BY DEF HazardInv
    <2>2. \A m \in Node, i \in Slot : block'[m].data[i] \in Value \union {Empty, Taken}
      BY <1>7, <1>12 DEF OnePlace
    <2> QED BY <1>5, <1>7, <1>8, <1>10, <1>12, <2>1, <2>2, OnePlaceKept
  <1>14. ReadClaims'
    <2>1. pc[t] # "take" /\ pc'[t] # "take" /\ pc'[t] \notin {"follow", "advance"}
      BY <1>3, <1>5
    <2> QED BY <1>3, <1>5, <1>7, <1>10, <1>11, <1>12, <2>1, ReadClaimsKept
  <1>15. WriteClaims'
    <2>1. ASSUME NEW u \in Thread \ {t}, pc[u] = "set", local[u].node \in alive'
          PROVE  /\ local[u].node \in alive
                 /\ block'[local[u].node].write_pos >= block[local[u].node].write_pos
                 /\ block'[local[u].node].data[local[u].pos] \notin Value
      <3>1. local[u].node \in Node
        BY <2>1, UsedNodes DEF Using
      <3> QED BY <1>5, <1>7, <1>12, <2>1, <3>1 DEF WriteClaims
    <2>2. ASSUME NEW u \in Thread \ {t}, pc[u] = "link" PROVE block'[local[u].next] = block[local[u].next]
      <3>1. local[u].next # n /\ local[u].next \in Node
        BY <1>2, <1>3, <2>2 DEF HazardInv, New, Locals, Using
      <3> QED BY <1>6, <3>1
    <2>3. ASSUME pc'[t] = "set"
          PROVE  /\ local'[t].pos \in Slot /\ local'[t].pos < block'[local'[t].node].write_pos
                 /\ block'[local'[t].node].data[local'[t].pos] \notin Value
                 /\ \A u \in Thread \ {t} : pc[u] = "set" /\ local[u].node = local'[t].node =>
                      local[u].pos # local'[t].pos
      <3>1. p < BlockSize /\ p \in Slot
        BY <1>4, <1>5, <2>3, MpmcQueueAssumption DEF Slot, MpmcQueueAssumption
      <3>2. Used(n)
        BY <1>2, <1>3, UsedNodes DEF Using
      <3>3. block[n].data[p] \notin Value
        <4>1. SUFFICES ASSUME NEW v \in Value, block[n].data[p] = v PROVE FALSE
          OBVIOUS
        <4>2. p < block[n].write_pos
          BY <1>3, <1>7, <3>1, <3>2, <4>1 DEF OnePlace, Holds
        <4> QED BY <1>2, <1>4, <4>2
      <3>4. ASSUME NEW u \in Thread \ {t}, pc[u] = "set", local[u].node = n PROVE local[u].pos # p
        <4>1. local[u].pos < p
          BY <1>2, <1>3, <1>7, <3>4 DEF WriteClaims
        <4> QED BY <1>4, <4>1
      <3> QED BY <1>4, <1>5, <1>6, <3>1, <3>3, <3>4
    <2>4. pc'[t] # "link"
      BY <1>5
    <2> QED BY <1>5, <1>7, <2>1, <2>2, <2>3, <2>4, WriteClaimsMoved
  <1> QED BY <1>7, <1>13, <1>14, <1>15 DEF ValuesInv

(* The value that t pushes.                                                    *)
LEMMA PushedValue ==
  ASSUME MpmcQueueAssumption, HazardInv, Begun, NEW t \in Pusher, pc[t] # "idle"
  PROVE  Pushing(t) \in Value
PROOF
  <1>1. t \in Thread /\ begun[t] > 0 /\ begun[t] <= workload[t] /\ workload \in Workloads
    BY DEF Begun, Pusher
  <1>2. begun[t] \in Nat /\ workload[t] \in Nat
    BY <1>1 DEF HazardInv, QueueType
  <1>3. begun[t] \in 1..workload[t]
    BY <1>1, <1>2
  <1>4. <<t, begun[t]>> \in {t} \X (1..workload[t])
    BY <1>3
  <1>5. <<t, begun[t]>> \in Value
    BY <1>1, <1>4 DEF Value
  <1> QED BY <1>5 DEF Pushing

LEMMA DoneAdded ==
  ASSUME MpmcQueueAssumption, HazardInv, Begun, NEW t \in Pusher, begun' = begun,
         pc[t] \notin Settled, pc'[t] \in {"return", "swing"},
         \A u \in Thread \ {t} : pc'[u] = pc[u]
  PROVE  /\ \A v \in Value : Done(v)' <=> Done(v) \/ v = Pushing(t)
         /\ ~Done(Pushing(t)) /\ Pushing(t) \in Value
PROOF
  <1>1. t \in Thread /\ begun[t] \in Nat /\ Pushing(t) \in Value
    BY PushedValue DEF HazardInv, QueueType, Pusher, Settled
  <1>2. ~Done(Pushing(t))
    BY <1>1 DEF Done, Pushing, Settled
  <1>3. ASSUME NEW v \in Value PROVE Done(v)' <=> Done(v) \/ v = Pushing(t)
    <2>1. v[1] \in Thread /\ v[2] \in Nat /\ v = <<v[1], v[2]>>
      BY Values
    <2>2. CASE v[1] = t
      <3>1. v = Pushing(t) <=> v[2] = begun[t]
        BY <2>1, <2>2 DEF Pushing
      <3>2. Done(v)' <=> v[2] < begun[t] \/ v[2] = begun[t]
        BY <2>2 DEF Done
      <3>3. Done(v) <=> v[2] < begun[t]
        BY <2>2 DEF Done, Settled
      <3> QED BY <3>1, <3>2, <3>3
    <2>3. CASE v[1] # t
      <3>1. v # Pushing(t)
        BY <2>3 DEF Pushing
      <3>2. Done(v)' <=> Done(v)
        BY <2>1, <2>3 DEF Done
      <3> QED BY <3>1, <3>2
    <2> QED BY <2>2, <2>3
  <1> QED BY <1>1, <1>2, <1>3

LEMMA OnePlaceAdded ==
  ASSUME OnePlace, HazardInv, HazardInv', got' = got, NEW n \in Node, NEW i \in Slot, NEW x \in Value, ~Done(x),
         Used(n)', Holds(n, i, x)', i < block'[n].write_pos,
         \A v \in Value : Done(v)' <=> Done(v) \/ v = x,
         \A m \in Node, j \in Slot, v \in Value :
           Used(m)' /\ Holds(m, j, v)' <=> (Used(m) /\ Holds(m, j, v)) \/ (m = n /\ j = i /\ v = x),
         \A m \in Node : Used(m) => block'[m].write_pos = block[m].write_pos,
         \A m \in Node, j \in Slot : block'[m].data[j] \in Value \union {Empty, Taken}
  PROVE  OnePlace'
PROOF
  <1>1. Popped' = Popped
    BY DEF Popped
  <1>2. \A v \in Popped : v \in Value /\ Done(v)
    <2>1. SUFFICES ASSUME NEW v \in Popped PROVE v \in Value /\ Done(v)
      OBVIOUS
    <2>2. PICK t \in Thread : v \in ToSet(got[t])
      BY DEF Popped
    <2>3. got[t] \in Seq(Value)
      BY DEF OnePlace
    <2>4. v \in Value
      BY <2>2, <2>3 DEF ToSet
    <2> QED BY <2>4 DEF OnePlace
  <1>3. x \notin Popped
    BY <1>2
  <1>4. \A m \in Node, j \in Slot, v \in Value : Used(m)' /\ Holds(m, j, v)' =>
          Done(v)' /\ v \notin Popped' /\ j < block'[m].write_pos
    <2>1. SUFFICES ASSUME NEW m \in Node, NEW j \in Slot, NEW v \in Value, Used(m)' /\ Holds(m, j, v)'
                   PROVE  Done(v)' /\ v \notin Popped' /\ j < block'[m].write_pos
      OBVIOUS
    <2>2. CASE Used(m) /\ Holds(m, j, v)
      BY <1>1, <2>2 DEF OnePlace
    <2>3. CASE m = n /\ j = i /\ v = x
      BY <1>1, <1>3, <2>3
    <2> QED BY <2>1, <2>2, <2>3
  <1>5. \A m \in Node, j \in Slot : ~(Used(m) /\ Holds(m, j, x))
    BY DEF OnePlace
  <1>6. \A m, k \in Node, j, l \in Slot, v \in Value :
          Used(m)' /\ Holds(m, j, v)' /\ Used(k)' /\ Holds(k, l, v)' => m = k /\ j = l
    <2>1. SUFFICES ASSUME NEW m \in Node, NEW k \in Node, NEW j \in Slot, NEW l \in Slot, NEW v \in Value,
                          Used(m)' /\ Holds(m, j, v)', Used(k)' /\ Holds(k, l, v)'
                   PROVE  m = k /\ j = l
      OBVIOUS
    <2>2. CASE v = x
      <3>1. m = n /\ j = i
        BY <1>5, <2>1, <2>2
      <3>2. k = n /\ l = i
        BY <1>5, <2>1, <2>2
      <3> QED BY <3>1, <3>2
    <2>3. CASE v # x
      <3>1. Used(m) /\ Holds(m, j, v) /\ Used(k) /\ Holds(k, l, v)
        BY <2>1, <2>3
      <3> QED BY <3>1 DEF OnePlace
    <2> QED BY <2>2, <2>3
  <1>7. \A v \in Value : Done(v)' => v \in Popped' \/ \E m \in Node, j \in Slot : Used(m)' /\ Holds(m, j, v)'
    <2>1. SUFFICES ASSUME NEW v \in Value, Done(v)'
                   PROVE  v \in Popped' \/ \E m \in Node, j \in Slot : Used(m)' /\ Holds(m, j, v)'
      OBVIOUS
    <2>2. CASE v = x
      BY <2>2
    <2>3. CASE Done(v)
      BY <1>1, <2>3 DEF OnePlace
    <2> QED BY <2>1, <2>2, <2>3
  <1>8. \A v \in Popped' : Done(v)'
    BY <1>1, <1>2
  <1> QED BY <1>4, <1>6, <1>7, <1>8 DEF OnePlace

LEMMA SetValueValues ==
  ASSUME MpmcQueueAssumption, HazardInv, HazardInv', ValuesInv, NEW t \in Thread, SetValue(t),
         block[local[t].node].data[local[t].pos] = Empty,
         \A u \in Thread : pc[u] \in Using => local[u].node \in alive
  PROVE  ValuesInv'
PROOF
  <1>1. /\ pc \in [Thread -> PusherPlace \union PopperPlace] /\ local \in [Thread -> Variables]
        /\ block \in [Node -> NodeBlock]
    BY DEF HazardInv, QueueType
  <1>2. PICK n, p, x : n = local[t].node /\ p = local[t].pos /\ x = Pushing(t)
    OBVIOUS
  <1>3. t \in Pusher /\ t \notin Popper /\ pc[t] = "set" /\ n \in Node /\ n \in alive
    BY <1>2, UsedNodes, Places DEF SetValue, Using
  <1>4. Begun /\ OnePlace /\ ReadClaims /\ WriteClaims
    BY DEF ValuesInv
  <1>5. p \in Slot /\ p < block[n].write_pos /\ Used(n)
    BY <1>2, <1>3, <1>4, UsedNodes DEF WriteClaims, Using
  <1>6. /\ UNCHANGED <<write_pos_, read_pos_, alive, hazard_, to_delete_, got, workload, begun>>
        /\ \A u \in Thread \ {t} : pc'[u] = pc[u] /\ local'[u] = local[u] /\ begun'[u] = begun[u]
        /\ block' = [block EXCEPT ![n].data[p] = x] /\ pc'[t] = "return"
    BY <1>1, <1>2 DEF SetValue, EndRound, Goto, hazard, ghosts
  <1>7. /\ \A m \in Node \ {n} : block'[m] = block[m]
        /\ block'[n].write_pos = block[n].write_pos /\ block'[n].read_pos = block[n].read_pos
        /\ block'[n].data[p] = x /\ \A i \in Slot \ {p} : block'[n].data[i] = block[n].data[i]
    <2>1. block[n].data \in [Slot -> OneValue]
      BY <1>1, <1>3 DEF NodeBlock
    <2>2. block'[n] = [block[n] EXCEPT !.data[p] = x] /\ \A m \in Node \ {n} : block'[m] = block[m]
      BY <1>1, <1>3, <1>6
    <2>3. block'[n].data = [block[n].data EXCEPT ![p] = x]
      BY <1>1, <1>3, <2>2 DEF NodeBlock
    <2>4. block'[n].write_pos = block[n].write_pos /\ block'[n].read_pos = block[n].read_pos
      BY <1>1, <1>3, <2>2 DEF NodeBlock
    <2> QED BY <1>5, <2>1, <2>2, <2>3, <2>4
  <1>8. Begun'
    BY <1>3, <1>4, <1>6, BegunKept
  <1>9. /\ \A v \in Value : Done(v)' <=> Done(v) \/ v = x
        /\ ~Done(x) /\ x \in Value
    BY <1>2, <1>3, <1>4, <1>6, DoneAdded DEF Settled
  <1>10. \A m : Unlinked(m)' <=> Unlinked(m)
    <2>1. SUFFICES ASSUME NEW m PROVE Unlinked(m)' <=> Unlinked(m)
      OBVIOUS
    <2>2. \A u \in Thread : (pc'[u] = "link" /\ local'[u].next = m) <=> (pc[u] = "link" /\ local[u].next = m)
      BY <1>3, <1>6
    <2> QED BY <2>2 DEF Unlinked
  <1>11. \A m : Used(m)' <=> Used(m)
    BY <1>6, <1>10 DEF Used
  <1>12. \A m : Retired(m)' <=> Retired(m)
    BY <1>3, <1>6, RetiredStay
  <1>13. block[n].data[p] = Empty /\ x # Empty /\ x # Taken
    BY <1>2, <1>9, Values
  <1>14. \A m \in Node, j \in Slot, v \in Value :
           Holds(m, j, v)' <=> Holds(m, j, v) \/ (m = n /\ j = p /\ v = x)
    <2>1. SUFFICES ASSUME NEW m \in Node, NEW j \in Slot, NEW v \in Value
                   PROVE  block'[m].data[j] = v <=> block[m].data[j] = v \/ (m = n /\ j = p /\ v = x)
      BY DEF Holds
    <2>2. v # Empty
      BY Values
    <2> QED BY <1>7, <1>13, <2>2
  <1>15. OnePlace'
    <2>1. \A m \in Node, j \in Slot : block'[m].data[j] \in Value \union {Empty, Taken}
      BY <1>4, <1>7, <1>9 DEF OnePlace
    <2>2. Used(n)' /\ Holds(n, p, x)' /\ p < block'[n].write_pos
      BY <1>5, <1>7, <1>11 DEF Holds
    <2>3. \A m \in Node, j \in Slot, v \in Value :
            Used(m)' /\ Holds(m, j, v)' <=> (Used(m) /\ Holds(m, j, v)) \/ (m = n /\ j = p /\ v = x)
      BY <1>5, <1>11, <1>14
    <2>4. \A m \in Node : block'[m].write_pos = block[m].write_pos
      BY <1>7
    <2> QED BY <1>3, <1>4, <1>5, <1>6, <1>9, <2>1, <2>2, <2>3, <2>4, OnePlaceAdded
  <1>16. ReadClaims'
    <2>1. \A m \in Node : /\ block'[m].read_pos = block[m].read_pos
                          /\ \A i \in Slot : block[m].data[i] = Taken => block'[m].data[i] = Taken
      <3>1. block[n].data[p] # Taken
        BY <1>13 DEF Empty, Taken
      <3> QED BY <1>7, <3>1
    <2>2. pc[t] # "take" /\ pc'[t] # "take" /\ pc'[t] \notin {"follow", "advance"}
      BY <1>3, <1>6
    <2> QED BY <1>3, <1>4, <1>6, <1>11, <1>12, <2>1, <2>2, ReadClaimsKept
  <1>17. WriteClaims'
    <2>1. ASSUME NEW u \in Thread \ {t}, pc[u] = "set", local[u].node \in alive'
          PROVE  /\ local[u].node \in alive
                 /\ block'[local[u].node].write_pos >= block[local[u].node].write_pos
                 /\ block'[local[u].node].data[local[u].pos] \notin Value
      <3>1. local[u].node \in Node /\ local[u].node \in alive
        BY <2>1, UsedNodes DEF Using
      <3>2. local[u].pos \in Slot /\ block[local[u].node].data[local[u].pos] \notin Value
        BY <1>4, <2>1, <3>1 DEF WriteClaims
      <3>3. local[u].node = n => local[u].pos # p
        BY <1>2, <1>3, <1>4, <2>1 DEF WriteClaims
      <3>4. block[local[u].node].write_pos >= block[local[u].node].write_pos
        BY <1>1, <3>1 DEF NodeBlock
      <3> QED BY <1>7, <3>1, <3>2, <3>3, <3>4
    <2>2. ASSUME NEW u \in Thread \ {t}, pc[u] = "link" PROVE block'[local[u].next] = block[local[u].next]
      <3>1. local[u].next # n /\ local[u].next \in Node
        BY <1>2, <1>3, <2>2 DEF HazardInv, New, Locals, Using
      <3> QED BY <1>7, <3>1
    <2>3. pc'[t] # "link" /\ pc'[t] # "set"
      BY <1>6
    <2> QED BY <1>4, <1>6, <2>1, <2>2, <2>3, WriteClaimsMoved
  <1> QED BY <1>8, <1>15, <1>16, <1>17 DEF ValuesInv

(* A producer makes a node, which stays its own.                               *)
LEMMA CreateValues ==
  ASSUME MpmcQueueAssumption, HazardInv, HazardInv', ValuesInv, NEW t \in Thread, LoadNext(t),
         block[local[t].node].next = NoNode,
         \A u \in Thread : pc[u] \in Using => local[u].node \in alive
  PROVE  ValuesInv'
PROOF
  <1>1. /\ pc \in [Thread -> PusherPlace \union PopperPlace] /\ local \in [Thread -> Variables]
        /\ block \in [Node -> NodeBlock]
    BY DEF HazardInv, QueueType
  <1>2. PICK b : b = [FreshBlock EXCEPT !.write_pos = 1, !.data[0] = Pushing(t)]
    OBVIOUS
  <1>3. PICK m \in Node \ alive : /\ alive' = alive \union {m} /\ block' = [block EXCEPT ![m] = b]
                                  /\ local' = [local EXCEPT ![t].next = m] /\ pc' = [pc EXCEPT ![t] = "link"]
    BY <1>2 DEF LoadNext, Goto
  <1>4. /\ UNCHANGED <<write_pos_, read_pos_, hazard_, to_delete_, got, workload, begun>>
        /\ \A u \in Thread \ {t} : pc'[u] = pc[u] /\ local'[u] = local[u] /\ begun'[u] = begun[u]
        /\ block'[m] = b /\ \A k \in Node \ {m} : block'[k] = block[k]
        /\ local'[t].next = m /\ pc[t] = "load_next" /\ pc'[t] = "link"
    BY <1>1, <1>3 DEF LoadNext, hazard, ghosts, Variables
  <1>5. t \in Pusher /\ t \notin Popper
    BY <1>4, Places
  <1>6. Begun /\ Begun' /\ OnePlace /\ ReadClaims /\ WriteClaims
    BY <1>4, BegunKept DEF ValuesInv
  <1>7. \A v \in Value : Done(v)' = Done(v)
    <2>1. pc[t] \notin Settled /\ pc'[t] \notin Settled
      BY <1>4 DEF Settled
    <2> QED BY <1>4, <1>6, <2>1, DoneKept
  <1>8. Pushing(t) \in Value /\ Pushing(t)' = Pushing(t)
    BY <1>4, <1>5, <1>6, PushedValue DEF Pushing
  <1>9. \A k \in Node : Used(k)' <=> Used(k)
    <2>1. Unlinked(m)'
      BY <1>4 DEF Unlinked
    <2>2. ASSUME NEW k \in Node \ {m} PROVE Unlinked(k)' <=> Unlinked(k)
      <3>1. \A u \in Thread : (pc'[u] = "link" /\ local'[u].next = k) <=> (pc[u] = "link" /\ local[u].next = k)
        BY <1>4, <2>2
      <3> QED BY <3>1 DEF Unlinked
    <2> QED BY <1>3, <2>1, <2>2 DEF Used
  <1>10. \A k : Retired(k)' <=> Retired(k)
    BY <1>4, RetiredStay
  <1>11. \A k \in Node : k \in alive => block'[k] = block[k]
    BY <1>3, <1>4
  <1>12. OnePlace'
    <2>1. QueueType'
      BY DEF HazardInv
    <2>2. \A k \in Node, i \in Slot : block'[k].data[i] \in Value \union {Empty, Taken}
      <3>1. \A i \in Slot : b.data[i] \in {Empty, Pushing(t)}
        BY <1>2 DEF FreshBlock
      <3>2. \A i \in Slot : block'[m].data[i] \in Value \union {Empty, Taken}
        BY <1>4, <1>8, <3>1
      <3>3. \A k \in Node \ {m}, i \in Slot : block'[k].data[i] \in Value \union {Empty, Taken}
        BY <1>4, <1>6 DEF OnePlace
      <3> QED BY <3>2, <3>3
    <2>3. \A k \in Node : Used(k)' => block'[k].data = block[k].data /\ block'[k].write_pos >= block[k].write_pos
      <3>1. \A k \in Node : block[k].write_pos >= block[k].write_pos
        BY <1>1 DEF NodeBlock
      <3> QED BY <1>9, <1>11, <3>1 DEF Used
    <2> QED BY <1>4, <1>6, <1>7, <1>9, <2>1, <2>2, <2>3, OnePlaceKept
  <1>13. ReadClaims'
    <2>1. \A k \in Node : Used(k) /\ k \in alive' =>
            /\ block'[k].read_pos = block[k].read_pos
            /\ \A i \in Slot : block[k].data[i] = Taken => block'[k].data[i] = Taken
      BY <1>11 DEF Used
    <2>2. pc[t] # "take" /\ pc'[t] # "take" /\ pc'[t] \notin {"follow", "advance"}
      BY <1>4
    <2> QED BY <1>4, <1>5, <1>6, <1>9, <1>10, <2>1, <2>2, ReadClaimsKept
  <1>14. WriteClaims'
    <2>1. ASSUME NEW u \in Thread \ {t}, pc[u] = "set", local[u].node \in alive'
          PROVE  /\ local[u].node \in alive
                 /\ block'[local[u].node].write_pos >= block[local[u].node].write_pos
                 /\ block'[local[u].node].data[local[u].pos] \notin Value
      <3>1. local[u].node \in Node /\ local[u].node \in alive
        BY <2>1, UsedNodes DEF Using
      <3>2. block[local[u].node].data[local[u].pos] \notin Value
        BY <1>6, <2>1, <3>1 DEF WriteClaims
      <3>3. block[local[u].node].write_pos >= block[local[u].node].write_pos
        BY <1>1, <3>1 DEF NodeBlock
      <3> QED BY <1>11, <3>1, <3>2, <3>3
    <2>2. ASSUME NEW u \in Thread \ {t}, pc[u] = "link" PROVE block'[local[u].next] = block[local[u].next]
      <3>1. local[u].next \in alive /\ local[u].next \in Node
        BY <2>2 DEF HazardInv, New, Locals
      <3> QED BY <1>11, <3>1
    <2>3. pc'[t] # "set"
      BY <1>4
    <2>4. block'[local'[t].next] = [FreshBlock EXCEPT !.write_pos = 1, !.data[0] = Pushing(t)']
      BY <1>2, <1>4, <1>8
    <2> QED BY <1>4, <1>6, <2>1, <2>2, <2>3, <2>4, WriteClaimsMoved
  <1> QED BY <1>6, <1>12, <1>13, <1>14 DEF ValuesInv

(* Another producer has linked a node; the loser deletes its own.              *)
LEMMA LinkLostValues ==
  ASSUME MpmcQueueAssumption, HazardInv, HazardInv', ValuesInv, NEW t \in Thread, Link(t),
         block[local[t].node].next # NoNode,
         \A u \in Thread : pc[u] \in Using => local[u].node \in alive
  PROVE  ValuesInv'
PROOF
  <1>1. /\ pc \in [Thread -> PusherPlace \union PopperPlace] /\ local \in [Thread -> Variables]
        /\ block \in [Node -> NodeBlock]
    BY DEF HazardInv, QueueType
  <1>2. PICK m : m = local[t].next
    OBVIOUS
  <1>3. pc[t] = "link" /\ m \in Node /\ m \in alive /\ Unlinked(m)
    BY <1>2 DEF Link, HazardInv, New, Locals, Unlinked
  <1>4. /\ UNCHANGED <<write_pos_, read_pos_, hazard_, to_delete_, got, workload, begun>>
        /\ \A u \in Thread \ {t} : pc'[u] = pc[u] /\ local'[u] = local[u] /\ begun'[u] = begun[u]
        /\ block'[m] = FreshBlock /\ \A k \in Node \ {m} : block'[k] = block[k]
        /\ alive' = alive \ {m} /\ pc'[t] = "load"
    BY <1>1, <1>2, <1>3 DEF Link, EndRound, Goto, hazard, ghosts
  <1>5. t \in Pusher /\ t \notin Popper
    BY <1>3, Places
  <1>6. Begun /\ Begun' /\ OnePlace /\ ReadClaims /\ WriteClaims
    BY <1>3, <1>4, BegunKept DEF ValuesInv
  <1>7. \A v \in Value : Done(v)' = Done(v)
    <2>1. pc[t] \notin Settled /\ pc'[t] \notin Settled
      BY <1>3, <1>4 DEF Settled
    <2> QED BY <1>4, <1>6, <2>1, DoneKept
  <1>8. \A k \in Node : Used(k)' <=> Used(k)
    <2>1. ASSUME NEW k \in Node \ {m} PROVE Unlinked(k)' <=> Unlinked(k)
      <3>1. \A u \in Thread : (pc'[u] = "link" /\ local'[u].next = k) <=> (pc[u] = "link" /\ local[u].next = k)
        BY <1>2, <1>4, <2>1
      <3> QED BY <3>1 DEF Unlinked
    <2> QED BY <1>3, <1>4, <2>1 DEF Used
  <1>9. \A k : Retired(k)' <=> Retired(k)
    BY <1>3, <1>4, RetiredStay
  <1>10. \A k \in Node : Used(k) => block'[k] = block[k]
    BY <1>3, <1>4 DEF Used
  <1>11. OnePlace'
    <2>1. QueueType'
      BY DEF HazardInv
    <2>2. \A k \in Node, i \in Slot : block'[k].data[i] \in Value \union {Empty, Taken}
      BY <1>4, <1>6 DEF OnePlace, FreshBlock
    <2>3. \A k \in Node : Used(k)' => block'[k].data = block[k].data /\ block'[k].write_pos >= block[k].write_pos
      <3>1. \A k \in Node : block[k].write_pos >= block[k].write_pos
        BY <1>1 DEF NodeBlock
      <3> QED BY <1>8, <1>10, <3>1
    <2> QED BY <1>4, <1>6, <1>7, <1>8, <2>1, <2>2, <2>3, OnePlaceKept
  <1>12. ReadClaims'
    <2>1. \A k \in Node : Used(k) /\ k \in alive' =>
            /\ block'[k].read_pos = block[k].read_pos
            /\ \A i \in Slot : block[k].data[i] = Taken => block'[k].data[i] = Taken
      BY <1>10
    <2>2. pc[t] # "take" /\ pc'[t] # "take" /\ pc'[t] \notin {"follow", "advance"}
      BY <1>3, <1>4
    <2> QED BY <1>4, <1>5, <1>6, <1>8, <1>9, <2>1, <2>2, ReadClaimsKept
  <1>13. WriteClaims'
    <2>1. ASSUME NEW u \in Thread \ {t}, pc[u] = "set", local[u].node \in alive'
          PROVE  /\ local[u].node \in alive
                 /\ block'[local[u].node].write_pos >= block[local[u].node].write_pos
                 /\ block'[local[u].node].data[local[u].pos] \notin Value
      <3>1. local[u].node \in Node /\ local[u].node \in alive /\ Used(local[u].node)
        BY <2>1, UsedNodes DEF Using
      <3>2. block[local[u].node].data[local[u].pos] \notin Value
        BY <1>6, <2>1, <3>1 DEF WriteClaims
      <3>3. block[local[u].node].write_pos >= block[local[u].node].write_pos
        BY <1>1, <3>1 DEF NodeBlock
      <3> QED BY <1>10, <3>1, <3>2, <3>3
    <2>2. ASSUME NEW u \in Thread \ {t}, pc[u] = "link" PROVE block'[local[u].next] = block[local[u].next]
      <3>1. local[u].next # m /\ local[u].next \in Node
        BY <1>2, <1>3, <2>2 DEF HazardInv, New, Locals
      <3> QED BY <1>4, <3>1
    <2>3. pc'[t] # "set" /\ pc'[t] # "link"
      BY <1>4
    <2> QED BY <1>4, <1>6, <2>1, <2>2, <2>3, WriteClaimsMoved
  <1> QED BY <1>6, <1>11, <1>12, <1>13 DEF ValuesInv

(* The new node is linked, and with it the value comes into the queue.         *)
LEMMA LinkedValues ==
  ASSUME MpmcQueueAssumption, HazardInv, HazardInv', ValuesInv, NEW t \in Thread, Link(t),
         block[local[t].node].next = NoNode,
         \A u \in Thread : pc[u] \in Using => local[u].node \in alive
  PROVE  ValuesInv'
PROOF
  <1>1. /\ pc \in [Thread -> PusherPlace \union PopperPlace] /\ local \in [Thread -> Variables]
        /\ block \in [Node -> NodeBlock]
    BY DEF HazardInv, QueueType
  <1>2. PICK n, m, x : n = local[t].node /\ m = local[t].next /\ x = Pushing(t)
    OBVIOUS
  <1>3. pc[t] = "link" /\ m \in Node /\ m \in alive /\ n \in Node /\ n # m /\ Unlinked(m)
    BY <1>2 DEF Link, HazardInv, New, Locals, Using, Unlinked
  <1>4. /\ UNCHANGED <<write_pos_, read_pos_, hazard_, to_delete_, got, workload, begun, alive, local>>
        /\ \A u \in Thread \ {t} : pc'[u] = pc[u]
        /\ block' = [block EXCEPT ![n].next = m] /\ pc'[t] = "swing"
    BY <1>1, <1>2, <1>3 DEF Link, Goto, hazard, ghosts
  <1>5. \A k \in Node : /\ block'[k].data = block[k].data /\ block'[k].write_pos = block[k].write_pos
                        /\ block'[k].read_pos = block[k].read_pos /\ (k # n => block'[k] = block[k])
    BY <1>1, <1>3, <1>4 DEF NodeBlock
  <1>6. t \in Pusher /\ t \notin Popper
    BY <1>3, Places
  <1>7. Begun /\ Begun' /\ OnePlace /\ ReadClaims /\ WriteClaims
    BY <1>3, <1>4, BegunKept DEF ValuesInv
  <1>8. /\ \A v \in Value : Done(v)' <=> Done(v) \/ v = x
        /\ ~Done(x) /\ x \in Value
    BY <1>2, <1>3, <1>4, <1>6, <1>7, DoneAdded DEF Settled
  <1>9. block[m] = [FreshBlock EXCEPT !.write_pos = 1, !.data[0] = x]
    BY <1>2, <1>3, <1>7 DEF WriteClaims
  <1>10. 0 \in Slot /\ block[m].write_pos = 1 /\ block[m].read_pos = 0
         /\ \A i \in Slot : block[m].data[i] = IF i = 0 THEN x ELSE Empty
    BY <1>9, MpmcQueueAssumption DEF FreshBlock, Slot, MpmcQueueAssumption
  <1>11. \A k \in Node : Used(k)' <=> Used(k) \/ k = m
    <2>1. \A u \in Thread : pc'[u] = "link" => u # t /\ pc[u] = "link" /\ local'[u] = local[u]
      BY <1>4
    <2>2. ~Unlinked(m)'
      BY <1>2, <1>3, <2>1 DEF HazardInv, New, Unlinked
    <2>3. ASSUME NEW k \in Node \ {m} PROVE Unlinked(k)' <=> Unlinked(k)
      <3>1. \A u \in Thread : (pc'[u] = "link" /\ local'[u].next = k) <=> (pc[u] = "link" /\ local[u].next = k)
        BY <1>2, <1>4, <2>3
      <3> QED BY <3>1 DEF Unlinked
    <2> QED BY <1>3, <1>4, <2>2, <2>3 DEF Used
  <1>12. ~Used(m)
    BY <1>3 DEF Used
  <1>13. \A k : Retired(k)' <=> Retired(k)
    BY <1>3, <1>4, RetiredStay
  <1>14. OnePlace'
    <2>1. \A k \in Node, j \in Slot : block'[k].data[j] \in Value \union {Empty, Taken}
      BY <1>5, <1>7 DEF OnePlace
    <2>2. Used(m)' /\ Holds(m, 0, x)' /\ 0 < block'[m].write_pos
      BY <1>3, <1>5, <1>10, <1>11 DEF Holds
    <2>3. \A k \in Node, j \in Slot, v \in Value :
            Used(k)' /\ Holds(k, j, v)' <=> (Used(k) /\ Holds(k, j, v)) \/ (k = m /\ j = 0 /\ v = x)
      <3>1. \A k \in Node, j \in Slot, v \in Value : Holds(k, j, v)' <=> Holds(k, j, v)
        BY <1>5 DEF Holds
      <3>2. \A j \in Slot, v \in Value : Holds(m, j, v) <=> j = 0 /\ v = x
        <4>1. \A v \in Value : v # Empty
          BY Values
        <4> QED BY <1>8, <1>10, <4>1 DEF Holds
      <3> QED BY <1>11, <1>12, <3>1, <3>2
    <2> QED BY <1>3, <1>4, <1>5, <1>7, <1>8, <1>10, <2>1, <2>2, <2>3, OnePlaceAdded
  <1>15. ReadClaims'
    <2>1. \A k \in Node : Used(k)' => Used(k) \/ block'[k].read_pos = 0
      BY <1>5, <1>10, <1>11
    <2>2. pc[t] # "take" /\ pc'[t] # "take" /\ pc'[t] \notin {"follow", "advance"}
      BY <1>3, <1>4
    <2> QED BY <1>4, <1>5, <1>6, <1>7, <1>13, <2>1, <2>2, ReadClaimsKept
  <1>16. WriteClaims'
    <2>1. ASSUME NEW u \in Thread \ {t}, pc[u] = "set", local[u].node \in alive'
          PROVE  /\ local[u].node \in alive
                 /\ block'[local[u].node].write_pos >= block[local[u].node].write_pos
                 /\ block'[local[u].node].data[local[u].pos] \notin Value
      <3>1. local[u].node \in Node /\ local[u].node \in alive
        BY <2>1, UsedNodes DEF Using
      <3>2. block[local[u].node].data[local[u].pos] \notin Value
        BY <1>7, <2>1, <3>1 DEF WriteClaims
      <3>3. block[local[u].node].write_pos >= block[local[u].node].write_pos
        BY <1>1, <3>1 DEF NodeBlock
      <3> QED BY <1>5, <3>1, <3>2, <3>3
    <2>2. ASSUME NEW u \in Thread \ {t}, pc[u] = "link" PROVE block'[local[u].next] = block[local[u].next]
      <3>1. local[u].next # n /\ local[u].next \in Node
        BY <1>2, <1>3, <2>2 DEF HazardInv, New, Locals, Using
      <3> QED BY <1>5, <3>1
    <2>3. pc'[t] # "set" /\ pc'[t] # "link"
      BY <1>4
    <2> QED BY <1>4, <1>7, <2>1, <2>2, <2>3, WriteClaimsMoved
  <1> QED BY <1>7, <1>14, <1>15, <1>16 DEF ValuesInv

LEMMA ClaimReadValues ==
  ASSUME MpmcQueueAssumption, HazardInv, HazardInv', ValuesInv, NEW t \in Thread, ClaimRead(t),
         \A u \in Thread : pc[u] \in Using => local[u].node \in alive
  PROVE  ValuesInv'
PROOF
  <1>1. /\ pc \in [Thread -> PusherPlace \union PopperPlace] /\ local \in [Thread -> Variables]
        /\ block \in [Node -> NodeBlock]
    BY DEF HazardInv, QueueType
  <1>2. PICK n, p : n = local[t].node /\ p = block[n].read_pos
    OBVIOUS
  <1>3. t \in Popper /\ pc[t] = "claim" /\ n \in Node /\ n \in alive /\ Used(n)
    BY <1>2, UsedNodes, Places DEF ClaimRead, Using
  <1>4. p \in Nat /\ \A m \in Node : block[m].write_pos >= block[m].write_pos /\ block[m].read_pos \in Nat
    BY <1>1, <1>2, <1>3 DEF NodeBlock
  <1>5. /\ UNCHANGED <<write_pos_, read_pos_, alive, hazard_, to_delete_, got, workload, begun>>
        /\ \A u \in Thread \ {t} : pc'[u] = pc[u] /\ local'[u] = local[u] /\ begun'[u] = begun[u]
        /\ block' = [block EXCEPT ![n].read_pos = p + 1]
        /\ local'[t].node = n /\ local'[t].pos = p
        /\ pc'[t] = IF p >= BlockSize THEN "follow" ELSE "take"
    BY <1>1, <1>2 DEF ClaimRead, Goto, hazard, ghosts, Variables
  <1>6. /\ \A m \in Node \ {n} : block'[m] = block[m]
        /\ block'[n].read_pos = p + 1
        /\ \A m \in Node : block'[m].data = block[m].data /\ block'[m].write_pos = block[m].write_pos
    BY <1>1, <1>3, <1>5 DEF NodeBlock
  <1>7. Begun /\ Begun' /\ OnePlace /\ ReadClaims /\ WriteClaims
    BY <1>3, <1>5, BegunKept DEF ValuesInv
  <1>8. \A v \in Value : Done(v)' = Done(v)
    BY <1>3, <1>5, <1>7, DoneKept
  <1>9. \A m : Unlinked(m)' <=> Unlinked(m)
    <2>1. SUFFICES ASSUME NEW m PROVE Unlinked(m)' <=> Unlinked(m)
      OBVIOUS
    <2>2. \A u \in Thread : (pc'[u] = "link" /\ local'[u].next = m) <=> (pc[u] = "link" /\ local[u].next = m)
      BY <1>3, <1>5
    <2> QED BY <2>2 DEF Unlinked
  <1>10. \A m : Used(m)' <=> Used(m)
    BY <1>5, <1>9 DEF Used
  <1>11. \A m : Retired(m)' <=> Retired(m)
    BY <1>3, <1>5, RetiredStay
  <1>12. OnePlace'
    <2>1. QueueType'
      BY DEF HazardInv
    <2>2. \A m \in Node, i \in Slot : block'[m].data[i] \in Value \union {Empty, Taken}
      BY <1>6, <1>7 DEF OnePlace
    <2> QED BY <1>4, <1>5, <1>6, <1>7, <1>8, <1>10, <2>1, <2>2, OnePlaceKept
  <1>13. p < BlockSize <=> p \in Slot
    BY <1>4, MpmcQueueAssumption DEF Slot, MpmcQueueAssumption
  <1>14. \A m \in Node : block'[m].read_pos >= block[m].read_pos /\ block'[m].read_pos \in Nat
    <2>1. block'[n].read_pos >= block[n].read_pos /\ block'[n].read_pos \in Nat
      BY <1>2, <1>4, <1>6
    <2>2. ASSUME NEW m \in Node \ {n} PROVE block'[m].read_pos >= block[m].read_pos /\ block'[m].read_pos \in Nat
      BY <1>4, <1>6, <2>2
    <2> QED BY <2>1, <2>2
  <1>15. Popper' = Popper
    BY <1>5 DEF Popper, Pusher
  <1>16. ReadClaims'
    <2>1. \A m \in Node, i \in Slot : Used(m)' /\ i < block'[m].read_pos => block'[m].data[i] = Taken \/ Claimed(m, i)'
      <3>1. SUFFICES ASSUME NEW m \in Node, NEW i \in Slot, Used(m)', i < block'[m].read_pos
                     PROVE  block'[m].data[i] = Taken \/ Claimed(m, i)'
        OBVIOUS
      <3>2. i \in Nat /\ i < BlockSize /\ BlockSize \in Nat
        BY MpmcQueueAssumption DEF Slot, MpmcQueueAssumption
      <3>3. CASE i < block[m].read_pos
        <4>1. block[m].data[i] = Taken \/ Claimed(m, i)
          BY <1>7, <1>10, <3>1, <3>3 DEF ReadClaims
        <4>2. ASSUME Claimed(m, i) PROVE Claimed(m, i)'
          <5>1. PICK u \in Popper : pc[u] = "take" /\ local[u].node = m /\ local[u].pos = i
            BY <4>2 DEF Claimed
          <5>2. u \in Popper' /\ pc'[u] = "take" /\ local'[u].node = m /\ local'[u].pos = i
            BY <1>3, <1>5, <1>15, <5>1 DEF Popper
          <5> QED BY <5>2 DEF Claimed
        <4> QED BY <1>6, <4>1, <4>2
      <3>4. CASE ~(i < block[m].read_pos)
        <4>1. m = n
          BY <1>6, <3>1, <3>4
        <4>2. i = p
          BY <1>2, <1>4, <1>6, <3>1, <3>2, <3>4, <4>1
        <4>3. pc'[t] = "take"
          BY <1>4, <1>5, <3>2, <4>2
        <4> QED BY <1>3, <1>5, <1>15, <4>1, <4>2, <4>3 DEF Claimed
      <3> QED BY <3>3, <3>4
    <2>2. \A m \in Node : Retired(m)' => block'[m].read_pos >= BlockSize
      <3>1. SUFFICES ASSUME NEW m \in Node, Retired(m)' PROVE block'[m].read_pos >= BlockSize
        OBVIOUS
      <3>2. block[m].read_pos >= BlockSize
        BY <1>7, <1>11, <3>1 DEF ReadClaims
      <3> QED BY <1>4, <1>14, <3>2, MpmcQueueAssumption DEF MpmcQueueAssumption
    <2>3. ASSUME NEW u \in Thread
          PROVE  /\ pc'[u] = "take" => local'[u].pos \in Slot /\ local'[u].pos < block'[local'[u].node].read_pos
                 /\ pc'[u] \in {"follow", "advance"} => block'[local'[u].node].read_pos >= BlockSize
                 /\ \A m : u \in Popper' /\ pc'[u] \in Using /\ local'[u].node = m => m = read_pos_' \/ Retired(m)'
      <3>1. CASE u = t
        <4>1. pc'[t] = "take" => p \in Slot /\ p < block'[n].read_pos
          BY <1>4, <1>5, <1>6, <1>13, MpmcQueueAssumption DEF MpmcQueueAssumption
        <4>2. pc'[t] \in {"follow", "advance"} => block'[n].read_pos >= BlockSize
          BY <1>4, <1>5, <1>6, MpmcQueueAssumption DEF MpmcQueueAssumption
        <4>3. n = read_pos_ \/ Retired(n)
          BY <1>2, <1>3, <1>7 DEF ReadClaims, Using
        <4> QED BY <1>5, <1>11, <3>1, <4>1, <4>2, <4>3
      <3>2. CASE u # t
        <4>1. pc'[u] = pc[u] /\ local'[u] = local[u]
          BY <1>5, <3>2
        <4>2. pc[u] \in {"take", "follow", "advance"} => local[u].node \in Node
          BY UsedNodes DEF Using
        <4>3. pc[u] = "take" => local[u].pos \in Slot /\ local[u].pos < block'[local[u].node].read_pos
          <5>1. SUFFICES ASSUME pc[u] = "take"
                         PROVE  local[u].pos \in Slot /\ local[u].pos < block'[local[u].node].read_pos
            OBVIOUS
          <5>2. local[u].pos \in Slot /\ local[u].pos < block[local[u].node].read_pos /\ local[u].pos \in Nat
            BY <1>7, <5>1 DEF ReadClaims, Slot
          <5> QED BY <1>4, <1>14, <4>2, <5>1, <5>2
        <4>4. pc[u] \in {"follow", "advance"} => block'[local[u].node].read_pos >= BlockSize
          <5>1. SUFFICES ASSUME pc[u] \in {"follow", "advance"} PROVE block'[local[u].node].read_pos >= BlockSize
            OBVIOUS
          <5>2. block[local[u].node].read_pos >= BlockSize
            BY <1>7, <5>1 DEF ReadClaims
          <5> QED BY <1>4, <1>14, <4>2, <5>1, <5>2, MpmcQueueAssumption DEF MpmcQueueAssumption
        <4>5. \A m : u \in Popper' /\ pc'[u] \in Using /\ local'[u].node = m => m = read_pos_' \/ Retired(m)'
          BY <1>5, <1>7, <1>11, <1>15, <4>1 DEF ReadClaims
        <4> QED BY <4>1, <4>3, <4>4, <4>5
      <3> QED BY <3>1, <3>2
    <2>4. ASSUME NEW u \in Thread, NEW v \in Thread, pc'[u] = "take", pc'[v] = "take",
                 local'[u].node = local'[v].node, local'[u].pos = local'[v].pos
          PROVE  u = v
      <3>1. ASSUME NEW w \in Thread \ {t}, pc[w] = "take", local[w].node = n PROVE local[w].pos # p
        <4>1. local[w].pos < block[n].read_pos /\ local[w].pos \in Nat
          BY <1>7, <3>1 DEF ReadClaims, Slot
        <4> QED BY <1>2, <1>4, <4>1
      <3>2. CASE u # t /\ v # t
        <4>1. /\ pc[u] = "take" /\ local'[u] = local[u]
              /\ pc[v] = "take" /\ local'[v] = local[v]
          BY <1>5, <2>4, <3>2
        <4>2. local[u].node = local[v].node /\ local[u].pos = local[v].pos
          BY <2>4, <4>1
        <4> QED BY <1>7, <4>1, <4>2 DEF ReadClaims
      <3>3. CASE u = t /\ v # t
        <4>1. pc[v] = "take" /\ local[v].node = n /\ local[v].pos = p
          BY <1>5, <2>4, <3>3
        <4> QED BY <3>1, <3>3, <4>1
      <3>4. CASE u # t /\ v = t
        <4>1. pc[u] = "take" /\ local[u].node = n /\ local[u].pos = p
          BY <1>5, <2>4, <3>4
        <4> QED BY <3>1, <3>4, <4>1
      <3> QED BY <3>2, <3>3, <3>4
    <2> QED BY <2>1, <2>2, <2>3, <2>4 DEF ReadClaims
  <1>17. WriteClaims'
    <2>1. \A m \in Node : m \in alive /\ m \in alive' =>
            /\ block'[m].write_pos >= block[m].write_pos
            /\ \A i \in Slot : block[m].data[i] \notin Value => block'[m].data[i] \notin Value
      BY <1>4, <1>6
    <2>2. \A m \in Node : Unlinked(m)' /\ Unlinked(m) => block'[m] = block[m]
      BY <1>3, <1>6 DEF Used
    <2>3. pc'[t] \notin {"set", "link"}
      BY <1>5
    <2> QED BY <1>5, <1>7, <2>1, <2>2, <2>3, WriteClaimsKept
  <1> QED BY <1>7, <1>12, <1>16, <1>17 DEF ValuesInv

(* One consumer takes what is in the slot, and nothing is put there after it.   *)
LEMMA GetValueValues ==
  ASSUME MpmcQueueAssumption, HazardInv, HazardInv', ValuesInv, NEW t \in Thread, GetValue(t),
         \A u \in Thread : pc[u] \in Using => local[u].node \in alive
  PROVE  ValuesInv'
PROOF
  <1>1. /\ pc \in [Thread -> PusherPlace \union PopperPlace] /\ local \in [Thread -> Variables]
        /\ block \in [Node -> NodeBlock]
    BY DEF HazardInv, QueueType
  <1>2. PICK n, p, x : n = local[t].node /\ p = local[t].pos /\ x = block[n].data[p]
    OBVIOUS
  <1>3. t \in Popper /\ pc[t] = "take" /\ n \in Node /\ n \in alive /\ Used(n)
    BY <1>2, UsedNodes, Places DEF GetValue, Using
  <1>4. Begun /\ OnePlace /\ ReadClaims /\ WriteClaims
    BY DEF ValuesInv
  <1>5. p \in Slot /\ p < block[n].read_pos
    BY <1>2, <1>3, <1>4 DEF ReadClaims
  <1>6. /\ UNCHANGED <<write_pos_, read_pos_, alive, hazard_, to_delete_, workload, begun>>
        /\ \A u \in Thread \ {t} : pc'[u] = pc[u] /\ local'[u] = local[u] /\ begun'[u] = begun[u]
        /\ block' = [block EXCEPT ![n].data[p] = Taken] /\ pc'[t] \in {"load", "return"}
        /\ IF x \in {Empty, Taken} THEN got' = got ELSE got' = [got EXCEPT ![t] = Append(got[t], x)]
    BY <1>1, <1>2 DEF GetValue, EndRound, Goto, hazard, ghosts
  <1>7. /\ \A m \in Node \ {n} : block'[m] = block[m]
        /\ block'[n].write_pos = block[n].write_pos /\ block'[n].read_pos = block[n].read_pos
        /\ block'[n].data[p] = Taken /\ \A i \in Slot \ {p} : block'[n].data[i] = block[n].data[i]
    <2>1. block[n].data \in [Slot -> OneValue]
      BY <1>1, <1>3 DEF NodeBlock
    <2>2. block'[n] = [block[n] EXCEPT !.data[p] = Taken] /\ \A m \in Node \ {n} : block'[m] = block[m]
      BY <1>1, <1>3, <1>6
    <2>3. block'[n].data = [block[n].data EXCEPT ![p] = Taken]
      BY <1>1, <1>3, <2>2 DEF NodeBlock
    <2>4. block'[n].write_pos = block[n].write_pos /\ block'[n].read_pos = block[n].read_pos
      BY <1>1, <1>3, <2>2 DEF NodeBlock
    <2> QED BY <1>5, <2>1, <2>2, <2>3, <2>4
  <1>8. Begun'
    BY <1>3, <1>4, <1>6, BegunKept
  <1>9. \A v \in Value : Done(v)' = Done(v)
    BY <1>3, <1>4, <1>6, DoneKept
  <1>10. \A m : Unlinked(m)' <=> Unlinked(m)
    <2>1. SUFFICES ASSUME NEW m PROVE Unlinked(m)' <=> Unlinked(m)
      OBVIOUS
    <2>2. \A u \in Thread : (pc'[u] = "link" /\ local'[u].next = m) <=> (pc[u] = "link" /\ local[u].next = m)
      BY <1>3, <1>6
    <2> QED BY <2>2 DEF Unlinked
  <1>11. \A m : Used(m)' <=> Used(m)
    BY <1>6, <1>10 DEF Used
  <1>12. \A m : Retired(m)' <=> Retired(m)
    <2>1. pc[t] # "retire" /\ pc'[t] # "retire"
      BY <1>3, <1>6
    <2> QED BY <1>6, <2>1, RetiredStay
  <1>13. x \in Value \union {Empty, Taken}
    BY <1>2, <1>3, <1>4, <1>5 DEF OnePlace
  <1>14. \A m \in Node, j \in Slot, v \in Value : Holds(m, j, v)' <=> Holds(m, j, v) /\ ~(m = n /\ j = p)
    <2>1. SUFFICES ASSUME NEW m \in Node, NEW j \in Slot, NEW v \in Value
                   PROVE  block'[m].data[j] = v <=> block[m].data[j] = v /\ ~(m = n /\ j = p)
      BY DEF Holds
    <2>2. v # Taken
      BY Values
    <2> QED BY <1>7, <2>2
  <1>15. OnePlace'
    <2>1. \A m \in Node, j \in Slot : block'[m].data[j] \in Value \union {Empty, Taken}
      BY <1>4, <1>7 DEF OnePlace
    <2>2. \A m \in Node : block'[m].write_pos = block[m].write_pos
      BY <1>7
    <2>3. got \in [Thread -> Seq(Value)]
      BY <1>4 DEF OnePlace
    <2>4. ASSUME NEW v \in Popped PROVE v \in Value /\ Done(v)
      <3>1. PICK u \in Thread : v \in ToSet(got[u])
        BY DEF Popped
      <3>2. got[u] \in Seq(Value)
        BY <2>3
      <3>3. v \in Value
        BY <3>1, <3>2 DEF ToSet
      <3> QED BY <1>4, <3>3 DEF OnePlace
    <2>5. CASE x \in {Empty, Taken}
      <3>1. got' = got /\ Popped' = Popped
        BY <1>6, <2>5 DEF Popped
      <3>2. \A v \in Value : ~Holds(n, p, v)
        <4>1. \A v \in Value : v # x
          BY <2>5, Values
        <4> QED BY <1>2, <4>1 DEF Holds
      <3>3. \A m \in Node, j \in Slot, v \in Value : Used(m)' /\ Holds(m, j, v)' <=> Used(m) /\ Holds(m, j, v)
        BY <1>11, <1>14, <3>2
      <3>4. \A m \in Node, j \in Slot, v \in Value : Used(m)' /\ Holds(m, j, v)' =>
              Done(v)' /\ v \notin Popped' /\ j < block'[m].write_pos
        BY <1>4, <1>9, <2>2, <3>1, <3>3 DEF OnePlace
      <3>5. \A m, k \in Node, j, l \in Slot, v \in Value :
              Used(m)' /\ Holds(m, j, v)' /\ Used(k)' /\ Holds(k, l, v)' => m = k /\ j = l
        <4>1. SUFFICES ASSUME NEW m \in Node, NEW k \in Node, NEW j \in Slot, NEW l \in Slot, NEW v \in Value,
                              Used(m)' /\ Holds(m, j, v)', Used(k)' /\ Holds(k, l, v)'
                       PROVE  m = k /\ j = l
          OBVIOUS
        <4>2. Used(m) /\ Holds(m, j, v) /\ Used(k) /\ Holds(k, l, v)
          BY <3>3, <4>1
        <4> QED BY <1>4, <4>2 DEF OnePlace
      <3>6. \A v \in Value : Done(v)' => v \in Popped' \/ \E m \in Node, j \in Slot : Used(m)' /\ Holds(m, j, v)'
        BY <1>4, <1>9, <3>1, <3>3 DEF OnePlace
      <3>7. \A v \in Popped' : Done(v)'
        BY <1>9, <2>4, <3>1
      <3> QED BY <1>4, <2>1, <3>1, <3>4, <3>5, <3>6, <3>7 DEF OnePlace
    <2>6. CASE x \in Value
      <3>1. x # Empty /\ x # Taken
        BY <2>6, Values
      <3>2. got' = [got EXCEPT ![t] = Append(got[t], x)]
        BY <1>6, <3>1
      <3>3. got' \in [Thread -> Seq(Value)] /\ got[t] \in Seq(Value) /\ \A u \in Thread \ {t} : got'[u] = got[u]
        BY <2>3, <2>6, <3>2, AppendProperties
      <3>4. got'[t] = Append(got[t], x)
        BY <2>3, <3>2
      <3>5. ToSet(got'[t]) = ToSet(got[t]) \union {x}
        BY <2>6, <3>3, <3>4, AppendedSet
      <3>6. Popped' = Popped \union {x}
        <4>1. \A v : v \in Popped' <=> \E u \in Thread : v \in ToSet(got'[u])
          BY DEF Popped
        <4>2. \A v : v \in Popped <=> \E u \in Thread : v \in ToSet(got[u])
          BY DEF Popped
        <4>3. \A v : v \in Popped' <=> v \in Popped \union {x}
          BY <3>3, <3>5, <4>1, <4>2
        <4> QED BY <4>3
      <3>7. Holds(n, p, x)
        BY <1>2, <1>5 DEF Holds
      <3>8. x \notin Popped /\ Done(x)
        BY <1>3, <1>4, <1>5, <2>6, <3>7 DEF OnePlace
      <3>9. \A m \in Node, j \in Slot : Used(m) /\ Holds(m, j, x) => m = n /\ j = p
        BY <1>3, <1>4, <1>5, <2>6, <3>7 DEF OnePlace
      <3>10. \A m \in Node, j \in Slot, v \in Value :
               Used(m)' /\ Holds(m, j, v)' <=> Used(m) /\ Holds(m, j, v) /\ v # x
        <4>1. ASSUME NEW m \in Node, NEW j \in Slot, NEW v \in Value
              PROVE  Used(m)' /\ Holds(m, j, v)' <=> Used(m) /\ Holds(m, j, v) /\ v # x
          <5>1. CASE v = x
            BY <1>11, <1>14, <3>9, <5>1
          <5>2. CASE v # x
            <6>1. ~(m = n /\ j = p /\ Holds(m, j, v))
              BY <1>2, <5>2 DEF Holds
            <6> QED BY <1>11, <1>14, <5>2, <6>1
          <5> QED BY <5>1, <5>2
        <4> QED BY <4>1
      <3>11. \A m \in Node, j \in Slot, v \in Value : Used(m)' /\ Holds(m, j, v)' =>
               Done(v)' /\ v \notin Popped' /\ j < block'[m].write_pos
        <4>1. SUFFICES ASSUME NEW m \in Node, NEW j \in Slot, NEW v \in Value, Used(m)' /\ Holds(m, j, v)'
                       PROVE  Done(v)' /\ v \notin Popped' /\ j < block'[m].write_pos
          OBVIOUS
        <4>2. Used(m) /\ Holds(m, j, v) /\ v # x
          BY <3>10, <4>1
        <4>3. Done(v) /\ v \notin Popped /\ j < block[m].write_pos
          BY <1>4, <4>2 DEF OnePlace
        <4> QED BY <1>9, <2>2, <3>6, <4>2, <4>3
      <3>12. \A m, k \in Node, j, l \in Slot, v \in Value :
               Used(m)' /\ Holds(m, j, v)' /\ Used(k)' /\ Holds(k, l, v)' => m = k /\ j = l
        <4>1. SUFFICES ASSUME NEW m \in Node, NEW k \in Node, NEW j \in Slot, NEW l \in Slot, NEW v \in Value,
                              Used(m)' /\ Holds(m, j, v)', Used(k)' /\ Holds(k, l, v)'
                       PROVE  m = k /\ j = l
          OBVIOUS
        <4>2. Used(m) /\ Holds(m, j, v) /\ Used(k) /\ Holds(k, l, v)
          BY <3>10, <4>1
        <4> QED BY <1>4, <4>2 DEF OnePlace
      <3>13. \A v \in Value : Done(v)' => v \in Popped' \/ \E m \in Node, j \in Slot : Used(m)' /\ Holds(m, j, v)'
        <4>1. SUFFICES ASSUME NEW v \in Value, Done(v)', v # x
                       PROVE  v \in Popped' \/ \E m \in Node, j \in Slot : Used(m)' /\ Holds(m, j, v)'
          BY <3>6
        <4>2. v \in Popped \/ \E m \in Node, j \in Slot : Used(m) /\ Holds(m, j, v)
          BY <1>4, <1>9, <4>1 DEF OnePlace
        <4> QED BY <3>6, <3>10, <4>1, <4>2
      <3>14. \A v \in Popped' : Done(v)'
        BY <1>9, <2>4, <2>6, <3>6, <3>8
      <3>15. \A u, w \in Thread : \A i \in DOMAIN got'[u], j \in DOMAIN got'[w] :
               got'[u][i] = got'[w][j] => u = w /\ i = j
        <4>1. PICK l : l = Len(got[t]) + 1
          OBVIOUS
        <4>2. /\ Len(got[t]) \in Nat /\ DOMAIN got[t] = 1..Len(got[t]) /\ DOMAIN got'[t] = 1..l
              /\ got'[t][l] = x /\ \A i \in 1..Len(got[t]) : got'[t][i] = got[t][i]
          BY <2>6, <3>3, <3>4, <4>1, AppendProperties, LenProperties
        <4>3. ASSUME NEW u \in Thread, NEW i \in DOMAIN got'[u], ~(u = t /\ i = l)
              PROVE  i \in DOMAIN got[u] /\ got'[u][i] = got[u][i] /\ got[u][i] # x
          <5>1. i \in DOMAIN got[u] /\ got'[u][i] = got[u][i]
            <6>1. CASE u = t
              <7>1. i \in 1..Len(got[t])
                BY <4>1, <4>2, <4>3, <6>1
              <7> QED BY <4>2, <6>1, <7>1
            <6>2. CASE u # t
              BY <3>3, <4>3, <6>2
            <6> QED BY <6>1, <6>2
          <5>2. got[u][i] \in Popped
            BY <5>1 DEF Popped, ToSet
          <5> QED BY <3>8, <5>1, <5>2
        <4>4. SUFFICES ASSUME NEW u \in Thread, NEW w \in Thread, NEW i \in DOMAIN got'[u], NEW j \in DOMAIN got'[w],
                              got'[u][i] = got'[w][j]
                       PROVE  u = w /\ i = j
          OBVIOUS
        <4>5. CASE (u = t /\ i = l) /\ (w = t /\ j = l)
          BY <4>5
        <4>6. CASE (u = t /\ i = l) /\ ~(w = t /\ j = l)
          <5>1. got'[w][j] # x
            BY <4>3, <4>6
          <5> QED BY <4>2, <4>4, <4>6, <5>1
        <4>7. CASE ~(u = t /\ i = l) /\ (w = t /\ j = l)
          <5>1. got'[u][i] # x
            BY <4>3, <4>7
          <5> QED BY <4>2, <4>4, <4>7, <5>1
        <4>8. CASE ~(u = t /\ i = l) /\ ~(w = t /\ j = l)
          <5>1. i \in DOMAIN got[u] /\ j \in DOMAIN got[w] /\ got[u][i] = got[w][j]
            BY <4>3, <4>4, <4>8
          <5> QED BY <1>4, <5>1 DEF OnePlace
        <4> QED BY <4>5, <4>6, <4>7, <4>8
      <3> QED BY <2>1, <3>3, <3>11, <3>12, <3>13, <3>14, <3>15 DEF OnePlace
    <2> QED BY <1>13, <2>5, <2>6
  <1>16. Popper' = Popper
    BY <1>6 DEF Popper, Pusher
  <1>17. ReadClaims'
    <2>1. \A m \in Node, i \in Slot : Used(m)' /\ i < block'[m].read_pos => block'[m].data[i] = Taken \/ Claimed(m, i)'
      <3>1. SUFFICES ASSUME NEW m \in Node, NEW i \in Slot, Used(m)', i < block'[m].read_pos, ~(m = n /\ i = p)
                     PROVE  block'[m].data[i] = Taken \/ Claimed(m, i)'
        BY <1>7
      <3>2. block[m].data[i] = Taken \/ Claimed(m, i)
        BY <1>4, <1>7, <1>11, <3>1 DEF ReadClaims
      <3>3. ASSUME Claimed(m, i) PROVE Claimed(m, i)'
        <4>1. PICK u \in Popper : pc[u] = "take" /\ local[u].node = m /\ local[u].pos = i
          BY <3>3 DEF Claimed
        <4>2. u # t /\ u \in Thread
          BY <1>2, <3>1, <4>1 DEF Popper
        <4>3. u \in Popper' /\ pc'[u] = "take" /\ local'[u].node = m /\ local'[u].pos = i
          BY <1>6, <1>16, <4>1, <4>2
        <4> QED BY <4>3 DEF Claimed
      <3> QED BY <1>7, <3>1, <3>2, <3>3
    <2>2. \A m \in Node : block'[m].read_pos = block[m].read_pos
      BY <1>7
    <2>3. \A m \in Node : Retired(m)' => block'[m].read_pos >= BlockSize
      BY <1>4, <1>12, <2>2 DEF ReadClaims
    <2>4. ASSUME NEW u \in Thread
          PROVE  /\ pc'[u] = "take" => local'[u].pos \in Slot /\ local'[u].pos < block'[local'[u].node].read_pos
                 /\ pc'[u] \in {"follow", "advance"} => block'[local'[u].node].read_pos >= BlockSize
                 /\ \A m : u \in Popper' /\ pc'[u] \in Using /\ local'[u].node = m => m = read_pos_' \/ Retired(m)'
      <3>1. CASE u = t
        BY <1>6, <3>1 DEF Using
      <3>2. CASE u # t
        <4>1. pc'[u] = pc[u] /\ local'[u] = local[u]
          BY <1>6, <3>2
        <4>2. pc[u] \in {"take", "follow", "advance"} => local[u].node \in Node
          BY UsedNodes DEF Using
        <4>3. \A m : u \in Popper' /\ pc'[u] \in Using /\ local'[u].node = m => m = read_pos_' \/ Retired(m)'
          BY <1>4, <1>6, <1>12, <1>16, <4>1 DEF ReadClaims
        <4>4. pc[u] = "take" => local[u].pos \in Slot /\ local[u].pos < block'[local[u].node].read_pos
          BY <1>4, <2>2, <4>2 DEF ReadClaims
        <4>5. pc[u] \in {"follow", "advance"} => block'[local[u].node].read_pos >= BlockSize
          BY <1>4, <2>2, <4>2 DEF ReadClaims
        <4> QED BY <4>1, <4>3, <4>4, <4>5
      <3> QED BY <3>1, <3>2
    <2>5. ASSUME NEW u \in Thread, NEW v \in Thread, pc'[u] = "take", pc'[v] = "take",
                 local'[u].node = local'[v].node, local'[u].pos = local'[v].pos
          PROVE  u = v
      <3>1. u # t /\ v # t
        BY <1>6, <2>5
      <3>2. /\ pc[u] = "take" /\ local'[u] = local[u]
            /\ pc[v] = "take" /\ local'[v] = local[v]
        BY <1>6, <2>5, <3>1
      <3>3. local[u].node = local[v].node /\ local[u].pos = local[v].pos
        BY <2>5, <3>2
      <3> QED BY <1>4, <3>2, <3>3 DEF ReadClaims
    <2> QED BY <2>1, <2>3, <2>4, <2>5 DEF ReadClaims
  <1>18. WriteClaims'
    <2>1. \A m \in Node : m \in alive /\ m \in alive' =>
            /\ block'[m].write_pos >= block[m].write_pos
            /\ \A i \in Slot : block[m].data[i] \notin Value => block'[m].data[i] \notin Value
      <3>1. Taken \notin Value
        BY Values
      <3>2. \A m \in Node : block[m].write_pos >= block[m].write_pos
        BY <1>1 DEF NodeBlock
      <3> QED BY <1>7, <3>1, <3>2
    <2>2. \A m \in Node : Unlinked(m)' /\ Unlinked(m) => block'[m] = block[m]
      BY <1>3, <1>7 DEF Used
    <2>3. pc'[t] \notin {"set", "link"}
      BY <1>6
    <2> QED BY <1>4, <1>6, <2>1, <2>2, <2>3, WriteClaimsKept
  <1> QED BY <1>8, <1>15, <1>17, <1>18 DEF ValuesInv

(* A consumer leaves a block of which every slot is claimed.                    *)
LEMMA SwingReadValues ==
  ASSUME MpmcQueueAssumption, HazardInv, HazardInv', ValuesInv, NEW t \in Thread, SwingRead(t),
         read_pos_ = local[t].node,
         \A u \in Thread : pc[u] \in Using => local[u].node \in alive
  PROVE  ValuesInv'
PROOF
  <1>1. /\ pc \in [Thread -> PusherPlace \union PopperPlace] /\ local \in [Thread -> Variables]
        /\ block \in [Node -> NodeBlock]
    BY DEF HazardInv, QueueType
  <1>2. PICK n : n = local[t].node
    OBVIOUS
  <1>3. t \in Popper /\ pc[t] = "advance" /\ n \in Node /\ Used(n) /\ read_pos_ = n
    BY <1>2, UsedNodes, Places DEF SwingRead, Using
  <1>4. /\ UNCHANGED <<write_pos_, block, alive, hazard_, to_delete_, got, workload, begun, local>>
        /\ \A u \in Thread \ {t} : pc'[u] = pc[u]
        /\ pc'[t] = "retire"
    BY <1>1 DEF SwingRead, Goto, hazard, ghosts
  <1>5. Begun /\ Begun' /\ OnePlace /\ ReadClaims /\ WriteClaims
    BY <1>3, <1>4, BegunKept DEF ValuesInv
  <1>6. \A v \in Value : Done(v)' = Done(v)
    BY <1>3, <1>4, <1>5, DoneKept
  <1>7. \A m : Unlinked(m)' <=> Unlinked(m)
    <2>1. SUFFICES ASSUME NEW m PROVE Unlinked(m)' <=> Unlinked(m)
      OBVIOUS
    <2>2. \A u \in Thread : (pc'[u] = "link" /\ local'[u].next = m) <=> (pc[u] = "link" /\ local[u].next = m)
      BY <1>3, <1>4
    <2> QED BY <2>2 DEF Unlinked
  <1>8. \A m : Used(m)' <=> Used(m)
    BY <1>4, <1>7 DEF Used
  <1>9. \A m : Retired(m)' <=> Retired(m) \/ m = n
    <2>1. SUFFICES ASSUME NEW m PROVE Retired(m)' <=> Retired(m) \/ m = n
      OBVIOUS
    <2>2. \A u \in Thread \ {t} : RetiredBy(u, m)' <=> RetiredBy(u, m)
      BY <1>4 DEF RetiredBy
    <2>3. RetiredBy(t, m)' <=> RetiredBy(t, m) \/ m = n
      BY <1>2, <1>3, <1>4 DEF RetiredBy
    <2> QED BY <2>2, <2>3 DEF Retired
  <1>10. Popper' = Popper
    BY <1>4 DEF Popper, Pusher
  <1>11. \A m \in Node : block[m].write_pos >= block[m].write_pos
    BY <1>1 DEF NodeBlock
  <1>12. OnePlace'
    <2>1. QueueType' /\ \A m \in Node, i \in Slot : block'[m].data[i] \in Value \union {Empty, Taken}
      BY <1>4, <1>5 DEF HazardInv, OnePlace
    <2> QED BY <1>4, <1>5, <1>6, <1>8, <1>11, <2>1, OnePlaceKept
  <1>13. ReadClaims'
    <2>1. \A m, i : Claimed(m, i)' <=> Claimed(m, i)
      <3>1. SUFFICES ASSUME NEW m, NEW i PROVE Claimed(m, i)' <=> Claimed(m, i)
        OBVIOUS
      <3>2. \A u \in Popper : pc'[u] = "take" <=> pc[u] = "take"
        BY <1>3, <1>4 DEF Popper
      <3> QED BY <1>4, <1>10, <3>2 DEF Claimed
    <2>2. \A m \in Node, i \in Slot : Used(m)' /\ i < block'[m].read_pos => block'[m].data[i] = Taken \/ Claimed(m, i)'
      BY <1>4, <1>5, <1>8, <2>1 DEF ReadClaims
    <2>3. \A m \in Node : Retired(m)' => block'[m].read_pos >= BlockSize
      BY <1>2, <1>3, <1>4, <1>5, <1>9 DEF ReadClaims
    <2>4. ASSUME NEW u \in Thread
          PROVE  /\ pc'[u] = "take" => local'[u].pos \in Slot /\ local'[u].pos < block'[local'[u].node].read_pos
                 /\ pc'[u] \in {"follow", "advance"} => block'[local'[u].node].read_pos >= BlockSize
                 /\ \A m : u \in Popper' /\ pc'[u] \in Using /\ local'[u].node = m => m = read_pos_' \/ Retired(m)'
      <3>1. CASE u = t
        BY <1>4, <3>1 DEF Using
      <3>2. CASE u # t
        <4>1. pc'[u] = pc[u] /\ local' = local
          BY <1>4, <3>2
        <4>2. \A m : u \in Popper' /\ pc'[u] \in Using /\ local'[u].node = m => m = read_pos_' \/ Retired(m)'
          BY <1>3, <1>5, <1>9, <1>10, <4>1 DEF ReadClaims
        <4> QED BY <1>4, <1>5, <4>1, <4>2 DEF ReadClaims
      <3> QED BY <3>1, <3>2
    <2>5. ASSUME NEW u \in Thread, NEW v \in Thread, pc'[u] = "take", pc'[v] = "take",
                 local'[u].node = local'[v].node, local'[u].pos = local'[v].pos
          PROVE  u = v
      <3>1. pc[u] = "take" /\ pc[v] = "take" /\ local' = local
        BY <1>4, <2>5
      <3> QED BY <1>5, <2>5, <3>1 DEF ReadClaims
    <2> QED BY <2>2, <2>3, <2>4, <2>5 DEF ReadClaims
  <1>14. WriteClaims'
    <2>1. \A u \in Thread \ {t} : pc'[u] = pc[u] /\ local'[u] = local[u] /\ begun'[u] = begun[u]
      BY <1>4
    <2>2. pc'[t] \notin {"set", "link"}
      BY <1>4
    <2> QED BY <1>4, <1>5, <1>11, <2>1, <2>2, WriteClaimsKept
  <1> QED BY <1>5, <1>12, <1>13, <1>14 DEF ValuesInv

LEMMA SwingLostPassive ==
  ASSUME HazardInv, NEW t \in Thread, SwingRead(t), read_pos_ # local[t].node
  PROVE  Passive(t)
PROOF
  <1>1. pc \in [Thread -> PusherPlace \union PopperPlace] /\ local \in [Thread -> Variables]
    BY DEF HazardInv, QueueType
  <1>2. t \in Popper
    BY Places DEF SwingRead
  <1> QED BY <1>1, <1>2 DEF SwingRead, Passive, Goto, EndRound, hazard, ghosts, Using

LEMMA InitValues ==
  ASSUME MpmcQueueAssumption, Init
  PROVE  ValuesInv
PROOF
  <1>1. /\ block = [m \in Node |-> FreshBlock] /\ pc = [t \in Thread |-> "idle"]
        /\ begun = [t \in Thread |-> 0] /\ got = [t \in Thread |-> <<>>]
        /\ to_delete_ = [t \in Thread |-> <<>>] /\ workload \in Workloads
    BY DEF Init
  <1>2. Begun
    <2>1. \A t \in Thread : workload[t] \in Nat
      BY <1>1, MpmcQueueAssumption DEF MpmcQueueAssumption, Thread
    <2> QED BY <1>1, <2>1 DEF Begun, Pusher
  <1>3. \A n \in Node, i \in Slot : block[n].data[i] = Empty
    BY <1>1 DEF FreshBlock
  <1>4. \A n \in Node, i \in Slot, v \in Value : ~Holds(n, i, v)
    BY <1>3, Values DEF Holds
  <1>5. Popped = {}
    <2>1. \A t \in Thread : ToSet(got[t]) = {}
      BY <1>1 DEF ToSet
    <2> QED BY <2>1 DEF Popped
  <1>6. \A v \in Value : ~Done(v)
    <2>1. SUFFICES ASSUME NEW v \in Value PROVE ~Done(v)
      OBVIOUS
    <2>2. v[1] \in Thread /\ v[2] \in Nat /\ v[2] > 0
      BY Values
    <2>3. begun[v[1]] = 0
      BY <1>1, <2>2
    <2> QED BY <2>2, <2>3 DEF Done
  <1>7. OnePlace
    <2>1. got \in [Thread -> Seq(Value)] /\ \A t \in Thread : DOMAIN got[t] = {}
      BY <1>1
    <2> QED BY <1>3, <1>4, <1>5, <1>6, <2>1 DEF OnePlace
  <1>8. \A n : ~Retired(n)
    BY <1>1 DEF Retired, RetiredBy, ToSet
  <1>9. \A n \in Node, i \in Slot : ~(i < block[n].read_pos)
    BY <1>1 DEF FreshBlock, Slot
  <1>10. ReadClaims
    BY <1>1, <1>8, <1>9 DEF ReadClaims, Using, Popper
  <1>11. WriteClaims
    BY <1>1 DEF WriteClaims
  <1> QED BY <1>2, <1>7, <1>10, <1>11 DEF ValuesInv

LEMMA NextValues ==
  ASSUME MpmcQueueAssumption, HazardInv, HazardInv', ValuesInv, [Next]_vars
  PROVE  ValuesInv'
PROOF
  <1>1. CASE UNCHANGED vars
    <2>1. /\ UNCHANGED <<write_pos_, read_pos_, block, alive, hazard_, to_delete_, pc, local>>
          /\ UNCHANGED <<workload, begun, got>>
      BY <1>1 DEF vars, queue, hazard, ghosts
    <2>2. Begun' /\ \A v \in Value : Done(v)' = Done(v)
      BY <2>1 DEF ValuesInv, Begun, Done, Pusher
    <2>3. /\ \A n : Used(n)' = Used(n) /\ Retired(n)' = Retired(n)
          /\ \A n, i, v : Holds(n, i, v)' = Holds(n, i, v) /\ Claimed(n, i)' = Claimed(n, i)
          /\ Popped' = Popped /\ Popper' = Popper
      BY <2>1 DEF Used, Unlinked, Retired, RetiredBy, Holds, Claimed, Popped, Popper, Pusher
    <2>4. OnePlace'
      <3>1. block \in [Node -> NodeBlock] /\ QueueType'
        BY DEF HazardInv, QueueType
      <3>2. OnePlace /\ \A m \in Node, i \in Slot : block'[m].data[i] \in Value \union {Empty, Taken}
        BY <2>1 DEF ValuesInv, OnePlace
      <3>3. \A m \in Node : block[m].write_pos >= block[m].write_pos
        BY <3>1 DEF NodeBlock
      <3> QED BY <2>1, <2>2, <2>3, <3>1, <3>2, <3>3, OnePlaceKept
    <2>5. ReadClaims'
      BY <2>1, <2>3 DEF ValuesInv, ReadClaims
    <2>6. WriteClaims'
      BY <2>1 DEF ValuesInv, WriteClaims, Pushing, FreshBlock
    <2> QED BY <2>2, <2>4, <2>5, <2>6 DEF ValuesInv
  <1>2. ASSUME \A u \in Thread : ~Dangling(u), NEW t \in Thread, Step(t) PROVE ValuesInv'
    <2>1. \A u \in Thread : pc[u] \in Using => local[u].node \in alive
      BY <1>2 DEF Dangling
    <2>2. ASSUME Passive(t) PROVE ValuesInv'
      BY <2>1, <2>2, MpmcQueueAssumption, PassiveValues
    <2>3. ReadClaims
      BY DEF ValuesInv
    <2>4. CASE ProtectLoad(t)
      BY <2>1, <2>2, <2>3, <2>4, MpmcQueueAssumption, BeginValues, PassiveSteps
    <2>5. CASE ProtectStore(t) \/ ProtectCheck(t) \/ Return(t)
      BY <2>2, <2>3, <2>5, PassiveSteps
    <2>6. CASE Push(t)
      <3>1. CASE ClaimWrite(t)
        BY <2>1, <3>1, MpmcQueueAssumption, ClaimWriteValues
      <3>2. CASE SetValue(t)
        BY <2>1, <2>2, <2>3, <3>2, MpmcQueueAssumption, SetValueValues, PassiveSteps
      <3>3. CASE LoadNext(t)
        BY <2>1, <2>2, <2>3, <3>3, MpmcQueueAssumption, CreateValues, PassiveSteps
      <3>4. CASE Link(t)
        BY <2>1, <3>4, MpmcQueueAssumption, LinkLostValues, LinkedValues
      <3>5. CASE SwingWrite(t)
        BY <2>2, <2>3, <3>5, PassiveSteps
      <3> QED BY <2>6, <3>1, <3>2, <3>3, <3>4, <3>5 DEF Push
    <2>7. CASE TryPop(t)
      <3>1. CASE ReadWritePos(t) \/ ComparePos(t) \/ IsLast(t) \/ Follow(t)
        BY <2>2, <2>3, <3>1, PassiveSteps
      <3>2. CASE ClaimRead(t)
        BY <2>1, <3>2, MpmcQueueAssumption, ClaimReadValues
      <3>3. CASE GetValue(t)
        BY <2>1, <3>3, MpmcQueueAssumption, GetValueValues
      <3>4. CASE SwingRead(t)
        BY <2>1, <2>2, <3>4, MpmcQueueAssumption, SwingReadValues, SwingLostPassive
      <3>5. CASE Retire(t)
        BY <2>1, <3>5, MpmcQueueAssumption, RetireValues
      <3>6. CASE Scan(t)
        <4>1. CASE UNCHANGED <<alive, block, to_delete_>>
          BY <2>2, <2>3, <3>6, <4>1, PassiveSteps
        <4>2. CASE \E n \in Node : Deletes(t, n)
          BY <2>1, <4>2, MpmcQueueAssumption, DeleteValues
        <4> QED BY <3>6, <4>1, <4>2, ScanEffect
      <3> QED BY <2>7, <3>1, <3>2, <3>3, <3>4, <3>5, <3>6 DEF TryPop
    <2> QED BY <1>2, <2>4, <2>5, <2>6, <2>7 DEF Step
  <1> QED BY <1>1, <1>2 DEF Next

-----------------------------------------------------------------------------
(* The order of the values                                                    *)

LEMMA LeadsFacts ==
  ASSUME HazardInv
  PROVE  /\ \A n : Leads(n, n)
         /\ \A n, m, k : Leads(n, m) /\ Leads(m, k) => Leads(n, k)
         /\ \A n \in Node : Linked(n) /\ block[n].next # NoNode => Leads(n, block[n].next)
         /\ \A n, m \in Node : Linked(n) /\ Leads(n, m) => Linked(m)
         /\ \A n \in Node : Linked(n) /\ Leads(n, read_pos_) => n = read_pos_
PROOF
  <1>1. \A n : Leads(n, n)
    BY DEF Leads
  <1>2. \A n, m, k : Leads(n, m) /\ Leads(m, k) => Leads(n, k)
    BY DEF Leads
  <1>3. \A n \in Node : Linked(n) /\ block[n].next # NoNode => Leads(n, block[n].next)
    BY DEF Leads, Closed
  <1>4. ASSUME NEW n \in Node, NEW m \in Node, Linked(n), Leads(n, m) PROVE Linked(m)
    <2>1. PICK S : S = {k \in Node : Linked(k)}
      OBVIOUS
    <2>2. \A k \in Node : Linked(k) /\ block[k].next # NoNode => block[k].next \in Node /\ Linked(block[k].next)
      BY DEF HazardInv, List, QueueType, Linked
    <2>3. S \in SUBSET Node /\ n \in S /\ Closed(S)
      BY <1>4, <2>1, <2>2 DEF Closed
    <2> QED BY <1>4, <2>1, <2>3 DEF Leads
  <1>5. ASSUME NEW n \in Node, Linked(n), Leads(n, read_pos_), n # read_pos_ PROVE FALSE
    <2>1. PICK S : S = {k \in Node : Linked(k) /\ k # read_pos_}
      OBVIOUS
    <2>2. \A k \in Node : Linked(k) /\ block[k].next # NoNode =>
            block[k].next \in Node /\ Linked(block[k].next) /\ block[k].next # read_pos_
      BY DEF HazardInv, List, QueueType, Linked
    <2>3. S \in SUBSET Node /\ n \in S /\ Closed(S)
      BY <1>5, <2>1, <2>2 DEF Closed
    <2> QED BY <1>5, <2>1, <2>3 DEF Leads
  <1> QED BY <1>1, <1>2, <1>3, <1>4, <1>5

(* What leads on goes on to do so as long as no link is cut.                   *)
LEMMA LeadsKept ==
  ASSUME \A k \in Node : Linked(k) /\ block[k].next # NoNode =>
           Linked(k)' /\ block'[k].next = block[k].next
  PROVE  \A n, m : Leads(n, m) => Leads(n, m)'
PROOF
  <1>1. SUFFICES ASSUME NEW n, NEW m, Leads(n, m), NEW S \in SUBSET Node, n \in S, Closed(S)' PROVE m \in S
    BY DEF Leads
  <1>2. Closed(S)
    BY <1>1 DEF Closed
  <1> QED BY <1>1, <1>2 DEF Leads

LEMMA PushedKept ==
  ASSUME MpmcQueueAssumption, HazardInv, NEW t \in Thread, begun' = begun,
         \A u \in Thread \ {t} : pc'[u] = pc[u], pc[t] # "idle"
  PROVE  /\ \A v \in Pushed : v \in Pushed'
         /\ \A v \in Pushed : v \in Value /\ v # Pushing(t)
PROOF
  <1>1. ASSUME NEW v \in Value PROVE v[1] \in Thread /\ v[2] \in Nat /\ begun[v[1]] \in Nat
    BY Values DEF HazardInv, QueueType
  <1>2. ASSUME NEW v \in Pushed PROVE v \in Value /\ v \in Pushed' /\ v # Pushing(t)
    <2>1. v \in Value /\ IF pc[v[1]] = "idle" THEN v[2] <= begun[v[1]] ELSE v[2] < begun[v[1]]
      BY DEF Pushed
    <2>2. v # Pushing(t)
      BY <1>1, <2>1 DEF Pushing
    <2>3. v[2] <= begun[v[1]] /\ (pc'[v[1]] # "idle" => v[2] < begun[v[1]])
      BY <1>1, <2>1
    <2>4. IF pc'[v[1]] = "idle" THEN v[2] <= begun'[v[1]] ELSE v[2] < begun'[v[1]]
      BY <2>3
    <2> QED BY <2>1, <2>2, <2>4 DEF Pushed
  <1> QED BY <1>2

(* Values that were pushed are in no other producer's way. *)
LEMMA PushedSettled ==
  ASSUME MpmcQueueAssumption, HazardInv, NEW v \in Pushed
  PROVE  /\ v \in Value /\ Done(v)
         /\ ~(v = Pushing(v[1]) /\ pc[v[1]] = "swing")
PROOF
  <1>1. v \in Value /\ IF pc[v[1]] = "idle" THEN v[2] <= begun[v[1]] ELSE v[2] < begun[v[1]]
    BY DEF Pushed
  <1>2. v[1] \in Thread /\ v[2] \in Nat /\ begun[v[1]] \in Nat /\ v = <<v[1], v[2]>>
    BY <1>1, Values DEF HazardInv, QueueType
  <1>3. Done(v)
    BY <1>1, <1>2 DEF Done
  <1>4. v = Pushing(v[1]) => v[2] = begun[v[1]]
    BY <1>2 DEF Pushing
  <1>5. ~(v = Pushing(v[1]) /\ pc[v[1]] = "swing")
    BY <1>1, <1>2, <1>4
  <1> QED BY <1>1, <1>3, <1>5

(* A step of t, as Behind sees it.                                             *)
LEMMA BehindKept ==
  ASSUME MpmcQueueAssumption, HazardInv, HazardInv', Begun, Behind, NEW t \in Thread,
         UNCHANGED <<before, workload, begun>>, pc[t] # "idle",
         \A u \in Thread \ {t} : pc'[u] = pc[u] /\ local'[u] = local[u],
         \A u \in Thread : pc[u] \in Using => local[u].node \in alive,
         \A n, m \in Node : Linked(n) /\ Linked(n)' /\ Leads(n, m) => Leads(n, m)',
         \A u \in Pushed, n \in Node, i \in Slot : Waits(u, n, i)' => Waits(u, n, i),
         \A v \in Value : v \in Popped' /\ v \notin Popped =>
           \A u \in before[v], n \in Node, i \in Slot : ~Waits(u, n, i)',
         \A v \in Value, m \in Node, j \in Slot : Used(m)' /\ Holds(m, j, v)' =>
           \/ Used(m) /\ Holds(m, j, v)
           \/ \A u \in before[v], n \in Node, i \in Slot : Waits(u, n, i)' => Leads(n, m)' /\ (n = m => i < j),
         t \in Pusher /\ pc'[t] \in Using =>
           \A u \in before[Pushing(t)], n \in Node, i \in Slot, m \in Node : local'[t].node = m /\ Waits(u, n, i)' =>
             Leads(n, m)' /\ (pc'[t] = "set" /\ n = m => i < local'[t].pos)
  PROVE  Behind'
PROOF
  <1>1. /\ \A v \in Pushed : v \in Pushed'
        /\ \A v \in Pushed : v \in Value
    BY PushedKept
  <1>2. Pusher' = Pusher
    BY DEF Pusher
  <1>3. before' \in [Value \union (Thread \X {0}) -> SUBSET Value] /\ \A x \in DOMAIN before' : before'[x] \subseteq Pushed'
    BY <1>1 DEF Behind
  <1>4. \A x \in Value \union (Thread \X {0}) : before[x] \subseteq Pushed
    BY DEF Behind
  <1>5. \A u : \A n \in Node, i \in Slot : Waits(u, n, i) => Linked(n)
    BY DEF Waits
  <1>6. \A u : \A n \in Node, i \in Slot : Waits(u, n, i)' => Linked(n)'
    BY DEF Waits
  <1>7. ASSUME NEW v \in Value, NEW u \in before[v], NEW n \in Node, NEW i \in Slot, Waits(u, n, i)'
        PROVE  /\ v \notin Popped'
               /\ \A m \in Node, j \in Slot : Used(m)' /\ Holds(m, j, v)' => Leads(n, m)' /\ (n = m => i < j)
    <2>1. u \in Pushed /\ Waits(u, n, i) /\ Linked(n) /\ Linked(n)'
      BY <1>4, <1>5, <1>6, <1>7
    <2>2. v \notin Popped /\ \A m \in Node, j \in Slot : Used(m) /\ Holds(m, j, v) => Leads(n, m) /\ (n = m => i < j)
      BY <2>1 DEF Behind
    <2>3. v \notin Popped'
      BY <1>7, <2>2
    <2>4. ASSUME NEW m \in Node, NEW j \in Slot, Used(m)' /\ Holds(m, j, v)'
          PROVE  Leads(n, m)' /\ (n = m => i < j)
      <3>1. CASE Used(m) /\ Holds(m, j, v)
        BY <2>1, <2>2, <3>1
      <3>2. CASE ~(Used(m) /\ Holds(m, j, v))
        BY <1>7, <2>4, <3>2
      <3> QED BY <3>1, <3>2
    <2> QED BY <2>3, <2>4
  <1>8. ASSUME NEW w \in Pusher, pc'[w] \in Using, NEW m \in Node, local'[w].node = m, m \in alive',
               NEW u \in before[Pushing(w)], NEW n \in Node, NEW i \in Slot, Waits(u, n, i)'
        PROVE  Leads(n, m)' /\ (pc'[w] = "set" /\ n = m => i < local'[w].pos)
    <2>1. CASE w = t
      BY <1>8, <2>1
    <2>2. CASE w # t
      <3>1. w \in Thread /\ pc'[w] = pc[w] /\ local'[w] = local[w] /\ pc[w] \in Using /\ local[w].node \in alive
        BY <1>8, <2>2 DEF Pusher
      <3>2. Waits(u, n, i)
        <4>1. Pushing(w) \in Value
          BY <1>8, <3>1, PushedValue DEF Using
        <4> QED BY <1>4, <1>8, <4>1
      <3>3. Leads(n, local[w].node) /\ (pc[w] = "set" /\ n = local[w].node => i < local[w].pos)
        BY <3>1, <3>2 DEF Behind
      <3>4. Linked(n) /\ Linked(n)'
        BY <1>5, <1>6, <1>8, <3>2
      <3> QED BY <1>8, <3>1, <3>3, <3>4
    <2> QED BY <2>1, <2>2
  <1>9. \A w \in Pusher : pc'[w] \in Using => local'[w].node \in Node
    BY <1>2 DEF HazardInv, Locals, Pusher
  <1>10. \A w : Pushing(w)' = Pushing(w)
    BY DEF Pushing
  <1>11. \A w \in Pusher' : pc'[w] \in Using /\ local'[w].node \in alive' =>
           \A u \in before'[Pushing(w)'], n \in Node, i \in Slot : Waits(u, n, i)' =>
             /\ \A m : m = local'[w].node => Leads(n, m)'
             /\ pc'[w] = "set" /\ n = local'[w].node => i < local'[w].pos
    BY <1>2, <1>8, <1>9, <1>10
  <1> QED BY <1>3, <1>7, <1>11 DEF Behind

LEMMA SeenEmptyKept ==
  ASSUME MpmcQueueAssumption, HazardInv, HazardInv', Behind, SeenEmpty, NEW t \in Thread,
         UNCHANGED <<before, workload>>,
         \A u \in Thread \ {t} : pc'[u] = pc[u] /\ local'[u] = local[u],
         \A u \in Pushed, n \in Node, i \in Slot : Waits(u, n, i)' => Waits(u, n, i),
         t \in Popper => \A u \in before[<<t, 0>>], m \in Node, i \in Slot : local'[t].node = m /\ Waits(u, m, i)' =>
           /\ pc'[t] # "last"
           /\ pc'[t] = "compare" => i < local'[t].pos
  PROVE  SeenEmpty'
PROOF
  <1>1. Popper' = Popper /\ \A w \in Popper : w \in Thread
    BY DEF Popper, Pusher
  <1>2. \A w \in Thread : before[<<w, 0>>] \subseteq Pushed
    BY DEF Behind
  <1>3. ASSUME NEW w \in Popper, NEW u \in before[<<w, 0>>], NEW i \in Slot, NEW m, local'[w].node = m, Waits(u, m, i)'
        PROVE  pc'[w] # "last" /\ (pc'[w] = "compare" => i < local'[w].pos)
    <2>1. CASE m \notin Node
      BY <1>3, <2>1 DEF Waits, Linked, HazardInv, QueueType
    <2>2. CASE m \in Node
      <3>1. CASE w = t
        BY <1>3, <2>2, <3>1
      <3>2. CASE w # t
        <4>1. w \in Thread /\ pc'[w] = pc[w] /\ local'[w] = local[w]
          BY <1>1, <3>2
        <4>2. Waits(u, m, i)
          BY <1>2, <1>3, <2>2, <4>1
        <4> QED BY <1>3, <4>1, <4>2 DEF SeenEmpty
      <3> QED BY <3>1, <3>2
    <2> QED BY <2>1, <2>2
  <1> QED BY <1>1, <1>3 DEF SeenEmpty

LEMMA WriteOrderKept ==
  ASSUME MpmcQueueAssumption, HazardInv, HazardInv', WriteOrder, NEW t \in Thread,
         UNCHANGED <<write_pos_, workload, begun>>,
         \A u \in Thread \ {t} : pc'[u] = pc[u] /\ local'[u] = local[u],
         pc[t] = "swing" => local[t].node # write_pos_,
         \A n, m \in Node : Linked(n) /\ Linked(n)' /\ Leads(n, m) => Leads(n, m)',
         (\A n \in Node : Linked(n) => Leads(read_pos_, n))',
         \A n \in Node, i \in Slot, v \in Value : Linked(n)' /\ Holds(n, i, v)' =>
           \/ Linked(n) /\ Holds(n, i, v)
           \/ Leads(n, write_pos_)'
           \/ v = Pushing(t) /\ pc'[t] = "swing" /\ local'[t].node = write_pos_ /\ local'[t].next = n,
         \A u \in Thread \ {t} : pc[u] \in Using =>
           \A m \in Node : local[u].node = m /\ Linked(m)' => Linked(m),
         t \in Pusher /\ pc'[t] \in Using =>
           \A m \in Node : local'[t].node = m /\ Linked(m)' => Leads(m, write_pos_)'
  PROVE  WriteOrder'
PROOF
  <1>1. Pusher' = Pusher /\ \A w \in Pusher : w \in Thread
    BY DEF Pusher
  <1>2. write_pos_ \in Node
    BY DEF HazardInv, QueueType
  <1>3. \A w : Pushing(w)' = Pushing(w)
    BY DEF Pushing
  <1>4. ASSUME NEW n \in Node, NEW i \in Slot, NEW v \in Value, Linked(n)', Holds(n, i, v)'
        PROVE  \/ Leads(n, write_pos_)'
               \/ \E w \in Thread : /\ w = v[1] /\ v = Pushing(w) /\ pc'[w] = "swing"
                                    /\ local'[w].node = write_pos_ /\ local'[w].next = n
    <2>1. v[1] \in Thread
      BY Values
    <2>2. CASE v = Pushing(t) /\ pc'[t] = "swing" /\ local'[t].node = write_pos_ /\ local'[t].next = n
      <3>1. v[1] = t
        BY <2>2 DEF Pushing
      <3> QED BY <2>2, <3>1
    <2>3. CASE Linked(n) /\ Holds(n, i, v)
      <3>1. CASE Leads(n, write_pos_)
        <4>1. Leads(n, write_pos_)'
          BY <1>2, <1>4, <2>3, <3>1
        <4> QED BY <4>1
      <3>2. CASE v = Pushing(v[1]) /\ pc[v[1]] = "swing" /\ local[v[1]].node = write_pos_ /\ local[v[1]].next = n
        <4>1. v[1] # t
          BY <3>2
        <4> QED BY <2>1, <3>2, <4>1
      <3> QED BY <2>3, <3>1, <3>2 DEF WriteOrder
    <2> QED BY <1>4, <2>2, <2>3
  <1>5. ASSUME NEW w \in Pusher, pc'[w] \in Using, NEW m, local'[w].node = m, Linked(m)' PROVE Leads(m, write_pos_)'
    <2>1. w \in Thread
      BY <1>1
    <2>2. CASE m \notin Node
      BY <1>5, <2>2 DEF Linked, HazardInv, QueueType
    <2>3. CASE m \in Node /\ w = t
      BY <1>5, <2>3
    <2>4. CASE m \in Node /\ w # t
      <3>1. pc'[w] = pc[w] /\ local'[w] = local[w]
        BY <2>1, <2>4
      <3>2. Linked(m)
        BY <1>5, <2>1, <2>4, <3>1
      <3>3. Leads(m, write_pos_)
        BY <1>5, <3>1, <3>2 DEF WriteOrder
      <3> QED BY <1>2, <1>5, <2>4, <3>2, <3>3
    <2> QED BY <2>2, <2>3, <2>4
  <1>6. \A n \in Node, i \in Slot, v \in Value : Linked(n)' /\ Holds(n, i, v)' =>
          \/ Leads(n, write_pos_)'
          \/ v = Pushing(v[1])' /\ pc'[v[1]] = "swing" /\ local'[v[1]].node = write_pos_' /\ local'[v[1]].next = n
    BY <1>3, <1>4
  <1> QED BY <1>1, <1>5, <1>6 DEF WriteOrder

(* A step of t that leaves the list as it is.                                  *)
Calm(t) ==
  /\ UNCHANGED <<write_pos_, read_pos_, workload, begun, before>>
  /\ \A u \in Thread \ {t} : pc'[u] = pc[u] /\ local'[u] = local[u]
  /\ pc[t] # "idle" /\ (pc[t] = "swing" => local[t].node # write_pos_)
  /\ \A n \in Node : Linked(n)' <=> Linked(n)
  /\ \A n \in Node : Linked(n) => /\ block'[n].next = block[n].next
                                  /\ block'[n].read_pos >= block[n].read_pos

(* What it may do to the values, and where it may move.                        *)
Adds(t, n, i, v) ==
  pc[t] = "set" /\ pc'[t] = "return" /\ t \in Pusher /\ n = local[t].node /\ i = local[t].pos /\ v = Pushing(t)

CalmValues(t) ==
  /\ \A n \in Node, i \in Slot, v \in Value : Used(n)' /\ Holds(n, i, v)' =>
       (Used(n) /\ Holds(n, i, v)) \/ Adds(t, n, i, v)
  /\ \A v \in Value : v \in Popped' /\ v \notin Popped =>
       t \in Popper /\ pc[t] = "take" /\ Holds(local[t].node, local[t].pos, v)

CalmMoves(t) ==
  /\ t \in Pusher /\ pc'[t] \in Using =>
       /\ (pc[t] \in Using /\ local'[t].node = local[t].node) \/ local'[t].node = write_pos_
       /\ pc'[t] = "set" => local'[t].pos = block[local'[t].node].write_pos
  /\ t \in Popper /\ pc'[t] \in {"compare", "last"} =>
       /\ local'[t].node = local[t].node
       /\ pc'[t] = "compare" => local'[t].pos = block[local'[t].node].write_pos
       /\ pc'[t] = "last" => pc[t] = "compare" /\ local[t].pos <= block[local[t].node].read_pos

LEMMA CalmOrder ==
  ASSUME MpmcQueueAssumption, HazardInv, HazardInv', ValuesInv, OrderInv, NEW t \in Thread,
         Calm(t), CalmValues(t), CalmMoves(t),
         \A u \in Thread : pc[u] \in Using => local[u].node \in alive
  PROVE  OrderInv'
PROOF
  <1>1. Begun /\ OnePlace /\ ReadClaims /\ WriteOrder /\ Behind /\ SeenEmpty
    BY DEF ValuesInv, OrderInv
  <1>2. /\ UNCHANGED <<write_pos_, read_pos_, workload, begun, before>>
        /\ \A u \in Thread \ {t} : pc'[u] = pc[u] /\ local'[u] = local[u]
        /\ pc[t] # "idle" /\ (pc[t] = "swing" => local[t].node # write_pos_)
        /\ \A n \in Node : Linked(n)' <=> Linked(n)
        /\ \A n \in Node : Linked(n) => /\ block'[n].next = block[n].next
                                        /\ block'[n].read_pos >= block[n].read_pos
    BY DEF Calm
  <1>3. /\ read_pos_ \in Node /\ write_pos_ \in Node
        /\ \A n \in Node : /\ block[n].read_pos \in Nat /\ block'[n].read_pos \in Nat
                           /\ block[n].write_pos \in Nat
    BY DEF HazardInv, QueueType, NodeBlock
  <1>4. \A n, m : Leads(n, m) => Leads(n, m)'
    <2>1. \A k \in Node : Linked(k) /\ block[k].next # NoNode => Linked(k)' /\ block'[k].next = block[k].next
      BY <1>2
    <2> QED BY <2>1, LeadsKept
  <1>5. \A n \in Node : (Linked(n) => Used(n)) /\ (Linked(n)' => Used(n)')
    BY DEF Linked, Used
  <1>6. \A v \in Pushed : v \in Value /\ v # Pushing(t)
    BY <1>2, PushedKept
  <1>7. ASSUME NEW u \in Pushed, NEW n \in Node, NEW i \in Slot, Waits(u, n, i)' PROVE Waits(u, n, i)
    <2>1. u \in Value /\ ~Adds(t, n, i, u)
      BY <1>6 DEF Adds
    <2>2. Linked(n)' /\ Holds(n, i, u)' /\ i >= block'[n].read_pos /\ i \in Nat
      BY <1>7 DEF Waits, Slot
    <2>3. Linked(n) /\ Holds(n, i, u)
      BY <1>2, <1>5, <2>1, <2>2 DEF CalmValues
    <2>4. i >= block[n].read_pos
      BY <1>2, <1>3, <2>2, <2>3
    <2> QED BY <2>3, <2>4 DEF Waits
  <1>8. \A v \in Value : before[v] \subseteq Pushed
    BY <1>1 DEF Behind
  <1>9. ASSUME NEW v \in Value, v \in Popped', v \notin Popped, NEW u \in before[v], NEW n \in Node, NEW i \in Slot
        PROVE  ~Waits(u, n, i)'
    <2>1. SUFFICES ASSUME Waits(u, n, i) PROVE FALSE
      BY <1>7, <1>8
    <2>2. PICK m, j : m = local[t].node /\ j = local[t].pos
      OBVIOUS
    <2>3. t \in Popper /\ pc[t] = "take" /\ Holds(m, j, v) /\ m \in Node /\ j \in Slot /\ Used(m) /\ j < block[m].read_pos
      BY <1>1, <1>9, <2>2, UsedNodes DEF CalmValues, ReadClaims, Using
    <2>4. Leads(n, m) /\ (n = m => i < j) /\ Linked(n)
      BY <1>1, <2>1, <2>3 DEF Behind, Waits
    <2>5. Linked(m)
      BY <2>3, <2>4, LeadsFacts
    <2>6. m = read_pos_
      BY <1>1, <2>2, <2>3, <2>5 DEF ReadClaims, Using, Linked
    <2>7. n = m
      BY <2>3, <2>4, <2>6, LeadsFacts
    <2>8. i >= block[m].read_pos /\ i < j /\ i \in Nat /\ j \in Nat
      BY <2>1, <2>3, <2>4, <2>7 DEF Waits, Slot
    <2> QED BY <1>3, <2>3, <2>8
  <1>10. ASSUME NEW v \in Value, NEW m \in Node, NEW j \in Slot, Used(m)' /\ Holds(m, j, v)'
         PROVE  \/ Used(m) /\ Holds(m, j, v)
                \/ \A u \in before[v], n \in Node, i \in Slot : Waits(u, n, i)' => Leads(n, m)' /\ (n = m => i < j)
    <2>1. SUFFICES ASSUME Adds(t, m, j, v), NEW u \in before[v], NEW n \in Node, NEW i \in Slot, Waits(u, n, i)'
                   PROVE  Leads(n, m)' /\ (n = m => i < j)
      BY <1>10 DEF CalmValues
    <2>2. Waits(u, n, i)
      BY <1>7, <1>8, <2>1
    <2>3. pc[t] = "set" /\ t \in Pusher /\ m = local[t].node /\ j = local[t].pos /\ v = Pushing(t) /\ m \in alive
      BY <2>1 DEF Adds, Using
    <2>4. Leads(n, m) /\ (n = m => i < j)
      BY <1>1, <2>2, <2>3 DEF Behind, Using
    <2> QED BY <1>4, <2>4
  <1>11. ASSUME NEW n \in Node, NEW i \in Slot, NEW v \in Pushed, Waits(v, n, i) PROVE Leads(n, write_pos_) /\ i < block[n].write_pos
    <2>1. v \in Value /\ ~(v = Pushing(v[1]) /\ pc[v[1]] = "swing")
      BY PushedSettled
    <2>2. Linked(n) /\ Used(n) /\ Holds(n, i, v)
      BY <1>5, <1>11 DEF Waits
    <2> QED BY <1>1, <2>1, <2>2 DEF WriteOrder, OnePlace
  <1>12. ASSUME t \in Pusher, pc'[t] \in Using, NEW u \in before[Pushing(t)], NEW n \in Node, NEW i \in Slot,
                NEW m \in Node, local'[t].node = m, Waits(u, n, i)'
         PROVE  Leads(n, m)' /\ (pc'[t] = "set" /\ n = m => i < local'[t].pos)
    <2>1. Pushing(t) \in Value
      BY <1>1, <1>2, <1>12, PushedValue
    <2>2. u \in Pushed /\ Waits(u, n, i)
      BY <1>7, <1>8, <1>12, <2>1
    <2>3. Leads(n, write_pos_) /\ i < block[n].write_pos
      BY <1>11, <2>2
    <2>4. Leads(n, m)
      <3>1. CASE m = write_pos_
        BY <2>3, <3>1
      <3>2. CASE pc[t] \in Using /\ m = local[t].node
        BY <1>1, <1>12, <2>2, <3>2 DEF Behind
      <3> QED BY <1>12, <3>1, <3>2 DEF CalmMoves
    <2>5. Leads(n, m)'
      BY <1>4, <2>4
    <2> QED BY <1>12, <2>3, <2>5 DEF CalmMoves
  <1>13. Behind'
    BY <1>1, <1>2, <1>4, <1>7, <1>9, <1>10, <1>12, BehindKept
  <1>14. ASSUME t \in Popper, NEW u \in before[<<t, 0>>], NEW m \in Node, NEW i \in Slot, local'[t].node = m, Waits(u, m, i)'
         PROVE  pc'[t] # "last" /\ (pc'[t] = "compare" => i < local'[t].pos)
    <2>1. u \in Pushed /\ Waits(u, m, i)
      <3>1. before[<<t, 0>>] \subseteq Pushed
        BY <1>1 DEF Behind
      <3> QED BY <1>7, <1>14, <3>1
    <2>2. i < block[m].write_pos /\ i >= block[m].read_pos /\ i \in Nat
      BY <1>11, <2>1 DEF Waits, Slot
    <2>3. pc'[t] = "compare" => i < local'[t].pos
      BY <1>14, <2>2 DEF CalmMoves
    <2>4. ASSUME pc'[t] = "last" PROVE FALSE
      <3>1. local[t].node = m /\ pc[t] = "compare" /\ local[t].pos <= block[m].read_pos
        BY <1>14, <2>4 DEF CalmMoves
      <3>2. i < local[t].pos /\ local[t].pos \in Nat
        BY <1>1, <1>14, <2>1, <3>1 DEF SeenEmpty, HazardInv, QueueType, Variables
      <3> QED BY <1>3, <2>2, <3>1, <3>2
    <2> QED BY <2>3, <2>4
  <1>15. SeenEmpty'
    BY <1>1, <1>2, <1>7, <1>14, SeenEmptyKept
  <1>16. WriteOrder'
    <2>1. \A n \in Node : Linked(n)' => Leads(read_pos_, n)'
      BY <1>1, <1>2, <1>4 DEF WriteOrder
    <2>2. (\A n \in Node : Linked(n) => Leads(read_pos_, n))'
      BY <2>1
    <2>3. ASSUME NEW n \in Node, NEW i \in Slot, NEW v \in Value, Linked(n)' /\ Holds(n, i, v)'
          PROVE  (Linked(n) /\ Holds(n, i, v)) \/ Leads(n, write_pos_)'
      <3>1. CASE Holds(n, i, v)
        BY <1>2, <2>3, <3>1
      <3>2. CASE ~Holds(n, i, v)
        <4>1. pc[t] = "set" /\ t \in Pusher /\ n = local[t].node /\ Linked(n)
          BY <1>2, <1>5, <2>3, <3>2 DEF CalmValues, Adds
        <4>2. Leads(n, write_pos_)
          BY <1>1, <4>1 DEF WriteOrder, Using
        <4>3. Leads(n, write_pos_)'
          BY <1>2, <1>4, <4>2
        <4> QED BY <4>3
      <3> QED BY <3>1, <3>2
    <2>4. ASSUME t \in Pusher, pc'[t] \in Using, NEW m \in Node, local'[t].node = m, Linked(m)' PROVE Leads(m, write_pos_)'
      <3>1. CASE m = write_pos_
        <4>1. Leads(m, write_pos_)
          BY <3>1 DEF Leads
        <4>2. Leads(m, write_pos_)'
          BY <1>2, <1>4, <4>1
        <4> QED BY <4>2
      <3>2. CASE pc[t] \in Using /\ m = local[t].node
        <4>1. Leads(m, write_pos_)
          BY <1>1, <1>2, <2>4, <3>2 DEF WriteOrder
        <4>2. Leads(m, write_pos_)'
          BY <1>2, <1>4, <4>1
        <4> QED BY <4>2
      <3> QED BY <2>4, <3>1, <3>2 DEF CalmMoves
    <2> QED BY <1>1, <1>2, <1>4, <2>2, <2>3, <2>4, WriteOrderKept
  <1> QED BY <1>13, <1>15, <1>16 DEF OrderInv

(* Steps that change nothing in the blocks.                                    *)
LEMMA PassiveOrder ==
  ASSUME MpmcQueueAssumption, HazardInv, HazardInv', ValuesInv, OrderInv, NEW t \in Thread, Passive(t), CalmMoves(t),
         UNCHANGED <<write_pos_, before>>, pc[t] = "swing" => local[t].node # write_pos_,
         \A u \in Thread : pc[u] \in Using => local[u].node \in alive
  PROVE  OrderInv'
PROOF
  <1>1. /\ UNCHANGED <<write_pos_, read_pos_, workload, begun, before, block, alive, to_delete_, got>>
        /\ \A u \in Thread \ {t} : pc'[u] = pc[u] /\ local'[u] = local[u]
        /\ pc[t] \notin {"link", "retire", "idle"} /\ pc'[t] \notin {"link", "retire"}
    BY DEF Passive
  <1>2. \A n : Retired(n)' <=> Retired(n)
    BY <1>1, RetiredStay
  <1>3. \A n : Unlinked(n)' <=> Unlinked(n)
    <2>1. SUFFICES ASSUME NEW n PROVE Unlinked(n)' <=> Unlinked(n)
      OBVIOUS
    <2>2. \A u \in Thread : (pc'[u] = "link" /\ local'[u].next = n) <=> (pc[u] = "link" /\ local[u].next = n)
      BY <1>1
    <2> QED BY <2>2 DEF Unlinked
  <1>4. \A n : (Linked(n)' <=> Linked(n)) /\ (Used(n)' <=> Used(n))
    BY <1>1, <1>2, <1>3 DEF Linked, Used
  <1>5. \A n \in Node : block[n].read_pos >= block[n].read_pos
    <2>1. block \in [Node -> NodeBlock]
      BY DEF HazardInv, QueueType
    <2>2. \A n \in Node : block[n].read_pos \in Nat
      BY <2>1 DEF NodeBlock
    <2> QED BY <2>2
  <1>6. Calm(t)
    BY <1>1, <1>4, <1>5 DEF Calm
  <1>7. CalmValues(t)
    BY <1>1, <1>4 DEF CalmValues, Holds, Popped
  <1> QED BY <1>6, <1>7, CalmOrder

LEMMA PassiveStepsOrder ==
  ASSUME HazardInv, NEW t \in Thread,
         \/ (ProtectLoad(t) /\ pc[t] # "idle") \/ ProtectStore(t) \/ ProtectCheck(t)
         \/ Return(t) \/ ReadWritePos(t) \/ ComparePos(t) \/ IsLast(t) \/ Follow(t)
         \/ SwingWrite(t) /\ write_pos_ # local[t].node
         \/ SetValue(t) /\ block[local[t].node].data[local[t].pos] # Empty
         \/ LoadNext(t) /\ block[local[t].node].next # NoNode
         \/ Scan(t) /\ UNCHANGED <<alive, block, to_delete_>>
         \/ SwingRead(t) /\ read_pos_ # local[t].node
  PROVE  CalmMoves(t) /\ UNCHANGED <<write_pos_, before>> /\ (pc[t] = "swing" => local[t].node # write_pos_)
PROOF
  <1>1. pc \in [Thread -> PusherPlace \union PopperPlace] /\ local \in [Thread -> Variables]
    BY DEF HazardInv, QueueType
  <1>2. /\ pc[t] \in {"set", "load_next", "link", "help", "swing"} => t \in Pusher /\ t \notin Popper
        /\ pc[t] \in {"compare", "last", "claim", "take", "follow", "advance", "retire", "scan"} =>
             t \in Popper /\ t \notin Pusher
        /\ ~(t \in Pusher /\ t \in Popper)
    BY Places
  <1>4. CASE ProtectLoad(t) /\ pc[t] # "idle"
    BY <1>1, <1>4 DEF ProtectLoad, CalmMoves, Goto, queue, hazard, Using
  <1>5. CASE ProtectStore(t)
    BY <1>1, <1>5 DEF ProtectStore, CalmMoves, Goto, queue, ghosts, Using
  <1>6. CASE ProtectCheck(t)
    BY <1>1, <1>6 DEF ProtectCheck, CalmMoves, Goto, queue, hazard, ghosts, Using, Source, Popper
  <1>7. CASE Return(t)
    BY <1>1, <1>7 DEF Return, CalmMoves, Goto, queue, ghosts, Using
  <1>8. CASE ReadWritePos(t)
    BY <1>1, <1>2, <1>8 DEF ReadWritePos, CalmMoves, Goto, queue, hazard, ghosts, Using, Variables
  <1>9. CASE ComparePos(t)
    BY <1>1, <1>2, <1>9 DEF ComparePos, CalmMoves, Goto, queue, hazard, ghosts, Using, Variables
  <1>10. CASE IsLast(t)
    BY <1>1, <1>2, <1>10 DEF IsLast, CalmMoves, Goto, EndRound, queue, hazard, ghosts, Using
  <1>11. CASE Follow(t)
    BY <1>1, <1>2, <1>11 DEF Follow, CalmMoves, Goto, EndRound, queue, hazard, ghosts, Using, Variables
  <1>12. CASE SwingWrite(t) /\ write_pos_ # local[t].node
    BY <1>1, <1>2, <1>12 DEF SwingWrite, CalmMoves, Goto, EndRound, hazard, ghosts, Using
  <1>13. CASE SetValue(t) /\ block[local[t].node].data[local[t].pos] # Empty
    BY <1>1, <1>2, <1>13 DEF SetValue, CalmMoves, Goto, EndRound, hazard, ghosts, Using
  <1>14. CASE LoadNext(t) /\ block[local[t].node].next # NoNode
    BY <1>1, <1>2, <1>14 DEF LoadNext, CalmMoves, Goto, hazard, ghosts, Using, Variables
  <1>15. CASE Scan(t) /\ UNCHANGED <<alive, block, to_delete_>>
    BY <1>1, <1>2, <1>15 DEF Scan, CalmMoves, ghosts, Using
  <1>16. CASE SwingRead(t) /\ read_pos_ # local[t].node
    BY <1>1, <1>2, <1>16 DEF SwingRead, CalmMoves, Goto, EndRound, hazard, ghosts, Using
  <1> QED BY <1>4, <1>5, <1>6, <1>7, <1>8, <1>9, <1>10, <1>11, <1>12, <1>13, <1>14, <1>15, <1>16

(* Steps that change blocks, but not the list.                                 *)
LEMMA RetireOrder ==
  ASSUME MpmcQueueAssumption, HazardInv, HazardInv', ValuesInv, OrderInv, NEW t \in Thread, Retire(t),
         \A u \in Thread : pc[u] \in Using => local[u].node \in alive
  PROVE  OrderInv'
PROOF
  <1>1. pc \in [Thread -> PusherPlace \union PopperPlace] /\ local \in [Thread -> Variables]
        /\ \A n \in Node : block[n].read_pos >= block[n].read_pos
    <2>1. block \in [Node -> NodeBlock]
      BY DEF HazardInv, QueueType
    <2>2. \A n \in Node : block[n].read_pos \in Nat
      BY <2>1 DEF NodeBlock
    <2> QED BY <2>2 DEF HazardInv, QueueType
  <1>2. /\ UNCHANGED <<write_pos_, read_pos_, workload, begun, before, block, alive, got>>
        /\ pc[t] = "retire" /\ pc'[t] = "scan"
        /\ \A u \in Thread \ {t} : pc'[u] = pc[u] /\ local'[u] = local[u]
    BY <1>1 DEF Retire, queue, ghosts, Goto
  <1>3. \A n : Retired(n)' <=> Retired(n)
    BY RetireEffect
  <1>4. \A n : Unlinked(n)' <=> Unlinked(n)
    <2>1. SUFFICES ASSUME NEW n PROVE Unlinked(n)' <=> Unlinked(n)
      OBVIOUS
    <2>2. \A u \in Thread : (pc'[u] = "link" /\ local'[u].next = n) <=> (pc[u] = "link" /\ local[u].next = n)
      BY <1>2
    <2> QED BY <2>2 DEF Unlinked
  <1>5. \A n : (Linked(n)' <=> Linked(n)) /\ (Used(n)' <=> Used(n))
    BY <1>2, <1>3, <1>4 DEF Linked, Used
  <1>6. Calm(t)
    BY <1>1, <1>2, <1>5 DEF Calm
  <1>7. CalmValues(t) /\ CalmMoves(t)
    BY <1>2, <1>5 DEF CalmValues, CalmMoves, Holds, Popped, Using
  <1> QED BY <1>6, <1>7, CalmOrder

LEMMA DeleteOrder ==
  ASSUME MpmcQueueAssumption, HazardInv, HazardInv', ValuesInv, OrderInv, NEW t \in Thread, NEW n \in Node, Deletes(t, n),
         \A u \in Thread : pc[u] \in Using => local[u].node \in alive
  PROVE  OrderInv'
PROOF
  <1>1. /\ pc \in [Thread -> PusherPlace \union PopperPlace] /\ local \in [Thread -> Variables]
        /\ block \in [Node -> NodeBlock]
    BY DEF HazardInv, QueueType
  <1>2. /\ pc[t] = "scan" /\ pc'[t] = "scan" /\ Retired(n) /\ alive' = alive \ {n}
        /\ UNCHANGED <<write_pos_, read_pos_, workload, begun, before, pc, got>>
        /\ \A u \in Thread \ {t} : pc'[u] = pc[u] /\ local'[u] = local[u]
        /\ \A m : Retired(m)' <=> Retired(m) /\ m # n
        /\ block'[n] = FreshBlock /\ \A m \in Node \ {n} : block'[m] = block[m]
    BY <1>1 DEF Deletes, ghosts
  <1>3. \A m : Unlinked(m)' <=> Unlinked(m)
    <2>1. SUFFICES ASSUME NEW m PROVE Unlinked(m)' <=> Unlinked(m)
      OBVIOUS
    <2>2. \A u \in Thread : (pc'[u] = "link" /\ local'[u].next = m) <=> (pc[u] = "link" /\ local[u].next = m)
      BY <1>2
    <2> QED BY <2>2 DEF Unlinked
  <1>4. \A m : Linked(m)' <=> Linked(m)
    BY <1>2, <1>3 DEF Linked
  <1>5. \A m : Used(m)' => Used(m) /\ m # n
    BY <1>2, <1>3 DEF Used
  <1>6. \A m \in Node : block[m].read_pos >= block[m].read_pos
    BY <1>1 DEF NodeBlock
  <1>7. Calm(t)
    <2>1. \A m \in Node : Linked(m) => m # n
      BY <1>2 DEF Linked
    <2> QED BY <1>2, <1>4, <1>6, <2>1 DEF Calm
  <1>8. CalmValues(t)
    BY <1>2, <1>5 DEF CalmValues, Holds, Popped
  <1>9. CalmMoves(t)
    BY <1>2 DEF CalmMoves, Using
  <1> QED BY <1>7, <1>8, <1>9, CalmOrder

LEMMA CreateOrder ==
  ASSUME MpmcQueueAssumption, HazardInv, HazardInv', ValuesInv, OrderInv, NEW t \in Thread, LoadNext(t),
         block[local[t].node].next = NoNode,
         \A u \in Thread : pc[u] \in Using => local[u].node \in alive
  PROVE  OrderInv'
PROOF
  <1>1. /\ pc \in [Thread -> PusherPlace \union PopperPlace] /\ local \in [Thread -> Variables]
        /\ block \in [Node -> NodeBlock]
    BY DEF HazardInv, QueueType
  <1>2. PICK b : b = [FreshBlock EXCEPT !.write_pos = 1, !.data[0] = Pushing(t)]
    OBVIOUS
  <1>3. PICK m \in Node \ alive : /\ alive' = alive \union {m} /\ block' = [block EXCEPT ![m] = b]
                                  /\ local' = [local EXCEPT ![t].next = m] /\ pc' = [pc EXCEPT ![t] = "link"]
    BY <1>2 DEF LoadNext, Goto
  <1>4. /\ UNCHANGED <<write_pos_, read_pos_, workload, begun, before, got, to_delete_>>
        /\ \A u \in Thread \ {t} : pc'[u] = pc[u] /\ local'[u] = local[u]
        /\ \A k \in Node \ {m} : block'[k] = block[k]
        /\ local'[t].next = m /\ local'[t].node = local[t].node /\ pc[t] = "load_next" /\ pc'[t] = "link"
    BY <1>1, <1>3 DEF LoadNext, hazard, ghosts, Variables
  <1>5. Unlinked(m)'
    BY <1>4 DEF Unlinked
  <1>6. ASSUME NEW k \in Node \ {m} PROVE Unlinked(k)' <=> Unlinked(k)
    <2>1. \A u \in Thread : (pc'[u] = "link" /\ local'[u].next = k) <=> (pc[u] = "link" /\ local[u].next = k)
      BY <1>4, <1>6
    <2> QED BY <2>1 DEF Unlinked
  <1>7. \A k : Retired(k)' <=> Retired(k)
    BY <1>4, RetiredStay
  <1>8. \A k \in Node : (Linked(k)' <=> Linked(k)) /\ (Used(k)' <=> Used(k))
    BY <1>3, <1>5, <1>6, <1>7 DEF Linked, Used
  <1>9. \A k \in Node : Used(k) \/ Linked(k) => block'[k] = block[k]
    BY <1>3, <1>4 DEF Used, Linked
  <1>10. \A k \in Node : block[k].read_pos >= block[k].read_pos
    BY <1>1 DEF NodeBlock
  <1>11. Calm(t)
    BY <1>4, <1>8, <1>9, <1>10 DEF Calm
  <1>12. CalmValues(t)
    BY <1>4, <1>8, <1>9 DEF CalmValues, Holds, Popped
  <1>13. CalmMoves(t)
    BY <1>4 DEF CalmMoves, Using
  <1> QED BY <1>11, <1>12, <1>13, CalmOrder

LEMMA LinkLostOrder ==
  ASSUME MpmcQueueAssumption, HazardInv, HazardInv', ValuesInv, OrderInv, NEW t \in Thread, Link(t),
         block[local[t].node].next # NoNode,
         \A u \in Thread : pc[u] \in Using => local[u].node \in alive
  PROVE  OrderInv'
PROOF
  <1>1. /\ pc \in [Thread -> PusherPlace \union PopperPlace] /\ local \in [Thread -> Variables]
        /\ block \in [Node -> NodeBlock]
    BY DEF HazardInv, QueueType
  <1>2. PICK m : m = local[t].next
    OBVIOUS
  <1>3. pc[t] = "link" /\ m \in Node /\ m \in alive /\ Unlinked(m)
    BY <1>2 DEF Link, HazardInv, New, Locals, Unlinked
  <1>4. /\ UNCHANGED <<write_pos_, read_pos_, workload, begun, before, got, to_delete_>>
        /\ \A u \in Thread \ {t} : pc'[u] = pc[u] /\ local'[u] = local[u]
        /\ \A k \in Node \ {m} : block'[k] = block[k]
        /\ alive' = alive \ {m} /\ pc'[t] = "load"
    BY <1>1, <1>2, <1>3 DEF Link, EndRound, Goto, hazard, ghosts
  <1>5. ASSUME NEW k \in Node \ {m} PROVE Unlinked(k)' <=> Unlinked(k)
    <2>1. \A u \in Thread : (pc'[u] = "link" /\ local'[u].next = k) <=> (pc[u] = "link" /\ local[u].next = k)
      BY <1>2, <1>4, <1>5
    <2> QED BY <2>1 DEF Unlinked
  <1>6. \A k : Retired(k)' <=> Retired(k)
    BY <1>3, <1>4, RetiredStay
  <1>7. \A k \in Node : (Linked(k)' <=> Linked(k)) /\ (Used(k)' <=> Used(k))
    BY <1>3, <1>4, <1>5, <1>6 DEF Linked, Used
  <1>8. \A k \in Node : Used(k) \/ Linked(k) => block'[k] = block[k]
    BY <1>3, <1>4 DEF Used, Linked
  <1>9. \A k \in Node : block[k].read_pos >= block[k].read_pos
    BY <1>1 DEF NodeBlock
  <1>10. Calm(t)
    BY <1>3, <1>4, <1>7, <1>8, <1>9 DEF Calm
  <1>11. CalmValues(t)
    BY <1>4, <1>7, <1>8 DEF CalmValues, Holds, Popped
  <1>12. CalmMoves(t)
    BY <1>4 DEF CalmMoves, Using
  <1> QED BY <1>10, <1>11, <1>12, CalmOrder

(* Steps that change one used node, and nothing that is linked or retired.     *)
LEMMA SameNodes ==
  ASSUME HazardInv, NEW t \in Thread, UNCHANGED <<alive, to_delete_>>,
         \A u \in Thread \ {t} : pc'[u] = pc[u] /\ local'[u] = local[u],
         pc[t] \notin {"link", "retire"}, pc'[t] \notin {"link", "retire"}
  PROVE  \A n : (Linked(n)' <=> Linked(n)) /\ (Used(n)' <=> Used(n))
PROOF
  <1>1. \A n : Retired(n)' <=> Retired(n)
    BY RetiredStay
  <1>2. \A n : Unlinked(n)' <=> Unlinked(n)
    <2>1. SUFFICES ASSUME NEW n PROVE Unlinked(n)' <=> Unlinked(n)
      OBVIOUS
    <2>2. \A u \in Thread : (pc'[u] = "link" /\ local'[u].next = n) <=> (pc[u] = "link" /\ local[u].next = n)
      OBVIOUS
    <2> QED BY <2>2 DEF Unlinked
  <1> QED BY <1>1, <1>2 DEF Linked, Used

LEMMA ClaimWriteOrder ==
  ASSUME MpmcQueueAssumption, HazardInv, HazardInv', ValuesInv, OrderInv, NEW t \in Thread, ClaimWrite(t),
         \A u \in Thread : pc[u] \in Using => local[u].node \in alive
  PROVE  OrderInv'
PROOF
  <1>1. /\ pc \in [Thread -> PusherPlace \union PopperPlace] /\ local \in [Thread -> Variables]
        /\ block \in [Node -> NodeBlock]
    BY DEF HazardInv, QueueType
  <1>2. PICK n, p : n = local[t].node /\ p = block[n].write_pos
    OBVIOUS
  <1>3. t \in Pusher /\ t \notin Popper /\ pc[t] = "use" /\ n \in Node
    BY <1>2, UsedNodes DEF ClaimWrite, Popper, Using
  <1>4. /\ UNCHANGED <<write_pos_, read_pos_, workload, begun, before, got, alive, to_delete_>>
        /\ \A u \in Thread \ {t} : pc'[u] = pc[u] /\ local'[u] = local[u]
        /\ block' = [block EXCEPT ![n].write_pos = p + 1]
        /\ local'[t].node = n /\ local'[t].pos = p
        /\ pc'[t] \in {"load_next", "set"}
    BY <1>1, <1>2 DEF ClaimWrite, Goto, hazard, ghosts, Variables
  <1>5. \A m \in Node : /\ block'[m].data = block[m].data /\ block'[m].next = block[m].next
                        /\ block'[m].read_pos = block[m].read_pos
    BY <1>1, <1>3, <1>4 DEF NodeBlock
  <1>6. \A m \in Node : block'[m].read_pos >= block[m].read_pos
    BY <1>1, <1>5 DEF NodeBlock
  <1>7. \A m : (Linked(m)' <=> Linked(m)) /\ (Used(m)' <=> Used(m))
    BY <1>3, <1>4, SameNodes
  <1>8. Calm(t)
    BY <1>3, <1>4, <1>5, <1>6, <1>7 DEF Calm
  <1>9. CalmValues(t)
    BY <1>4, <1>5, <1>7 DEF CalmValues, Holds, Popped
  <1>10. CalmMoves(t)
    BY <1>2, <1>3, <1>4 DEF CalmMoves, Using
  <1> QED BY <1>8, <1>9, <1>10, CalmOrder

LEMMA SetValueOrder ==
  ASSUME MpmcQueueAssumption, HazardInv, HazardInv', ValuesInv, OrderInv, NEW t \in Thread, SetValue(t),
         block[local[t].node].data[local[t].pos] = Empty,
         \A u \in Thread : pc[u] \in Using => local[u].node \in alive
  PROVE  OrderInv'
PROOF
  <1>1. /\ pc \in [Thread -> PusherPlace \union PopperPlace] /\ local \in [Thread -> Variables]
        /\ block \in [Node -> NodeBlock]
    BY DEF HazardInv, QueueType
  <1>2. PICK n, p, x : n = local[t].node /\ p = local[t].pos /\ x = Pushing(t)
    OBVIOUS
  <1>3. t \in Pusher /\ t \notin Popper /\ pc[t] = "set" /\ n \in Node
    BY <1>2, UsedNodes, Places DEF SetValue, Using
  <1>4. /\ UNCHANGED <<write_pos_, read_pos_, workload, begun, before, got, alive, to_delete_>>
        /\ \A u \in Thread \ {t} : pc'[u] = pc[u] /\ local'[u] = local[u]
        /\ block' = [block EXCEPT ![n].data[p] = x] /\ pc'[t] = "return"
    BY <1>1, <1>2 DEF SetValue, EndRound, Goto, hazard, ghosts
  <1>5. /\ \A m \in Node \ {n} : block'[m] = block[m]
        /\ block'[n].next = block[n].next /\ block'[n].read_pos = block[n].read_pos
        /\ \A i \in Slot : block'[n].data[i] = IF i = p THEN x ELSE block[n].data[i]
    <2>1. block[n].data \in [Slot -> OneValue]
      BY <1>1, <1>3 DEF NodeBlock
    <2>2. block'[n] = [block[n] EXCEPT !.data[p] = x] /\ \A m \in Node \ {n} : block'[m] = block[m]
      BY <1>1, <1>3, <1>4
    <2>3. block'[n].data = [block[n].data EXCEPT ![p] = x]
      BY <1>1, <1>3, <2>2 DEF NodeBlock
    <2>4. block'[n].next = block[n].next /\ block'[n].read_pos = block[n].read_pos
      BY <1>1, <1>3, <2>2 DEF NodeBlock
    <2> QED BY <2>1, <2>2, <2>3, <2>4
  <1>6. \A m \in Node : block'[m].next = block[m].next /\ block'[m].read_pos >= block[m].read_pos
    <2>1. \A m \in Node : block[m].read_pos >= block[m].read_pos
      BY <1>1 DEF NodeBlock
    <2> QED BY <1>5, <2>1
  <1>7. \A m : (Linked(m)' <=> Linked(m)) /\ (Used(m)' <=> Used(m))
    BY <1>3, <1>4, SameNodes
  <1>8. Calm(t)
    BY <1>3, <1>4, <1>6, <1>7 DEF Calm
  <1>9. CalmValues(t)
    <2>1. ASSUME NEW m \in Node, NEW i \in Slot, NEW v \in Value, Used(m)', Holds(m, i, v)'
          PROVE  (Used(m) /\ Holds(m, i, v)) \/ Adds(t, m, i, v)
      <3>1. CASE m = n /\ i = p
        BY <1>2, <1>3, <1>4, <1>5, <2>1, <3>1 DEF Holds, Adds
      <3>2. CASE ~(m = n /\ i = p)
        BY <1>5, <1>7, <2>1, <3>2 DEF Holds
      <3> QED BY <3>1, <3>2
    <2> QED BY <1>4, <2>1 DEF CalmValues, Popped
  <1>10. CalmMoves(t)
    BY <1>4 DEF CalmMoves, Using
  <1> QED BY <1>8, <1>9, <1>10, CalmOrder

LEMMA ClaimReadOrder ==
  ASSUME MpmcQueueAssumption, HazardInv, HazardInv', ValuesInv, OrderInv, NEW t \in Thread, ClaimRead(t),
         \A u \in Thread : pc[u] \in Using => local[u].node \in alive
  PROVE  OrderInv'
PROOF
  <1>1. /\ pc \in [Thread -> PusherPlace \union PopperPlace] /\ local \in [Thread -> Variables]
        /\ block \in [Node -> NodeBlock]
    BY DEF HazardInv, QueueType
  <1>2. PICK n, p : n = local[t].node /\ p = block[n].read_pos
    OBVIOUS
  <1>3. t \in Popper /\ t \notin Pusher /\ pc[t] = "claim" /\ n \in Node
    BY <1>2, UsedNodes, Places DEF ClaimRead, Using
  <1>4. /\ UNCHANGED <<write_pos_, read_pos_, workload, begun, before, got, alive, to_delete_>>
        /\ \A u \in Thread \ {t} : pc'[u] = pc[u] /\ local'[u] = local[u]
        /\ block' = [block EXCEPT ![n].read_pos = p + 1]
        /\ pc'[t] \in {"follow", "take"}
    BY <1>1, <1>2 DEF ClaimRead, Goto, hazard, ghosts
  <1>5. \A m \in Node : block'[m].data = block[m].data /\ block'[m].next = block[m].next
    BY <1>1, <1>3, <1>4 DEF NodeBlock
  <1>6. \A m \in Node : block'[m].read_pos >= block[m].read_pos
    BY <1>1, <1>2, <1>3, <1>4 DEF NodeBlock
  <1>7. \A m : (Linked(m)' <=> Linked(m)) /\ (Used(m)' <=> Used(m))
    BY <1>3, <1>4, SameNodes
  <1>8. Calm(t)
    BY <1>3, <1>4, <1>5, <1>6, <1>7 DEF Calm
  <1>9. CalmValues(t)
    BY <1>4, <1>5, <1>7 DEF CalmValues, Holds, Popped
  <1>10. CalmMoves(t)
    BY <1>3, <1>4 DEF CalmMoves, Using
  <1> QED BY <1>8, <1>9, <1>10, CalmOrder

LEMMA GetValueOrder ==
  ASSUME MpmcQueueAssumption, HazardInv, HazardInv', ValuesInv, OrderInv, NEW t \in Thread, GetValue(t),
         \A u \in Thread : pc[u] \in Using => local[u].node \in alive
  PROVE  OrderInv'
PROOF
  <1>1. /\ pc \in [Thread -> PusherPlace \union PopperPlace] /\ local \in [Thread -> Variables]
        /\ block \in [Node -> NodeBlock]
    BY DEF HazardInv, QueueType
  <1>2. PICK n, p, x : n = local[t].node /\ p = local[t].pos /\ x = block[n].data[p]
    OBVIOUS
  <1>3. t \in Popper /\ t \notin Pusher /\ pc[t] = "take" /\ n \in Node /\ n \in alive
    BY <1>2, UsedNodes, Places DEF GetValue, Using
  <1>4. p \in Slot
    BY <1>2, <1>3 DEF ReadClaims, ValuesInv
  <1>5. /\ UNCHANGED <<write_pos_, read_pos_, alive, to_delete_, workload, begun, before>>
        /\ \A u \in Thread \ {t} : pc'[u] = pc[u] /\ local'[u] = local[u]
        /\ block' = [block EXCEPT ![n].data[p] = Taken] /\ pc'[t] \in {"load", "return"}
        /\ IF x \in {Empty, Taken} THEN got' = got ELSE got' = [got EXCEPT ![t] = Append(got[t], x)]
    BY <1>1, <1>2 DEF GetValue, EndRound, Goto, hazard, ghosts
  <1>6. /\ \A m \in Node \ {n} : block'[m] = block[m]
        /\ block'[n].next = block[n].next /\ block'[n].read_pos = block[n].read_pos
        /\ \A i \in Slot : block'[n].data[i] = IF i = p THEN Taken ELSE block[n].data[i]
    <2>1. block[n].data \in [Slot -> OneValue]
      BY <1>1, <1>3 DEF NodeBlock
    <2>2. block'[n] = [block[n] EXCEPT !.data[p] = Taken] /\ \A m \in Node \ {n} : block'[m] = block[m]
      BY <1>1, <1>3, <1>5
    <2>3. block'[n].data = [block[n].data EXCEPT ![p] = Taken]
      BY <1>1, <1>3, <2>2 DEF NodeBlock
    <2>4. block'[n].next = block[n].next /\ block'[n].read_pos = block[n].read_pos
      BY <1>1, <1>3, <2>2 DEF NodeBlock
    <2> QED BY <2>1, <2>2, <2>3, <2>4
  <1>7. \A m \in Node : block'[m].next = block[m].next /\ block'[m].read_pos >= block[m].read_pos
    <2>1. \A m \in Node : block[m].read_pos >= block[m].read_pos
      BY <1>1 DEF NodeBlock
    <2> QED BY <1>6, <2>1
  <1>8. \A m : (Linked(m)' <=> Linked(m)) /\ (Used(m)' <=> Used(m))
    <2>1. pc[t] \notin {"link", "retire"} /\ pc'[t] \notin {"link", "retire"}
      BY <1>3, <1>5
    <2> QED BY <1>5, <2>1, SameNodes
  <1>9. Calm(t)
    BY <1>3, <1>5, <1>7, <1>8 DEF Calm
  <1>10. CalmValues(t)
    <2>1. ASSUME NEW m \in Node, NEW i \in Slot, NEW v \in Value, Used(m)', Holds(m, i, v)'
          PROVE  Used(m) /\ Holds(m, i, v)
      <3>1. v # Taken
        BY Values
      <3>2. ~(m = n /\ i = p)
        BY <1>6, <2>1, <3>1 DEF Holds
      <3> QED BY <1>6, <1>8, <2>1, <3>2 DEF Holds
    <2>2. ASSUME NEW v \in Value, v \in Popped', v \notin Popped PROVE Holds(n, p, v)
      <3>1. x \notin {Empty, Taken}
        BY <1>5, <2>2 DEF Popped
      <3>2. got \in [Thread -> Seq(Value)] /\ x \in Value
        BY <1>2, <1>3, <1>4, <3>1 DEF ValuesInv, OnePlace
      <3>3. got'[t] = Append(got[t], x) /\ \A u \in Thread \ {t} : got'[u] = got[u]
        BY <1>5, <3>1, <3>2
      <3>4. ToSet(got'[t]) = ToSet(got[t]) \union {x}
        BY <3>2, <3>3, AppendedSet
      <3>5. PICK u \in Thread : v \in ToSet(got'[u])
        BY <2>2 DEF Popped
      <3>6. v \notin ToSet(got[u])
        BY <2>2 DEF Popped
      <3>7. v = x
        BY <3>3, <3>4, <3>5, <3>6
      <3> QED BY <1>2, <1>4, <3>7 DEF Holds
    <2> QED BY <1>2, <1>3, <2>1, <2>2 DEF CalmValues
  <1>11. CalmMoves(t)
    BY <1>3, <1>5 DEF CalmMoves
  <1> QED BY <1>9, <1>10, <1>11, CalmOrder

(* write_pos_ goes to the node that was linked last.                           *)
LEMMA SwingWriteOrder ==
  ASSUME MpmcQueueAssumption, HazardInv, HazardInv', ValuesInv, OrderInv, NEW t \in Thread, SwingWrite(t),
         write_pos_ = local[t].node,
         \A u \in Thread : pc[u] \in Using => local[u].node \in alive
  PROVE  OrderInv'
PROOF
  <1>1. /\ pc \in [Thread -> PusherPlace \union PopperPlace] /\ local \in [Thread -> Variables]
        /\ block \in [Node -> NodeBlock]
    BY DEF HazardInv, QueueType
  <1>2. PICK n, m : n = local[t].node /\ m = local[t].next
    OBVIOUS
  <1>3. t \in Pusher /\ t \notin Popper /\ pc[t] \in {"swing", "help"} /\ n \in Node /\ n \in alive /\ m \in Node
    BY <1>2, UsedNodes, Places DEF SwingWrite, HazardInv, Locals, Using
  <1>4. block[n].next = m /\ write_pos_ = n
    BY <1>2, <1>3 DEF HazardInv, Locals
  <1>5. /\ UNCHANGED <<read_pos_, block, alive, to_delete_, workload, begun, got, before>>
        /\ \A u \in Thread \ {t} : pc'[u] = pc[u] /\ local'[u] = local[u]
        /\ write_pos_' = m /\ pc'[t] \in {"return", "load"}
    BY <1>1, <1>2, <1>3 DEF SwingWrite, EndRound, Goto, hazard, ghosts
  <1>6. \A k : (Linked(k)' <=> Linked(k)) /\ (Used(k)' <=> Used(k))
    <2>1. pc[t] \notin {"link", "retire"} /\ pc'[t] \notin {"link", "retire"}
      BY <1>3, <1>5
    <2> QED BY <1>5, <2>1, SameNodes
  <1>7. Begun /\ OnePlace /\ ReadClaims /\ WriteOrder /\ Behind /\ SeenEmpty
    BY DEF ValuesInv, OrderInv
  <1>8. \A k, l : Leads(k, l) => Leads(k, l)'
    <2>1. \A k \in Node : Linked(k) /\ block[k].next # NoNode => Linked(k)' /\ block'[k].next = block[k].next
      BY <1>5, <1>6
    <2> QED BY <2>1, LeadsKept
  <1>9. \A u \in Pushed, k \in Node, i \in Slot : Waits(u, k, i)' => Waits(u, k, i)
    BY <1>5, <1>6 DEF Waits, Holds
  <1>10. pc'[t] \notin Using /\ pc'[t] \notin {"last", "compare", "swing"} /\ pc[t] # "idle"
    BY <1>3, <1>5 DEF Using
  <1>11. Behind'
    <2>1. Popped' = Popped
      BY <1>5 DEF Popped
    <2>2. \A v \in Value, k \in Node, j \in Slot : Used(k)' /\ Holds(k, j, v)' => Used(k) /\ Holds(k, j, v)
      BY <1>5, <1>6 DEF Holds
    <2> QED BY <1>5, <1>7, <1>8, <1>9, <1>10, <2>1, <2>2, BehindKept
  <1>12. SeenEmpty'
    BY <1>3, <1>5, <1>7, <1>9, SeenEmptyKept
  <1>13. \A k \in Node : Linked(k) /\ Leads(k, n) => Leads(k, m)
    <2>1. SUFFICES ASSUME NEW k \in Node, Linked(k), Leads(k, n) PROVE Leads(k, m)
      OBVIOUS
    <2>2. Linked(n)
      BY <1>3, <2>1, LeadsFacts
    <2>3. m # NoNode
      BY <1>3, MpmcQueueAssumption DEF MpmcQueueAssumption
    <2>4. Leads(n, m)
      BY <1>3, <1>4, <2>2, <2>3, LeadsFacts
    <2> QED BY <2>1, <2>4, LeadsFacts
  <1>14. WriteOrder'
    <2>1. ASSUME NEW k \in Node, NEW i \in Slot, NEW v \in Value, Linked(k)', Holds(k, i, v)'
          PROVE  Leads(k, m)'
      <3>1. Linked(k) /\ Holds(k, i, v) /\ v[1] \in Thread
        BY <1>5, <1>6, <2>1, Values DEF Holds
      <3>2. CASE Leads(k, write_pos_)
        BY <1>4, <1>8, <1>13, <3>1, <3>2
      <3>3. CASE pc[v[1]] = "swing" /\ local[v[1]].node = write_pos_ /\ local[v[1]].next = k
        <4>1. block[n].next = k
          BY <1>3, <1>4, <3>1, <3>3 DEF HazardInv, Locals
        <4>2. Leads(k, m)
          BY <1>4, <4>1 DEF Leads
        <4> QED BY <1>8, <4>2
      <3> QED BY <1>7, <3>1, <3>2, <3>3 DEF WriteOrder
    <2>3. Pusher' = Pusher /\ \A w \in Pusher : w \in Thread
      BY <1>5 DEF Pusher
    <2>4. \A k \in Node : Linked(k)' => Leads(read_pos_, k)'
      BY <1>5, <1>6, <1>7, <1>8 DEF WriteOrder
    <2>5. ASSUME NEW w \in Pusher, pc'[w] \in Using, NEW k, k = local'[w].node, Linked(k)' PROVE Leads(k, m)'
      <3>1. w # t /\ w \in Thread
        BY <1>10, <2>3, <2>5
      <3>2. local'[w] = local[w] /\ pc'[w] = pc[w] /\ k \in Node
        BY <1>5, <2>5, <3>1, UsedNodes
      <3>3. Leads(k, n)
        BY <1>4, <1>6, <1>7, <2>5, <3>2 DEF WriteOrder
      <3> QED BY <1>6, <1>8, <1>13, <2>5, <3>2, <3>3
    <2> QED BY <1>5, <2>1, <2>3, <2>4, <2>5 DEF WriteOrder
  <1> QED BY <1>11, <1>12, <1>14 DEF OrderInv

(* The new node comes behind the last one.                                     *)
LEMMA LinkedOrder ==
  ASSUME MpmcQueueAssumption, HazardInv, HazardInv', ValuesInv, OrderInv, NEW t \in Thread, Link(t),
         block[local[t].node].next = NoNode,
         \A u \in Thread : pc[u] \in Using => local[u].node \in alive
  PROVE  OrderInv'
PROOF
  <1>1. /\ pc \in [Thread -> PusherPlace \union PopperPlace] /\ local \in [Thread -> Variables]
        /\ block \in [Node -> NodeBlock]
    BY DEF HazardInv, QueueType
  <1>2. PICK n, m, x : n = local[t].node /\ m = local[t].next /\ x = Pushing(t)
    OBVIOUS
  <1>3. pc[t] = "link" /\ m \in Node /\ m \in alive /\ n \in Node /\ n \in alive /\ n # m /\ Unlinked(m)
    BY <1>2 DEF Link, HazardInv, New, Locals, Using, Unlinked
  <1>4. t \in Pusher /\ t \notin Popper
    BY <1>3, Places
  <1>5. n = write_pos_
    BY <1>2, <1>3, <1>4 DEF HazardInv, WritePos, Using
  <1>6. /\ UNCHANGED <<write_pos_, read_pos_, alive, to_delete_, got, workload, begun, before, local>>
        /\ \A u \in Thread \ {t} : pc'[u] = pc[u]
        /\ block' = [block EXCEPT ![n].next = m] /\ pc'[t] = "swing"
    BY <1>1, <1>2, <1>3 DEF Link, Goto, hazard, ghosts
  <1>7. /\ \A k \in Node : /\ block'[k].data = block[k].data /\ block'[k].read_pos = block[k].read_pos
                           /\ k # n => block'[k].next = block[k].next
        /\ block'[n].next = m
    BY <1>1, <1>3, <1>6 DEF NodeBlock
  <1>8. Begun /\ OnePlace /\ ReadClaims /\ WriteClaims /\ WriteOrder /\ Behind /\ SeenEmpty
    BY DEF ValuesInv, OrderInv
  <1>9. \A k : Retired(k)' <=> Retired(k)
    BY <1>3, <1>6, RetiredStay
  <1>10. \A k \in Node : Unlinked(k)' <=> Unlinked(k) /\ k # m
    <2>1. \A u \in Thread : pc'[u] = "link" => u # t /\ pc[u] = "link" /\ local'[u] = local[u]
      BY <1>6
    <2>2. ~Unlinked(m)'
      BY <1>2, <1>3, <2>1 DEF HazardInv, New, Unlinked
    <2>3. ASSUME NEW k \in Node \ {m} PROVE Unlinked(k)' <=> Unlinked(k)
      <3>1. \A u \in Thread : (pc'[u] = "link" /\ local'[u].next = k) <=> (pc[u] = "link" /\ local[u].next = k)
        BY <1>2, <1>6, <2>3
      <3> QED BY <3>1 DEF Unlinked
    <2> QED BY <2>2, <2>3
  <1>11. Linked(n) /\ ~Linked(m) /\ ~Used(m) /\ ~Retired(m)
    <2>1. block[n].next = NoNode
      BY <1>2
    <2>2. ~Retired(n) /\ ~Retired(m)
      BY <1>3, <2>1 DEF HazardInv, Left
    <2>3. ~Unlinked(n)
      BY <1>5 DEF HazardInv, WritePos
    <2> QED BY <1>3, <2>2, <2>3 DEF Linked, Used
  <1>12. \A k \in Node : (Linked(k)' <=> Linked(k) \/ k = m) /\ (Used(k)' <=> Used(k) \/ k = m)
    BY <1>3, <1>6, <1>9, <1>10, <1>11 DEF Linked, Used
  <1>13. \A k, l : Leads(k, l) => Leads(k, l)'
    <2>1. \A k \in Node : Linked(k) /\ block[k].next # NoNode => Linked(k)' /\ block'[k].next = block[k].next
      BY <1>2, <1>7, <1>12
    <2> QED BY <2>1, LeadsKept
  <1>14. \A k : Leads(k, n) => Leads(k, m)'
    <2>1. SUFFICES ASSUME NEW k, Leads(k, n), NEW S \in SUBSET Node, k \in S, Closed(S)' PROVE m \in S
      BY DEF Leads
    <2>2. n \in S
      BY <1>13, <2>1 DEF Leads
    <2>3. m # NoNode
      BY <1>3, MpmcQueueAssumption DEF MpmcQueueAssumption
    <2> QED BY <1>3, <1>7, <1>11, <1>12, <2>1, <2>2, <2>3 DEF Closed
  <1>15. x \in Value /\ \A j \in Slot, v \in Value : Holds(m, j, v) => v = x
    <2>1. block[m] = [FreshBlock EXCEPT !.write_pos = 1, !.data[0] = x]
      BY <1>2, <1>3, <1>8 DEF WriteClaims
    <2>2. \A j \in Slot : block[m].data[j] \in {x, Empty}
      BY <2>1 DEF FreshBlock
    <2>3. \A v \in Value : v # Empty
      BY Values
    <2>4. x \in Value
      BY <1>2, <1>3, <1>4, <1>8, PushedValue
    <2> QED BY <2>2, <2>3, <2>4 DEF Holds
  <1>16. \A k \in Node : \A i, v : Holds(k, i, v)' <=> Holds(k, i, v)
    BY <1>7 DEF Holds
  <1>17. \A v \in Pushed : v \in Value /\ v # x
    BY <1>2, <1>3, <1>6, PushedKept
  <1>18. ASSUME NEW u \in Pushed, NEW k \in Node, NEW i \in Slot, Waits(u, k, i)' PROVE Waits(u, k, i)
    <2>1. Linked(k)' /\ Holds(k, i, u) /\ i >= block[k].read_pos
      BY <1>7, <1>16, <1>18 DEF Waits
    <2>2. k # m
      BY <1>15, <1>17, <2>1
    <2> QED BY <1>12, <2>1, <2>2 DEF Waits
  <1>19. Behind'
    <2>1. \A v \in Value : before[v] \subseteq Pushed
      BY <1>8 DEF Behind
    <2>2. ASSUME NEW v \in Value, NEW k \in Node, NEW j \in Slot, Used(k)' /\ Holds(k, j, v)'
          PROVE  \/ Used(k) /\ Holds(k, j, v)
                 \/ \A u \in before[v], l \in Node, i \in Slot : Waits(u, l, i)' => Leads(l, k)' /\ (l = k => i < j)
      <3>1. CASE k # m
        BY <1>12, <1>16, <2>2, <3>1
      <3>2. CASE k = m
        <4>1. v = x
          BY <1>15, <1>16, <2>2, <3>2
        <4>2. ASSUME NEW u \in before[v], NEW l \in Node, NEW i \in Slot, Waits(u, l, i)' PROVE Leads(l, m)' /\ l # m
          <5>1. Waits(u, l, i)
            BY <1>18, <2>1, <4>2
          <5>2. Leads(l, n)
            BY <1>2, <1>3, <1>4, <1>8, <4>1, <5>1 DEF Behind, Using
          <5> QED BY <1>11, <1>14, <5>1, <5>2 DEF Waits
        <4> QED BY <3>2, <4>2
      <3> QED BY <3>1, <3>2
    <2>3. ASSUME NEW u \in before[Pushing(t)], NEW k \in Node, NEW i \in Slot, Waits(u, k, i)'
          PROVE  Leads(k, n)'
      <3>1. Waits(u, k, i)
        BY <1>2, <1>15, <1>18, <2>1, <2>3
      <3>2. Leads(k, n)
        BY <1>2, <1>3, <1>4, <1>8, <2>3, <3>1 DEF Behind, Using
      <3> QED BY <1>13, <3>2
    <2>4. Popped' = Popped
      BY <1>6 DEF Popped
    <2>5. t \in Pusher /\ pc'[t] \in Using =>
            \A u \in before[Pushing(t)], k \in Node, i \in Slot, l \in Node : local'[t].node = l /\ Waits(u, k, i)' =>
              Leads(k, l)' /\ (pc'[t] = "set" /\ k = l => i < local'[t].pos)
      BY <1>2, <1>6, <2>3
    <2>6. \A k, l \in Node : Linked(k) /\ Linked(k)' /\ Leads(k, l) => Leads(k, l)'
      BY <1>13
    <2>7. \A u \in Pushed, k \in Node, i \in Slot : Waits(u, k, i)' => Waits(u, k, i)
      BY <1>18
    <2>8. \A v \in Value, k \in Node, j \in Slot : Used(k)' /\ Holds(k, j, v)' =>
            \/ Used(k) /\ Holds(k, j, v)
            \/ \A u \in before[v], l \in Node, i \in Slot : Waits(u, l, i)' => Leads(l, k)' /\ (l = k => i < j)
      BY <2>2
    <2>9. pc[t] # "idle" /\ UNCHANGED <<before, workload, begun>> /\ \A u \in Thread \ {t} : pc'[u] = pc[u] /\ local'[u] = local[u]
      BY <1>3, <1>6
    <2> QED BY <1>8, <2>4, <2>5, <2>6, <2>7, <2>8, <2>9, BehindKept
  <1>20. SeenEmpty'
    BY <1>4, <1>6, <1>8, <1>18, SeenEmptyKept
  <1>21. WriteOrder'
    <2>1. \A k \in Node : Linked(k)' => Leads(read_pos_, k)'
      <3>1. \A k \in Node : Linked(k) => Leads(read_pos_, k)'
        BY <1>6, <1>8, <1>13 DEF WriteOrder
      <3>2. Leads(read_pos_, m)'
        BY <1>6, <1>8, <1>11, <1>14, <1>3 DEF WriteOrder
      <3> QED BY <1>12, <3>1, <3>2
    <2>2. (\A k \in Node : Linked(k) => Leads(read_pos_, k))'
      BY <2>1
    <2>3. ASSUME NEW k \in Node, NEW i \in Slot, NEW v \in Value, Linked(k)', Holds(k, i, v)'
          PROVE  \/ Linked(k) /\ Holds(k, i, v)
                 \/ v = Pushing(t) /\ pc'[t] = "swing" /\ local'[t].node = write_pos_ /\ local'[t].next = k
      <3>1. CASE k # m
        BY <1>12, <1>16, <2>3, <3>1
      <3>2. CASE k = m
        BY <1>2, <1>5, <1>6, <1>15, <1>16, <2>3, <3>2
      <3> QED BY <3>1, <3>2
    <2>4. \A u \in Thread \ {t} : pc[u] \in Using => \A k \in Node : local[u].node = k /\ Linked(k)' => Linked(k)
      <3>1. \A u \in Thread : pc[u] \in Using => local[u].node # m
        BY <1>2, <1>3 DEF HazardInv, New
      <3> QED BY <1>12, <3>1
    <2>5. Leads(n, write_pos_)'
      BY <1>5, <1>6 DEF Leads
    <2> QED BY <1>2, <1>3, <1>6, <1>8, <1>13, <2>2, <2>3, <2>4, <2>5, WriteOrderKept
  <1> QED BY <1>19, <1>20, <1>21 DEF OrderInv

(* read_pos_ moves on: what was behind it still is behind its next node.       *)
LEMMA SwingReadOrder ==
  ASSUME MpmcQueueAssumption, HazardInv, HazardInv', ValuesInv, OrderInv, NEW t \in Thread, SwingRead(t),
         read_pos_ = local[t].node,
         \A u \in Thread : pc[u] \in Using => local[u].node \in alive
  PROVE  OrderInv'
PROOF
  <1>1. /\ pc \in [Thread -> PusherPlace \union PopperPlace] /\ local \in [Thread -> Variables]
        /\ block \in [Node -> NodeBlock]
    BY DEF HazardInv, QueueType
  <1>2. PICK n, m : n = local[t].node /\ m = local[t].next
    OBVIOUS
  <1>3. t \in Popper /\ t \notin Pusher /\ pc[t] = "advance" /\ n \in Node /\ n \in alive /\ m \in Node /\ read_pos_ = n
    BY <1>2, UsedNodes, Places DEF SwingRead, HazardInv, Locals, Using
  <1>4. block[n].next = m /\ Linked(n)
    BY <1>2, <1>3 DEF HazardInv, Locals, List
  <1>5. /\ UNCHANGED <<write_pos_, block, alive, to_delete_, got, workload, begun, before, local>>
        /\ \A u \in Thread \ {t} : pc'[u] = pc[u]
        /\ pc'[t] = "retire" /\ read_pos_' = m
    BY <1>1, <1>2, <1>3 DEF SwingRead, Goto, hazard, ghosts
  <1>6. Begun /\ OnePlace /\ ReadClaims /\ WriteOrder /\ Behind /\ SeenEmpty
    BY DEF ValuesInv, OrderInv
  <1>7. \A k : Unlinked(k)' <=> Unlinked(k)
    <2>1. SUFFICES ASSUME NEW k PROVE Unlinked(k)' <=> Unlinked(k)
      OBVIOUS
    <2>2. \A u \in Thread : (pc'[u] = "link" /\ local'[u].next = k) <=> (pc[u] = "link" /\ local[u].next = k)
      BY <1>3, <1>5
    <2> QED BY <2>2 DEF Unlinked
  <1>8. \A k : Retired(k)' <=> Retired(k) \/ k = n
    <2>1. SUFFICES ASSUME NEW k PROVE Retired(k)' <=> Retired(k) \/ k = n
      OBVIOUS
    <2>2. \A u \in Thread \ {t} : RetiredBy(u, k)' <=> RetiredBy(u, k)
      BY <1>5 DEF RetiredBy
    <2>3. RetiredBy(t, k)' <=> RetiredBy(t, k) \/ k = n
      BY <1>2, <1>3, <1>5 DEF RetiredBy
    <2> QED BY <2>2, <2>3 DEF Retired
  <1>9. \A k : (Linked(k)' <=> Linked(k) /\ k # n) /\ (Used(k)' <=> Used(k))
    BY <1>5, <1>7, <1>8 DEF Linked, Used
  <1>10. \A k \in Node : Linked(k) => block[k].next # n
    BY <1>3 DEF HazardInv, List
  <1>11. ASSUME NEW k \in Node, NEW l \in Node, Linked(k)', Leads(k, l) PROVE Leads(k, l)'
    <2>1. SUFFICES ASSUME NEW S \in SUBSET Node, k \in S, Closed(S)' PROVE l \in S
      BY DEF Leads
    <2>2. k \in S \ {n} /\ S \ {n} \in SUBSET Node
      BY <1>9, <1>11, <2>1
    <2>3. Closed(S \ {n})
      BY <1>5, <1>9, <1>10, <2>1 DEF Closed
    <2> QED BY <1>11, <2>2, <2>3 DEF Leads
  <1>12. \A k \in Node : Linked(k)' => Leads(m, k)'
    <2>1. SUFFICES ASSUME NEW k \in Node, Linked(k), k # n, NEW S \in SUBSET Node, m \in S, Closed(S)' PROVE k \in S
      BY <1>9 DEF Leads
    <2>2. S \union {n} \in SUBSET Node
      BY <1>3, <2>1
    <2>3. Closed(S \union {n})
      BY <1>4, <1>5, <1>9, <2>1 DEF Closed
    <2>4. Leads(n, k)
      BY <1>3, <1>6, <2>1 DEF WriteOrder
    <2> QED BY <2>1, <2>2, <2>3, <2>4 DEF Leads
  <1>13. \A u \in Pushed, k \in Node, i \in Slot : Waits(u, k, i)' => Waits(u, k, i)
    BY <1>5, <1>9 DEF Waits, Holds
  <1>14. /\ UNCHANGED <<before, workload, begun>> /\ pc[t] # "idle"
         /\ \A u \in Thread \ {t} : pc'[u] = pc[u] /\ local'[u] = local[u]
         /\ \A k, l \in Node : Linked(k) /\ Linked(k)' /\ Leads(k, l) => Leads(k, l)'
    BY <1>3, <1>5, <1>11
  <1>15. Behind'
    <2>1. Popped' = Popped
      BY <1>5 DEF Popped
    <2>2. \A v \in Value, k \in Node, j \in Slot : Used(k)' /\ Holds(k, j, v)' => Used(k) /\ Holds(k, j, v)
      BY <1>5, <1>9 DEF Holds
    <2> QED BY <1>3, <1>6, <1>13, <1>14, <2>1, <2>2, BehindKept
  <1>16. SeenEmpty'
    <2>1. pc'[t] # "last" /\ pc'[t] # "compare"
      BY <1>5
    <2> QED BY <1>5, <1>6, <1>13, <2>1, SeenEmptyKept
  <1>17. WriteOrder'
    <2>1. (\A k \in Node : Linked(k) => Leads(read_pos_, k))'
      BY <1>5, <1>12
    <2>2. \A k \in Node, i \in Slot, v \in Value : Linked(k)' /\ Holds(k, i, v)' => Linked(k) /\ Holds(k, i, v)
      BY <1>5, <1>9 DEF Holds
    <2>3. \A u \in Thread \ {t} : pc[u] \in Using => \A k \in Node : local[u].node = k /\ Linked(k)' => Linked(k)
      BY <1>9
    <2> QED BY <1>3, <1>5, <1>6, <1>14, <2>1, <2>2, <2>3, WriteOrderKept
  <1> QED BY <1>15, <1>16, <1>17 DEF OrderInv

(* A push or a try_pop begins after those that have ended.                     *)
LEMMA BeginOrder ==
  ASSUME MpmcQueueAssumption, HazardInv, HazardInv', ValuesInv, OrderInv, NEW t \in Thread,
         ProtectLoad(t), pc[t] = "idle"
  PROVE  OrderInv'
PROOF
  <1>1. /\ pc \in [Thread -> PusherPlace \union PopperPlace] /\ local \in [Thread -> Variables]
        /\ begun \in [Thread -> Nat] /\ workload \in [Thread -> Nat]
    BY DEF HazardInv, QueueType
  <1>2. PICK x : x = IF t \in Popper THEN <<t, 0>> ELSE <<t, begun[t] + 1>>
    OBVIOUS
  <1>3. /\ UNCHANGED <<write_pos_, read_pos_, block, alive, to_delete_, got, workload>>
        /\ \A u \in Thread \ {t} : pc'[u] = pc[u] /\ local'[u] = local[u] /\ begun'[u] = begun[u]
        /\ before' = [before EXCEPT ![x] = Pushed] /\ pc'[t] = "store"
        /\ begun'[t] = IF t \in Popper THEN begun[t] ELSE begun[t] + 1
        /\ t \in Popper \/ begun[t] < workload[t]
    BY <1>1, <1>2 DEF ProtectLoad, queue, hazard, Goto
  <1>4. Begun /\ OnePlace /\ ReadClaims /\ WriteOrder /\ Behind /\ SeenEmpty
    BY DEF ValuesInv, OrderInv
  <1>5. Popped' = Popped /\ Pusher' = Pusher /\ Popper' = Popper
    BY <1>3 DEF Popped, Popper, Pusher
  <1>6. t \in Popper => begun[t] = 0
    <2>1. t \in Popper => ~(workload[t] > 0) /\ begun[t] <= workload[t]
      BY <1>4 DEF Popper, Pusher, Begun
    <2> QED BY <1>1, <2>1
  <1>7. Pushed' = Pushed
    <2>1. ASSUME NEW v \in Value PROVE v \in Pushed' <=> v \in Pushed
      <3>1. v[1] \in Thread /\ v[2] \in Nat /\ v[2] > 0 /\ begun[t] \in Nat
        BY <1>1, Values
      <3>2. CASE v[1] # t
        BY <1>3, <3>1, <3>2 DEF Pushed
      <3>3. CASE v[1] = t /\ t \in Popper
        BY <1>3, <1>6, <3>1, <3>3 DEF Pushed
      <3>4. CASE v[1] = t /\ t \notin Popper
        <4>1. v \in Pushed <=> v[2] <= begun[t]
          BY <3>4 DEF Pushed
        <4>2. v \in Pushed' <=> v[2] < begun[t] + 1
          BY <1>3, <3>4 DEF Pushed
        <4> QED BY <3>1, <4>1, <4>2
      <3> QED BY <3>2, <3>3, <3>4
    <2> QED BY <2>1 DEF Pushed
  <1>8. x \in Value \union (Thread \X {0}) /\ x[1] = t /\ (x \in Value => x = <<t, begun[t] + 1>> /\ t \notin Popper)
    <2>1. CASE t \in Popper
      <3>1. x = <<t, 0>>
        BY <1>2, <2>1
      <3>2. x \in Thread \X {0} /\ x[1] = t
        BY <3>1
      <3>3. x \notin Value
        <4>1. ASSUME x \in Value PROVE FALSE
          <5>1. x[2] > 0 /\ x[2] = 0
            BY <3>1, <4>1, Values
          <5> QED BY <5>1
        <4> QED BY <4>1
      <3> QED BY <3>2, <3>3
    <2>2. CASE t \notin Popper
      <3>1. begun[t] + 1 \in 1..workload[t] /\ workload \in Workloads
        BY <1>1, <1>3, <1>4, <2>2 DEF Begun
      <3>2. <<t, begun[t] + 1>> \in {t} \X (1..workload[t])
        BY <3>1
      <3>3. <<t, begun[t] + 1>> \in Value
        BY <3>1, <3>2 DEF Value
      <3> QED BY <1>2, <2>2, <3>3
    <2> QED BY <2>1, <2>2
  <1>9. /\ before' \in [Value \union (Thread \X {0}) -> SUBSET Value]
        /\ before'[x] = Pushed
        /\ \A y \in Value \union (Thread \X {0}) : y # x => before'[y] = before[y]
    <2>1. Pushed \subseteq Value
      BY DEF Pushed
    <2>2. before \in [Value \union (Thread \X {0}) -> SUBSET Value]
      BY <1>4 DEF Behind
    <2> QED BY <1>3, <1>8, <2>1, <2>2
  <1>10. \A n : (Linked(n)' <=> Linked(n)) /\ (Used(n)' <=> Used(n))
    BY <1>3, SameNodes
  <1>11. \A n, m : Leads(n, m)' <=> Leads(n, m)
    <2>1. \A S \in SUBSET Node : Closed(S)' <=> Closed(S)
      BY <1>3, <1>10 DEF Closed
    <2> QED BY <2>1 DEF Leads
  <1>12. \A v, n, i : (Holds(n, i, v)' <=> Holds(n, i, v)) /\ (Waits(v, n, i)' <=> Waits(v, n, i))
    BY <1>3, <1>10 DEF Holds, Waits
  <1>13. WriteOrder'
    <2>1. (\A n \in Node : Linked(n) => Leads(read_pos_, n))'
      BY <1>3, <1>4, <1>10, <1>11 DEF WriteOrder
    <2>2. ASSUME NEW n \in Node, NEW i \in Slot, NEW v \in Value, Linked(n)', Holds(n, i, v)'
          PROVE  \/ Leads(n, write_pos_)
                 \/ /\ v = Pushing(v[1])' /\ pc'[v[1]] = "swing"
                    /\ local'[v[1]].node = write_pos_ /\ local'[v[1]].next = n
      <3>1. v[1] \in Thread /\ Linked(n) /\ Holds(n, i, v)
        BY <1>10, <1>12, <2>2, Values
      <3>2. v[1] # t => /\ Pushing(v[1])' = Pushing(v[1]) /\ pc'[v[1]] = pc[v[1]]
                        /\ local'[v[1]] = local[v[1]]
        BY <1>3, <3>1 DEF Pushing
      <3> QED BY <1>4, <3>1, <3>2 DEF WriteOrder
    <2>3. ASSUME NEW w \in Pusher, pc'[w] \in Using, NEW m, m = local'[w].node, Linked(m)' PROVE Leads(m, write_pos_)
      <3>1. w # t /\ w \in Thread
        BY <1>3, <2>3 DEF Using, Pusher
      <3>2. local'[w] = local[w] /\ pc'[w] = pc[w]
        BY <1>3, <3>1
      <3> QED BY <1>4, <1>10, <2>3, <3>2 DEF WriteOrder
    <2> QED BY <1>3, <1>5, <1>11, <2>1, <2>2, <2>3 DEF WriteOrder
  <1>14. Behind'
    <2>1. \A y \in DOMAIN before' : before'[y] \subseteq Pushed'
      BY <1>4, <1>7, <1>9 DEF Behind
    <2>2. ASSUME NEW v \in Value, NEW u \in before'[v], NEW n \in Node, NEW i \in Slot, Waits(u, n, i)'
          PROVE  /\ v \notin Popped
                 /\ \A m \in Node, j \in Slot : Used(m) /\ Holds(m, j, v) => Leads(n, m) /\ (n = m => i < j)
      <3>1. Waits(u, n, i)
        BY <1>12, <2>2
      <3>2. CASE v # x
        BY <1>4, <1>9, <2>2, <3>1, <3>2 DEF Behind
      <3>3. CASE v = x
        <4>1. v = <<t, begun[t] + 1>> /\ begun[t] \in Nat
          BY <1>1, <1>8, <3>3
        <4>2. ~Done(v)
          BY <4>1 DEF Done
        <4>3. v \notin Popped /\ \A m \in Node, j \in Slot : ~(Used(m) /\ Holds(m, j, v))
          BY <1>4, <4>2 DEF OnePlace
        <4> QED BY <4>3
      <3> QED BY <3>2, <3>3
    <2>3. ASSUME NEW w \in Pusher, pc'[w] \in Using, NEW m, m = local'[w].node, m \in alive,
                 NEW u \in before'[Pushing(w)'], NEW n \in Node, NEW i \in Slot, Waits(u, n, i)'
          PROVE  Leads(n, m) /\ (pc'[w] = "set" /\ n = m => i < local'[w].pos)
      <3>1. w # t /\ w \in Thread
        BY <1>3, <2>3 DEF Using, Pusher
      <3>2. local'[w] = local[w] /\ pc'[w] = pc[w] /\ Pushing(w)' = Pushing(w) /\ Pushing(w)[1] = w
        BY <1>3, <3>1 DEF Pushing
      <3>3. Pushing(w) \in Value /\ Pushing(w) # x
        BY <1>4, <1>8, <2>3, <3>1, <3>2, PushedValue DEF Using
      <3>4. before'[Pushing(w)'] = before[Pushing(w)]
        BY <1>9, <3>2, <3>3
      <3> QED BY <1>4, <1>12, <2>3, <3>2, <3>4 DEF Behind
    <2> QED BY <1>3, <1>5, <1>9, <1>10, <1>11, <1>12, <2>1, <2>2, <2>3 DEF Behind
  <1>15. SeenEmpty'
    <2>1. ASSUME NEW w \in Popper, NEW u \in before'[<<w, 0>>], NEW i \in Slot, NEW m, m = local'[w].node, Waits(u, m, i)'
          PROVE  pc'[w] # "last" /\ (pc'[w] = "compare" => i < local'[w].pos)
      <3>1. CASE w = t
        BY <1>3, <3>1
      <3>2. CASE w # t
        <4>1. w \in Thread /\ <<w, 0>> # x
          BY <1>8, <3>2 DEF Popper
        <4>2. local'[w] = local[w] /\ pc'[w] = pc[w] /\ before'[<<w, 0>>] = before[<<w, 0>>]
          BY <1>3, <1>9, <3>2, <4>1
        <4>3. Waits(u, m, i) /\ m = local[w].node
          BY <1>12, <2>1, <4>2
        <4> QED BY <1>4, <2>1, <4>2, <4>3 DEF SeenEmpty
      <3> QED BY <3>1, <3>2
    <2> QED BY <1>5, <2>1 DEF SeenEmpty
  <1> QED BY <1>13, <1>14, <1>15 DEF OrderInv

LEMMA InitOrder ==
  ASSUME MpmcQueueAssumption, Init, HazardInv
  PROVE  OrderInv
PROOF
  <1>1. /\ block = [m \in Node |-> FreshBlock] /\ pc = [t \in Thread |-> "idle"]
        /\ to_delete_ = [t \in Thread |-> <<>>]
        /\ before = [x \in Value \union (Thread \X {0}) |-> {}]
        /\ alive = {read_pos_} /\ read_pos_ \in Node
    BY DEF Init
  <1>2. \A n \in Node, i \in Slot, v \in Value : ~Holds(n, i, v)
    <2>1. \A v \in Value : v # Empty
      BY Values
    <2> QED BY <1>1, <2>1 DEF Holds, FreshBlock
  <1>3. \A t \in Thread : pc[t] = "idle" /\ pc[t] \notin Using
    BY <1>1 DEF Using
  <1>4. \A n \in Node : Linked(n) => Leads(read_pos_, n)
    BY <1>1 DEF Linked, Leads
  <1>5. WriteOrder
    BY <1>2, <1>3, <1>4 DEF WriteOrder, Pusher
  <1>6. \A v \in Value \union (Thread \X {0}) : before[v] = {}
    BY <1>1
  <1>7. /\ before \in [Value \union (Thread \X {0}) -> SUBSET Value]
        /\ \A x \in DOMAIN before : before[x] \subseteq Pushed
    BY <1>1
  <1>8. Behind
    BY <1>3, <1>6, <1>7 DEF Behind, Pusher
  <1>9. SeenEmpty
    BY <1>3 DEF SeenEmpty, Popper
  <1> QED BY <1>5, <1>8, <1>9 DEF OrderInv

LEMMA NextOrder ==
  ASSUME MpmcQueueAssumption, HazardInv, HazardInv', ValuesInv, OrderInv, [Next]_vars
  PROVE  OrderInv'
PROOF
  <1>1. CASE UNCHANGED vars
    <2>1. /\ UNCHANGED <<write_pos_, read_pos_, block, alive, hazard_, to_delete_, pc, local>>
          /\ UNCHANGED <<workload, begun, got, before>>
      BY <1>1 DEF vars, queue, hazard, ghosts
    <2>2. /\ \A n : Linked(n)' = Linked(n) /\ Used(n)' = Used(n)
          /\ \A n, i, v : Holds(n, i, v)' = Holds(n, i, v)
          /\ Pushed' = Pushed /\ Popped' = Popped /\ Popper' = Popper /\ Pusher' = Pusher
          /\ \A t : Pushing(t)' = Pushing(t)
      BY <2>1 DEF Linked, Used, Unlinked, Retired, RetiredBy, Holds, Pushed, Popped, Popper, Pusher, Pushing
    <2>3. \A S : Closed(S)' = Closed(S)
      BY <2>1, <2>2 DEF Closed
    <2>4. /\ \A n, m : Leads(n, m)' = Leads(n, m)
          /\ \A v, n, i : Waits(v, n, i)' = Waits(v, n, i)
      BY <2>1, <2>2, <2>3 DEF Leads, Waits
    <2>5. WriteOrder'
      BY <2>1, <2>2, <2>4 DEF OrderInv, WriteOrder
    <2>6. Behind'
      BY <2>1, <2>2, <2>4 DEF OrderInv, Behind
    <2>7. SeenEmpty'
      BY <2>1, <2>2, <2>4 DEF OrderInv, SeenEmpty
    <2> QED BY <2>5, <2>6, <2>7 DEF OrderInv
  <1>2. ASSUME \A u \in Thread : ~Dangling(u), NEW t \in Thread, Step(t) PROVE OrderInv'
    <2>1. \A u \in Thread : pc[u] \in Using => local[u].node \in alive
      BY <1>2 DEF Dangling
    <2>2. ReadClaims
      BY DEF ValuesInv
    <2>3. ASSUME Passive(t), CalmMoves(t), UNCHANGED <<write_pos_, before>>, pc[t] = "swing" => local[t].node # write_pos_
          PROVE  OrderInv'
      BY <2>1, <2>3, MpmcQueueAssumption, PassiveOrder
    <2>4. CASE ProtectLoad(t)
      <3>1. CASE pc[t] = "idle"
        BY <2>4, <3>1, MpmcQueueAssumption, BeginOrder
      <3>2. CASE pc[t] # "idle"
        BY <2>2, <2>3, <2>4, <3>2, PassiveSteps, PassiveStepsOrder
      <3> QED BY <3>1, <3>2
    <2>5. CASE ProtectStore(t) \/ ProtectCheck(t) \/ Return(t)
      BY <2>2, <2>3, <2>5, PassiveSteps, PassiveStepsOrder
    <2>6. CASE Push(t)
      <3>1. CASE ClaimWrite(t)
        BY <2>1, <3>1, MpmcQueueAssumption, ClaimWriteOrder
      <3>2. CASE SetValue(t)
        BY <2>1, <2>2, <2>3, <3>2, MpmcQueueAssumption, SetValueOrder, PassiveSteps, PassiveStepsOrder
      <3>3. CASE LoadNext(t)
        BY <2>1, <2>2, <2>3, <3>3, MpmcQueueAssumption, CreateOrder, PassiveSteps, PassiveStepsOrder
      <3>4. CASE Link(t)
        BY <2>1, <3>4, MpmcQueueAssumption, LinkLostOrder, LinkedOrder
      <3>5. CASE SwingWrite(t)
        BY <2>1, <2>2, <2>3, <3>5, MpmcQueueAssumption, SwingWriteOrder, PassiveSteps, PassiveStepsOrder
      <3> QED BY <2>6, <3>1, <3>2, <3>3, <3>4, <3>5 DEF Push
    <2>7. CASE TryPop(t)
      <3>1. CASE ReadWritePos(t) \/ ComparePos(t) \/ IsLast(t) \/ Follow(t)
        BY <2>2, <2>3, <3>1, PassiveSteps, PassiveStepsOrder
      <3>2. CASE ClaimRead(t)
        BY <2>1, <3>2, MpmcQueueAssumption, ClaimReadOrder
      <3>3. CASE GetValue(t)
        BY <2>1, <3>3, MpmcQueueAssumption, GetValueOrder
      <3>4. CASE SwingRead(t)
        BY <2>1, <2>3, <3>4, MpmcQueueAssumption, SwingReadOrder, SwingLostPassive, PassiveStepsOrder
      <3>5. CASE Retire(t)
        BY <2>1, <3>5, MpmcQueueAssumption, RetireOrder
      <3>6. CASE Scan(t)
        <4>1. CASE UNCHANGED <<alive, block, to_delete_>>
          BY <2>2, <2>3, <3>6, <4>1, PassiveSteps, PassiveStepsOrder
        <4>2. CASE \E n \in Node : Deletes(t, n)
          BY <2>1, <4>2, MpmcQueueAssumption, DeleteOrder
        <4> QED BY <3>6, <4>1, <4>2, ScanEffect
      <3> QED BY <2>7, <3>1, <3>2, <3>3, <3>4, <3>5, <3>6 DEF TryPop
    <2> QED BY <1>2, <2>4, <2>5, <2>6, <2>7 DEF Step
  <1> QED BY <1>1, <1>2 DEF Next

(* A value that was pushed and is not popped is where consumers will find it.  *)
LEMMA Pending ==
  ASSUME MpmcQueueAssumption, HazardInv, ValuesInv, OrderInv, NEW v \in Pushed, v \notin Popped, ~InHand(v)
  PROVE  \E n \in Node, i \in Slot : Waits(v, n, i) /\ n \in Ahead
PROOF
  <1>1. v \in Value /\ Done(v)
    BY PushedSettled
  <1>2. PICK n \in Node, i \in Slot : Used(n) /\ Holds(n, i, v)
    BY <1>1 DEF ValuesInv, OnePlace
  <1>3. block[n].data[i] = v /\ v # Taken /\ n \in alive
    BY <1>1, <1>2, Values DEF Holds, Used
  <1>4. ~Claimed(n, i)
    BY <1>3 DEF InHand
  <1>5. ~(i < block[n].read_pos)
    BY <1>2, <1>3, <1>4 DEF ValuesInv, ReadClaims
  <1>6. i \in Nat /\ i < BlockSize /\ BlockSize \in Nat /\ block[n].read_pos \in Nat
    BY MpmcQueueAssumption DEF Slot, MpmcQueueAssumption, HazardInv, QueueType, NodeBlock
  <1>7. Linked(n)
    <2>1. ~Retired(n)
      BY <1>5, <1>6 DEF ValuesInv, ReadClaims
    <2> QED BY <1>2, <2>1, UsedNodes
  <1>8. Waits(v, n, i)
    BY <1>2, <1>5, <1>6, <1>7 DEF Waits
  <1>9. n \in Ahead
    <2>1. SUFFICES ASSUME NEW S \in SUBSET Node, read_pos_ \in S, \A m \in S : block[m].next \in S \union {NoNode}
                   PROVE  n \in S
      BY DEF Ahead
    <2>2. Closed(S)
      BY <2>1 DEF Closed
    <2> QED BY <1>7, <2>1, <2>2 DEF OrderInv, WriteOrder, Leads
  <1> QED BY <1>8, <1>9

LEMMA InOrder ==
  ASSUME MpmcQueueAssumption, HazardInv, ValuesInv, OrderInv
  PROVE  FirstInFirstOut
PROOF
  <1>1. NothingLost
    <2>1. ASSUME NEW v \in Pushed \ Popped
          PROVE  InHand(v) \/ \E n \in Ahead, i \in Slot : block[n].data[i] = v /\ i >= block[n].read_pos
      BY Pending DEF Waits, Holds
    <2>2. \A t, u \in Thread : \A i \in DOMAIN got[t], j \in DOMAIN got[u] :
            got[t][i] = got[u][j] => t = u /\ i = j
      BY DEF ValuesInv, OnePlace
    <2> QED BY <2>1, <2>2 DEF NothingLost
  <1>2. ASSUME NEW v \in Popped, NEW u \in before[v] PROVE u \in Popped \/ InHand(u)
    <2>1. v \in Value
      <3>1. PICK t \in Thread : v \in ToSet(got[t])
        BY DEF Popped
      <3>2. got[t] \in Seq(Value)
        BY DEF ValuesInv, OnePlace
      <3> QED BY <3>1, <3>2 DEF ToSet
    <2>2. u \in Pushed
      BY <2>1 DEF OrderInv, Behind
    <2>3. \A n \in Node, i \in Slot : ~Waits(u, n, i)
      BY <2>1 DEF OrderInv, Behind
    <2> QED BY <2>2, <2>3, Pending
  <1> QED BY <1>1, <1>2 DEF FirstInFirstOut, InFirstOut

(* try_pop finds no next node: the one it has seen empty is the only one.      *)
LEMMA SeenEmptyIsEmpty ==
  ASSUME MpmcQueueAssumption, HazardInv, ValuesInv, OrderInv, [Next]_vars, NEW t \in Popper,
         pc[t] \in {"last", "follow"}, pc'[t] = "return", NEW v \in before[<<t, 0>>], v \notin Popped
  PROVE  InHand(v)
PROOF
  <1>1. pc \in [Thread -> PusherPlace \union PopperPlace] /\ local \in [Thread -> Variables] /\ t \in Thread
    BY DEF HazardInv, QueueType, Popper
  <1>2. PICK u \in Thread : Step(u)
    BY <1>1 DEF Next, vars
  <1>3. u = t
    BY <1>1, <1>2 DEF Step, Push, TryPop, ProtectLoad, ProtectStore, ProtectCheck, Return, ClaimWrite, SetValue,
          LoadNext, Link, SwingWrite, ReadWritePos, ComparePos, IsLast, ClaimRead, GetValue, Follow, SwingRead,
          Retire, Scan, Goto, EndRound
  <1>4. PICK n : n = local[t].node
    OBVIOUS
  <1>5. block[n].next = NoNode
    BY <1>1, <1>2, <1>3, <1>4 DEF Step, Push, TryPop, ProtectLoad, ProtectStore, ProtectCheck, Return, ClaimWrite,
          SetValue, LoadNext, Link, SwingWrite, ReadWritePos, ComparePos, IsLast, ClaimRead, GetValue, Follow,
          SwingRead, Retire, Scan, Goto, EndRound
  <1>6. n \in Node /\ n = read_pos_
    <2>1. n \in Node /\ (n = read_pos_ \/ Retired(n))
      BY <1>1, <1>4, UsedNodes DEF ValuesInv, ReadClaims, Using
    <2> QED BY <1>5, <2>1 DEF HazardInv, Left
  <1>7. SUFFICES ASSUME ~InHand(v) PROVE FALSE
    OBVIOUS
  <1>8. v \in Pushed
    <2>1. before[<<t, 0>>] \subseteq Pushed
      BY <1>1 DEF OrderInv, Behind
    <2> QED BY <2>1
  <1>9. PICK m \in Node, i \in Slot : Waits(v, m, i)
    BY <1>7, <1>8, Pending
  <1>10. m = n
    <2>1. Leads(n, m)
      BY <1>6, <1>9 DEF Waits, OrderInv, WriteOrder
    <2>2. Closed({n})
      BY <1>5 DEF Closed
    <2> QED BY <1>6, <2>1, <2>2 DEF Leads
  <1>11. pc[t] = "follow"
    BY <1>4, <1>9, <1>10 DEF OrderInv, SeenEmpty
  <1>12. block[n].read_pos >= BlockSize
    BY <1>1, <1>4, <1>11 DEF ValuesInv, ReadClaims
  <1>13. i >= block[n].read_pos /\ i \in Nat /\ i < BlockSize /\ BlockSize \in Nat /\ block[n].read_pos \in Nat
    BY <1>9, <1>10, MpmcQueueAssumption DEF Waits, Slot, MpmcQueueAssumption, HazardInv, QueueType, NodeBlock
  <1> QED BY <1>12, <1>13

QueueInv == HazardInv /\ ValuesInv /\ OrderInv

LEMMA QueueInvariant == Spec => []QueueInv
PROOF
  <1>1. Init => QueueInv
    BY MpmcQueueAssumption, InitSafe, InitValues, InitOrder DEF QueueInv
  <1>2. QueueInv /\ [Next]_vars => QueueInv'
    <2>1. SUFFICES ASSUME HazardInv, ValuesInv, OrderInv, [Next]_vars PROVE HazardInv' /\ ValuesInv' /\ OrderInv'
      BY DEF QueueInv
    <2>2. HazardInv'
      BY <2>1, MpmcQueueAssumption, NextSafe
    <2>3. ValuesInv'
      BY <2>1, <2>2, MpmcQueueAssumption, NextValues
    <2>4. OrderInv'
      BY <2>1, <2>2, MpmcQueueAssumption, NextOrder
    <2> QED BY <2>2, <2>3, <2>4
  <1> QED BY <1>1, <1>2, PTL DEF Spec

(* For any threads, nodes, blocks and workloads (MpmcQueue.h): every value     *)
(* comes out once, none is lost in a slot or a node that consumers do not come *)
(* to, and a value does not come out before those whose push had returned when *)
(* its own began, although slots are claimed by fetch-and-add, consumers give  *)
(* up on slots that are empty still, and producers link nodes for each other.  *)
THEOREM ValuesInOrder == Spec => []FirstInFirstOut
PROOF
  <1>1. QueueInv => FirstInFirstOut
    BY MpmcQueueAssumption, InOrder DEF QueueInv
  <1> QED BY <1>1, QueueInvariant, PTL

(* When try_pop returns false, every value whose push had returned when it     *)
(* was called is popped or in the hands of other consumers: its separate reads *)
(* of write_pos, read_pos and next do not add up to an empty queue that never  *)
(* was (MpmcQueue.h, try_pop).                                                 *)
THEOREM EmptyMeansEmpty == Spec => EmptyIsTrue
PROOF
  <1> DEFINE A == \A t \in Popper :
                    pc[t] \in {"last", "follow"} /\ pc'[t] = "return" =>
                      \A v \in before[<<t, 0>>] : v \in Popped \/ InHand(v)
  <1>1. QueueInv /\ [Next]_vars => [A]_vars
    BY MpmcQueueAssumption, SeenEmptyIsEmpty DEF QueueInv
  <1>2. EmptyIsTrue <=> [][A]_vars
    BY PTL DEF EmptyIsTrue
  <1> QED BY <1>1, <1>2, QueueInvariant, PTL DEF Spec

================================================================================

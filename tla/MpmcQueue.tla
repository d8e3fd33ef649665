------------------------------ MODULE MpmcQueue ------------------------------
(***************************************************************************)
(* MpmcQueue, the lock-free queue of many producers and many consumers: a  *)
(* list of nodes, each a block of slots that are claimed by fetch-and-add. *)
(* A producer that gets no slot links a new node and swings write_pos_; a  *)
(* consumer that gets none swings read_pos_ and retires the node it left   *)
(* to HazardPointers, which deletes a retired node once no thread's hazard *)
(* pointer holds it.                                                        *)
(*                                                                         *)
(* Every access to an atomic is a step.  A thread that is between its      *)
(* protect and its clear uses the node `my`; if that node is deleted, the  *)
(* behaviour of the program is undefined from there on and the model stops. *)
(* A thread either pushes its values in order or calls try_pop for ever.    *)
(***************************************************************************)
EXTENDS Naturals, SequencesExt

CONSTANTS
  ThreadsN,                 \* thread ids are 1..ThreadsN, in the order of threads_
  Node, NoNode,             \* addresses of nodes (a bound), and nullptr
  BlockSize,                \* slots of a block (1024 in the code)
  Workloads                 \* bound: how many values each thread may have to push

ASSUME MpmcQueueAssumption ==
  /\ ThreadsN \in Nat /\ BlockSize \in Nat \ {0}
  /\ NoNode \notin Node
  /\ Workloads \subseteq [1..ThreadsN -> Nat]

Thread == 1..ThreadsN
Slot   == 0..(BlockSize - 1)

(* The n-th value of thread p is <<p, n>>. *)
Value == UNION {UNION {{t} \X (1..w[t]) : t \in Thread} : w \in Workloads}

Empty == <<0, 0>>           \* states of a OneValue other than a value
Taken == <<0, 1>>

VARIABLES
  write_pos_, read_pos_,    \* the nodes producers and consumers start from
  block,                    \* block[n]: counters and slots of node n, and its next
  alive,                    \* nodes that are allocated
  hazard_,                  \* hazard_[t]: what thread t protects
  to_delete_,               \* to_delete_[t]: nodes t retired and did not delete
  pc,                       \* pc[t]: the next step of thread t
  local,                    \* local[t]: the local variables of t's round of the loop
  workload,                 \* workload[t]: values t pushes; a thread with none pops
  begun,                    \* begun[t]: pushes begun so far by t
  got,                      \* got[t]: values popped by t, oldest first
  before                    \* before[v]: values whose push had ended when v's began;
                            \* before[<<t, 0>>]: when the last try_pop of t began

queue  == <<write_pos_, read_pos_, block, alive>>
hazard == <<hazard_, to_delete_>>
ghosts == <<workload, begun, got, before>>
vars   == <<queue, hazard, pc, local, ghosts>>

FreshBlock == [write_pos |-> 0, read_pos |-> 0, next |-> NoNode, data |-> [i \in Slot |-> Empty]]

(* node; next or new_node; pos, or a write_pos just read; and the position in *)
(* retire's loops: item and thread.                                           *)
NoLocal == [node |-> NoNode, next |-> NoNode, pos |-> 0, item |-> 1, thread |-> 1]

(* The value a pusher is pushing. *)
Pushing(t) == <<t, begun[t]>>

(* Values whose push has returned. *)
Pushed == {v \in Value : IF pc[v[1]] = "idle" THEN v[2] <= begun[v[1]] ELSE v[2] < begun[v[1]]}

Popped == UNION {ToSet(got[t]) : t \in Thread}

Pusher == {t \in Thread : workload[t] > 0}
Popper == Thread \ Pusher

Init ==
  /\ \E n \in Node : write_pos_ = n /\ read_pos_ = n /\ alive = {n}
  /\ block = [n \in Node |-> FreshBlock]
  /\ hazard_ = [t \in Thread |-> NoNode]
  /\ to_delete_ = [t \in Thread |-> <<>>]
  /\ pc = [t \in Thread |-> "idle"]
  /\ local = [t \in Thread |-> NoLocal]
  /\ workload \in Workloads
  /\ begun = [t \in Thread |-> 0]
  /\ got = [t \in Thread |-> <<>>]
  /\ before = [x \in Value \union (Thread \X {0}) |-> {}]

Goto(t, to) == pc' = [pc EXCEPT ![t] = to]

(* The loop body or the function ends, and its local variables with it. *)
EndRound(t, to) == Goto(t, to) /\ local' = [local EXCEPT ![t] = NoLocal]

-----------------------------------------------------------------------------
(* HazardPointers *)

(* The atomic a thread protects from. *)
Source(t) == IF t \in Popper THEN read_pos_ ELSE write_pos_

(* The first load of do_protect; the first round of push or try_pop begins *)
(* with it, the others when the round before has ended.                     *)
ProtectLoad(t) ==
  /\ \/ pc[t] = "load"
     \/ pc[t] = "scan" /\ local[t].item > Len(to_delete_[t])
     \/ pc[t] = "idle" /\ (t \in Popper \/ begun[t] < workload[t])
  /\ Goto(t, "store")
  /\ local' = [local EXCEPT ![t] = [NoLocal EXCEPT !.node = Source(t)]]
  /\ IF pc[t] # "idle"
       THEN UNCHANGED <<begun, before>>
       ELSE IF t \in Popper
       THEN before' = [before EXCEPT ![<<t, 0>>] = Pushed] /\ UNCHANGED begun
       ELSE /\ begun' = [begun EXCEPT ![t] = @ + 1]
            /\ before' = [before EXCEPT ![<<t, begun[t] + 1>>] = Pushed]
  /\ UNCHANGED <<queue, hazard, workload, got>>

ProtectStore(t) ==
  /\ pc[t] = "store"
  /\ Goto(t, "check")
  /\ hazard_' = [hazard_ EXCEPT ![t] = local[t].node]
  /\ UNCHANGED <<queue, to_delete_, local, ghosts>>

(* Mutant: the pointer is not read again after it is published. *)
ProtectCheckOnce(t) ==
  /\ pc[t] = "check"
  /\ Goto(t, "use")
  /\ UNCHANGED <<queue, hazard, local, ghosts>>

(* The loop of do_protect ends when the pointer is still what was published. *)
ProtectCheck(t) ==
  /\ pc[t] = "check"
  /\ IF Source(t) = local[t].node
       THEN Goto(t, "use") /\ UNCHANGED local
       ELSE Goto(t, "store") /\ local' = [local EXCEPT ![t].node = Source(t)]
  /\ UNCHANGED <<queue, hazard, ghosts>>

(* SCOPE_EXIT of push and try_pop: the hazard pointer is cleared. *)
Return(t) ==
  /\ pc[t] = "return"
  /\ Goto(t, "idle")
  /\ hazard_' = [hazard_ EXCEPT ![t] = NoNode]
  /\ UNCHANGED <<queue, to_delete_, local, ghosts>>

(* The consumer that swung read_pos_ gives up its own protection and retires *)
(* the node it left.                                                          *)
Retire(t) ==
  /\ pc[t] = "retire"
  /\ Goto(t, "scan")
  /\ hazard_' = [hazard_ EXCEPT ![t] = NoNode]
  /\ to_delete_' = [to_delete_ EXCEPT ![t] = Append(@, local[t].node)]
  /\ local' = [local EXCEPT ![t] = NoLocal]
  /\ UNCHANGED <<queue, ghosts>>

(* to_delete_.erase(it). *)
Erased(list, i) == RemoveAt(list, i)

(* One load of is_protected.  After the last one of them an item that no     *)
(* thread protects is deleted, at once: until then nobody can tell.          *)
Scan(t) ==
  LET i == local[t].item
      k == local[t].thread
      n == to_delete_[t][i]
  IN  /\ pc[t] = "scan"
      /\ i <= Len(to_delete_[t])
      /\ IF hazard_[k] = n
           THEN /\ local' = [local EXCEPT ![t].item = i + 1, ![t].thread = 1]
                /\ UNCHANGED <<alive, block, to_delete_>>
           ELSE IF k < ThreadsN
           THEN /\ local' = [local EXCEPT ![t].thread = k + 1]
                /\ UNCHANGED <<alive, block, to_delete_>>
           ELSE /\ local' = [local EXCEPT ![t].thread = 1]
                /\ alive' = alive \ {n}
                /\ block' = [block EXCEPT ![n] = FreshBlock]
                /\ to_delete_' = [to_delete_ EXCEPT ![t] = Erased(@, i)]
      /\ UNCHANGED <<write_pos_, read_pos_, hazard_, pc, ghosts>>

-----------------------------------------------------------------------------
(* push *)

ClaimWrite(t) ==
  LET n == local[t].node
      p == block[n].write_pos
  IN  /\ t \in Pusher
      /\ pc[t] = "use"
      /\ local' = [local EXCEPT ![t].pos = p]
      /\ block' = [block EXCEPT ![n].write_pos = p + 1]
      /\ Goto(t, IF p >= BlockSize THEN "load_next" ELSE "set")
      /\ UNCHANGED <<write_pos_, read_pos_, alive, hazard, ghosts>>

(* Mutant: the slot is written although a consumer may have given up on it. *)
SetValueBlindly(t) ==
  /\ pc[t] = "set"
  /\ block' = [block EXCEPT ![local[t].node].data[local[t].pos] = Pushing(t)]
  /\ EndRound(t, "return")
  /\ UNCHANGED <<write_pos_, read_pos_, alive, hazard, ghosts>>

(* OneValue::set_value: the slot may have been taken while it was empty. *)
SetValue(t) ==
  LET n == local[t].node
      p == local[t].pos
  IN  /\ pc[t] = "set"
      /\ IF block[n].data[p] = Empty
           THEN block' = [block EXCEPT ![n].data[p] = Pushing(t)] /\ EndRound(t, "return")
           ELSE EndRound(t, "load") /\ UNCHANGED block
      /\ UNCHANGED <<write_pos_, read_pos_, alive, hazard, ghosts>>

(* The block is full: read next, and make a node with the value in its first *)
(* slot when there is none.                                                   *)
LoadNext(t) ==
  LET m == block[local[t].node].next
  IN  /\ pc[t] = "load_next"
      /\ \/ /\ m # NoNode
            /\ local' = [local EXCEPT ![t].next = m]
            /\ Goto(t, "help")
            /\ UNCHANGED <<alive, block>>
         \/ \E n \in Node \ alive :
              /\ m = NoNode
              /\ alive' = alive \union {n}
              /\ block' = [block EXCEPT ![n] = [FreshBlock EXCEPT !.write_pos = 1,
                                                                   !.data[0] = Pushing(t)]]
              /\ local' = [local EXCEPT ![t].next = n]
              /\ Goto(t, "link")
      /\ UNCHANGED <<write_pos_, read_pos_, hazard, ghosts>>

(* Mutant: the new node is linked by a store. *)
LinkByStore(t) ==
  /\ pc[t] = "link"
  /\ block' = [block EXCEPT ![local[t].node].next = local[t].next]
  /\ Goto(t, "swing")
  /\ UNCHANGED <<write_pos_, read_pos_, alive, hazard, local, ghosts>>

(* compare_exchange of node->next; the loser takes its value back. *)
Link(t) ==
  LET n == local[t].node
      m == local[t].next
  IN  /\ pc[t] = "link"
      /\ IF block[n].next = NoNode
           THEN /\ block' = [block EXCEPT ![n].next = m]
                /\ Goto(t, "swing")
                /\ UNCHANGED <<alive, local>>
           ELSE /\ block' = [block EXCEPT ![m] = FreshBlock]
                /\ alive' = alive \ {m}
                /\ EndRound(t, "load")
      /\ UNCHANGED <<write_pos_, read_pos_, hazard, ghosts>>

(* compare_exchange of write_pos_, by the thread that linked the node (which *)
(* is then done) or by one that found next (which tries again).              *)
SwingWrite(t) ==
  /\ pc[t] \in {"swing", "help"}
  /\ write_pos_' = IF write_pos_ = local[t].node THEN local[t].next ELSE write_pos_
  /\ EndRound(t, IF pc[t] = "swing" THEN "return" ELSE "load")
  /\ UNCHANGED <<read_pos_, block, alive, hazard, ghosts>>

-----------------------------------------------------------------------------
(* try_pop *)

(* The test for an empty queue reads write_pos, read_pos and next. *)
ReadWritePos(t) ==
  /\ t \in Popper
  /\ pc[t] = "use"
  /\ Goto(t, "compare")
  /\ local' = [local EXCEPT ![t].pos = block[local[t].node].write_pos]
  /\ UNCHANGED <<queue, hazard, ghosts>>

ComparePos(t) ==
  /\ pc[t] = "compare"
  /\ Goto(t, IF local[t].pos <= block[local[t].node].read_pos THEN "last" ELSE "claim")
  /\ local' = [local EXCEPT ![t].pos = 0]
  /\ UNCHANGED <<queue, hazard, ghosts>>

(* Mutant: an exhausted block is taken for an empty queue. *)
IsLastUnasked(t) ==
  /\ pc[t] = "last"
  /\ EndRound(t, "return")
  /\ UNCHANGED <<queue, hazard, ghosts>>

IsLast(t) ==
  /\ pc[t] = "last"
  /\ IF block[local[t].node].next = NoNode THEN EndRound(t, "return")
                                           ELSE Goto(t, "claim") /\ UNCHANGED local
  /\ UNCHANGED <<queue, hazard, ghosts>>

ClaimRead(t) ==
  LET n == local[t].node
      p == block[n].read_pos
  IN  /\ pc[t] = "claim"
      /\ local' = [local EXCEPT ![t].pos = p]
      /\ block' = [block EXCEPT ![n].read_pos = p + 1]
      /\ Goto(t, IF p >= BlockSize THEN "follow" ELSE "take")
      /\ UNCHANGED <<write_pos_, read_pos_, alive, hazard, ghosts>>

(* OneValue::get_value: an empty slot is taken too, and its producer will   *)
(* have to find another.                                                     *)
GetValue(t) ==
  LET n == local[t].node
      p == local[t].pos
      value == block[n].data[p]
  IN  /\ pc[t] = "take"
      /\ block' = [block EXCEPT ![n].data[p] = Taken]
      /\ IF value \in {Empty, Taken}
           THEN EndRound(t, "load") /\ UNCHANGED got
           ELSE EndRound(t, "return") /\ got' = [got EXCEPT ![t] = Append(@, value)]
      /\ UNCHANGED <<write_pos_, read_pos_, alive, hazard, workload, begun, before>>

Follow(t) ==
  LET m == block[local[t].node].next
  IN  /\ pc[t] = "follow"
      /\ IF m = NoNode THEN EndRound(t, "return")
                       ELSE Goto(t, "advance") /\ local' = [local EXCEPT ![t].next = m]
      /\ UNCHANGED <<queue, hazard, ghosts>>

SwingRead(t) ==
  /\ pc[t] = "advance"
  /\ IF read_pos_ = local[t].node
       THEN read_pos_' = local[t].next /\ Goto(t, "retire") /\ UNCHANGED local
       ELSE EndRound(t, "load") /\ UNCHANGED read_pos_
  /\ UNCHANGED <<write_pos_, block, alive, hazard, ghosts>>

-----------------------------------------------------------------------------
(* Between protect and clear a thread reads and writes the node it protects. *)
Using == {"use", "set", "load_next", "link", "help", "swing",
          "compare", "last", "claim", "take", "follow", "advance"}

Dangling(t) == pc[t] \in Using /\ local[t].node \notin alive

Push(t) == ClaimWrite(t) \/ SetValue(t) \/ LoadNext(t) \/ Link(t) \/ SwingWrite(t)

TryPop(t) ==
  \/ ReadWritePos(t) \/ ComparePos(t) \/ IsLast(t) \/ ClaimRead(t) \/ GetValue(t)
  \/ Follow(t) \/ SwingRead(t) \/ Retire(t) \/ Scan(t)

Step(t) ==
  \/ ProtectLoad(t) \/ ProtectStore(t) \/ ProtectCheck(t) \/ Return(t)
  \/ Push(t) \/ TryPop(t)

Next ==
  /\ \A t \in Thread : ~Dangling(t)
  /\ \E t \in Thread : Step(t)

Spec == Init /\ [][Next]_vars

-----------------------------------------------------------------------------
(* Properties *)

(* Nodes a consumer may still come to: next by next from read_pos_. *)
Ahead ==
  {n \in Node : \A S \in SUBSET Node :
                 read_pos_ \in S /\ (\A m \in S : block[m].next \in S \union {NoNode}) => n \in S}

(* A consumer has claimed the slot and is about to take what is in it. *)
Claimed(n, i) == \E t \in Popper : pc[t] = "take" /\ local[t].node = n /\ local[t].pos = i

InHand(v) == \E n \in alive, i \in Slot : block[n].data[i] = v /\ Claimed(n, i)

(* A value whose push returned is popped, or about to be, or in a slot that  *)
(* consumers will come to; and no value is popped twice.  Claims by fetch-   *)
(* and-add, slots given up by consumers, and nodes linked and left behind by *)
(* several threads leave no value where nobody looks.                        *)
NothingLost ==
  /\ \A v \in Pushed \ Popped :
       InHand(v) \/ \E n \in Ahead, i \in Slot : block[n].data[i] = v /\ i >= block[n].read_pos
  /\ \A t, u \in Thread : \A i \in DOMAIN got[t], j \in DOMAIN got[u] :
       got[t][i] = got[u][j] => t = u /\ i = j

(* First in, first out: when a value is popped, the values whose push had    *)
(* returned before its own push began are popped too, or in the hands of     *)
(* other consumers.                                                          *)
InFirstOut == \A v \in Popped : \A u \in before[v] : u \in Popped \/ InHand(u)

(* Each value comes out once, none is lost, and in the order of the pushes.   *)
FirstInFirstOut == NothingLost /\ InFirstOut

(* try_pop says that the queue is empty only if everything pushed before it  *)
(* was called is taken, although it reads three atomics one after another.   *)
EmptyIsTrue ==
  [][\A t \in Popper :
       pc[t] \in {"last", "follow"} /\ pc'[t] = "return" =>
         \A v \in before[<<t, 0>>] : v \in Popped \/ InHand(v)]_vars

(* A node is deleted by the consumer that left it only when no other         *)
(* consumer uses it: what HazardPointers is for.                             *)
ConsumersProtected == \A t \in Popper : ~Dangling(t)

(* HazardPointers.h:72: a node is deleted if it is not protected, so that no *)
(* thread, producer or consumer, uses a deleted node.                        *)
NoUseAfterDelete == \A t \in Thread : ~Dangling(t)
=============================================================================

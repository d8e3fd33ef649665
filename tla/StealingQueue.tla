---------------------------- MODULE StealingQueue ----------------------------
(***************************************************************************)
(* StealingQueue: each owner has a ring buffer that it pushes to and pops    *)
(* from, and from which the other owners steal half; what does not fit goes  *)
(* to a global queue.  Every access to a head_ or tail_, and every copy of a *)
(* cell that another owner may be writing, is a step.                        *)
(***************************************************************************)
EXTENDS Integers, FiniteSets

CONSTANTS
  Owner,                    \* threads, each with its own queue
  N,                        \* cells of a queue; a power of 2
  MaxValues                 \* bound: values pushed in all

ASSUME StealingAssumption ==
  /\ N \in Nat \ {0}
  /\ MaxValues \in Nat

VARIABLES
  head_,                    \* head_[o], tail_[o]: the queue of o
  tail_,
  buf_,                     \* buf_[o]: the cells 0..N-1
  running,                  \* running[o]: the call of o, and how far it is
  reg,                      \* reg[o]: its local variables
  global_queue,             \* values that overflow_f was given
  popped,                   \* values that a pop or a steal returned
  made                      \* values pushed so far; the next value is made + 1

queues    == <<head_, tail_, buf_>>
stealVars == <<queues, running, reg, global_queue, popped, made>>

Cell(i) == i % N

(* The locals: head, the victim, other_head, n, the index of the copy, value. *)
NoLocals == [head |-> 0, other |-> 0, other_head |-> 0, n |-> 0, i |-> 0, value |-> 0]

StealInit ==
  /\ head_ = [o \in Owner |-> 0]
  /\ tail_ = [o \in Owner |-> 0]
  /\ buf_ = [o \in Owner |-> [c \in 0..(N - 1) |-> 0]]
  /\ running = [o \in Owner |-> "none"]
  /\ reg = [o \in Owner |-> NoLocals]
  /\ global_queue = {}
  /\ popped = {}
  /\ made = 0

To(o, from, to) == running[o] = from /\ running' = [running EXCEPT ![o] = to]

-----------------------------------------------------------------------------
(* local_push *)

Overflow == N \div 2 + 1

LocalPush(o) ==
  /\ To(o, "none", "push")
  /\ made < MaxValues
  /\ made' = made + 1
  /\ reg' = [reg EXCEPT ![o].value = made + 1]
  /\ UNCHANGED <<queues, global_queue, popped>>

(* head_ is read: there is room, or the oldest values have to go. *)
PushLoad(o) ==
  /\ running[o] = "push"
  /\ IF tail_[o] - head_[o] < N
       THEN /\ buf_' = [buf_ EXCEPT ![o][Cell(tail_[o])] = reg[o].value]
            /\ tail_' = [tail_ EXCEPT ![o] = @ + 1]
            /\ running' = [running EXCEPT ![o] = "none"]
            /\ reg' = [reg EXCEPT ![o] = NoLocals]
       ELSE /\ reg' = [reg EXCEPT ![o].head = head_[o]]
            /\ running' = [running EXCEPT ![o] = "make_room"]
            /\ UNCHANGED <<buf_, tail_>>
  /\ UNCHANGED <<head_, global_queue, popped, made>>

PushMakeRoom(o) ==
  /\ running[o] = "make_room"
  /\ IF head_[o] = reg[o].head
       THEN /\ head_' = [head_ EXCEPT ![o] = @ + Overflow]
            /\ running' = [running EXCEPT ![o] = "overflow"]
       ELSE running' = [running EXCEPT ![o] = "push"] /\ UNCHANGED head_
  /\ UNCHANGED <<tail_, buf_, reg, global_queue, popped, made>>

Dropped(o) == {buf_[o][Cell(reg[o].head + i)] : i \in 0..(Overflow - 1)} \union {reg[o].value}

PushOverflow(o) ==
  /\ To(o, "overflow", "none")
  /\ global_queue' = global_queue \union Dropped(o)
  /\ reg' = [reg EXCEPT ![o] = NoLocals]
  /\ UNCHANGED <<queues, popped, made>>

-----------------------------------------------------------------------------
(* local_pop *)

LocalPop(o) ==
  /\ To(o, "none", "pop")
  /\ head_[o] # tail_[o]
  /\ reg' = [reg EXCEPT ![o].head = head_[o], ![o].value = buf_[o][Cell(head_[o])]]
  /\ UNCHANGED <<queues, global_queue, popped, made>>

(* Mutant: the head is moved without a comparison. *)
PopBlindly(o) ==
  /\ To(o, "pop", "none")
  /\ head_' = [head_ EXCEPT ![o] = reg[o].head + 1]
  /\ popped' = popped \union {reg[o].value}
  /\ reg' = [reg EXCEPT ![o] = NoLocals]
  /\ UNCHANGED <<tail_, buf_, global_queue, made>>

(* A thief that was faster makes it fail. *)
PopTake(o) ==
  /\ To(o, "pop", "none")
  /\ IF head_[o] = reg[o].head
       THEN /\ head_' = [head_ EXCEPT ![o] = @ + 1]
            /\ popped' = popped \union {reg[o].value}
       ELSE UNCHANGED <<head_, popped>>
  /\ reg' = [reg EXCEPT ![o] = NoLocals]
  /\ UNCHANGED <<tail_, buf_, global_queue, made>>

-----------------------------------------------------------------------------
(* steal *)

Steal(o) ==
  /\ To(o, "none", "steal")
  /\ \E v \in Owner \ {o} :
       reg' = [reg EXCEPT ![o].head = head_[o], ![o].other = v]
  /\ UNCHANGED <<queues, global_queue, popped, made>>

StealHead(o) ==
  /\ To(o, "steal", "steal_tail")
  /\ reg' = [reg EXCEPT ![o].other_head = head_[reg[o].other]]
  /\ UNCHANGED <<queues, global_queue, popped, made>>

AtMost(a, b) == IF a < b THEN a ELSE b

(* Half of what is there, rounded up, as far as it fits. *)
StealTail(o) ==
  LET size == tail_[reg[o].other] - reg[o].other_head
      n    == AtMost(size - size \div 2, reg[o].head + N - tail_[o])
  IN  /\ running[o] = "steal_tail"
      /\ running' = [running EXCEPT ![o] =
           IF size < 0 \/ size > N THEN "again" ELSE IF n = 0 THEN "none" ELSE "copy"]
      /\ reg' = [reg EXCEPT ![o] =
           IF size \in 0..N /\ n = 0 THEN NoLocals ELSE [@ EXCEPT !.n = n, !.i = 0]]
      /\ UNCHANGED <<queues, global_queue, popped, made>>

(* Another turn of the loop: the thief's own head is read again. *)
StealAgain(o) ==
  /\ To(o, "again", "steal")
  /\ reg' = [reg EXCEPT ![o].head = head_[o]]
  /\ UNCHANGED <<queues, global_queue, popped, made>>

StealCopy(o) ==
  LET r == reg[o]
  IN  /\ running[o] = "copy"
      /\ buf_' = [buf_ EXCEPT ![o][Cell(tail_[o] + r.i)] = buf_[r.other][Cell(r.other_head + r.i)]]
      /\ reg' = [reg EXCEPT ![o].i = @ + 1]
      /\ running' = [running EXCEPT ![o] = IF r.i + 1 = r.n THEN "steal_take" ELSE "copy"]
      /\ UNCHANGED <<head_, tail_, global_queue, popped, made>>

StealTake(o) ==
  LET r == reg[o]
  IN  /\ running[o] = "steal_take"
      /\ IF head_[r.other] = r.other_head
           THEN /\ head_' = [head_ EXCEPT ![r.other] = @ + r.n]
                /\ running' = [running EXCEPT ![o] = "publish"]
           ELSE running' = [running EXCEPT ![o] = "again"] /\ UNCHANGED head_
      /\ UNCHANGED <<tail_, buf_, reg, global_queue, popped, made>>

(* The last one stolen is returned, the others are the thief's now. *)
StealPublish(o) ==
  LET last == tail_[o] + reg[o].n - 1
  IN  /\ To(o, "publish", "none")
      /\ popped' = popped \union {buf_[o][Cell(last)]}
      /\ tail_' = [tail_ EXCEPT ![o] = last]
      /\ reg' = [reg EXCEPT ![o] = NoLocals]
      /\ UNCHANGED <<head_, buf_, global_queue, made>>

-----------------------------------------------------------------------------

StealNext ==
  \E o \in Owner :
    \/ LocalPush(o) \/ PushLoad(o) \/ PushMakeRoom(o) \/ PushOverflow(o)
    \/ LocalPop(o) \/ PopTake(o)
    \/ Steal(o) \/ StealHead(o) \/ StealTail(o) \/ StealAgain(o) \/ StealCopy(o)
    \/ StealTake(o) \/ StealPublish(o)

StealSpec == StealInit /\ [][StealNext]_stealVars

-----------------------------------------------------------------------------
(* Properties *)

(* The places that hold values: the cells of a queue between head_ and tail_, *)
(* those a push or a steal has taken and not handed on yet, and the value of  *)
(* a push.                                                                    *)
Held(o) ==
  {<<o, i>> : i \in head_[o]..(tail_[o] - 1)}
    \union (IF running[o] = "overflow"
              THEN {<<o, i>> : i \in reg[o].head..(reg[o].head + Overflow - 1)} ELSE {})
    \union (IF running[o] = "publish"
              THEN {<<o, i>> : i \in tail_[o]..(tail_[o] + reg[o].n - 1)} ELSE {})

Pushing == {o \in Owner : running[o] \in {"push", "make_room", "overflow"}}

ValueAt(p) == buf_[p[1]][Cell(p[2])]

(* Every value that was pushed is in exactly one place: none is returned     *)
(* twice, lost or overwritten, whatever owners and thieves do at once.       *)
EachValueOnce ==
  LET places == UNION {Held(o) : o \in Owner}
      stored == {ValueAt(p) : p \in places} \union {reg[o].value : o \in Pushing}
  IN  /\ stored \union popped \union global_queue = 1..made
      /\ Cardinality(places) + Cardinality(Pushing) + Cardinality(popped)
           + Cardinality(global_queue) = made
=============================================================================

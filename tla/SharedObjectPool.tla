--------------------------- MODULE SharedObjectPool ---------------------------
(***************************************************************************)
(* SharedObjectPool and its MpscLinkQueue: one thread allocates objects and  *)
(* hands out reference-counted pointers; whichever thread drops the last one *)
(* pushes the object onto a lock-free stack, which alloc takes over and      *)
(* turns round.  Every access to ref_cnt_ and to head_ is a step.            *)
(***************************************************************************)
EXTENDS Integers, FiniteSets, Sequences, Functions

CONSTANTS
  Holder,                   \* threads that hold SharedPtrs
  Allocator,                \* the one that calls alloc
  MaxRaws,                  \* bound: SharedPtrRaws made
  MaxPtrs,                  \* bound: SharedPtrs at a time
  MaxAllocs                 \* bound: calls of alloc

ASSUME SharedPoolAssumption ==
  /\ Allocator \in Holder /\ IsFiniteSet(Holder)
  /\ MaxRaws \in Nat \ {0} /\ MaxPtrs \in Nat /\ MaxAllocs \in Nat

VARIABLES
  allocated_,               \* the raws are 1..allocated_
  ref_cnt_,
  has_data,                 \* has_data[r]: option_data_ is constructed
  link,                     \* next_ of the queue's node
  queue_head,               \* head_ of free_queue_
  free_reader,              \* head_ and tail_ of free_queue_reader_
  ptrs,                     \* ptrs[t][r]: SharedPtrs of t to r
  drop,                     \* drop[t]: a reset that found the last reference
  allocs                    \* calls of alloc so far

raws           == <<allocated_, ref_cnt_, has_data, link, queue_head, free_reader>>
sharedPoolVars == <<raws, ptrs, drop, allocs>>

Raw == 1..MaxRaws

NoDrop == [op |-> "none", raw |-> 0]

SharedPoolInit ==
  /\ allocated_ = 0
  /\ ref_cnt_ = [r \in Raw |-> 0]
  /\ has_data = [r \in Raw |-> FALSE]
  /\ link = [r \in Raw |-> 0]
  /\ queue_head = 0
  /\ free_reader = [head |-> 0, tail |-> 0]
  /\ ptrs = [t \in Holder |-> [r \in Raw |-> 0]]
  /\ drop = [t \in Holder |-> NoDrop]
  /\ allocs = 0

(* The nodes from n on: at[k] is where k steps lead. *)
Chained(links, n) ==
  LET at[k \in 0..MaxRaws] ==
        IF k = 0 THEN n ELSE IF at[k - 1] = 0 THEN 0 ELSE links[at[k - 1]]
  IN [i \in 1..Cardinality({k \in 0..(MaxRaws - 1) : at[k] # 0}) |-> at[i - 1]]

(* The pointers to r, each of a thread. *)
PtrsTo(r) == Cardinality(UNION {{t} \X (1..ptrs[t][r]) : t \in Holder})

-----------------------------------------------------------------------------
(* MpscLinkQueue *)

(* Mutant: tail_ is only set when the reader was empty. *)
StaleTail(reader, n) == IF reader.head = 0 THEN n ELSE reader.tail

NewTail(reader, n) == n

(* Reader::add: the stack is turned round and hung behind what is left. *)
Add(links, reader, n) ==
  IF n = 0 THEN [links |-> links, reader |-> reader]
  ELSE LET stack == Chained(links, n)
           last  == Len(stack)
           turned == [r \in Raw |->
                        IF \E i \in 1..last : stack[i] = r
                          THEN LET i == CHOOSE j \in 1..last : stack[j] = r
                               IN IF i = 1 THEN 0 ELSE stack[i - 1]
                        ELSE IF reader.head # 0 /\ r = reader.tail THEN stack[last]
                        ELSE links[r]]
       IN [links  |-> turned,
           reader |-> [head |-> IF reader.head = 0 THEN stack[last] ELSE reader.head,
                       tail |-> NewTail(reader, n)]]

(* pop_all and the Reader after it *)
PoppedAll == Add(link, free_reader, queue_head)

-----------------------------------------------------------------------------
(* The allocator *)

MayAdd == FoldFunction(+, 0, [r \in Raw |-> PtrsTo(r)]) < MaxPtrs

(* alloc: the raw is nobody else's, so all after pop_all is one step.  A raw    *)
(* that is taken loses its place in the reader: read moves head_ on.          *)
Alloc(t) ==
  /\ t = Allocator /\ drop[t].op = "none"
  /\ allocs < MaxAllocs /\ MayAdd
  /\ LET popped == PoppedAll
         found  == popped.reader.head
         raw    == IF found # 0 THEN found ELSE allocated_ + 1 IN
       /\ raw \in Raw
       /\ allocated_' = IF found # 0 THEN allocated_ ELSE allocated_ + 1
       /\ link' = popped.links
       /\ free_reader' = IF found = 0 THEN popped.reader
                         ELSE [popped.reader EXCEPT !.head = popped.links[found]]
       /\ has_data' = [has_data EXCEPT ![raw] = TRUE]
       /\ ref_cnt_' = [ref_cnt_ EXCEPT ![raw] = @ + 1]
       /\ ptrs' = [ptrs EXCEPT ![t][raw] = @ + 1]
  /\ queue_head' = 0
  /\ allocs' = allocs + 1
  /\ UNCHANGED drop

CalcFreeSize(t) ==
  /\ t = Allocator /\ drop[t].op = "none"
  /\ link' = PoppedAll.links
  /\ free_reader' = PoppedAll.reader
  /\ queue_head' = 0
  /\ UNCHANGED <<allocated_, ref_cnt_, has_data, ptrs, drop, allocs>>

-----------------------------------------------------------------------------
(* SharedPtr *)

(* A copy of a pointer that the thread has. *)
CopyPtr(t, r) ==
  /\ drop[t].op = "none" /\ ptrs[t][r] > 0 /\ MayAdd
  /\ ref_cnt_' = [ref_cnt_ EXCEPT ![r] = @ + 1]
  /\ ptrs' = [ptrs EXCEPT ![t][r] = @ + 1]
  /\ UNCHANGED <<allocated_, has_data, link, queue_head, free_reader, drop, allocs>>

(* A pointer is moved to another thread. *)
MovePtr(t, u, r) ==
  /\ drop[t].op = "none" /\ ptrs[t][r] > 0 /\ u # t
  /\ ptrs' = [ptrs EXCEPT ![t][r] = @ - 1, ![u][r] = @ + 1]
  /\ UNCHANGED <<raws, drop, allocs>>

(* reset: dec tells who held the last reference. *)
Reset(t, r) ==
  /\ drop[t].op = "none" /\ ptrs[t][r] > 0
  /\ ptrs' = [ptrs EXCEPT ![t][r] = @ - 1]
  /\ ref_cnt_' = [ref_cnt_ EXCEPT ![r] = @ - 1]
  /\ drop' = [drop EXCEPT ![t] = IF ref_cnt_[r] = 1 THEN [op |-> "destroy", raw |-> r]
                                 ELSE NoDrop]
  /\ UNCHANGED <<allocated_, has_data, link, queue_head, free_reader, allocs>>

DestroyData(t) ==
  /\ drop[t].op = "destroy"
  /\ has_data' = [has_data EXCEPT ![drop[t].raw] = FALSE]
  /\ drop' = [drop EXCEPT ![t].op = "load"]
  /\ UNCHANGED <<allocated_, ref_cnt_, link, queue_head, free_reader, ptrs, allocs>>

(* The deleter pushes the raw: next_ is where a failed exchange leaves what it *)
(* found.                                                                    *)
LoadNext(t) ==
  /\ drop[t].op = "load"
  /\ link' = [link EXCEPT ![drop[t].raw] = queue_head]
  /\ drop' = [drop EXCEPT ![t].op = "push"]
  /\ UNCHANGED <<allocated_, ref_cnt_, has_data, queue_head, free_reader, ptrs, allocs>>

PushRaw(t) ==
  /\ drop[t].op = "push"
  /\ LET r == drop[t].raw IN
       IF queue_head = link[r]
         THEN /\ queue_head' = r
              /\ drop' = [drop EXCEPT ![t] = NoDrop]
              /\ UNCHANGED link
         ELSE /\ link' = [link EXCEPT ![r] = queue_head]
              /\ UNCHANGED <<queue_head, drop>>
  /\ UNCHANGED <<allocated_, ref_cnt_, has_data, free_reader, ptrs, allocs>>

SharedPoolNext ==
  \E t \in Holder :
    \/ Alloc(t) \/ CalcFreeSize(t)
    \/ \E r \in Raw : CopyPtr(t, r) \/ Reset(t, r) \/ \E u \in Holder : MovePtr(t, u, r)
    \/ DestroyData(t) \/ LoadNext(t) \/ PushRaw(t)

SharedPoolSpec == SharedPoolInit /\ [][SharedPoolNext]_sharedPoolVars

-----------------------------------------------------------------------------
(* free_queue_ and its reader: what ~SharedObjectPool would count. *)
FreeRaws == Chained(link, queue_head) \o Chained(link, free_reader.head)

(* A raw has pointers, as many as ref_cnt_ says, and then its data; or one     *)
(* thread is dropping it; or it is free, once.  So alloc never gives out what *)
(* is in use, and when all pointers are gone ~SharedObjectPool finds every    *)
(* raw (its LOG_CHECK).                                                      *)
PoolCountsRight ==
  \A r \in 1..allocated_ :
    LET free     == Cardinality({i \in DOMAIN FreeRaws : FreeRaws[i] = r})
        dropping == Cardinality({t \in Holder : drop[t].op # "none" /\ drop[t].raw = r})
    IN /\ ref_cnt_[r] = PtrsTo(r)
       /\ free + dropping + (IF PtrsTo(r) > 0 THEN 1 ELSE 0) = 1
       /\ PtrsTo(r) > 0 => has_data[r]
       /\ free > 0 => ~has_data[r]
=============================================================================

------------------------------ MODULE ObjectPool ------------------------------
(***************************************************************************)
(* ObjectPool, where the ActorInfos of a scheduler live: one thread takes    *)
(* storages from a lock-free list, any thread puts them back, and a WeakPtr  *)
(* is read first and checked afterwards.  Every access to head_, to a        *)
(* generation and to the data is a step.                                     *)
(***************************************************************************)
EXTENDS Integers, FiniteSets

CONSTANTS
  PoolThread,               \* threads that hold OwnerPtrs and WeakPtrs
  Creator,                  \* the one that creates
  MaxStorages,              \* bound: storages made
  MaxCreated                \* bound: objects created

ASSUME ObjectPoolAssumption ==
  /\ Creator \in PoolThread /\ "list" \notin PoolThread
  /\ MaxStorages \in Nat \ {0} /\ MaxCreated \in Nat

VARIABLES
  storage_count_,           \* the storages are 1..storage_count_
  free_head,                \* head_ of the free list, 0 for nullptr
  next,                     \* next[s], generation[s], data[s]: the fields of s
  generation,
  data,                     \* the object in s, or 0
  holder,                   \* holder[s]: the thread with its OwnerPtr, or "list"
  weak,                     \* the WeakPtrs made, with the object they were made for
  pool_call,                \* pool_call[t]: what t is doing
  created                   \* objects created so far; the next one is created + 1

storages == <<storage_count_, free_head, next, generation, data>>
poolVars == <<storages, holder, weak, pool_call, created>>

Storage == 1..MaxStorages

PoolIdle == [op |-> "none"]

ObjectPoolInit ==
  /\ storage_count_ = 0
  /\ free_head = 0
  /\ next = [s \in Storage |-> 0]
  /\ generation = [s \in Storage |-> 1]
  /\ data = [s \in Storage |-> 0]
  /\ holder = [s \in Storage |-> "list"]
  /\ weak = {}
  /\ pool_call = [t \in PoolThread |-> PoolIdle]
  /\ created = 0

Doing(t, op) == pool_call[t].op = op
Goes(t, call) == pool_call' = [pool_call EXCEPT ![t] = call]

-----------------------------------------------------------------------------
(* create *)

(* Mutant: a second thread creates, and the list has the ABA problem. *)
AnyMayCreate(t) == TRUE

MayCreate(t) == t = Creator

(* get_storage: there is a free storage, or a new one is made. *)
GetStorage(t) ==
  /\ Doing(t, "none") /\ MayCreate(t) /\ created < MaxCreated
  /\ IF free_head = 0
       THEN /\ storage_count_ < MaxStorages
            /\ storage_count_' = storage_count_ + 1
            /\ Goes(t, [op |-> "init", storage |-> storage_count_ + 1])
       ELSE /\ Goes(t, [op |-> "take"])
            /\ UNCHANGED storage_count_
  /\ UNCHANGED <<free_head, next, generation, data, holder, weak, created>>

LoadHead(t) ==
  /\ Doing(t, "take") /\ free_head # 0
  /\ Goes(t, [op |-> "swing", storage |-> free_head, next |-> next[free_head]])
  /\ UNCHANGED <<storages, holder, weak, created>>

(* The compare-exchange may fail although head_ is what was read. *)
SwingHead(t) ==
  /\ Doing(t, "swing")
  /\ LET call == pool_call[t] IN
       \/ /\ free_head = call.storage
          /\ free_head' = call.next
          /\ Goes(t, [op |-> "init", storage |-> call.storage])
       \/ /\ Goes(t, [op |-> "take"])
          /\ UNCHANGED free_head
  /\ UNCHANGED <<storage_count_, next, generation, data, holder, weak, created>>

(* The new OwnerPtr, and a WeakPtr made from it. *)
InitData(t) ==
  /\ Doing(t, "init")
  /\ LET s == pool_call[t].storage IN
       /\ data' = [data EXCEPT ![s] = created + 1]
       /\ holder' = [holder EXCEPT ![s] = t]
       /\ weak' = weak \union
                  {[storage |-> s, generation |-> generation[s], object |-> created + 1]}
  /\ created' = created + 1
  /\ Goes(t, PoolIdle)
  /\ UNCHANGED <<storage_count_, free_head, next, generation>>

(* An OwnerPtr is moved to another thread. *)
MoveOwner(t, u, s) ==
  /\ Doing(t, "none") /\ holder[s] = t /\ u # t
  /\ holder' = [holder EXCEPT ![s] = u]
  /\ UNCHANGED <<storages, weak, pool_call, created>>

-----------------------------------------------------------------------------
(* release *)

(* Mutant: the generation does not change. *)
KeepGeneration(t, s) ==
  /\ Doing(t, "none") /\ holder[s] = t
  /\ holder' = [holder EXCEPT ![s] = "list"]
  /\ Goes(t, [op |-> "clear", storage |-> s])
  /\ UNCHANGED <<storages, weak, created>>

(* destroy_data ends the generation before it clears the data. *)
EndGeneration(t, s) ==
  /\ Doing(t, "none") /\ holder[s] = t
  /\ generation' = [generation EXCEPT ![s] = @ + 1]
  /\ holder' = [holder EXCEPT ![s] = "list"]
  /\ Goes(t, [op |-> "clear", storage |-> s])
  /\ UNCHANGED <<storage_count_, free_head, next, data, weak, created>>

ClearData(t) ==
  /\ Doing(t, "clear")
  /\ data' = [data EXCEPT ![pool_call[t].storage] = 0]
  /\ Goes(t, [pool_call[t] EXCEPT !.op = "link"])
  /\ UNCHANGED <<storage_count_, free_head, next, generation, holder, weak, created>>

(* release_storage *)
LinkStorage(t) ==
  /\ Doing(t, "link")
  /\ LET s == pool_call[t].storage IN
       /\ next' = [next EXCEPT ![s] = free_head]
       /\ Goes(t, [op |-> "push", storage |-> s, save_head |-> free_head])
  /\ UNCHANGED <<storage_count_, free_head, generation, data, holder, weak, created>>

PushStorage(t) ==
  /\ Doing(t, "push")
  /\ LET call == pool_call[t] IN
       \/ /\ free_head = call.save_head
          /\ free_head' = call.storage
          /\ Goes(t, PoolIdle)
       \/ /\ Goes(t, [op |-> "link", storage |-> call.storage])
          /\ UNCHANGED free_head
  /\ UNCHANGED <<storage_count_, next, generation, data, holder, weak, created>>

-----------------------------------------------------------------------------
(* A WeakPtr: "1. Read an object 2. Check if read was valid via is_alive" *)

ReadWeak(t, w) ==
  /\ Doing(t, "none")
  /\ Goes(t, [op |-> "check", weak |-> w, got |-> data[w.storage]])
  /\ UNCHANGED <<storages, holder, weak, created>>

IsAlive(w) == w.generation = generation[w.storage]

CheckWeak(t) ==
  /\ Doing(t, "check")
  /\ Goes(t, IF IsAlive(pool_call[t].weak) THEN [pool_call[t] EXCEPT !.op = "read"]
             ELSE PoolIdle)
  /\ UNCHANGED <<storages, holder, weak, created>>

(* What was read is used, until the thread does something else. *)
Used(t) ==
  /\ Doing(t, "read")
  /\ Goes(t, PoolIdle)
  /\ UNCHANGED <<storages, holder, weak, created>>

ObjectPoolNext ==
  \E t \in PoolThread :
    \/ GetStorage(t) \/ LoadHead(t) \/ SwingHead(t) \/ InitData(t)
    \/ \E s \in Storage : EndGeneration(t, s) \/ \E u \in PoolThread : MoveOwner(t, u, s)
    \/ ClearData(t) \/ LinkStorage(t) \/ PushStorage(t)
    \/ \E w \in weak : ReadWeak(t, w)
    \/ CheckWeak(t) \/ Used(t)

ObjectPoolSpec == ObjectPoolInit /\ [][ObjectPoolNext]_poolVars

-----------------------------------------------------------------------------
(* The storages of the free list, in MaxStorages steps from head_. *)
Listed ==
  LET after[n \in 0..MaxStorages] ==
        IF n = 0 THEN {free_head} \ {0}
        ELSE after[n - 1] \union ({next[s] : s \in after[n - 1]} \ {0})
  IN after[MaxStorages]

(* A call has taken s from the list, or has not put it back yet. *)
InCall(t, s) ==
  /\ pool_call[t].op \in {"init", "clear", "link", "push"}
  /\ pool_call[t].storage = s

(* A storage is in one place: it has an owner, or one call works on it, or it *)
(* is free; none is lost, so ~ObjectPool, which runs when every object was    *)
(* released, counts them all.                                                *)
StorageInOnePlace ==
  \A s \in 1..storage_count_ :
    LET owners  == IF holder[s] \in PoolThread THEN 1 ELSE 0
        calls   == Cardinality({t \in PoolThread : InCall(t, s)})
        listed  == IF s \in Listed THEN 1 ELSE 0
    IN owners + calls + listed = 1

(* Whoever reads through a WeakPtr and then finds it alive has read the        *)
(* object it was made for, not what took its storage.                        *)
AliveReadsAreValid ==
  \A t \in PoolThread : Doing(t, "read") => pool_call[t].got = pool_call[t].weak.object
=============================================================================

--------------------------- MODULE EpochReclamation ---------------------------
(***************************************************************************)
(* EpochBasedMemoryReclamation: threads read a shared pointer between lock   *)
(* and unlock, replace it and retire what they replaced; a retired object is *)
(* deleted when no thread can hold it any more.                              *)
(*                                                                         *)
(* A step is an access to the global epoch_ or to the epoch of a thread, with *)
(* the thread's own data.  Objects are numbered in the order they are shared. *)
(***************************************************************************)
EXTENDS Integers, FiniteSets

CONSTANTS
  ThreadCount,              \* threads_n
  Skip,                     \* how many locks go by between two checks of lock (30)
  MaxLocks,                 \* bound: locks of a thread
  MaxObjects                \* bound: replacements in all

Reader == 0..(ThreadCount - 1)      \* indices of threads_
Bags   == 0..2                      \* MAX_BAGS
None   == -1

ASSUME EpochAssumption ==
  /\ ThreadCount \in Nat \ {0}
  /\ {Skip, MaxLocks, MaxObjects} \subseteq Nat

VARIABLES
  epoch_,                   \* the global epoch
  epoch,                    \* epoch[t]: twice the thread's epoch, plus 1 when it is idle
  to_skip,
  checked_thread_i,
  bag_i,
  to_delete,                \* to_delete[t][b]: the retired objects in a bag
  doing,                    \* doing[t]: the call of thread t, and how far it is
  loaded,                   \* loaded[t]: the value it read of epoch_
  locks,                    \* locks[t]: how often it locked
  shared,                   \* the object the shared pointer points to
  held,                     \* held[t]: the object thread t uses
  deleted

bagVars  == <<to_skip, checked_thread_i, bag_i, to_delete, deleted>>
userVars == <<locks, shared, held>>
ebmrVars == <<epoch_, epoch, bagVars, doing, loaded, userVars>>

EpochInit ==
  /\ epoch_ = 1
  /\ epoch = [t \in Reader |-> 1]
  /\ to_skip = [t \in Reader |-> 0]
  /\ checked_thread_i = [t \in Reader |-> 0]
  /\ bag_i = [t \in Reader |-> 0]
  /\ to_delete = [t \in Reader |-> [b \in Bags |-> {}]]
  /\ doing = [t \in Reader |-> "out"]
  /\ loaded = [t \in Reader |-> 0]
  /\ locks = [t \in Reader |-> 0]
  /\ shared = 0
  /\ held = [t \in Reader |-> None]
  /\ deleted = {}

Goes(t, from, to) == doing[t] = from /\ doing' = [doing EXCEPT ![t] = to]

Idle(e)      == e % 2 = 1
Undeleted(t) == UNION {to_delete[t][b] : b \in Bags}

-----------------------------------------------------------------------------
(* The epoch of a thread *)

(* Mutant: two bags. *)
TwoBags(b) == (b + 1) % 2

NextBag(b) == (b + 1) % 3

(* set_epoch and rotate_bags: the bag that is used next is emptied. *)
SetEpoch(t, n) ==
  LET next == NextBag(bag_i[t])
  IN  /\ epoch' = [epoch EXCEPT ![t] = 2 * n]
      /\ IF epoch[t] \div 2 # n
           THEN /\ checked_thread_i' = [checked_thread_i EXCEPT ![t] = 0]
                /\ bag_i' = [bag_i EXCEPT ![t] = next]
                /\ to_delete' = [to_delete EXCEPT ![t][next] = {}]
                /\ deleted' = deleted \union to_delete[t][next]
           ELSE UNCHANGED <<checked_thread_i, bag_i, to_delete, deleted>>

(* Mutant: idle() does nothing. *)
NeverIdle(t) == UNCHANGED epoch

BecomeIdle(t) == epoch' = [epoch EXCEPT ![t] = IF Idle(@) THEN @ ELSE @ + 1]

-----------------------------------------------------------------------------
(* lock, and what a thread does while it is locked *)

Lock(t) ==
  /\ Goes(t, "out", "lock")
  /\ locks[t] < MaxLocks
  /\ locks' = [locks EXCEPT ![t] = @ + 1]
  /\ loaded' = [loaded EXCEPT ![t] = epoch_]
  /\ UNCHANGED <<epoch_, epoch, bagVars, shared, held>>

Locked(t) ==
  LET skipping == epoch[t] \div 2 = loaded[t] /\ to_skip[t] > 0
  IN  /\ Goes(t, "lock", IF skipping THEN "in" ELSE "lock_check")
      /\ SetEpoch(t, loaded[t])
      /\ to_skip' = [to_skip EXCEPT ![t] = IF skipping THEN @ - 1 ELSE Skip]
      /\ UNCHANGED <<epoch_, loaded, userVars>>

Use(t) ==
  /\ doing[t] = "in"
  /\ held' = [held EXCEPT ![t] = shared]
  /\ UNCHANGED <<epoch_, epoch, bagVars, doing, loaded, locks, shared>>

(* The thread replaces the shared object and retires the old one. *)
Replace(t) ==
  /\ doing[t] = "in"
  /\ shared < MaxObjects
  /\ shared' = shared + 1
  /\ to_delete' = [to_delete EXCEPT ![t][bag_i[t]] = @ \union {shared}]
  /\ UNCHANGED <<epoch_, epoch, to_skip, checked_thread_i, bag_i, deleted, doing, loaded,
                 locks, held>>

Unlock(t) ==
  /\ Goes(t, "in", "out")
  /\ BecomeIdle(t)
  /\ held' = [held EXCEPT ![t] = None]
  /\ UNCHANGED <<epoch_, bagVars, loaded, locks, shared>>

-----------------------------------------------------------------------------
(* step_check, of a lock or of the loop of retire *)

Afterwards(t) == IF doing[t] \in {"lock_check", "lock_advance", "lock_set"} THEN "in" ELSE "idle"

StepCheck(t) ==
  LET other == epoch[checked_thread_i[t]]
      all   == checked_thread_i[t] + 1 = ThreadCount
  IN  /\ doing[t] \in {"lock_check", "retire_check"}
      /\ IF Idle(other) \/ other \div 2 = epoch[t] \div 2
           THEN /\ checked_thread_i' = [checked_thread_i EXCEPT ![t] = @ + 1]
                /\ doing' = [doing EXCEPT ![t] =
                     IF doing[t] = "lock_check" THEN IF all THEN "lock_advance" ELSE "in"
                     ELSE IF all THEN "retire_advance"
                     ELSE IF Undeleted(t) = {} THEN "idle" ELSE "retire_check"]
           ELSE /\ UNCHANGED checked_thread_i
                /\ doing' = [doing EXCEPT ![t] = Afterwards(t)]
      /\ UNCHANGED <<epoch_, epoch, to_skip, bag_i, to_delete, deleted, loaded, userVars>>

(* All threads were idle or in this epoch when they were looked at. *)
Advance(t) ==
  LET mine == epoch[t] \div 2
  IN  /\ \/ Goes(t, "lock_advance", "lock_set")
         \/ Goes(t, "retire_advance", "retire_set")
      /\ epoch_' = IF epoch_ = mine THEN mine + 1 ELSE epoch_
      /\ loaded' = [loaded EXCEPT ![t] = epoch_']
      /\ UNCHANGED <<epoch, bagVars, userVars>>

Advanced(t) ==
  /\ doing[t] \in {"lock_set", "retire_set"}
  /\ SetEpoch(t, loaded[t])
  /\ to_skip' = [to_skip EXCEPT ![t] = IF epoch[t] \div 2 # loaded[t] THEN 0 ELSE @]
  /\ doing' = [doing EXCEPT ![t] =
       IF doing[t] = "lock_set" THEN "in"
       ELSE IF UNION {to_delete'[t][b] : b \in Bags} = {} THEN "idle" ELSE "retire_check"]
  /\ UNCHANGED <<epoch_, loaded, userVars>>

-----------------------------------------------------------------------------
(* retire_sync, when the thread's Locker is destroyed *)

RetireSync(t) ==
  /\ \/ Goes(t, "out", "retire")
     \/ Goes(t, "in", "retire")
     \/ Goes(t, "again", "retire")
  /\ loaded' = [loaded EXCEPT ![t] = epoch_]
  /\ held' = [held EXCEPT ![t] = None]
  /\ UNCHANGED <<epoch_, epoch, bagVars, locks, shared>>

Retire(t) ==
  /\ Goes(t, "retire", "retire_check")
  /\ SetEpoch(t, loaded[t])
  /\ to_skip' = [to_skip EXCEPT ![t] = IF epoch[t] \div 2 # loaded[t] THEN 0 ELSE @]
  /\ UNCHANGED <<epoch_, loaded, userVars>>

(* Nothing left, or sleep and try again. *)
RetireIdle(t) ==
  /\ Goes(t, "idle", IF Undeleted(t) = {} THEN "done" ELSE "again")
  /\ BecomeIdle(t)
  /\ UNCHANGED <<epoch_, bagVars, loaded, userVars>>

-----------------------------------------------------------------------------

(* What a thread does by itself once it began. *)
Proceed(t) ==
  \/ Locked(t) \/ StepCheck(t) \/ Advance(t) \/ Advanced(t)
  \/ Retire(t) \/ RetireIdle(t) \/ (doing[t] = "again" /\ RetireSync(t))

EpochNext ==
  \E t \in Reader :
    \/ Lock(t) \/ Use(t) \/ Replace(t) \/ Unlock(t) \/ RetireSync(t)
    \/ Proceed(t)

(* Threads run, and unlock after a lock; the Lockers are destroyed in the end. *)
EpochFairness ==
  \A t \in Reader : /\ WF_ebmrVars(Proceed(t))
                    /\ WF_ebmrVars(RetireSync(t))

EpochSpec == EpochInit /\ [][EpochNext]_ebmrVars /\ EpochFairness

-----------------------------------------------------------------------------
(* Properties *)

(* No thread uses a deleted object, and the shared one is not deleted. *)
NoUseAfterRetire ==
  /\ shared \notin deleted
  /\ \A t \in Reader : held[t] \notin deleted

(* retire_sync ends, although it waits for threads that may be locked or in   *)
(* retire_sync themselves, and everything retired is deleted then.            *)
RetireSyncEnds ==
  (\E t \in Reader : doing[t] # "out")
    ~> (deleted = 0..(shared - 1) /\ \A t \in Reader : doing[t] = "done")
=============================================================================

------------------------------ MODULE MpmcWaiter ------------------------------
(***************************************************************************)
(* MpmcSleepyWaiter: worker threads that sleep when there is no work and    *)
(* those who add work and wake them.  Each worker owns a Slot.              *)
(*                                                                         *)
(* The queue of work is `items`, a count.  A worker tries to pop; when it   *)
(* gets nothing it calls wait and tries again when wait returns; when it    *)
(* gets something it calls stop_wait and works, and may add work.  Adding   *)
(* is a push followed by notify.  A step is an access to the atomic state_  *)
(* or a critical section of sleepers_mutex_, with `holder` inside notify's, *)
(* which reads state_ and later writes it.                                  *)
(***************************************************************************)
EXTENDS Integers, Sequences, FiniteSets

CONSTANTS
  Worker,                   \* threads that take work; each has a slot
  Producer,                 \* other threads that add work
  Nobody,                   \* holder of a mutex nobody holds
  MaxItems                  \* bound: items pushed in all

ASSUME WaiterAssumption ==
  /\ Worker # {}
  /\ IsFiniteSet(Worker)
  /\ Worker \intersect Producer = {}
  /\ Nobody \notin Worker \union Producer
  /\ MaxItems \in Nat

VARIABLES
  searching_count,          \* the two halves of state_
  parked_count,
  sleepers_,                \* slots of parked workers; the last one is woken first
  holder,                   \* the thread inside notify's critical section
  slot_state,               \* slot_state[w]: state_ of w's slot
  unpark_flag_,             \* unpark_flag_[w]
  place,                    \* place[t]: the next step of thread t
  items,                    \* work in the queue
  pushed,                   \* items pushed so far
  failed                    \* CHECKs that failed

Thread == Worker \union Producer

waiter     == <<searching_count, parked_count, sleepers_, holder>>
waiterVars == <<waiter, slot_state, unpark_flag_, place, items, pushed, failed>>

WaiterInit ==
  /\ searching_count = 0
  /\ parked_count = 0
  /\ sleepers_ = <<>>
  /\ holder = Nobody
  /\ slot_state = [w \in Worker |-> "Work"]
  /\ unpark_flag_ = [w \in Worker |-> FALSE]
  /\ place = [t \in Thread |-> IF t \in Worker THEN "look" ELSE "idle"]
  /\ items = 0
  /\ pushed = 0
  /\ failed = {}

Asleep(w) == \E i \in DOMAIN sleepers_ : sleepers_[i] = w

At(t, from, to) == place[t] = from /\ place' = [place EXCEPT ![t] = to]

Check(name, condition) == failed' = IF condition THEN failed ELSE failed \union {name}

-----------------------------------------------------------------------------
(* The client: a worker's loop, and those who add work. *)

Push(t) ==
  /\ place[t] \in {"idle", "work"}
  /\ pushed < MaxItems
  /\ pushed' = pushed + 1
  /\ items' = items + 1
  /\ place' = [place EXCEPT ![t] = "notify"]
  /\ UNCHANGED <<waiter, slot_state, unpark_flag_, failed>>

TryPop(w) ==
  /\ place[w] = "look"
  /\ IF items > 0
       THEN items' = items - 1 /\ place' = [place EXCEPT ![w] = "stop_wait"]
       ELSE UNCHANGED items /\ place' = [place EXCEPT ![w] = "wait"]
  /\ UNCHANGED <<waiter, slot_state, unpark_flag_, pushed, failed>>

Worked(w) ==
  /\ At(w, "work", "look")
  /\ UNCHANGED <<waiter, slot_state, unpark_flag_, items, pushed, failed>>

-----------------------------------------------------------------------------
(* wait *)

WorkToSearch(w) ==
  /\ At(w, "wait", "look")
  /\ slot_state[w] = "Work"
  /\ searching_count' = searching_count + 1
  /\ slot_state' = [slot_state EXCEPT ![w] = "Search"]
  /\ UNCHANGED <<parked_count, sleepers_, holder, unpark_flag_, items, pushed, failed>>

(* Mutant: the last searcher sleeps at once. *)
SearchToSleepAtOnce(w) ==
  /\ At(w, "wait", "park")
  /\ slot_state[w] = "Search"
  /\ holder = Nobody
  /\ Check("wait", searching_count # 0 /\ ~unpark_flag_[w])
  /\ searching_count' = searching_count - 1
  /\ parked_count' = parked_count + 1
  /\ sleepers_' = Append(sleepers_, w)
  /\ slot_state' = [slot_state EXCEPT ![w] = "Sleep"]
  /\ UNCHANGED <<holder, unpark_flag_, items, pushed>>

(* The worker joins the sleepers; the last one searching searches once more. *)
SearchToSleep(w) ==
  /\ place[w] = "wait"
  /\ slot_state[w] = "Search"
  /\ holder = Nobody
  /\ Check("wait", searching_count # 0 /\ ~unpark_flag_[w])
  /\ searching_count' = searching_count - 1
  /\ parked_count' = parked_count + 1
  /\ sleepers_' = Append(sleepers_, w)
  /\ slot_state' = [slot_state EXCEPT ![w] = "Sleep"]
  /\ place' = [place EXCEPT ![w] = IF searching_count = 1 THEN "look" ELSE "park"]
  /\ UNCHANGED <<holder, unpark_flag_, items, pushed>>

(* The search once more found nothing. *)
SleepAfterAll(w) ==
  /\ At(w, "wait", "park")
  /\ slot_state[w] = "Sleep"
  /\ UNCHANGED <<waiter, slot_state, unpark_flag_, items, pushed, failed>>

(* park returns when unpark has set the flag. *)
Resume(w) ==
  /\ At(w, "park", "look")
  /\ unpark_flag_[w]
  /\ unpark_flag_' = [unpark_flag_ EXCEPT ![w] = FALSE]
  /\ slot_state' = [slot_state EXCEPT ![w] = "Search"]
  /\ UNCHANGED <<waiter, items, pushed, failed>>

-----------------------------------------------------------------------------
(* stop_wait *)

StopWorking(w) ==
  /\ At(w, "stop_wait", "work")
  /\ slot_state[w] = "Work"
  /\ UNCHANGED <<waiter, slot_state, unpark_flag_, items, pushed, failed>>

StopSearching(w) ==
  /\ At(w, "stop_wait", "leave_search")
  /\ slot_state[w] = "Search"
  /\ UNCHANGED <<waiter, slot_state, unpark_flag_, items, pushed, failed>>

(* Found by the search once more: leave the sleepers, whose count turns into *)
(* a searcher's.                                                              *)
LeaveSleepers(w) ==
  /\ At(w, "stop_wait", "leave_search")
  /\ slot_state[w] = "Sleep"
  /\ holder = Nobody
  /\ \E i \in DOMAIN sleepers_ :
       /\ sleepers_[i] = w
       /\ sleepers_' = SubSeq(sleepers_, 1, i - 1) \o SubSeq(sleepers_, i + 1, Len(sleepers_))
  /\ searching_count' = searching_count + 1
  /\ parked_count' = parked_count - 1
  /\ slot_state' = [slot_state EXCEPT ![w] = "Search"]
  /\ UNCHANGED <<holder, unpark_flag_, items, pushed, failed>>

(* The same, when a notify has taken the worker from the sleepers already. *)
CancelPark(w) ==
  /\ At(w, "stop_wait", "leave_search")
  /\ slot_state[w] = "Sleep"
  /\ holder = Nobody
  /\ ~Asleep(w)
  /\ Check("cancel_park", unpark_flag_[w])
  /\ unpark_flag_' = [unpark_flag_ EXCEPT ![w] = FALSE]
  /\ slot_state' = [slot_state EXCEPT ![w] = "Search"]
  /\ UNCHANGED <<waiter, items, pushed>>

(* The last searcher wakes another before it works. *)
SearchToWork(w) ==
  /\ place[w] = "leave_search"
  /\ Check("stop_wait", searching_count # 0)
  /\ searching_count' = searching_count - 1
  /\ slot_state' = [slot_state EXCEPT ![w] = "Work"]
  /\ place' = [place EXCEPT ![w] = IF searching_count = 1 THEN "notify" ELSE "work"]
  /\ UNCHANGED <<parked_count, sleepers_, holder, unpark_flag_, items, pushed>>

-----------------------------------------------------------------------------
(* notify *)

Notified(t) == IF t \in Worker THEN "work" ELSE "idle"

(* Without the lock: nothing to do while somebody searches or nobody sleeps. *)
NotifyLook(t) ==
  /\ place[t] = "notify"
  /\ place' = [place EXCEPT ![t] = IF searching_count > 0 \/ parked_count = 0
                                     THEN Notified(t) ELSE "lock"]
  /\ UNCHANGED <<waiter, slot_state, unpark_flag_, items, pushed, failed>>

(* Under the lock: the same question again. *)
NotifyLock(t) ==
  /\ place[t] = "lock"
  /\ holder = Nobody
  /\ IF searching_count > 0
       THEN UNCHANGED <<holder, failed>> /\ place' = [place EXCEPT ![t] = Notified(t)]
       ELSE /\ Check("notify", parked_count = Len(sleepers_))
            /\ IF sleepers_ = <<>>
                 THEN UNCHANGED holder /\ place' = [place EXCEPT ![t] = Notified(t)]
                 ELSE holder' = t /\ place' = [place EXCEPT ![t] = "unpark"]
  /\ UNCHANGED <<searching_count, parked_count, sleepers_, slot_state, unpark_flag_,
                 items, pushed>>

(* The last sleeper is woken, and counted as searching. *)
Unpark(t) ==
  LET w == sleepers_[Len(sleepers_)]
  IN  /\ place[t] = "unpark"
      /\ place' = [place EXCEPT ![t] = Notified(t)]
      /\ sleepers_' = SubSeq(sleepers_, 1, Len(sleepers_) - 1)
      /\ searching_count' = searching_count + 1
      /\ parked_count' = parked_count - 1
      /\ unpark_flag_' = [unpark_flag_ EXCEPT ![w] = TRUE]
      /\ holder' = Nobody
      /\ UNCHANGED <<slot_state, items, pushed, failed>>

Notify(t) == NotifyLook(t) \/ NotifyLock(t) \/ Unpark(t)

Wait(w) == WorkToSearch(w) \/ SearchToSleep(w) \/ SleepAfterAll(w) \/ Resume(w)

StopWait(w) ==
  StopWorking(w) \/ StopSearching(w) \/ LeaveSleepers(w) \/ CancelPark(w) \/ SearchToWork(w)

WaiterStep ==
  \/ \E t \in Thread : Push(t) \/ Notify(t)
  \/ \E w \in Worker : TryPop(w) \/ Worked(w) \/ Wait(w) \/ StopWait(w)

WaiterNext == failed = {} /\ WaiterStep

(* Threads go on with what they have begun; nobody has to add work. *)
WaiterFairness ==
  /\ \A t \in Thread : WF_waiterVars(failed = {} /\ Notify(t))
  /\ \A w \in Worker :
       WF_waiterVars(failed = {} /\ (TryPop(w) \/ Worked(w) \/ Wait(w) \/ StopWait(w)))

WaiterSafeSpec == WaiterInit /\ [][WaiterNext]_waiterVars
WaiterSpec     == WaiterSafeSpec /\ WaiterFairness

-----------------------------------------------------------------------------
(* Properties *)

(* Workers state_ counts as searching. *)
Searching ==
  {w \in Worker : \/ slot_state[w] = "Search"
                  \/ slot_state[w] = "Sleep" /\ ~Asleep(w)}

(* No CHECK of the code fails, and the packed state_ counts exactly the      *)
(* workers that search (a woken one included, before it runs) and those that *)
(* are on the list.                                                          *)
WaiterCounts ==
  /\ slot_state \in [Worker -> {"Work", "Search", "Sleep"}]
  /\ unpark_flag_ \in [Worker -> BOOLEAN]
  /\ sleepers_ \in Seq(Worker)
  /\ failed = {}
  /\ searching_count = Cardinality(Searching)
  /\ parked_count = Len(sleepers_)

Notifying == {t \in Thread : place[t] \in {"notify", "lock", "unpark"}}

(* w will look at the queue again by itself. *)
Awake(w) == place[w] \notin {"wait", "park"} \/ slot_state[w] # "Sleep" \/ unpark_flag_[w]

(* The main invariant at MpmcWaiter.h:190: after notify there is a worker in *)
(* Search or Work state.  While there is work and no notify is under way,    *)
(* some worker will look at the queue again.                                 *)
SomeoneAwake == items > 0 => Notifying # {} \/ \E w \in Worker : Awake(w)

(* Work that was pushed is taken in the end: no wakeup of wait and notify is *)
(* lost.                                                                      *)
WorkIsTaken == (items > 0) ~> (items = 0)
=============================================================================

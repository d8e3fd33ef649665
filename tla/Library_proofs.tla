---------------------------- MODULE Library_proofs ---------------------------
(***************************************************************************)
(* Proofs about the concurrent queues and what queues and tables are built    *)
(* with: the waiter that puts workers to sleep, memory reclamation by epochs, *)
(* the queue that other threads steal from, the chain of buffers that a        *)
(* stream of bytes goes through, the heap of deadlines, and the timers that    *)
(* are kept in it.                                                           *)
(***************************************************************************)
EXTENDS MpmcWaiter, EpochReclamation, StealingQueue, ChainBuffer, KHeapCalls, Timers,
        FiniteSetTheorems, FunctionTheorems, NaturalsInduction, SequenceTheorems,
        WellFoundedInduction, TLAPS

-----------------------------------------------------------------------------
(* MpmcWaiter, for any workers, producers and work                           *)
-----------------------------------------------------------------------------

WaiterPlace == {"idle", "look", "wait", "park", "stop_wait", "leave_search", "work",
          "notify", "lock", "unpark"}

WaiterType ==
  /\ slot_state \in [Worker -> {"Work", "Search", "Sleep"}]
  /\ unpark_flag_ \in [Worker -> BOOLEAN]
  /\ sleepers_ \in Seq(Worker)
  /\ place \in [Thread -> WaiterPlace]
  /\ items \in Nat
  /\ searching_count \in Nat
  /\ parked_count = Len(sleepers_)
  /\ failed = {}

Listed(w, s) == \E i \in 1..Len(s) : s[i] = w
Once(s)  == \A i, j \in 1..Len(s) : s[i] = s[j] => i = j

(* A sleeping worker is either on the list or has been told to wake up. *)
Told ==
  \A w \in Worker :
    /\ Listed(w, sleepers_) => slot_state[w] = "Sleep" /\ ~unpark_flag_[w]
    /\ unpark_flag_[w] => slot_state[w] = "Sleep"
    /\ slot_state[w] = "Sleep" => Listed(w, sleepers_) \/ unpark_flag_[w]

(* Where a worker is agrees with the state of its slot. *)
InPlace ==
  \A w \in Worker :
    /\ place[w] # "idle"
    /\ place[w] = "park" => slot_state[w] = "Sleep"
    /\ place[w] = "leave_search" => slot_state[w] = "Search"
    /\ place[w] \in {"work", "notify", "lock", "unpark"} => slot_state[w] = "Work"

(* The thread in notify's critical section has a sleeper to wake. *)
LockHeld ==
  /\ \A t \in Thread : place[t] = "unpark" <=> holder = t
  /\ holder # Nobody => sleepers_ # <<>>

Searchers == {w \in Worker : slot_state[w] = "Search" \/ unpark_flag_[w]}

Counted == searching_count = Cardinality(Searchers)

WaiterInv ==
  /\ WaiterType
  /\ Once(sleepers_)
  /\ Told
  /\ InPlace
  /\ LockHeld
  /\ Counted
  /\ SomeoneAwake

-----------------------------------------------------------------------------
(* Lists without repetition *)

LEMMA AppendOnce ==
  ASSUME NEW S, NEW s \in Seq(S), NEW w \in S, Once(s), ~Listed(w, s)
  PROVE  LET a == Append(s, w)
         IN  /\ a \in Seq(S) /\ Len(a) = Len(s) + 1
             /\ Once(a)
             /\ \A x : Listed(x, a) <=> Listed(x, s) \/ x = w
<1> DEFINE a == Append(s, w)
<1>1. /\ a \in Seq(S) /\ Len(a) = Len(s) + 1 /\ Len(s) \in Nat
      /\ \A i \in 1..Len(s) : a[i] = s[i]
      /\ a[Len(s) + 1] = w
  OBVIOUS
<1> HIDE DEF a
<1>2. Once(a)
  BY <1>1, SMT DEF Once, Listed
<1>3. ASSUME NEW x PROVE Listed(x, a) <=> Listed(x, s) \/ x = w
  BY <1>1, SMT DEF Listed
<1> QED
  BY <1>1, <1>2, <1>3 DEF a

LEMMA FrontOnce ==
  ASSUME NEW S, NEW s \in Seq(S), s # <<>>, Once(s)
  PROVE  LET a == SubSeq(s, 1, Len(s) - 1)
             w == s[Len(s)]
         IN  /\ a \in Seq(S) /\ Len(a) = Len(s) - 1 /\ w \in S
             /\ Once(a) /\ Listed(w, s)
             /\ \A x : Listed(x, a) <=> Listed(x, s) /\ x # w
<1> DEFINE a == SubSeq(s, 1, Len(s) - 1)
           w == s[Len(s)]
<1>0. Len(s) \in Nat \ {0} /\ w \in S
  BY EmptySeq, LenProperties, ElementOfSeq
<1>1. /\ a \in Seq(S) /\ Len(a) = Len(s) - 1 /\ Len(s) \in Nat \ {0} /\ w \in S
      /\ \A i \in 1..(Len(s) - 1) : a[i] = s[i]
  <2> DEFINE n == Len(s) - 1
  <2>1. n \in Nat /\ \A i \in 1..n : s[i] \in S
    BY <1>0, ElementOfSeq, SMT
  <2> HIDE DEF n
  <2>2. /\ SubSeq(s, 1, n) \in Seq(S)
        /\ Len(SubSeq(s, 1, n)) = n
        /\ \A i \in 1..n : SubSeq(s, 1, n)[i] = s[i]
    BY <2>1, SubSeqProperties, SMT
  <2> QED
    BY <1>0, <2>2 DEF n
<1> HIDE DEF a
<1>2. Once(a) /\ Listed(w, s)
  BY <1>1, SMT DEF Once, Listed
<1>3. ASSUME NEW x PROVE Listed(x, a) <=> Listed(x, s) /\ x # w
  BY <1>1, SMT DEF Listed, Once
<1> QED
  BY <1>1, <1>2, <1>3 DEF a

LEMMA RemoveOnce ==
  ASSUME NEW S, NEW s \in Seq(S), NEW k \in 1..Len(s), Once(s)
  PROVE  LET a == SubSeq(s, 1, k - 1) \o SubSeq(s, k + 1, Len(s))
         IN  /\ a \in Seq(S) /\ Len(a) = Len(s) - 1
             /\ Once(a)
             /\ \A x : Listed(x, a) <=> Listed(x, s) /\ x # s[k]
<1> DEFINE b == SubSeq(s, 1, k - 1)
           c == SubSeq(s, k + 1, Len(s))
           a == b \o c
<1>1. /\ b \in Seq(S) /\ Len(b) = k - 1 /\ Len(s) \in Nat
      /\ \A i \in 1..(k - 1) : b[i] = s[i]
  OBVIOUS
<1>2. /\ c \in Seq(S) /\ Len(c) = Len(s) - k
      /\ \A i \in 1..(Len(s) - k) : c[i] = s[i + k]
  OBVIOUS
<1> HIDE DEF b, c
<1>3. /\ a \in Seq(S) /\ Len(a) = Len(s) - 1
      /\ \A i \in 1..(Len(s) - 1) : a[i] = IF i < k THEN s[i] ELSE s[i + 1]
  <2>1. /\ a \in Seq(S)
        /\ Len(a) = Len(b) + Len(c)
        /\ \A i \in 1..(Len(b) + Len(c)) : a[i] = IF i <= Len(b) THEN b[i] ELSE c[i - Len(b)]
    BY <1>1, <1>2, ConcatProperties, Zenon
  <2> HIDE DEF a
  <2>2. Len(b) + Len(c) = Len(s) - 1
    BY <1>1, <1>2, SMT
  <2>3. ASSUME NEW i \in 1..(Len(s) - 1) PROVE a[i] = IF i < k THEN s[i] ELSE s[i + 1]
    <3>1. a[i] = IF i <= k - 1 THEN b[i] ELSE c[i - (k - 1)]
      BY <1>1, <2>1, <2>2, Zenon
    <3>2. CASE i < k
      BY <1>1, <3>1, <3>2, SMT
    <3>3. CASE ~(i < k)
      <4>1. i - (k - 1) \in 1..(Len(s) - k) /\ i - (k - 1) + k = i + 1 /\ ~(i <= k - 1)
        BY <1>1, <3>3, SMT
      <4> QED
        BY <1>2, <3>1, <3>3, <4>1
    <3> QED
      BY <3>2, <3>3
  <2> QED
    BY <2>1, <2>2, <2>3
<1> HIDE DEF a
<1>4. Once(a)
  <2> SUFFICES ASSUME NEW i \in 1..Len(a), NEW j \in 1..Len(a), a[i] = a[j]
               PROVE  i = j
    BY DEF Once
  <2>1. \A q \in 1..Len(a) : /\ a[q] = s[IF q < k THEN q ELSE q + 1]
                             /\ (IF q < k THEN q ELSE q + 1) \in 1..Len(s)
    BY <1>1, <1>3
  <2>2. PICK x \in 1..Len(s) : x = (IF i < k THEN i ELSE i + 1) /\ a[i] = s[x]
    BY <2>1
  <2>3. PICK y \in 1..Len(s) : y = (IF j < k THEN j ELSE j + 1) /\ a[j] = s[y]
    BY <2>1
  <2>4. x = y
    BY <2>2, <2>3 DEF Once
  <2> HIDE DEF a
  <2>5. i \in Nat /\ j \in Nat /\ k \in Nat
    BY <1>1, <1>3
  <2> QED BY <2>2, <2>3, <2>4, <2>5
<1>5. ASSUME NEW x PROVE Listed(x, a) <=> Listed(x, s) /\ x # s[k]
  <2>1. ASSUME Listed(x, a) PROVE Listed(x, s) /\ x # s[k]
    BY <1>1, <1>3, <2>1, SMT DEF Listed, Once
  <2>2. ASSUME Listed(x, s), x # s[k] PROVE Listed(x, a)
    <3>1. PICK i \in 1..Len(s) : s[i] = x
      BY <2>2 DEF Listed
    <3>2. CASE i < k
      <4>1. i \in 1..(Len(s) - 1)
        BY <1>1, <3>2, SMT
      <4> QED
        BY <1>3, <3>1, <3>2, <4>1 DEF Listed
    <3>3. CASE i > k
      <4>1. i - 1 \in 1..(Len(s) - 1) /\ ~(i - 1 < k) /\ (i - 1) + 1 = i
        BY <1>1, <3>3, SMT
      <4>2. a[i - 1] = x
        BY <1>3, <3>1, <4>1, SMT
      <4> QED
        BY <1>3, <4>1, <4>2 DEF Listed
    <3> QED
      BY <1>1, <2>2, <3>1, <3>2, <3>3, SMT
  <2> QED
    BY <2>1, <2>2
<1> QED
  BY <1>3, <1>4, <1>5 DEF a, b, c

-----------------------------------------------------------------------------
(* What the counts say *)

LEMMA SearchersFinite == IsFiniteSet(Searchers) /\ Cardinality(Searchers) \in Nat
<1>1. IsFiniteSet(Searchers)
  BY WaiterAssumption, FS_Subset DEF WaiterAssumption, Searchers
<1> QED
  BY <1>1, FS_CardinalityType

(* A searcher is counted, and is awake. *)
LEMMA CountMeansAwake ==
  ASSUME WaiterType, Told, Counted
  PROVE  /\ \A w \in Searchers : searching_count > 0
         /\ searching_count > 0 => \E w \in Worker : Awake(w)
<1>1. searching_count = 0 <=> Searchers = {}
  BY SearchersFinite, FS_EmptySet DEF Counted
<1>2. \A w \in Searchers : w \in Worker /\ Awake(w)
  BY DEF Searchers, Awake
<1> QED
  BY <1>1, <1>2, SMT DEF WaiterType

(* The same of the next state. *)
LEMMA CountMeansAwakeNext ==
  ASSUME WaiterType', Told', Counted', searching_count' > 0
  PROVE  \E w \in Worker : Awake(w)'
<1>1. IsFiniteSet(Searchers')
  BY WaiterAssumption, FS_Subset DEF WaiterAssumption, Searchers
<1>2. Searchers' # {}
  BY <1>1, FS_EmptySet, SMT DEF Counted
<1> QED
  BY <1>2 DEF Searchers, Awake

(* With nobody on the list, everybody is awake. *)
LEMMA NoSleeperMeansAwake ==
  ASSUME WaiterType, Told, sleepers_ = <<>>
  PROVE  \E w \in Worker : Awake(w)
<1>1. PICK w \in Worker : TRUE
  BY WaiterAssumption DEF WaiterAssumption
<1>2. ~Listed(w, sleepers_)
  BY SMT DEF Listed
<1> QED
  BY <1>1, <1>2 DEF Told, Awake

LEMMA SearcherAdded ==
  ASSUME NEW w \in Worker, WaiterType, Counted, w \notin Searchers,
         Searchers' = Searchers \union {w}, searching_count' = searching_count + 1
  PROVE  Counted' /\ searching_count' \in Nat /\ searching_count' > 0
<1>1. Cardinality(Searchers') = Cardinality(Searchers) + 1
  BY SearchersFinite, FS_AddElement
<1> QED
  BY <1>1, SearchersFinite, SMT DEF Counted, WaiterType

LEMMA SearcherRemoved ==
  ASSUME NEW w \in Worker, WaiterType, Counted, w \in Searchers,
         Searchers' = Searchers \ {w}, searching_count' = searching_count - 1
  PROVE  Counted' /\ searching_count' \in Nat /\ searching_count # 0
<1>1. /\ Cardinality(Searchers') = Cardinality(Searchers) - 1
      /\ Cardinality(Searchers) # 0
  BY SearchersFinite, FS_RemoveElement, FS_EmptySet
<1> QED
  BY <1>1, SearchersFinite, SMT DEF Counted, WaiterType

(* The invariant speaks of the CHECKs and of the packed state_. *)
LEMMA InvariantGivesCounts == WaiterInv => WaiterCounts
<1> SUFFICES ASSUME WaiterInv PROVE WaiterCounts
  OBVIOUS
<1>1. Searching = Searchers
  BY LenProperties DEF Searching, Searchers, Asleep, WaiterInv, Told, Listed, WaiterType
<1> QED
  BY <1>1 DEF WaiterInv, WaiterType, Counted, WaiterCounts

-----------------------------------------------------------------------------
(* Induction *)

LEMMA WaiterInitInvariant == WaiterInit => WaiterInv
<1> SUFFICES ASSUME WaiterInit PROVE WaiterInv
  OBVIOUS
<1> USE WaiterAssumption DEF WaiterAssumption, WaiterInit, Thread
<1>1. WaiterType /\ Once(sleepers_) /\ Told /\ InPlace
  BY SMT DEF WaiterType, Once, Told, Listed, InPlace, WaiterPlace
<1>2. LockHeld
  BY DEF LockHeld
<1>3. Counted
  <2>1. Searchers = {}
    BY DEF Searchers
  <2> QED
    BY <2>1, FS_EmptySet DEF Counted
<1>4. SomeoneAwake
  BY SMT DEF SomeoneAwake
<1> QED
  BY <1>1, <1>2, <1>3, <1>4 DEF WaiterInv

(* Steps that touch neither the slots nor the list. *)
LEMMA ClientStep ==
  ASSUME WaiterInv, failed = {},
         \/ \E t \in Thread : Push(t)
         \/ \E w \in Worker : TryPop(w) \/ Worked(w) \/ SleepAfterAll(w) \/ StopWorking(w)
  PROVE  WaiterInv'
<1> USE DEF WaiterInv, At, waiter
<1>1. /\ WaiterType' /\ holder' = holder /\ sleepers_' = sleepers_
      /\ slot_state' = slot_state /\ unpark_flag_' = unpark_flag_
      /\ searching_count' = searching_count
  BY SMT DEF WaiterType, Push, TryPop, Worked, SleepAfterAll, StopWorking, WaiterPlace, Thread
<1>2. Once(sleepers_)' /\ Told' /\ Counted'
  BY <1>1 DEF Once, Told, Listed, Counted, Searchers
<1>3. InPlace'
  BY <1>1, SMT DEF InPlace, WaiterType, Push, TryPop, Worked, SleepAfterAll, StopWorking, Thread
<1>4. LockHeld'
  BY <1>1, SMT DEF LockHeld, WaiterType, Push, TryPop, Worked, SleepAfterAll, StopWorking, Thread
<1>5. SomeoneAwake'
  <2>1. ASSUME NEW t \in Thread, Push(t) PROVE SomeoneAwake'
    BY <1>1, <2>1, SMT DEF SomeoneAwake, Notifying, WaiterType, Push
  <2>2. ASSUME NEW w \in Worker, TryPop(w) PROVE SomeoneAwake'
    BY <1>1, <2>2, SMT DEF SomeoneAwake, Awake, WaiterType, TryPop, Thread
  <2>3. ASSUME NEW w \in Worker, Worked(w) \/ StopWorking(w) PROVE SomeoneAwake'
    BY <1>1, <2>3, SMT DEF SomeoneAwake, Awake, WaiterType, Worked, StopWorking, Thread
  <2>4. ASSUME NEW w \in Worker, SleepAfterAll(w) PROVE SomeoneAwake'
    BY <1>1, <2>4, SMT DEF SomeoneAwake, Awake, Notifying, WaiterType, SleepAfterAll, Thread
  <2> QED
    BY <2>1, <2>2, <2>3, <2>4
<1> QED
  BY <1>1, <1>2, <1>3, <1>4, <1>5

(* Steps of a worker that change its slot and leave the list. *)
LEMMA SlotStep ==
  ASSUME WaiterInv, failed = {}, NEW w \in Worker,
         WorkToSearch(w) \/ Resume(w) \/ StopSearching(w) \/ CancelPark(w)
  PROVE  WaiterInv'
<1> USE DEF WaiterInv, At, waiter
<1>1. /\ holder' = holder /\ sleepers_' = sleepers_ /\ parked_count' = parked_count
      /\ place'[w] \in {"look", "leave_search"} /\ place[w] \notin {"unpark", "work"}
      /\ slot_state' = [slot_state EXCEPT ![w] = "Search"]
      /\ \A t \in Thread \ {w} : place'[t] = place[t]
      /\ unpark_flag_' = [unpark_flag_ EXCEPT ![w] = FALSE]
      /\ items' = items
  BY SMT DEF WaiterType, Told, WorkToSearch, Resume, StopSearching, CancelPark, Thread
<1>2. failed' = {}
  BY SMT DEF WaiterType, WorkToSearch, Resume, StopSearching, CancelPark, Check, Asleep, Told, Listed
<1>3. Counted' /\ searching_count' \in Nat
  <2>1. CASE WorkToSearch(w)
    <3>1. w \notin Searchers /\ Searchers' = Searchers \union {w}
      BY <2>1, SMT DEF Searchers, Told, WaiterType, WorkToSearch
    <3> QED
      BY <2>1, <3>1, SearcherAdded DEF WorkToSearch
  <2>2. CASE Resume(w) \/ StopSearching(w) \/ CancelPark(w)
    <3>1. searching_count' = searching_count
      BY <2>2 DEF Resume, StopSearching, CancelPark
    <3>2. Searchers' = Searchers
      BY <2>2, SMT DEF Searchers, Told, WaiterType, Resume, StopSearching, CancelPark, Asleep, Listed
    <3> QED
      BY <3>1, <3>2 DEF Counted, WaiterType
  <2> QED
    BY <2>1, <2>2
<1>4. WaiterType'
  <2>1. place' \in [Thread -> WaiterPlace]
    BY SMT DEF WaiterType, WorkToSearch, Resume, StopSearching, CancelPark, WaiterPlace
  <2> QED
    BY <1>1, <1>2, <1>3, <2>1, SMT DEF WaiterType
<1>5. Once(sleepers_)' /\ ~Listed(w, sleepers_)
  BY <1>1, SMT DEF Once, Told, Listed, WorkToSearch, Resume, StopSearching, CancelPark, Asleep
<1>6. Told'
  BY <1>1, <1>5, SMT DEF Told, Listed, WaiterType
<1>7. InPlace'
  BY <1>1, SMT DEF InPlace, WaiterType, Thread
<1>8. LockHeld'
  BY <1>1, SMT DEF LockHeld, WaiterType, Thread
<1>9. SomeoneAwake'
  BY <1>1 DEF SomeoneAwake, Awake
<1> QED
  BY <1>3, <1>4, <1>5, <1>6, <1>7, <1>8, <1>9, <1>1 DEF Once

(* A worker joins the sleepers. *)
LEMMA SleepStep ==
  ASSUME WaiterInv, failed = {}, NEW w \in Worker, SearchToSleep(w)
  PROVE  WaiterInv'
<1> USE DEF WaiterInv
<1>1. /\ w \in Searchers /\ ~unpark_flag_[w] /\ ~Listed(w, sleepers_)
      /\ w \in Thread /\ holder = Nobody
  BY SMT DEF Searchers, Told, SearchToSleep, Thread
<1>2. /\ sleepers_' \in Seq(Worker) /\ Len(sleepers_') = Len(sleepers_) + 1
      /\ Once(sleepers_)'
      /\ \A x : Listed(x, sleepers_') <=> Listed(x, sleepers_) \/ x = w
  BY <1>1, AppendOnce, Zenon DEF WaiterType, SearchToSleep
<1>3. Counted' /\ searching_count' \in Nat /\ searching_count # 0
  <2>1. Searchers' = Searchers \ {w}
    BY <1>1, SMT DEF Searchers, SearchToSleep, WaiterType
  <2> QED
    BY <1>1, <2>1, SearcherRemoved DEF SearchToSleep
<1>4. WaiterType'
  BY <1>1, <1>2, <1>3, SMT DEF WaiterType, SearchToSleep, Check, WaiterPlace
<1>5. Told'
  BY <1>1, <1>2, SMT DEF Told, SearchToSleep, WaiterType
<1>6. InPlace'
  BY <1>1, SMT DEF InPlace, SearchToSleep, WaiterType, Thread
<1>7. LockHeld'
  BY <1>1, SMT DEF LockHeld, SearchToSleep, WaiterType
<1>8. SomeoneAwake'
  <2>1. CASE searching_count = 1
    BY <1>1, <2>1, SMT DEF SomeoneAwake, Awake, SearchToSleep, WaiterType
  <2>2. CASE searching_count # 1
    <3>1. searching_count' > 0
      BY <1>3, <2>2, SMT DEF SearchToSleep, WaiterType
    <3>2. \E x \in Worker : Awake(x)'
      BY <1>3, <1>4, <1>5, <3>1, CountMeansAwakeNext
    <3> QED
      BY <3>2 DEF SomeoneAwake
  <2> QED
    BY <2>1, <2>2
<1> QED
  BY <1>2, <1>3, <1>4, <1>5, <1>6, <1>7, <1>8

(* A worker that found work leaves the sleepers. *)
LEMMA LeaveStep ==
  ASSUME WaiterInv, failed = {}, NEW w \in Worker, LeaveSleepers(w)
  PROVE  WaiterInv'
<1> USE DEF WaiterInv, At
<1>1. PICK i \in 1..Len(sleepers_) :
        /\ sleepers_[i] = w
        /\ sleepers_' = SubSeq(sleepers_, 1, i - 1) \o SubSeq(sleepers_, i + 1, Len(sleepers_))
  BY LenProperties DEF LeaveSleepers, WaiterType
<1>2. /\ Listed(w, sleepers_) /\ w \notin Searchers /\ ~unpark_flag_[w]
      /\ w \in Thread /\ holder = Nobody /\ slot_state[w] = "Sleep"
  BY <1>1 DEF Searchers, Told, LeaveSleepers, Thread, Listed
<1>3. /\ sleepers_' \in Seq(Worker) /\ Len(sleepers_') = Len(sleepers_) - 1
      /\ Once(sleepers_)'
      /\ \A x : Listed(x, sleepers_') <=> Listed(x, sleepers_) /\ x # w
  BY <1>1, RemoveOnce DEF WaiterType
<1>4. Counted' /\ searching_count' \in Nat
  <2>1. Searchers' = Searchers \union {w}
    BY <1>2, SMT DEF Searchers, LeaveSleepers, WaiterType
  <2> QED
    BY <1>2, <2>1, SearcherAdded DEF LeaveSleepers
<1>5. WaiterType'
  <2>1. /\ slot_state' \in [Worker -> {"Work", "Search", "Sleep"}]
        /\ place' \in [Thread -> WaiterPlace]
        /\ UNCHANGED <<unpark_flag_, items, failed>>
    BY <1>2, SMT DEF WaiterType, LeaveSleepers, WaiterPlace
  <2>2. parked_count' = Len(sleepers_')
    BY <1>3, SMT DEF WaiterType, LeaveSleepers
  <2> QED
    BY <1>3, <1>4, <2>1, <2>2 DEF WaiterType
<1>6. Told'
  BY <1>2, <1>3, SMT DEF Told, LeaveSleepers, WaiterType
<1>7. InPlace'
  BY <1>2, SMT DEF InPlace, LeaveSleepers, WaiterType, Thread
<1>8. LockHeld'
  BY <1>2, SMT DEF LockHeld, LeaveSleepers, WaiterType
<1>9. SomeoneAwake'
  BY <1>2, SMT DEF SomeoneAwake, Awake, LeaveSleepers, WaiterType
<1> QED
  BY <1>3, <1>4, <1>5, <1>6, <1>7, <1>8, <1>9

(* A searcher turns to its work. *)
LEMMA WorkStep ==
  ASSUME WaiterInv, failed = {}, NEW w \in Worker, SearchToWork(w)
  PROVE  WaiterInv'
<1> USE DEF WaiterInv
<1>1. /\ w \in Searchers /\ ~unpark_flag_[w] /\ ~Listed(w, sleepers_)
      /\ w \in Thread /\ holder # w /\ slot_state[w] = "Search"
  BY SMT DEF Searchers, Told, InPlace, LockHeld, SearchToWork, Thread
<1>2. Counted' /\ searching_count' \in Nat /\ searching_count # 0
  <2>1. Searchers' = Searchers \ {w}
    BY <1>1, SMT DEF Searchers, SearchToWork, WaiterType
  <2> QED
    BY <1>1, <2>1, SearcherRemoved DEF SearchToWork
<1>3. WaiterType'
  BY <1>1, <1>2, SMT DEF WaiterType, SearchToWork, Check, WaiterPlace
<1>4. Told'
  BY <1>1, SMT DEF Told, SearchToWork, WaiterType, Listed
<1>5. InPlace'
  BY <1>1, SMT DEF InPlace, SearchToWork, WaiterType, Thread
<1>6. LockHeld'
  BY <1>1, SMT DEF LockHeld, SearchToWork, WaiterType
<1>7. SomeoneAwake' /\ Once(sleepers_)'
  BY <1>1, SMT DEF SomeoneAwake, Awake, SearchToWork, WaiterType, Once
<1> QED
  BY <1>2, <1>3, <1>4, <1>5, <1>6, <1>7

(* notify without anybody to wake, and its first two looks. *)
LEMMA LookStep ==
  ASSUME WaiterInv, failed = {}, NEW t \in Thread, NotifyLook(t) \/ NotifyLock(t)
  PROVE  WaiterInv'
<1> USE DEF WaiterInv, waiter
<1>1. /\ sleepers_' = sleepers_ /\ slot_state' = slot_state /\ unpark_flag_' = unpark_flag_
      /\ searching_count' = searching_count /\ parked_count' = parked_count
      /\ items' = items
  BY DEF NotifyLook, NotifyLock
<1>2. WaiterType'
  BY <1>1, SMT DEF WaiterType, NotifyLook, NotifyLock, Check, WaiterPlace, Notified, Thread
<1>3. Once(sleepers_)' /\ Told' /\ Counted'
  BY <1>1 DEF Once, Told, Listed, Counted, Searchers
<1>4. InPlace'
  BY <1>1, SMT DEF InPlace, WaiterType, NotifyLook, NotifyLock, Notified, Thread
<1>5. LockHeld'
  BY <1>1, WaiterAssumption, SMT
  DEF WaiterAssumption, LockHeld, WaiterType, NotifyLook, NotifyLock, Notified, Thread
<1>6. SomeoneAwake'
  <2>1. CASE place'[t] \in {"lock", "unpark"}
    BY <1>1, <2>1, SMT DEF SomeoneAwake, Notifying
  <2>2. CASE place'[t] \notin {"lock", "unpark"}
    <3>1. searching_count > 0 \/ parked_count = 0
      BY <2>2, SMT DEF NotifyLook, NotifyLock, WaiterType
    <3>2. PICK x \in Worker : Awake(x)
      BY <3>1, CountMeansAwake, NoSleeperMeansAwake, EmptySeq, SMT DEF WaiterType
    <3>3. Awake(x)'
      BY <1>1, <2>2, <3>2, SMT DEF Awake, NotifyLook, NotifyLock, Notified, WaiterType, Thread
    <3> QED
      BY <3>3 DEF SomeoneAwake
  <2> QED
    BY <2>1, <2>2
<1> QED
  BY <1>2, <1>3, <1>4, <1>5, <1>6

(* notify wakes the last sleeper. *)
LEMMA UnparkStep ==
  ASSUME WaiterInv, failed = {}, NEW t \in Thread, Unpark(t)
  PROVE  WaiterInv'
<1> DEFINE w == sleepers_[Len(sleepers_)]
<1> USE DEF WaiterInv
<1>1. holder = t /\ sleepers_ # <<>>
  BY WaiterAssumption DEF LockHeld, Unpark, WaiterAssumption, Thread
<1>2. /\ sleepers_' \in Seq(Worker) /\ Len(sleepers_') = Len(sleepers_) - 1
      /\ w \in Worker /\ Listed(w, sleepers_)
      /\ Once(sleepers_)'
      /\ \A x : Listed(x, sleepers_') <=> Listed(x, sleepers_) /\ x # w
  BY <1>1, FrontOnce DEF WaiterType, Unpark
<1>3. /\ place' = [place EXCEPT ![t] = Notified(t)]
      /\ searching_count' = searching_count + 1 /\ parked_count' = parked_count - 1
      /\ unpark_flag_' = [unpark_flag_ EXCEPT ![w] = TRUE]
      /\ holder' = Nobody
      /\ UNCHANGED <<slot_state, items, failed>>
  BY DEF Unpark
<1> HIDE DEF w
<1>4. slot_state[w] = "Sleep" /\ w \notin Searchers
  BY <1>2 DEF Told, Searchers
<1>5. Counted' /\ searching_count' \in Nat /\ searching_count' > 0
  <2>1. Searchers' = Searchers \union {w}
    BY <1>2, <1>3, SMT DEF Searchers, WaiterType
  <2> QED
    BY <1>2, <1>3, <1>4, <2>1, SearcherAdded
<1>6. WaiterType'
  <2>1. place' \in [Thread -> WaiterPlace]
    BY <1>3, SMT DEF WaiterType, Notified, WaiterPlace
  <2>2. unpark_flag_' \in [Worker -> BOOLEAN]
    BY <1>2, <1>3 DEF WaiterType
  <2>3. parked_count' = Len(sleepers_')
    BY <1>2, <1>3, SMT DEF WaiterType
  <2> QED
    BY <1>2, <1>3, <1>5, <2>1, <2>2, <2>3 DEF WaiterType
<1>7. Told'
  BY <1>2, <1>3, <1>4, SMT DEF Told, WaiterType
<1>8. InPlace'
  <2>1. place[t] = "unpark"
    BY DEF Unpark
  <2> QED
    BY <1>3, <2>1, SMT DEF InPlace, WaiterType, Notified, Thread
<1>9. LockHeld'
  BY <1>1, <1>3, WaiterAssumption, SMT
  DEF LockHeld, WaiterType, Notified, WaiterAssumption, Thread
<1>10. SomeoneAwake'
  BY <1>5, <1>6, <1>7, CountMeansAwakeNext DEF SomeoneAwake
<1> QED
  BY <1>2, <1>5, <1>6, <1>7, <1>8, <1>9, <1>10

LEMMA WaiterStepInvariant == WaiterInv /\ [WaiterNext]_waiterVars => WaiterInv'
<1> SUFFICES ASSUME WaiterInv, [WaiterNext]_waiterVars PROVE WaiterInv'
  OBVIOUS
<1>1. CASE UNCHANGED waiterVars
  BY <1>1 DEF waiterVars, waiter, WaiterInv, WaiterType, Once, Told, Listed, InPlace, LockHeld,
              Counted, Searchers, SomeoneAwake, Awake, Notifying
<1>2. CASE WaiterNext
  <2>1. failed = {}
    BY <1>2 DEF WaiterNext
  <2>2. CASE \E t \in Thread : Push(t) \/ Notify(t)
    BY <2>1, <2>2, ClientStep, LookStep, UnparkStep DEF Notify
  <2>3. CASE \E w \in Worker : TryPop(w) \/ Worked(w) \/ Wait(w) \/ StopWait(w)
    BY <2>1, <2>3, ClientStep, SlotStep, SleepStep, LeaveStep, WorkStep DEF Wait, StopWait
  <2> QED
    BY <1>2, <2>2, <2>3 DEF WaiterNext, WaiterStep
<1> QED
  BY <1>1, <1>2

LEMMA WaiterInvariant == WaiterSafeSpec => []WaiterInv
BY WaiterInitInvariant, WaiterStepInvariant, PTL DEF WaiterSafeSpec

-----------------------------------------------------------------------------
(* No CHECK of wait, stop_wait, cancel_park and notify fails, and the packed *)
(* state_ counts the searching workers and the listed ones exactly.          *)
THEOREM CountsAreRight == WaiterSafeSpec => []WaiterCounts
BY WaiterInvariant, InvariantGivesCounts, PTL

(* While there is work, a worker is going to look at the queue, or a notify   *)
(* is under way: no wakeup of wait and notify is lost.                        *)
THEOREM NoWakeupLost == WaiterSafeSpec => []SomeoneAwake
<1>1. WaiterInv => SomeoneAwake
  BY DEF WaiterInv
<1> QED
  BY <1>1, WaiterInvariant, PTL

-----------------------------------------------------------------------------
(* EpochBasedMemoryReclamation, for any threads, locks and replacements: a    *)
(* thread that uses an object keeps the global epoch from advancing more than *)
(* once after the object was retired, and three bags are only gone through in *)
(* two advances of it.                                                        *)
-----------------------------------------------------------------------------

EpochPlace ==
  {"out", "lock", "lock_check", "lock_advance", "lock_set", "in", "retire", "retire_check",
   "retire_advance", "retire_set", "idle", "again", "done"}

(* A thread that has read epoch_ and not yet made it its own. *)
Loading   == {"lock", "lock_set", "retire", "retire_set"}
Advancing == {"lock_advance", "retire_advance"}
Setting   == {"lock_set", "retire_set"}
Inside    == {"lock_check", "lock_advance", "lock_set", "in"}

EpochOf(t) == epoch[t] \div 2

EpochType ==
  /\ epoch_ \in Nat
  /\ epoch \in [Reader -> Nat]
  /\ checked_thread_i \in [Reader -> Nat]
  /\ bag_i \in [Reader -> Bags]
  /\ to_delete \in [Reader -> [Bags -> SUBSET (0..shared - 1)]]
  /\ doing \in [Reader -> EpochPlace]
  /\ loaded \in [Reader -> Nat]
  /\ shared \in Nat
  /\ held \in [Reader -> Nat \union {None}]
  /\ deleted \subseteq 0..shared - 1

(* Nobody is ahead of the global epoch, nor of what it has read of it. *)
Behind ==
  \A t \in Reader :
    /\ EpochOf(t) <= epoch_ /\ loaded[t] <= epoch_
    /\ doing[t] \in Loading => EpochOf(t) <= loaded[t]
    /\ doing[t] \in Setting => EpochOf(t) < loaded[t]

(* step_check looks at a thread that exists, and at all before epoch_ goes on. *)
InRange ==
  \A t \in Reader :
    /\ doing[t] \in Advancing => checked_thread_i[t] = ThreadCount
    /\ doing[t] \notin Advancing \union Setting => checked_thread_i[t] < ThreadCount

Users ==
  \A t \in Reader :
    /\ held[t] # None => doing[t] = "in"
    /\ doing[t] \in Inside => ~Idle(epoch[t])

(* The global epoch may still advance although t is locked: t is in it, or    *)
(* somebody in it has looked at t already.                                    *)
MayAdvance(t) ==
  \/ EpochOf(t) = epoch_
  \/ \E u \in Reader : EpochOf(u) = epoch_ /\ checked_thread_i[u] > t

(* n is at most one before the last epoch that there may be while t is locked. *)
Late(n, t) == n >= epoch_ \/ (n >= epoch_ - 1 /\ ~MayAdvance(t))

(* A retired object that t still uses, by the age of the bag it is in. *)
Kept(t, v, b) ==
  held[t] \in to_delete[v][b] =>
    /\ doing[v] \in Loading => Late(loaded[v], t)
    /\ bag_i[v] = NextBag(b) => Late(EpochOf(v), t)
    /\ b = NextBag(bag_i[v]) => EpochOf(v) = epoch_ /\ ~MayAdvance(t)

EpochInv ==
  /\ EpochType /\ Behind /\ InRange /\ Users
  /\ \A t \in Reader : held[t] \notin deleted
  /\ \A t, v \in Reader, b \in Bags : Kept(t, v, b)

-----------------------------------------------------------------------------
(* Numbers *)

LEMMA Halves ==
  ASSUME NEW n \in Nat
  PROVE  /\ (2 * n) \div 2 = n /\ ~Idle(2 * n)
         /\ n \div 2 \in Nat
         /\ ~Idle(n) => (n + 1) \div 2 = n \div 2
PROOF BY SMT DEF Idle

LEMMA ThreeBags ==
  ASSUME NEW a \in Bags, NEW b \in Bags
  PROVE  /\ NextBag(a) \in Bags /\ NextBag(a) # a
         /\ NextBag(NextBag(a)) # a
         /\ NextBag(a) = NextBag(b) => a = b
         /\ a = b \/ a = NextBag(b) \/ b = NextBag(a)
PROOF BY SMT DEF Bags, NextBag

LEMMA ReaderNat == Reader \subseteq Nat /\ ThreadCount \in Nat /\ \A t \in Reader : t < ThreadCount
PROOF BY EpochAssumption, SMT DEF Reader

-----------------------------------------------------------------------------

LEMMA EpochInitially == EpochInit => EpochInv
PROOF
  <1> SUFFICES ASSUME EpochInit
               PROVE  EpochInv
    OBVIOUS
  <1>1. EpochType
    BY SMT DEF EpochInit, EpochType, Bags, None, EpochPlace
  <1>2. Behind /\ InRange /\ Users
    BY ReaderNat, SMT
       DEF EpochInit, Behind, InRange, Users, EpochOf, Loading, Advancing, Setting, Inside, None,
           Idle, Reader
  <1>3. \A t, v \in Reader, b \in Bags : Kept(t, v, b)
    BY SMT DEF EpochInit, Kept
  <1> QED BY <1>1, <1>2, <1>3, SMT DEF EpochInv, EpochInit

(* What set_epoch does, when the epoch is new and when it is not. *)
LEMMA SetEpochFacts ==
  ASSUME EpochType, NEW w \in Reader, NEW n \in Nat, SetEpoch(w, n)
  PROVE  /\ epoch' \in [Reader -> Nat]
         /\ EpochOf(w)' = n /\ ~Idle(epoch'[w])
         /\ \A u \in Reader : u # w => epoch'[u] = epoch[u]
         /\ EpochOf(w) # n =>
              /\ checked_thread_i' = [checked_thread_i EXCEPT ![w] = 0]
              /\ bag_i' = [bag_i EXCEPT ![w] = NextBag(bag_i[w])]
              /\ to_delete' = [to_delete EXCEPT ![w][NextBag(bag_i[w])] = {}]
              /\ deleted' = deleted \union to_delete[w][NextBag(bag_i[w])]
         /\ EpochOf(w) = n => UNCHANGED <<checked_thread_i, bag_i, to_delete, deleted>>
PROOF
  <1>1. epoch' = [epoch EXCEPT ![w] = 2 * n] /\ epoch \in [Reader -> Nat] /\ 2 * n \in Nat
    BY SMT DEF SetEpoch, EpochType
  <1>2. epoch'[w] = 2 * n
    BY <1>1
  <1>3. EpochOf(w)' = n /\ ~Idle(epoch'[w])
    BY <1>2, Halves DEF EpochOf
  <1> QED BY <1>1, <1>3, SMT DEF SetEpoch, EpochOf

(* A thread makes its own what it has read of the global epoch. *)
LEMMA SetStep ==
  ASSUME EpochInv, NEW w \in Reader, doing[w] \in Loading, SetEpoch(w, loaded[w]),
         NEW p \in {"in", "lock_check", "retire_check", "idle"},
         doing' = [doing EXCEPT ![w] = p],
         UNCHANGED <<epoch_, loaded, userVars>>
  PROVE  EpochInv'
PROOF
  <1> USE ReaderNat DEF EpochInv
  <1> DEFINE n    == loaded[w]
             next == NextBag(bag_i[w])
  <1>1. n \in Nat /\ next \in Bags /\ bag_i[w] \in Bags /\ n <= epoch_ /\ EpochOf(w) <= n
    BY ThreeBags, SMT DEF EpochType, Behind
  <1>2. /\ epoch' \in [Reader -> Nat]
        /\ EpochOf(w)' = n /\ ~Idle(epoch'[w])
        /\ \A u \in Reader : u # w => epoch'[u] = epoch[u]
        /\ EpochOf(w) # n =>
             /\ checked_thread_i' = [checked_thread_i EXCEPT ![w] = 0]
             /\ bag_i' = [bag_i EXCEPT ![w] = next]
             /\ to_delete' = [to_delete EXCEPT ![w][next] = {}]
             /\ deleted' = deleted \union to_delete[w][next]
        /\ EpochOf(w) = n => UNCHANGED <<checked_thread_i, bag_i, to_delete, deleted>>
    BY <1>1, SetEpochFacts
  <1>3. \A u \in Reader : u # w => EpochOf(u)' = EpochOf(u)
    BY <1>2 DEF EpochOf
  <1>4. \A u \in Reader : EpochOf(u) \in Nat
    BY Halves DEF EpochOf, EpochType
  <1>5. held[w] = None
    BY SMT DEF Users, Loading
  <1> HIDE DEF n, next
  <1>6. EpochType'
    <2>1. checked_thread_i' \in [Reader -> Nat] /\ bag_i' \in [Reader -> Bags]
      BY <1>1, <1>2, SMT DEF EpochType
    <2>2. /\ to_delete' \in [Reader -> [Bags -> SUBSET (0..shared - 1)]]
          /\ deleted' \subseteq 0..shared - 1
      <3>1. CASE EpochOf(w) # n
        <4> DEFINE Objects == 0..shared - 1
        <4>1. to_delete \in [Reader -> [Bags -> SUBSET Objects]] /\ deleted \subseteq Objects
          BY DEF EpochType
        <4> HIDE DEF Objects
        <4>2. /\ to_delete' \in [Reader -> [Bags -> SUBSET Objects]]
              /\ deleted' \subseteq Objects
          BY <1>1, <1>2, <3>1, <4>1, SMT
        <4> QED BY <4>2 DEF Objects
      <3>2. CASE EpochOf(w) = n
        BY <1>2, <3>2 DEF EpochType
      <3> QED BY <3>1, <3>2
    <2>3. doing' \in [Reader -> EpochPlace]
      BY SMT DEF EpochType, EpochPlace
    <2> QED BY <1>2, <2>1, <2>2, <2>3 DEF EpochType, userVars
  <1>7. Behind'
    BY <1>1, <1>2, <1>3, SMT DEF Behind, EpochType, Loading, Setting
  <1>8. InRange'
    <2>1. doing[w] \in Setting => EpochOf(w) # n
      BY <1>1, <1>4, SMT DEF Behind, n
    <2>2. checked_thread_i'[w] < ThreadCount
      <3>1. CASE EpochOf(w) # n
        BY <1>2, <3>1, SMT DEF EpochType
      <3>2. CASE EpochOf(w) = n
        BY <1>2, <2>1, <3>2, SMT DEF InRange, Loading, Advancing, Setting
      <3> QED BY <3>1, <3>2
    <2> QED BY <1>2, <2>2, SMT DEF InRange, EpochType, Advancing, Setting
  <1>9. Users'
    BY <1>2, <1>5, SMT DEF Users, EpochType, Inside, userVars
  <1>10. ASSUME NEW t \in Reader, held[t] # None, MayAdvance(t)'
         PROVE  MayAdvance(t)
    <2>1. t # w
      BY <1>5, <1>10
    <2>2. \A u \in Reader : (EpochOf(u) = epoch_ /\ checked_thread_i[u] > t) \in BOOLEAN
      OBVIOUS
    <2> QED BY <1>2, <1>3, <1>10, <2>1, SMT DEF MayAdvance, EpochType
  <1>11. ASSUME NEW t \in Reader, held[t] # None, NEW m, Late(m, t)
         PROVE  Late(m, t)'
    BY <1>10, <1>11 DEF Late
  <1>12. ASSUME NEW t \in Reader, NEW v \in Reader, NEW b \in Bags
         PROVE  Kept(t, v, b)'
    <2> SUFFICES ASSUME held[t] \in to_delete'[v][b]
                 PROVE  Kept(t, v, b)'
      BY DEF Kept, userVars
    <2>1. held[t] \in to_delete[v][b] /\ (v = w /\ EpochOf(w) # n => b # next)
      <3>1. CASE EpochOf(w) # n
        BY <1>1, <1>2, <3>1, SMT DEF EpochType
      <3>2. CASE EpochOf(w) = n
        BY <1>2, <3>2
      <3> QED BY <3>1, <3>2
    <2>2. held[t] # None
      BY <2>1, SMT DEF EpochType, None
    <2>3. /\ doing[v] \in Loading => Late(loaded[v], t)
          /\ bag_i[v] = NextBag(b) => Late(EpochOf(v), t)
          /\ b = NextBag(bag_i[v]) => EpochOf(v) = epoch_ /\ ~MayAdvance(t)
      BY <2>1 DEF Kept
    <2>4. CASE v # w \/ EpochOf(w) = n
      <3>1. bag_i'[v] = bag_i[v] /\ EpochOf(v)' = EpochOf(v)
        BY <1>2, <1>3, <2>4, SMT DEF EpochType
      <3>2. doing'[v] \in Loading => doing[v] \in Loading
        BY SMT DEF EpochType, Loading
      <3> QED BY <1>10, <1>11, <2>2, <2>3, <3>1, <3>2 DEF Kept
    <2>5. CASE v = w /\ EpochOf(w) # n
      <3>1. bag_i'[w] = next /\ doing'[w] \notin Loading /\ b # next
        BY <1>2, <2>1, <2>5, SMT DEF EpochType, Loading
      <3>2. Late(n, t)
        BY <2>3, <2>5 DEF n
      <3>3. ASSUME b = NextBag(next)
            PROVE  n = epoch_ /\ ~MayAdvance(t)
        <4>1. bag_i[w] = NextBag(b)
          BY <1>1, <3>3, SMT DEF next, NextBag, Bags
        <4>2. EpochOf(w) >= epoch_ \/ (EpochOf(w) >= epoch_ - 1 /\ ~MayAdvance(t))
          BY <2>3, <2>5, <4>1 DEF Late
        <4>3. EpochOf(w) < n /\ n <= epoch_ /\ EpochOf(w) \in Nat /\ n \in Nat /\ epoch_ \in Nat
          BY <1>1, <1>4, <2>5, SMT DEF EpochType
        <4> QED BY <4>2, <4>3
      <3> QED BY <1>2, <1>10, <1>11, <2>2, <2>5, <3>1, <3>2, <3>3 DEF Kept
    <2> QED BY <2>4, <2>5
  <1>13. ASSUME NEW t \in Reader
         PROVE  held'[t] \notin deleted'
    <2>1. CASE EpochOf(w) = n
      BY <1>2, <2>1 DEF userVars
    <2>2. CASE EpochOf(w) # n
      <3>1. held[t] \notin to_delete[w][next]
        BY <1>1, <1>4, <2>2, SMT DEF Kept, EpochType, next
      <3> QED BY <1>2, <2>2, <3>1, SMT DEF userVars
    <2> QED BY <2>1, <2>2
  <1> QED BY <1>6, <1>7, <1>8, <1>9, <1>12, <1>13 DEF EpochInv

-----------------------------------------------------------------------------
(* The other steps leave bags and epochs, or one of them, alone. *)

LEMMA CheckStep ==
  ASSUME EpochInv, NEW u \in Reader, StepCheck(u)
  PROVE  EpochInv'
PROOF
  <1> USE ReaderNat DEF EpochInv
  <1> DEFINE i == checked_thread_i[u]
  <1>1. /\ doing[u] \in {"lock_check", "retire_check"}
        /\ UNCHANGED <<epoch_, epoch, to_skip, bag_i, to_delete, deleted, loaded, userVars>>
        /\ \A v \in Reader : EpochOf(v)' = EpochOf(v)
    BY DEF StepCheck, EpochOf
  <1>2. i \in Nat /\ i < ThreadCount /\ i \in Reader
    <2>1. i \in Nat /\ i < ThreadCount
      BY <1>1, SMT DEF InRange, EpochType, Advancing, Setting
    <2> HIDE DEF i
    <2> QED BY <2>1, SMT DEF Reader
  <1>3. \/ /\ Idle(epoch[i]) \/ EpochOf(i) = EpochOf(u)
           /\ checked_thread_i' = [checked_thread_i EXCEPT ![u] = @ + 1]
           /\ doing'[u] \in {"lock_advance", "retire_advance"} <=> i + 1 = ThreadCount
        \/ /\ UNCHANGED checked_thread_i
           /\ doing'[u] \notin {"lock_advance", "retire_advance"}
    BY <1>1, SMT DEF StepCheck, EpochType, EpochOf, Afterwards
  <1>4. /\ doing'[u] \in {"lock_advance", "retire_advance", "retire_check", "idle", "in"}
        /\ doing'[u] \in {"lock_advance", "in"} => doing[u] = "lock_check"
        /\ \A v \in Reader : v # u => doing'[v] = doing[v]
        /\ doing' \in [Reader -> EpochPlace]
    BY <1>1, SMT DEF StepCheck, EpochType, Afterwards, EpochPlace
  <1>5. EpochType'
    BY <1>1, <1>2, <1>3, <1>4, SMT DEF EpochType, userVars
  <1>6. Behind'
    BY <1>1, <1>4, SMT DEF Behind, Loading, Setting
  <1>7. InRange'
    BY <1>1, <1>2, <1>3, <1>4, SMT DEF InRange, EpochType, Advancing, Setting
  <1>8. Users'
    BY <1>1, <1>4, SMT DEF Users, Inside, userVars
  <1>9. ASSUME NEW t \in Reader, held[t] # None, MayAdvance(t)'
        PROVE  MayAdvance(t)
    <2>1. ~Idle(epoch[t])
      BY <1>9 DEF Users, Inside
    <2>2. PICK v \in Reader : \/ EpochOf(t) = epoch_
                              \/ EpochOf(v) = epoch_ /\ checked_thread_i'[v] > t
      BY <1>1, <1>9, SMT DEF MayAdvance
    <2>3. CASE v = u
      BY <1>2, <1>3, <2>1, <2>2, <2>3, SMT DEF MayAdvance, EpochType
    <2>4. CASE v # u
      BY <1>3, <2>2, <2>4, SMT DEF MayAdvance, EpochType
    <2> QED BY <2>3, <2>4
  <1>10. ASSUME NEW t \in Reader, held[t] # None, NEW m, Late(m, t)
         PROVE  Late(m, t)'
    BY <1>1, <1>9, <1>10 DEF Late
  <1>11. ASSUME NEW t \in Reader, NEW v \in Reader, NEW b \in Bags
         PROVE  Kept(t, v, b)'
    <2>1. held[t] \in to_delete[v][b] => held[t] # None
      BY SMT DEF EpochType, None
    <2>2. doing'[v] \in Loading => doing[v] \in Loading
      BY <1>4, SMT DEF Loading
    <2> QED BY <1>1, <1>9, <1>10, <2>1, <2>2 DEF Kept, userVars
  <1> QED BY <1>1, <1>5, <1>6, <1>7, <1>8, <1>11 DEF EpochInv, userVars

(* The global epoch goes on: it was the last time for everyone locked. *)
LEMMA AdvanceStep ==
  ASSUME EpochInv, NEW u \in Reader, Advance(u)
  PROVE  EpochInv'
PROOF
  <1> USE ReaderNat DEF EpochInv
  <1>1. /\ doing[u] \in Advancing
        /\ doing'[u] \in Setting
        /\ doing'[u] \in Inside => doing[u] \in Inside
        /\ \A v \in Reader : v # u => doing'[v] = doing[v]
        /\ doing' \in [Reader -> EpochPlace]
    BY SMT DEF Advance, Goes, EpochType, Advancing, Setting, Inside, EpochPlace
  <1>2. /\ epoch_' = IF epoch_ = EpochOf(u) THEN EpochOf(u) + 1 ELSE epoch_
        /\ loaded' = [loaded EXCEPT ![u] = epoch_']
        /\ UNCHANGED <<epoch, bagVars, userVars>>
        /\ \A v \in Reader : EpochOf(v)' = EpochOf(v)
    BY DEF Advance, EpochOf
  <1>3. \A v \in Reader : EpochOf(v) \in Nat /\ EpochOf(v) <= epoch_
    BY Halves DEF EpochOf, EpochType, Behind
  <1>4. epoch_' \in Nat /\ epoch_ <= epoch_' /\ EpochOf(u) < epoch_' /\ epoch_ \in Nat
    BY <1>2, <1>3, SMT DEF EpochType
  <1>5. EpochType'
    BY <1>1, <1>2, <1>4, SMT DEF EpochType, userVars, bagVars
  <1>6. Behind'
    BY <1>1, <1>2, <1>3, <1>4, SMT DEF Behind, EpochType, Loading, Setting, Advancing
  <1>7. InRange'
    BY <1>1, <1>2, SMT DEF InRange, Advancing, Setting, bagVars
  <1>8. Users'
    BY <1>1, <1>2, SMT DEF Users, Inside, Advancing, Setting, userVars
  <1>9. ASSUME NEW t \in Reader, epoch_' # epoch_
        PROVE  MayAdvance(t) /\ ~MayAdvance(t)'
    <2>1. EpochOf(u) = epoch_ /\ checked_thread_i[u] > t
      BY <1>1, <1>2, <1>9 DEF InRange
    <2>2. \A v \in Reader : EpochOf(v)' # epoch_'
      BY <1>2, <1>3, <1>9, <2>1, SMT
    <2> QED BY <2>1, <2>2 DEF MayAdvance
  <1>10. ASSUME NEW t \in Reader, epoch_' = epoch_
         PROVE  MayAdvance(t)' <=> MayAdvance(t)
    BY <1>2, <1>10 DEF MayAdvance, bagVars
  <1>11. ASSUME NEW t \in Reader, NEW m \in Nat, Late(m, t)
         PROVE  Late(m, t)'
    BY <1>2, <1>4, <1>9, <1>10, <1>11, SMT DEF Late
  <1>12. ASSUME NEW t \in Reader, NEW v \in Reader, NEW b \in Bags
         PROVE  Kept(t, v, b)'
    <2>1. loaded[v] \in Nat /\ EpochOf(v) \in Nat
      BY <1>3 DEF EpochType
    <2>2. v = u => Late(loaded[v], t)'
      BY <1>2, <1>4, SMT DEF Late, EpochType
    <2>3. v # u => loaded'[v] = loaded[v] /\ doing'[v] = doing[v]
      BY <1>1, <1>2 DEF EpochType
    <2> QED BY <1>2, <1>9, <1>10, <1>11, <2>1, <2>2, <2>3 DEF Kept, userVars, bagVars
  <1> QED BY <1>2, <1>5, <1>6, <1>7, <1>8, <1>12 DEF EpochInv, userVars, bagVars

(* lock and retire_sync read the global epoch. *)
LEMMA LoadStep ==
  ASSUME EpochInv, NEW u \in Reader, doing[u] # "in" \/ held' = [held EXCEPT ![u] = None],
         NEW p \in {"lock", "retire"}, doing' = [doing EXCEPT ![u] = p],
         held' = held \/ held' = [held EXCEPT ![u] = None],
         doing[u] \in {"out", "in", "again"},
         loaded' = [loaded EXCEPT ![u] = epoch_],
         UNCHANGED <<epoch_, epoch, bagVars, shared>>
  PROVE  EpochInv'
PROOF
  <1> USE ReaderNat DEF EpochInv
  <1>1. /\ \A v \in Reader : EpochOf(v)' = EpochOf(v)
        /\ \A t \in Reader : held'[t] \in {held[t], None} /\ (t = u => held'[t] = None)
        /\ \A v \in Reader : v # u => doing'[v] = doing[v] /\ loaded'[v] = loaded[v]
        /\ doing'[u] = p /\ loaded'[u] = epoch_
    BY SMT DEF EpochOf, EpochType, Users
  <1>2. EpochType'
    BY <1>1, SMT DEF EpochType, EpochPlace, bagVars
  <1>3. Behind'
    BY <1>1, SMT DEF Behind, EpochType, Loading, Setting
  <1>4. InRange'
    BY <1>1, SMT DEF InRange, Advancing, Setting, bagVars
  <1>5. Users'
    BY <1>1, SMT DEF Users, Inside
  <1>6. ASSUME NEW t \in Reader
        PROVE  MayAdvance(t)' <=> MayAdvance(t)
    BY <1>1 DEF MayAdvance, bagVars
  <1>7. ASSUME NEW t \in Reader, NEW v \in Reader, NEW b \in Bags
        PROVE  Kept(t, v, b)'
    <2>1. v = u => Late(loaded[v], t)'
      BY <1>1, SMT DEF Late, EpochType
    <2>2. None \notin to_delete[v][b]
      BY SMT DEF EpochType, None
    <2> QED BY <1>1, <1>6, <2>1, <2>2 DEF Kept, Late, bagVars
  <1>8. ASSUME NEW t \in Reader
        PROVE  held'[t] \notin deleted'
    BY <1>1, SMT DEF EpochType, None, bagVars
  <1> QED BY <1>2, <1>3, <1>4, <1>5, <1>7, <1>8 DEF EpochInv

(* unlock, and the end of a round of retire_sync. *)
LEMMA IdleStep ==
  ASSUME EpochInv, NEW u \in Reader, NEW p \in {"out", "done", "again"},
         doing[u] \in {"in", "idle"}, doing' = [doing EXCEPT ![u] = p],
         BecomeIdle(u), held' = [held EXCEPT ![u] = None],
         UNCHANGED <<epoch_, bagVars, loaded, shared>>
  PROVE  EpochInv'
PROOF
  <1> USE ReaderNat DEF EpochInv
  <1>1. /\ epoch' \in [Reader -> Nat]
        /\ \A v \in Reader : EpochOf(v)' = EpochOf(v) /\ (v # u => epoch'[v] = epoch[v])
    <2>1. /\ epoch' = [epoch EXCEPT ![u] = IF Idle(@) THEN @ ELSE @ + 1]
          /\ epoch \in [Reader -> Nat]
      BY DEF BecomeIdle, EpochType
    <2>2. epoch'[u] = epoch[u] \/ (~Idle(epoch[u]) /\ epoch'[u] = epoch[u] + 1)
      BY <2>1
    <2>3. EpochOf(u)' = EpochOf(u)
      BY <2>1, <2>2, Halves DEF EpochOf
    <2> QED BY <2>1, <2>3, SMT DEF EpochOf
  <1>2. /\ \A t \in Reader : held'[t] \in {held[t], None} /\ (t = u => held'[t] = None)
        /\ \A v \in Reader : v # u => doing'[v] = doing[v]
        /\ doing'[u] = p
    BY SMT DEF EpochType
  <1>3. EpochType'
    <2>1. doing' \in [Reader -> EpochPlace]
      BY SMT DEF EpochType, EpochPlace
    <2>2. held' \in [Reader -> Nat \union {None}]
      BY SMT DEF EpochType
    <2> QED BY <1>1, <2>1, <2>2 DEF EpochType, bagVars
  <1>4. Behind'
    BY <1>1, <1>2, SMT DEF Behind, EpochType, Loading, Setting
  <1>5. InRange'
    BY <1>2, SMT DEF InRange, Advancing, Setting, bagVars
  <1>6. Users'
    BY <1>1, <1>2, SMT DEF Users, Inside
  <1>7. ASSUME NEW t \in Reader
        PROVE  MayAdvance(t)' <=> MayAdvance(t)
    BY <1>1 DEF MayAdvance, bagVars
  <1>8. ASSUME NEW t \in Reader, NEW v \in Reader, NEW b \in Bags
        PROVE  Kept(t, v, b)'
    <2>1. doing'[v] \in Loading => doing[v] \in Loading
      BY <1>2, SMT DEF Loading
    <2>2. None \notin to_delete[v][b]
      BY SMT DEF EpochType, None
    <2> QED BY <1>1, <1>2, <1>7, <2>1, <2>2 DEF Kept, Late, bagVars
  <1>9. ASSUME NEW t \in Reader
        PROVE  held'[t] \notin deleted'
    BY <1>2, SMT DEF EpochType, None, bagVars
  <1> QED BY <1>3, <1>4, <1>5, <1>6, <1>8, <1>9 DEF EpochInv

(* A thread uses the shared object: it is in nobody's bag. *)
LEMMA UseStep ==
  ASSUME EpochInv, NEW u \in Reader, Use(u)
  PROVE  EpochInv'
PROOF
  <1> USE ReaderNat DEF EpochInv
  <1>1. /\ doing[u] = "in" /\ held' = [held EXCEPT ![u] = shared]
        /\ UNCHANGED <<epoch_, epoch, bagVars, doing, loaded, locks, shared>>
        /\ shared \in Nat
    BY DEF Use, EpochType
  <1>2. EpochType' /\ Behind' /\ InRange' /\ Users'
    <2>1. EpochType'
      <3>1. held' \in [Reader -> Nat \union {None}]
        BY <1>1, SMT DEF EpochType
      <3> QED BY <1>1, <3>1 DEF EpochType, bagVars
    <2>2. Users'
      BY <1>1, SMT DEF Users, EpochType
    <2> QED BY <1>1, <2>1, <2>2 DEF Behind, InRange, bagVars, EpochOf
  <1>3. ASSUME NEW t \in Reader, NEW v \in Reader, NEW b \in Bags
        PROVE  Kept(t, v, b)'
    <2>1. held'[t] \in to_delete[v][b] => held'[t] = held[t]
      BY <1>1, SMT DEF EpochType
    <2> QED BY <1>1, <2>1 DEF Kept, Late, MayAdvance, EpochOf, bagVars
  <1>4. ASSUME NEW t \in Reader
        PROVE  held'[t] \notin deleted'
    BY <1>1, SMT DEF EpochType, bagVars
  <1> QED BY <1>2, <1>3, <1>4 DEF EpochInv

(* What is retired now is in the bag that was used last. *)
LEMMA ReplaceStep ==
  ASSUME EpochInv, NEW u \in Reader, Replace(u)
  PROVE  EpochInv'
PROOF
  <1> USE ReaderNat DEF EpochInv
  <1>1. /\ doing[u] = "in" /\ shared' = shared + 1 /\ shared \in Nat
        /\ to_delete' = [to_delete EXCEPT ![u][bag_i[u]] = @ \union {shared}]
        /\ UNCHANGED <<epoch_, epoch, checked_thread_i, bag_i, deleted, doing, loaded, held>>
        /\ bag_i[u] \in Bags
    BY DEF Replace, EpochType
  <1>2. EpochType'
    <2>1. 0..shared - 1 \subseteq 0..shared' - 1 /\ shared \in 0..shared' - 1
      BY <1>1, SMT
    <2>2. to_delete' \in [Reader -> [Bags -> SUBSET (0..shared' - 1)]]
      <3> DEFINE Objects == 0..shared' - 1
      <3>1. to_delete \in [Reader -> [Bags -> SUBSET Objects]] /\ shared \in Objects
        BY <2>1, SMT DEF EpochType
      <3> HIDE DEF Objects
      <3>2. to_delete' \in [Reader -> [Bags -> SUBSET Objects]]
        BY <1>1, <3>1, SMT
      <3> QED BY <3>2 DEF Objects
    <2>3. deleted' \subseteq 0..shared' - 1
      BY <1>1, <2>1 DEF EpochType
    <2> QED BY <1>1, <2>2, <2>3, SMT DEF EpochType
  <1>3. Behind' /\ InRange' /\ Users'
    BY <1>1 DEF Behind, InRange, Users, EpochOf
  <1>4. ASSUME NEW t \in Reader, NEW v \in Reader, NEW b \in Bags
        PROVE  Kept(t, v, b)'
    <2>1. MayAdvance(t)' <=> MayAdvance(t)
      BY <1>1 DEF MayAdvance, EpochOf
    <2>2. CASE v # u \/ b # bag_i[u]
      <3>1. to_delete'[v][b] = to_delete[v][b]
        BY <1>1, <2>2, SMT DEF EpochType
      <3> QED BY <1>1, <2>1, <3>1 DEF Kept, Late, EpochOf
    <2>3. CASE v = u /\ b = bag_i[u]
      <3>1. doing'[v] \notin Loading /\ bag_i'[v] # NextBag(b) /\ b # NextBag(bag_i'[v])
        BY <1>1, <2>3, ThreeBags, SMT DEF Loading
      <3> QED BY <3>1 DEF Kept
    <2> QED BY <2>2, <2>3
  <1> QED BY <1>1, <1>2, <1>3, <1>4 DEF EpochInv

-----------------------------------------------------------------------------

LEMMA EpochStep == EpochInv /\ [EpochNext]_ebmrVars => EpochInv'
PROOF
  <1> SUFFICES ASSUME EpochInv, [EpochNext]_ebmrVars
               PROVE  EpochInv'
    OBVIOUS
  <1>1. CASE UNCHANGED ebmrVars
    BY <1>1
       DEF ebmrVars, bagVars, userVars, EpochInv, EpochType, Behind, InRange, Users, Kept, Late,
           MayAdvance, EpochOf
  <1>2. ASSUME NEW t \in Reader,
               \/ Lock(t) \/ Use(t) \/ Replace(t) \/ Unlock(t) \/ RetireSync(t) \/ Proceed(t)
        PROVE  EpochInv'
    <2>1. held \in [Reader -> Nat \union {None}]
      BY DEF EpochInv, EpochType
    <2>2. CASE Lock(t)
      BY <2>2, LoadStep DEF Lock, Goes, userVars
    <2>3. CASE Use(t)
      BY <2>3, UseStep
    <2>4. CASE Replace(t)
      BY <2>4, ReplaceStep
    <2>5. CASE Unlock(t)
      BY <2>5, IdleStep DEF Unlock, Goes
    <2>6. CASE RetireSync(t)
      BY <2>6, LoadStep DEF RetireSync, Goes
    <2>7. CASE Locked(t)
      BY <2>7, SetStep DEF Locked, Goes, Loading
    <2>8. CASE StepCheck(t)
      BY <2>8, CheckStep
    <2>9. CASE Advance(t)
      BY <2>9, AdvanceStep
    <2>10. CASE Advanced(t)
      BY <2>10, SetStep DEF Advanced, Loading
    <2>11. CASE Retire(t)
      BY <2>11, SetStep DEF Retire, Goes, Loading
    <2>12. CASE RetireIdle(t)
      <3>1. doing[t] = "idle" /\ held[t] = None
        BY <2>12 DEF RetireIdle, Goes, EpochInv, Users
      <3>2. held' = [held EXCEPT ![t] = None]
        BY <2>1, <2>12, <3>1, SMT DEF RetireIdle, userVars
      <3> QED BY <2>12, <3>1, <3>2, IdleStep DEF RetireIdle, Goes, userVars
    <2> QED
      BY <1>2, <2>2, <2>3, <2>4, <2>5, <2>6, <2>7, <2>8, <2>9, <2>10, <2>11, <2>12 DEF Proceed
  <1> QED BY <1>1, <1>2 DEF EpochNext

(* No thread uses a deleted object, however long it stays locked and however *)
(* lock, unlock and retire_sync of the others interleave with it.           *)
THEOREM NobodyUsesRetired == EpochSpec => []NoUseAfterRetire
PROOF
  <1>1. EpochInv => NoUseAfterRetire
    BY SMT DEF EpochInv, EpochType, NoUseAfterRetire
  <1> QED BY <1>1, EpochInitially, EpochStep, PTL DEF EpochSpec

-----------------------------------------------------------------------------
(* StealingQueue, for any owners, size of the queues and values              *)
-----------------------------------------------------------------------------

StealState == {"none", "push", "make_room", "overflow", "pop", "steal", "steal_tail", "again", "copy",
               "steal_take", "publish"}

Locals == [head : Nat, other : Owner \union {0}, other_head : Nat, n : Int, i : Nat, value : Nat]

StealType ==
  /\ head_ \in [Owner -> Nat] /\ tail_ \in [Owner -> Nat]
  /\ buf_ \in [Owner -> [0..(N - 1) -> Nat]]
  /\ running \in [Owner -> StealState] /\ reg \in [Owner -> Locals]
  /\ made \in Nat

(* A queue has at most N values, and room for what its owner is copying to it: *)
(* what the owner read of its head_ is not ahead of head_.                     *)
Window(o) ==
  /\ head_[o] <= tail_[o] /\ tail_[o] <= head_[o] + N
  /\ running[o] \notin {"none", "push"} => reg[o].head <= head_[o]
  /\ running[o] \in {"make_room", "overflow"} => tail_[o] = reg[o].head + N
  /\ running[o] = "overflow" => reg[o].head + Overflow <= head_[o]
  /\ running[o] = "pop" => reg[o].head < tail_[o] /\ reg[o].value = buf_[o][Cell(reg[o].head)]
  /\ running[o] \in {"steal", "steal_tail"} => tail_[o] <= reg[o].head + N
  /\ running[o] \in {"copy", "steal_take", "publish"} =>
       reg[o].n \in Nat \ {0} /\ tail_[o] + reg[o].n <= reg[o].head + N

(* The values a thief has copied are those it is about to take, if the victim's *)
(* head_ has not moved on.                                                    *)
Thieving(o) ==
  LET r == reg[o] IN
    /\ running[o] \in {"steal", "steal_tail", "again", "copy", "steal_take"} => r.other \in Owner \ {o}
    /\ running[o] \in {"steal_tail", "copy", "steal_take"} => r.other_head <= head_[r.other]
    /\ running[o] \in {"copy", "steal_take"} =>
         /\ r.other_head + r.n <= tail_[r.other]
         /\ running[o] = "copy" => r.i < r.n
         /\ running[o] = "steal_take" => r.i = r.n
         /\ head_[r.other] = r.other_head =>
              \A k \in 0..(r.i - 1) : buf_[o][Cell(tail_[o] + k)] = buf_[r.other][Cell(r.other_head + k)]

(* (o, i) is one of the places of Held(o). *)
HoldsAt(o, i) ==
  \/ head_[o] <= i /\ i < tail_[o]
  \/ running[o] = "overflow" /\ reg[o].head <= i /\ i < reg[o].head + Overflow
  \/ running[o] = "publish" /\ tail_[o] <= i /\ i < tail_[o] + reg[o].n

InBuf(o, i) == buf_[o][Cell(i)]

NotYetTaken(v) == v \in 1..made /\ v \notin popped /\ v \notin global_queue

(* No two places have the same value, ...                                     *)
PlacesDiffer ==
  \A o, p \in Owner : \A i, j \in Nat :
    HoldsAt(o, i) /\ HoldsAt(p, j) /\ InBuf(o, i) = InBuf(p, j) => o = p /\ i = j

(* ... nor a place and a push, nor two pushes; and all were made and not taken. *)
PushesDiffer ==
  /\ \A o \in Pushing : NotYetTaken(reg[o].value)
  /\ \A o, p \in Pushing : reg[o].value = reg[p].value => o = p
  /\ \A o \in Pushing, p \in Owner, j \in Nat : HoldsAt(p, j) => InBuf(p, j) # reg[o].value

PlacesFresh == \A o \in Owner, i \in Nat : HoldsAt(o, i) => NotYetTaken(InBuf(o, i))

TakenOnce ==
  /\ popped \subseteq 1..made /\ global_queue \subseteq 1..made /\ popped \intersect global_queue = {}

Somewhere(v) ==
  \/ v \in popped \/ v \in global_queue
  \/ \E o \in Pushing : reg[o].value = v
  \/ \E o \in Owner, i \in Nat : HoldsAt(o, i) /\ InBuf(o, i) = v

NoneLost == \A v \in 1..made : Somewhere(v)


ValuesInv == PlacesDiffer /\ PushesDiffer /\ PlacesFresh /\ TakenOnce /\ NoneLost

StealInv == StealType /\ (\A o \in Owner : Window(o) /\ Thieving(o)) /\ ValuesInv

(* What a step of o does not do to the others, nor to the values in its queue.  *)
StepOf(o) ==
  /\ \A u \in Owner : head_[u] <= head_'[u] /\ head_'[u] <= tail_'[u] /\ tail_[u] <= tail_'[u]
  /\ \A u \in Owner \ {o} :
       running'[u] = running[u] /\ reg'[u] = reg[u] /\ tail_'[u] = tail_[u] /\ buf_'[u] = buf_[u]
  /\ \A i \in Nat : head_[o] <= i /\ i < tail_[o] => buf_'[o][Cell(i)] = buf_[o][Cell(i)]


LEMMA CellIn == ASSUME StealingAssumption, NEW i \in Nat PROVE Cell(i) \in 0..(N - 1)
PROOF
  BY DEF StealingAssumption, Cell

(* Places of a queue that are less than N apart have different cells. *)
LEMMA CellsApart ==
  ASSUME StealingAssumption, NEW i \in Nat, NEW j \in Nat, i < j, j < i + N
  PROVE  Cell(i) # Cell(j)
PROOF
  <1>1. SUFFICES ASSUME i % N = j % N PROVE FALSE
    BY DEF Cell
  <1>2. PICK q, r : q = i \div N /\ r = j \div N
    OBVIOUS
  <1>3. i = N * q + (i % N) /\ q \in Nat
    BY <1>2 DEF StealingAssumption
  <1>4. j = N * r + (j % N) /\ r \in Nat
    BY <1>2 DEF StealingAssumption
  <1>5. N \in Nat \ {0} /\ i % N \in 0..(N - 1)
    BY DEF StealingAssumption
  <1>6. PICK a, b, c : a = N * q /\ b = N * r /\ c = i % N
    OBVIOUS
  <1>7. a \in Nat /\ b \in Nat /\ c \in Nat /\ i = a + c /\ j = b + c
    BY <1>1, <1>3, <1>4, <1>5, <1>6
  <1>8. a < b /\ b < a + N
    BY <1>5, <1>7
  <1>9. CASE q < r
    <2>1. q + 1 <= r
      BY <1>3, <1>4, <1>9
    <2>2. N * (q + 1) <= N * r
      BY <1>3, <1>4, <1>5, <2>1
    <2>3. N * (q + 1) = N * q + N
      BY <1>3, <1>5
    <2> QED BY <1>5, <1>6, <1>7, <1>8, <2>2, <2>3
  <1>10. CASE r <= q
    <2>1. N * r <= N * q
      BY <1>3, <1>4, <1>5, <1>10
    <2> QED BY <1>6, <1>7, <1>8, <2>1
  <1> QED BY <1>3, <1>4, <1>9, <1>10

LEMMA OverflowFits == ASSUME StealingAssumption PROVE Overflow \in 1..N
PROOF
  BY DEF StealingAssumption, Overflow

LEMMA OthersKept ==
  ASSUME StealingAssumption, StealType, \A u \in Owner : Window(u) /\ Thieving(u), NEW o \in Owner, StepOf(o),
         StealType', NEW u \in Owner, u # o
  PROVE  Window(u)' /\ Thieving(u)'
PROOF
  <1>1. /\ running'[u] = running[u] /\ reg'[u] = reg[u] /\ tail_'[u] = tail_[u] /\ buf_'[u] = buf_[u]
        /\ head_[u] <= head_'[u] /\ head_'[u] <= tail_'[u]
    BY DEF StepOf
  <1>2. /\ head_[u] \in Nat /\ tail_[u] \in Nat /\ head_'[u] \in Nat /\ reg[u].head \in Nat /\ reg[u].n \in Int
        /\ N \in Nat /\ Overflow \in Nat
    <2>1. Overflow \in Nat
      BY OverflowFits
    <2>2. N \in Nat
      BY DEF StealingAssumption
    <2> QED BY <2>1, <2>2 DEF StealType, Locals
  <1>3. Window(u)'
    BY <1>1, <1>2 DEF Window
  <1>4. PICK v : v = reg[u].other
    OBVIOUS
  <1>5. CASE running[u] \notin {"steal", "steal_tail", "again", "copy", "steal_take"}
    BY <1>1, <1>3, <1>5 DEF Thieving
  <1>6. CASE running[u] \in {"steal", "steal_tail", "again", "copy", "steal_take"}
    <2>1. v \in Owner \ {u}
      BY <1>4, <1>6 DEF Thieving
    <2>2. /\ head_[v] \in Nat /\ head_'[v] \in Nat /\ tail_[v] \in Nat /\ tail_'[v] \in Nat
          /\ reg[u].other_head \in Nat /\ reg[u].i \in Nat
          /\ head_[v] <= head_'[v] /\ tail_[v] <= tail_'[v]
      BY <2>1 DEF StealType, Locals, StepOf
    <2>3. running[u] \in {"steal_tail", "copy", "steal_take"} => reg[u].other_head <= head_'[v]
      BY <1>4, <2>2 DEF Thieving
    <2>4. CASE running[u] \in {"copy", "steal_take"}
      <3>1. /\ reg[u].other_head + reg[u].n <= tail_[v] /\ reg[u].other_head <= head_[v]
            /\ reg[u].i <= reg[u].n
            /\ head_[v] = reg[u].other_head =>
                 \A k \in 0..(reg[u].i - 1) : buf_[u][Cell(tail_[u] + k)] = buf_[v][Cell(reg[u].other_head + k)]
        BY <1>2, <1>4, <2>2, <2>4 DEF Thieving
      <3>2. ASSUME head_'[v] = reg[u].other_head, NEW k \in 0..(reg[u].i - 1)
            PROVE  buf_'[u][Cell(tail_'[u] + k)] = buf_'[v][Cell(reg[u].other_head + k)]
        <4>1. head_[v] = reg[u].other_head
          BY <2>2, <3>1, <3>2
        <4>2. PICK i : i = reg[u].other_head + k
          OBVIOUS
        <4>3. i \in Nat /\ head_[v] <= i /\ i < tail_[v]
          BY <1>2, <2>2, <3>1, <4>1, <4>2
        <4>4. buf_'[v][Cell(i)] = buf_[v][Cell(i)]
          <5>1. CASE v = o
            BY <4>3, <5>1 DEF StepOf
          <5>2. CASE v # o
            BY <2>1, <5>2 DEF StepOf
          <5> QED BY <5>1, <5>2
        <4>5. buf_[u][Cell(tail_[u] + k)] = buf_[v][Cell(reg[u].other_head + k)]
          BY <3>1, <4>1
        <4> QED BY <1>1, <4>2, <4>4, <4>5
      <3>3. reg[u].other_head + reg[u].n <= tail_'[v]
        BY <1>2, <2>2, <3>1
      <3>4. (running[u] = "copy" => reg[u].i < reg[u].n) /\ (running[u] = "steal_take" => reg[u].i = reg[u].n)
        BY <2>4 DEF Thieving
      <3> QED BY <1>1, <1>3, <1>4, <2>1, <2>3, <2>4, <3>2, <3>3, <3>4 DEF Thieving
    <2>5. CASE running[u] \notin {"copy", "steal_take"}
      BY <1>1, <1>3, <1>4, <2>1, <2>3, <2>5 DEF Thieving
    <2> QED BY <2>4, <2>5
  <1> QED BY <1>3, <1>5, <1>6

LEMMA StepAssembled ==
  ASSUME StealingAssumption, StealInv, NEW o \in Owner, StepOf(o), StealType', Window(o)', Thieving(o)', ValuesInv'
  PROVE  StealInv'
PROOF
  <1>1. StealType /\ \A u \in Owner : Window(u) /\ Thieving(u)
    BY DEF StealInv
  <1>2. ASSUME NEW u \in Owner PROVE Window(u)' /\ Thieving(u)'
    <2>1. CASE u = o
      BY <2>1
    <2>2. CASE u # o
      BY <1>1, <2>2, OthersKept
    <2> QED BY <2>1, <2>2
  <1> QED BY <1>2 DEF StealInv

(* Whoever does not take part keeps its places and their values.               *)
LEMMA OtherPlaces ==
  ASSUME NEW o \in Owner, StepOf(o), NEW u \in Owner, u # o, head_'[u] = head_[u], NEW i \in Nat
  PROVE  (HoldsAt(u, i)' <=> HoldsAt(u, i)) /\ InBuf(u, i)' = InBuf(u, i)
PROOF
  BY DEF StepOf, HoldsAt, InBuf

(* Nothing is pushed, taken or handed on. *)
LEMMA ValuesKept ==
  ASSUME ValuesInv,
         \A u \in Owner : \A i \in Nat : HoldsAt(u, i)' <=> HoldsAt(u, i),
         \A u \in Owner : \A i \in Nat : HoldsAt(u, i) => InBuf(u, i)' = InBuf(u, i),
         Pushing' = Pushing, \A u \in Pushing : reg'[u].value = reg[u].value,
         UNCHANGED <<popped, global_queue, made>>
  PROVE  ValuesInv'
PROOF
  <1>1. Pushing \subseteq Owner
    BY DEF Pushing
  <1>2. \A v : NotYetTaken(v)' <=> NotYetTaken(v)
    BY DEF NotYetTaken
  <1>3. PlacesDiffer'
    BY DEF ValuesInv, PlacesDiffer
  <1>4. PushesDiffer'
    BY <1>1, <1>2 DEF ValuesInv, PushesDiffer
  <1>5. PlacesFresh'
    BY <1>2 DEF ValuesInv, PlacesFresh
  <1>6. TakenOnce'
    BY DEF ValuesInv, TakenOnce
  <1>7. NoneLost'
    <2>1. ASSUME NEW v \in 1..made, Somewhere(v) PROVE Somewhere(v)'
      BY <1>1, <2>1 DEF Somewhere
    <2> QED BY <2>1 DEF ValuesInv, NoneLost
  <1> QED BY <1>3, <1>4, <1>5, <1>6, <1>7 DEF ValuesInv

(* Such a step of o, which leaves head_ where it is. *)
LEMMA QuietStep ==
  ASSUME StealingAssumption, StealInv, NEW o \in Owner, StepOf(o), StealType', Window(o)', Thieving(o)',
         \A u \in Owner \ {o} : head_'[u] = head_[u],
         \A i \in Nat : HoldsAt(o, i)' <=> HoldsAt(o, i),
         \A i \in Nat : HoldsAt(o, i) => InBuf(o, i)' = InBuf(o, i),
         running'[o] \in {"push", "make_room", "overflow"} <=> running[o] \in {"push", "make_room", "overflow"},
         running[o] \in {"push", "make_room", "overflow"} => reg'[o].value = reg[o].value,
         UNCHANGED <<popped, global_queue, made>>
  PROVE  StealInv'
PROOF
  <1>1. ValuesInv
    BY DEF StealInv
  <1>2. \A u \in Owner : \A i \in Nat : HoldsAt(u, i)' <=> HoldsAt(u, i)
    <2>1. ASSUME NEW u \in Owner, NEW i \in Nat PROVE HoldsAt(u, i)' <=> HoldsAt(u, i)
      <3>1. CASE u = o
        BY <3>1
      <3>2. CASE u # o
        <4>1. head_'[u] = head_[u]
          BY <3>2
        <4> QED BY <3>2, <4>1, OtherPlaces
      <3> QED BY <3>1, <3>2
    <2> QED BY <2>1
  <1>3. \A u \in Owner : \A i \in Nat : HoldsAt(u, i) => InBuf(u, i)' = InBuf(u, i)
    <2>1. ASSUME NEW u \in Owner, NEW i \in Nat, HoldsAt(u, i) PROVE InBuf(u, i)' = InBuf(u, i)
      <3>1. CASE u = o
        BY <2>1, <3>1
      <3>2. CASE u # o
        <4>1. head_'[u] = head_[u]
          BY <3>2
        <4> QED BY <3>2, <4>1, OtherPlaces
      <3> QED BY <3>1, <3>2
    <2> QED BY <2>1
  <1>4. \A u \in Owner \ {o} : running'[u] = running[u] /\ reg'[u] = reg[u]
    BY DEF StepOf
  <1>5. Pushing' = Pushing
    BY <1>4 DEF Pushing
  <1>6. \A u \in Pushing : reg'[u].value = reg[u].value
    BY <1>4 DEF Pushing
  <1>7. ValuesInv'
    BY <1>1, <1>2, <1>3, <1>5, <1>6, ValuesKept
  <1> QED BY <1>7, StepAssembled

(* o may go on to s with the locals r, the queues being as they are. *)
MayGo(o, s, r) ==
  /\ running[o] \notin {"overflow", "publish"} /\ s \in StealState \ {"overflow", "publish", "steal_take"}
  /\ r \in Locals
  /\ s \in {"push", "make_room"} <=> running[o] \in {"push", "make_room"}
  /\ running[o] \in {"push", "make_room"} => r.value = reg[o].value
  /\ s \notin {"none", "push"} => r.head <= head_[o]
  /\ s = "make_room" => tail_[o] = r.head + N
  /\ s = "pop" => r.head < tail_[o] /\ r.value = buf_[o][Cell(r.head)]
  /\ s \in {"steal", "steal_tail"} => tail_[o] <= r.head + N
  /\ s \in {"steal", "steal_tail", "again", "copy"} => r.other \in Owner \ {o}
  /\ s \in {"steal_tail", "copy"} => r.other_head <= head_[r.other]
  /\ s = "copy" => /\ r.n \in Nat \ {0} /\ r.i = 0 /\ tail_[o] + r.n <= r.head + N
                   /\ r.other_head + r.n <= tail_[r.other]

(* A step that only changes the locals of o. *)
LEMMA LocalStep ==
  ASSUME StealingAssumption, StealInv, NEW o \in Owner, NEW s, NEW r, MayGo(o, s, r),
         running' = [running EXCEPT ![o] = s], reg' = [reg EXCEPT ![o] = r],
         UNCHANGED <<head_, tail_, buf_, popped, global_queue, made>>
  PROVE  StealInv'
PROOF
  <1>1. StealType /\ \A u \in Owner : Window(u) /\ Thieving(u)
    BY DEF StealInv
  <1>2. running'[o] = s /\ reg'[o] = r
    BY <1>1 DEF StealType
  <1>3. \A u \in Owner \ {o} : running'[u] = running[u] /\ reg'[u] = reg[u]
    BY <1>1 DEF StealType
  <1>4. StealType'
    BY <1>1 DEF StealType, MayGo
  <1>5. \A u \in Owner : head_[u] \in Nat /\ tail_[u] \in Nat /\ head_[u] <= tail_[u] /\ tail_[u] <= head_[u] + N
    BY <1>1 DEF StealType, Window
  <1>6. StepOf(o)
    BY <1>3, <1>5 DEF StepOf
  <1>7. Window(o)'
    BY <1>2, <1>5 DEF Window, MayGo
  <1>8. Thieving(o)'
    BY <1>2 DEF Thieving, MayGo
  <1>9. \A i \in Nat : HoldsAt(o, i)' <=> HoldsAt(o, i)
    BY <1>2 DEF HoldsAt, MayGo
  <1>10. \A i \in Nat : HoldsAt(o, i) => InBuf(o, i)' = InBuf(o, i)
    BY DEF InBuf
  <1>11. running'[o] \in {"push", "make_room", "overflow"} <=> running[o] \in {"push", "make_room", "overflow"}
    BY <1>2 DEF MayGo
  <1>12. running[o] \in {"push", "make_room", "overflow"} => reg'[o].value = reg[o].value
    BY <1>2 DEF MayGo
  <1>13. /\ \A u \in Owner \ {o} : head_'[u] = head_[u]
         /\ UNCHANGED <<popped, global_queue, made>>
    OBVIOUS
  <1> QED BY <1>4, <1>6, <1>7, <1>8, <1>9, <1>10, <1>11, <1>12, <1>13, QuietStep

(* What the locals of o are. *)
LEMMA LocalsOf ==
  ASSUME StealType, NEW o \in Owner
  PROVE  /\ reg[o] \in Locals /\ running[o] \in StealState
         /\ reg[o].head \in Nat /\ reg[o].other \in Owner \union {0} /\ reg[o].other_head \in Nat
         /\ reg[o].n \in Int /\ reg[o].i \in Nat /\ reg[o].value \in Nat
         /\ NoLocals \in Locals
PROOF
  BY DEF StealType, Locals, NoLocals

LEMMA LocalPopSafe ==
  ASSUME StealingAssumption, StealInv, NEW o \in Owner, LocalPop(o)
  PROVE  StealInv'
PROOF
  <1>1. StealType /\ Window(o)
    BY DEF StealInv
  <1>2. PICK r : r = [reg[o] EXCEPT !.head = head_[o], !.value = buf_[o][Cell(head_[o])]]
    OBVIOUS
  <1>3. head_[o] \in Nat /\ tail_[o] \in Nat /\ head_[o] < tail_[o] /\ buf_[o][Cell(head_[o])] \in Nat
    <2>1. head_[o] \in Nat /\ tail_[o] \in Nat /\ head_[o] <= tail_[o] /\ head_[o] # tail_[o]
      BY <1>1 DEF StealType, Window, LocalPop
    <2>2. Cell(head_[o]) \in 0..(N - 1)
      BY <2>1, CellIn
    <2> QED BY <1>1, <2>1, <2>2 DEF StealType
  <1>4. r \in Locals /\ r.head = head_[o] /\ r.value = buf_[o][Cell(head_[o])]
    BY <1>1, <1>2, <1>3, LocalsOf DEF Locals
  <1>5. /\ running[o] = "none" /\ running' = [running EXCEPT ![o] = "pop"] /\ reg' = [reg EXCEPT ![o] = r]
        /\ UNCHANGED <<head_, tail_, buf_, popped, global_queue, made>>
    BY <1>2 DEF LocalPop, To, queues
  <1>6. MayGo(o, "pop", r)
    BY <1>3, <1>4, <1>5 DEF MayGo, StealState
  <1> QED BY <1>5, <1>6, LocalStep

LEMMA StealSafe ==
  ASSUME StealingAssumption, StealInv, NEW o \in Owner, Steal(o)
  PROVE  StealInv'
PROOF
  <1>1. StealType /\ Window(o)
    BY DEF StealInv
  <1>2. PICK v \in Owner \ {o} : reg' = [reg EXCEPT ![o].head = head_[o], ![o].other = v]
    BY DEF Steal
  <1>3. PICK r : r = [reg[o] EXCEPT !.head = head_[o], !.other = v]
    OBVIOUS
  <1>4. head_[o] \in Nat /\ tail_[o] \in Nat /\ tail_[o] <= head_[o] + N
    BY <1>1 DEF StealType, Window
  <1>5. r \in Locals /\ r.head = head_[o] /\ r.other = v
    BY <1>1, <1>3, <1>4, LocalsOf DEF Locals
  <1>6. /\ running[o] = "none" /\ running' = [running EXCEPT ![o] = "steal"] /\ reg' = [reg EXCEPT ![o] = r]
        /\ UNCHANGED <<head_, tail_, buf_, popped, global_queue, made>>
    BY <1>2, <1>3 DEF Steal, To, queues
  <1>7. MayGo(o, "steal", r)
    BY <1>4, <1>5, <1>6 DEF MayGo, StealState
  <1> QED BY <1>6, <1>7, LocalStep

LEMMA StealHeadSafe ==
  ASSUME StealingAssumption, StealInv, NEW o \in Owner, StealHead(o)
  PROVE  StealInv'
PROOF
  <1>1. StealType /\ Window(o) /\ Thieving(o)
    BY DEF StealInv
  <1>2. PICK v : v = reg[o].other
    OBVIOUS
  <1>3. running[o] = "steal" /\ v \in Owner \ {o} /\ head_[v] \in Nat
    BY <1>1, <1>2 DEF StealHead, To, Thieving, StealType
  <1>4. PICK r : r = [reg[o] EXCEPT !.other_head = head_[v]]
    OBVIOUS
  <1>5. r \in Locals /\ r.head = reg[o].head /\ r.other = v /\ r.other_head = head_[v]
    BY <1>1, <1>2, <1>3, <1>4, LocalsOf DEF Locals
  <1>6. /\ running' = [running EXCEPT ![o] = "steal_tail"] /\ reg' = [reg EXCEPT ![o] = r]
        /\ UNCHANGED <<head_, tail_, buf_, popped, global_queue, made>>
    BY <1>2, <1>4 DEF StealHead, To, queues
  <1>7. reg[o].head <= head_[o] /\ tail_[o] <= reg[o].head + N
    BY <1>1, <1>3 DEF Window
  <1>8. MayGo(o, "steal_tail", r)
    BY <1>3, <1>5, <1>6, <1>7 DEF MayGo, StealState
  <1> QED BY <1>6, <1>8, LocalStep

LEMMA StealAgainSafe ==
  ASSUME StealingAssumption, StealInv, NEW o \in Owner, StealAgain(o)
  PROVE  StealInv'
PROOF
  <1>1. StealType /\ Window(o) /\ Thieving(o)
    BY DEF StealInv
  <1>2. PICK r : r = [reg[o] EXCEPT !.head = head_[o]]
    OBVIOUS
  <1>3. head_[o] \in Nat /\ tail_[o] \in Nat /\ tail_[o] <= head_[o] + N
    BY <1>1 DEF StealType, Window
  <1>4. r \in Locals /\ r.head = head_[o] /\ r.other = reg[o].other
    BY <1>1, <1>2, <1>3, LocalsOf DEF Locals
  <1>5. /\ running[o] = "again" /\ running' = [running EXCEPT ![o] = "steal"] /\ reg' = [reg EXCEPT ![o] = r]
        /\ UNCHANGED <<head_, tail_, buf_, popped, global_queue, made>>
    BY <1>2 DEF StealAgain, To, queues
  <1>6. reg[o].other \in Owner \ {o}
    BY <1>1, <1>5 DEF Thieving
  <1>7. MayGo(o, "steal", r)
    BY <1>3, <1>4, <1>5, <1>6 DEF MayGo, StealState
  <1> QED BY <1>5, <1>7, LocalStep

(* What is half of the other queue now was in it when its tail_ was read.       *)
LEMMA StealTailSafe ==
  ASSUME StealingAssumption, StealInv, NEW o \in Owner, StealTail(o)
  PROVE  StealInv'
PROOF
  <1>1. StealType /\ Window(o) /\ Thieving(o)
    BY DEF StealInv
  <1>2. PICK v : v = reg[o].other
    OBVIOUS
  <1>3. running[o] = "steal_tail" /\ v \in Owner \ {o} /\ tail_[v] \in Nat /\ tail_[o] \in Nat /\ head_[v] \in Nat
    BY <1>1, <1>2 DEF StealTail, Thieving, StealType
  <1>4. PICK size : size = tail_[v] - reg[o].other_head
    OBVIOUS
  <1>5. PICK n : n = AtMost(size - size \div 2, reg[o].head + N - tail_[o])
    OBVIOUS
  <1>6. /\ reg[o].head \in Nat /\ reg[o].other_head \in Nat /\ N \in Nat
        /\ reg[o].head <= head_[o] /\ tail_[o] <= reg[o].head + N /\ reg[o].other_head <= head_[v]
    <2>1. N \in Nat
      BY DEF StealingAssumption
    <2> QED BY <1>1, <1>2, <1>3, <2>1, LocalsOf DEF Window, Thieving
  <1>7. /\ size \in Int /\ n \in Int /\ tail_[o] + n <= reg[o].head + N
        /\ size >= 0 => n >= 0 /\ n <= size
    BY <1>3, <1>4, <1>5, <1>6 DEF AtMost
  <1>8. /\ running' = [running EXCEPT ![o] =
             IF size < 0 \/ size > N THEN "again" ELSE IF n = 0 THEN "none" ELSE "copy"]
        /\ reg' = [reg EXCEPT ![o] =
             IF size \in 0..N /\ n = 0 THEN NoLocals ELSE [reg[o] EXCEPT !.n = n, !.i = 0]]
        /\ UNCHANGED <<head_, tail_, buf_, popped, global_queue, made>>
    BY <1>2, <1>4, <1>5 DEF StealTail, queues
  <1>10. CASE size \in 0..N /\ n = 0
    <2>1. running' = [running EXCEPT ![o] = "none"] /\ reg' = [reg EXCEPT ![o] = NoLocals]
      <3>1. ~(size < 0 \/ size > N)
        BY <1>6, <1>10
      <3> QED BY <1>8, <1>10, <3>1, Zenon
    <2>2. NoLocals \in Locals
      BY <1>1, LocalsOf
    <2>3. MayGo(o, "none", NoLocals)
      BY <1>3, <2>2 DEF MayGo, StealState
    <2> QED BY <1>8, <2>1, <2>3, LocalStep
  <1>11. PICK r : r = [reg[o] EXCEPT !.n = n, !.i = 0]
    OBVIOUS
  <1>12. /\ r \in Locals /\ r.head = reg[o].head /\ r.other = v /\ r.other_head = reg[o].other_head
         /\ r.n = n /\ r.i = 0
    BY <1>1, <1>2, <1>7, <1>11, LocalsOf DEF Locals
  <1>13. CASE size \in 0..N /\ n # 0
    <2>1. running' = [running EXCEPT ![o] = "copy"] /\ reg' = [reg EXCEPT ![o] = r]
      <3>1. ~(size < 0 \/ size > N)
        BY <1>6, <1>13
      <3> QED BY <1>8, <1>11, <1>13, <3>1, Zenon
    <2>2. n \in Nat \ {0} /\ reg[o].other_head + n <= tail_[v]
      BY <1>3, <1>4, <1>6, <1>7, <1>13
    <2>3. MayGo(o, "copy", r)
      BY <1>3, <1>6, <1>7, <1>12, <2>2 DEF MayGo, StealState
    <2> QED BY <1>8, <2>1, <2>3, LocalStep
  <1>14. CASE size \notin 0..N
    <2>1. running' = [running EXCEPT ![o] = "again"] /\ reg' = [reg EXCEPT ![o] = r]
      <3>1. size < 0 \/ size > N
        BY <1>6, <1>7, <1>14
      <3> QED BY <1>8, <1>11, <1>14, <3>1, Zenon
    <2>2. MayGo(o, "again", r)
      BY <1>3, <1>6, <1>12 DEF MayGo, StealState
    <2> QED BY <1>8, <2>1, <2>2, LocalStep
  <1> QED BY <1>10, <1>13, <1>14

(* The values at the places R of o, and those that D push, are taken: popped, or *)
(* given to the global queue.                                                 *)
LEMMA ValuesTaken ==
  ASSUME ValuesInv, NEW o \in Owner, NEW R \in SUBSET Nat, NEW D \in SUBSET Pushing, NEW T,
         \A i \in R : HoldsAt(o, i),
         T = {InBuf(o, i) : i \in R} \union {reg[u].value : u \in D},
         \A u \in Owner : \A i \in Nat : HoldsAt(u, i)' <=> HoldsAt(u, i) /\ ~(u = o /\ i \in R),
         \A u \in Owner : \A i \in Nat : HoldsAt(u, i) => InBuf(u, i)' = InBuf(u, i),
         Pushing' = Pushing \ D, \A u \in Pushing \ D : reg'[u].value = reg[u].value,
         \/ popped' = popped \union T /\ global_queue' = global_queue
         \/ popped' = popped /\ global_queue' = global_queue \union T,
         made' = made
  PROVE  ValuesInv'
PROOF
  <1>1. PlacesDiffer /\ PushesDiffer /\ PlacesFresh /\ TakenOnce /\ NoneLost /\ Pushing \subseteq Owner
    BY DEF ValuesInv, Pushing
  <1>2. \A v : NotYetTaken(v)' <=> NotYetTaken(v) /\ v \notin T
    BY DEF NotYetTaken
  <1>3. \A v \in T : NotYetTaken(v)
    BY <1>1 DEF PlacesFresh, PushesDiffer
  <1>4. PlacesDiffer'
    BY <1>1 DEF PlacesDiffer
  <1>5. PlacesFresh'
    <2>1. SUFFICES ASSUME NEW u \in Owner, NEW i \in Nat, HoldsAt(u, i)'
                   PROVE  /\ InBuf(u, i)' \in 1..made' /\ InBuf(u, i)' \notin popped'
                          /\ InBuf(u, i)' \notin global_queue'
      BY DEF PlacesFresh, NotYetTaken
    <2>2. HoldsAt(u, i) /\ ~(u = o /\ i \in R) /\ InBuf(u, i)' = InBuf(u, i)
      BY <2>1
    <2>3. NotYetTaken(InBuf(u, i))
      BY <1>1, <2>2 DEF PlacesFresh
    <2>4. \A j \in R : InBuf(o, j) # InBuf(u, i)
      BY <1>1, <2>2 DEF PlacesDiffer
    <2>5. \A p \in D : reg[p].value # InBuf(u, i)
      BY <1>1, <2>2 DEF PushesDiffer
    <2>6. InBuf(u, i) \notin T
      BY <2>4, <2>5
    <2> QED BY <2>2, <2>3, <2>6 DEF NotYetTaken
  <1>6. PushesDiffer'
    <2>1. ASSUME NEW u \in Pushing \ D
          PROVE  /\ reg'[u].value \in 1..made' /\ reg'[u].value \notin popped'
                 /\ reg'[u].value \notin global_queue'
                 /\ \A p \in Owner, j \in Nat : HoldsAt(p, j)' => InBuf(p, j)' # reg'[u].value
      <3>1. NotYetTaken(reg[u].value) /\ reg'[u].value = reg[u].value
        BY <1>1 DEF PushesDiffer
      <3>2. \A i \in R : InBuf(o, i) # reg[u].value
        BY <1>1 DEF PushesDiffer
      <3>3. \A p \in D : reg[p].value # reg[u].value
        BY <1>1 DEF PushesDiffer
      <3>4. \A p \in Owner, j \in Nat : HoldsAt(p, j) => InBuf(p, j) # reg[u].value
        BY <1>1 DEF PushesDiffer
      <3>5. reg[u].value \notin T
        BY <3>2, <3>3
      <3> QED BY <3>1, <3>4, <3>5 DEF NotYetTaken
    <2>2. \A u, p \in Pushing \ D : reg'[u].value = reg'[p].value => u = p
      BY <1>1 DEF PushesDiffer
    <2> QED BY <2>1, <2>2 DEF PushesDiffer, NotYetTaken
  <1>7. TakenOnce'
    BY <1>1, <1>3 DEF TakenOnce, NotYetTaken
  <1>8. NoneLost'
    <2>1. SUFFICES ASSUME NEW v \in 1..made PROVE Somewhere(v)'
      BY DEF NoneLost
    <2>2. CASE v \in popped \/ v \in global_queue \/ v \in T
      BY <2>2 DEF Somewhere
    <2>3. CASE \E u \in Pushing : reg[u].value = v
      <3>1. PICK u \in Pushing : reg[u].value = v
        BY <2>3
      <3>2. CASE u \in D
        BY <2>2, <3>1, <3>2
      <3>3. CASE u \notin D
        BY <3>1, <3>3 DEF Somewhere
      <3> QED BY <3>2, <3>3
    <2>4. CASE \E u \in Owner, i \in Nat : HoldsAt(u, i) /\ InBuf(u, i) = v
      <3>1. PICK u \in Owner, i \in Nat : HoldsAt(u, i) /\ InBuf(u, i) = v
        BY <2>4
      <3>2. CASE u = o /\ i \in R
        BY <2>2, <3>1, <3>2
      <3>3. CASE ~(u = o /\ i \in R)
        BY <3>1, <3>3 DEF Somewhere
      <3> QED BY <3>2, <3>3
    <2> QED BY <1>1, <2>2, <2>3, <2>4 DEF NoneLost, Somewhere
  <1> QED BY <1>4, <1>5, <1>6, <1>7, <1>8 DEF ValuesInv

LEMMA PushMakeRoomSafe ==
  ASSUME StealingAssumption, StealInv, NEW o \in Owner, PushMakeRoom(o)
  PROVE  StealInv'
PROOF
  <1>1. StealType /\ (\A u \in Owner : Window(u) /\ Thieving(u))
    BY DEF StealInv
  <1>2. running[o] = "make_room" /\ UNCHANGED <<tail_, buf_, reg, global_queue, popped, made>>
    BY DEF PushMakeRoom
  <1>3. CASE head_[o] # reg[o].head
    <2>1. reg' = [reg EXCEPT ![o] = reg[o]] /\ running' = [running EXCEPT ![o] = "push"]
          /\ UNCHANGED <<head_, tail_, buf_, popped, global_queue, made>>
      BY <1>1, <1>2, <1>3 DEF PushMakeRoom, StealType
    <2>2. MayGo(o, "push", reg[o])
      BY <1>1, <1>2, LocalsOf DEF MayGo, StealState
    <2> QED BY <2>1, <2>2, LocalStep
  <1>4. CASE head_[o] = reg[o].head
    <2>1. head_' = [head_ EXCEPT ![o] = head_[o] + Overflow] /\ running' = [running EXCEPT ![o] = "overflow"]
      BY <1>4 DEF PushMakeRoom
    <2>2. /\ head_[o] \in Nat /\ tail_[o] = head_[o] + N /\ Overflow \in 1..N /\ N \in Nat
      <3>1. Overflow \in 1..N
        BY OverflowFits
      <3>2. N \in Nat
        BY DEF StealingAssumption
      <3> QED BY <1>1, <1>2, <1>4, <3>1, <3>2 DEF StealType, Window
    <2>3. /\ \A u \in Owner : head_'[u] = IF u = o THEN head_[o] + Overflow ELSE head_[u]
          /\ \A u \in Owner : running'[u] = IF u = o THEN "overflow" ELSE running[u]
      BY <1>1, <2>1 DEF StealType
    <2>4. StealType'
      <3>1. "overflow" \in StealState /\ head_[o] + Overflow \in Nat
        BY <2>2 DEF StealState
      <3> QED BY <1>1, <1>2, <2>1, <3>1 DEF StealType
    <2>5. StepOf(o)
      <3>1. \A u \in Owner : head_[u] \in Nat /\ tail_[u] \in Nat /\ head_[u] <= tail_[u]
        BY <1>1 DEF StealType, Window
      <3>2. \A u \in Owner : head_[u] <= head_'[u] /\ head_'[u] <= tail_'[u] /\ tail_[u] <= tail_'[u]
        BY <1>2, <2>2, <2>3, <3>1
      <3> QED BY <1>2, <2>3, <3>2 DEF StepOf
    <2>6. Window(o)'
      BY <1>2, <1>4, <2>2, <2>3 DEF Window
    <2>7. Thieving(o)'
      BY <2>3 DEF Thieving
    <2>8. \A i \in Nat : HoldsAt(o, i)' <=> HoldsAt(o, i)
      BY <1>2, <1>4, <2>2, <2>3 DEF HoldsAt
    <2>9. /\ \A i \in Nat : HoldsAt(o, i) => InBuf(o, i)' = InBuf(o, i)
          /\ \A u \in Owner \ {o} : head_'[u] = head_[u]
          /\ running'[o] \in {"push", "make_room", "overflow"} <=> running[o] \in {"push", "make_room", "overflow"}
          /\ running[o] \in {"push", "make_room", "overflow"} => reg'[o].value = reg[o].value
      BY <1>2, <2>3 DEF InBuf
    <2> QED BY <1>2, <2>4, <2>5, <2>6, <2>7, <2>8, <2>9, QuietStep
  <1> QED BY <1>3, <1>4

LEMMA StealCopySafe ==
  ASSUME StealingAssumption, StealInv, NEW o \in Owner, StealCopy(o)
  PROVE  StealInv'
PROOF
  <1>1. StealType /\ (\A u \in Owner : Window(u) /\ Thieving(u))
    BY DEF StealInv
  <1>2. PICK v, x, c : /\ v = reg[o].other /\ x = buf_[v][Cell(reg[o].other_head + reg[o].i)]
                       /\ c = Cell(tail_[o] + reg[o].i)
    OBVIOUS
  <1>3. PICK s : s = IF reg[o].i + 1 = reg[o].n THEN "steal_take" ELSE "copy"
    OBVIOUS
  <1>4. PICK r : r = [reg[o] EXCEPT !.i = reg[o].i + 1]
    OBVIOUS
  <1>5. /\ running[o] = "copy" /\ buf_' = [buf_ EXCEPT ![o][c] = x] /\ reg' = [reg EXCEPT ![o] = r]
        /\ running' = [running EXCEPT ![o] = s]
        /\ UNCHANGED <<head_, tail_, global_queue, popped, made>>
    BY <1>2, <1>3, <1>4 DEF StealCopy
  <1>6. /\ reg[o].head \in Nat /\ reg[o].i \in Nat /\ reg[o].n \in Nat \ {0} /\ reg[o].i < reg[o].n
        /\ head_[o] \in Nat /\ tail_[o] \in Nat /\ N \in Nat
        /\ head_[o] <= tail_[o] /\ tail_[o] <= head_[o] + N
        /\ reg[o].head <= head_[o] /\ tail_[o] + reg[o].n <= reg[o].head + N
    <2>1. N \in Nat
      BY DEF StealingAssumption
    <2> QED BY <1>1, <1>5, <2>1, LocalsOf DEF StealType, Window, Thieving
  <1>7. /\ v \in Owner \ {o} /\ reg[o].other_head \in Nat /\ reg[o].other_head <= head_[v]
        /\ reg[o].other_head + reg[o].n <= tail_[v]
        /\ head_[v] = reg[o].other_head =>
             \A k \in 0..(reg[o].i - 1) : buf_[o][Cell(tail_[o] + k)] = buf_[v][Cell(reg[o].other_head + k)]
    BY <1>1, <1>2, <1>5, LocalsOf DEF Thieving
  <1>8. c \in 0..(N - 1) /\ x \in Nat
    <2>1. Cell(tail_[o] + reg[o].i) \in 0..(N - 1) /\ Cell(reg[o].other_head + reg[o].i) \in 0..(N - 1)
      BY <1>6, <1>7, CellIn
    <2> QED BY <1>1, <1>2, <1>7, <2>1 DEF StealType
  <1>9. r \in Locals /\ r.i = reg[o].i + 1 /\ r.head = reg[o].head /\ r.n = reg[o].n /\ r.other = v
        /\ r.other_head = reg[o].other_head
    BY <1>1, <1>2, <1>4, <1>6, LocalsOf DEF Locals
  <1>10. /\ \A u \in Owner : running'[u] = IF u = o THEN s ELSE running[u]
         /\ \A u \in Owner : reg'[u] = IF u = o THEN r ELSE reg[u]
         /\ \A u \in Owner \ {o} : buf_'[u] = buf_[u]
    BY <1>1, <1>5 DEF StealType
  <1>11. /\ buf_'[o] = [buf_[o] EXCEPT ![c] = x]
         /\ \A d \in 0..(N - 1) : buf_'[o][d] = IF d = c THEN x ELSE buf_[o][d]
    BY <1>1, <1>5, <1>8 DEF StealType
  <1>12. StealType'
    <2>1. s \in StealState
      BY <1>3 DEF StealState
    <2>2. buf_' \in [Owner -> [0..(N - 1) -> Nat]]
      <3>1. buf_'[o] \in [0..(N - 1) -> Nat]
        BY <1>1, <1>8, <1>11 DEF StealType
      <3> QED BY <1>1, <1>5, <1>10, <3>1 DEF StealType
    <2> QED BY <1>1, <1>5, <1>9, <2>1, <2>2 DEF StealType
  <1>13. \A i \in Nat : head_[o] <= i /\ i < tail_[o] + reg[o].i => buf_'[o][Cell(i)] = buf_[o][Cell(i)]
    <2>1. ASSUME NEW i \in Nat, head_[o] <= i, i < tail_[o] + reg[o].i PROVE Cell(i) # c /\ Cell(i) \in 0..(N - 1)
      <3>1. PICK j : j = tail_[o] + reg[o].i
        OBVIOUS
      <3>2. j \in Nat /\ i < j /\ j < i + N
        BY <1>6, <2>1, <3>1
      <3>3. Cell(i) # Cell(j)
        BY <3>2, CellsApart
      <3> QED BY <1>2, <3>1, <3>3, CellIn
    <2> QED BY <1>11, <2>1
  <1>14. \A i \in Nat : head_[o] <= i /\ i < tail_[o] => buf_'[o][Cell(i)] = buf_[o][Cell(i)]
    BY <1>6, <1>13
  <1>15. StepOf(o)
    <2>1. \A u \in Owner : /\ head_[u] <= head_'[u] /\ head_'[u] <= tail_'[u] /\ tail_[u] <= tail_'[u]
      BY <1>1, <1>5 DEF StealType, Window
    <2> QED BY <1>5, <1>10, <1>14, <2>1 DEF StepOf
  <1>16. Window(o)'
    BY <1>3, <1>5, <1>6, <1>9, <1>10 DEF Window
  <1>17. Thieving(o)'
    <2>1. ASSUME head_[v] = reg[o].other_head, NEW k \in 0..(r.i - 1)
          PROVE  buf_'[o][Cell(tail_[o] + k)] = buf_[v][Cell(reg[o].other_head + k)]
      <3>1. CASE k = reg[o].i
        BY <1>2, <1>8, <1>11, <3>1
      <3>2. CASE k # reg[o].i
        <4>1. k \in 0..(reg[o].i - 1)
          BY <1>6, <1>9, <3>2
        <4>2. PICK i : i = tail_[o] + k
          OBVIOUS
        <4>3. i \in Nat /\ head_[o] <= i /\ i < tail_[o] + reg[o].i
          BY <1>6, <4>1, <4>2
        <4> QED BY <1>7, <1>13, <2>1, <4>1, <4>2, <4>3
      <3> QED BY <3>1, <3>2
    <2>2. (s = "copy" => r.i < r.n) /\ (s = "steal_take" => r.i = r.n) /\ s \in {"copy", "steal_take"}
      BY <1>3, <1>6, <1>9
    <2>3. buf_'[v] = buf_[v] /\ UNCHANGED <<head_, tail_>>
      BY <1>5, <1>7, <1>10
    <2> QED BY <1>7, <1>9, <1>10, <2>1, <2>2, <2>3 DEF Thieving
  <1>18. \A i \in Nat : HoldsAt(o, i)' <=> HoldsAt(o, i)
    BY <1>3, <1>5, <1>10 DEF HoldsAt
  <1>19. \A i \in Nat : HoldsAt(o, i) => InBuf(o, i)' = InBuf(o, i)
    BY <1>5, <1>14 DEF HoldsAt, InBuf
  <1>20. /\ running'[o] \in {"push", "make_room", "overflow"} <=> running[o] \in {"push", "make_room", "overflow"}
         /\ running[o] \in {"push", "make_room", "overflow"} => reg'[o].value = reg[o].value
         /\ \A u \in Owner \ {o} : head_'[u] = head_[u]
         /\ UNCHANGED <<popped, global_queue, made>>
    BY <1>3, <1>5, <1>10
  <1> QED BY <1>12, <1>15, <1>16, <1>17, <1>18, <1>19, <1>20, QuietStep

LEMMA PopTakeSafe ==
  ASSUME StealingAssumption, StealInv, NEW o \in Owner, PopTake(o)
  PROVE  StealInv'
PROOF
  <1>1. StealType /\ (\A u \in Owner : Window(u) /\ Thieving(u)) /\ ValuesInv
    BY DEF StealInv
  <1>2. /\ running[o] = "pop" /\ running' = [running EXCEPT ![o] = "none"]
        /\ reg' = [reg EXCEPT ![o] = NoLocals] /\ UNCHANGED <<tail_, buf_, global_queue, made>>
    BY DEF PopTake, To
  <1>3. NoLocals \in Locals /\ "none" \in StealState
    BY <1>1, LocalsOf DEF StealState
  <1>4. CASE head_[o] # reg[o].head
    <2>1. UNCHANGED <<head_, tail_, buf_, popped, global_queue, made>>
      BY <1>2, <1>4 DEF PopTake
    <2>2. MayGo(o, "none", NoLocals)
      BY <1>2, <1>3 DEF MayGo
    <2> QED BY <1>2, <2>1, <2>2, LocalStep
  <1>5. CASE head_[o] = reg[o].head
    <2>1. PICK h, x : h = head_[o] /\ x = buf_[o][Cell(head_[o])]
      OBVIOUS
    <2>2. head_' = [head_ EXCEPT ![o] = h + 1] /\ popped' = popped \union {x}
      <3>1. reg[o].value = x
        BY <1>1, <1>2, <1>5, <2>1 DEF Window
      <3> QED BY <1>5, <2>1, <3>1 DEF PopTake
    <2>3. h \in Nat /\ h + 1 \in Nat /\ h < tail_[o] /\ tail_[o] \in Nat /\ tail_[o] <= h + N /\ N \in Nat
      <3>1. N \in Nat
        BY DEF StealingAssumption
      <3> QED BY <1>1, <1>2, <1>5, <2>1, <3>1 DEF StealType, Window
    <2>4. /\ \A u \in Owner : head_'[u] = IF u = o THEN h + 1 ELSE head_[u]
          /\ \A u \in Owner : running'[u] = IF u = o THEN "none" ELSE running[u]
          /\ \A u \in Owner : reg'[u] = IF u = o THEN NoLocals ELSE reg[u]
      BY <1>1, <1>2, <2>2 DEF StealType
    <2>5. StealType'
      BY <1>1, <1>2, <1>3, <2>2, <2>3 DEF StealType
    <2>6. StepOf(o)
      <3>1. \A u \in Owner : head_[u] \in Nat /\ tail_[u] \in Nat /\ head_[u] <= tail_[u]
        BY <1>1 DEF StealType, Window
      <3>2. \A u \in Owner : head_[u] <= head_'[u] /\ head_'[u] <= tail_'[u] /\ tail_[u] <= tail_'[u]
        BY <1>2, <2>1, <2>3, <2>4, <3>1
      <3> QED BY <1>2, <2>4, <3>2 DEF StepOf
    <2>7. Window(o)' /\ Thieving(o)'
      BY <1>2, <2>3, <2>4 DEF Window, Thieving
    <2>8. ValuesInv'
      <3>1. PICK R, D, T : R = {h} /\ D = {} /\ T = {x}
        OBVIOUS
      <3>2. R \in SUBSET Nat /\ D \in SUBSET Pushing
        BY <2>3, <3>1
      <3>3. \A i \in R : HoldsAt(o, i)
        BY <2>1, <2>3, <3>1 DEF HoldsAt
      <3>4. T = {InBuf(o, i) : i \in R} \union {reg[u].value : u \in D}
        BY <2>1, <3>1 DEF InBuf
      <3>5. \A u \in Owner : \A i \in Nat : HoldsAt(u, i)' <=> HoldsAt(u, i) /\ ~(u = o /\ i \in R)
        <4>1. \A i \in Nat : HoldsAt(o, i)' <=> HoldsAt(o, i) /\ i # h
          BY <1>2, <2>1, <2>3, <2>4 DEF HoldsAt
        <4>2. \A u \in Owner \ {o} : \A i \in Nat : HoldsAt(u, i)' <=> HoldsAt(u, i)
          BY <1>2, <2>4 DEF HoldsAt
        <4> QED BY <3>1, <4>1, <4>2
      <3>6. \A u \in Owner : \A i \in Nat : HoldsAt(u, i) => InBuf(u, i)' = InBuf(u, i)
        BY <1>2 DEF InBuf
      <3>7. Pushing' = Pushing \ D /\ \A u \in Pushing \ D : reg'[u].value = reg[u].value
        BY <1>2, <2>4, <3>1 DEF Pushing
      <3>8. popped' = popped \union T /\ global_queue' = global_queue /\ made' = made
        BY <1>2, <2>2, <3>1
      <3> QED BY <1>1, <3>2, <3>3, <3>4, <3>5, <3>6, <3>7, <3>8, ValuesTaken
    <2> QED BY <2>5, <2>6, <2>7, <2>8, StepAssembled
  <1> QED BY <1>4, <1>5

LEMMA PushOverflowSafe ==
  ASSUME StealingAssumption, StealInv, NEW o \in Owner, PushOverflow(o)
  PROVE  StealInv'
PROOF
  <1>1. StealType /\ (\A u \in Owner : Window(u) /\ Thieving(u)) /\ ValuesInv
    BY DEF StealInv
  <1>2. /\ running[o] = "overflow" /\ running' = [running EXCEPT ![o] = "none"]
        /\ reg' = [reg EXCEPT ![o] = NoLocals] /\ UNCHANGED <<head_, tail_, buf_, popped, made>>
        /\ global_queue' = global_queue \union Dropped(o)
    BY DEF PushOverflow, To, queues
  <1>3. NoLocals \in Locals /\ "none" \in StealState
    BY <1>1, LocalsOf DEF StealState
  <1>4. PICK h : h = reg[o].head
    OBVIOUS
  <1>5. h \in Nat /\ Overflow \in Nat /\ h + Overflow <= head_[o] /\ head_[o] \in Nat
    <2>1. Overflow \in Nat
      BY OverflowFits
    <2> QED BY <1>1, <1>2, <1>4, <2>1, LocalsOf DEF StealType, Window
  <1>6. /\ \A u \in Owner : running'[u] = IF u = o THEN "none" ELSE running[u]
        /\ \A u \in Owner : reg'[u] = IF u = o THEN NoLocals ELSE reg[u]
    BY <1>1, <1>2 DEF StealType
  <1>7. StealType'
    BY <1>1, <1>2, <1>3 DEF StealType
  <1>8. StepOf(o)
    <2>1. \A u \in Owner : head_[u] \in Nat /\ tail_[u] \in Nat /\ head_[u] <= tail_[u]
      BY <1>1 DEF StealType, Window
    <2> QED BY <1>2, <1>6, <2>1 DEF StepOf
  <1>9. Window(o)' /\ Thieving(o)'
    BY <1>1, <1>2, <1>6 DEF Window, Thieving
  <1>10. ValuesInv'
    <2>1. PICK R, D : R = {i \in Nat : h <= i /\ i < h + Overflow} /\ D = {o}
      OBVIOUS
    <2>2. PICK T : T = {InBuf(o, i) : i \in R} \union {reg[u].value : u \in D}
      OBVIOUS
    <2>3. T = Dropped(o)
      <3>1. {InBuf(o, i) : i \in R} = {buf_[o][Cell(h + k)] : k \in 0..(Overflow - 1)}
        <4>1. ASSUME NEW i \in R PROVE \E k \in 0..(Overflow - 1) : h + k = i
          <5>1. i - h \in 0..(Overflow - 1) /\ h + (i - h) = i
            BY <1>5, <2>1, <4>1
          <5> QED BY <5>1
        <4>2. ASSUME NEW k \in 0..(Overflow - 1) PROVE h + k \in R
          BY <1>5, <2>1, <4>2
        <4> QED BY <4>1, <4>2 DEF InBuf
      <3>2. {reg[u].value : u \in D} = {reg[o].value}
        BY <2>1
      <3> QED BY <1>4, <2>2, <3>1, <3>2 DEF Dropped
    <2>4. R \in SUBSET Nat /\ D \in SUBSET Pushing
      BY <1>2, <2>1 DEF Pushing
    <2>5. \A i \in R : HoldsAt(o, i)
      BY <1>2, <1>4, <2>1 DEF HoldsAt
    <2>6. \A u \in Owner : \A i \in Nat : HoldsAt(u, i)' <=> HoldsAt(u, i) /\ ~(u = o /\ i \in R)
      <3>1. \A i \in Nat : HoldsAt(o, i)' <=> HoldsAt(o, i) /\ i \notin R
        BY <1>2, <1>4, <1>5, <1>6, <2>1 DEF HoldsAt
      <3>2. \A u \in Owner \ {o} : \A i \in Nat : HoldsAt(u, i)' <=> HoldsAt(u, i)
        BY <1>2, <1>6 DEF HoldsAt
      <3> QED BY <3>1, <3>2
    <2>7. \A u \in Owner : \A i \in Nat : HoldsAt(u, i) => InBuf(u, i)' = InBuf(u, i)
      BY <1>2 DEF InBuf
    <2>8. Pushing' = Pushing \ D /\ \A u \in Pushing \ D : reg'[u].value = reg[u].value
      BY <1>2, <1>6, <2>1 DEF Pushing
    <2>9. popped' = popped /\ global_queue' = global_queue \union T /\ made' = made
      BY <1>2, <2>3
    <2> QED BY <1>1, <2>2, <2>4, <2>5, <2>6, <2>7, <2>8, <2>9, ValuesTaken
  <1> QED BY <1>7, <1>8, <1>9, <1>10, StepAssembled

LEMMA StealPublishSafe ==
  ASSUME StealingAssumption, StealInv, NEW o \in Owner, StealPublish(o)
  PROVE  StealInv'
PROOF
  <1>1. StealType /\ (\A u \in Owner : Window(u) /\ Thieving(u)) /\ ValuesInv
    BY DEF StealInv
  <1>2. PICK last, x : last = tail_[o] + reg[o].n - 1 /\ x = buf_[o][Cell(last)]
    OBVIOUS
  <1>3. /\ running[o] = "publish" /\ running' = [running EXCEPT ![o] = "none"]
        /\ reg' = [reg EXCEPT ![o] = NoLocals] /\ UNCHANGED <<head_, buf_, global_queue, made>>
        /\ popped' = popped \union {x} /\ tail_' = [tail_ EXCEPT ![o] = last]
    BY <1>2 DEF StealPublish, To
  <1>4. NoLocals \in Locals /\ "none" \in StealState
    BY <1>1, LocalsOf DEF StealState
  <1>5. /\ tail_[o] \in Nat /\ reg[o].n \in Nat \ {0} /\ head_[o] \in Nat /\ N \in Nat
        /\ last \in Nat /\ tail_[o] <= last /\ head_[o] <= last /\ last <= head_[o] + N
        /\ \A i \in Nat : i < tail_[o] + reg[o].n <=> i < last \/ i = last
    <2>1. N \in Nat
      BY DEF StealingAssumption
    <2>2. /\ tail_[o] \in Nat /\ reg[o].n \in Nat \ {0} /\ head_[o] \in Nat /\ reg[o].head \in Nat
          /\ head_[o] <= tail_[o] /\ reg[o].head <= head_[o] /\ tail_[o] + reg[o].n <= reg[o].head + N
      BY <1>1, <1>3, LocalsOf DEF StealType, Window
    <2> QED BY <1>2, <2>1, <2>2
  <1>6. /\ \A u \in Owner : running'[u] = IF u = o THEN "none" ELSE running[u]
        /\ \A u \in Owner : reg'[u] = IF u = o THEN NoLocals ELSE reg[u]
        /\ \A u \in Owner : tail_'[u] = IF u = o THEN last ELSE tail_[u]
    BY <1>1, <1>3 DEF StealType
  <1>7. StealType'
    BY <1>1, <1>3, <1>4, <1>5 DEF StealType
  <1>8. StepOf(o)
    <2>1. \A u \in Owner : head_[u] \in Nat /\ tail_[u] \in Nat /\ head_[u] <= tail_[u]
      BY <1>1 DEF StealType, Window
    <2> QED BY <1>3, <1>5, <1>6, <2>1 DEF StepOf
  <1>9. Window(o)' /\ Thieving(o)'
    BY <1>3, <1>5, <1>6 DEF Window, Thieving
  <1>10. ValuesInv'
    <2>1. PICK R, D, T : R = {last} /\ D = {} /\ T = {x}
      OBVIOUS
    <2>2. R \in SUBSET Nat /\ D \in SUBSET Pushing
      BY <1>5, <2>1
    <2>3. \A i \in R : HoldsAt(o, i)
      BY <1>3, <1>5, <2>1 DEF HoldsAt
    <2>4. T = {InBuf(o, i) : i \in R} \union {reg[u].value : u \in D}
      BY <1>2, <2>1 DEF InBuf
    <2>5. \A u \in Owner : \A i \in Nat : HoldsAt(u, i)' <=> HoldsAt(u, i) /\ ~(u = o /\ i \in R)
      <3>1. \A i \in Nat : HoldsAt(o, i)' <=> HoldsAt(o, i) /\ i # last
        <4>1. SUFFICES ASSUME NEW i \in Nat PROVE HoldsAt(o, i)' <=> HoldsAt(o, i) /\ i # last
          OBVIOUS
        <4>2. HoldsAt(o, i)' <=> head_[o] <= i /\ i < last
          BY <1>3, <1>6 DEF HoldsAt
        <4>3. HoldsAt(o, i) <=> head_[o] <= i /\ i < tail_[o] + reg[o].n
          <5>1. head_[o] <= tail_[o]
            BY <1>1 DEF Window
          <5> QED BY <1>3, <1>5, <5>1 DEF HoldsAt
        <4> QED BY <1>5, <4>2, <4>3
      <3>2. \A u \in Owner \ {o} : \A i \in Nat : HoldsAt(u, i)' <=> HoldsAt(u, i)
        BY <1>3, <1>6 DEF HoldsAt
      <3> QED BY <2>1, <3>1, <3>2
    <2>6. \A u \in Owner : \A i \in Nat : HoldsAt(u, i) => InBuf(u, i)' = InBuf(u, i)
      BY <1>3 DEF InBuf
    <2>7. Pushing' = Pushing \ D /\ \A u \in Pushing \ D : reg'[u].value = reg[u].value
      BY <1>3, <1>6, <2>1 DEF Pushing
    <2>8. popped' = popped \union T /\ global_queue' = global_queue /\ made' = made
      BY <1>3, <2>1
    <2> QED BY <1>1, <2>2, <2>3, <2>4, <2>5, <2>6, <2>7, <2>8, ValuesTaken
  <1> QED BY <1>7, <1>8, <1>9, <1>10, StepAssembled

LEMMA LocalPushSafe ==
  ASSUME StealingAssumption, StealInv, NEW o \in Owner, LocalPush(o)
  PROVE  StealInv'
PROOF
  <1>1. StealType /\ (\A u \in Owner : Window(u) /\ Thieving(u)) /\ ValuesInv
    BY DEF StealInv
  <1>2. PICK x, r : x = made + 1 /\ r = [reg[o] EXCEPT !.value = made + 1]
    OBVIOUS
  <1>3. /\ running[o] = "none" /\ running' = [running EXCEPT ![o] = "push"] /\ reg' = [reg EXCEPT ![o] = r]
        /\ made' = x /\ UNCHANGED <<head_, tail_, buf_, global_queue, popped>>
    BY <1>2 DEF LocalPush, To, queues
  <1>4. made \in Nat /\ x \in Nat /\ x \notin 1..made /\ 1..x = 1..made \union {x}
    BY <1>1, <1>2 DEF StealType
  <1>5. r \in Locals /\ r.value = x
    BY <1>1, <1>2, <1>4, LocalsOf DEF Locals
  <1>6. /\ \A u \in Owner : running'[u] = IF u = o THEN "push" ELSE running[u]
        /\ \A u \in Owner : reg'[u] = IF u = o THEN r ELSE reg[u]
    BY <1>1, <1>3 DEF StealType
  <1>7. StealType'
    <2>1. "push" \in StealState
      BY DEF StealState
    <2> QED BY <1>1, <1>3, <1>4, <1>5, <2>1 DEF StealType
  <1>8. StepOf(o)
    <2>1. \A u \in Owner : head_[u] \in Nat /\ tail_[u] \in Nat /\ head_[u] <= tail_[u]
      BY <1>1 DEF StealType, Window
    <2> QED BY <1>3, <1>6, <2>1 DEF StepOf
  <1>9. Window(o)' /\ Thieving(o)'
    BY <1>1, <1>3, <1>6 DEF Window, Thieving
  <1>10. ValuesInv'
    <2>1. PlacesDiffer /\ PushesDiffer /\ PlacesFresh /\ TakenOnce /\ NoneLost /\ Pushing \subseteq Owner
      BY <1>1 DEF ValuesInv, Pushing
    <2>2. \A u \in Owner : \A i \in Nat : (HoldsAt(u, i)' <=> HoldsAt(u, i)) /\ InBuf(u, i)' = InBuf(u, i)
      BY <1>3, <1>6 DEF HoldsAt, InBuf
    <2>3. \A v : NotYetTaken(v) => NotYetTaken(v)'
      BY <1>3, <1>4 DEF NotYetTaken
    <2>4. NotYetTaken(x)'
      BY <1>3, <1>4, <2>1 DEF NotYetTaken, TakenOnce
    <2>5. \A v : NotYetTaken(v) => v # x
      BY <1>4 DEF NotYetTaken
    <2>6. Pushing' = Pushing \union {o} /\ o \notin Pushing
      BY <1>3, <1>6 DEF Pushing
    <2>7. reg'[o].value = x /\ \A u \in Pushing : reg'[u].value = reg[u].value
      BY <1>5, <1>6, <2>1, <2>6
    <2>8. PlacesDiffer'
      BY <2>1, <2>2 DEF PlacesDiffer
    <2>9. PlacesFresh'
      BY <1>3, <1>4, <2>1, <2>2 DEF PlacesFresh, NotYetTaken
    <2>10. PushesDiffer'
      <3>1. \A u \in Pushing : NotYetTaken(reg[u].value) /\ reg[u].value # x
        BY <2>1, <2>5 DEF PushesDiffer
      <3>2. \A u \in Owner, i \in Nat : HoldsAt(u, i) => InBuf(u, i) # x
        BY <2>1, <2>5 DEF PlacesFresh
      <3>3. \A u \in Pushing' : /\ reg'[u].value \in 1..made' /\ reg'[u].value \notin popped'
                                /\ reg'[u].value \notin global_queue'
        BY <1>3, <2>3, <2>4, <2>6, <2>7, <3>1 DEF NotYetTaken
      <3>4. \A u, p \in Pushing' : reg'[u].value = reg'[p].value => u = p
        BY <2>1, <2>6, <2>7, <3>1 DEF PushesDiffer
      <3>5. \A u \in Pushing', p \in Owner, j \in Nat : HoldsAt(p, j)' => InBuf(p, j)' # reg'[u].value
        BY <2>1, <2>2, <2>6, <2>7, <3>2 DEF PushesDiffer
      <3> QED BY <3>3, <3>4, <3>5 DEF PushesDiffer, NotYetTaken
    <2>11. TakenOnce'
      BY <1>3, <1>4, <2>1 DEF TakenOnce
    <2>12. NoneLost'
      <3>1. Somewhere(x)'
        BY <2>6, <2>7 DEF Somewhere
      <3>2. ASSUME NEW v \in 1..made PROVE Somewhere(v)'
        <4>1. Somewhere(v)
          BY <2>1 DEF NoneLost
        <4> QED BY <1>3, <2>1, <2>2, <2>6, <2>7, <4>1 DEF Somewhere
      <3> QED BY <1>3, <1>4, <3>1, <3>2 DEF NoneLost
    <2> QED BY <2>8, <2>9, <2>10, <2>11, <2>12 DEF ValuesInv
  <1> QED BY <1>7, <1>8, <1>9, <1>10, StepAssembled

LEMMA PushLoadSafe ==
  ASSUME StealingAssumption, StealInv, NEW o \in Owner, PushLoad(o)
  PROVE  StealInv'
PROOF
  <1>1. StealType /\ (\A u \in Owner : Window(u) /\ Thieving(u)) /\ ValuesInv
    BY DEF StealInv
  <1>2. PICK t, x, c : t = tail_[o] /\ x = reg[o].value /\ c = Cell(tail_[o])
    OBVIOUS
  <1>3. /\ running[o] = "push" /\ UNCHANGED <<head_, global_queue, popped, made>>
    BY DEF PushLoad
  <1>4. t \in Nat /\ head_[o] \in Nat /\ N \in Nat /\ head_[o] <= t /\ t <= head_[o] + N /\ x \in Nat
    <2>1. N \in Nat
      BY DEF StealingAssumption
    <2> QED BY <1>1, <1>2, <2>1, LocalsOf DEF StealType, Window
  <1>5. NoLocals \in Locals /\ "none" \in StealState
    BY <1>1, LocalsOf DEF StealState
  <1>6. CASE ~(t - head_[o] < N)
    <2>1. PICK r : r = [reg[o] EXCEPT !.head = head_[o]]
      OBVIOUS
    <2>2. r \in Locals /\ r.head = head_[o] /\ r.value = reg[o].value
      BY <1>1, <1>4, <2>1, LocalsOf DEF Locals
    <2>3. /\ running' = [running EXCEPT ![o] = "make_room"] /\ reg' = [reg EXCEPT ![o] = r]
          /\ UNCHANGED <<head_, tail_, buf_, popped, global_queue, made>>
      BY <1>2, <1>3, <1>6, <2>1 DEF PushLoad
    <2>4. tail_[o] = head_[o] + N
      BY <1>2, <1>4, <1>6
    <2>5. MayGo(o, "make_room", r)
      BY <1>3, <1>4, <2>2, <2>4 DEF MayGo, StealState
    <2> QED BY <2>3, <2>5, LocalStep
  <1>7. CASE t - head_[o] < N
    <2>1. /\ running' = [running EXCEPT ![o] = "none"] /\ reg' = [reg EXCEPT ![o] = NoLocals]
          /\ buf_' = [buf_ EXCEPT ![o][c] = x] /\ tail_' = [tail_ EXCEPT ![o] = t + 1]
      BY <1>2, <1>3, <1>7 DEF PushLoad
    <2>2. c \in 0..(N - 1)
      <3>1. Cell(t) \in 0..(N - 1)
        BY <1>4, CellIn
      <3> QED BY <1>2, <3>1
    <2>3. t < head_[o] + N /\ t + 1 \in Nat /\ t + 1 <= head_[o] + N
      BY <1>4, <1>7
    <2>4. /\ \A u \in Owner : running'[u] = IF u = o THEN "none" ELSE running[u]
          /\ \A u \in Owner : reg'[u] = IF u = o THEN NoLocals ELSE reg[u]
          /\ \A u \in Owner : tail_'[u] = IF u = o THEN t + 1 ELSE tail_[u]
          /\ \A u \in Owner \ {o} : buf_'[u] = buf_[u]
      BY <1>1, <2>1 DEF StealType
    <2>5. /\ buf_'[o] = [buf_[o] EXCEPT ![c] = x]
          /\ \A d \in 0..(N - 1) : buf_'[o][d] = IF d = c THEN x ELSE buf_[o][d]
      BY <1>1, <2>1, <2>2 DEF StealType
    <2>6. StealType'
      <3>1. buf_' \in [Owner -> [0..(N - 1) -> Nat]]
        <4>1. buf_'[o] \in [0..(N - 1) -> Nat]
          BY <1>1, <1>4, <2>2, <2>5 DEF StealType
        <4> QED BY <1>1, <2>1, <2>4, <4>1 DEF StealType
      <3> QED BY <1>1, <1>3, <1>5, <2>1, <2>3, <3>1 DEF StealType
    <2>7. \A i \in Nat : head_[o] <= i /\ i < t => buf_'[o][Cell(i)] = buf_[o][Cell(i)]
      <3>1. ASSUME NEW i \in Nat, head_[o] <= i, i < t PROVE Cell(i) # c /\ Cell(i) \in 0..(N - 1)
        <4>1. t < i + N
          BY <1>4, <2>3, <3>1
        <4>2. Cell(i) # Cell(t)
          BY <1>4, <3>1, <4>1, CellsApart
        <4> QED BY <1>2, <3>1, <4>2, CellIn
      <3> QED BY <2>5, <3>1
    <2>8. StepOf(o)
      <3>1. \A u \in Owner : head_[u] \in Nat /\ tail_[u] \in Nat /\ head_[u] <= tail_[u]
        BY <1>1 DEF StealType, Window
      <3>2. \A u \in Owner : head_[u] <= head_'[u] /\ head_'[u] <= tail_'[u] /\ tail_[u] <= tail_'[u]
        BY <1>2, <1>3, <1>4, <2>4, <3>1
      <3> QED BY <1>2, <2>4, <2>7, <3>2 DEF StepOf
    <2>9. Window(o)' /\ Thieving(o)'
      BY <1>3, <1>4, <2>3, <2>4 DEF Window, Thieving
    <2>10. ValuesInv'
      <3>1. PlacesDiffer /\ PushesDiffer /\ PlacesFresh /\ TakenOnce /\ NoneLost /\ Pushing \subseteq Owner
        BY <1>1 DEF ValuesInv, Pushing
      <3>2. \A i \in Nat : (HoldsAt(o, i)' <=> HoldsAt(o, i) \/ i = t) /\ (HoldsAt(o, i) => i # t)
        BY <1>2, <1>3, <1>4, <2>4 DEF HoldsAt
      <3>3. \A i \in Nat : HoldsAt(o, i) => InBuf(o, i)' = InBuf(o, i)
        BY <1>2, <1>3, <2>7 DEF HoldsAt, InBuf
      <3>4. InBuf(o, t)' = x
        BY <1>2, <2>2, <2>5 DEF InBuf
      <3>5. \A u \in Owner \ {o} : \A i \in Nat : (HoldsAt(u, i)' <=> HoldsAt(u, i)) /\ InBuf(u, i)' = InBuf(u, i)
        BY <1>3, <2>4 DEF HoldsAt, InBuf
      <3>6. Pushing' = Pushing \ {o} /\ o \in Pushing /\ \A u \in Pushing \ {o} : reg'[u].value = reg[u].value
        BY <1>3, <2>4 DEF Pushing
      <3>7. /\ NotYetTaken(x) /\ \A u \in Owner, i \in Nat : HoldsAt(u, i) => InBuf(u, i) # x
            /\ \A u \in Pushing : reg[u].value = x => u = o
        BY <1>2, <3>1, <3>6 DEF PushesDiffer
      <3>8. PlacesDiffer'
        <4>1. \A u \in Owner, i \in Nat : HoldsAt(u, i)' =>
                \/ u = o /\ i = t /\ InBuf(u, i)' = x
                \/ HoldsAt(u, i) /\ InBuf(u, i)' = InBuf(u, i) /\ InBuf(u, i) # x
          BY <3>2, <3>3, <3>4, <3>5, <3>7
        <4> QED BY <3>1, <4>1 DEF PlacesDiffer
      <3>9. PlacesFresh'
        BY <1>3, <3>1, <3>2, <3>3, <3>4, <3>5, <3>7 DEF PlacesFresh, NotYetTaken
      <3>10. PushesDiffer'
        <4>1. \A u \in Pushing', p \in Owner, j \in Nat : HoldsAt(p, j)' => InBuf(p, j)' # reg'[u].value
          BY <3>1, <3>2, <3>3, <3>4, <3>5, <3>6, <3>7 DEF PushesDiffer
        <4>2. \A u, p \in Pushing' : reg'[u].value = reg'[p].value => u = p
          BY <3>1, <3>6 DEF PushesDiffer
        <4>3. \A u \in Pushing' : /\ reg'[u].value \in 1..made' /\ reg'[u].value \notin popped'
                                  /\ reg'[u].value \notin global_queue'
          BY <1>3, <3>1, <3>6 DEF PushesDiffer, NotYetTaken
        <4> QED BY <4>1, <4>2, <4>3 DEF PushesDiffer, NotYetTaken
      <3>11. TakenOnce'
        BY <1>3, <3>1 DEF TakenOnce
      <3>12. NoneLost'
        <4>1. SUFFICES ASSUME NEW v \in 1..made PROVE Somewhere(v)'
          BY <1>3 DEF NoneLost
        <4>2. CASE v = x
          BY <1>4, <3>2, <3>4, <4>2 DEF Somewhere
        <4>3. CASE v \in popped \/ v \in global_queue
          BY <1>3, <4>3 DEF Somewhere
        <4>4. CASE v # x /\ \E u \in Pushing : reg[u].value = v
          <5>1. PICK u \in Pushing : reg[u].value = v
            BY <4>4
          <5>2. u # o
            BY <1>2, <4>4, <5>1
          <5> QED BY <3>6, <5>1, <5>2 DEF Somewhere
        <4>5. CASE \E u \in Owner, i \in Nat : HoldsAt(u, i) /\ InBuf(u, i) = v
          <5>1. PICK u \in Owner, i \in Nat : HoldsAt(u, i) /\ InBuf(u, i) = v
            BY <4>5
          <5>2. HoldsAt(u, i)' /\ InBuf(u, i)' = v
            BY <3>2, <3>3, <3>5, <5>1
          <5> QED BY <5>2 DEF Somewhere
        <4> QED BY <3>1, <4>2, <4>3, <4>4, <4>5 DEF NoneLost, Somewhere
      <3> QED BY <3>8, <3>9, <3>10, <3>11, <3>12 DEF ValuesInv
    <2> QED BY <2>6, <2>8, <2>9, <2>10, StepAssembled
  <1> QED BY <1>6, <1>7

(* head_ of the other is still what the thief read, so that what it copied is    *)
(* what was there: the values go from the places h.. of y to t.. of o.           *)
LEMMA StealTakeSafe ==
  ASSUME StealingAssumption, StealInv, NEW o \in Owner, StealTake(o)
  PROVE  StealInv'
PROOF
  <1>1. StealType /\ (\A u \in Owner : Window(u) /\ Thieving(u)) /\ ValuesInv
    BY DEF StealInv
  <1>2. PICK y, h, n, t : y = reg[o].other /\ h = reg[o].other_head /\ n = reg[o].n /\ t = tail_[o]
    OBVIOUS
  <1>3. running[o] = "steal_take" /\ UNCHANGED <<tail_, buf_, reg, global_queue, popped, made>>
    BY DEF StealTake
  <1>4. /\ y \in Owner \ {o} /\ h \in Nat /\ n \in Nat \ {0} /\ t \in Nat /\ N \in Nat
        /\ head_[o] \in Nat /\ head_[y] \in Nat /\ tail_[y] \in Nat /\ reg[o].head \in Nat
        /\ h <= head_[y] /\ h + n <= tail_[y] /\ head_[o] <= t /\ reg[o].head <= head_[o]
        /\ t + n <= reg[o].head + N
    <2>1. N \in Nat
      BY DEF StealingAssumption
    <2>2. y \in Owner \ {o} /\ h <= head_[y] /\ h + n <= tail_[y]
      BY <1>1, <1>2, <1>3 DEF Thieving
    <2> QED BY <1>1, <1>2, <1>3, <2>1, <2>2, LocalsOf DEF StealType, Window
  <1>5. CASE head_[y] # h
    <2>1. /\ reg' = [reg EXCEPT ![o] = reg[o]] /\ running' = [running EXCEPT ![o] = "again"]
          /\ UNCHANGED <<head_, tail_, buf_, popped, global_queue, made>>
      BY <1>1, <1>2, <1>3, <1>5 DEF StealTake, StealType
    <2>2. MayGo(o, "again", reg[o])
      BY <1>1, <1>2, <1>3, <1>4, LocalsOf DEF MayGo, StealState
    <2> QED BY <2>1, <2>2, LocalStep
  <1>6. CASE head_[y] = h
    <2>1. head_' = [head_ EXCEPT ![y] = h + n] /\ running' = [running EXCEPT ![o] = "publish"]
      BY <1>2, <1>6 DEF StealTake
    <2>2. /\ \A u \in Owner : head_'[u] = IF u = y THEN h + n ELSE head_[u]
          /\ \A u \in Owner : running'[u] = IF u = o THEN "publish" ELSE running[u]
      BY <1>1, <2>1 DEF StealType
    <2>3. StealType'
      <3>1. "publish" \in StealState /\ h + n \in Nat
        BY <1>4 DEF StealState
      <3> QED BY <1>1, <1>3, <2>1, <3>1 DEF StealType
    <2>4. StepOf(o)
      <3>1. \A u \in Owner : head_[u] \in Nat /\ tail_[u] \in Nat /\ head_[u] <= tail_[u]
        BY <1>1 DEF StealType, Window
      <3>2. \A u \in Owner : head_[u] <= head_'[u] /\ head_'[u] <= tail_'[u] /\ tail_[u] <= tail_'[u]
        BY <1>3, <1>4, <1>6, <2>2, <3>1
      <3> QED BY <1>3, <2>2, <3>2 DEF StepOf
    <2>5. Window(o)'
      <3>1. tail_[o] <= head_[o] + N
        BY <1>1 DEF Window
      <3> QED BY <1>2, <1>3, <1>4, <2>2, <3>1 DEF Window
    <2>6. Thieving(o)'
      BY <2>2 DEF Thieving
    <2>7. ValuesInv'
      <3>1. PlacesDiffer /\ PushesDiffer /\ PlacesFresh /\ TakenOnce /\ NoneLost /\ Pushing \subseteq Owner
        BY <1>1 DEF ValuesInv, Pushing
      <3>2. \A i \in Nat : /\ HoldsAt(o, i)' <=> HoldsAt(o, i) \/ (t <= i /\ i < t + n)
                           /\ HoldsAt(o, i) => i < t
        BY <1>2, <1>3, <1>4, <2>2 DEF HoldsAt
      <3>3. \A i \in Nat : /\ HoldsAt(y, i)' <=> HoldsAt(y, i) /\ ~(h <= i /\ i < h + n)
                           /\ h <= i /\ i < h + n => HoldsAt(y, i)
        <4>1. SUFFICES ASSUME NEW i \in Nat
                       PROVE  /\ HoldsAt(y, i)' <=> HoldsAt(y, i) /\ ~(h <= i /\ i < h + n)
                              /\ h <= i /\ i < h + n => HoldsAt(y, i)
          OBVIOUS
        <4>2. /\ running'[y] = running[y] /\ reg'[y] = reg[y] /\ tail_'[y] = tail_[y] /\ head_'[y] = h + n
              /\ reg[y].head \in Nat /\ reg[y].n \in Int /\ Overflow \in Nat
          <5>1. Overflow \in Nat
            BY OverflowFits
          <5>2. reg[y].head \in Nat /\ reg[y].n \in Int
            BY <1>1, <1>4, LocalsOf
          <5> QED BY <1>3, <1>4, <2>2, <5>1, <5>2
        <4>3. running[y] = "overflow" => reg[y].head + Overflow <= h
          BY <1>1, <1>4, <1>6 DEF Window
        <4> QED BY <1>4, <1>6, <4>2, <4>3 DEF HoldsAt
      <3>4. \A u \in Owner \ {o, y} : \A i \in Nat : HoldsAt(u, i)' <=> HoldsAt(u, i)
        BY <1>3, <2>2 DEF HoldsAt
      <3>5. \A u \in Owner : \A i \in Nat : InBuf(u, i)' = InBuf(u, i)
        BY <1>3 DEF InBuf
      <3>6. \A k \in 0..(n - 1) : InBuf(o, t + k) = InBuf(y, h + k)
        BY <1>1, <1>2, <1>3, <1>6 DEF Thieving, InBuf
      <3>7. \A i \in Nat : t <= i /\ i < t + n =>
              h + (i - t) \in Nat /\ HoldsAt(y, h + (i - t)) /\ InBuf(o, i) = InBuf(y, h + (i - t))
        <4>1. SUFFICES ASSUME NEW i \in Nat, t <= i, i < t + n
                       PROVE  h + (i - t) \in Nat /\ HoldsAt(y, h + (i - t)) /\ InBuf(o, i) = InBuf(y, h + (i - t))
          OBVIOUS
        <4>2. PICK k \in 0..(n - 1) : i = t + k
          <5>1. i - t \in 0..(n - 1) /\ i = t + (i - t)
            BY <1>4, <4>1
          <5> QED BY <5>1
        <4>3. h + (i - t) = h + k /\ h + k \in Nat /\ h <= h + k /\ h + k < h + n
          BY <1>4, <4>2
        <4> QED BY <3>3, <3>6, <4>2, <4>3
      <3>8. \A i \in Nat : h <= i /\ i < h + n => \E j \in Nat : HoldsAt(o, j)' /\ InBuf(o, j) = InBuf(y, i)
        <4>1. SUFFICES ASSUME NEW i \in Nat, h <= i, i < h + n
                       PROVE  \E j \in Nat : HoldsAt(o, j)' /\ InBuf(o, j) = InBuf(y, i)
          OBVIOUS
        <4>2. PICK k \in 0..(n - 1) : i = h + k
          <5>1. i - h \in 0..(n - 1) /\ i = h + (i - h)
            BY <1>4, <4>1
          <5> QED BY <5>1
        <4>3. t + k \in Nat /\ t <= t + k /\ t + k < t + n
          BY <1>4, <4>2
        <4> QED BY <3>2, <3>6, <4>2, <4>3
      <3>9. PlacesDiffer'
        <4>1. SUFFICES ASSUME NEW u \in Owner, NEW p \in Owner, NEW i \in Nat, NEW j \in Nat,
                              HoldsAt(u, i)', HoldsAt(p, j)', InBuf(u, i) = InBuf(p, j)
                       PROVE  u = p /\ i = j
          BY <3>5 DEF PlacesDiffer
        <4>2. \A v, w \in Owner : \A a, b \in Nat :
                HoldsAt(v, a) /\ HoldsAt(w, b) /\ InBuf(v, a) = InBuf(w, b) => v = w /\ a = b
          BY <3>1 DEF PlacesDiffer
        <4>3. \A v \in Owner : \A a \in Nat :
                HoldsAt(v, a)' => \/ v = o /\ t <= a /\ a < t + n
                                  \/ HoldsAt(v, a) /\ ~(v = o /\ t <= a) /\ ~(v = y /\ h <= a /\ a < h + n)
          BY <1>4, <3>2, <3>3, <3>4
        <4>4. CASE u = o /\ t <= i /\ i < t + n /\ p = o /\ t <= j /\ j < t + n
          <5>1. h + (i - t) = h + (j - t)
            BY <1>4, <3>7, <4>1, <4>2, <4>4
          <5> QED BY <1>4, <4>4, <5>1
        <4>5. CASE u = o /\ t <= i /\ i < t + n /\ HoldsAt(p, j) /\ ~(p = y /\ h <= j /\ j < h + n)
          <5>1. p = y /\ j = h + (i - t)
            BY <1>4, <3>7, <4>1, <4>2, <4>5
          <5>2. h <= j /\ j < h + n
            BY <1>4, <4>5, <5>1
          <5> QED BY <4>5, <5>1, <5>2
        <4>6. CASE p = o /\ t <= j /\ j < t + n /\ HoldsAt(u, i) /\ ~(u = y /\ h <= i /\ i < h + n)
          <5>1. u = y /\ i = h + (j - t)
            BY <1>4, <3>7, <4>1, <4>2, <4>6
          <5>2. h <= i /\ i < h + n
            BY <1>4, <4>6, <5>1
          <5> QED BY <4>6, <5>1, <5>2
        <4>7. CASE HoldsAt(u, i) /\ HoldsAt(p, j)
          BY <4>1, <4>2, <4>7
        <4> QED BY <4>1, <4>3, <4>4, <4>5, <4>6, <4>7
      <3>10. \A u \in Owner : \A i \in Nat : HoldsAt(u, i)' =>
               \E v \in Owner : \E j \in Nat : HoldsAt(v, j) /\ InBuf(v, j) = InBuf(u, i)
        <4>1. SUFFICES ASSUME NEW u \in Owner, NEW i \in Nat, HoldsAt(u, i)'
                       PROVE  \E v \in Owner : \E j \in Nat : HoldsAt(v, j) /\ InBuf(v, j) = InBuf(u, i)
          OBVIOUS
        <4>2. CASE HoldsAt(u, i)
          BY <4>2
        <4>3. CASE u = o /\ t <= i /\ i < t + n
          BY <1>4, <3>7, <4>3
        <4> QED BY <1>4, <3>2, <3>3, <3>4, <4>1, <4>2, <4>3
      <3>11. Pushing' = Pushing
        BY <1>3, <2>2 DEF Pushing
      <3>12. PlacesFresh'
        <4>1. \A u \in Owner : \A i \in Nat : HoldsAt(u, i) => NotYetTaken(InBuf(u, i))
          BY <3>1 DEF PlacesFresh
        <4> QED BY <1>3, <3>5, <3>10, <4>1 DEF PlacesFresh, NotYetTaken
      <3>13. PushesDiffer'
        <4>1. \A u \in Pushing, p \in Owner, j \in Nat : HoldsAt(p, j)' => InBuf(p, j)' # reg'[u].value
          <5>1. \A u \in Pushing : \A p \in Owner : \A j \in Nat : HoldsAt(p, j) => InBuf(p, j) # reg[u].value
            BY <3>1 DEF PushesDiffer
          <5> QED BY <1>3, <3>5, <3>10, <5>1
        <4> QED BY <1>3, <3>1, <3>11, <4>1 DEF PushesDiffer, NotYetTaken
      <3>14. TakenOnce'
        BY <1>3, <3>1 DEF TakenOnce
      <3>15. NoneLost'
        <4>1. SUFFICES ASSUME NEW v \in 1..made PROVE Somewhere(v)'
          BY <1>3 DEF NoneLost
        <4>2. CASE v \in popped \/ v \in global_queue \/ \E u \in Pushing : reg[u].value = v
          BY <1>3, <3>11, <4>2 DEF Somewhere
        <4>3. CASE \E u \in Owner, i \in Nat : HoldsAt(u, i) /\ InBuf(u, i) = v
          <5>1. PICK u \in Owner, i \in Nat : HoldsAt(u, i) /\ InBuf(u, i) = v
            BY <4>3
          <5>2. \E w \in Owner : \E j \in Nat : HoldsAt(w, j)' /\ InBuf(w, j) = v
            <6>1. CASE u = y /\ h <= i /\ i < h + n
              BY <3>8, <5>1, <6>1
            <6>2. CASE ~(u = y /\ h <= i /\ i < h + n)
              <7>1. HoldsAt(u, i)'
                BY <3>2, <3>3, <3>4, <5>1, <6>2
              <7> QED BY <5>1, <7>1
            <6> QED BY <6>1, <6>2
          <5> QED BY <3>5, <5>2 DEF Somewhere
        <4> QED BY <3>1, <4>2, <4>3 DEF NoneLost, Somewhere
      <3> QED BY <3>9, <3>12, <3>13, <3>14, <3>15 DEF ValuesInv
    <2> QED BY <2>3, <2>4, <2>5, <2>6, <2>7, StepAssembled
  <1> QED BY <1>5, <1>6

-----------------------------------------------------------------------------
LEMMA InitSteal == StealInit => StealInv
<1> SUFFICES ASSUME StealInit PROVE StealInv
  OBVIOUS
<1> USE StealingAssumption DEF StealInit, NoLocals
<1>1. StealType
  BY DEF StealType, StealState, Locals
<1>2. \A o \in Owner : Window(o) /\ Thieving(o)
  BY DEF Window, Thieving
<1>3. \A o \in Owner, i \in Nat : ~HoldsAt(o, i)
  BY DEF HoldsAt
<1>4. Pushing = {}
  BY DEF Pushing
<1>5. PlacesDiffer /\ PlacesFresh
  BY <1>3 DEF PlacesDiffer, PlacesFresh
<1>6. PushesDiffer
  BY <1>4 DEF PushesDiffer
<1>7. TakenOnce
  BY DEF TakenOnce
<1>8. NoneLost
  BY DEF NoneLost
<1> QED BY <1>1, <1>2, <1>5, <1>6, <1>7, <1>8 DEF StealInv, ValuesInv

LEMMA StutterSteal == StealInv /\ UNCHANGED stealVars => StealInv'
<1> SUFFICES ASSUME StealInv, UNCHANGED stealVars PROVE StealInv'
  OBVIOUS
<1> USE DEF stealVars, queues
<1>1. StealType'
  BY DEF StealInv, StealType
<1>2. ASSUME NEW o \in Owner PROVE Window(o)' /\ Thieving(o)'
  <2>1. Window(o) /\ Thieving(o)
    BY DEF StealInv
  <2>2. Window(o)'
    BY <2>1 DEF Window
  <2>3. Thieving(o)'
    BY <2>1 DEF Thieving
  <2> QED BY <2>2, <2>3
<1>3. ValuesInv'
  <2> USE DEF StealInv, ValuesInv
  <2>1. PlacesDiffer'
    BY DEF PlacesDiffer, HoldsAt, InBuf
  <2>2. PushesDiffer'
    BY DEF PushesDiffer, Pushing, HoldsAt, InBuf, NotYetTaken
  <2>3. PlacesFresh'
    BY DEF PlacesFresh, HoldsAt, InBuf, NotYetTaken
  <2>4. TakenOnce'
    BY DEF TakenOnce
  <2>5. NoneLost'
    BY DEF NoneLost, Somewhere, Pushing, HoldsAt, InBuf
  <2> QED BY <2>1, <2>2, <2>3, <2>4, <2>5
<1> QED BY <1>1, <1>2, <1>3 DEF StealInv

LEMMA NextSteal == StealInv /\ [StealNext]_stealVars => StealInv'
<1> SUFFICES ASSUME StealInv, [StealNext]_stealVars PROVE StealInv'
  OBVIOUS
<1>1. CASE UNCHANGED stealVars
  BY <1>1, StutterSteal
<1>2. ASSUME NEW o \in Owner, LocalPush(o) \/ PushLoad(o) \/ PushMakeRoom(o) \/ PushOverflow(o)
      PROVE StealInv'
  BY <1>2, StealingAssumption,
     LocalPushSafe, PushLoadSafe, PushMakeRoomSafe, PushOverflowSafe
<1>3. ASSUME NEW o \in Owner, LocalPop(o) \/ PopTake(o) PROVE StealInv'
  BY <1>3, StealingAssumption, LocalPopSafe, PopTakeSafe
<1>4. ASSUME NEW o \in Owner, Steal(o) \/ StealHead(o) \/ StealTail(o) \/ StealAgain(o)
      PROVE StealInv'
  BY <1>4, StealingAssumption, StealSafe, StealHeadSafe, StealTailSafe, StealAgainSafe
<1>5. ASSUME NEW o \in Owner, StealCopy(o) \/ StealTake(o) \/ StealPublish(o) PROVE StealInv'
  BY <1>5, StealingAssumption, StealCopySafe, StealTakeSafe, StealPublishSafe
<1> QED BY <1>1, <1>2, <1>3, <1>4, <1>5 DEF StealNext

LEMMA StealInvariant == StealSpec => []StealInv
BY InitSteal, NextSteal, PTL DEF StealSpec
-----------------------------------------------------------------------------
(* As many places as values, if no value is in two.                           *)
LEMMA AsManyPlaces ==
  ASSUME NEW S, NEW T, IsFiniteSet(T), NEW f \in [S -> T],
         \A a, b \in S : f[a] = f[b] => a = b, \A t \in T : \E s \in S : f[s] = t
  PROVE  IsFiniteSet(S) /\ Cardinality(S) = Cardinality(T)
<1>1. f \in Injection(S, T)
  BY Fun_IsInj
<1>2. f \in Surjection(S, T)
  BY Fun_IsSurj
<1> QED BY <1>1, <1>2, FS_Injection

LEMMA ApartCounted ==
  ASSUME NEW S, NEW T, IsFiniteSet(S), IsFiniteSet(T), S \intersect T = {}
  PROVE  IsFiniteSet(S \union T) /\ Cardinality(S \union T) = Cardinality(S) + Cardinality(T)
<1>1. /\ IsFiniteSet(S \union T)
      /\ Cardinality(S \union T) = Cardinality(S) + Cardinality(T) - Cardinality(S \intersect T)
  BY FS_Union
<1>2. Cardinality(S \intersect T) = 0
  BY FS_EmptySet
<1>3. Cardinality(S) \in Nat /\ Cardinality(T) \in Nat
  BY FS_CardinalityType
<1> QED BY <1>1, <1>2, <1>3

LEMMA HeldPlaces ==
  ASSUME StealInv, NEW o \in Owner
  PROVE  \A p : p \in Held(o) <=> \E i \in Nat : HoldsAt(o, i) /\ p = <<o, i>>
<1>1. StealType /\ Window(o)
  BY DEF StealInv
<1>2. head_[o] \in Nat /\ tail_[o] \in Nat /\ reg[o] \in Locals /\ Overflow \in Nat
  BY <1>1, StealingAssumption DEF StealType, Overflow
<1>3. reg[o].head \in Nat /\ reg[o].n \in Int
  BY <1>2 DEF Locals
<1> DEFINE Queued == head_[o]..(tail_[o] - 1)
           Overflowing == reg[o].head..(reg[o].head + Overflow - 1)
           Stolen == tail_[o]..(tail_[o] + reg[o].n - 1)
<1>4. \A i \in Nat : HoldsAt(o, i) <=> \/ i \in Queued
                                       \/ running[o] = "overflow" /\ i \in Overflowing
                                       \/ running[o] = "publish" /\ i \in Stolen
  BY <1>2, <1>3 DEF HoldsAt
<1>5. Queued \subseteq Nat /\ Overflowing \subseteq Nat /\ Stolen \subseteq Nat
  BY <1>2, <1>3
<1>6. Held(o) = {<<o, i>> : i \in Queued}
                  \union (IF running[o] = "overflow" THEN {<<o, i>> : i \in Overflowing} ELSE {})
                  \union (IF running[o] = "publish" THEN {<<o, i>> : i \in Stolen} ELSE {})
  BY DEF Held
<1> HIDE DEF Queued, Overflowing, Stolen
<1>7. ASSUME NEW p
      PROVE  p \in Held(o) <=> \/ \E i \in Queued : p = <<o, i>>
                               \/ running[o] = "overflow" /\ \E i \in Overflowing : p = <<o, i>>
                               \/ running[o] = "publish" /\ \E i \in Stolen : p = <<o, i>>
  BY <1>6
<1> QED BY <1>4, <1>5, <1>7

LEMMA EachOnce == StealInv => EachValueOnce
<1> SUFFICES ASSUME StealInv PROVE EachValueOnce
  OBVIOUS
<1> DEFINE places == UNION {Held(o) : o \in Owner}
           V      == {ValueAt(p) : p \in places}
           P      == {reg[o].value : o \in Pushing}
<1>1. /\ PlacesDiffer /\ PushesDiffer /\ PlacesFresh /\ TakenOnce /\ NoneLost
      /\ made \in Nat
  BY DEF StealInv, ValuesInv, StealType
<1>2. ASSUME NEW o \in Owner, NEW i \in Nat PROVE ValueAt(<<o, i>>) = InBuf(o, i)
  BY DEF ValueAt, InBuf
<1>3. ASSUME NEW p
      PROVE  p \in places <=> \E o \in Owner, i \in Nat : HoldsAt(o, i) /\ p = <<o, i>>
  <2>1. p \in places <=> \E o \in Owner : p \in Held(o)
    OBVIOUS
  <2>2. \A o \in Owner : p \in Held(o) <=> \E i \in Nat : HoldsAt(o, i) /\ p = <<o, i>>
    BY HeldPlaces
  <2> HIDE DEF places
  <2> QED BY <2>1, <2>2
<1> HIDE DEF places
<1>4. ASSUME NEW v PROVE v \in V <=> \E o \in Owner, i \in Nat : HoldsAt(o, i) /\ v = InBuf(o, i)
  <2>1. v \in V <=> \E p \in places : v = ValueAt(p)
    OBVIOUS
  <2>2. ASSUME v \in V PROVE \E o \in Owner, i \in Nat : HoldsAt(o, i) /\ v = InBuf(o, i)
    <3>1. PICK p \in places : v = ValueAt(p)
      BY <2>1, <2>2
    <3>2. PICK o \in Owner, i \in Nat : HoldsAt(o, i) /\ p = <<o, i>>
      BY <1>3
    <3> QED BY <1>2, <3>1, <3>2
  <2>3. ASSUME NEW o \in Owner, NEW i \in Nat, HoldsAt(o, i), v = InBuf(o, i) PROVE v \in V
    <3>1. <<o, i>> \in places
      BY <1>3, <2>3
    <3> QED BY <1>2, <2>1, <2>3, <3>1
  <2> QED BY <2>2, <2>3
<1>5. \A v : v \in P <=> \E o \in Pushing : v = reg[o].value
  OBVIOUS
<1>6. Pushing \subseteq Owner
  BY DEF Pushing
<1> HIDE DEF V, P
<1>7. V \subseteq 1..made /\ V \intersect popped = {} /\ V \intersect global_queue = {}
  BY <1>1, <1>4 DEF PlacesFresh, NotYetTaken
<1>8. P \subseteq 1..made /\ P \intersect popped = {} /\ P \intersect global_queue = {}
  BY <1>1, <1>5 DEF PushesDiffer, NotYetTaken
<1>9. V \intersect P = {}
  BY <1>1, <1>4, <1>5 DEF PushesDiffer
<1>10. 1..made \subseteq V \union P \union popped \union global_queue
  <2> SUFFICES ASSUME NEW v \in 1..made
               PROVE  v \in V \/ v \in P \/ v \in popped \/ v \in global_queue
    OBVIOUS
  <2> QED BY <1>1, <1>4, <1>5 DEF NoneLost, Somewhere
<1>11. V \union P \union popped \union global_queue = 1..made
  BY <1>1, <1>7, <1>8, <1>10 DEF TakenOnce
<1>12. /\ IsFiniteSet(1..made) /\ Cardinality(1..made) = made
  BY <1>1, FS_Interval
<1>13. IsFiniteSet(V) /\ IsFiniteSet(P) /\ IsFiniteSet(popped) /\ IsFiniteSet(global_queue)
  BY <1>1, <1>7, <1>8, <1>12, FS_Subset DEF TakenOnce
<1>14. Cardinality(places) = Cardinality(V)
  <2> DEFINE f == [p \in places |-> ValueAt(p)]
  <2>1. f \in [places -> V]
    BY DEF V
  <2>2. \A p, q \in places : f[p] = f[q] => p = q
    BY <1>1, <1>2, <1>3 DEF PlacesDiffer
  <2>3. \A v \in V : \E p \in places : f[p] = v
    BY DEF V
  <2> HIDE DEF f
  <2> QED BY <1>13, <2>1, <2>2, <2>3, AsManyPlaces
<1>15. Cardinality(Pushing) = Cardinality(P)
  <2> DEFINE f == [o \in Pushing |-> reg[o].value]
  <2>1. f \in [Pushing -> P]
    BY DEF P
  <2>2. \A o, p \in Pushing : f[o] = f[p] => o = p
    BY <1>1 DEF PushesDiffer
  <2>3. \A v \in P : \E o \in Pushing : f[o] = v
    BY DEF P
  <2> HIDE DEF f
  <2> QED BY <1>13, <2>1, <2>2, <2>3, AsManyPlaces
<1>16. Cardinality(V) + Cardinality(P) + Cardinality(popped) + Cardinality(global_queue) = made
  <2>1. IsFiniteSet(V \union P) /\ Cardinality(V \union P) = Cardinality(V) + Cardinality(P)
    BY <1>9, <1>13, ApartCounted
  <2>2. (V \union P) \intersect popped = {}
    BY <1>7, <1>8
  <2>3. /\ IsFiniteSet((V \union P) \union popped)
        /\ Cardinality((V \union P) \union popped) = Cardinality(V \union P) + Cardinality(popped)
    BY <1>13, <2>1, <2>2, ApartCounted
  <2>4. ((V \union P) \union popped) \intersect global_queue = {}
    BY <1>1, <1>7, <1>8 DEF TakenOnce
  <2>5. Cardinality(((V \union P) \union popped) \union global_queue)
          = Cardinality((V \union P) \union popped) + Cardinality(global_queue)
    BY <1>13, <2>3, <2>4, ApartCounted
  <2> QED BY <1>11, <1>12, <2>1, <2>3, <2>5
<1>17. (V \union P) \union popped \union global_queue = 1..made
  BY <1>11
<1> QED BY <1>14, <1>15, <1>16, <1>17 DEF EachValueOnce, V, P, places

(* Whatever owners push and pop and thieves steal at once, each pushed value  *)
(* is in exactly one place: a cell of a queue, a push or a steal under way,    *)
(* the global queue, or taken; so local_pop and steal return no value twice   *)
(* and lose none, though a thief copies cells that their owner may reuse.      *)
THEOREM ValuesOnce == StealSpec => []EachValueOnce
BY StealInvariant, EachOnce, PTL

-----------------------------------------------------------------------------
(* ChainBuffer, for any buffers, nodes and bytes                             *)
-----------------------------------------------------------------------------

BufferNode == [bytes : Seq(Nat), sync_flag_ : BOOLEAN, next_ : Nat, ref_cnt_ : Nat,
               has_writer_ : BOOLEAN, deleted : BOOLEAN]

(* Nothing but pointers was taken or dropped. *)
SameNodes(ns, ns2) ==
  /\ Len(ns2) = Len(ns)
  /\ \A m \in 1..Len(ns) :
       /\ ns2[m].bytes = ns[m].bytes /\ ns2[m].sync_flag_ = ns[m].sync_flag_
       /\ ns2[m].next_ = ns[m].next_ /\ ns2[m].has_writer_ = ns[m].has_writer_

InARow(ns) == \A m \in 1..Len(ns) : ns[m].next_ = IF m = Len(ns) THEN NullNode ELSE m + 1

(* The pointer of next_ to node m. *)
NextTo(ns, m) == IF m > 1 /\ ~ns[m - 1].deleted THEN 1 ELSE 0

(* holds[m] counts the other pointers to it. *)
RefsRight(ns, holds) ==
  \A m \in 1..Len(ns) : /\ ns[m].ref_cnt_ = holds[m] + NextTo(ns, m)
                        /\ ns[m].deleted <=> ns[m].ref_cnt_ = 0

OneMoreHeld(h, h2, n) == h2[n] = h[n] + 1 /\ \A m \in DOMAIN h : m # n => h2[m] = h[m]

LEMMA SharedNode ==
  ASSUME NEW ns \in Seq(BufferNode), InARow(ns), NEW n \in 1..Len(ns), ~ns[n].deleted,
         NEW h \in [1..Len(ns) -> Nat], RefsRight(ns, h),
         NEW h2 \in [1..Len(ns) -> Nat], OneMoreHeld(h, h2, n)
  PROVE  /\ Shared(ns, n) \in Seq(BufferNode) /\ SameNodes(ns, Shared(ns, n))
         /\ InARow(Shared(ns, n)) /\ RefsRight(Shared(ns, n), h2)
         /\ \A m \in 1..Len(ns) : Shared(ns, n)[m].deleted = ns[m].deleted
PROOF
  <1>1. PICK ns2 : ns2 = Shared(ns, n)
    OBVIOUS
  <1>2. PICK L \in Nat : L = Len(ns)
    OBVIOUS
  <1>3. n \in 1..L /\ n # 0 /\ DOMAIN ns = 1..L /\ \A m \in 1..L : ns[m] \in BufferNode
    BY <1>2
  <1>4. ns2 = [ns EXCEPT ![n].ref_cnt_ = @ + 1]
    BY <1>1, <1>3 DEF Shared, NullNode
  <1>5. ns2 \in Seq(BufferNode) /\ Len(ns2) = L
    <2>1. [ns[n] EXCEPT !.ref_cnt_ = @ + 1] \in BufferNode
      <3>1. ns[n] \in BufferNode
        BY <1>3
      <3>2. ASSUME NEW x \in BufferNode PROVE [x EXCEPT !.ref_cnt_ = @ + 1] \in BufferNode
        <4>1. x.ref_cnt_ + 1 \in Nat
          BY DEF BufferNode
        <4> QED BY <4>1 DEF BufferNode
      <3> QED BY <3>1, <3>2
    <2> QED BY <1>2, <1>3, <1>4, <2>1
  <1>6. \A m \in 1..L : /\ ns2[m].bytes = ns[m].bytes /\ ns2[m].sync_flag_ = ns[m].sync_flag_
                        /\ ns2[m].next_ = ns[m].next_ /\ ns2[m].has_writer_ = ns[m].has_writer_
                        /\ ns2[m].deleted = ns[m].deleted
                        /\ ns2[m].ref_cnt_ = IF m = n THEN ns[m].ref_cnt_ + 1 ELSE ns[m].ref_cnt_
    BY <1>3, <1>4 DEF BufferNode
  <1>7. SameNodes(ns, ns2)
    BY <1>2, <1>5, <1>6 DEF SameNodes
  <1>8. InARow(ns2)
    BY <1>2, <1>5, <1>6 DEF InARow
  <1>9. \A m \in 1..L : NextTo(ns2, m) = NextTo(ns, m) /\ NextTo(ns, m) \in {0, 1}
    BY <1>2, <1>6 DEF NextTo
  <1>10. ASSUME NEW m \in 1..L
         PROVE  /\ ns2[m].ref_cnt_ = h2[m] + NextTo(ns2, m)
                /\ ns2[m].deleted <=> ns2[m].ref_cnt_ = 0
    <2>1. /\ ns[m].ref_cnt_ = h[m] + NextTo(ns, m) /\ (ns[m].deleted <=> ns[m].ref_cnt_ = 0)
          /\ h[m] \in Nat /\ ns[m].ref_cnt_ \in Nat
      BY <1>2, <1>3 DEF RefsRight, BufferNode
    <2>2. h2[m] = IF m = n THEN h[m] + 1 ELSE h[m]
      BY <1>2 DEF OneMoreHeld
    <2> QED BY <1>6, <1>9, <2>1, <2>2
  <1>11. RefsRight(ns2, h2)
    BY <1>2, <1>5, <1>10 DEF RefsRight
  <1> QED BY <1>1, <1>2, <1>5, <1>6, <1>7, <1>8, <1>11

LEMMA LosingIs ==
  ASSUME NEW ns \in Seq(BufferNode), InARow(ns), NEW n \in 1..Len(ns),
         NEW D, D = Losing(ns, n)
  PROVE  /\ n \in D /\ D \subseteq n..Len(ns)
         /\ \A x \in D : ns[x].ref_cnt_ = 1 /\ x # Len(ns) => x + 1 \in D
         /\ \A m \in D : m # n => m - 1 \in D /\ ns[m - 1].ref_cnt_ = 1
PROOF
  <1> DEFINE Closed(S) == n \in S /\ \A x \in S : ns[x].ref_cnt_ = 1 /\ ns[x].next_ # NullNode => ns[x].next_ \in S
  <1>1. PICK L \in Nat : L = Len(ns)
    OBVIOUS
  <1>2. DOMAIN ns = 1..L /\ n \in 1..L
    BY <1>1
  <1>3. D = {m \in 1..L : \A S \in SUBSET (1..L) : Closed(S) => m \in S}
    BY <1>2 DEF Losing
  <1>4. \A x \in 1..L : ns[x].next_ = IF x = L THEN 0 ELSE x + 1
    BY <1>1 DEF InARow, NullNode
  <1>5. D \subseteq n..L
    <2>1. n..L \in SUBSET (1..L)
      BY <1>2
    <2>2. Closed(n..L)
      BY <1>2, <1>4 DEF NullNode
    <2> HIDE DEF Closed
    <2> QED BY <1>3, <2>1, <2>2
  <1>6. n \in D
    BY <1>2, <1>3
  <1>7. ASSUME NEW x \in D, ns[x].ref_cnt_ = 1, x # L PROVE x + 1 \in D
    <2>1. x \in 1..L /\ x + 1 \in 1..L /\ ns[x].next_ = x + 1 /\ x + 1 # NullNode
      BY <1>2, <1>3, <1>4, <1>7 DEF NullNode
    <2>2. ASSUME NEW S \in SUBSET (1..L), Closed(S) PROVE x + 1 \in S
      <3>1. x \in S
        <4> HIDE DEF Closed
        <4> QED BY <1>3, <2>2
      <3> QED BY <1>7, <2>1, <2>2, <3>1
    <2> HIDE DEF Closed
    <2> QED BY <1>3, <2>1, <2>2
  <1>8. ASSUME NEW m \in D, m # n, ~(m - 1 \in D /\ ns[m - 1].ref_cnt_ = 1) PROVE FALSE
    <2>1. PICK S : S = D \ {m}
      OBVIOUS
    <2>2. S \in SUBSET (1..L) /\ n \in S /\ m \notin S
      BY <1>3, <1>6, <1>8, <2>1
    <2>3. ASSUME NEW x \in S, ns[x].ref_cnt_ = 1, ns[x].next_ # NullNode PROVE ns[x].next_ \in S
      <3>1. x \in D /\ x \in 1..L /\ x # L /\ ns[x].next_ = x + 1
        BY <1>3, <1>4, <2>1, <2>2, <2>3 DEF NullNode
      <3>2. x + 1 \in D
        BY <1>7, <2>3, <3>1
      <3>3. x + 1 # m
        <4>1. x + 1 = m => m - 1 = x
          BY <3>1
        <4> QED BY <1>8, <2>3, <3>1, <4>1
      <3> QED BY <2>1, <3>1, <3>2, <3>3
    <2>4. Closed(S)
      BY <2>2, <2>3
    <2> HIDE DEF Closed
    <2> QED BY <1>3, <2>2, <2>4
  <1> QED BY <1>1, <1>5, <1>6, <1>7, <1>8

LEMMA UnsharedNode ==
  ASSUME NEW ns \in Seq(BufferNode), InARow(ns), NEW n \in 1..Len(ns),
         NEW h \in [1..Len(ns) -> Nat], RefsRight(ns, h),
         NEW h2 \in [1..Len(ns) -> Nat], OneMoreHeld(h2, h, n)
  PROVE  /\ Unshared(ns, n) \in Seq(BufferNode) /\ SameNodes(ns, Unshared(ns, n))
         /\ InARow(Unshared(ns, n)) /\ RefsRight(Unshared(ns, n), h2)
PROOF
  <1>1. PICK ns2 : ns2 = Unshared(ns, n)
    OBVIOUS
  <1>2. PICK L \in Nat : L = Len(ns)
    OBVIOUS
  <1>3. n \in 1..L /\ n # 0 /\ DOMAIN ns = 1..L /\ \A m \in 1..L : ns[m] \in BufferNode
    BY <1>2
  <1>4. PICK D : D = Losing(ns, n)
    OBVIOUS
  <1>5. /\ n \in D /\ D \subseteq n..L
        /\ \A x \in D : ns[x].ref_cnt_ = 1 /\ x # L => x + 1 \in D
        /\ \A m \in D : m # n => m - 1 \in D /\ ns[m - 1].ref_cnt_ = 1
    BY <1>2, <1>4, LosingIs
  <1>6. ns2 = [m \in 1..L |-> IF m \in D THEN [ns[m] EXCEPT !.ref_cnt_ = @ - 1, !.deleted = ns[m].ref_cnt_ = 1]
                             ELSE ns[m]]
    BY <1>1, <1>3, <1>4 DEF Unshared, NullNode
  <1>7. \A m \in 1..L : /\ ns[m].ref_cnt_ = h[m] + NextTo(ns, m)
                        /\ (ns[m].deleted <=> ns[m].ref_cnt_ = 0)
                        /\ h[m] \in Nat /\ h2[m] \in Nat /\ ns[m].ref_cnt_ \in Nat
                        /\ ns[m].deleted \in BOOLEAN
    BY <1>2, <1>3 DEF RefsRight, BufferNode
  <1>8. h[n] = h2[n] + 1 /\ \A m \in 1..L : m # n => h[m] = h2[m]
    BY <1>2 DEF OneMoreHeld
  <1>9. \A m \in 1..L : NextTo(ns, m) \in {0, 1}
    BY DEF NextTo
  <1>10. ASSUME NEW m \in 1..L
         PROVE  /\ ns[m].ref_cnt_ = h[m] + NextTo(ns, m) /\ (ns[m].deleted <=> ns[m].ref_cnt_ = 0)
                /\ h[m] = (IF m = n THEN h2[m] + 1 ELSE h2[m]) /\ h2[m] \in Nat
                /\ NextTo(ns, m) \in {0, 1} /\ ns[m].ref_cnt_ \in Nat
    BY <1>7, <1>8, <1>9
  <1>11. \A m \in D : m \in 1..L /\ ns[m].ref_cnt_ >= 1
    <2> SUFFICES ASSUME NEW m \in D PROVE m \in 1..L /\ ns[m].ref_cnt_ >= 1
      OBVIOUS
    <2>1. m \in 1..L
      BY <1>3, <1>5
    <2>2. CASE m = n
      <3>1. ns[m].ref_cnt_ = h2[m] + 1 + NextTo(ns, m) /\ h2[m] \in Nat /\ NextTo(ns, m) \in {0, 1}
        BY <1>10, <2>1, <2>2
      <3> QED BY <2>1, <3>1
    <2>3. CASE m # n
      <3>1. m - 1 \in 1..L /\ m > 1
        BY <1>3, <1>5, <2>1, <2>3
      <3>2. ~ns[m - 1].deleted
        <4>1. ns[m - 1].ref_cnt_ = 1
          BY <1>5, <2>3
        <4> QED BY <1>10, <3>1, <4>1
      <3>3. NextTo(ns, m) = 1
        BY <3>1, <3>2 DEF NextTo
      <3> QED BY <1>7, <2>1, <3>3
    <2> QED BY <2>2, <2>3
  <1>12. \A m \in 1..L : /\ ns2[m].bytes = ns[m].bytes /\ ns2[m].sync_flag_ = ns[m].sync_flag_
                         /\ ns2[m].next_ = ns[m].next_ /\ ns2[m].has_writer_ = ns[m].has_writer_
                         /\ ns2[m].ref_cnt_ = IF m \in D THEN ns[m].ref_cnt_ - 1 ELSE ns[m].ref_cnt_
                         /\ m \in D => (ns2[m].deleted <=> ns[m].ref_cnt_ = 1)
                         /\ m \notin D => ns2[m].deleted = ns[m].deleted
                         /\ ns2[m] \in BufferNode
    <2> SUFFICES ASSUME NEW m \in 1..L
                 PROVE  /\ ns2[m].bytes = ns[m].bytes /\ ns2[m].sync_flag_ = ns[m].sync_flag_
                        /\ ns2[m].next_ = ns[m].next_ /\ ns2[m].has_writer_ = ns[m].has_writer_
                        /\ ns2[m].ref_cnt_ = IF m \in D THEN ns[m].ref_cnt_ - 1 ELSE ns[m].ref_cnt_
                        /\ m \in D => (ns2[m].deleted <=> ns[m].ref_cnt_ = 1)
                        /\ m \notin D => ns2[m].deleted = ns[m].deleted
                        /\ ns2[m] \in BufferNode
      OBVIOUS
    <2>1. ns[m] \in BufferNode
      BY <1>3
    <2>2. CASE m \in D
      <3>1. ns2[m] = [ns[m] EXCEPT !.ref_cnt_ = @ - 1, !.deleted = ns[m].ref_cnt_ = 1]
        BY <1>6, <2>2
      <3>2. ns[m].ref_cnt_ - 1 \in Nat
        BY <1>7, <1>11, <2>2
      <3> QED BY <2>1, <2>2, <3>1, <3>2 DEF BufferNode
    <2>3. CASE m \notin D
      BY <1>6, <2>1, <2>3
    <2> QED BY <2>2, <2>3
  <1>13. ns2 \in Seq(BufferNode) /\ Len(ns2) = L
    <2>1. ns2 \in [1..L -> BufferNode]
      BY <1>6, <1>12
    <2> QED BY <2>1
  <1>14. SameNodes(ns, ns2)
    BY <1>2, <1>12, <1>13 DEF SameNodes
  <1>15. InARow(ns2)
    BY <1>2, <1>12, <1>13 DEF InARow
  <1>16. ASSUME NEW m \in 1..L
         PROVE  /\ ns2[m].ref_cnt_ = h2[m] + NextTo(ns2, m)
                /\ ns2[m].deleted <=> ns2[m].ref_cnt_ = 0
    <2>1. ns2[m].deleted <=> ns2[m].ref_cnt_ = 0
      <3>1. CASE m \in D
        <4>1. ns2[m].deleted <=> ns[m].ref_cnt_ = 1
          BY <1>12, <3>1
        <4>2. ns2[m].ref_cnt_ = ns[m].ref_cnt_ - 1
          BY <1>12, <3>1
        <4>3. ns[m].ref_cnt_ \in Nat
          BY <1>7
        <4>4. ns2[m].ref_cnt_ = 0 <=> ns[m].ref_cnt_ = 1
          BY <4>2, <4>3
        <4> QED BY <4>1, <4>4
      <3>2. CASE m \notin D
        <4>1. ns2[m].deleted = ns[m].deleted
          BY <1>12, <3>2
        <4>2. ns2[m].ref_cnt_ = ns[m].ref_cnt_
          BY <1>12, <3>2
        <4>3. ns[m].deleted <=> ns[m].ref_cnt_ = 0
          BY <1>7
        <4> QED BY <4>1, <4>2, <4>3
      <3> QED BY <3>1, <3>2
    <2>2. ns2[m].ref_cnt_ = h2[m] + NextTo(ns2, m)
      <3>1. CASE m = 1
        <4>1. NextTo(ns, m) = 0 /\ NextTo(ns2, m) = 0
          BY <3>1 DEF NextTo
        <4>2. m \in D <=> m = n
          BY <1>3, <1>5, <3>1
        <4> QED BY <1>7, <1>8, <1>12, <4>1, <4>2
      <3>2. CASE m > 1
        <4>1. m - 1 \in 1..L
          BY <3>2
        <4>2. /\ NextTo(ns, m) = IF ns[m - 1].deleted THEN 0 ELSE 1
              /\ NextTo(ns2, m) = IF ns2[m - 1].deleted THEN 0 ELSE 1
          BY <3>2 DEF NextTo
        <4>3. CASE m = n
          <5>1. m - 1 \notin D /\ m \in D
            BY <1>3, <1>5, <4>3
          <5>2. NextTo(ns2, m) = NextTo(ns, m)
            BY <1>12, <4>1, <4>2, <5>1
          <5>3. ns2[m].ref_cnt_ = ns[m].ref_cnt_ - 1
            BY <1>12, <5>1
          <5>4. /\ ns[m].ref_cnt_ = h[m] + NextTo(ns, m) /\ h[m] = h2[m] + 1 /\ h2[m] \in Nat
                /\ NextTo(ns, m) \in {0, 1}
            BY <1>10, <4>3
          <5> QED BY <5>2, <5>3, <5>4
        <4>4. CASE m # n /\ m \in D
          <5>1. m - 1 \in D /\ ns[m - 1].ref_cnt_ = 1
            BY <1>5, <4>4
          <5>2. ~ns[m - 1].deleted
            BY <1>10, <4>1, <5>1
          <5>3. ns2[m - 1].deleted
            BY <1>12, <4>1, <5>1
          <5>4. NextTo(ns, m) = 1 /\ NextTo(ns2, m) = 0
            BY <4>2, <5>2, <5>3
          <5>5. ns2[m].ref_cnt_ = ns[m].ref_cnt_ - 1
            BY <1>12, <4>4
          <5> QED BY <1>10, <4>4, <5>4, <5>5
        <4>5. CASE m # n /\ m \notin D
          <5>1. m - 1 \in D => ns[m - 1].ref_cnt_ # 1
            <6>1. m - 1 # L /\ m - 1 + 1 = m
              BY <4>1
            <6> QED BY <1>5, <4>5, <6>1
          <5>2. ns2[m - 1].deleted <=> ns[m - 1].deleted
            <6>1. CASE m - 1 \in D
              <7>1. ~ns2[m - 1].deleted
                BY <1>12, <4>1, <5>1, <6>1
              <7>2. ~ns[m - 1].deleted
                <8>1. ns[m - 1].ref_cnt_ >= 1
                  BY <1>11, <6>1
                <8> QED BY <1>10, <4>1, <8>1
              <7> QED BY <7>1, <7>2
            <6>2. CASE m - 1 \notin D
              BY <1>12, <4>1, <6>2
            <6> QED BY <6>1, <6>2
          <5>3. ns2[m].ref_cnt_ = ns[m].ref_cnt_ /\ NextTo(ns2, m) = NextTo(ns, m)
            BY <1>12, <4>2, <4>5, <5>2
          <5> QED BY <1>10, <4>5, <5>3
        <4> QED BY <4>3, <4>4, <4>5
      <3> QED BY <3>1, <3>2
    <2> QED BY <2>1, <2>2
  <1>17. RefsRight(ns2, h2)
    BY <1>2, <1>13, <1>16 DEF RefsRight
  <1> QED BY <1>1, <1>13, <1>14, <1>15, <1>17

BufferIter == [head_ : Nat, buffer : Nat, from : Nat, to : Nat, offset_ : Nat]

Iterator == {"begin_", "end_"}

BufferType ==
  /\ nodes \in Seq(BufferNode) /\ Len(nodes) > 0
  /\ tail_node \in 0..Len(nodes)
  /\ writing \in {"idle", "linked", "unset", "closing"}
  /\ iter \in [Iterator -> BufferIter]
  /\ reading \in [op : {"none", "gone"}] \union [op : {"look"}, it : Iterator]
                   \union [op : {"look", "sync", "decide"}, it : Iterator, has_writer : BOOLEAN]
  /\ written \in Nat /\ taken \in Seq(Nat)

WriterDone == tail_node = NullNode \/ writing = "closing"

(* Where the writer is, and which nodes have one. *)
WriterAt ==
  /\ writing = "idle" => tail_node \in {NullNode, Len(nodes)}
  /\ writing = "closing" => tail_node = Len(nodes)
  /\ writing \in {"linked", "unset"} => Len(nodes) > 1 /\ tail_node = Len(nodes) - 1
  /\ \A m \in 1..Len(nodes) :
       nodes[m].has_writer_ <=> \/ m = Len(nodes) /\ ~WriterDone
                                \/ m = tail_node /\ writing = "linked"

One(a, m) == IF a = m THEN 1 ELSE 0

(* The pointers to node m when the writer has tail t, and new_tail x, and the *)
(* iterators are at b and e.                                                 *)
HeldBy(n, t, x, b, e) == [m \in 1..n |-> One(t, m) + One(x, m) + One(b, m) + One(e, m)]

TailMade == IF writing \in {"linked", "unset"} THEN Len(nodes) ELSE NullNode

HeldNow == HeldBy(Len(nodes), tail_node, TailMade, iter["begin_"].head_, iter["end_"].head_)

(* st[m] bytes of the stream come before those of node m. *)
Streamed(ns, w, st) ==
  /\ st[1] = 0 /\ w = st[Len(ns)] + Len(ns[Len(ns)].bytes)
  /\ \A m \in 1..Len(ns) :
       /\ m # Len(ns) => st[m + 1] = st[m] + Len(ns[m].bytes)
       /\ st[m] + Len(ns[m].bytes) <= w
       /\ \A j \in 1..Len(ns[m].bytes) : ns[m].bytes[j] = st[m] + j

IterAt(ns, st, it) ==
  /\ it.buffer \in 1..Len(ns) /\ it.head_ \in {NullNode, it.buffer}
  /\ it.from <= it.to /\ it.to <= Len(ns[it.buffer].bytes)
  /\ it.offset_ = st[it.buffer] + it.from
  /\ ~ns[it.buffer].sync_flag_ => it.to = Len(ns[it.buffer].bytes)

(* An iterator without a node has seen all, and there is no more to come. *)
IterEnded(i) ==
  iter[i].head_ = NullNode /\ reading.op # "gone" =>
    /\ WriterDone /\ iter[i].buffer = Len(nodes)
    /\ iter[i].from = Len(nodes[Len(nodes)].bytes)

(* What the reader knows of a node that it saw without a writer. *)
Deciding ==
  reading.op \in {"sync", "decide"} =>
    /\ iter[reading.it].head_ # NullNode
    /\ iter[reading.it].from = iter[reading.it].to
    /\ ~reading.has_writer =>
         /\ ~nodes[iter[reading.it].head_].has_writer_
         /\ reading.op = "decide" =>
              iter[reading.it].to = Len(nodes[iter[reading.it].head_].bytes)

TakenRight ==
  /\ taken = [k \in 1..Len(taken) |-> k]
  /\ iter["begin_"].offset_ = Len(taken)
  /\ iter["begin_"].offset_ <= iter["end_"].offset_

StreamRight(st) ==
  /\ st \in [1..Len(nodes) -> Nat] /\ Streamed(nodes, written, st)
  /\ \A i \in Iterator : IterAt(nodes, st, iter[i])

BufferInv ==
  /\ BufferType /\ WriterAt /\ InARow(nodes) /\ RefsRight(nodes, HeldNow)
  /\ \A i \in Iterator : IterEnded(i)
  /\ Deciding /\ TakenRight
  /\ \E st : StreamRight(st)

LEMMA HeldIs ==
  ASSUME NEW n \in Nat, NEW t, NEW x, NEW b, NEW e
  PROVE  /\ HeldBy(n, t, x, b, e) \in [1..n -> Nat]
         /\ \A m \in 1..n : HeldBy(n, t, x, b, e)[m] = One(t, m) + One(x, m) + One(b, m) + One(e, m)
         /\ \A m \in 1..n : One(t, m) \in {0, 1} /\ One(x, m) \in {0, 1} /\ One(b, m) \in {0, 1}
                            /\ One(e, m) \in {0, 1}
BY DEF HeldBy, One

LEMMA NodesKept ==
  ASSUME NEW ns, NEW ns2, Len(ns) \in Nat, Len(ns) > 0, SameNodes(ns, ns2), NEW st
  PROVE  /\ \A w : Streamed(ns, w, st) => Streamed(ns2, w, st)
         /\ \A it : IterAt(ns, st, it) => IterAt(ns2, st, it)
PROOF
  <1>1. ASSUME NEW w, Streamed(ns, w, st) PROVE Streamed(ns2, w, st)
    <2>1. Len(ns) \in 1..Len(ns)
      OBVIOUS
    <2>2. ns2[Len(ns)].bytes = ns[Len(ns)].bytes /\ Len(ns2) = Len(ns)
      BY <2>1 DEF SameNodes
    <2>3. st[1] = 0 /\ w = st[Len(ns2)] + Len(ns2[Len(ns2)].bytes)
      BY <1>1, <2>2 DEF Streamed
    <2>4. ASSUME NEW m \in 1..Len(ns2)
          PROVE  /\ m # Len(ns2) => st[m + 1] = st[m] + Len(ns2[m].bytes)
                 /\ st[m] + Len(ns2[m].bytes) <= w
                 /\ \A j \in 1..Len(ns2[m].bytes) : ns2[m].bytes[j] = st[m] + j
      <3>1. m \in 1..Len(ns) /\ ns2[m].bytes = ns[m].bytes
        BY <2>2 DEF SameNodes
      <3> QED BY <1>1, <2>2, <3>1 DEF Streamed
    <2> QED BY <2>3, <2>4 DEF Streamed
  <1>2. ASSUME NEW it, IterAt(ns, st, it) PROVE IterAt(ns2, st, it)
    BY <1>2 DEF SameNodes, IterAt
  <1> QED BY <1>1, <1>2

LEMMA InitBuffer == BufferInit => BufferInv
PROOF
  <1> SUFFICES ASSUME BufferInit PROVE BufferInv
    OBVIOUS
  <1>1. PICK node : node = [NewNode(<<>>, TRUE) EXCEPT !.ref_cnt_ = 3]
    OBVIOUS
  <1>2. node = [bytes |-> <<>>, sync_flag_ |-> TRUE, next_ |-> 0, ref_cnt_ |-> 3,
                has_writer_ |-> TRUE, deleted |-> FALSE]
    BY <1>1 DEF NewNode, NullNode
  <1>3. /\ nodes = <<node>> /\ tail_node = 1 /\ writing = "idle"
        /\ iter = [i \in {"begin_", "end_"} |-> Loaded(nodes, 1, 0)]
        /\ reading = [op |-> "none"] /\ written = 0 /\ taken = <<>>
    BY <1>1 DEF BufferInit
  <1>4. node \in BufferNode
    BY <1>2 DEF BufferNode
  <1>5. nodes \in Seq(BufferNode) /\ Len(nodes) = 1 /\ nodes[1] = node /\ 1..Len(nodes) = {1}
    BY <1>3, <1>4
  <1>6. Loaded(nodes, 1, 0) = [head_ |-> 1, buffer |-> 1, from |-> 0, to |-> 0, offset_ |-> 0]
    BY <1>2, <1>5 DEF Loaded
  <1>7. \A i \in Iterator : iter[i] = [head_ |-> 1, buffer |-> 1, from |-> 0, to |-> 0, offset_ |-> 0]
    BY <1>3, <1>6 DEF Iterator
  <1>8. iter \in [Iterator -> BufferIter]
    <2>1. [head_ |-> 1, buffer |-> 1, from |-> 0, to |-> 0, offset_ |-> 0] \in BufferIter
      BY DEF BufferIter
    <2> QED BY <1>3, <1>6, <2>1 DEF Iterator
  <1>9. BufferType
    BY <1>3, <1>5, <1>8 DEF BufferType
  <1>10. WriterAt
    BY <1>2, <1>3, <1>5 DEF WriterAt, WriterDone, NullNode
  <1>11. InARow(nodes)
    BY <1>2, <1>5 DEF InARow, NullNode
  <1>12. iter["begin_"].head_ = 1 /\ iter["end_"].head_ = 1 /\ TailMade = 0
    BY <1>3, <1>7 DEF Iterator, TailMade, NullNode
  <1>13. RefsRight(nodes, HeldNow)
    <2>1. HeldNow[1] = 3
      BY <1>3, <1>5, <1>12 DEF HeldNow, HeldBy, One
    <2>2. NextTo(nodes, 1) = 0
      BY DEF NextTo
    <2> QED BY <1>2, <1>5, <2>1, <2>2 DEF RefsRight
  <1>14. \A i \in Iterator : IterEnded(i)
    BY <1>7 DEF IterEnded, NullNode
  <1>15. Deciding
    BY <1>3 DEF Deciding
  <1>16. TakenRight
    <2>1. Len(taken) = 0 /\ taken = [k \in 1..0 |-> k]
      BY <1>3
    <2> QED BY <1>7, <2>1 DEF TakenRight, Iterator
  <1>17. StreamRight([m \in 1..1 |-> 0])
    <2>1. Len(nodes[1].bytes) = 0 /\ nodes[1].sync_flag_
      BY <1>2, <1>5
    <2>2. Streamed(nodes, written, [m \in 1..1 |-> 0])
      BY <1>3, <1>5, <2>1 DEF Streamed
    <2>3. \A i \in Iterator : IterAt(nodes, [m \in 1..1 |-> 0], iter[i])
      BY <1>5, <1>7, <2>1 DEF IterAt
    <2> QED BY <1>5, <2>2, <2>3 DEF StreamRight
  <1> QED BY <1>9, <1>10, <1>11, <1>13, <1>14, <1>15, <1>16, <1>17 DEF BufferInv

(* What every action starts from. *)
LEMMA BufferFacts ==
  ASSUME BufferInv
  PROVE  /\ nodes \in Seq(BufferNode) /\ Len(nodes) \in Nat /\ Len(nodes) > 0
         /\ DOMAIN nodes = 1..Len(nodes)
         /\ \A m \in 1..Len(nodes) : nodes[m] \in BufferNode
         /\ iter \in [Iterator -> BufferIter]
         /\ \A i \in Iterator : iter[i] \in BufferIter
         /\ HeldNow \in [1..Len(nodes) -> Nat]
BY HeldIs DEF BufferInv, BufferType, HeldNow

(* Steps of the reader that change no node and no head_. *)
LEMMA LookSafe ==
  ASSUME BufferInv, UNCHANGED <<nodes, tail_node, writing, written>>,
         BufferType', Deciding', TakenRight',
         reading'.op = "gone" <=> reading.op = "gone",
         \A i \in Iterator : /\ iter'[i].head_ = iter[i].head_ /\ iter'[i].buffer = iter[i].buffer
                             /\ iter[i].head_ = NullNode => iter'[i].from = iter[i].from,
         NEW st, StreamRight(st), \A i \in Iterator : IterAt(nodes, st, iter'[i])
  PROVE  BufferInv'
PROOF
  <1>1. WriterAt' /\ InARow(nodes)'
    BY DEF BufferInv, WriterAt, WriterDone
  <1>2. "begin_" \in Iterator /\ "end_" \in Iterator
    BY DEF Iterator
  <1>3. HeldNow' = HeldNow
    BY <1>2 DEF HeldNow, TailMade
  <1>4. RefsRight(nodes, HeldNow)'
    BY <1>3 DEF BufferInv
  <1>5. ASSUME NEW i \in Iterator PROVE IterEnded(i)'
    BY DEF BufferInv, IterEnded, WriterDone
  <1>6. StreamRight(st)'
    BY DEF StreamRight
  <1> QED BY <1>1, <1>4, <1>5, <1>6 DEF BufferInv

LEMMA StartReadingSafe ==
  ASSUME BufferInv, NEW i \in Iterator, StartReading(i)
  PROVE  BufferInv'
PROOF
  <1>1. /\ reading.op = "none" /\ reading' = [op |-> "look", it |-> i]
        /\ UNCHANGED <<nodes, tail_node, writing, iter, written, taken>>
    BY DEF StartReading, ReaderIdle
  <1>2. BufferType'
    <2>1. reading' \in [op : {"look"}, it : Iterator]
      BY <1>1
    <2> QED BY <1>1, <2>1 DEF BufferInv, BufferType
  <1>3. Deciding' /\ TakenRight'
    BY <1>1 DEF BufferInv, Deciding, TakenRight
  <1>4. PICK st : StreamRight(st)
    BY DEF BufferInv
  <1>5. \A k \in Iterator : IterAt(nodes, st, iter'[k])
    BY <1>1, <1>4 DEF StreamRight
  <1>6. reading'.op = "look"
    BY <1>1
  <1> QED BY <1>1, <1>2, <1>3, <1>4, <1>5, <1>6, LookSafe

LEMMA NothingToReadSafe ==
  ASSUME BufferInv, NothingToRead
  PROVE  BufferInv'
PROOF
  <1>1. /\ reading.op = "look" /\ reading' = [op |-> "none"]
        /\ UNCHANGED <<nodes, tail_node, writing, iter, written, taken>>
    BY DEF NothingToRead
  <1>2. BufferType'
    <2>1. reading' \in [op : {"none", "gone"}]
      BY <1>1
    <2> QED BY <1>1, <2>1 DEF BufferInv, BufferType
  <1>3. Deciding' /\ TakenRight'
    BY <1>1 DEF BufferInv, Deciding, TakenRight
  <1>4. PICK st : StreamRight(st)
    BY DEF BufferInv
  <1>5. \A k \in Iterator : IterAt(nodes, st, iter'[k])
    BY <1>1, <1>4 DEF StreamRight
  <1>6. reading'.op = "none"
    BY <1>1
  <1> QED BY <1>1, <1>2, <1>3, <1>4, <1>5, <1>6, LookSafe

LEMMA LoadHasWriterSafe ==
  ASSUME BufferInv, LoadHasWriter
  PROVE  BufferInv'
PROOF
  <1>1. PICK i : i = reading.it
    OBVIOUS
  <1>2. /\ reading.op = "look" /\ iter[i].to - iter[i].from = 0 /\ iter[i].head_ # NullNode
        /\ reading' = [op |-> "sync", it |-> i, has_writer |-> nodes[iter[i].head_].has_writer_]
        /\ UNCHANGED <<nodes, tail_node, writing, iter, written, taken>>
    BY <1>1 DEF LoadHasWriter, ReadyBytes
  <1>3. i \in Iterator
    BY <1>1, <1>2 DEF BufferInv, BufferType
  <1>4. PICK st : StreamRight(st)
    BY DEF BufferInv
  <1>5. iter[i].head_ \in 1..Len(nodes) /\ iter[i] \in BufferIter
    BY <1>2, <1>3, <1>4, BufferFacts DEF StreamRight, IterAt
  <1>6. nodes[iter[i].head_].has_writer_ \in BOOLEAN
    BY <1>5, BufferFacts DEF BufferNode
  <1>7. BufferType'
    <2>1. reading' \in [op : {"look", "sync", "decide"}, it : Iterator, has_writer : BOOLEAN]
      BY <1>2, <1>3, <1>6
    <2> QED BY <1>2, <2>1 DEF BufferInv, BufferType
  <1>8. /\ reading'.op = "sync" /\ reading'.it = i
        /\ reading'.has_writer = nodes[iter[i].head_].has_writer_
    BY <1>2
  <1>9. iter[i].from = iter[i].to
    BY <1>2, <1>5 DEF BufferIter
  <1>10. Deciding' /\ TakenRight'
    BY <1>2, <1>8, <1>9 DEF BufferInv, Deciding, TakenRight
  <1>11. \A k \in Iterator : IterAt(nodes, st, iter'[k])
    BY <1>2, <1>4 DEF StreamRight
  <1> QED BY <1>2, <1>4, <1>7, <1>8, <1>10, <1>11, LookSafe

LEMMA SyncWithWriterSafe ==
  ASSUME BufferInv, SyncWithWriter
  PROVE  BufferInv'
PROOF
  <1>1. PICK i : i = reading.it
    OBVIOUS
  <1>2. PICK it : it = iter[i]
    OBVIOUS
  <1>3. PICK end : end = IF nodes[it.head_].sync_flag_ THEN Len(nodes[it.head_].bytes) ELSE it.to
    OBVIOUS
  <1>4. /\ reading.op = "sync" /\ iter' = [iter EXCEPT ![i].to = end]
        /\ reading' = [reading EXCEPT !.op = IF end > it.from THEN "look" ELSE "decide"]
        /\ UNCHANGED <<nodes, tail_node, writing, written, taken>>
    BY <1>1, <1>2, <1>3 DEF SyncWithWriter
  <1>5. i \in Iterator /\ reading \in [op : {"look", "sync", "decide"}, it : Iterator, has_writer : BOOLEAN]
    BY <1>1, <1>4 DEF BufferInv, BufferType
  <1>6. PICK st : StreamRight(st)
    BY DEF BufferInv
  <1>7. IterAt(nodes, st, it) /\ it \in BufferIter
    BY <1>2, <1>5, <1>6, BufferFacts DEF StreamRight
  <1>8. /\ it.head_ # NullNode /\ it.from = it.to
        /\ ~reading.has_writer => ~nodes[it.head_].has_writer_
    BY <1>1, <1>2, <1>4 DEF BufferInv, Deciding
  <1>9. it.head_ = it.buffer /\ it.head_ \in 1..Len(nodes)
    BY <1>7, <1>8 DEF IterAt
  <1>10. Len(nodes[it.head_].bytes) \in Nat
    BY <1>9, BufferFacts DEF BufferNode
  <1>11. end = Len(nodes[it.head_].bytes) /\ end \in Nat /\ it.to <= end /\ it.from \in Nat
    BY <1>3, <1>7, <1>9, <1>10 DEF IterAt, BufferIter
  <1>12. /\ iter'[i] = [it EXCEPT !.to = end] /\ \A k \in Iterator : k # i => iter'[k] = iter[k]
         /\ iter' \in [Iterator -> BufferIter]
    <2>1. [it EXCEPT !.to = end] \in BufferIter
      BY <1>7, <1>11 DEF BufferIter
    <2> QED BY <1>2, <1>4, <1>5, <2>1, BufferFacts
  <1>13. /\ iter'[i].head_ = it.head_ /\ iter'[i].buffer = it.buffer /\ iter'[i].from = it.from
         /\ iter'[i].to = end /\ iter'[i].offset_ = it.offset_
    BY <1>7, <1>12 DEF BufferIter
  <1>14. \A k \in Iterator : IterAt(nodes, st, iter'[k])
    <2>1. IterAt(nodes, st, iter'[i])
      BY <1>7, <1>9, <1>10, <1>11, <1>13 DEF IterAt, BufferIter
    <2> QED BY <1>6, <1>12, <2>1 DEF StreamRight
  <1>15. /\ reading'.op = (IF end > it.from THEN "look" ELSE "decide") /\ reading'.it = i
         /\ reading'.has_writer = reading.has_writer
    BY <1>1, <1>4, <1>5
  <1>16. BufferType'
    <2>1. reading' \in [op : {"look", "sync", "decide"}, it : Iterator, has_writer : BOOLEAN]
      BY <1>4, <1>5
    <2> QED BY <1>4, <1>12, <2>1 DEF BufferInv, BufferType
  <1>17. Deciding'
    <2>1. ~(end > it.from) => end = it.from
      BY <1>7, <1>8, <1>11 DEF BufferIter
    <2> QED BY <1>4, <1>8, <1>11, <1>13, <1>15, <2>1 DEF Deciding
  <1>18. TakenRight'
    <2>1. \A k \in Iterator : iter'[k].offset_ = iter[k].offset_
      BY <1>2, <1>12, <1>13
    <2> QED BY <1>4, <2>1 DEF BufferInv, TakenRight, Iterator
  <1>19. \A k \in Iterator : /\ iter'[k].head_ = iter[k].head_ /\ iter'[k].buffer = iter[k].buffer
                             /\ iter[k].head_ = NullNode => iter'[k].from = iter[k].from
    BY <1>2, <1>12, <1>13
  <1>20. reading'.op # "gone" /\ reading.op # "gone"
    BY <1>4, <1>15
  <1> QED BY <1>4, <1>6, <1>14, <1>16, <1>17, <1>18, <1>19, <1>20, LookSafe

(* What follows in order is in order with what it follows. *)
LEMMA InOrderTogether ==
  ASSUME NEW s \in Seq(Nat), s = [k \in 1..Len(s) |-> k],
         NEW t \in Seq(Nat), \A k \in 1..Len(t) : t[k] = Len(s) + k
  PROVE  /\ s \o t \in Seq(Nat) /\ Len(s \o t) = Len(s) + Len(t)
         /\ s \o t = [k \in 1..Len(s \o t) |-> k]
PROOF
  <1>1. PICK u \in Seq(Nat) : u = s \o t
    BY ConcatProperties
  <1>2. Len(u) = Len(s) + Len(t) /\ Len(s) \in Nat /\ Len(t) \in Nat
    BY <1>1, ConcatProperties
  <1>3. ASSUME NEW k \in 1..Len(u) PROVE u[k] = k
    <2>1. CASE k <= Len(s)
      <3>1. k \in 1..Len(s) /\ u[k] = s[k]
        BY <1>1, <1>2, <2>1, ConcatProperties
      <3> QED BY <3>1
    <2>2. CASE k > Len(s)
      <3>1. k - Len(s) \in 1..Len(t) /\ u[k] = t[k - Len(s)]
        BY <1>1, <1>2, <2>2, ConcatProperties
      <3>2. t[k - Len(s)] = Len(s) + (k - Len(s))
        BY <3>1
      <3> QED BY <1>2, <3>1, <3>2
    <2> QED BY <1>2, <2>1, <2>2
  <1>4. u = [k \in 1..Len(u) |-> u[k]]
    OBVIOUS
  <1>5. u = [k \in 1..Len(u) |-> k]
    BY <1>3, <1>4
  <1> QED BY <1>1, <1>2, <1>5

LEMMA PartOfBytes ==
  ASSUME NEW s \in Seq(Nat), NEW f \in Nat, NEW n \in Nat, f + n <= Len(s)
  PROVE  /\ SubSeq(s, f + 1, f + n) \in Seq(Nat) /\ Len(SubSeq(s, f + 1, f + n)) = n
         /\ \A k \in 1..n : f + k \in 1..Len(s) /\ SubSeq(s, f + 1, f + n)[k] = s[f + k]
PROOF
  <1>1. PICK a \in Int : a = f + 1
    OBVIOUS
  <1>2. PICK b \in Int : b = f + n
    OBVIOUS
  <1>3. \A i \in a..b : s[i] \in Nat
    <2>1. \A i \in a..b : i \in 1..Len(s)
      BY <1>1, <1>2
    <2> QED BY <2>1
  <1>4. PICK t : t = SubSeq(s, a, b)
    OBVIOUS
  <1>5. /\ t \in Seq(Nat) /\ Len(t) = IF a <= b THEN b - a + 1 ELSE 0
        /\ \A i \in 1..b - a + 1 : t[i] = s[a + i - 1]
    BY <1>3, <1>4, SubSeqProperties
  <1>6. b - a + 1 = n /\ Len(t) = n
    BY <1>1, <1>2, <1>5
  <1>7. \A k \in 1..n : f + k \in 1..Len(s) /\ t[k] = s[f + k]
    <2>1. ASSUME NEW k \in 1..n PROVE f + k \in 1..Len(s) /\ t[k] = s[f + k]
      <3>1. a + k - 1 = f + k
        BY <1>1
      <3>2. f + k \in 1..Len(s)
        <4>1. Len(s) \in Nat
          OBVIOUS
        <4> QED BY <4>1
      <3> QED BY <1>5, <1>6, <3>1, <3>2
    <2> QED BY <2>1
  <1> QED BY <1>1, <1>2, <1>4, <1>5, <1>6, <1>7

LEMMA TakeBytesSafe ==
  ASSUME BufferInv, TakeBytes
  PROVE  BufferInv'
PROOF
  <1>1. PICK i : i = reading.it
    OBVIOUS
  <1>2. PICK it : it = iter[i]
    OBVIOUS
  <1>3. PICK ready : ready = it.to - it.from
    OBVIOUS
  <1>4. /\ reading.op = "look" /\ ready > 0 /\ it.head_ # NullNode
        /\ UNCHANGED <<nodes, tail_node, writing, written>>
    BY <1>1, <1>2, <1>3 DEF TakeBytes, ReadyBytes
  <1>5. i \in Iterator
    BY <1>1, <1>4 DEF BufferInv, BufferType
  <1>6. PICK st : StreamRight(st)
    BY DEF BufferInv
  <1>7. IterAt(nodes, st, it) /\ it \in BufferIter
    BY <1>2, <1>5, <1>6, BufferFacts DEF StreamRight
  <1>8. ready \in Nat /\ it.from \in Nat /\ it.to \in Nat /\ it.offset_ \in Nat /\ it.to = it.from + ready
    BY <1>3, <1>4, <1>7 DEF IterAt, BufferIter
  <1>9. it.buffer \in 1..Len(nodes) /\ st[it.buffer] \in Nat /\ it.offset_ = st[it.buffer] + it.from
    BY <1>6, <1>7 DEF IterAt, StreamRight
  <1>10. PICK n \in 0..ready :
           /\ iter' = [iter EXCEPT ![i].from = @ + n, ![i].offset_ = @ + n]
           /\ \/ i = "end_" /\ n = ready /\ UNCHANGED <<reading, taken>>
              \/ /\ i # "end_" /\ n <= Unread /\ reading' = [op |-> "none"]
                 /\ taken' = taken \o SubSeq(nodes[it.buffer].bytes, it.from + 1, it.from + n)
    <2>1. CASE i = "end_"
      <3>1. iter' = [iter EXCEPT ![i].from = @ + ready, ![i].offset_ = @ + ready] /\ UNCHANGED <<reading, taken>>
        BY <1>1, <1>2, <1>3, <2>1 DEF TakeBytes, Confirm, ReadyBytes
      <3>2. ready \in 0..ready
        BY <1>8
      <3> QED BY <2>1, <3>1, <3>2
    <2>2. CASE i # "end_"
      BY <1>1, <1>2, <1>3, <2>2 DEF TakeBytes, Confirm, ReadyBytes
    <2> QED BY <2>1, <2>2
  <1>21. n \in Nat /\ n <= ready
    BY <1>8, <1>10
  <1>11. PICK it2 : it2 = [it EXCEPT !.from = @ + n, !.offset_ = @ + n]
    OBVIOUS
  <1>12. it2 \in BufferIter /\ it2.head_ = it.head_ /\ it2.buffer = it.buffer /\ it2.from = it.from + n
         /\ it2.to = it.to /\ it2.offset_ = it.offset_ + n
    <2>1. it.from + n \in Nat /\ it.offset_ + n \in Nat
      BY <1>8, <1>10
    <2> QED BY <1>7, <1>11, <2>1 DEF BufferIter
  <1>13. iter'[i] = it2 /\ \A k \in Iterator : k # i => iter'[k] = iter[k]
    BY <1>2, <1>5, <1>10, <1>11, BufferFacts
  <1>14. iter' \in [Iterator -> BufferIter]
    <2>1. DOMAIN iter' = Iterator /\ \A k \in Iterator : iter'[k] \in BufferIter
      BY <1>10, <1>12, <1>13, BufferFacts
    <2>2. iter' = [k \in Iterator |-> iter'[k]]
      BY <1>10, <2>1, BufferFacts
    <2> QED BY <2>1, <2>2
  <1>15. IterAt(nodes, st, it2)
    <2>1. it2.from <= it2.to /\ it2.offset_ = st[it2.buffer] + it2.from
      BY <1>8, <1>9, <1>10, <1>12
    <2> QED BY <1>7, <1>12, <2>1 DEF IterAt
  <1>16. \A k \in Iterator : IterAt(nodes, st, iter'[k])
    BY <1>6, <1>13, <1>15 DEF StreamRight
  <1>17. \A k \in Iterator : /\ iter'[k].head_ = iter[k].head_ /\ iter'[k].buffer = iter[k].buffer
                             /\ iter[k].head_ = NullNode => iter'[k].from = iter[k].from
    BY <1>2, <1>4, <1>12, <1>13
  <1>18. "begin_" \in Iterator /\ "end_" \in Iterator /\ "begin_" # "end_" /\ i \in {"begin_", "end_"}
         /\ \A k \in Iterator : iter[k].offset_ \in Nat
    BY <1>5, BufferFacts DEF Iterator, BufferIter
  <1>19. CASE i = "end_"
    <2>1. reading' = reading /\ taken' = taken
      BY <1>10, <1>19
    <2>2. BufferType' /\ Deciding'
      BY <1>4, <1>14, <2>1 DEF BufferInv, BufferType, Deciding
    <2>3. TakenRight'
      <3>1. iter'["begin_"].offset_ = iter["begin_"].offset_ /\ iter'["end_"].offset_ = iter["end_"].offset_ + n
        BY <1>2, <1>12, <1>13, <1>18, <1>19
      <3>2. iter["begin_"].offset_ <= iter["end_"].offset_ + n
        <4>1. iter["begin_"].offset_ <= iter["end_"].offset_
          BY DEF BufferInv, TakenRight
        <4> QED BY <1>10, <1>18, <4>1
      <3> QED BY <2>1, <3>1, <3>2 DEF BufferInv, TakenRight
    <2>4. reading'.op = "gone" <=> reading.op = "gone"
      BY <2>1
    <2> QED BY <1>4, <1>6, <1>16, <1>17, <2>2, <2>3, <2>4, LookSafe
  <1>20. CASE i # "end_"
    <2>1. i = "begin_" /\ n <= Unread /\ reading' = [op |-> "none"]
          /\ taken' = taken \o SubSeq(nodes[it.buffer].bytes, it.from + 1, it.from + n)
      BY <1>10, <1>18, <1>20
    <2>2. PICK bytes : bytes = nodes[it.buffer].bytes
      OBVIOUS
    <2>3. bytes \in Seq(Nat) /\ it.from + n <= Len(bytes) /\ \A j \in 1..Len(bytes) : bytes[j] = st[it.buffer] + j
      <3>1. bytes \in Seq(Nat)
        BY <1>9, <2>2, BufferFacts DEF BufferNode
      <3>2. it.to <= Len(bytes)
        BY <1>7, <2>2 DEF IterAt
      <3>3. it.from + n <= Len(bytes)
        <4>1. Len(bytes) \in Nat
          BY <3>1
        <4> QED BY <1>8, <1>10, <3>2, <4>1
      <3>4. \A j \in 1..Len(bytes) : bytes[j] = st[it.buffer] + j
        BY <1>6, <1>9, <2>2 DEF StreamRight, Streamed
      <3> QED BY <3>1, <3>3, <3>4
    <2>4. PICK s : s = SubSeq(bytes, it.from + 1, it.from + n)
      OBVIOUS
    <2>5. s \in Seq(Nat) /\ Len(s) = n /\ \A k \in 1..n : s[k] = it.offset_ + k
      <3>1. s \in Seq(Nat) /\ Len(s) = n
        BY <1>8, <1>21, <2>3, <2>4, PartOfBytes
      <3>2. \A k \in 1..n : it.from + k \in 1..Len(bytes) /\ s[k] = bytes[it.from + k]
        BY <1>8, <1>21, <2>3, <2>4, PartOfBytes
      <3>3. \A k \in 1..n : bytes[it.from + k] = it.offset_ + k
        <4> SUFFICES ASSUME NEW k \in 1..n PROVE bytes[it.from + k] = it.offset_ + k
          OBVIOUS
        <4>1. bytes[it.from + k] = st[it.buffer] + (it.from + k)
          BY <2>3, <3>2
        <4> QED BY <1>8, <1>9, <4>1
      <3> QED BY <3>1, <3>2, <3>3
    <2>6. taken \in Seq(Nat) /\ taken = [k \in 1..Len(taken) |-> k] /\ it.offset_ = Len(taken)
      BY <1>2, <2>1 DEF BufferInv, BufferType, TakenRight
    <2>7. \A k \in 1..Len(s) : s[k] = Len(taken) + k
      BY <2>5, <2>6
    <2>8. taken' = taken \o s
      BY <2>1, <2>2, <2>4
    <2>9. /\ taken' \in Seq(Nat) /\ Len(taken') = Len(taken) + n
          /\ taken' = [k \in 1..Len(taken') |-> k]
      BY <2>5, <2>6, <2>7, <2>8, InOrderTogether
    <2>10. BufferType'
      <3>1. reading' \in [op : {"none", "gone"}]
        BY <2>1
      <3> QED BY <1>4, <1>14, <2>9, <3>1 DEF BufferInv, BufferType
    <2>11. Deciding'
      BY <2>1 DEF Deciding
    <2>12. TakenRight'
      <3>1. iter'["begin_"].offset_ = it.offset_ + n /\ iter'["end_"].offset_ = iter["end_"].offset_
        BY <1>12, <1>13, <1>18, <2>1
      <3>2. it.offset_ + n <= iter["end_"].offset_
        <4>1. n <= iter["end_"].offset_ - it.offset_ /\ iter["end_"].offset_ \in Nat
          BY <1>2, <1>18, <2>1 DEF Unread
        <4>2. \A a, b, c \in Nat : a <= c - b => b + a <= c
          OBVIOUS
        <4> QED BY <1>8, <1>21, <4>1, <4>2
      <3>3. iter'["begin_"].offset_ = Len(taken')
        BY <2>6, <2>9, <3>1
      <3>4. iter'["begin_"].offset_ <= iter'["end_"].offset_
        BY <3>1, <3>2
      <3> QED BY <2>9, <3>3, <3>4 DEF TakenRight
    <2>13. reading'.op = "none"
      BY <2>1
    <2> QED BY <1>4, <1>6, <1>16, <1>17, <2>10, <2>11, <2>12, <2>13, LookSafe
  <1> QED BY <1>19, <1>20

LEMMA FreshBytes ==
  ASSUME written \in Nat, NEW n \in Nat
  PROVE  Fresh(n) \in Seq(Nat) /\ Len(Fresh(n)) = n /\ \A j \in 1..n : Fresh(n)[j] = written + j
PROOF
  <1>1. \A j \in 1..n : written + j \in Nat
    OBVIOUS
  <1> QED BY <1>1 DEF Fresh

LEMMA MoreBytes ==
  ASSUME written \in Nat, NEW n \in Nat, NEW b \in Seq(Nat), NEW s \in Nat,
         written = s + Len(b), \A j \in 1..Len(b) : b[j] = s + j
  PROVE  /\ b \o Fresh(n) \in Seq(Nat) /\ Len(b \o Fresh(n)) = Len(b) + n
         /\ \A j \in 1..Len(b \o Fresh(n)) : (b \o Fresh(n))[j] = s + j
PROOF
  <1>1. PICK f \in Seq(Nat) : f = Fresh(n)
    BY FreshBytes
  <1>2. Len(f) = n /\ \A j \in 1..n : f[j] = written + j
    BY <1>1, FreshBytes
  <1>3. PICK u \in Seq(Nat) : u = b \o f
    BY ConcatProperties
  <1>4. Len(u) = Len(b) + n /\ Len(b) \in Nat
    BY <1>2, <1>3, ConcatProperties
  <1>5. ASSUME NEW j \in 1..Len(u) PROVE u[j] = s + j
    <2>1. CASE j <= Len(b)
      <3>1. j \in 1..Len(b) /\ u[j] = b[j]
        BY <1>3, <1>4, <2>1, ConcatProperties
      <3> QED BY <3>1
    <2>2. CASE j > Len(b)
      <3>1. j - Len(b) \in 1..Len(f) /\ u[j] = f[j - Len(b)]
        BY <1>2, <1>3, <1>4, <2>2, ConcatProperties
      <3>2. f[j - Len(b)] = written + (j - Len(b))
        BY <1>2, <3>1
      <3> QED BY <1>4, <3>1, <3>2
    <2> QED BY <1>4, <2>1, <2>2
  <1> QED BY <1>1, <1>3, <1>4, <1>5

LEMMA AppendInPlaceSafe ==
  ASSUME BufferInv, NEW n \in 1..MaxBytes, AppendInPlace(n), MaxBytes \in Nat
  PROVE  BufferInv'
PROOF
  <1>1. PICK L \in Nat : L = Len(nodes) /\ L > 0
    BY BufferFacts
  <1>2. /\ tail_node # NullNode /\ writing = "idle" /\ n <= Room
        /\ nodes' = [nodes EXCEPT ![tail_node].bytes = @ \o Fresh(n)]
        /\ written' = written + n
        /\ UNCHANGED <<tail_node, writing, iter, reading, taken>>
    BY DEF AppendInPlace, WriterIdle
  <1>3. tail_node = L /\ L \in 1..L
    BY <1>1, <1>2 DEF BufferInv, WriterAt
  <1>4. nodes[L].sync_flag_
    BY <1>2, <1>3 DEF Room
  <1>5. nodes[L].has_writer_ /\ ~WriterDone /\ ~WriterDone'
    BY <1>1, <1>2, <1>3 DEF BufferInv, WriterAt, WriterDone, NullNode
  <1>6. PICK st : StreamRight(st)
    BY DEF BufferInv
  <1>7. PICK b : b = nodes[L].bytes
    OBVIOUS
  <1>8. b \in Seq(Nat) /\ nodes[L] \in BufferNode
    BY <1>1, <1>3, <1>7, BufferFacts DEF BufferNode
  <1>9. st[L] \in Nat /\ written = st[L] + Len(b) /\ (\A j \in 1..Len(b) : b[j] = st[L] + j) /\ written \in Nat
    BY <1>1, <1>3, <1>6, <1>7 DEF StreamRight, Streamed, BufferInv, BufferType
  <1>22. n \in Nat
    OBVIOUS
  <1>10. PICK b2 : b2 = b \o Fresh(n)
    OBVIOUS
  <1>11. b2 \in Seq(Nat) /\ Len(b2) = Len(b) + n /\ \A j \in 1..Len(b2) : b2[j] = st[L] + j
    <2>1. PICK s \in Nat : s = st[L]
      BY <1>9
    <2>2. written = s + Len(b) /\ \A j \in 1..Len(b) : b[j] = s + j
      BY <1>9, <2>1
    <2>3. /\ b \o Fresh(n) \in Seq(Nat) /\ Len(b \o Fresh(n)) = Len(b) + n
          /\ \A j \in 1..Len(b \o Fresh(n)) : (b \o Fresh(n))[j] = s + j
      BY <1>8, <1>9, <1>22, <2>2, MoreBytes
    <2> QED BY <1>10, <2>1, <2>3
  <1>12. /\ nodes' \in Seq(BufferNode) /\ Len(nodes') = L
         /\ nodes'[L].bytes = b2
         /\ \A m \in 1..L : m # L => nodes'[m].bytes = nodes[m].bytes
         /\ \A m \in 1..L : /\ nodes'[m].sync_flag_ = nodes[m].sync_flag_
                            /\ nodes'[m].next_ = nodes[m].next_ /\ nodes'[m].has_writer_ = nodes[m].has_writer_
                            /\ nodes'[m].ref_cnt_ = nodes[m].ref_cnt_ /\ nodes'[m].deleted = nodes[m].deleted
    <2>1. [nodes[L] EXCEPT !.bytes = b2] \in BufferNode
      BY <1>8, <1>11 DEF BufferNode
    <2>2. nodes' = [nodes EXCEPT ![L] = [nodes[L] EXCEPT !.bytes = b2]]
      BY <1>2, <1>3, <1>7, <1>10
    <2>3. nodes \in Seq(BufferNode) /\ \A m \in 1..L : nodes[m] \in BufferNode
      BY <1>1, BufferFacts
    <2>4. nodes' \in Seq(BufferNode) /\ Len(nodes') = L /\ nodes'[L] = [nodes[L] EXCEPT !.bytes = b2]
          /\ \A m \in 1..L : m # L => nodes'[m] = nodes[m]
      BY <1>1, <1>3, <2>1, <2>2, <2>3
    <2> QED BY <1>8, <2>4 DEF BufferNode
  <1>13. BufferType'
    BY <1>1, <1>2, <1>9, <1>12 DEF BufferInv, BufferType
  <1>14. WriterAt'
    BY <1>1, <1>2, <1>12 DEF BufferInv, WriterAt, WriterDone
  <1>15. InARow(nodes)'
    BY <1>1, <1>12 DEF BufferInv, InARow
  <1>16. HeldNow' = HeldNow
    BY <1>1, <1>2, <1>12 DEF HeldNow, TailMade
  <1>17. RefsRight(nodes, HeldNow)'
    <2>1. \A m \in 1..L : NextTo(nodes', m) = NextTo(nodes, m)
      BY <1>12 DEF NextTo
    <2> QED BY <1>1, <1>12, <1>16, <2>1 DEF BufferInv, RefsRight
  <1>18. ASSUME NEW i \in Iterator PROVE IterEnded(i)'
    BY <1>2, <1>5 DEF BufferInv, IterEnded
  <1>19. Deciding'
    <2> SUFFICES ASSUME reading.op \in {"sync", "decide"}
                 PROVE  Deciding'
      BY <1>2 DEF Deciding
    <2>1. reading.it \in Iterator
      BY DEF BufferInv, BufferType
    <2>2. iter[reading.it].head_ # NullNode /\ iter[reading.it].from = iter[reading.it].to
      BY DEF BufferInv, Deciding
    <2>3. iter[reading.it].head_ \in 1..L
      BY <1>1, <1>6, <2>1, <2>2 DEF StreamRight, IterAt
    <2>4. CASE reading.has_writer
      BY <1>2, <2>2, <2>4 DEF Deciding
    <2>5. CASE ~reading.has_writer
      <3>1. ~nodes[iter[reading.it].head_].has_writer_
            /\ (reading.op = "decide" => iter[reading.it].to = Len(nodes[iter[reading.it].head_].bytes))
        BY <2>5 DEF BufferInv, Deciding
      <3>2. iter[reading.it].head_ # L
        BY <1>5, <3>1
      <3> QED BY <1>2, <1>12, <2>2, <2>3, <3>1, <3>2 DEF Deciding
    <2> QED BY <2>4, <2>5
  <1>20. TakenRight'
    BY <1>2 DEF BufferInv, TakenRight
  <1>21. StreamRight(st)'
    <2>1. Streamed(nodes, written, st)'
      <3>1. written' = st[L] + Len(nodes'[L].bytes)
        <4>1. Len(b) \in Nat /\ Len(b2) = Len(b) + n
          BY <1>8, <1>11
        <4>2. \A x, y, z \in Nat : (x + y) + z = x + (y + z)
          OBVIOUS
        <4>3. (st[L] + Len(b)) + n = st[L] + Len(b2)
          BY <1>9, <1>22, <4>1, <4>2
        <4> QED BY <1>2, <1>9, <1>12, <4>3
      <3>2. st[1] = 0
        BY <1>6 DEF StreamRight, Streamed
      <3>3. ASSUME NEW m \in 1..L
            PROVE  /\ m # L => st[m + 1] = st[m] + Len(nodes'[m].bytes)
                   /\ st[m] + Len(nodes'[m].bytes) <= written'
                   /\ \A j \in 1..Len(nodes'[m].bytes) : nodes'[m].bytes[j] = st[m] + j
        <4>1. CASE m = L
          <5>1. written' \in Nat
            BY <1>2, <1>9, <1>22
          <5>2. nodes'[m].bytes = b2
            BY <1>12, <4>1
          <5>3. st[m] + Len(nodes'[m].bytes) <= written'
            BY <3>1, <4>1, <5>1
          <5>4. \A j \in 1..Len(nodes'[m].bytes) : nodes'[m].bytes[j] = st[m] + j
            BY <1>11, <4>1, <5>2
          <5> QED BY <4>1, <5>3, <5>4
        <4>2. CASE m # L
          <5>1. nodes'[m].bytes = nodes[m].bytes
            BY <1>12, <4>2
          <5>2. /\ m # L => st[m + 1] = st[m] + Len(nodes[m].bytes)
                /\ st[m] + Len(nodes[m].bytes) <= written
                /\ \A j \in 1..Len(nodes[m].bytes) : nodes[m].bytes[j] = st[m] + j
            BY <1>1, <1>6 DEF StreamRight, Streamed
          <5>3. st[m] + Len(nodes[m].bytes) <= written'
            <6>1. st[m] \in Nat /\ Len(nodes[m].bytes) \in Nat
              <7>1. st[m] \in Nat
                BY <1>1, <1>6 DEF StreamRight
              <7>2. nodes[m].bytes \in Seq(Nat)
                BY <1>1, BufferFacts DEF BufferNode
              <7> QED BY <7>1, <7>2
            <6>2. \A x, y, z \in Nat : x <= y => x <= y + z
              OBVIOUS
            <6>3. st[m] + Len(nodes[m].bytes) \in Nat
              BY <6>1
            <6> QED BY <1>2, <1>9, <1>22, <5>2, <6>2, <6>3
          <5> QED BY <5>1, <5>2, <5>3
        <4> QED BY <4>1, <4>2
      <3> QED BY <1>12, <3>1, <3>2, <3>3 DEF Streamed
    <2>2. ASSUME NEW i \in Iterator PROVE IterAt(nodes', st, iter[i])
      <3>1. PICK it \in BufferIter : it = iter[i]
        BY BufferFacts
      <3>2. IterAt(nodes, st, it)
        BY <1>6, <3>1 DEF StreamRight
      <3>3. it.buffer \in 1..L /\ it.to <= Len(nodes[it.buffer].bytes) /\ it.to \in Nat
        BY <1>1, <3>2 DEF IterAt, BufferIter
      <3>4. it.to <= Len(nodes'[it.buffer].bytes)
        <4>1. CASE it.buffer = L
          <5>1. it.to <= Len(b) /\ Len(b) \in Nat /\ Len(b2) = Len(b) + n
            BY <1>7, <1>8, <1>11, <3>3, <4>1
          <5>2. it.to <= Len(b2)
            BY <1>22, <3>3, <5>1
          <5> QED BY <1>12, <4>1, <5>2
        <4>2. CASE it.buffer # L
          BY <1>12, <3>3, <4>2
        <4> QED BY <4>1, <4>2
      <3>5. nodes'[it.buffer].sync_flag_ = nodes[it.buffer].sync_flag_
        BY <1>12, <3>3
      <3>6. ~nodes[it.buffer].sync_flag_ => it.to = Len(nodes'[it.buffer].bytes)
        <4>1. ~nodes[it.buffer].sync_flag_ => it.buffer # L
          BY <1>4
        <4> QED BY <1>12, <3>2, <3>3, <4>1 DEF IterAt
      <3>7. Len(nodes') = Len(nodes)
        BY <1>1, <1>12
      <3>8. IterAt(nodes', st, it)
        BY <3>2, <3>4, <3>5, <3>6, <3>7 DEF IterAt
      <3> QED BY <3>1, <3>8
    <2>3. iter' = iter
      BY <1>2
    <2> QED BY <1>1, <1>6, <1>12, <2>1, <2>2, <2>3 DEF StreamRight
  <1> QED BY <1>13, <1>14, <1>15, <1>17, <1>18, <1>19, <1>20, <1>21 DEF BufferInv

LEMMA LinkNodeSafe ==
  ASSUME BufferInv, NEW node \in BufferNode, LinkNode(node),
         node.next_ = NullNode, node.ref_cnt_ = 1, node.has_writer_, ~node.deleted,
         \A j \in 1..Len(node.bytes) : node.bytes[j] = written + j,
         written' = written + Len(node.bytes)
  PROVE  BufferInv'
PROOF
  <1>1. PICK L \in Nat : L = Len(nodes) /\ L > 0
    BY BufferFacts
  <1>2. PICK ns : ns = Append([nodes EXCEPT ![tail_node].next_ = L + 1], node)
    OBVIOUS
  <1>3. /\ tail_node # NullNode /\ writing = "idle" /\ nodes' = Shared(ns, L + 1)
        /\ writing' = "linked" /\ UNCHANGED <<tail_node, iter, reading, taken>>
    BY <1>1, <1>2 DEF LinkNode, WriterIdle
  <1>4. tail_node = L /\ L \in 1..L
    BY <1>1, <1>3 DEF BufferInv, WriterAt
  <1>5. ~WriterDone /\ ~WriterDone'
    BY <1>3 DEF WriterDone
  <1>6. PICK st : StreamRight(st)
    BY DEF BufferInv
  <1>7. /\ nodes' \in Seq(BufferNode) /\ Len(nodes') = L + 1
        /\ \A m \in 1..L : /\ nodes'[m].bytes = nodes[m].bytes /\ nodes'[m].sync_flag_ = nodes[m].sync_flag_
                           /\ nodes'[m].has_writer_ = nodes[m].has_writer_
                           /\ nodes'[m].ref_cnt_ = nodes[m].ref_cnt_ /\ nodes'[m].deleted = nodes[m].deleted
                           /\ nodes'[m].next_ = IF m = L THEN L + 1 ELSE nodes[m].next_
        /\ nodes'[L + 1] = [node EXCEPT !.ref_cnt_ = 2]
    <2>1. nodes \in Seq(BufferNode) /\ nodes[L] \in BufferNode /\ \A m \in 1..L : nodes[m] \in BufferNode
      BY <1>1, <1>4, BufferFacts
    <2>2. PICK x : x = [nodes[L] EXCEPT !.next_ = L + 1]
      OBVIOUS
    <2>3. /\ x \in BufferNode /\ x.next_ = L + 1 /\ x.bytes = nodes[L].bytes /\ x.sync_flag_ = nodes[L].sync_flag_
          /\ x.has_writer_ = nodes[L].has_writer_ /\ x.ref_cnt_ = nodes[L].ref_cnt_ /\ x.deleted = nodes[L].deleted
      <3>1. ASSUME NEW y \in BufferNode, NEW k \in Nat, NEW z, z = [y EXCEPT !.next_ = k]
            PROVE  /\ z \in BufferNode /\ z.next_ = k /\ z.bytes = y.bytes /\ z.sync_flag_ = y.sync_flag_
                   /\ z.has_writer_ = y.has_writer_ /\ z.ref_cnt_ = y.ref_cnt_ /\ z.deleted = y.deleted
        BY <3>1 DEF BufferNode
      <3>2. L + 1 \in Nat
        OBVIOUS
      <3> QED BY <2>1, <2>2, <3>1, <3>2
    <2>4. PICK mid : mid = [nodes EXCEPT ![L] = x]
      OBVIOUS
    <2>5. mid \in Seq(BufferNode) /\ Len(mid) = L /\ mid[L] = x /\ \A m \in 1..L : m # L => mid[m] = nodes[m]
      BY <1>1, <1>4, <2>1, <2>3, <2>4
    <2>6. ns = Append(mid, node)
      BY <1>2, <1>4, <2>2, <2>4
    <2>7. ns \in Seq(BufferNode) /\ Len(ns) = L + 1 /\ ns[L + 1] = node /\ \A m \in 1..L : ns[m] = mid[m]
      BY <2>5, <2>6
    <2>8. PICK y : y = [node EXCEPT !.ref_cnt_ = 2]
      OBVIOUS
    <2>9. y \in BufferNode
      BY <2>8 DEF BufferNode
    <2>10. nodes' = [ns EXCEPT ![L + 1] = y]
      <3>1. L + 1 # NullNode
        BY DEF NullNode
      <3>2. nodes' = [ns EXCEPT ![L + 1].ref_cnt_ = @ + 1]
        BY <1>3, <3>1 DEF Shared
      <3> QED BY <2>7, <2>8, <3>2
    <2>11. nodes' \in Seq(BufferNode) /\ Len(nodes') = L + 1 /\ nodes'[L + 1] = y
           /\ \A m \in 1..L : nodes'[m] = ns[m]
      BY <2>7, <2>9, <2>10
    <2>12. nodes'[L] = x /\ \A m \in 1..L : m # L => nodes'[m] = nodes[m]
      BY <1>4, <2>5, <2>7, <2>11
    <2>13. ASSUME NEW m \in 1..L
           PROVE  /\ nodes'[m].bytes = nodes[m].bytes /\ nodes'[m].sync_flag_ = nodes[m].sync_flag_
                  /\ nodes'[m].has_writer_ = nodes[m].has_writer_
                  /\ nodes'[m].ref_cnt_ = nodes[m].ref_cnt_ /\ nodes'[m].deleted = nodes[m].deleted
                  /\ nodes'[m].next_ = IF m = L THEN L + 1 ELSE nodes[m].next_
      <3>1. CASE m = L
        BY <2>3, <2>12, <3>1
      <3>2. CASE m # L
        BY <2>12, <3>2
      <3> QED BY <3>1, <3>2
    <2> QED BY <2>8, <2>11, <2>13
  <1>8. /\ nodes'[L + 1].bytes = node.bytes /\ nodes'[L + 1].next_ = NullNode /\ nodes'[L + 1].ref_cnt_ = 2
        /\ nodes'[L + 1].has_writer_ /\ ~nodes'[L + 1].deleted
    BY <1>7 DEF BufferNode
  <1>9. node.bytes \in Seq(Nat) /\ Len(node.bytes) \in Nat /\ written \in Nat /\ written' \in Nat
    <2>1. node.bytes \in Seq(Nat)
      BY DEF BufferNode
    <2>2. Len(node.bytes) \in Nat /\ written \in Nat
      BY <2>1 DEF BufferInv, BufferType
    <2> QED BY <2>1, <2>2
  <1>10. BufferType'
    BY <1>1, <1>3, <1>4, <1>7, <1>9 DEF BufferInv, BufferType
  <1>11. WriterAt'
    <2>1. ASSUME NEW m \in 1..(L + 1)
          PROVE  nodes'[m].has_writer_ <=> (m = L + 1 \/ m = L)
      <3>1. CASE m = L + 1
        BY <1>8, <3>1
      <3>2. CASE m # L + 1
        <4>1. m \in 1..L
          BY <3>2
        <4> QED BY <1>1, <1>3, <1>5, <1>7, <3>2, <4>1 DEF BufferInv, WriterAt
      <3> QED BY <3>1, <3>2
    <2> QED BY <1>1, <1>3, <1>4, <1>5, <1>7, <2>1 DEF WriterAt
  <1>12. InARow(nodes)'
    <2>1. ASSUME NEW m \in 1..(L + 1)
          PROVE  nodes'[m].next_ = IF m = L + 1 THEN NullNode ELSE m + 1
      <3>1. CASE m = L + 1
        BY <1>8, <3>1
      <3>2. CASE m # L + 1
        <4>1. m \in 1..L
          BY <3>2
        <4> QED BY <1>1, <1>7, <3>2, <4>1 DEF BufferInv, InARow
      <3> QED BY <3>1, <3>2
    <2> QED BY <1>7, <2>1 DEF InARow
  <1>13. PICK b : b = iter["begin_"].head_
    OBVIOUS
  <1>14. PICK e : e = iter["end_"].head_
    OBVIOUS
  <1>15. b \in 0..L /\ e \in 0..L
    <2>1. \A i \in Iterator : iter[i].head_ \in 0..L
      BY <1>1, <1>6 DEF StreamRight, IterAt, NullNode
    <2> QED BY <1>13, <1>14, <2>1 DEF Iterator
  <1>16. HeldNow = HeldBy(L, L, 0, b, e) /\ HeldNow' = HeldBy(L + 1, L, L + 1, b, e)
    <2>1. HeldNow = HeldBy(L, L, 0, b, e)
      BY <1>1, <1>3, <1>4, <1>13, <1>14 DEF HeldNow, TailMade, NullNode
    <2>2. HeldNow' = HeldBy(L + 1, L, L + 1, b, e)
      BY <1>3, <1>4, <1>7, <1>13, <1>14 DEF HeldNow, TailMade
    <2> QED BY <2>1, <2>2
  <1>17. RefsRight(nodes, HeldNow)'
    <2>1. ASSUME NEW m \in 1..(L + 1)
          PROVE  /\ nodes'[m].ref_cnt_ = HeldNow'[m] + NextTo(nodes', m)
                 /\ nodes'[m].deleted <=> nodes'[m].ref_cnt_ = 0
      <3>1. CASE m = L + 1
        <4>1. HeldNow'[m] = 1
          <5>1. HeldNow'[m] = One(L, m) + One(L + 1, m) + One(b, m) + One(e, m)
            BY <1>16 DEF HeldBy
          <5>2. L # m /\ b # m /\ e # m
            BY <1>15, <3>1
          <5>3. One(L, m) = 0 /\ One(L + 1, m) = 1 /\ One(b, m) = 0 /\ One(e, m) = 0
            BY <3>1, <5>2 DEF One
          <5> QED BY <5>1, <5>3
        <4>2. ~nodes[L].deleted
          <5>1. HeldNow[L] = One(L, L) + One(0, L) + One(b, L) + One(e, L)
            BY <1>4, <1>16 DEF HeldBy
          <5>2. One(L, L) = 1 /\ One(0, L) \in {0, 1} /\ One(b, L) \in {0, 1} /\ One(e, L) \in {0, 1}
            BY DEF One
          <5>3. NextTo(nodes, L) \in {0, 1}
            BY DEF NextTo
          <5>4. nodes[L].ref_cnt_ = HeldNow[L] + NextTo(nodes, L) /\ (nodes[L].deleted <=> nodes[L].ref_cnt_ = 0)
            BY <1>1, <1>4 DEF BufferInv, RefsRight
          <5> QED BY <5>1, <5>2, <5>3, <5>4
        <4>3. NextTo(nodes', m) = 1
          <5>1. m > 1 /\ m - 1 = L
            BY <1>1, <3>1
          <5> QED BY <1>4, <1>7, <4>2, <5>1 DEF NextTo
        <4> QED BY <1>8, <3>1, <4>1, <4>3
      <3>2. CASE m # L + 1
        <4>1. m \in 1..L
          BY <3>2
        <4>2. HeldNow'[m] = HeldNow[m]
          <5>1. HeldNow'[m] = One(L, m) + One(L + 1, m) + One(b, m) + One(e, m)
            BY <1>16 DEF HeldBy
          <5>2. HeldNow[m] = One(L, m) + One(0, m) + One(b, m) + One(e, m)
            BY <1>16, <4>1 DEF HeldBy
          <5>3. One(L + 1, m) = 0 /\ One(0, m) = 0
            BY <3>2, <4>1 DEF One
          <5> QED BY <5>1, <5>2, <5>3
        <4>3. NextTo(nodes', m) = NextTo(nodes, m)
          <5>1. m > 1 => m - 1 \in 1..L
            BY <4>1
          <5> QED BY <1>7, <5>1 DEF NextTo
        <4> QED BY <1>1, <1>7, <4>1, <4>2, <4>3 DEF BufferInv, RefsRight
      <3> QED BY <3>1, <3>2
    <2> QED BY <1>7, <2>1 DEF RefsRight
  <1>18. ASSUME NEW i \in Iterator PROVE IterEnded(i)'
    BY <1>3, <1>5 DEF BufferInv, IterEnded
  <1>19. Deciding'
    <2> SUFFICES ASSUME reading.op \in {"sync", "decide"}
                 PROVE  Deciding'
      BY <1>3 DEF Deciding
    <2>1. reading.it \in Iterator
      BY DEF BufferInv, BufferType
    <2>2. iter[reading.it].head_ # NullNode
      BY DEF BufferInv, Deciding
    <2>3. iter[reading.it].head_ \in 1..L
      BY <1>1, <1>6, <2>1, <2>2 DEF StreamRight, IterAt
    <2> QED BY <1>3, <1>7, <2>3 DEF BufferInv, Deciding
  <1>20. TakenRight'
    BY <1>3 DEF BufferInv, TakenRight
  <1>21. PICK st2 : st2 = [m \in 1..(L + 1) |-> IF m = L + 1 THEN written ELSE st[m]]
    OBVIOUS
  <1>22. /\ st2 \in [1..(L + 1) -> Nat] /\ st2[L + 1] = written
         /\ \A m \in 1..L : st2[m] = st[m] /\ st[m] \in Nat
    <2>1. \A m \in 1..L : st[m] \in Nat
      BY <1>1, <1>6 DEF StreamRight
    <2> QED BY <1>9, <1>21, <2>1
  <1>23. Streamed(nodes', written', st2)
    <2>1. st2[1] = 0
      <3>1. 1 \in 1..L /\ st[1] = 0
        BY <1>1, <1>6 DEF StreamRight, Streamed
      <3> QED BY <1>22, <3>1
    <2>2. ASSUME NEW m \in 1..(L + 1)
          PROVE  /\ m # L + 1 => st2[m + 1] = st2[m] + Len(nodes'[m].bytes)
                 /\ st2[m] + Len(nodes'[m].bytes) <= written'
                 /\ \A j \in 1..Len(nodes'[m].bytes) : nodes'[m].bytes[j] = st2[m] + j
      <3>1. CASE m = L + 1
        <4>1. nodes'[m].bytes = node.bytes /\ st2[m] = written
          BY <1>8, <1>22, <3>1
        <4>2. st2[m] + Len(nodes'[m].bytes) = written'
          BY <4>1
        <4>3. \A j \in 1..Len(nodes'[m].bytes) : nodes'[m].bytes[j] = st2[m] + j
          BY <4>1
        <4> QED BY <1>9, <3>1, <4>2, <4>3
      <3>2. CASE m # L + 1
        <4>1. m \in 1..L
          BY <3>2
        <4>2. /\ m # L => st[m + 1] = st[m] + Len(nodes[m].bytes)
              /\ m = L => written = st[m] + Len(nodes[m].bytes)
              /\ st[m] + Len(nodes[m].bytes) <= written
              /\ \A j \in 1..Len(nodes[m].bytes) : nodes[m].bytes[j] = st[m] + j
          BY <1>1, <1>6, <4>1 DEF StreamRight, Streamed
        <4>3. nodes'[m].bytes = nodes[m].bytes /\ st2[m] = st[m]
          BY <1>7, <1>22, <4>1
        <4>4. st2[m + 1] = st2[m] + Len(nodes'[m].bytes)
          <5>1. CASE m = L
            BY <1>22, <4>2, <4>3, <5>1
          <5>2. CASE m # L
            <6>1. m + 1 \in 1..L
              BY <4>1, <5>2
            <6> QED BY <1>22, <4>2, <4>3, <5>2, <6>1
          <5> QED BY <5>1, <5>2
        <4>5. st2[m] + Len(nodes'[m].bytes) <= written'
          <5>1. nodes[m].bytes \in Seq(Nat) /\ st[m] \in Nat
            BY <1>1, <1>22, <4>1, BufferFacts DEF BufferNode
          <5>2. st[m] + Len(nodes[m].bytes) \in Nat
            BY <5>1
          <5>3. \A x, y, z \in Nat : x <= y => x <= y + z
            OBVIOUS
          <5> QED BY <1>9, <4>2, <4>3, <5>2, <5>3
        <4> QED BY <4>2, <4>3, <4>4, <4>5
      <3> QED BY <3>1, <3>2
    <2>3. written' = st2[L + 1] + Len(nodes'[L + 1].bytes)
      BY <1>8, <1>22
    <2> QED BY <1>7, <2>1, <2>2, <2>3 DEF Streamed
  <1>24. ASSUME NEW i \in Iterator PROVE IterAt(nodes', st2, iter[i])
    <2>1. PICK it \in BufferIter : it = iter[i]
      BY BufferFacts
    <2>2. IterAt(nodes, st, it)
      BY <1>6, <2>1 DEF StreamRight
    <2>3. it.buffer \in 1..L
      BY <1>1, <2>2 DEF IterAt
    <2>4. /\ nodes'[it.buffer].bytes = nodes[it.buffer].bytes /\ st2[it.buffer] = st[it.buffer]
          /\ nodes'[it.buffer].sync_flag_ = nodes[it.buffer].sync_flag_
          /\ it.buffer \in 1..Len(nodes')
      BY <1>7, <1>22, <2>3
    <2>5. IterAt(nodes', st2, it)
      BY <2>2, <2>4 DEF IterAt
    <2> QED BY <2>1, <2>5
  <1>25. StreamRight(st2)'
    <2>1. iter' = iter
      BY <1>3
    <2> QED BY <1>7, <1>22, <1>23, <1>24, <2>1 DEF StreamRight
  <1> QED BY <1>10, <1>11, <1>12, <1>17, <1>18, <1>19, <1>20, <1>25 DEF BufferInv

LEMMA AppendAllocSafe ==
  ASSUME BufferInv, AppendAlloc
  PROVE  BufferInv'
PROOF
  <1>1. PICK node : node = NewNode(<<>>, TRUE)
    OBVIOUS
  <1>2. node = [bytes |-> <<>>, sync_flag_ |-> TRUE, next_ |-> NullNode, ref_cnt_ |-> 1,
                has_writer_ |-> TRUE, deleted |-> FALSE]
    BY <1>1 DEF NewNode
  <1>3. node \in BufferNode
    BY <1>2 DEF BufferNode, NullNode
  <1>4. /\ node.bytes = <<>> /\ node.next_ = NullNode /\ node.ref_cnt_ = 1 /\ node.has_writer_ /\ ~node.deleted
    BY <1>2
  <1>5. Len(node.bytes) = 0 /\ \A j \in 1..Len(node.bytes) : node.bytes[j] = written + j
    BY <1>4
  <1>6. LinkNode(node) /\ written' = written + Len(node.bytes)
    <2>1. written \in Nat
      BY DEF BufferInv, BufferType
    <2>2. LinkNode(node) /\ written' = written
      BY <1>1 DEF AppendAlloc
    <2> QED BY <1>5, <2>1, <2>2
  <1> QED BY <1>3, <1>4, <1>5, <1>6, LinkNodeSafe

LEMMA AppendSliceSafe ==
  ASSUME BufferInv, NEW n \in 1..MaxBytes, AppendSlice(n), MaxBytes \in Nat
  PROVE  BufferInv'
PROOF
  <1>1. PICK node : node = NewNode(Fresh(n), FALSE)
    OBVIOUS
  <1>2. node = [bytes |-> Fresh(n), sync_flag_ |-> FALSE, next_ |-> NullNode, ref_cnt_ |-> 1,
                has_writer_ |-> TRUE, deleted |-> FALSE]
    BY <1>1 DEF NewNode
  <1>3. /\ Fresh(n) \in Seq(Nat) /\ Len(Fresh(n)) = n
        /\ \A j \in 1..n : Fresh(n)[j] = written + j
    <2>1. written \in Nat /\ n \in Nat
      BY DEF BufferInv, BufferType
    <2> QED BY <2>1, FreshBytes
  <1>4. node \in BufferNode
    BY <1>2, <1>3 DEF BufferNode, NullNode
  <1>5. node.bytes = Fresh(n) /\ node.next_ = NullNode /\ node.ref_cnt_ = 1 /\ node.has_writer_ /\ ~node.deleted
    BY <1>2
  <1>6. \A j \in 1..Len(node.bytes) : node.bytes[j] = written + j
    BY <1>3, <1>5
  <1>7. LinkNode(node) /\ written' = written + Len(node.bytes)
    BY <1>1, <1>3, <1>5 DEF AppendSlice
  <1> QED BY <1>4, <1>5, <1>6, <1>7, LinkNodeSafe

LEMMA LeaveTailSafe ==
  ASSUME BufferInv, LeaveTail
  PROVE  BufferInv'
PROOF
  <1>1. PICK L \in Nat : L = Len(nodes) /\ L > 0
    BY BufferFacts
  <1>2. PICK t : t = tail_node
    OBVIOUS
  <1>3. /\ t # NullNode /\ writing \in {"linked", "idle"}
        /\ writing' = (IF writing = "linked" THEN "unset" ELSE "closing")
        /\ nodes' = [nodes EXCEPT ![t].has_writer_ = FALSE]
        /\ UNCHANGED <<tail_node, iter, reading, written, taken>>
    BY <1>2 DEF LeaveTail
  <1>4. /\ t \in 1..L /\ ~WriterDone
        /\ writing = "linked" => L > 1 /\ t = L - 1
        /\ writing = "idle" => t = L
    BY <1>1, <1>2, <1>3 DEF BufferInv, WriterAt, WriterDone, NullNode
  <1>5. /\ nodes' \in Seq(BufferNode) /\ Len(nodes') = L
        /\ \A m \in 1..L : /\ nodes'[m].bytes = nodes[m].bytes /\ nodes'[m].sync_flag_ = nodes[m].sync_flag_
                           /\ nodes'[m].next_ = nodes[m].next_ /\ nodes'[m].deleted = nodes[m].deleted
                           /\ nodes'[m].ref_cnt_ = nodes[m].ref_cnt_
                           /\ nodes'[m].has_writer_ = IF m = t THEN FALSE ELSE nodes[m].has_writer_
    <2>1. nodes \in Seq(BufferNode) /\ \A m \in 1..L : nodes[m] \in BufferNode
      BY <1>1, BufferFacts
    <2>2. PICK x : x = [nodes[t] EXCEPT !.has_writer_ = FALSE]
      OBVIOUS
    <2>3. /\ x \in BufferNode /\ x.has_writer_ = FALSE /\ x.bytes = nodes[t].bytes
          /\ x.sync_flag_ = nodes[t].sync_flag_ /\ x.next_ = nodes[t].next_
          /\ x.ref_cnt_ = nodes[t].ref_cnt_ /\ x.deleted = nodes[t].deleted
      <3>1. nodes[t] \in BufferNode
        BY <1>4, <2>1
      <3> QED BY <2>2, <3>1 DEF BufferNode
    <2>4. nodes' = [nodes EXCEPT ![t] = x]
      BY <1>3, <2>2
    <2>5. nodes' \in Seq(BufferNode) /\ Len(nodes') = L /\ \A m \in 1..L : nodes'[m] = IF m = t THEN x ELSE nodes[m]
      BY <1>1, <1>4, <2>1, <2>3, <2>4
    <2> QED BY <2>3, <2>5
  <1>6. BufferType'
    BY <1>1, <1>3, <1>5 DEF BufferInv, BufferType
  <1>7. WriterAt'
    <2>1. ASSUME NEW m \in 1..L
          PROVE  nodes'[m].has_writer_ <=> (m = L /\ writing = "linked")
      <3>1. nodes[m].has_writer_ <=> (m = L \/ (m = t /\ writing = "linked"))
        BY <1>1, <1>2, <1>4 DEF BufferInv, WriterAt
      <3>2. writing = "linked" \/ writing = "idle"
        BY <1>3
      <3>3. CASE m = t
        <4>1. nodes'[m].has_writer_ = FALSE
          BY <1>5, <3>3
        <4>2. writing = "linked" => m # L
          BY <1>4, <3>3
        <4> QED BY <4>1, <4>2
      <3>4. CASE m # t
        <4>1. nodes'[m].has_writer_ = nodes[m].has_writer_
          BY <1>5, <3>4
        <4>2. writing = "idle" => m # L
          BY <1>4, <3>4
        <4> QED BY <3>1, <3>2, <3>4, <4>1, <4>2
      <3> QED BY <3>3, <3>4
    <2>2. WriterDone' <=> writing # "linked"
      BY <1>2, <1>3 DEF WriterDone
    <2>3. writing' \in {"unset", "closing"} /\ (writing' = "unset" <=> writing = "linked")
      BY <1>3
    <2>4. \A m \in 1..Len(nodes') :
            nodes'[m].has_writer_ <=> \/ m = Len(nodes') /\ ~WriterDone'
                                      \/ m = tail_node' /\ writing' = "linked"
      BY <1>5, <2>1, <2>2, <2>3
    <2>5. /\ writing' = "closing" => tail_node' = L
          /\ writing' = "unset" => L > 1 /\ tail_node' = L - 1
      BY <1>2, <1>3, <1>4
    <2> QED BY <1>5, <2>3, <2>4, <2>5 DEF WriterAt
  <1>8. InARow(nodes)'
    BY <1>1, <1>5 DEF BufferInv, InARow
  <1>9. HeldNow' = HeldNow
    <2>1. TailMade' = TailMade
      BY <1>1, <1>3, <1>5 DEF TailMade
    <2> QED BY <1>1, <1>3, <1>5, <2>1 DEF HeldNow
  <1>10. RefsRight(nodes, HeldNow)'
    <2>1. ASSUME NEW m \in 1..L PROVE NextTo(nodes', m) = NextTo(nodes, m)
      <3>1. m > 1 => m - 1 \in 1..L
        OBVIOUS
      <3> QED BY <1>5, <3>1 DEF NextTo
    <2> QED BY <1>1, <1>5, <1>9, <2>1 DEF BufferInv, RefsRight
  <1>11. ASSUME NEW i \in Iterator PROVE IterEnded(i)'
    BY <1>3, <1>4 DEF BufferInv, IterEnded
  <1>12. PICK st : StreamRight(st)
    BY DEF BufferInv
  <1>13. Deciding'
    <2> SUFFICES ASSUME reading.op \in {"sync", "decide"}
                 PROVE  Deciding'
      BY <1>3 DEF Deciding
    <2>1. reading.it \in Iterator
      BY DEF BufferInv, BufferType
    <2>2. iter[reading.it].head_ # NullNode
      BY DEF BufferInv, Deciding
    <2>3. iter[reading.it].head_ \in 1..L
      BY <1>1, <1>12, <2>1, <2>2 DEF StreamRight, IterAt
    <2> QED BY <1>3, <1>5, <2>3 DEF BufferInv, Deciding
  <1>14. TakenRight'
    BY <1>3 DEF BufferInv, TakenRight
  <1>15. StreamRight(st)'
    <2>1. Streamed(nodes', written', st)
      <3>1. Streamed(nodes, written, st)
        BY <1>12 DEF StreamRight
      <3>2. L \in 1..L
        BY <1>1
      <3> QED BY <1>1, <1>3, <1>5, <3>1, <3>2 DEF Streamed
    <2>2. ASSUME NEW i \in Iterator PROVE IterAt(nodes', st, iter'[i])
      <3>1. IterAt(nodes, st, iter[i]) /\ iter'[i] = iter[i]
        BY <1>3, <1>12 DEF StreamRight
      <3> QED BY <1>1, <1>5, <3>1 DEF IterAt
    <2> QED BY <1>1, <1>5, <1>12, <2>1, <2>2 DEF StreamRight
  <1> QED BY <1>6, <1>7, <1>8, <1>10, <1>11, <1>13, <1>14, <1>15 DEF BufferInv

(* One pointer less: the node it was to, if any, may go with those next to it. *)
LEMMA PointerDropped ==
  ASSUME NEW ns \in Seq(BufferNode), InARow(ns), NEW n \in 0..Len(ns),
         NEW h \in [1..Len(ns) -> Nat], RefsRight(ns, h),
         NEW h2 \in [1..Len(ns) -> Nat], \A m \in 1..Len(ns) : h[m] = h2[m] + One(n, m)
  PROVE  /\ Unshared(ns, n) \in Seq(BufferNode) /\ SameNodes(ns, Unshared(ns, n))
         /\ InARow(Unshared(ns, n)) /\ RefsRight(Unshared(ns, n), h2)
PROOF
  <1>1. CASE n = 0
    <2>1. Unshared(ns, n) = ns
      BY <1>1 DEF Unshared, NullNode
    <2>2. SameNodes(ns, ns)
      BY DEF SameNodes
    <2>3. \A m \in 1..Len(ns) : h[m] = h2[m]
      <3>1. \A m \in 1..Len(ns) : One(n, m) = 0 /\ h2[m] \in Nat
        BY <1>1 DEF One
      <3> QED BY <3>1
    <2>4. RefsRight(ns, h2)
      BY <2>3 DEF RefsRight
    <2> QED BY <2>1, <2>2, <2>4
  <1>2. CASE n # 0
    <2>1. n \in 1..Len(ns)
      BY <1>2
    <2>2. OneMoreHeld(h2, h, n)
      <3>1. \A m \in 1..Len(ns) : One(n, m) = (IF m = n THEN 1 ELSE 0) /\ h2[m] \in Nat
        BY DEF One
      <3>2. DOMAIN h2 = 1..Len(ns)
        OBVIOUS
      <3> QED BY <2>1, <3>1, <3>2 DEF OneMoreHeld
    <2> QED BY <2>1, <2>2, UnsharedNode
  <1> QED BY <1>1, <1>2

(* Steps that only take and drop pointers. *)
LEMMA PointersSafe ==
  ASSUME BufferInv, nodes' \in Seq(BufferNode), SameNodes(nodes, nodes'), RefsRight(nodes', HeldNow'),
         BufferType', WriterAt', Deciding', TakenRight', \A i \in Iterator : IterEnded(i)',
         written' = written,
         NEW st, StreamRight(st), \A i \in Iterator : IterAt(nodes, st, iter'[i])
  PROVE  BufferInv'
PROOF
  <1>1. InARow(nodes)'
    BY DEF BufferInv, InARow, SameNodes
  <1>2. Len(nodes) \in Nat /\ Len(nodes) > 0 /\ Len(nodes') = Len(nodes)
    BY BufferFacts DEF SameNodes
  <1>3. StreamRight(st)'
    <2>1. Streamed(nodes', written', st)
      BY <1>2, NodesKept DEF StreamRight
    <2>2. \A i \in Iterator : IterAt(nodes', st, iter'[i])
      BY <1>2, NodesKept
    <2> QED BY <1>2, <2>1, <2>2 DEF StreamRight
  <1> QED BY <1>1, <1>3 DEF BufferInv

LEMMA DropTailSafe ==
  ASSUME BufferInv, DropTail
  PROVE  BufferInv'
PROOF
  <1>1. PICK L \in Nat : L = Len(nodes) /\ L > 0
    BY BufferFacts
  <1>2. PICK t : t = tail_node
    OBVIOUS
  <1>3. /\ writing \in {"unset", "closing"} /\ nodes' = Unshared(nodes, t)
        /\ tail_node' = (IF writing = "unset" THEN nodes[t].next_ ELSE NullNode)
        /\ writing' = "idle" /\ UNCHANGED <<iter, reading, written, taken>>
    BY <1>2 DEF DropTail
  <1>4. /\ writing = "closing" => t = L
        /\ writing = "unset" => L > 1 /\ t = L - 1
    <2>1. writing = "closing" => t = L
      BY <1>1, <1>2, <1>3 DEF BufferInv, WriterAt
    <2>2. writing = "unset" => L > 1 /\ t = L - 1
      BY <1>1, <1>2, <1>3 DEF BufferInv, WriterAt
    <2> QED BY <1>1, <1>3, <2>1, <2>2
  <1>5. tail_node' = IF writing = "unset" THEN L ELSE 0
    <2>1. writing = "unset" => nodes[t].next_ = t + 1
      BY <1>1, <1>4 DEF BufferInv, InARow
    <2> QED BY <1>3, <1>4, <2>1 DEF NullNode
  <1>6. t \in 1..L
    <2>1. writing = "closing" \/ writing = "unset"
      BY <1>3
    <2> QED BY <1>1, <1>4, <2>1
  <1>7. PICK b : b = iter["begin_"].head_
    OBVIOUS
  <1>8. PICK e : e = iter["end_"].head_
    OBVIOUS
  <1>9. PICK x : x = TailMade
    OBVIOUS
  <1>10. HeldNow = HeldBy(L, t, x, b, e)
    BY <1>1, <1>2, <1>7, <1>8, <1>9 DEF HeldNow
  <1>11. PICK h2 : h2 = HeldBy(L, tail_node', 0, b, e)
    OBVIOUS
  <1>12. \A m \in 1..L : HeldNow[m] = h2[m] + One(t, m)
    <2> SUFFICES ASSUME NEW m \in 1..L PROVE HeldNow[m] = h2[m] + One(t, m)
      OBVIOUS
    <2>1. HeldNow[m] = One(t, m) + One(x, m) + One(b, m) + One(e, m)
      BY <1>10 DEF HeldBy
    <2>2. h2[m] = One(tail_node', m) + One(0, m) + One(b, m) + One(e, m)
      BY <1>11 DEF HeldBy
    <2>3. One(0, m) = 0
      BY DEF One
    <2>4. One(x, m) = One(tail_node', m)
      <3>1. x = tail_node'
        BY <1>1, <1>3, <1>5, <1>9 DEF TailMade, NullNode
      <3> QED BY <3>1
    <2>5. One(t, m) \in {0, 1} /\ One(x, m) \in {0, 1} /\ One(b, m) \in {0, 1} /\ One(e, m) \in {0, 1}
      BY DEF One
    <2> QED BY <2>1, <2>2, <2>3, <2>4, <2>5
  <1>13. h2 \in [1..L -> Nat] /\ HeldNow \in [1..L -> Nat]
    BY <1>10, <1>11, HeldIs
  <1>14. nodes' \in Seq(BufferNode) /\ SameNodes(nodes, nodes') /\ RefsRight(nodes', h2)
    <2>1. nodes \in Seq(BufferNode) /\ InARow(nodes) /\ RefsRight(nodes, HeldNow)
      BY BufferFacts DEF BufferInv
    <2>2. t \in 0..Len(nodes)
      BY <1>1, <1>6
    <2> QED BY <1>1, <1>3, <1>12, <1>13, <2>1, <2>2, PointerDropped
  <1>15. Len(nodes') = L
    BY <1>1, <1>14 DEF SameNodes
  <1>16. RefsRight(nodes', HeldNow')
    <2>1. HeldNow' = h2
      <3>1. TailMade' = 0
        BY <1>3 DEF TailMade, NullNode
      <3> QED BY <1>3, <1>7, <1>8, <1>11, <1>15, <3>1 DEF HeldNow
    <2> QED BY <1>14, <2>1
  <1>17. BufferType'
    BY <1>1, <1>3, <1>5, <1>14, <1>15 DEF BufferInv, BufferType
  <1>18. WriterDone' <=> writing = "closing"
    BY <1>1, <1>3, <1>5 DEF WriterDone, NullNode
  <1>19. WriterAt'
    <2>1. WriterDone <=> writing = "closing"
      BY <1>2, <1>3, <1>6 DEF WriterDone, NullNode
    <2>2. \A m \in 1..L : nodes'[m].has_writer_ <=> (m = L /\ writing # "closing")
      <3>1. \A m \in 1..L : nodes[m].has_writer_ <=> (m = L /\ writing # "closing")
        BY <1>1, <1>3, <2>1 DEF BufferInv, WriterAt
      <3> QED BY <1>1, <1>14, <3>1 DEF SameNodes
    <2> QED BY <1>3, <1>5, <1>15, <1>18, <2>2 DEF WriterAt, NullNode
  <1>20. ASSUME NEW i \in Iterator PROVE IterEnded(i)'
    <2> SUFFICES ASSUME iter[i].head_ = NullNode, reading.op # "gone"
                 PROVE  WriterDone' /\ iter[i].buffer = L /\ iter[i].from = Len(nodes'[L].bytes)
      BY <1>3, <1>15 DEF IterEnded
    <2>1. WriterDone /\ iter[i].buffer = L /\ iter[i].from = Len(nodes[L].bytes)
      BY <1>1 DEF BufferInv, IterEnded
    <2>2. WriterDone'
      BY <1>2, <1>6, <1>18, <2>1 DEF WriterDone, NullNode
    <2>3. nodes'[L].bytes = nodes[L].bytes
      BY <1>1, <1>14 DEF SameNodes
    <2> QED BY <2>1, <2>2, <2>3
  <1>21. PICK st : StreamRight(st)
    BY DEF BufferInv
  <1>22. Deciding'
    <2> SUFFICES ASSUME reading.op \in {"sync", "decide"}
                 PROVE  Deciding'
      BY <1>3 DEF Deciding
    <2>1. reading.it \in Iterator
      BY DEF BufferInv, BufferType
    <2>2. iter[reading.it].head_ # NullNode
      BY DEF BufferInv, Deciding
    <2>3. iter[reading.it].head_ \in 1..L
      BY <1>1, <1>21, <2>1, <2>2 DEF StreamRight, IterAt
    <2> QED BY <1>1, <1>3, <1>14, <2>3 DEF BufferInv, Deciding, SameNodes
  <1>23. TakenRight'
    BY <1>3 DEF BufferInv, TakenRight
  <1>24. \A i \in Iterator : IterAt(nodes, st, iter'[i])
    BY <1>3, <1>21 DEF StreamRight
  <1> QED BY <1>3, <1>14, <1>16, <1>17, <1>19, <1>20, <1>21, <1>22, <1>23, <1>24, PointersSafe

LEMMA NodesSameTogether ==
  ASSUME NEW ns1, NEW ns2, NEW ns3, SameNodes(ns1, ns2), SameNodes(ns2, ns3)
  PROVE  SameNodes(ns1, ns3)
BY DEF SameNodes

(* The reader's steps leave the writer where it is. *)
LEMMA WriterStays ==
  ASSUME WriterAt, SameNodes(nodes, nodes'), UNCHANGED <<tail_node, writing>>
  PROVE  WriterAt' /\ WriterDone' = WriterDone
PROOF
  <1>1. WriterDone' = WriterDone
    BY DEF WriterDone
  <1>2. Len(nodes') = Len(nodes) /\ \A m \in 1..Len(nodes) : nodes'[m].has_writer_ = nodes[m].has_writer_
    BY DEF SameNodes
  <1> QED BY <1>1, <1>2 DEF WriterAt

(* An iterator goes on to the next node: or it has come to the end. *)
LEMMA DecideSafe ==
  ASSUME BufferInv, Decide
  PROVE  BufferInv'
PROOF
  <1>1. PICK L \in Nat : L = Len(nodes) /\ L > 0
    BY BufferFacts
  <1>2. PICK i : i = reading.it
    OBVIOUS
  <1>3. PICK old : old = iter[i].head_
    OBVIOUS
  <1>4. PICK next : next = nodes[old].next_
    OBVIOUS
  <1>5. reading.op = "decide" /\ UNCHANGED <<tail_node, writing, written, taken>>
    BY DEF Decide
  <1>6. i \in Iterator
    BY <1>2, <1>5 DEF BufferInv, BufferType
  <1>7. PICK st : StreamRight(st)
    BY DEF BufferInv
  <1>8. PICK it \in BufferIter : it = iter[i]
    BY <1>6, BufferFacts
  <1>9. IterAt(nodes, st, it)
    BY <1>6, <1>7, <1>8 DEF StreamRight
  <1>10. /\ it.head_ # NullNode /\ it.from = it.to
         /\ ~reading.has_writer => ~nodes[it.head_].has_writer_ /\ it.to = Len(nodes[it.head_].bytes)
    BY <1>2, <1>5, <1>8 DEF BufferInv, Deciding
  <1>11. old = it.head_ /\ old = it.buffer /\ old \in 1..L
    BY <1>1, <1>3, <1>8, <1>9, <1>10 DEF IterAt
  <1>12. next = IF old = L THEN 0 ELSE old + 1
    BY <1>1, <1>4, <1>11 DEF BufferInv, InARow, NullNode
  <1>13. CASE reading.has_writer
    <2>1. reading' = [op |-> "none"] /\ UNCHANGED <<nodes, iter>>
      BY <1>13 DEF Decide, WriterSeen
    <2>2. BufferType'
      <3>1. reading' \in [op : {"none", "gone"}]
        BY <2>1
      <3> QED BY <1>5, <2>1, <3>1 DEF BufferInv, BufferType
    <2>3. Deciding' /\ TakenRight'
      BY <1>5, <2>1 DEF BufferInv, Deciding, TakenRight
    <2>4. \A k \in Iterator : IterAt(nodes, st, iter'[k])
      BY <1>7, <2>1 DEF StreamRight
    <2>5. reading'.op = "none"
      BY <2>1
    <2> QED BY <1>5, <1>7, <2>1, <2>2, <2>3, <2>4, <2>5, LookSafe
  <1>14. CASE ~reading.has_writer
    <2>1. /\ nodes' = Unshared(Shared(nodes, next), old)
          /\ iter' = (IF next = NullNode THEN [iter EXCEPT ![i].head_ = NullNode]
                      ELSE [iter EXCEPT ![i] = Loaded(nodes, next, @.offset_)])
          /\ reading' = [op |-> "look", it |-> i]
      BY <1>2, <1>3, <1>4, <1>14 DEF Decide, WriterSeen, Moved
    <2>2. ~nodes[old].has_writer_ /\ it.to = Len(nodes[old].bytes)
      BY <1>10, <1>11, <1>14
    <2>3. PICK it2 : it2 = IF next = 0 THEN [it EXCEPT !.head_ = 0] ELSE Loaded(nodes, next, it.offset_)
      OBVIOUS
    <2>4. next # 0 => next = old + 1 /\ next \in 1..L /\ old # L
      BY <1>11, <1>12
    <2>5. /\ it2 \in BufferIter /\ it2.head_ = next /\ it2.offset_ = it.offset_
          /\ next = 0 => it2.buffer = it.buffer /\ it2.from = it.from /\ it2.to = it.to
      <3>1. CASE next = 0
        <4>1. it2 = [it EXCEPT !.head_ = 0]
          BY <2>3, <3>1
        <4> QED BY <3>1, <4>1 DEF BufferIter
      <3>2. CASE next # 0
        <4>1. nodes[next] \in BufferNode
          BY <1>1, <2>4, <3>2, BufferFacts
        <4>2. nodes[next].bytes \in Seq(Nat)
          BY <4>1 DEF BufferNode
        <4>3. (IF nodes[next].sync_flag_ THEN 0 ELSE Len(nodes[next].bytes)) \in Nat
          BY <4>2
        <4>4. it2 = [head_ |-> next, buffer |-> next, from |-> 0,
                     to |-> IF nodes[next].sync_flag_ THEN 0 ELSE Len(nodes[next].bytes), offset_ |-> it.offset_]
          BY <2>3, <3>2 DEF Loaded
        <4>5. next \in Nat /\ it.offset_ \in Nat
          BY <2>4, <3>2 DEF BufferIter
        <4> QED BY <3>2, <4>3, <4>4, <4>5 DEF BufferIter
      <3> QED BY <3>1, <3>2
    <2>6. IterAt(nodes, st, it2)
      <3>1. CASE next = 0
        BY <1>9, <2>5, <3>1 DEF IterAt, NullNode
      <3>2. CASE next # 0
        <4>1. /\ it2.head_ = next /\ it2.buffer = next /\ it2.from = 0
              /\ it2.to = (IF nodes[next].sync_flag_ THEN 0 ELSE Len(nodes[next].bytes)) /\ it2.offset_ = it.offset_
          BY <2>3, <3>2 DEF Loaded
        <4>2. nodes[next].bytes \in Seq(Nat) /\ nodes[old].bytes \in Seq(Nat)
          BY <1>1, <1>11, <2>4, <3>2, BufferFacts DEF BufferNode
        <4>3. st[next] = st[old] + Len(nodes[old].bytes) /\ st[next] \in Nat
          <5>1. st[old + 1] = st[old] + Len(nodes[old].bytes)
            BY <1>1, <1>7, <1>11, <2>4, <3>2 DEF StreamRight, Streamed
          <5>2. st[next] \in Nat
            BY <1>1, <1>7, <2>4, <3>2 DEF StreamRight
          <5> QED BY <2>4, <3>2, <5>1, <5>2
        <4>4. it.offset_ = st[old] + it.from /\ it.from = Len(nodes[old].bytes)
          BY <1>9, <1>10, <1>11, <2>2 DEF IterAt
        <4>5. it2.offset_ = st[next] + it2.from
          BY <4>1, <4>3, <4>4
        <4>6. it2.from <= it2.to /\ it2.to <= Len(nodes[next].bytes)
              /\ (~nodes[next].sync_flag_ => it2.to = Len(nodes[next].bytes))
          BY <4>1, <4>2
        <4> QED BY <1>1, <2>4, <3>2, <4>1, <4>5, <4>6 DEF IterAt
      <3> QED BY <3>1, <3>2
    <2>7. iter'[i] = it2 /\ (\A k \in Iterator : k # i => iter'[k] = iter[k]) /\ iter' \in [Iterator -> BufferIter]
      <3>1. iter' = [iter EXCEPT ![i] = it2]
        BY <1>8, <2>1, <2>3 DEF NullNode
      <3> QED BY <1>6, <2>5, <3>1, BufferFacts
    <2>8. \A k \in Iterator : IterAt(nodes, st, iter'[k])
      BY <1>7, <2>6, <2>7 DEF StreamRight
    <2>9. PICK b : b = iter["begin_"].head_
      OBVIOUS
    <2>10. PICK e : e = iter["end_"].head_
      OBVIOUS
    <2>11. PICK b2 : b2 = iter'["begin_"].head_
      OBVIOUS
    <2>12. PICK e2 : e2 = iter'["end_"].head_
      OBVIOUS
    <2>13. \/ b = old /\ b2 = next /\ e2 = e
           \/ e = old /\ e2 = next /\ b2 = b
      <3>1. i = "begin_" \/ i = "end_"
        BY <1>6 DEF Iterator
      <3>2. "begin_" \in Iterator /\ "end_" \in Iterator /\ "begin_" # "end_"
        BY DEF Iterator
      <3>3. CASE i = "begin_"
        BY <1>3, <2>5, <2>7, <2>9, <2>10, <2>11, <2>12, <3>2, <3>3
      <3>4. CASE i = "end_"
        BY <1>3, <2>5, <2>7, <2>9, <2>10, <2>11, <2>12, <3>2, <3>4
      <3> QED BY <3>1, <3>3, <3>4
    <2>14. PICK t : t = tail_node
      OBVIOUS
    <2>15. PICK x : x = TailMade
      OBVIOUS
    <2>16. HeldNow = HeldBy(L, t, x, b, e)
      BY <1>1, <2>9, <2>10, <2>14, <2>15 DEF HeldNow
    <2>17. PICK h1 : h1 = [m \in 1..L |-> HeldNow[m] + One(next, m)]
      OBVIOUS
    <2>18. PICK h2 : h2 = HeldBy(L, t, x, b2, e2)
      OBVIOUS
    <2>19. HeldNow \in [1..L -> Nat] /\ h2 \in [1..L -> Nat]
      BY <2>16, <2>18, HeldIs
    <2>20. h1 \in [1..L -> Nat] /\ \A m \in 1..L : h1[m] = HeldNow[m] + One(next, m)
      <3>1. \A m \in 1..L : HeldNow[m] \in Nat /\ One(next, m) \in Nat
        BY <2>19 DEF One
      <3>2. \A m \in 1..L : HeldNow[m] + One(next, m) \in Nat
        BY <3>1
      <3> QED BY <2>17, <3>2
    <2>21. \A m \in 1..L : h1[m] = h2[m] + One(old, m)
      <3> SUFFICES ASSUME NEW m \in 1..L PROVE h1[m] = h2[m] + One(old, m)
        OBVIOUS
      <3>1. h1[m] = One(t, m) + One(x, m) + One(b, m) + One(e, m) + One(next, m)
        BY <2>16, <2>20 DEF HeldBy
      <3>2. h2[m] = One(t, m) + One(x, m) + One(b2, m) + One(e2, m)
        BY <2>18 DEF HeldBy
      <3>3. /\ One(t, m) \in {0, 1} /\ One(x, m) \in {0, 1} /\ One(b, m) \in {0, 1} /\ One(e, m) \in {0, 1}
            /\ One(next, m) \in {0, 1} /\ One(old, m) \in {0, 1}
        BY DEF One
      <3>4. One(b, m) + One(e, m) + One(next, m) = One(b2, m) + One(e2, m) + One(old, m)
        <4>1. CASE b = old /\ b2 = next /\ e2 = e
          BY <3>3, <4>1
        <4>2. CASE e = old /\ e2 = next /\ b2 = b
          BY <3>3, <4>2
        <4> QED BY <2>13, <4>1, <4>2
      <3>5. One(b2, m) \in {0, 1} /\ One(e2, m) \in {0, 1}
        BY DEF One
      <3> QED BY <3>1, <3>2, <3>3, <3>4, <3>5
    <2>22. PICK ns1 : ns1 = Shared(nodes, next)
      OBVIOUS
    <2>23. nodes \in Seq(BufferNode) /\ InARow(nodes) /\ RefsRight(nodes, HeldNow)
      BY BufferFacts DEF BufferInv
    <2>24. ns1 \in Seq(BufferNode) /\ SameNodes(nodes, ns1) /\ InARow(ns1) /\ RefsRight(ns1, h1)
      <3>1. CASE next = 0
        <4>1. ns1 = nodes
          BY <2>22, <3>1 DEF Shared, NullNode
        <4>2. \A m \in 1..L : h1[m] = HeldNow[m]
          <5>1. \A m \in 1..L : One(next, m) = 0 /\ HeldNow[m] \in Nat
            BY <2>19, <3>1 DEF One
          <5> QED BY <2>20, <5>1
        <4>3. SameNodes(nodes, nodes)
          BY DEF SameNodes
        <4>4. RefsRight(nodes, h1)
          BY <1>1, <2>23, <4>2 DEF RefsRight
        <4> QED BY <2>23, <4>1, <4>3, <4>4
      <3>2. CASE next # 0
        <4>1. next \in 1..L /\ next = old + 1 /\ next # 0
          BY <2>4, <3>2
        <4>2. ~nodes[next].deleted
          <5>1. \A m \in 1..L : /\ nodes[m].ref_cnt_ = HeldNow[m] + NextTo(nodes, m)
                                /\ (nodes[m].deleted <=> nodes[m].ref_cnt_ = 0)
                                /\ HeldNow[m] \in Nat
            BY <1>1, <2>19, <2>23 DEF RefsRight
          <5>2. \A m \in 1..L : NextTo(nodes, m) \in {0, 1}
            BY DEF NextTo
          <5>3. HeldNow[old] >= 1
            <6>1. HeldNow[old] = One(t, old) + One(x, old) + One(b, old) + One(e, old)
              BY <1>11, <2>16 DEF HeldBy
            <6>2. /\ One(t, old) \in {0, 1} /\ One(x, old) \in {0, 1} /\ One(b, old) \in {0, 1}
                  /\ One(e, old) \in {0, 1} /\ (One(b, old) = 1 \/ One(e, old) = 1)
              BY <2>13 DEF One
            <6> QED BY <6>1, <6>2
          <5>4. ~nodes[old].deleted
            BY <1>11, <5>1, <5>2, <5>3
          <5>5. NextTo(nodes, next) = 1
            <6>1. next > 1 /\ next - 1 = old
              BY <1>11, <4>1
            <6> QED BY <5>4, <6>1 DEF NextTo
          <5> QED BY <4>1, <5>1, <5>5
        <4>3. OneMoreHeld(HeldNow, h1, next)
          <5>1. \A m \in 1..L : One(next, m) = (IF m = next THEN 1 ELSE 0) /\ HeldNow[m] \in Nat
            BY <2>19 DEF One
          <5>2. DOMAIN HeldNow = 1..L
            BY <2>19
          <5> QED BY <2>20, <4>1, <5>1, <5>2 DEF OneMoreHeld
        <4> QED BY <1>1, <2>19, <2>20, <2>22, <2>23, <4>1, <4>2, <4>3, SharedNode
      <3> QED BY <3>1, <3>2
    <2>25. Len(ns1) = L
      BY <1>1, <2>24 DEF SameNodes
    <2>26. nodes' \in Seq(BufferNode) /\ SameNodes(ns1, nodes') /\ RefsRight(nodes', h2)
      <3>1. old \in 0..Len(ns1)
        BY <1>11, <2>25
      <3> QED BY <2>1, <2>19, <2>20, <2>21, <2>22, <2>24, <2>25, <3>1, PointerDropped
    <2>27. SameNodes(nodes, nodes') /\ Len(nodes') = L
      BY <1>1, <2>24, <2>26, NodesSameTogether DEF SameNodes
    <2>28. RefsRight(nodes', HeldNow')
      <3>1. HeldNow' = h2
        BY <1>1, <1>5, <2>11, <2>12, <2>14, <2>15, <2>18, <2>27 DEF HeldNow, TailMade
      <3> QED BY <2>26, <3>1
    <2>29. BufferType'
      <3>1. reading' \in [op : {"look"}, it : Iterator]
        BY <1>6, <2>1
      <3> QED BY <1>1, <1>5, <2>7, <2>26, <2>27, <3>1 DEF BufferInv, BufferType
    <2>30. WriterAt' /\ WriterDone' = WriterDone
      BY <1>5, <2>27, WriterStays DEF BufferInv
    <2>31. Deciding'
      BY <2>1 DEF Deciding
    <2>32. TakenRight'
      <3>1. \A k \in Iterator : iter'[k].offset_ = iter[k].offset_
        BY <1>8, <2>5, <2>7
      <3> QED BY <1>5, <3>1 DEF BufferInv, TakenRight, Iterator
    <2>33. nodes'[L].bytes = nodes[L].bytes
      BY <1>1, <2>27 DEF SameNodes
    <2>34. ASSUME NEW k \in Iterator PROVE IterEnded(k)'
      <3> SUFFICES ASSUME iter'[k].head_ = NullNode
                   PROVE  WriterDone' /\ iter'[k].buffer = L /\ iter'[k].from = Len(nodes'[L].bytes)
        BY <2>27 DEF IterEnded
      <3>1. CASE k = i
        <4>1. next = 0 /\ old = L
          BY <1>11, <1>12, <2>5, <2>7, <3>1 DEF NullNode
        <4>2. it2.buffer = L /\ it2.from = Len(nodes[L].bytes)
          BY <1>10, <1>11, <2>2, <2>5, <4>1
        <4>3. WriterDone
          <5>1. nodes[L].has_writer_ <=> \/ L = L /\ ~WriterDone
                                         \/ L = tail_node /\ writing = "linked"
            BY <1>1, <1>11, <4>1 DEF BufferInv, WriterAt
          <5> QED BY <2>2, <4>1, <5>1
        <4> QED BY <2>7, <2>30, <2>33, <3>1, <4>2, <4>3
      <3>2. CASE k # i
        <4>1. iter'[k] = iter[k]
          BY <2>7, <3>2
        <4>2. WriterDone /\ iter[k].buffer = L /\ iter[k].from = Len(nodes[L].bytes)
          BY <1>1, <1>5, <4>1 DEF BufferInv, IterEnded
        <4> QED BY <2>30, <2>33, <4>1, <4>2
      <3> QED BY <3>1, <3>2
    <2> QED BY <1>5, <1>7, <2>8, <2>26, <2>27, <2>28, <2>29, <2>30, <2>31, <2>32, <2>34, PointersSafe
  <1> QED BY <1>13, <1>14

LEMMA DestroyReaderSafe ==
  ASSUME BufferInv, DestroyReader
  PROVE  BufferInv'
PROOF
  <1>1. PICK L \in Nat : L = Len(nodes) /\ L > 0
    BY BufferFacts
  <1>2. PICK b : b = iter["begin_"].head_
    OBVIOUS
  <1>3. PICK e : e = iter["end_"].head_
    OBVIOUS
  <1>4. /\ nodes' = Unshared(Unshared(nodes, e), b)
        /\ iter' = [i \in DOMAIN iter |-> [iter[i] EXCEPT !.head_ = NullNode]]
        /\ reading' = [op |-> "gone"] /\ UNCHANGED <<tail_node, writing, written, taken>>
    BY <1>2, <1>3 DEF DestroyReader
  <1>5. PICK st : StreamRight(st)
    BY DEF BufferInv
  <1>6. b \in 0..L /\ e \in 0..L
    <2>1. \A i \in Iterator : iter[i].head_ \in 0..L
      BY <1>1, <1>5 DEF StreamRight, IterAt, NullNode
    <2> QED BY <1>2, <1>3, <2>1 DEF Iterator
  <1>7. ASSUME NEW i \in Iterator
        PROVE  /\ iter'[i] \in BufferIter /\ iter'[i].head_ = 0 /\ iter'[i].buffer = iter[i].buffer
               /\ iter'[i].from = iter[i].from /\ iter'[i].to = iter[i].to /\ iter'[i].offset_ = iter[i].offset_
    <2>1. iter[i] \in BufferIter /\ i \in DOMAIN iter
      BY BufferFacts
    <2>2. iter'[i] = [iter[i] EXCEPT !.head_ = 0]
      BY <1>4, <2>1 DEF NullNode
    <2> QED BY <2>1, <2>2 DEF BufferIter
  <1>8. iter' \in [Iterator -> BufferIter]
    <2>1. DOMAIN iter = Iterator
      BY BufferFacts
    <2>2. \A i \in Iterator : [iter[i] EXCEPT !.head_ = NullNode] \in BufferIter
      BY BufferFacts DEF BufferIter, NullNode
    <2> QED BY <1>4, <2>1, <2>2
  <1>9. \A i \in Iterator : IterAt(nodes, st, iter'[i])
    BY <1>5, <1>7 DEF StreamRight, IterAt, NullNode
  <1>10. PICK t : t = tail_node
    OBVIOUS
  <1>11. PICK x : x = TailMade
    OBVIOUS
  <1>12. HeldNow = HeldBy(L, t, x, b, e)
    BY <1>1, <1>2, <1>3, <1>10, <1>11 DEF HeldNow
  <1>13. PICK h1 : h1 = HeldBy(L, t, x, b, 0)
    OBVIOUS
  <1>14. PICK h2 : h2 = HeldBy(L, t, x, 0, 0)
    OBVIOUS
  <1>15. HeldNow \in [1..L -> Nat] /\ h1 \in [1..L -> Nat] /\ h2 \in [1..L -> Nat]
    BY <1>12, <1>13, <1>14, HeldIs
  <1>16. \A m \in 1..L : HeldNow[m] = h1[m] + One(e, m) /\ h1[m] = h2[m] + One(b, m)
    <2> SUFFICES ASSUME NEW m \in 1..L PROVE HeldNow[m] = h1[m] + One(e, m) /\ h1[m] = h2[m] + One(b, m)
      OBVIOUS
    <2>1. HeldNow[m] = One(t, m) + One(x, m) + One(b, m) + One(e, m)
      BY <1>12 DEF HeldBy
    <2>2. h1[m] = One(t, m) + One(x, m) + One(b, m) + One(0, m)
      BY <1>13 DEF HeldBy
    <2>3. h2[m] = One(t, m) + One(x, m) + One(0, m) + One(0, m)
      BY <1>14 DEF HeldBy
    <2>4. /\ One(t, m) \in {0, 1} /\ One(x, m) \in {0, 1} /\ One(b, m) \in {0, 1} /\ One(e, m) \in {0, 1}
          /\ One(0, m) = 0
      BY DEF One
    <2> QED BY <2>1, <2>2, <2>3, <2>4
  <1>17. nodes \in Seq(BufferNode) /\ InARow(nodes) /\ RefsRight(nodes, HeldNow)
    BY BufferFacts DEF BufferInv
  <1>18. PICK ns1 : ns1 = Unshared(nodes, e)
    OBVIOUS
  <1>19. ns1 \in Seq(BufferNode) /\ SameNodes(nodes, ns1) /\ InARow(ns1) /\ RefsRight(ns1, h1)
    <2>1. e \in 0..Len(nodes) /\ \A m \in 1..Len(nodes) : HeldNow[m] = h1[m] + One(e, m)
      BY <1>1, <1>6, <1>16
    <2> QED BY <1>1, <1>15, <1>17, <1>18, <2>1, PointerDropped
  <1>20. Len(ns1) = L
    BY <1>1, <1>19 DEF SameNodes
  <1>21. nodes' \in Seq(BufferNode) /\ SameNodes(ns1, nodes') /\ RefsRight(nodes', h2)
    <2>1. b \in 0..Len(ns1) /\ \A m \in 1..Len(ns1) : h1[m] = h2[m] + One(b, m)
      BY <1>6, <1>16, <1>20
    <2> QED BY <1>4, <1>15, <1>18, <1>19, <1>20, <2>1, PointerDropped
  <1>22. SameNodes(nodes, nodes') /\ Len(nodes') = L
    BY <1>1, <1>19, <1>21, NodesSameTogether DEF SameNodes
  <1>23. RefsRight(nodes', HeldNow')
    <2>1. iter'["begin_"].head_ = 0 /\ iter'["end_"].head_ = 0
      BY <1>7 DEF Iterator
    <2>2. HeldNow' = h2
      BY <1>1, <1>4, <1>10, <1>11, <1>14, <1>22, <2>1 DEF HeldNow, TailMade
    <2> QED BY <1>21, <2>2
  <1>24. BufferType'
    <2>1. reading' \in [op : {"none", "gone"}]
      BY <1>4
    <2> QED BY <1>1, <1>4, <1>8, <1>21, <1>22, <2>1 DEF BufferInv, BufferType
  <1>25. WriterAt'
    BY <1>4, <1>22, WriterStays DEF BufferInv
  <1>26. Deciding' /\ \A i \in Iterator : IterEnded(i)'
    BY <1>4 DEF Deciding, IterEnded
  <1>27. TakenRight'
    <2>1. iter'["begin_"].offset_ = iter["begin_"].offset_ /\ iter'["end_"].offset_ = iter["end_"].offset_
      BY <1>7 DEF Iterator
    <2> QED BY <1>4, <2>1 DEF BufferInv, TakenRight
  <1> QED BY <1>4, <1>5, <1>9, <1>21, <1>22, <1>23, <1>24, <1>25, <1>26, <1>27, PointersSafe

LEMMA NextBuffer == BufferInv /\ [BufferNext]_bufferVars => BufferInv'
PROOF
  <1> SUFFICES ASSUME BufferInv, [BufferNext]_bufferVars PROVE BufferInv'
    OBVIOUS
  <1>1. MaxBytes \in Nat
    BY BufferAssumption
  <1>2. DOMAIN iter = Iterator
    BY BufferFacts
  <1>3. CASE \E n \in 1..MaxBytes : AppendInPlace(n) \/ AppendSlice(n)
    BY <1>1, <1>3, AppendInPlaceSafe, AppendSliceSafe
  <1>4. CASE AppendAlloc
    BY <1>4, AppendAllocSafe
  <1>5. CASE LeaveTail
    BY <1>5, LeaveTailSafe
  <1>6. CASE DropTail
    BY <1>6, DropTailSafe
  <1>7. CASE \E i \in DOMAIN iter : StartReading(i)
    BY <1>2, <1>7, StartReadingSafe
  <1>8. CASE TakeBytes
    BY <1>8, TakeBytesSafe
  <1>9. CASE NothingToRead
    BY <1>9, NothingToReadSafe
  <1>10. CASE LoadHasWriter
    BY <1>10, LoadHasWriterSafe
  <1>11. CASE SyncWithWriter
    BY <1>11, SyncWithWriterSafe
  <1>12. CASE Decide
    BY <1>12, DecideSafe
  <1>13. CASE DestroyReader
    BY <1>13, DestroyReaderSafe
  <1>14. CASE UNCHANGED bufferVars
    <2>1. UNCHANGED <<nodes, tail_node, writing, iter, reading, written, taken>>
      BY <1>14 DEF bufferVars
    <2>2. PICK st : StreamRight(st)
      BY DEF BufferInv
    <2>3. \A k \in Iterator : IterAt(nodes, st, iter'[k])
      BY <2>1, <2>2 DEF StreamRight
    <2>4. BufferType' /\ Deciding' /\ TakenRight'
      BY <2>1 DEF BufferInv, BufferType, Deciding, TakenRight
    <2> QED BY <2>1, <2>2, <2>3, <2>4, LookSafe
  <1> QED BY <1>3, <1>4, <1>5, <1>6, <1>7, <1>8, <1>9, <1>10, <1>11, <1>12, <1>13, <1>14 DEF BufferNext

LEMMA StreamIsWholeThen == BufferInv => StreamIsWhole
PROOF
  <1> SUFFICES ASSUME BufferInv PROVE StreamIsWhole
    OBVIOUS
  <1>1. PICK L \in Nat : L = Len(nodes) /\ L > 0
    BY BufferFacts
  <1>2. PICK st : StreamRight(st)
    BY DEF BufferInv
  <1>3. "end_" \in Iterator /\ "begin_" \in Iterator
    BY DEF Iterator
  <1>4. PICK it \in BufferIter : it = iter["end_"]
    BY <1>3, BufferFacts
  <1>5. /\ it.buffer \in 1..L /\ it.from <= it.to /\ it.to <= Len(nodes[it.buffer].bytes)
        /\ it.offset_ = st[it.buffer] + it.from
    BY <1>1, <1>2, <1>3, <1>4 DEF StreamRight, IterAt
  <1>6. /\ st[it.buffer] \in Nat /\ it.from \in Nat /\ it.to \in Nat
        /\ nodes[it.buffer].bytes \in Seq(Nat) /\ written \in Nat
    <2>1. st[it.buffer] \in Nat
      BY <1>1, <1>2, <1>5 DEF StreamRight
    <2>2. it.from \in Nat /\ it.to \in Nat /\ written \in Nat
      BY DEF BufferIter, BufferInv, BufferType
    <2>3. nodes[it.buffer].bytes \in Seq(Nat)
      BY <1>1, <1>5, BufferFacts DEF BufferNode
    <2> QED BY <2>1, <2>2, <2>3
  <1>7. InStreamOrder
    <2>1. st[it.buffer] + Len(nodes[it.buffer].bytes) <= written
      BY <1>1, <1>2, <1>5 DEF StreamRight, Streamed
    <2>2. it.offset_ <= written
      <3>1. Len(nodes[it.buffer].bytes) \in Nat
        BY <1>6
      <3> QED BY <1>5, <1>6, <2>1, <3>1
    <2> QED BY <1>4, <2>2 DEF BufferInv, TakenRight, InStreamOrder
  <1>8. EndIsTrue
    <2> SUFFICES ASSUME reading.op # "gone", it.head_ = NullNode
                 PROVE  WriterDone /\ it.offset_ = written
      BY <1>4 DEF EndIsTrue, WriterDone
    <2>1. WriterDone /\ it.buffer = L /\ it.from = Len(nodes[L].bytes)
      BY <1>1, <1>3, <1>4 DEF BufferInv, IterEnded
    <2>2. written = st[L] + Len(nodes[L].bytes)
      BY <1>1, <1>2 DEF StreamRight, Streamed
    <2> QED BY <1>5, <2>1, <2>2
  <1>9. PointersCounted
    <2> SUFFICES ASSUME NEW n \in 1..L
                 PROVE  /\ nodes[n].ref_cnt_ = Pointers(n)
                             + (IF writing \in {"linked", "unset"} /\ n = Len(nodes) THEN 1 ELSE 0)
                        /\ nodes[n].deleted <=> nodes[n].ref_cnt_ = 0
      BY <1>1, BufferFacts DEF PointersCounted
    <2>1. nodes[n].ref_cnt_ = HeldNow[n] + NextTo(nodes, n) /\ (nodes[n].deleted <=> nodes[n].ref_cnt_ = 0)
      BY <1>1 DEF BufferInv, RefsRight
    <2>2. HeldNow[n] = One(tail_node, n) + One(TailMade, n) + One(iter["begin_"].head_, n)
                       + One(iter["end_"].head_, n)
      BY <1>1 DEF HeldNow, HeldBy
    <2>3. One(TailMade, n) = IF writing \in {"linked", "unset"} /\ n = Len(nodes) THEN 1 ELSE 0
      <3>1. n # 0
        OBVIOUS
      <3> QED BY <3>1 DEF One, TailMade, NullNode
    <2>4. NextTo(nodes, n) = IF \E m \in DOMAIN nodes : ~nodes[m].deleted /\ nodes[m].next_ = n THEN 1 ELSE 0
      <3>1. DOMAIN nodes = 1..L
        BY <1>1, BufferFacts
      <3>2. \A m \in 1..L : nodes[m].next_ = IF m = L THEN 0 ELSE m + 1
        BY <1>1 DEF BufferInv, InARow, NullNode
      <3>3. (\E m \in 1..L : ~nodes[m].deleted /\ nodes[m].next_ = n) <=> (n > 1 /\ ~nodes[n - 1].deleted)
        <4>1. ASSUME NEW m \in 1..L, ~nodes[m].deleted, nodes[m].next_ = n
              PROVE  n > 1 /\ ~nodes[n - 1].deleted
          <5>1. m # L /\ n = m + 1
            BY <3>2, <4>1
          <5>2. n > 1 /\ n - 1 = m
            BY <5>1
          <5> QED BY <4>1, <5>2
        <4>2. ASSUME n > 1, ~nodes[n - 1].deleted
              PROVE  \E m \in 1..L : ~nodes[m].deleted /\ nodes[m].next_ = n
          <5>1. n - 1 \in 1..L /\ n - 1 # L /\ n - 1 + 1 = n
            BY <4>2
          <5>2. nodes[n - 1].next_ = n
            BY <3>2, <5>1
          <5> QED BY <4>2, <5>1, <5>2
        <4> QED BY <4>1, <4>2
      <3> QED BY <3>1, <3>3 DEF NextTo
    <2>5. Pointers(n) = One(tail_node, n) + NextTo(nodes, n) + One(iter["begin_"].head_, n)
                        + One(iter["end_"].head_, n)
      BY <2>4 DEF Pointers, One
    <2>6. /\ One(tail_node, n) \in {0, 1} /\ One(TailMade, n) \in {0, 1} /\ One(iter["begin_"].head_, n) \in {0, 1}
          /\ One(iter["end_"].head_, n) \in {0, 1} /\ NextTo(nodes, n) \in {0, 1}
      BY DEF One, NextTo
    <2>7. HeldNow[n] + NextTo(nodes, n) = Pointers(n) + One(TailMade, n)
      BY <2>2, <2>5, <2>6
    <2> QED BY <2>1, <2>3, <2>7
  <1> QED BY <1>7, <1>8, <1>9 DEF StreamIsWhole

(* A byte stream through a ChainBuffer is whole, for any size of the buffers, *)
(* any number of nodes and of bytes, and any steps of the writer between the  *)
(* reader's: no byte is skipped or read twice, the end is the end, and a node *)
(* is deleted exactly when nobody points to it.                              *)
THEOREM BufferIsWhole == BufferSpec => []StreamIsWhole
PROOF
  <1> QED BY InitBuffer, NextBuffer, StreamIsWholeThen, PTL DEF BufferSpec

-----------------------------------------------------------------------------
(* KHeapCalls, for any arity, nodes and keys                                  *)
-----------------------------------------------------------------------------

(* An item is as it was given, its place in the array is found by division, and *)
(* FixUp and FixDown move the items of one path between the top and the bottom  *)
(* by one place each.                                                         *)

LEMMA DivisionIs ==
  ASSUME NEW k \in Nat \ {0}, NEW a \in Nat
  PROVE  a \div k \in Nat /\ a \div k <= a
PROOF OBVIOUS

LEMMA DivisionAlone ==
  ASSUME NEW k \in Nat \ {0}, NEW a \in Nat, NEW d \in Nat
  PROVE  a \div k = d <=> k * d <= a /\ a < k * d + k
PROOF OBVIOUS

LEMMA DivisionGrows ==
  ASSUME NEW k \in Nat \ {0}, NEW a \in Nat, NEW b \in Nat, a <= b
  PROVE  a \div k <= b \div k
PROOF OBVIOUS

LEMMA ParentIs ==
  ASSUME NEW c \in Nat, c > 1
  PROVE  Parent(c) \in Nat /\ Parent(c) > 0 /\ Parent(c) < c
PROOF
  <1>1. PICK a \in Nat : a = c - 2
    OBVIOUS
  <1>2. a \div Arity \in Nat /\ a \div Arity <= a
    BY ArityAssumption, DivisionIs
  <1>3. Parent(c) = a \div Arity + 1
    BY <1>1 DEF Parent
  <1> QED BY <1>1, <1>2, <1>3

LEMMA ParentGrows ==
  ASSUME NEW c \in Nat, NEW d \in Nat, c > 1, c <= d
  PROVE  Parent(c) <= Parent(d)
PROOF
  <1>1. PICK a \in Nat : a = c - 2
    OBVIOUS
  <1>2. PICK b \in Nat : b = d - 2
    OBVIOUS
  <1>3. a \div Arity <= b \div Arity
    BY <1>1, <1>2, ArityAssumption, DivisionGrows
  <1>4. a \div Arity \in Nat /\ b \div Arity \in Nat
    BY ArityAssumption, DivisionIs
  <1>5. Parent(c) = a \div Arity + 1 /\ Parent(d) = b \div Arity + 1
    BY <1>1, <1>2 DEF Parent
  <1> QED BY <1>3, <1>4, <1>5

LEMMA ChildrenAre ==
  ASSUME NEW h, Len(h) \in Nat, NEW q \in Nat, q > 0
  PROVE  Children(h, q) = {c \in 2..Len(h) : Parent(c) = q}
PROOF
  <1>1. PICK k \in Nat \ {0} : k = Arity
    BY ArityAssumption
  <1>2. PICK d \in Nat : d = q - 1
    OBVIOUS
  <1>3. ASSUME NEW c \in Int
        PROVE  c \in (q - 1) * Arity + 2 .. q * Arity + 1 <=> (c >= 2 /\ Parent(c) = q)
    <2>1. (q - 1) * Arity = k * d /\ q * Arity = k * d + k /\ k * d \in Nat
      BY <1>1, <1>2
    <2>2. CASE c >= 2
      <3>1. PICK a \in Nat : a = c - 2
        BY <2>2
      <3>2. a \div k = d <=> k * d <= a /\ a < k * d + k
        BY DivisionAlone
      <3>3. Parent(c) = a \div k + 1 /\ a \div k \in Nat
        BY <1>1, <3>1, DivisionIs DEF Parent
      <3>4. Parent(c) = q <=> a \div k = d
        BY <1>2, <3>3
      <3>5. c \in k * d + 2 .. k * d + k + 1 <=> k * d <= a /\ a < k * d + k
        BY <2>1, <3>1
      <3> QED BY <2>1, <2>2, <3>2, <3>4, <3>5
    <2>3. CASE ~(c >= 2)
      BY <2>1, <2>3
    <2> QED BY <2>2, <2>3
  <1>4. Children(h, q) = {c \in (q - 1) * Arity + 2 .. q * Arity + 1 : c <= Len(h)}
    BY DEF Children
  <1>5. \A c \in Int : c \in Children(h, q) <=> c \in 2..Len(h) /\ Parent(c) = q
    BY <1>3, <1>4
  <1>6. Children(h, q) \subseteq Int
    BY <1>4
  <1> QED BY <1>5, <1>6

ItemsOf(Nodes) == [key : Int, node : Nodes]

(* No node is twice in the heap. *)
Alone(h) == \A p, q \in 1..Len(h) : h[p].node = h[q].node => p = q

SameItems(h, r) == Len(r) = Len(h) /\ ToSet(r) = ToSet(h) /\ (Alone(h) => Alone(r))

(* r is h with the item of pi[q] at q. *)
Permuted(h, r, pi, n) ==
  /\ \A q \in 1..n : pi[q] \in 1..n /\ r[q] = h[pi[q]]
  /\ \A q1, q2 \in 1..n : pi[q1] = pi[q2] => q1 = q2
  /\ \A x \in 1..n : \E q \in 1..n : pi[q] = x

LEMMA IsSequence ==
  ASSUME NEW I, NEW n \in Nat, NEW f \in [1..n -> I]
  PROVE  f \in Seq(I) /\ Len(f) = n /\ DOMAIN f = 1..n
PROOF
  <1>1. f \in Seq(I)
    BY SeqDef
  <1>2. DOMAIN f = 1..n
    OBVIOUS
  <1>3. DOMAIN f = 1..Len(f) /\ Len(f) \in Nat
    BY <1>1, LenProperties
  <1> QED BY <1>1, <1>2, <1>3

LEMMA ItemsAre ==
  ASSUME NEW I, NEW h \in Seq(I)
  PROVE  ToSet(h) = {h[q] : q \in 1..Len(h)}
PROOF BY LenProperties DEF ToSet

LEMMA MovedItems ==
  ASSUME NEW I, NEW h \in Seq(I), NEW n \in Nat, n = Len(h), NEW pi, NEW r,
         DOMAIN r = 1..n, r = [q \in 1..n |-> r[q]], Permuted(h, r, pi, n)
  PROVE  r \in Seq(I) /\ SameItems(h, r)
PROOF
  <1>1. \A q \in 1..n : h[q] \in I
    BY ElementOfSeq
  <1>2. \A q \in 1..n : r[q] \in I
    BY <1>1 DEF Permuted
  <1>3. r \in Seq(I) /\ Len(r) = n
    <2>1. r \in [1..n -> I]
      BY <1>2
    <2> QED BY <2>1, IsSequence
  <1>4. ToSet(r) = ToSet(h)
    <2>1. ToSet(r) = {r[q] : q \in 1..n} /\ ToSet(h) = {h[q] : q \in 1..n}
      BY <1>3, ItemsAre
    <2>2. \A q \in 1..n : \E x \in 1..n : r[q] = h[x]
      BY DEF Permuted
    <2>3. \A x \in 1..n : \E q \in 1..n : r[q] = h[x]
      <3>1. SUFFICES ASSUME NEW x \in 1..n PROVE \E q \in 1..n : r[q] = h[x]
        OBVIOUS
      <3>2. PICK q \in 1..n : pi[q] = x
        BY DEF Permuted
      <3>3. r[q] = h[x]
        BY <3>2 DEF Permuted
      <3> QED BY <3>3
    <2>4. ASSUME NEW e \in {r[q] : q \in 1..n} PROVE e \in {h[q] : q \in 1..n}
      BY <2>2, <2>4
    <2>5. ASSUME NEW e \in {h[q] : q \in 1..n} PROVE e \in {r[q] : q \in 1..n}
      BY <2>3, <2>5
    <2> QED BY <2>1, <2>4, <2>5
  <1>5. ASSUME Alone(h) PROVE Alone(r)
    <2>1. \A p, q \in 1..n : h[p].node = h[q].node => p = q
      BY <1>5 DEF Alone
    <2>2. ASSUME NEW p \in 1..n, NEW q \in 1..n, r[p].node = r[q].node PROVE p = q
      <3>1. r[p] = h[pi[p]] /\ r[q] = h[pi[q]] /\ pi[p] \in 1..n /\ pi[q] \in 1..n
        BY DEF Permuted
      <3>2. pi[p] = pi[q]
        BY <2>1, <2>2, <3>1
      <3> QED BY <3>2 DEF Permuted
    <2> QED BY <1>3, <2>2 DEF Alone
  <1> QED BY <1>3, <1>4, <1>5 DEF SameItems

(* Sets of naturals have a least element, and a greatest below a bound. *)
LEMMA LeastPosition ==
  ASSUME NEW S \in SUBSET Nat, S # {}
  PROVE  \E n \in S : \A m \in S : n <= m
PROOF
  <1>1. PICK R : R = {p \in Nat \X Nat : p[1] < p[2]}
    OBVIOUS
  <1>2. IsWellFoundedOn(R, Nat)
    BY <1>1, NatLessThanWellFounded, Zenon DEF OpToRel
  <1>3. PICK n \in S : \A m \in S : <<m, n>> \notin R
    <2>1. S \subseteq Nat
      OBVIOUS
    <2> QED BY <1>2, <2>1, WFMin
  <1>4. \A m \in S : ~(m < n)
    BY <1>1, <1>3
  <1> QED BY <1>4

LEMMA GreatestPosition ==
  ASSUME NEW Nodes \in Nat, NEW S \in SUBSET 1..Nodes, S # {}
  PROVE  \E n \in S : \A m \in S : m <= n
PROOF
  <1>1. PICK T : T = {Nodes - m : m \in S}
    OBVIOUS
  <1>2. T \subseteq Nat /\ T # {}
    <2>1. \A m \in 1..Nodes : Nodes - m \in Nat
      OBVIOUS
    <2> QED BY <1>1, <2>1
  <1>3. PICK t \in T : \A u \in T : t <= u
    BY <1>2, LeastPosition
  <1>4. PICK n \in S : t = Nodes - n
    BY <1>1, <1>3
  <1>5. \A m \in S : Nodes - n <= Nodes - m
    BY <1>1, <1>3, <1>4
  <1>6. \A m \in S : m \in Nat
    OBVIOUS
  <1> QED BY <1>4, <1>5, <1>6

-----------------------------------------------------------------------------
(* Paths *)

(* Positions of which each is the parent of the next. *)
HeapPath(S) == \A x, y \in S : x < y => Parent(y) \in S /\ Parent(y) >= x

LEMMA PathAlone ==
  ASSUME NEW S \in SUBSET (Nat \ {0}), HeapPath(S), NEW c \in S, NEW d \in S, c > 1, d > 1,
         Parent(c) = Parent(d)
  PROVE  c = d
PROOF
  <1>1. Parent(c) \in Nat /\ Parent(c) < c /\ Parent(d) < d
    BY ParentIs
  <1>2. ~(c < d)
    BY <1>1 DEF HeapPath
  <1>3. ~(d < c)
    BY <1>1 DEF HeapPath
  <1> QED BY <1>2, <1>3

LEMMA PathNext ==
  ASSUME NEW S \in SUBSET (Nat \ {0}), HeapPath(S), NEW x \in S, NEW y \in S, x < y
  PROVE  \E c \in S : c > 1 /\ Parent(c) = x
PROOF
  <1>1. PICK c \in {z \in S : x < z} : \A z \in {z \in S : x < z} : c <= z
    <2>1. {z \in S : x < z} \in SUBSET Nat /\ {z \in S : x < z} # {}
      OBVIOUS
    <2> QED BY <2>1, LeastPosition
  <1>2. c \in S /\ x < c /\ c > 1 /\ c \in Nat /\ x \in Nat
    BY <1>1
  <1>3. Parent(c) \in S /\ Parent(c) >= x /\ Parent(c) \in Nat /\ Parent(c) < c
    BY <1>2, ParentIs DEF HeapPath
  <1>4. ~(x < Parent(c))
    BY <1>1, <1>2, <1>3
  <1> QED BY <1>2, <1>3, <1>4

(* A path is known from below, each having a next one up to the last; ... *)
LEMMA PathFromLast ==
  ASSUME NEW n \in Nat, NEW S \in SUBSET 1..n, NEW p \in S,
         \A q \in S : q # p => \E c \in S : c > 1 /\ Parent(c) = q
  PROVE  HeapPath(S) /\ \A q \in S : q <= p
PROOF
  <1>0. S \subseteq Nat \ {0}
    OBVIOUS
  <1>1. \A q \in S : q <= p
    <2>1. PICK g \in S : \A q \in S : q <= g
      BY GreatestPosition
    <2>2. ASSUME g # p PROVE FALSE
      <3>1. PICK c \in S : c > 1 /\ Parent(c) = g
        BY <2>2
      <3>2. g < c
        BY <1>0, <3>1, ParentIs
      <3> QED BY <1>0, <2>1, <3>2
    <2> QED BY <2>1, <2>2
  <1>2. PICK B : B = {x \in S : \E y \in S : x < y /\ ~(Parent(y) \in S /\ Parent(y) >= x)}
    OBVIOUS
  <1>3. ASSUME B # {} PROVE FALSE
    <2>1. PICK x \in B : \A z \in B : z <= x
      <3>1. B \in SUBSET 1..n
        BY <1>2
      <3> QED BY <1>3, <3>1, GreatestPosition
    <2>2. PICK y \in S : x < y /\ ~(Parent(y) \in S /\ Parent(y) >= x)
      BY <1>2, <2>1
    <2>3. x \in S /\ x # p /\ x \in Nat /\ y \in Nat
      BY <1>0, <1>1, <1>2, <2>1, <2>2
    <2>4. PICK c \in S : c > 1 /\ Parent(c) = x
      BY <2>3
    <2>5. c \in Nat /\ x < c
      BY <1>0, <2>4, ParentIs
    <2>6. c \notin B
      BY <2>1, <2>3, <2>5
    <2>7. CASE y = c
      BY <2>2, <2>3, <2>4, <2>7
    <2>8. CASE c < y
      <3>1. Parent(y) \in S /\ Parent(y) >= c
        BY <1>2, <2>6, <2>8
      <3>2. Parent(y) \in Nat
        BY <1>0, <3>1
      <3> QED BY <2>2, <2>3, <2>5, <3>1, <3>2
    <2>9. CASE y < c
      <3>1. y \notin B
        BY <2>1, <2>2, <2>3
      <3>2. Parent(c) >= y
        BY <1>2, <2>9, <3>1
      <3> QED BY <2>2, <2>3, <2>4, <3>2
    <2> QED BY <2>3, <2>5, <2>7, <2>8, <2>9
  <1>4. B = {}
    BY <1>3
  <1> QED BY <1>1, <1>2, <1>4 DEF HeapPath

(* ... or from above, each but the first having one before it and none two next. *)
LEMMA PathFromFirst ==
  ASSUME NEW n \in Nat, NEW S \in SUBSET 1..n, NEW p \in S,
         \A q \in S : q >= p /\ (q # p => Parent(q) \in S),
         \A c, d \in S : c # p /\ d # p /\ Parent(c) = Parent(d) => c = d
  PROVE  HeapPath(S)
PROOF
  <1>0. S \subseteq Nat \ {0}
    OBVIOUS
  <1>1. PICK B : B = {y \in S : \E x \in S : x < y /\ Parent(y) < x}
    OBVIOUS
  <1>2. ASSUME B # {} PROVE FALSE
    <2>1. PICK y \in B : \A z \in B : y <= z
      <3>1. B \in SUBSET Nat
        BY <1>0, <1>1
      <3> QED BY <1>2, <3>1, LeastPosition
    <2>2. y \in S /\ y \in Nat
      BY <1>0, <1>1, <2>1
    <2>3. PICK A : A = {x \in S : x < y /\ Parent(y) < x}
      OBVIOUS
    <2>4. PICK x \in A : \A w \in A : x <= w
      <3>1. A \in SUBSET Nat /\ A # {}
        BY <1>0, <1>1, <2>1, <2>3
      <3> QED BY <3>1, LeastPosition
    <2>5. x \in S /\ x \in Nat /\ x < y /\ Parent(y) < x
      BY <1>0, <2>3, <2>4
    <2>6. y # p /\ y > 1 /\ Parent(y) \in S /\ Parent(y) \in Nat /\ p \in Nat /\ p > 0
      <3>1. p \in Nat /\ p > 0 /\ x >= p
        BY <1>0, <2>5
      <3>2. y # p /\ y > 1
        BY <2>2, <2>5, <3>1
      <3>3. Parent(y) \in S
        BY <2>2, <3>2
      <3> QED BY <1>0, <3>1, <3>2, <3>3
    <2>7. x # p /\ x > 1
      <3>1. Parent(y) >= p /\ Parent(y) < x
        BY <2>5, <2>6
      <3> QED BY <2>5, <2>6, <3>1
    <2>8. Parent(x) \in S /\ Parent(x) \in Nat /\ Parent(x) < x
      BY <2>5, <2>7, ParentIs
    <2>9. Parent(x) # Parent(y)
      BY <2>2, <2>5, <2>6, <2>7
    <2>10. ~(Parent(x) < Parent(y))
      <3>1. x \notin B
        BY <2>1, <2>2, <2>5
      <3>2. ~(Parent(y) < x /\ Parent(x) < Parent(y))
        BY <1>1, <2>5, <2>6, <3>1
      <3> QED BY <2>5, <3>2
    <2>11. Parent(x) \in A
      <3>1. Parent(y) < Parent(x) /\ Parent(x) < y
        BY <2>2, <2>5, <2>6, <2>8, <2>9, <2>10
      <3> QED BY <2>3, <2>8, <3>1
    <2> QED BY <2>4, <2>5, <2>8, <2>11
  <1>3. B = {}
    BY <1>2
  <1>4. ASSUME NEW x \in S, NEW y \in S, x < y PROVE Parent(y) \in S /\ Parent(y) >= x
    <2>1. x \in Nat /\ y \in Nat /\ p \in Nat
      BY <1>0
    <2>2. y # p
      <3>1. x >= p
        OBVIOUS
      <3> QED BY <1>4, <2>1, <3>1
    <2>3. Parent(y) \in S /\ Parent(y) \in Nat
      BY <1>0, <2>2
    <2>4. ~(Parent(y) < x)
      BY <1>1, <1>3, <1>4
    <2> QED BY <2>1, <2>3, <2>4
  <1> QED BY <1>4 DEF HeapPath

-----------------------------------------------------------------------------
(* Going up *)

(* f tells what p reaches in A. *)
Reaching(f, A, p, E) == f = [q \in A |-> q = p \/ \E c \in A : <<c, q>> \in E /\ f[c]]

(* This recursive definition has a solution. *)
LEMMA ReachesAll ==
  ASSUME NEW A, NEW p \in A, NEW E
  PROVE  \E f : Reaching(f, A, p, E)
PROOF
  <1> DEFINE Closed1(T) == \A c, q \in A : <<c, q>> \in E /\ c \in T => q \in T
  <1>1. PICK R \in SUBSET A :
          \A q \in A : q \in R <=> \A T \in SUBSET A : p \in T /\ Closed1(T) => q \in T
    <2>1. {q \in A : \A T \in SUBSET A : p \in T /\ Closed1(T) => q \in T} \in SUBSET A
      OBVIOUS
    <2> QED BY <2>1
  <1>2. p \in R
    BY <1>1
  <1>3. ASSUME NEW q \in A, NEW c \in R, <<c, q>> \in E PROVE q \in R
    <2>1. SUFFICES ASSUME NEW T \in SUBSET A, p \in T, Closed1(T) PROVE q \in T
      BY <1>1
    <2>2. c \in A /\ c \in T
      BY <1>1, <2>1
    <2> QED BY <1>3, <2>1, <2>2
  <1>4. ASSUME NEW q \in R, q # p, \A c \in R : <<c, q>> \notin E PROVE FALSE
    <2>1. PICK T : T = R \ {q}
      OBVIOUS
    <2>2. T \in SUBSET A /\ p \in T
      BY <1>2, <1>4, <2>1
    <2>3. ASSUME NEW c \in A, NEW d \in A, <<c, d>> \in E, c \in T PROVE d \in T
      <3>1. d \in R
        BY <1>3, <2>1, <2>3
      <3>2. d # q
        BY <1>4, <2>1, <2>3
      <3> QED BY <2>1, <3>1, <3>2
    <2>4. q \in T
      BY <1>1, <2>2, <2>3
    <2> QED BY <2>1, <2>4
  <1>5. \A q \in A : q \in R <=> q = p \/ \E c \in A : <<c, q>> \in E /\ c \in R
    BY <1>2, <1>3, <1>4
  <1>6. PICK f : f = [q \in A |-> q \in R]
    OBVIOUS
  <1>7. \A q \in A : f[q] <=> q \in R
    BY <1>6
  <1>8. \A q \in A : (q \in R) = (q = p \/ \E c \in A : <<c, q>> \in E /\ f[c])
    <2>1. ASSUME NEW q \in A
          PROVE  q \in R <=> (q = p \/ \E c \in A : <<c, q>> \in E /\ f[c])
      BY <1>5, <1>7
    <2> QED BY <2>1
  <1>9. [q \in A |-> q \in R] = [q \in A |-> q = p \/ \E c \in A : <<c, q>> \in E /\ f[c]]
    BY <1>8
  <1> QED BY <1>6, <1>9 DEF Reaching

(* S is the path that the item at p goes up. *)
UpPath(h, p, S) ==
  /\ p \in S
  /\ \A q \in S : q # p => h[p].key <= h[q].key /\ \E c \in S : c > 1 /\ Parent(c) = q
  /\ \A c \in S : c > 1 /\ h[p].key <= h[Parent(c)].key => Parent(c) \in S

(* Where the item at q comes from. *)
FromAbove(S, p, q) ==
  IF q \in S THEN IF q # 1 /\ Parent(q) \in S THEN Parent(q) ELSE p ELSE q

LEMMA FixUpMoves ==
  ASSUME NEW I, NEW h \in Seq(I), NEW n \in Nat, n = Len(h), NEW p \in 1..n
  PROVE  \E S \in SUBSET (1..p) :
           UpPath(h, p, S) /\ FixUp(h, p) = [q \in 1..n |-> h[FromAbove(S, p, q)]]
PROOF
  <1> DEFINE
    Eq(f) == f = [q \in 1..p |-> q = p \/ \E c \in Children(h, q) :
                                           c <= p /\ f[c] /\ h[p].key <= h[q].key]
  <1>1. PICK E : E = {e \in (1..p) \X (1..p) :
                       e[1] \in Children(h, e[2]) /\ h[p].key <= h[e[2]].key}
    OBVIOUS
  <1>2. p \in 1..p /\ p \in Nat
    OBVIOUS
  <1>3. PICK g : g = [q \in 1..p |-> q = p \/ \E c \in 1..p : <<c, q>> \in E /\ g[c]]
    <2>1. PICK A : A = 1..p
      OBVIOUS
    <2>2. p \in A
      BY <2>1
    <2>3. PICK g : Reaching(g, A, p, E)
      BY <2>2, ReachesAll
    <2> QED BY <2>1, <2>3 DEF Reaching
  <1>4. \A q \in 1..p : Children(h, q) = {c \in 2..n : Parent(c) = q}
    BY ChildrenAre
  <1>5. \A q, c \in 1..p : <<c, q>> \in E <=> c \in Children(h, q) /\ h[p].key <= h[q].key
    BY <1>1
  <1>6. ASSUME NEW q \in 1..p
        PROVE  (q = p \/ \E c \in 1..p : <<c, q>> \in E /\ g[c])
                 <=> (q = p \/ \E c \in Children(h, q) : c <= p /\ g[c] /\ h[p].key <= h[q].key)
    <2>1. \A c \in Children(h, q) : c \in Nat /\ c >= 1
      BY <1>4
    <2>2. \A c \in Children(h, q) : c <= p <=> c \in 1..p
      BY <1>2, <2>1
    <2> QED BY <1>5, <2>2, Zenon
  <1>7. Eq(g)
    BY <1>3, <1>6
  <1>8. PICK f : f = CHOOSE x : Eq(x)
    OBVIOUS
  <1>9. Eq(f)
    BY <1>7, <1>8
  <1>10. FixUp(h, p) = [q \in DOMAIN h |->
          IF q > p \/ ~f[q] THEN h[q]
          ELSE IF q # 1 /\ f[Parent(q)] THEN h[Parent(q)] ELSE h[p]]
    BY <1>8 DEF FixUp
  <1>11. PICK S : S = {q \in 1..p : f[q]}
    OBVIOUS
  <1>12. \A q \in 1..p : q \in S <=>
           q = p \/ \E c \in Children(h, q) : c <= p /\ f[c] /\ h[p].key <= h[q].key
    BY <1>9, <1>11
  <1>13. S \in SUBSET (1..p) /\ \A q \in 1..p : q \in S <=> f[q]
    BY <1>11
  <1>14. UpPath(h, p, S)
    <2>1. p \in S
      BY <1>2, <1>12
    <2>2. ASSUME NEW q \in S, q # p
          PROVE  h[p].key <= h[q].key /\ \E c \in S : c > 1 /\ Parent(c) = q
      <3>1. q \in 1..p
        BY <1>13
      <3>2. PICK c \in Children(h, q) : c <= p /\ f[c] /\ h[p].key <= h[q].key
        BY <1>12, <2>2, <3>1
      <3>3. c \in 2..n /\ Parent(c) = q
        BY <1>4, <3>1
      <3>4. c \in S /\ c > 1
        BY <1>2, <1>13, <3>2, <3>3
      <3> QED BY <3>2, <3>3, <3>4
    <2>3. ASSUME NEW c \in S, c > 1, h[p].key <= h[Parent(c)].key PROVE Parent(c) \in S
      <3>1. c \in 1..p /\ c \in Nat
        BY <1>13
      <3>2. Parent(c) \in 1..p
        BY <2>3, <3>1, ParentIs
      <3>3. c \in Children(h, Parent(c))
        BY <1>2, <1>4, <2>3, <3>1, <3>2
      <3>4. c <= p /\ f[c]
        BY <1>2, <1>13, <3>1
      <3> QED BY <1>12, <2>3, <3>2, <3>3, <3>4
    <2> QED BY <2>1, <2>2, <2>3 DEF UpPath
  <1>15. ASSUME NEW q \in 1..n
         PROVE  (IF q > p \/ ~f[q] THEN h[q]
                 ELSE IF q # 1 /\ f[Parent(q)] THEN h[Parent(q)] ELSE h[p]) = h[FromAbove(S, p, q)]
    <2>1. CASE q > p
      <3>1. q \notin S
        BY <1>13, <2>1
      <3> QED BY <2>1, <3>1 DEF FromAbove
    <2>2. CASE q <= p
      <3>1. q \in 1..p /\ q \in Nat
        BY <1>2, <2>2
      <3>2. q # 1 => Parent(q) \in 1..p
        BY <3>1, ParentIs
      <3>3. q # 1 => (f[Parent(q)] <=> Parent(q) \in S)
        BY <1>13, <3>2
      <3>4. f[q] <=> q \in S
        BY <1>13, <3>1
      <3>5. ~(q > p)
        BY <1>2, <2>2
      <3> QED BY <3>3, <3>4, <3>5 DEF FromAbove
    <2> QED BY <1>2, <2>1, <2>2
  <1>16. DOMAIN h = 1..n
    BY LenProperties
  <1>17. FixUp(h, p) = [q \in 1..n |-> h[FromAbove(S, p, q)]]
    BY <1>10, <1>15, <1>16
  <1> QED BY <1>13, <1>14, <1>17

LEMMA UpPathIs ==
  ASSUME NEW h, NEW n \in Nat, NEW p \in 1..n, NEW S \in SUBSET (1..p), UpPath(h, p, S)
  PROVE  HeapPath(S) /\ p \in S /\ \A q \in S : q # p => \E c \in S : c > 1 /\ Parent(c) = q
PROOF
  <1>1. p \in Nat /\ p \in S /\ \A q \in S : q # p => \E c \in S : c > 1 /\ Parent(c) = q
    BY DEF UpPath
  <1>2. HeapPath(S)
    BY <1>1, PathFromLast
  <1> QED BY <1>1, <1>2

(* The items on the path change places. *)
LEMMA UpPermutes ==
  ASSUME NEW I, NEW h \in Seq(I), NEW n \in Nat, n = Len(h), NEW p \in 1..n,
         NEW S \in SUBSET (1..p), UpPath(h, p, S),
         NEW r, r = [q \in 1..n |-> h[FromAbove(S, p, q)]]
  PROVE  r \in Seq(I) /\ SameItems(h, r)
PROOF
  <1>0. HeapPath(S) /\ p \in S /\ (\A q \in S : q # p => \E c \in S : c > 1 /\ Parent(c) = q)
        /\ S \in SUBSET (Nat \ {0}) /\ p \in Nat /\ S \in SUBSET (1..n)
    <2>1. HeapPath(S)
      BY UpPathIs
    <2>2. p \in Nat /\ 1..p \subseteq Nat \ {0} /\ 1..p \subseteq 1..n
      OBVIOUS
    <2>3. p \in S /\ \A q \in S : q # p => \E c \in S : c > 1 /\ Parent(c) = q
      BY DEF UpPath
    <2> QED BY <2>1, <2>2, <2>3
  <1>1. PICK pi : pi = [q \in 1..n |-> FromAbove(S, p, q)]
    OBVIOUS
  <1>2. \A q \in 1..n : r[q] = h[pi[q]]
    BY <1>1
  <1>3. \A q \in 1..n : q \notin S => pi[q] = q
    BY <1>1 DEF FromAbove
  <1>4. \A q \in 1..n : q \in S /\ q # 1 /\ Parent(q) \in S => pi[q] = Parent(q)
    BY <1>1 DEF FromAbove
  <1>5. \A q \in 1..n : q \in S /\ ~(q # 1 /\ Parent(q) \in S) => pi[q] = p
    BY <1>1 DEF FromAbove
  <1>6. \A q \in 1..n : q \in S => pi[q] \in S
    BY <1>0, <1>4, <1>5
  <1>7. ASSUME NEW q1 \in 1..n, NEW q2 \in 1..n, pi[q1] = pi[q2] PROVE q1 = q2
    <2>1. CASE q1 \notin S \/ q2 \notin S
      BY <1>3, <1>6, <1>7, <2>1
    <2>2. CASE q1 \in S /\ q2 \in S
      <3>1. q1 \in Nat /\ q2 \in Nat /\ q1 <= p /\ q2 <= p /\ q1 > 0 /\ q2 > 0
        BY <2>2
      <3>2. CASE q1 # 1 /\ q2 # 1 /\ Parent(q1) \in S /\ Parent(q2) \in S
        <4>1. Parent(q1) = Parent(q2)
          BY <1>4, <1>7, <2>2, <3>2
        <4>2. q1 > 1 /\ q2 > 1
          BY <3>1, <3>2
        <4> QED BY <1>0, <2>2, <4>1, <4>2, PathAlone
      <3>3. CASE ~(q1 # 1 /\ Parent(q1) \in S) /\ ~(q2 # 1 /\ Parent(q2) \in S)
        <4>1. ~(q1 < q2)
          BY <1>0, <2>2, <3>1, <3>3 DEF HeapPath
        <4>2. ~(q2 < q1)
          BY <1>0, <2>2, <3>1, <3>3 DEF HeapPath
        <4> QED BY <3>1, <4>1, <4>2
      <3>4. CASE ~(q1 # 1 /\ Parent(q1) \in S) /\ q2 # 1 /\ Parent(q2) \in S
        <4>1. pi[q1] = p /\ pi[q2] = Parent(q2)
          BY <1>4, <1>5, <2>2, <3>4
        <4>2. Parent(q2) < q2 /\ Parent(q2) \in Nat
          BY <3>1, <3>4, ParentIs
        <4>3. Parent(q2) # p
          BY <1>0, <3>1, <4>2
        <4> QED BY <1>7, <4>1, <4>3
      <3>5. CASE ~(q2 # 1 /\ Parent(q2) \in S) /\ q1 # 1 /\ Parent(q1) \in S
        <4>1. pi[q2] = p /\ pi[q1] = Parent(q1)
          BY <1>4, <1>5, <2>2, <3>5
        <4>2. Parent(q1) < q1 /\ Parent(q1) \in Nat
          BY <3>1, <3>5, ParentIs
        <4>3. Parent(q1) # p
          BY <1>0, <3>1, <4>2
        <4> QED BY <1>7, <4>1, <4>3
      <3> QED BY <3>2, <3>3, <3>4, <3>5
    <2> QED BY <2>1, <2>2
  <1>8. ASSUME NEW x \in 1..n PROVE \E q \in 1..n : pi[q] = x
    <2>1. CASE x \notin S
      BY <1>3, <2>1
    <2>2. CASE x \in S /\ x # p
      <3>1. PICK c \in S : c > 1 /\ Parent(c) = x
        BY <1>0, <2>2
      <3>2. pi[c] = x
        BY <1>0, <1>4, <2>2, <3>1
      <3> QED BY <1>0, <3>2
    <2>3. CASE x = p
      <3>1. PICK m \in S : \A y \in S : m <= y
        <4>1. S \in SUBSET Nat /\ S # {}
          BY <1>0
        <4> QED BY <4>1, LeastPosition
      <3>2. m = 1 \/ Parent(m) \notin S
        <4>1. m \in Nat /\ m > 0
          BY <1>0
        <4>2. m # 1 => Parent(m) \in Nat /\ Parent(m) < m
          BY <4>1, ParentIs
        <4> QED BY <3>1, <4>1, <4>2
      <3>3. pi[m] = x
        BY <1>0, <1>5, <2>3, <3>1, <3>2
      <3> QED BY <1>0, <3>3
    <2> QED BY <2>1, <2>2, <2>3
  <1>9. \A q \in 1..n : pi[q] \in 1..n
    BY <1>0, <1>3, <1>6
  <1>10. Permuted(h, r, pi, n)
    BY <1>2, <1>7, <1>8, <1>9 DEF Permuted
  <1>11. DOMAIN r = 1..n /\ r = [q \in 1..n |-> r[q]]
    OBVIOUS
  <1> QED BY <1>10, <1>11, MovedItems

(* No key is less than that of the item above it. *)
InHeapOrder(h) == \A q \in 2..Len(h) : h[Parent(q)].key <= h[q].key

(* Only the item at p may be less than the one above it. *)
LowAt(h, p) ==
  /\ \A q \in 2..Len(h) : q # p => h[Parent(q)].key <= h[q].key
  /\ p > 1 => \A q \in 2..Len(h) : Parent(q) = p => h[Parent(p)].key <= h[q].key

LEMMA UpOrders ==
  ASSUME NEW Nodes, NEW h \in Seq(ItemsOf(Nodes)), NEW n \in Nat, n = Len(h), NEW p \in 1..n,
         NEW S \in SUBSET (1..p), UpPath(h, p, S), LowAt(h, p),
         NEW r, Len(r) = n, r = [q \in 1..n |-> h[FromAbove(S, p, q)]]
  PROVE  InHeapOrder(r)
PROOF
  <1>0. HeapPath(S) /\ p \in S /\ S \in SUBSET (Nat \ {0}) /\ p \in Nat /\ S \in SUBSET (1..n)
    <2>1. HeapPath(S) /\ p \in S
      BY UpPathIs
    <2>2. p \in Nat /\ 1..p \subseteq Nat \ {0} /\ 1..p \subseteq 1..n
      OBVIOUS
    <2> QED BY <2>1, <2>2
  <1>1. PICK k \in [1..n -> Int] : \A q \in 1..n : k[q] = h[q].key
    <2>1. \A q \in 1..n : h[q].key \in Int
      <3>1. \A q \in 1..n : h[q] \in ItemsOf(Nodes)
        BY ElementOfSeq
      <3> QED BY <3>1 DEF ItemsOf
    <2>2. [q \in 1..n |-> h[q].key] \in [1..n -> Int]
      BY <2>1
    <2> QED BY <2>2
  <1>2. \A q \in 1..n : q \notin S => r[q].key = k[q]
    BY <1>1 DEF FromAbove
  <1>3. \A q \in 1..n : q \in S /\ q # 1 /\ Parent(q) \in S => r[q].key = k[Parent(q)]
    BY <1>0, <1>1 DEF FromAbove
  <1>4. \A q \in 1..n : q \in S /\ ~(q # 1 /\ Parent(q) \in S) => r[q].key = k[p]
    BY <1>0, <1>1 DEF FromAbove
  <1>5. \A q \in 2..n : Parent(q) \in 1..n /\ Parent(q) < q /\ q \in 1..n
    <2>1. SUFFICES ASSUME NEW q \in 2..n PROVE Parent(q) \in 1..n /\ Parent(q) < q
      OBVIOUS
    <2>2. Parent(q) \in Nat /\ Parent(q) > 0 /\ Parent(q) < q
      BY ParentIs
    <2> QED BY <2>2
  <1>6. \A q \in 2..n : q # p => k[Parent(q)] <= k[q]
    BY <1>1, <1>5 DEF LowAt
  <1>7. p > 1 => \A q \in 2..n : Parent(q) = p => k[Parent(p)] <= k[q]
    <2>1. p > 1 => p \in 2..n
      BY <1>0
    <2> QED BY <1>1, <1>5, <2>1 DEF LowAt
  <1>8. \A q \in S : k[p] <= k[q]
    BY <1>0, <1>1 DEF UpPath
  <1>9. \A q \in S : q > 1 /\ Parent(q) \notin S => k[Parent(q)] <= k[p]
    <2>1. SUFFICES ASSUME NEW q \in S, q > 1, Parent(q) \notin S PROVE k[Parent(q)] <= k[p]
      OBVIOUS
    <2>2. q \in 2..n
      BY <1>0, <2>1
    <2>3. ~(k[p] <= k[Parent(q)])
      BY <1>0, <1>1, <1>5, <2>1, <2>2 DEF UpPath
    <2>4. k[p] \in Int /\ k[Parent(q)] \in Int
      BY <1>5, <2>2
    <2> QED BY <2>3, <2>4
  <1>10. ASSUME NEW q \in 2..n PROVE r[Parent(q)].key <= r[q].key
    <2>1. PICK x \in 1..n : x = Parent(q)
      BY <1>5
    <2>2. x \in Nat /\ q \in Nat /\ x < q /\ q > 1 /\ q \in 1..n
      BY <1>5, <2>1
    <2>3. x # 1 => x \in 2..n /\ x > 1 /\ Parent(x) \in 1..n
      BY <1>5, <2>2
    <2>4. k[x] \in Int /\ k[q] \in Int /\ k[p] \in Int
      BY <2>2
    <2>5. CASE q \in S /\ x \in S
      <3>1. r[q].key = k[x]
        BY <1>3, <2>1, <2>2, <2>5
      <3>2. CASE x # 1 /\ Parent(x) \in S
        <4>1. r[x].key = k[Parent(x)]
          BY <1>3, <2>5, <3>2
        <4>2. x # p
          BY <1>0, <2>2, <2>5
        <4>3. k[Parent(x)] <= k[x]
          BY <1>6, <2>3, <3>2, <4>2
        <4> QED BY <2>1, <3>1, <4>1, <4>3
      <3>3. CASE ~(x # 1 /\ Parent(x) \in S)
        <4>1. r[x].key = k[p]
          BY <1>4, <2>5, <3>3
        <4> QED BY <1>8, <2>1, <2>5, <3>1, <4>1
      <3> QED BY <3>2, <3>3
    <2>6. CASE q \in S /\ x \notin S
      <3>1. r[q].key = k[p]
        BY <1>4, <2>1, <2>2, <2>6
      <3>2. r[x].key = k[x]
        BY <1>2, <2>6
      <3>3. k[x] <= k[p]
        BY <1>9, <2>1, <2>2, <2>6
      <3> QED BY <2>1, <3>1, <3>2, <3>3
    <2>7. CASE q \notin S /\ x \in S
      <3>1. r[q].key = k[q] /\ q # p
        BY <1>0, <1>2, <2>2, <2>7
      <3>2. k[x] <= k[q]
        BY <1>6, <2>1, <3>1
      <3>3. CASE x # 1 /\ Parent(x) \in S
        <4>1. r[x].key = k[Parent(x)] /\ k[Parent(x)] \in Int
          BY <1>3, <2>3, <2>7, <3>3
        <4>2. CASE x = p
          BY <1>7, <2>1, <2>3, <3>1, <3>3, <4>1, <4>2
        <4>3. CASE x # p
          <5>1. k[Parent(x)] <= k[x]
            BY <1>6, <2>3, <3>3, <4>3
          <5> QED BY <2>1, <2>4, <3>1, <3>2, <4>1, <5>1
        <4> QED BY <4>2, <4>3
      <3>4. CASE ~(x # 1 /\ Parent(x) \in S)
        <4>1. r[x].key = k[p]
          BY <1>4, <2>7, <3>4
        <4>2. k[p] <= k[x]
          BY <1>8, <2>7
        <4> QED BY <2>1, <2>4, <3>1, <3>2, <4>1, <4>2
      <3> QED BY <3>3, <3>4
    <2>8. CASE q \notin S /\ x \notin S
      <3>1. r[q].key = k[q] /\ q # p
        BY <1>0, <1>2, <2>2, <2>8
      <3>2. k[x] <= k[q]
        BY <1>6, <2>1, <3>1
      <3>3. r[x].key = k[x]
        BY <1>2, <2>8
      <3> QED BY <2>1, <3>1, <3>2, <3>3
    <2> QED BY <2>5, <2>6, <2>7, <2>8
  <1> QED BY <1>10 DEF InHeapOrder

(* FixUp puts the item at p, if only it is too low, where it belongs. *)
LEMMA FixUpIsRight ==
  ASSUME NEW Nodes, NEW h \in Seq(ItemsOf(Nodes)), NEW p \in 1..Len(h), LowAt(h, p)
  PROVE  FixUp(h, p) \in Seq(ItemsOf(Nodes)) /\ SameItems(h, FixUp(h, p)) /\ InHeapOrder(FixUp(h, p))
PROOF
  <1>1. PICK n \in Nat : n = Len(h)
    BY LenProperties
  <1>2. PICK S \in SUBSET (1..p) :
          UpPath(h, p, S) /\ FixUp(h, p) = [q \in 1..n |-> h[FromAbove(S, p, q)]]
    BY <1>1, FixUpMoves
  <1>3. PICK r : r = FixUp(h, p)
    OBVIOUS
  <1>4. r \in Seq(ItemsOf(Nodes)) /\ SameItems(h, r)
    BY <1>1, <1>2, <1>3, UpPermutes
  <1>5. Len(r) = n
    BY <1>1, <1>4 DEF SameItems
  <1>6. InHeapOrder(r)
    <2>1. r = [q \in 1..n |-> h[FromAbove(S, p, q)]]
      BY <1>2, <1>3
    <2> QED BY <1>1, <1>2, <1>5, <2>1, UpOrders
  <1> QED BY <1>3, <1>4, <1>6

-----------------------------------------------------------------------------
(* Going down *)

(* S is the path that the item at p goes down. *)
DownPath(h, p, n, S) ==
  /\ p \in S
  /\ \A q \in p..n : q # p =>
       (q \in S <=> Parent(q) \in S /\ IsNext(h, q) /\ h[q].key < h[p].key)

(* The item at pi[q] comes to q. *)
FromBelow(S, p, pi, n) ==
  /\ \A q \in 1..n : q \notin S => pi[q] = q
  /\ \A c \in S : c # p => pi[Parent(c)] = c
  /\ \A q \in S : (\A c \in S : c # p => Parent(c) # q) => pi[q] = p

(* FixDown takes each item from pi to its place. *)
GoesDown(h, p, n, S, pi) ==
  /\ S \in SUBSET (p..n) /\ pi \in [1..n -> 1..n]
  /\ DownPath(h, p, n, S) /\ FromBelow(S, p, pi, n)
  /\ FixDown(h, p) = [q \in 1..n |-> h[pi[q]]]

LEMMA DownPathIs ==
  ASSUME NEW Nodes, NEW h \in Seq(ItemsOf(Nodes)), NEW n \in Nat, n = Len(h), NEW p \in 1..n,
         NEW S \in SUBSET (p..n), DownPath(h, p, n, S)
  PROVE  HeapPath(S) /\ \A c, d \in S : c # p /\ d # p /\ Parent(c) = Parent(d) => c = d
PROOF
  <1>0. p \in Nat /\ p > 0 /\ S \in SUBSET (1..n) /\ p \in S
    <2>1. p..n \subseteq 1..n
      OBVIOUS
    <2> QED BY <2>1 DEF DownPath
  <1>1. ASSUME NEW c \in S, NEW d \in S, c # p, d # p, Parent(c) = Parent(d) PROVE c = d
    <2>1. c \in p..n /\ d \in p..n /\ c \in 2..n /\ d \in 2..n
      BY <1>0, <1>1
    <2>2. IsNext(h, c) /\ IsNext(h, d) /\ Parent(c) \in S
      BY <1>1, <2>1 DEF DownPath
    <2>3. Children(h, Parent(c)) = {x \in 2..n : Parent(x) = Parent(c)}
      <3>1. PICK q \in 1..n : q = Parent(c)
        BY <1>0, <2>2
      <3>2. Children(h, q) = {x \in 2..n : Parent(x) = q}
        BY <1>0, ChildrenAre
      <3> QED BY <3>1, <3>2
    <2>4. h[c].key < h[d].key \/ (h[c].key = h[d].key /\ c <= d)
      BY <1>1, <2>1, <2>2, <2>3 DEF IsNext
    <2>5. h[d].key < h[c].key \/ (h[d].key = h[c].key /\ d <= c)
      BY <1>1, <2>1, <2>2, <2>3 DEF IsNext
    <2>6. h[c].key \in Int /\ h[d].key \in Int
      <3>1. h[c] \in ItemsOf(Nodes) /\ h[d] \in ItemsOf(Nodes)
        BY <1>0, ElementOfSeq
      <3> QED BY <3>1 DEF ItemsOf
    <2> QED BY <1>0, <2>4, <2>5, <2>6
  <1>2. \A q \in S : q >= p /\ (q # p => Parent(q) \in S)
    <2>1. \A q \in S : q \in p..n /\ q >= p
      BY <1>0
    <2>2. \A q \in p..n : q # p => (q \in S => Parent(q) \in S)
      BY DEF DownPath
    <2> QED BY <2>1, <2>2
  <1>3. HeapPath(S)
    BY <1>0, <1>1, <1>2, PathFromFirst
  <1> QED BY <1>1, <1>3

LEMMA FixDownMoves ==
  ASSUME NEW Nodes, NEW h \in Seq(ItemsOf(Nodes)), NEW n \in Nat, n = Len(h), NEW p \in 1..n
  PROVE  \E S, pi : GoesDown(h, p, n, S, pi)
PROOF
  <1> DEFINE
    Eq(f) == f = [q \in p..Len(h) |->
                   \/ q = p
                   \/ q > p /\ Parent(q) >= p /\ f[Parent(q)] /\ IsNext(h, q) /\ h[q].key < h[p].key]
  <1>0. p \in p..n /\ p \in Nat /\ p > 0
    OBVIOUS
  <1>1. PICK A : A = p..n
    OBVIOUS
  <1>2. PICK E : E = {e \in A \X A :
                       e[2] > p /\ e[1] = Parent(e[2]) /\ IsNext(h, e[2]) /\ h[e[2]].key < h[p].key}
    OBVIOUS
  <1>3. PICK g : Reaching(g, A, p, E)
    <2>1. p \in A
      BY <1>0, <1>1
    <2> QED BY <2>1, ReachesAll
  <1>4. \A q, c \in A : <<c, q>> \in E <=>
          q > p /\ c = Parent(q) /\ IsNext(h, q) /\ h[q].key < h[p].key
    BY <1>2
  <1>5. \A q \in A : q > p => Parent(q) \in Nat /\ Parent(q) < q /\ q <= n /\ q \in Nat
    BY <1>0, <1>1, ParentIs
  <1>6. \A q \in A : q > p /\ Parent(q) >= p => Parent(q) \in A
    BY <1>0, <1>1, <1>5
  <1>7. \A q \in A : q > p /\ Parent(q) \in A => Parent(q) >= p
    BY <1>1
  <1>8. ASSUME NEW q \in A
        PROVE  (q = p \/ \E c \in A : <<c, q>> \in E /\ g[c])
                 <=> (\/ q = p
                      \/ q > p /\ Parent(q) >= p /\ g[Parent(q)] /\ IsNext(h, q) /\ h[q].key < h[p].key)
    BY <1>4, <1>6, <1>7
  <1>9. Eq(g)
    <2>1. g = [q \in A |-> q = p \/ \E c \in A : <<c, q>> \in E /\ g[c]]
      BY <1>3 DEF Reaching
    <2> QED BY <1>1, <1>8, <2>1
  <1>10. PICK f : f = CHOOSE x : Eq(x)
    OBVIOUS
  <1>11. Eq(f)
    BY <1>9, <1>10
  <1>12. FixDown(h, p) = [q \in DOMAIN h |->
           IF q < p \/ ~f[q] THEN h[q]
           ELSE IF {c \in Children(h, q) : f[c]} # {}
                  THEN h[CHOOSE c \in {c \in Children(h, q) : f[c]} : TRUE] ELSE h[p]]
    BY <1>10 DEF FixDown
  <1>13. PICK S : S = {q \in A : f[q]}
    OBVIOUS
  <1>14. S \in SUBSET (p..n) /\ S \in SUBSET (1..n) /\ \A q \in A : q \in S <=> f[q]
    BY <1>0, <1>1, <1>13
  <1>15. \A q \in A : q \in S <=>
           (\/ q = p
            \/ q > p /\ Parent(q) >= p /\ f[Parent(q)] /\ IsNext(h, q) /\ h[q].key < h[p].key)
    <2>1. \A q \in p..Len(h) : f[q] <=>
           (\/ q = p
            \/ q > p /\ Parent(q) >= p /\ f[Parent(q)] /\ IsNext(h, q) /\ h[q].key < h[p].key)
      BY <1>11
    <2> QED BY <1>1, <1>14, <2>1
  <1>16. DownPath(h, p, n, S)
    <2>1. p \in S
      BY <1>0, <1>1, <1>15
    <2>2. ASSUME NEW q \in A, q # p
          PROVE  q \in S <=> Parent(q) \in S /\ IsNext(h, q) /\ h[q].key < h[p].key
      <3>1. q > p
        BY <1>0, <1>1, <2>2
      <3>2. Parent(q) \in S <=> Parent(q) >= p /\ f[Parent(q)]
        BY <1>6, <1>7, <1>13, <1>14, <3>1
      <3> QED BY <1>15, <2>2, <3>1, <3>2
    <2> QED BY <1>1, <2>1, <2>2 DEF DownPath
  <1>17. \A c, d \in S : c # p /\ d # p /\ Parent(c) = Parent(d) => c = d
    BY <1>14, <1>16, DownPathIs
  <1> DEFINE Below(q) == {c \in Children(h, q) : f[c]}
  <1>18. ASSUME NEW q \in S PROVE Below(q) = {c \in S : c # p /\ Parent(c) = q}
    <2>1. q \in Nat /\ q > 0 /\ q >= p
      BY <1>0, <1>14
    <2>2. Children(h, q) = {c \in 2..n : Parent(c) = q}
      BY <2>1, ChildrenAre
    <2>3. ASSUME NEW c \in 2..n, Parent(c) = q PROVE c # p /\ c \in A
      <3>1. c \in Nat /\ c <= n /\ q < c
        BY <2>3, ParentIs
      <3> QED BY <1>0, <1>1, <2>1, <3>1
    <2>4. ASSUME NEW c \in S, c # p PROVE c \in 2..n /\ c \in A
      BY <1>0, <1>1, <1>14, <2>4
    <2> QED BY <1>14, <2>2, <2>3, <2>4
  <1>19. PICK pi : pi = [q \in 1..n |->
           IF q \in S THEN IF Below(q) # {} THEN CHOOSE c \in Below(q) : TRUE ELSE p ELSE q]
    OBVIOUS
  <1>20. \A q \in S : Below(q) # {} => pi[q] \in Below(q)
    BY <1>14, <1>19
  <1>21. pi \in [1..n -> 1..n]
    <2>1. \A q \in S : Below(q) \subseteq S
      BY <1>18
    <2>2. ASSUME NEW q \in 1..n
          PROVE  (IF q \in S THEN IF Below(q) # {} THEN CHOOSE c \in Below(q) : TRUE ELSE p ELSE q)
                   \in 1..n
      BY <1>14, <2>1
    <2> QED BY <1>19, <2>2
  <1>22. FromBelow(S, p, pi, n)
    <2>1. \A q \in 1..n : q \notin S => pi[q] = q
      BY <1>19
    <2>2. ASSUME NEW c \in S, c # p PROVE pi[Parent(c)] = c
      <3>1. PICK q \in S : q = Parent(c)
        BY <1>14, <1>16, <2>2 DEF DownPath
      <3>2. c \in Below(q)
        BY <1>18, <2>2, <3>1
      <3>3. pi[q] \in S /\ pi[q] # p /\ Parent(pi[q]) = q
        BY <1>18, <1>20, <3>2
      <3> QED BY <1>17, <2>2, <3>1, <3>3
    <2>3. ASSUME NEW q \in S, \A c \in S : c # p => Parent(c) # q PROVE pi[q] = p
      <3>1. Below(q) = {}
        BY <1>18, <2>3
      <3> QED BY <1>14, <1>19, <3>1
    <2> QED BY <2>1, <2>2, <2>3 DEF FromBelow
  <1>23. ASSUME NEW q \in 1..n
         PROVE  (IF q < p \/ ~f[q] THEN h[q]
                 ELSE IF Below(q) # {} THEN h[CHOOSE c \in Below(q) : TRUE] ELSE h[p]) = h[pi[q]]
    <2>1. CASE q < p
      <3>1. q \notin S
        BY <1>0, <1>14, <2>1
      <3> QED BY <1>19, <2>1, <3>1
    <2>2. CASE ~(q < p)
      <3>1. q \in A
        BY <1>0, <1>1, <2>2
      <3> QED BY <1>14, <1>19, <2>2, <3>1
    <2> QED BY <2>1, <2>2
  <1>24. DOMAIN h = 1..n
    BY LenProperties
  <1>25. FixDown(h, p) = [q \in 1..n |-> h[pi[q]]]
    BY <1>12, <1>23, <1>24
  <1>26. GoesDown(h, p, n, S, pi)
    BY <1>14, <1>16, <1>21, <1>22, <1>25 DEF GoesDown
  <1> QED BY <1>26

(* Of an item's children one is next. *)
LEMMA NextChild ==
  ASSUME NEW Nodes, NEW h \in Seq(ItemsOf(Nodes)), NEW n \in Nat, n = Len(h), NEW x \in 1..n,
         NEW d \in 2..n, Parent(d) = x
  PROVE  \E c \in 2..n : Parent(c) = x /\ IsNext(h, c)
PROOF
  <1>1. PICK C : C = {c \in 2..n : Parent(c) = x}
    OBVIOUS
  <1>2. PICK k \in [1..n -> Int] : \A q \in 1..n : k[q] = h[q].key
    <2>1. \A q \in 1..n : h[q].key \in Int
      <3>1. \A q \in 1..n : h[q] \in ItemsOf(Nodes)
        BY ElementOfSeq
      <3> QED BY <3>1 DEF ItemsOf
    <2>2. [q \in 1..n |-> h[q].key] \in [1..n -> Int]
      BY <2>1
    <2> QED BY <2>2
  <1> DEFINE Before(c, e) == k[c] < k[e] \/ (k[c] = k[e] /\ c <= e)
  <1>3. PICK B : B = {i \in 1..n : /\ \E c \in C : c <= i
                                   /\ ~\E c \in C : c <= i /\ \A e \in C : e <= i => Before(c, e)}
    OBVIOUS
  <1>4. C \subseteq 1..n
    BY <1>1
  <1>5. ASSUME B # {} PROVE FALSE
    <2>1. PICK i \in B : \A j \in B : i <= j
      <3>1. B \in SUBSET Nat
        BY <1>3
      <3> QED BY <1>5, <3>1, LeastPosition
    <2>2. i \in 1..n /\ i \in Nat
      BY <1>3, <2>1
    <2>3. \A c \in C : c \in Nat /\ c >= 1 /\ k[c] \in Int /\ (c <= i <=> c = i \/ c <= i - 1)
      BY <1>4, <2>2
    <2>4. CASE \E c \in C : c <= i - 1
      <3>1. i - 1 \in 1..n
        BY <2>2, <2>3, <2>4
      <3>2. i - 1 \notin B
        BY <2>1, <2>2
      <3>3. PICK c \in C : c <= i - 1 /\ \A e \in C : e <= i - 1 => Before(c, e)
        BY <1>3, <2>4, <3>1, <3>2
      <3>4. CASE i \in C /\ k[i] < k[c]
        <4>1. \A e \in C : e <= i => Before(i, e)
          BY <2>3, <3>3, <3>4
        <4> QED BY <1>3, <2>1, <2>2, <3>4, <4>1
      <3>5. CASE ~(i \in C /\ k[i] < k[c])
        <4>1. \A e \in C : e <= i => Before(c, e)
          <5>1. SUFFICES ASSUME NEW e \in C, e <= i PROVE Before(c, e)
            OBVIOUS
          <5>2. CASE e = i
            <6>1. k[c] <= k[e] /\ c <= e
              BY <2>2, <2>3, <3>3, <3>5, <5>2
            <6> QED BY <2>3, <6>1
          <5>3. CASE e # i
            BY <2>3, <3>3, <5>1, <5>3
          <5> QED BY <5>2, <5>3
        <4>2. c <= i
          BY <2>3, <3>3
        <4> QED BY <1>3, <2>1, <4>1, <4>2
      <3> QED BY <3>4, <3>5
    <2>5. CASE ~\E c \in C : c <= i - 1
      <3>1. i \in C
        BY <1>3, <2>1, <2>3, <2>5
      <3>2. \A e \in C : e <= i => Before(i, e)
        BY <2>3, <2>5
      <3> QED BY <1>3, <2>1, <2>2, <3>1, <3>2
    <2> QED BY <2>4, <2>5
  <1>6. PICK c \in C : \A e \in C : Before(c, e)
    <2>1. n \notin B /\ n \in 1..n
      BY <1>5
    <2>2. \A e \in C : e <= n
      BY <1>4
    <2>3. d \in C
      BY <1>1
    <2> QED BY <1>3, <2>1, <2>2, <2>3
  <1>7. c \in 2..n /\ Parent(c) = x
    BY <1>1, <1>6
  <1>8. IsNext(h, c)
    <2>1. Children(h, Parent(c)) = C
      BY <1>1, <1>7, ChildrenAre
    <2>2. \A e \in C : h[c].key < h[e].key \/ (h[c].key = h[e].key /\ c <= e)
      BY <1>2, <1>4, <1>6
    <2> QED BY <2>1, <2>2 DEF IsNext
  <1> QED BY <1>7, <1>8

LEMMA DownPermutes ==
  ASSUME NEW Nodes, NEW h \in Seq(ItemsOf(Nodes)), NEW n \in Nat, n = Len(h), NEW p \in 1..n,
         NEW S, NEW pi, GoesDown(h, p, n, S, pi), NEW r, r = FixDown(h, p)
  PROVE  r \in Seq(ItemsOf(Nodes)) /\ SameItems(h, r)
PROOF
  <1>h. /\ S \in SUBSET (p..n) /\ pi \in [1..n -> 1..n]
        /\ DownPath(h, p, n, S) /\ FromBelow(S, p, pi, n)
        /\ r = [q \in 1..n |-> h[pi[q]]]
    BY DEF GoesDown
  <1>0. /\ HeapPath(S) /\ p \in S /\ S \in SUBSET (1..n) /\ S \in SUBSET (Nat \ {0})
        /\ p \in Nat /\ p > 0 /\ \A q \in S : q >= p /\ q \in Nat /\ q > 0
    <2>1. HeapPath(S)
      BY <1>h, DownPathIs
    <2>2. p \in S
      BY <1>h DEF DownPath
    <2> QED BY <1>h, <2>1, <2>2
  <1>1. \A c \in S : c # p => c > 1 /\ Parent(c) \in S /\ pi[Parent(c)] = c
    <2>1. SUFFICES ASSUME NEW c \in S, c # p PROVE c > 1 /\ Parent(c) \in S /\ pi[Parent(c)] = c
      OBVIOUS
    <2>2. c > 1
      BY <1>0, <2>1
    <2>3. Parent(c) \in S
      BY <1>h, <2>1 DEF DownPath
    <2> QED BY <1>h, <2>1, <2>2, <2>3 DEF FromBelow
  <1>2. \A q \in 1..n : q \notin S => pi[q] = q
    BY <1>h DEF FromBelow
  <1>3. \A q \in S : \/ pi[q] \in S /\ pi[q] # p /\ Parent(pi[q]) = q
                     \/ pi[q] = p /\ \A c \in S : c # p => Parent(c) # q
    <2>1. SUFFICES ASSUME NEW q \in S
                   PROVE  \/ pi[q] \in S /\ pi[q] # p /\ Parent(pi[q]) = q
                          \/ pi[q] = p /\ \A c \in S : c # p => Parent(c) # q
      OBVIOUS
    <2>2. CASE \A c \in S : c # p => Parent(c) # q
      BY <1>h, <2>2 DEF FromBelow
    <2>3. CASE \E c \in S : c # p /\ Parent(c) = q
      BY <1>1, <2>3
    <2> QED BY <2>2, <2>3
  <1>4. \A q \in S : pi[q] \in S
    BY <1>0, <1>3
  <1>5. \A q1, q2 \in S : q1 < q2 => \E c \in S : c # p /\ Parent(c) = q1
    <2>1. SUFFICES ASSUME NEW q1 \in S, NEW q2 \in S, q1 < q2
                   PROVE  \E c \in S : c # p /\ Parent(c) = q1
      OBVIOUS
    <2>2. PICK c \in S : c > 1 /\ Parent(c) = q1
      BY <1>0, <2>1, PathNext
    <2>3. q1 < c /\ q1 >= p /\ c \in Nat
      BY <1>0, <2>2, ParentIs
    <2> QED BY <1>0, <2>2, <2>3
  <1>6. ASSUME NEW q1 \in 1..n, NEW q2 \in 1..n, pi[q1] = pi[q2] PROVE q1 = q2
    <2>1. CASE q1 \notin S \/ q2 \notin S
      BY <1>2, <1>4, <1>6, <2>1
    <2>2. CASE q1 \in S /\ q2 \in S
      <3>1. CASE pi[q1] # p
        BY <1>3, <1>6, <2>2, <3>1
      <3>2. CASE pi[q1] = p
        <4>1. (\A c \in S : c # p => Parent(c) # q1) /\ (\A c \in S : c # p => Parent(c) # q2)
          BY <1>3, <1>6, <2>2, <3>2
        <4>2. ~(q1 < q2) /\ ~(q2 < q1)
          BY <1>5, <2>2, <4>1
        <4> QED BY <1>0, <2>2, <4>2
      <3> QED BY <3>1, <3>2
    <2> QED BY <2>1, <2>2
  <1>7. ASSUME NEW x \in 1..n PROVE \E q \in 1..n : pi[q] = x
    <2>1. CASE x \notin S
      BY <1>2, <2>1
    <2>2. CASE x \in S /\ x # p
      BY <1>0, <1>1, <2>2
    <2>3. CASE x = p
      <3>1. PICK m \in S : \A y \in S : y <= m
        BY <1>0, GreatestPosition
      <3>2. pi[m] = p
        <4>1. SUFFICES ASSUME pi[m] # p PROVE FALSE
          OBVIOUS
        <4>2. PICK c \in S : c # p /\ Parent(c) = m
          BY <1>3, <4>1
        <4>3. m < c
          BY <1>0, <1>1, <4>2, ParentIs
        <4> QED BY <1>0, <3>1, <4>3
      <3> QED BY <1>0, <2>3, <3>2
    <2> QED BY <2>1, <2>2, <2>3
  <1>8. \A q \in 1..n : pi[q] \in 1..n /\ r[q] = h[pi[q]]
    BY <1>h
  <1>9. Permuted(h, r, pi, n)
    BY <1>6, <1>7, <1>8 DEF Permuted
  <1>10. DOMAIN r = 1..n /\ r = [q \in 1..n |-> r[q]]
    BY <1>h
  <1> QED BY <1>9, <1>10, MovedItems

(* Only the item at p may be misplaced. *)
HoleAt(h, p) ==
  /\ \A q \in 2..Len(h) : q # p /\ Parent(q) # p => h[Parent(q)].key <= h[q].key
  /\ p > 1 => \A q \in 2..Len(h) : Parent(q) = p => h[Parent(p)].key <= h[q].key

LEMMA DownOrders ==
  ASSUME NEW Nodes, NEW h \in Seq(ItemsOf(Nodes)), NEW n \in Nat, n = Len(h), NEW p \in 1..n,
         NEW S, NEW pi, GoesDown(h, p, n, S, pi), HoleAt(h, p),
         NEW r, Len(r) = n, r = FixDown(h, p)
  PROVE  LowAt(r, p) /\ (p = 1 \/ h[Parent(p)].key <= h[p].key => InHeapOrder(r))
PROOF
  <1>h. /\ S \in SUBSET (p..n) /\ pi \in [1..n -> 1..n]
        /\ DownPath(h, p, n, S) /\ FromBelow(S, p, pi, n)
        /\ r = [q \in 1..n |-> h[pi[q]]]
    BY DEF GoesDown
  <1>0. /\ p \in S /\ S \in SUBSET (1..n) /\ p \in Nat /\ p > 0
        /\ \A q \in S : q >= p /\ q \in Nat /\ q > 0 /\ q \in 1..n
    <2>1. p \in S
      BY <1>h DEF DownPath
    <2> QED BY <1>h, <2>1
  <1>1. PICK k \in [1..n -> Int] : \A q \in 1..n : k[q] = h[q].key
    <2>1. \A q \in 1..n : h[q].key \in Int
      <3>1. \A q \in 1..n : h[q] \in ItemsOf(Nodes)
        BY ElementOfSeq
      <3> QED BY <3>1 DEF ItemsOf
    <2>2. [q \in 1..n |-> h[q].key] \in [1..n -> Int]
      BY <2>1
    <2> QED BY <2>2
  <1>2. \A q \in 1..n : r[q].key = k[pi[q]]
    BY <1>1, <1>h
  <1>3. \A q \in 2..n : Parent(q) \in 1..n /\ Parent(q) < q /\ q \in 1..n
    <2>1. SUFFICES ASSUME NEW q \in 2..n PROVE Parent(q) \in 1..n /\ Parent(q) < q
      OBVIOUS
    <2>2. Parent(q) \in Nat /\ Parent(q) > 0 /\ Parent(q) < q
      BY ParentIs
    <2> QED BY <2>2
  <1>4. \A q \in 2..n : q # p /\ Parent(q) # p => k[Parent(q)] <= k[q]
    BY <1>1, <1>3 DEF HoleAt
  <1>5. p > 1 => Parent(p) \in 1..n /\ Parent(p) \notin S
                 /\ \A q \in 2..n : Parent(q) = p => k[Parent(p)] <= k[q]
    <2>1. SUFFICES ASSUME p > 1
                   PROVE  Parent(p) \in 1..n /\ Parent(p) \notin S
                          /\ \A q \in 2..n : Parent(q) = p => k[Parent(p)] <= k[q]
      OBVIOUS
    <2>2. p \in 2..n
      BY <1>0, <2>1
    <2>3. Parent(p) \in 1..n /\ Parent(p) < p
      BY <1>3, <2>2
    <2>4. Parent(p) \notin S
      BY <1>0, <2>3
    <2>5. ASSUME NEW q \in 2..n, Parent(q) = p PROVE k[Parent(p)] <= k[q]
      <3>1. h[Parent(p)].key <= h[q].key
        BY <2>1, <2>5 DEF HoleAt
      <3> QED BY <1>1, <1>3, <2>3, <3>1
    <2> QED BY <2>3, <2>4, <2>5
  <1>6. \A q \in 1..n : q \notin S => pi[q] = q
    BY <1>h DEF FromBelow
  <1>7. \A c \in S : c # p => c \in 2..n /\ Parent(c) \in S /\ pi[Parent(c)] = c
                              /\ IsNext(h, c) /\ k[c] < k[p]
    <2>1. SUFFICES ASSUME NEW c \in S, c # p
                   PROVE  c \in 2..n /\ Parent(c) \in S /\ pi[Parent(c)] = c
                          /\ IsNext(h, c) /\ k[c] < k[p]
      OBVIOUS
    <2>2. c \in 2..n /\ c \in p..n
      BY <1>0, <2>1
    <2>3. Parent(c) \in S /\ IsNext(h, c) /\ h[c].key < h[p].key
      BY <1>h, <2>1, <2>2 DEF DownPath
    <2> QED BY <1>0, <1>1, <1>h, <2>1, <2>2, <2>3 DEF FromBelow
  <1>8. \A q \in S : \/ \E c \in S : c # p /\ Parent(c) = q /\ pi[q] = c
                     \/ pi[q] = p /\ \A c \in S : c # p => Parent(c) # q
    <2>1. SUFFICES ASSUME NEW q \in S
                   PROVE  \/ \E c \in S : c # p /\ Parent(c) = q /\ pi[q] = c
                          \/ pi[q] = p /\ \A c \in S : c # p => Parent(c) # q
      OBVIOUS
    <2>2. CASE \A c \in S : c # p => Parent(c) # q
      BY <1>h, <2>2 DEF FromBelow
    <2>3. CASE \E c \in S : c # p /\ Parent(c) = q
      BY <1>7, <2>3
    <2> QED BY <2>2, <2>3
  <1>9. ASSUME NEW c \in 2..n, IsNext(h, c), NEW d \in 2..n, Parent(d) = Parent(c)
        PROVE  k[c] <= k[d]
    <2>1. Children(h, Parent(c)) = {x \in 2..n : Parent(x) = Parent(c)}
      <3>1. PICK q \in 1..n : q = Parent(c)
        BY <1>3
      <3>2. Children(h, q) = {x \in 2..n : Parent(x) = q}
        BY ChildrenAre
      <3> QED BY <3>1, <3>2
    <2>2. h[c].key < h[d].key \/ (h[c].key = h[d].key /\ c <= d)
      BY <1>9, <2>1 DEF IsNext
    <2>3. c \in 1..n /\ d \in 1..n
      OBVIOUS
    <2>4. k[c] < k[d] \/ k[c] = k[d]
      BY <1>1, <2>2, <2>3
    <2>5. k[c] \in Int /\ k[d] \in Int
      BY <2>3
    <2> QED BY <2>4, <2>5
  (* What comes to a place of the path is at least what was there. *)
  <1>10. ASSUME NEW q \in S, q # p PROVE k[q] <= k[pi[q]]
    <2>0. q \in 2..n /\ q \in 1..n /\ k[q] \in Int /\ k[p] \in Int
      BY <1>0, <1>7, <1>10
    <2>1. CASE pi[q] = p
      <3>1. k[q] < k[p]
        BY <1>7, <1>10
      <3> QED BY <2>0, <2>1, <3>1
    <2>2. CASE pi[q] # p
      <3>1. PICK c \in S : c # p /\ Parent(c) = q /\ pi[q] = c
        BY <1>8, <2>2
      <3>2. c \in 2..n
        BY <1>7, <3>1
      <3> QED BY <1>4, <1>10, <3>1, <3>2
    <2> QED BY <2>1, <2>2
  (* It is no more than what is below. *)
  <1>11. ASSUME NEW q \in 2..n, q # p PROVE k[pi[Parent(q)]] <= k[pi[q]]
    <2>1. PICK x \in 1..n : x = Parent(q)
      BY <1>3
    <2>2. q \in 1..n /\ k[q] \in Int /\ k[p] \in Int /\ q \in Nat /\ p \in 1..n
      BY <1>0
    <2>3. CASE x \notin S
      <3>1. q \notin S
        BY <1>7, <1>11, <2>1, <2>3
      <3>2. x # p
        BY <1>0, <2>3
      <3>3. k[x] <= k[q]
        BY <1>4, <1>11, <2>1, <3>2
      <3> QED BY <1>6, <2>1, <2>2, <2>3, <3>1, <3>3
    <2>4. CASE x \in S /\ q \in S
      <3>1. pi[x] = q
        BY <1>7, <1>11, <2>1, <2>4
      <3>2. k[q] <= k[pi[q]]
        BY <1>10, <1>11, <2>4
      <3> QED BY <2>1, <3>1, <3>2
    <2>5. CASE x \in S /\ q \notin S
      <3>1. pi[q] = q
        BY <1>6, <2>2, <2>5
      <3>2. CASE pi[x] # p
        <4>1. PICK c \in S : c # p /\ Parent(c) = x /\ pi[x] = c
          BY <1>8, <2>5, <3>2
        <4>2. k[c] <= k[q]
          BY <1>7, <1>9, <2>1, <4>1
        <4> QED BY <2>1, <3>1, <4>1, <4>2
      <3>3. CASE pi[x] = p
        <4>1. PICK c \in 2..n : Parent(c) = x /\ IsNext(h, c)
          BY <2>1, NextChild
        <4>2. k[c] <= k[q] /\ k[c] \in Int
          BY <1>9, <2>1, <4>1
        <4>3. c # p
          <5>1. x < c /\ x >= p /\ x \in Nat /\ c \in Nat
            BY <1>0, <1>3, <2>5, <4>1
          <5> QED BY <1>0, <5>1
        <4>4. c \notin S
          <5>1. CASE \A d \in S : d # p => Parent(d) # x
            BY <4>1, <4>3, <5>1
          <5>2. CASE \E d \in S : d # p /\ Parent(d) = x
            <6>1. PICK d \in S : d # p /\ Parent(d) = x
              BY <5>2
            <6>2. pi[x] = d
              BY <1>7, <6>1
            <6> QED BY <3>3, <6>1, <6>2
          <5> QED BY <5>1, <5>2
        <4>5. ~(k[c] < k[p])
          <5>1. c \in p..n
            <6>1. x < c /\ x >= p /\ x \in Nat /\ c \in Nat
              BY <1>0, <1>3, <2>5, <4>1
            <6> QED BY <1>0, <6>1
          <5>2. ~(h[c].key < h[p].key)
            BY <1>h, <2>5, <4>1, <4>3, <4>4, <5>1 DEF DownPath
          <5>3. c \in 1..n
            OBVIOUS
          <5> QED BY <1>1, <2>2, <5>2, <5>3
        <4>6. k[p] <= k[q]
          BY <2>2, <4>2, <4>5
        <4> QED BY <2>1, <3>1, <3>3, <4>6
      <3> QED BY <3>2, <3>3
    <2> QED BY <2>3, <2>4, <2>5
  <1>12. \A q \in 2..n : q # p => r[Parent(q)].key <= r[q].key
    BY <1>2, <1>3, <1>11
  <1>13. ASSUME p > 1, NEW q \in 2..n, Parent(q) = p PROVE k[Parent(p)] <= k[pi[q]]
    <2>1. k[Parent(p)] <= k[q] /\ Parent(p) \in 1..n /\ q \in 1..n
      BY <1>5, <1>13
    <2>2. q # p
      BY <1>3, <1>13
    <2>3. k[q] <= k[pi[q]]
      <3>1. CASE q \in S
        BY <1>10, <2>2, <3>1
      <3>2. CASE q \notin S
        <4>1. pi[q] = q /\ k[q] \in Int
          BY <1>6, <2>1, <3>2
        <4> QED BY <4>1
      <3> QED BY <3>1, <3>2
    <2>4. k[Parent(p)] \in Int /\ k[q] \in Int /\ k[pi[q]] \in Int
      BY <1>h, <2>1
    <2> QED BY <2>1, <2>3, <2>4
  <1>14. p > 1 => Parent(p) \in 1..n /\ r[Parent(p)].key = k[Parent(p)]
    BY <1>2, <1>5, <1>6
  <1>15. LowAt(r, p)
    <2>1. p > 1 => \A q \in 2..n : Parent(q) = p => r[Parent(p)].key <= r[q].key
      BY <1>2, <1>3, <1>13, <1>14
    <2> QED BY <1>12, <2>1 DEF LowAt
  <1>16. ASSUME p = 1 \/ h[Parent(p)].key <= h[p].key PROVE InHeapOrder(r)
    <2>1. CASE p = 1
      BY <1>12, <2>1 DEF InHeapOrder
    <2>2. CASE p > 1
      <3>1. r[Parent(p)].key = k[Parent(p)] /\ Parent(p) \in 1..n /\ r[p].key = k[pi[p]]
        BY <1>0, <1>2, <1>14, <2>2
      <3>2. CASE pi[p] = p
        <4>1. k[Parent(p)] <= k[p]
          BY <1>1, <1>16, <2>2, <3>1
        <4> QED BY <1>12, <3>1, <3>2, <4>1 DEF InHeapOrder
      <3>3. CASE pi[p] # p
        <4>1. PICK c \in S : c # p /\ Parent(c) = p /\ pi[p] = c
          BY <1>0, <1>8, <3>3
        <4>2. k[Parent(p)] <= k[c]
          BY <1>5, <1>7, <2>2, <4>1
        <4> QED BY <1>12, <3>1, <4>1, <4>2 DEF InHeapOrder
      <3> QED BY <3>2, <3>3
    <2> QED BY <1>0, <2>1, <2>2
  <1> QED BY <1>15, <1>16

(* FixDown puts the item at p where it belongs, unless that is above p. *)
LEMMA FixDownIsRight ==
  ASSUME NEW Nodes, NEW h \in Seq(ItemsOf(Nodes)), NEW p \in 1..Len(h), HoleAt(h, p)
  PROVE  /\ FixDown(h, p) \in Seq(ItemsOf(Nodes)) /\ SameItems(h, FixDown(h, p))
         /\ LowAt(FixDown(h, p), p)
         /\ p = 1 \/ h[Parent(p)].key <= h[p].key => InHeapOrder(FixDown(h, p))
PROOF
  <1>1. PICK n \in Nat : n = Len(h)
    BY LenProperties
  <1>2. PICK S, pi : GoesDown(h, p, n, S, pi)
    BY <1>1, FixDownMoves
  <1>3. PICK r : r = FixDown(h, p)
    OBVIOUS
  <1>4. r \in Seq(ItemsOf(Nodes)) /\ SameItems(h, r)
    BY <1>1, <1>2, <1>3, DownPermutes
  <1>5. Len(r) = n
    BY <1>1, <1>4 DEF SameItems
  <1>6. LowAt(r, p) /\ (p = 1 \/ h[Parent(p)].key <= h[p].key => InHeapOrder(r))
    BY <1>1, <1>2, <1>3, <1>5, DownOrders
  <1> QED BY <1>3, <1>4, <1>6

-----------------------------------------------------------------------------
(* The operations *)

HeapOf(Nodes, h) == h \in Seq(ItemsOf(Nodes)) /\ Alone(h) /\ InHeapOrder(h)

LEMMA ParentsAre ==
  ASSUME NEW n \in Nat
  PROVE  \A q \in 2..n : Parent(q) \in 1..n /\ Parent(q) < q /\ q \in 1..n
PROOF
  <1>1. SUFFICES ASSUME NEW q \in 2..n PROVE Parent(q) \in 1..n /\ Parent(q) < q
    OBVIOUS
  <1>2. Parent(q) \in Nat /\ Parent(q) > 0 /\ Parent(q) < q
    BY ParentIs
  <1> QED BY <1>2

LEMMA KeysAre ==
  ASSUME NEW Nodes, NEW h \in Seq(ItemsOf(Nodes)), NEW q \in 1..Len(h)
  PROVE  h[q].key \in Int /\ h[q].node \in Nodes /\ h[q] = [key |-> h[q].key, node |-> h[q].node]
PROOF
  <1>1. h[q] \in ItemsOf(Nodes)
    BY ElementOfSeq
  <1> QED BY <1>1 DEF ItemsOf

LEMMA InsertIsRight ==
  ASSUME NEW Nodes, NEW h, HeapOf(Nodes, h), NEW key \in Int, NEW node \in Nodes, ~InHeap(h, node),
         NEW r, r = Insert(h, key, node)
  PROVE  /\ HeapOf(Nodes, r) /\ Len(r) = Len(h) + 1
         /\ ToSet(r) = ToSet(h) \union {[key |-> key, node |-> node]}
PROOF
  <1>0. h \in Seq(ItemsOf(Nodes)) /\ Alone(h) /\ InHeapOrder(h)
    BY DEF HeapOf
  <1>1. PICK n \in Nat : n = Len(h)
    BY <1>0, LenProperties
  <1>2. PICK item \in ItemsOf(Nodes) : item = [key |-> key, node |-> node]
    BY DEF ItemsOf
  <1>3. PICK g : g = Append(h, item)
    OBVIOUS
  <1>4. /\ g \in Seq(ItemsOf(Nodes)) /\ Len(g) = n + 1 /\ g[n + 1] = item
        /\ \A q \in 1..n : g[q] = h[q]
    BY <1>0, <1>1, <1>3
  <1>5. \A q \in 2..n : Parent(q) \in 1..n /\ Parent(q) < q /\ q \in 1..n
    BY ParentsAre
  <1>6. LowAt(g, n + 1)
    <2>1. ASSUME NEW q \in 2..n + 1, q # n + 1 PROVE g[Parent(q)].key <= g[q].key
      <3>1. q \in 2..n
        BY <2>1
      <3>2. h[Parent(q)].key <= h[q].key
        BY <1>0, <1>1, <3>1 DEF InHeapOrder
      <3> QED BY <1>4, <1>5, <3>1, <3>2
    <2>2. ASSUME NEW q \in 2..n + 1 PROVE Parent(q) # n + 1
      <3>1. n + 1 \in Nat
        OBVIOUS
      <3>2. Parent(q) < q /\ Parent(q) \in 1..n + 1
        BY <3>1, ParentsAre
      <3> QED BY <3>2
    <2> QED BY <1>4, <2>1, <2>2 DEF LowAt
  <1>7. n + 1 \in 1..Len(g)
    BY <1>4
  <1>8. r = FixUp(g, n + 1)
    BY <1>1, <1>2, <1>3 DEF Insert
  <1>9. r \in Seq(ItemsOf(Nodes)) /\ SameItems(g, r) /\ InHeapOrder(r)
    BY <1>4, <1>6, <1>7, <1>8, FixUpIsRight
  <1>10. Alone(g)
    <2>1. \A q \in 1..n : h[q].node # node
      BY <1>0, <1>1, LenProperties DEF InHeap
    <2>2. \A x, y \in 1..n : h[x].node = h[y].node => x = y
      BY <1>0, <1>1 DEF Alone
    <2>3. item.node = node
      BY <1>2
    <2>4. \A x \in 1..n + 1 : x \in 1..n \/ x = n + 1
      OBVIOUS
    <2>5. \A x, y \in 1..n + 1 : g[x].node = g[y].node => x = y
      BY <1>4, <2>1, <2>2, <2>3, <2>4
    <2> QED BY <1>4, <2>5 DEF Alone
  <1>11. ToSet(g) = ToSet(h) \union {item}
    <2>1. ToSet(g) = {g[q] : q \in 1..n + 1} /\ ToSet(h) = {h[q] : q \in 1..n}
      BY <1>0, <1>1, <1>4, ItemsAre
    <2>2. \A x \in 1..n + 1 : x \in 1..n \/ x = n + 1
      OBVIOUS
    <2>3. n + 1 \in 1..n + 1 /\ 1..n \subseteq 1..n + 1
      OBVIOUS
    <2>4. ASSUME NEW e \in {g[q] : q \in 1..n + 1} PROVE e \in {h[q] : q \in 1..n} \union {item}
      BY <1>4, <2>2, <2>4
    <2>5. ASSUME NEW e \in {h[q] : q \in 1..n} PROVE e \in {g[q] : q \in 1..n + 1}
      BY <1>4, <2>3, <2>5
    <2>6. item \in {g[q] : q \in 1..n + 1}
      BY <1>4, <2>3
    <2> QED BY <2>1, <2>4, <2>5, <2>6
  <1> QED BY <1>1, <1>2, <1>4, <1>9, <1>10, <1>11 DEF SameItems, HeapOf

LEMMA PlaceIs ==
  ASSUME NEW Nodes, NEW h \in Seq(ItemsOf(Nodes)), NEW node, InHeap(h, node)
  PROVE  PosOf(h, node) \in 1..Len(h) /\ h[PosOf(h, node)].node = node
PROOF
  <1>1. DOMAIN h = 1..Len(h)
    BY LenProperties
  <1> QED BY <1>1 DEF InHeap, PosOf

LEMMA FixIsRight ==
  ASSUME NEW Nodes, NEW h, HeapOf(Nodes, h), NEW key \in Int, NEW node \in Nodes, InHeap(h, node),
         NEW r, r = Fix(h, key, node)
  PROVE  /\ HeapOf(Nodes, r) /\ Len(r) = Len(h)
         /\ \A e : e \in ToSet(r) <=>
                     e = [key |-> key, node |-> node] \/ (e \in ToSet(h) /\ e.node # node)
PROOF
  <1>0. h \in Seq(ItemsOf(Nodes)) /\ Alone(h) /\ InHeapOrder(h)
    BY DEF HeapOf
  <1>1. PICK n \in Nat : n = Len(h)
    BY <1>0, LenProperties
  <1>2. PICK p \in 1..n : p = PosOf(h, node) /\ h[p].node = node
    BY <1>0, <1>1, PlaceIs
  <1>3. PICK item \in ItemsOf(Nodes) : item = [key |-> key, node |-> node]
    BY DEF ItemsOf
  <1>4. PICK g : g = [h EXCEPT ![p] = item]
    OBVIOUS
  <1>5. [h EXCEPT ![p].key = key] = g
    <2>1. h[p] = [key |-> h[p].key, node |-> node]
      BY <1>0, <1>1, <1>2, KeysAre
    <2>2. [h[p] EXCEPT !.key = key] = item
      BY <1>3, <2>1
    <2> QED BY <1>4, <2>2
  <1>6. /\ g \in Seq(ItemsOf(Nodes)) /\ Len(g) = n /\ g[p] = item
        /\ \A q \in 1..n : q # p => g[q] = h[q]
    BY <1>0, <1>1, <1>4, ExceptSeq
  <1>7. \A q \in 2..n : Parent(q) \in 1..n /\ Parent(q) < q /\ q \in 1..n
    BY ParentsAre
  <1>8. \A q \in 2..n : h[Parent(q)].key <= h[q].key
    BY <1>0, <1>1 DEF InHeapOrder
  <1>9. \A q \in 1..n : h[q].key \in Int
    BY <1>0, <1>1, KeysAre
  <1>10. \A q \in 2..n : q # p /\ Parent(q) # p => g[Parent(q)].key <= g[q].key
    BY <1>6, <1>7, <1>8
  <1>11. p > 1 => /\ p \in 2..n /\ Parent(p) # p /\ g[Parent(p)] = h[Parent(p)]
                  /\ \A q \in 2..n : Parent(q) = p => g[Parent(p)].key <= g[q].key
    <2>1. SUFFICES ASSUME p > 1
                   PROVE  /\ p \in 2..n /\ Parent(p) # p /\ g[Parent(p)] = h[Parent(p)]
                          /\ \A q \in 2..n : Parent(q) = p => g[Parent(p)].key <= g[q].key
      OBVIOUS
    <2>2. p \in 2..n
      BY <2>1
    <2>3. Parent(p) # p /\ Parent(p) \in 1..n
      BY <1>7, <2>2
    <2>4. g[Parent(p)] = h[Parent(p)]
      BY <1>6, <2>3
    <2>5. ASSUME NEW q \in 2..n, Parent(q) = p PROVE g[Parent(p)].key <= g[q].key
      <3>1. q # p /\ q \in 1..n
        BY <2>3, <2>5
      <3>2. h[Parent(p)].key <= h[p].key /\ h[p].key <= h[q].key
        BY <1>8, <2>2, <2>5
      <3>3. g[q] = h[q]
        BY <1>6, <3>1
      <3> QED BY <1>9, <2>3, <2>4, <3>1, <3>2, <3>3
    <2> QED BY <2>2, <2>3, <2>4, <2>5
  <1>12. HoleAt(g, p)
    BY <1>6, <1>10, <1>11 DEF HoleAt
  <1>13. item.key = key /\ item.node = node
    BY <1>3
  <1>14. r = IF key < h[p].key THEN FixUp(g, p) ELSE FixDown(g, p)
    BY <1>2, <1>5 DEF Fix
  <1>15. p \in 1..Len(g)
    BY <1>6
  <1>16. r \in Seq(ItemsOf(Nodes)) /\ SameItems(g, r) /\ InHeapOrder(r)
    <2>1. CASE key < h[p].key
      <3>1. LowAt(g, p)
        <4>1. ASSUME NEW q \in 2..n, q # p, Parent(q) = p PROVE g[p].key <= g[q].key
          <5>1. h[p].key <= h[q].key /\ g[q] = h[q] /\ h[p].key \in Int /\ h[q].key \in Int
            BY <1>6, <1>7, <1>8, <1>9, <4>1
          <5> QED BY <1>6, <1>13, <2>1, <5>1
        <4>2. \A q \in 2..n : q # p => g[Parent(q)].key <= g[q].key
          BY <1>10, <4>1
        <4> QED BY <1>6, <1>11, <4>2 DEF LowAt
      <3>2. r = FixUp(g, p)
        BY <1>14, <2>1
      <3> QED BY <1>6, <1>15, <3>1, <3>2, FixUpIsRight
    <2>2. CASE ~(key < h[p].key)
      <3>1. r = FixDown(g, p)
        BY <1>14, <2>2
      <3>2. p = 1 \/ g[Parent(p)].key <= g[p].key
        <4>1. CASE p > 1
          <5>1. h[Parent(p)].key <= h[p].key /\ h[Parent(p)].key \in Int /\ h[p].key \in Int
            BY <1>7, <1>8, <1>9, <1>11, <4>1
          <5>2. g[Parent(p)] = h[Parent(p)] /\ g[p].key = key
            BY <1>6, <1>11, <1>13, <4>1
          <5> QED BY <2>2, <5>1, <5>2
        <4> QED BY <4>1
      <3> QED BY <1>6, <1>12, <1>15, <3>1, <3>2, FixDownIsRight
    <2> QED BY <2>1, <2>2
  <1>17. \A x, y \in 1..n : h[x].node = h[y].node => x = y
    BY <1>0, <1>1 DEF Alone
  <1>18. Alone(g)
    <2>1. \A x \in 1..n : g[x].node = h[x].node
      BY <1>2, <1>6, <1>13
    <2> QED BY <1>6, <1>17, <2>1 DEF Alone
  <1>19. \A e : e \in ToSet(g) <=> e = item \/ (e \in ToSet(h) /\ e.node # node)
    <2>1. ToSet(g) = {g[q] : q \in 1..n} /\ ToSet(h) = {h[q] : q \in 1..n}
      BY <1>0, <1>1, <1>6, ItemsAre
    <2>2. ASSUME NEW q \in 1..n, q # p PROVE h[q].node # node
      BY <1>2, <1>17, <2>2
    <2>3. ASSUME NEW q \in 1..n
          PROVE  g[q] = item \/ (g[q] \in ToSet(h) /\ g[q].node # node)
      BY <1>6, <2>1, <2>2
    <2>4. item \in ToSet(g)
      BY <1>6, <2>1
    <2>5. ASSUME NEW q \in 1..n, h[q].node # node PROVE h[q] \in ToSet(g)
      <3>1. q # p
        BY <1>2, <2>5
      <3>2. h[q] = g[q]
        BY <1>6, <3>1
      <3> QED BY <2>1, <3>2
    <2> QED BY <2>1, <2>3, <2>4, <2>5
  <1> QED BY <1>1, <1>3, <1>6, <1>16, <1>18, <1>19 DEF SameItems, HeapOf

LEMMA EraseAtIsRight ==
  ASSUME NEW Nodes, NEW h, HeapOf(Nodes, h), NEW p \in 1..Len(h), NEW r, r = EraseAt(h, p)
  PROVE  /\ HeapOf(Nodes, r) /\ Len(r) = Len(h) - 1
         /\ \A e : e \in ToSet(r) <=> e \in ToSet(h) /\ e.node # h[p].node
PROOF
  <1>0. h \in Seq(ItemsOf(Nodes)) /\ Alone(h) /\ InHeapOrder(h)
    BY DEF HeapOf
  <1>1. PICK m \in Nat : Len(h) = m + 1
    <2>1. Len(h) \in Nat /\ Len(h) >= 1
      BY <1>0, LenProperties
    <2>2. Len(h) - 1 \in Nat /\ Len(h) = (Len(h) - 1) + 1
      BY <2>1
    <2> QED BY <2>2
  <1>2. p \in Nat /\ p >= 1 /\ p <= m + 1 /\ m + 1 \in 1..m + 1 /\ p \in 1..m + 1
    BY <1>1
  <1>3. PICK item \in ItemsOf(Nodes) : item = h[m + 1]
    BY <1>0, <1>1, <1>2, ElementOfSeq
  <1>4. PICK g : g = [q \in 1..m |-> IF q = p THEN item ELSE h[q]]
    OBVIOUS
  <1>7. \A q \in 1..m : q \in 1..m + 1
    OBVIOUS
  <1>8. g \in Seq(ItemsOf(Nodes)) /\ Len(g) = m
    <2>1. \A q \in 1..m + 1 : h[q] \in ItemsOf(Nodes)
      BY <1>0, <1>1, ElementOfSeq
    <2>2. g \in [1..m -> ItemsOf(Nodes)]
      BY <1>4, <1>7, <2>1
    <2> QED BY <2>2, IsSequence
  <1>9. \A q \in 1..m : g[q] = IF q = p THEN item ELSE h[q]
    BY <1>4
  <1>10. r = IF p <= m THEN FixUp(FixDown(g, p), p) ELSE g
    <2>1. Last(h) = item /\ Front(h) = SubSeq(h, 1, m)
      BY <1>1, <1>3 DEF Last, Front
    <2>2. SubSeq(h, 1, m) = [q \in 1..m |-> h[q]]
      <3>1. m \in 0..Len(h)
        BY <1>1
      <3>2. SubSeq(h, 1, m) = Restrict(h, 1..m)
        BY <1>0, <3>1, SubSeqRestrict
      <3> QED BY <3>2 DEF Restrict
    <2>3. CASE p <= m
      <3>1. Refilled(h, p) = g
        BY <1>2, <1>4, <2>1, <2>2, <2>3 DEF Refilled
      <3> QED BY <1>1, <2>3, <3>1 DEF EraseAt
    <2>4. CASE ~(p <= m)
      <3>1. p = m + 1 /\ p = Len(h)
        BY <1>1, <1>2, <2>4
      <3>2. \A q \in 1..m : q # p
        BY <3>1
      <3>3. g = [q \in 1..m |-> h[q]]
        BY <1>4, <3>2
      <3> QED BY <2>1, <2>2, <2>4, <3>1, <3>3 DEF EraseAt
    <2> QED BY <2>3, <2>4
  <1>11. \A q \in 2..m : Parent(q) \in 1..m /\ Parent(q) < q /\ q \in 1..m /\ q \in 2..m + 1
    BY ParentsAre
  <1>12. \A q \in 2..m + 1 : h[Parent(q)].key <= h[q].key
    BY <1>0, <1>1 DEF InHeapOrder
  <1>13. \A q \in 1..m + 1 : h[q].key \in Int
    BY <1>0, <1>1, KeysAre
  <1>14. r \in Seq(ItemsOf(Nodes)) /\ SameItems(g, r) /\ InHeapOrder(r)
    <2>1. CASE p <= m
      <3>1. p \in 1..m /\ p \in 1..Len(g)
        BY <1>2, <1>8, <2>1
      <3>2. HoleAt(g, p)
        <4>1. \A q \in 2..m : q # p /\ Parent(q) # p => g[Parent(q)].key <= g[q].key
          BY <1>9, <1>11, <1>12
        <4>2. ASSUME p > 1, NEW q \in 2..m, Parent(q) = p PROVE g[Parent(p)].key <= g[q].key
          <5>1. p \in 2..m
            BY <3>1, <4>2
          <5>2. q # p /\ q \in 1..m /\ Parent(p) # p /\ Parent(p) \in 1..m
            BY <1>2, <1>11, <4>2, <5>1
          <5>3. g[q] = h[q] /\ g[Parent(p)] = h[Parent(p)]
            BY <1>9, <5>2
          <5>4. h[Parent(p)].key <= h[p].key /\ h[p].key <= h[q].key
            BY <1>11, <1>12, <4>2, <5>1
          <5>5. h[Parent(p)].key \in Int /\ h[p].key \in Int /\ h[q].key \in Int
            BY <1>2, <1>7, <1>13, <5>2
          <5> QED BY <5>3, <5>4, <5>5
        <4> QED BY <1>8, <4>1, <4>2 DEF HoleAt
      <3>3. PICK d : d = FixDown(g, p)
        OBVIOUS
      <3>4. d \in Seq(ItemsOf(Nodes)) /\ SameItems(g, d) /\ LowAt(d, p)
        BY <1>8, <3>1, <3>2, <3>3, FixDownIsRight
      <3>5. p \in 1..Len(d)
        BY <3>1, <3>4 DEF SameItems
      <3>6. r = FixUp(d, p)
        BY <1>10, <2>1, <3>3
      <3>7. r \in Seq(ItemsOf(Nodes)) /\ SameItems(d, r) /\ InHeapOrder(r)
        BY <3>4, <3>5, <3>6, FixUpIsRight
      <3> QED BY <3>4, <3>7 DEF SameItems
    <2>2. CASE ~(p <= m)
      <3>1. r = g /\ p = m + 1
        BY <1>2, <1>10, <2>2
      <3>2. \A q \in 1..m : g[q] = h[q]
        BY <1>9, <3>1
      <3>3. InHeapOrder(g)
        BY <1>8, <1>11, <1>12, <3>2 DEF InHeapOrder
      <3> QED BY <1>8, <3>1, <3>3 DEF SameItems
    <2> QED BY <2>1, <2>2
  <1>15. \A x, y \in 1..m + 1 : h[x].node = h[y].node => x = y
    BY <1>0, <1>1 DEF Alone
  (* The item at q of g was at one place of h, which is not p. *)
  <1>16. \A q \in 1..m : /\ q = p => g[q] = h[m + 1] /\ p # m + 1
                         /\ q # p => g[q] = h[q]
    <2>1. \A q \in 1..m : q # m + 1
      OBVIOUS
    <2> QED BY <1>3, <1>9, <2>1
  <1>17. \A q \in 1..m : q # m + 1 /\ q \in 1..m + 1
    OBVIOUS
  <1>18. Alone(g)
    <2>1. SUFFICES ASSUME NEW x \in 1..m, NEW y \in 1..m, g[x].node = g[y].node PROVE x = y
      BY <1>8 DEF Alone
    <2>2. CASE x # p /\ y # p
      BY <1>15, <1>16, <1>17, <2>1, <2>2
    <2>3. CASE x = p /\ y # p
      <3>1. h[m + 1].node = h[y].node
        BY <1>16, <2>1, <2>3
      <3> QED BY <1>2, <1>15, <1>17, <3>1
    <2>4. CASE y = p /\ x # p
      <3>1. h[m + 1].node = h[x].node
        BY <1>16, <2>1, <2>4
      <3> QED BY <1>2, <1>15, <1>17, <3>1
    <2> QED BY <2>2, <2>3, <2>4
  <1>19. \A e : e \in ToSet(g) <=> e \in ToSet(h) /\ e.node # h[p].node
    <2>1. ToSet(g) = {g[q] : q \in 1..m} /\ ToSet(h) = {h[q] : q \in 1..m + 1}
      BY <1>0, <1>1, <1>8, ItemsAre
    <2>2. ASSUME NEW q \in 1..m PROVE g[q] \in ToSet(h) /\ g[q].node # h[p].node
      <3>1. CASE q = p
        <4>1. g[q] = h[m + 1] /\ p # m + 1
          BY <1>16, <3>1
        <4> QED BY <1>2, <1>15, <2>1, <4>1
      <3>2. CASE q # p
        <4>1. g[q] = h[q] /\ q \in 1..m + 1
          BY <1>16, <1>17, <3>2
        <4> QED BY <1>2, <1>15, <2>1, <3>2, <4>1
      <3> QED BY <3>1, <3>2
    <2>3. ASSUME NEW q \in 1..m + 1, h[q].node # h[p].node PROVE h[q] \in ToSet(g)
      <3>1. q # p
        BY <2>3
      <3>2. CASE q = m + 1
        <4>1. p \in 1..m
          BY <1>2, <3>1, <3>2
        <4>2. h[q] = g[p]
          BY <1>16, <3>2, <4>1
        <4> QED BY <2>1, <4>1, <4>2
      <3>3. CASE q # m + 1
        <4>1. q \in 1..m
          BY <3>3
        <4>2. h[q] = g[q]
          BY <1>16, <3>1, <4>1
        <4> QED BY <2>1, <4>1, <4>2
      <3> QED BY <3>2, <3>3
    <2> QED BY <2>1, <2>2, <2>3
  <1>20. Len(r) = m
    BY <1>8, <1>14 DEF SameItems
  <1> QED BY <1>1, <1>14, <1>18, <1>19, <1>20 DEF SameItems, HeapOf

-----------------------------------------------------------------------------
(* Every call *)

Given(ks) == {[key |-> ks[n], node |-> n] : n \in DOMAIN ks}

HeapInv ==
  /\ HeapOf(HeapNode, array_)
  /\ DOMAIN keys_given \subseteq HeapNode /\ IsFiniteSet(DOMAIN keys_given)
  /\ \A n \in DOMAIN keys_given : keys_given[n] \in Int
  /\ Len(array_) = Cardinality(DOMAIN keys_given)
  /\ ToSet(array_) = Given(keys_given)

LEMMA GivenAre ==
  ASSUME NEW ks, NEW e
  PROVE  e \in Given(ks) <=>
           \E n \in DOMAIN ks : e = [key |-> ks[n], node |-> n] /\ e.node = n /\ e.key = ks[n]
PROOF BY DEF Given

LEMMA InHeapIs ==
  ASSUME HeapInv, NEW n
  PROVE  InHeap(array_, n) <=> n \in DOMAIN keys_given
PROOF
  <1>1. array_ \in Seq(ItemsOf(HeapNode)) /\ ToSet(array_) = Given(keys_given)
    BY DEF HeapInv, HeapOf
  <1>2. DOMAIN array_ = 1..Len(array_) /\ ToSet(array_) = {array_[q] : q \in 1..Len(array_)}
    BY <1>1, LenProperties, ItemsAre
  <1>3. InHeap(array_, n) <=> \E e \in ToSet(array_) : e.node = n
    BY <1>2 DEF InHeap
  <1>4. ASSUME NEW e \in Given(keys_given) PROVE e.node \in DOMAIN keys_given
    BY <1>4, GivenAre
  <1>5. ASSUME n \in DOMAIN keys_given PROVE \E e \in Given(keys_given) : e.node = n
    <2>1. PICK e : e = [key |-> keys_given[n], node |-> n]
      OBVIOUS
    <2>2. e \in Given(keys_given) /\ e.node = n
      BY <1>5, <2>1 DEF Given
    <2> QED BY <2>2
  <1> QED BY <1>1, <1>3, <1>4, <1>5

LEMMA HeapInvInit == HeapInit => HeapInv
PROOF
  <1>1. SUFFICES ASSUME HeapInit PROVE HeapInv
    OBVIOUS
  <1>2. array_ = <<>> /\ keys_given = <<>>
    BY <1>1 DEF HeapInit
  <1>3. array_ \in Seq(ItemsOf(HeapNode)) /\ Len(array_) = 0
    BY <1>2, EmptySeq
  <1>4. DOMAIN keys_given = {}
    BY <1>2
  <1>5. HeapOf(HeapNode, array_)
    BY <1>3 DEF HeapOf, Alone, InHeapOrder
  <1>6. ToSet(array_) = {}
    <2>1. ToSet(array_) = {array_[q] : q \in 1..Len(array_)}
      BY <1>3, ItemsAre
    <2> QED BY <1>3, <2>1
  <1>7. Given(keys_given) = {}
    BY <1>4 DEF Given
  <1> QED BY <1>3, <1>4, <1>5, <1>6, <1>7, FS_EmptySet DEF HeapInv

LEMMA HeapInsertKeeps ==
  ASSUME HeapInv, NEW n \in HeapNode, NEW k \in HeapKey, HeapInsert(n, k)
  PROVE  HeapInv'
PROOF
  <1>1. k \in Int
    BY HeapAssumption
  <1>2. ~InHeap(array_, n) /\ n \notin DOMAIN keys_given
    BY InHeapIs DEF HeapInsert
  <1>3. HeapOf(HeapNode, array_) /\ array_' = Insert(array_, k, n)
    BY DEF HeapInv, HeapInsert
  <1>4. /\ HeapOf(HeapNode, array_') /\ Len(array_') = Len(array_) + 1
        /\ ToSet(array_') = ToSet(array_) \union {[key |-> k, node |-> n]}
    BY <1>1, <1>2, <1>3, InsertIsRight
  <1>5. /\ DOMAIN keys_given' = DOMAIN keys_given \union {n} /\ keys_given'[n] = k
        /\ \A m \in DOMAIN keys_given : keys_given'[m] = keys_given[m]
    BY <1>2 DEF HeapInsert
  <1>6. IsFiniteSet(DOMAIN keys_given') /\ Cardinality(DOMAIN keys_given') = Cardinality(DOMAIN keys_given) + 1
    BY <1>2, <1>5, FS_AddElement DEF HeapInv
  <1>7. ToSet(array_') = Given(keys_given')
    <2>1. ToSet(array_) = Given(keys_given)
      BY DEF HeapInv
    <2>2. Given(keys_given') = Given(keys_given) \union {[key |-> k, node |-> n]}
      BY <1>5 DEF Given
    <2> QED BY <1>4, <2>1, <2>2
  <1>8. Len(array_) = Cardinality(DOMAIN keys_given) /\ DOMAIN keys_given \subseteq HeapNode
        /\ \A m \in DOMAIN keys_given : keys_given[m] \in Int
    BY DEF HeapInv
  <1>9. \A m \in DOMAIN keys_given' : keys_given'[m] \in Int
    BY <1>1, <1>5, <1>8
  <1> QED BY <1>4, <1>5, <1>6, <1>7, <1>8, <1>9 DEF HeapInv

LEMMA HeapFixKeeps ==
  ASSUME HeapInv, NEW n \in HeapNode, NEW k \in HeapKey, HeapFix(n, k)
  PROVE  HeapInv'
PROOF
  <1>1. k \in Int
    BY HeapAssumption
  <1>2. InHeap(array_, n) /\ n \in DOMAIN keys_given
    BY InHeapIs DEF HeapFix
  <1>3. HeapOf(HeapNode, array_) /\ array_' = Fix(array_, k, n)
    BY DEF HeapInv, HeapFix
  <1>4. /\ HeapOf(HeapNode, array_') /\ Len(array_') = Len(array_)
        /\ \A e : e \in ToSet(array_') <=>
                    e = [key |-> k, node |-> n] \/ (e \in ToSet(array_) /\ e.node # n)
    BY <1>1, <1>2, <1>3, FixIsRight
  <1>5. /\ DOMAIN keys_given' = DOMAIN keys_given /\ keys_given'[n] = k
        /\ \A m \in DOMAIN keys_given : m # n => keys_given'[m] = keys_given[m]
    BY <1>2 DEF HeapFix
  <1>6. ToSet(array_) = Given(keys_given)
    BY DEF HeapInv
  <1>7. ASSUME NEW e PROVE e \in ToSet(array_') <=> e \in Given(keys_given')
    <2>1. e \in Given(keys_given') <=> \E m \in DOMAIN keys_given : e = [key |-> keys_given'[m], node |-> m]
      BY <1>5 DEF Given
    <2>2. e \in Given(keys_given) <=> \E m \in DOMAIN keys_given : e = [key |-> keys_given[m], node |-> m]
      BY DEF Given
    <2>3. ASSUME e \in ToSet(array_') PROVE e \in Given(keys_given')
      <3>1. CASE e = [key |-> k, node |-> n]
        BY <1>2, <1>5, <2>1, <3>1
      <3>2. CASE e \in ToSet(array_) /\ e.node # n
        <4>1. PICK m \in DOMAIN keys_given : e = [key |-> keys_given[m], node |-> m]
          BY <1>6, <2>2, <3>2
        <4>2. m # n
          BY <3>2, <4>1
        <4> QED BY <1>5, <2>1, <4>1, <4>2
      <3> QED BY <1>4, <2>3, <3>1, <3>2
    <2>4. ASSUME e \in Given(keys_given') PROVE e \in ToSet(array_')
      <3>1. PICK m \in DOMAIN keys_given : e = [key |-> keys_given'[m], node |-> m]
        BY <2>1, <2>4
      <3>2. CASE m = n
        BY <1>4, <1>5, <3>1, <3>2
      <3>3. CASE m # n
        <4>1. e \in Given(keys_given) /\ e.node # n
          BY <1>5, <2>2, <3>1, <3>3
        <4> QED BY <1>4, <1>6, <4>1
      <3> QED BY <3>2, <3>3
    <2> QED BY <2>3, <2>4
  <1>8. ToSet(array_') = Given(keys_given')
    BY <1>7
  <1>9. /\ Len(array_) = Cardinality(DOMAIN keys_given) /\ DOMAIN keys_given \subseteq HeapNode
        /\ IsFiniteSet(DOMAIN keys_given) /\ \A m \in DOMAIN keys_given : keys_given[m] \in Int
    BY DEF HeapInv
  <1>10. \A m \in DOMAIN keys_given' : keys_given'[m] \in Int
    BY <1>1, <1>5, <1>9
  <1> QED BY <1>4, <1>5, <1>8, <1>9, <1>10 DEF HeapInv

(* The item at p goes, and its node with it. *)
LEMMA EraseKeeps ==
  ASSUME HeapInv, NEW p \in 1..Len(array_), array_' = EraseAt(array_, p),
         keys_given' = Forget(array_[p].node)
  PROVE  HeapInv'
PROOF
  <1>1. /\ HeapOf(HeapNode, array_) /\ ToSet(array_) = Given(keys_given)
        /\ Len(array_) = Cardinality(DOMAIN keys_given) /\ DOMAIN keys_given \subseteq HeapNode
        /\ IsFiniteSet(DOMAIN keys_given) /\ \A m \in DOMAIN keys_given : keys_given[m] \in Int
    BY DEF HeapInv
  <1>2. /\ HeapOf(HeapNode, array_') /\ Len(array_') = Len(array_) - 1
        /\ \A e : e \in ToSet(array_') <=> e \in ToSet(array_) /\ e.node # array_[p].node
    BY <1>1, EraseAtIsRight
  <1>3. PICK n : n = array_[p].node
    OBVIOUS
  <1>4. n \in DOMAIN keys_given
    <2>1. array_ \in Seq(ItemsOf(HeapNode))
      BY <1>1 DEF HeapOf
    <2>2. InHeap(array_, n)
      BY <1>3, <2>1, LenProperties DEF InHeap
    <2> QED BY <2>2, InHeapIs
  <1>5. /\ DOMAIN keys_given' = DOMAIN keys_given \ {n}
        /\ \A m \in DOMAIN keys_given' : keys_given'[m] = keys_given[m]
    BY <1>3 DEF Forget
  <1>6. /\ IsFiniteSet(DOMAIN keys_given')
        /\ Cardinality(DOMAIN keys_given') = Cardinality(DOMAIN keys_given) - 1
    BY <1>1, <1>4, <1>5, FS_RemoveElement
  <1>7. ASSUME NEW e PROVE e \in ToSet(array_') <=> e \in Given(keys_given')
    <2>1. e \in Given(keys_given') <=>
            \E m \in DOMAIN keys_given \ {n} : e = [key |-> keys_given[m], node |-> m]
      BY <1>5 DEF Given
    <2>2. e \in Given(keys_given) <=> \E m \in DOMAIN keys_given : e = [key |-> keys_given[m], node |-> m]
      BY DEF Given
    <2>3. \A m : e = [key |-> keys_given[m], node |-> m] => e.node = m
      OBVIOUS
    <2>4. e \in Given(keys_given') <=> e \in Given(keys_given) /\ e.node # n
      BY <2>1, <2>2, <2>3
    <2> QED BY <1>1, <1>2, <1>3, <2>4
  <1>8. ToSet(array_') = Given(keys_given')
    BY <1>7
  <1> QED BY <1>1, <1>2, <1>5, <1>6, <1>8 DEF HeapInv

LEMMA HeapInvNext == HeapInv /\ [HeapNext]_heapVars => HeapInv'
PROOF
  <1> SUFFICES ASSUME HeapInv, [HeapNext]_heapVars PROVE HeapInv'
    OBVIOUS
  <1>1. ASSUME NEW n \in HeapNode, HeapErase(n) PROVE HeapInv'
    <2>1. array_ \in Seq(ItemsOf(HeapNode)) /\ InHeap(array_, n)
      BY <1>1 DEF HeapInv, HeapOf, HeapErase
    <2>2. PICK p \in 1..Len(array_) : p = PosOf(array_, n) /\ array_[p].node = n
      BY <2>1, PlaceIs
    <2>3. array_' = EraseAt(array_, p) /\ keys_given' = Forget(array_[p].node)
      BY <1>1, <2>2 DEF HeapErase, Erase
    <2> QED BY <2>3, EraseKeeps
  <1>2. CASE HeapPop
    <2>1. array_ \in Seq(ItemsOf(HeapNode)) /\ array_ # <<>>
      BY <1>2 DEF HeapInv, HeapOf, HeapPop
    <2>2. 1 \in 1..Len(array_)
      BY <2>1, EmptySeq
    <2>3. array_' = EraseAt(array_, 1) /\ keys_given' = Forget(array_[1].node)
      BY <1>2 DEF HeapPop, WithoutTop
    <2> QED BY <2>2, <2>3, EraseKeeps
  <1>3. CASE UNCHANGED heapVars
    BY <1>3 DEF heapVars, HeapInv
  <1>4. ASSUME NEW n \in HeapNode, NEW k \in HeapKey, HeapInsert(n, k) \/ HeapFix(n, k)
        PROVE  HeapInv'
    BY <1>4, HeapInsertKeeps, HeapFixKeeps
  <1> QED BY <1>1, <1>2, <1>3, <1>4 DEF HeapNext

(* KHeap: whatever is inserted, given another key or erased, in whatever order *)
(* and at whatever place, the array stays a heap of exactly the nodes in it, with *)
(* the keys they were last given.  TLC checks it on six nodes and two keys.    *)
THEOREM HeapStaysRight == HeapSpec => []HeapIsRight
PROOF
  <1>1. HeapInv => HeapIsRight
    <2>1. SUFFICES ASSUME HeapInv PROVE HeapIsRight
      OBVIOUS
    <2>2. \A p \in 2..Len(array_) : array_[Parent(p)].key <= array_[p].key
      BY <2>1 DEF HeapInv, HeapOf, InHeapOrder
    <2> QED BY <2>1, <2>2 DEF HeapInv, HeapIsRight, Given
  <1> QED BY <1>1, HeapInvInit, HeapInvNext, PTL DEF HeapSpec

-----------------------------------------------------------------------------
(* Timers, for any keys of a MultiTimeout, deadlines and calls, and any arity *)
(* of the heaps                                                              *)
-----------------------------------------------------------------------------

LEMMA TopIsLeast ==
  ASSUME NEW Nodes, NEW h, HeapOf(Nodes, h), h # <<>>
  PROVE  /\ Len(h) \in Nat /\ 1 \in 1..Len(h) /\ h[1] \in ToSet(h)
         /\ TopKey(h) \in Int /\ h[1].node \in Nodes
         /\ \A e \in ToSet(h) : e.key \in Int /\ TopKey(h) <= e.key
PROOF
  <1>1. h \in Seq(ItemsOf(Nodes)) /\ InHeapOrder(h)
    BY DEF HeapOf
  <1>2. PICK n \in Nat : n = Len(h)
    BY <1>1, LenProperties
  <1>3. n # 0
    BY <1>1, <1>2, EmptySeq
  <1>4. 1 \in 1..n
    BY <1>3
  <1>5. ToSet(h) = {h[q] : q \in 1..n}
    BY <1>1, <1>2, ItemsAre
  <1>6. \A q \in 1..n : h[q].key \in Int /\ h[q].node \in Nodes
    BY <1>1, <1>2, KeysAre
  <1>7. \A q \in 1..n : h[1].key <= h[q].key
    <2>1. PICK S : S = {q \in 1..n : ~(h[1].key <= h[q].key)}
      OBVIOUS
    <2>2. SUFFICES ASSUME S # {} PROVE FALSE
      BY <2>1
    <2>3. S \in SUBSET Nat
      BY <2>1
    <2>4. PICK q \in S : \A m \in S : q <= m
      BY <2>2, <2>3, LeastPosition
    <2>5. q \in 1..n /\ ~(h[1].key <= h[q].key)
      BY <2>1, <2>4
    <2>6. q # 1
      BY <1>4, <1>6, <2>5
    <2>7. q \in 2..n
      BY <2>5, <2>6
    <2>8. Parent(q) \in 1..n /\ Parent(q) < q
      BY <2>7, ParentsAre
    <2>9. Parent(q) \notin S
      BY <2>4, <2>5, <2>8
    <2>10. h[1].key <= h[Parent(q)].key
      BY <2>1, <2>8, <2>9
    <2>11. h[Parent(q)].key <= h[q].key
      BY <1>1, <1>2, <2>7 DEF InHeapOrder
    <2> QED BY <1>4, <1>6, <2>5, <2>8, <2>10, <2>11
  <1> QED BY <1>2, <1>4, <1>5, <1>6, <1>7 DEF TopKey

LEMMA InHeapItems ==
  ASSUME NEW Nodes, NEW h, HeapOf(Nodes, h), NEW a
  PROVE  /\ InHeap(h, a) <=> \E e \in ToSet(h) : e.node = a
         /\ InHeap(h, a) => h[PosOf(h, a)] \in ToSet(h) /\ h[PosOf(h, a)].node = a
PROOF
  <1>1. h \in Seq(ItemsOf(Nodes))
    BY DEF HeapOf
  <1>2. DOMAIN h = 1..Len(h) /\ ToSet(h) = {h[q] : q \in 1..Len(h)}
    BY <1>1, LenProperties, ItemsAre
  <1>3. InHeap(h, a) <=> \E e \in ToSet(h) : e.node = a
    BY <1>2 DEF InHeap
  <1>4. ASSUME InHeap(h, a) PROVE PosOf(h, a) \in 1..Len(h) /\ h[PosOf(h, a)].node = a
    BY <1>1, <1>4, PlaceIs
  <1> QED BY <1>2, <1>3, <1>4

LEMMA WithTimeoutIs ==
  ASSUME NEW Nodes, NEW h, HeapOf(Nodes, h), NEW a \in Nodes, NEW t \in Int, NEW r, r = WithTimeout(h, a, t)
  PROVE  /\ HeapOf(Nodes, r)
         /\ \A e : e \in ToSet(r) <=>
                     e = [key |-> t, node |-> a] \/ (e \in ToSet(h) /\ e.node # a)
PROOF
  <1>1. CASE InHeap(h, a)
    <2>1. r = Fix(h, t, a)
      BY <1>1 DEF WithTimeout
    <2> QED BY <1>1, <2>1, FixIsRight
  <1>2. CASE ~InHeap(h, a)
    <2>1. r = Insert(h, t, a)
      BY <1>2 DEF WithTimeout
    <2>2. HeapOf(Nodes, r) /\ ToSet(r) = ToSet(h) \union {[key |-> t, node |-> a]}
      BY <1>2, <2>1, InsertIsRight
    <2>3. \A e \in ToSet(h) : e.node # a
      BY <1>2, InHeapItems
    <2> QED BY <2>2, <2>3
  <1> QED BY <1>1, <1>2

LEMMA EraseIs ==
  ASSUME NEW Nodes, NEW h, HeapOf(Nodes, h), NEW a, InHeap(h, a), NEW r, r = Erase(h, a)
  PROVE  /\ HeapOf(Nodes, r)
         /\ \A e : e \in ToSet(r) <=> e \in ToSet(h) /\ e.node # a
PROOF
  <1>1. h \in Seq(ItemsOf(Nodes))
    BY DEF HeapOf
  <1>2. PICK p \in 1..Len(h) : p = PosOf(h, a) /\ h[p].node = a
    BY <1>1, PlaceIs
  <1>3. r = EraseAt(h, p)
    BY <1>2 DEF Erase
  <1>4. HeapOf(Nodes, r) /\ \A e : e \in ToSet(r) <=> e \in ToSet(h) /\ e.node # h[p].node
    BY <1>3, EraseAtIsRight
  <1> QED BY <1>2, <1>4

LEMMA WithoutTopIs ==
  ASSUME NEW Nodes, NEW h, HeapOf(Nodes, h), h # <<>>, NEW r, r = WithoutTop(h)
  PROVE  /\ HeapOf(Nodes, r) /\ Len(r) = Len(h) - 1
         /\ \A e : e \in ToSet(r) <=> e \in ToSet(h) /\ e.node # h[1].node
PROOF
  <1>1. 1 \in 1..Len(h)
    BY TopIsLeast
  <1>2. r = EraseAt(h, 1)
    BY DEF WithoutTop
  <1> QED BY <1>1, <1>2, EraseAtIsRight

(* The first deadline is the same when it is another node's that changed. *)
LEMMA TopKept ==
  ASSUME NEW Nodes, NEW h, NEW r, HeapOf(Nodes, h), HeapOf(Nodes, r), h # <<>>, r # <<>>, NEW k,
         \A e : e.node # k => (e \in ToSet(h) <=> e \in ToSet(r)),
         h[1].node # k, r[1].node # k
  PROVE  TopKey(h) = TopKey(r)
PROOF
  <1>1. /\ h[1] \in ToSet(h) /\ TopKey(h) \in Int
        /\ \A e \in ToSet(h) : TopKey(h) <= e.key
    BY TopIsLeast
  <1>2. /\ r[1] \in ToSet(r) /\ TopKey(r) \in Int
        /\ \A e \in ToSet(r) : TopKey(r) <= e.key
    BY TopIsLeast
  <1>3. h[1] \in ToSet(r) /\ r[1] \in ToSet(h)
    BY <1>1, <1>2
  <1>4. TopKey(h) = h[1].key /\ TopKey(r) = r[1].key
    BY DEF TopKey
  <1>5. TopKey(r) <= TopKey(h) /\ TopKey(h) <= TopKey(r)
    BY <1>1, <1>2, <1>3, <1>4
  <1> QED BY <1>1, <1>2, <1>5

LEMMA MinIsTop ==
  ASSUME NEW Nodes, NEW h, HeapOf(Nodes, h), h # <<>>
  PROVE  Min({h[p].key : p \in DOMAIN h}) = TopKey(h)
PROOF
  <1>1. h \in Seq(ItemsOf(Nodes))
    BY DEF HeapOf
  <1>2. DOMAIN h = 1..Len(h) /\ ToSet(h) = {h[q] : q \in 1..Len(h)} /\ 1 \in 1..Len(h)
    BY <1>1, LenProperties, ItemsAre, TopIsLeast
  <1>3. TopKey(h) = h[1].key /\ TopKey(h) \in Int
    BY TopIsLeast DEF TopKey
  <1>4. \A q \in 1..Len(h) : h[q].key \in Int /\ TopKey(h) <= h[q].key
    BY <1>2, TopIsLeast
  <1>5. PICK S : S = {h[p].key : p \in DOMAIN h}
    OBVIOUS
  <1>6. TopKey(h) \in S /\ \A y \in S : y \in Int /\ TopKey(h) <= y
    BY <1>2, <1>3, <1>4, <1>5
  <1>7. PICK m : m = Min(S)
    OBVIOUS
  <1>8. m \in S /\ \A y \in S : m <= y
    BY <1>6, <1>7 DEF Min
  <1>9. m <= TopKey(h) /\ TopKey(h) <= m /\ m \in Int
    BY <1>6, <1>8
  <1> QED BY <1>3, <1>5, <1>7, <1>9

NodesOf(h) == {e.node : e \in ToSet(h)}

(* f has what m pops of h leave, one after another. *)
Popping(h, m, f) == f = [i \in 0..m |-> IF i = 0 THEN h ELSE WithoutTop(f[i - 1])]

LEMMA PoppingExists ==
  ASSUME NEW h, NEW m \in Nat
  PROVE  \E f : Popping(h, m, f)
PROOF
  <1>1. PICK S : S = {i \in Nat : ~\E f : Popping(h, i, f)}
    OBVIOUS
  <1>2. SUFFICES ASSUME S # {} PROVE FALSE
    BY <1>1
  <1>3. S \in SUBSET Nat
    BY <1>1
  <1>4. PICK n \in S : \A i \in S : n <= i
    BY <1>2, <1>3, LeastPosition
  <1>5. n \in Nat /\ ~\E f : Popping(h, n, f)
    BY <1>1, <1>4
  <1>6. n # 0
    <2>1. PICK f : f = [i \in 0..0 |-> h]
      OBVIOUS
    <2>2. \A i \in 0..0 : i = 0
      OBVIOUS
    <2>3. [i \in 0..0 |-> h] = [i \in 0..0 |-> IF i = 0 THEN h ELSE WithoutTop(f[i - 1])]
      BY <2>2
    <2>4. Popping(h, 0, f)
      BY <2>1, <2>3 DEF Popping
    <2> QED BY <1>5, <2>4
  <1>7. n - 1 \in Nat /\ n - 1 \notin S
    BY <1>4, <1>5, <1>6
  <1>8. PICK g : Popping(h, n - 1, g)
    BY <1>1, <1>7
  <1>9. PICK f : f = [i \in 0..n |-> IF i = n THEN WithoutTop(g[n - 1]) ELSE g[i]]
    OBVIOUS
  <1>10. \A i \in 0..n - 1 : f[i] = g[i] /\ g[i] = IF i = 0 THEN h ELSE WithoutTop(g[i - 1])
    BY <1>5, <1>8, <1>9 DEF Popping
  <1>11. ASSUME NEW i \in 0..n
         PROVE  (IF i = n THEN WithoutTop(g[n - 1]) ELSE g[i])
                  = IF i = 0 THEN h ELSE WithoutTop(f[i - 1])
    <2>1. CASE i = n
      <3>1. n - 1 \in 0..n - 1
        BY <1>7
      <3> QED BY <1>6, <1>10, <2>1, <3>1
    <2>2. CASE i # n /\ i # 0
      <3>1. i \in 0..n - 1 /\ i - 1 \in 0..n - 1
        BY <1>5, <2>2
      <3> QED BY <1>10, <2>2, <3>1
    <2>3. CASE i # n /\ i = 0
      <3>1. i \in 0..n - 1
        BY <1>7, <2>3
      <3> QED BY <1>10, <2>3, <3>1
    <2> QED BY <2>1, <2>2, <2>3
  <1>12. [i \in 0..n |-> IF i = n THEN WithoutTop(g[n - 1]) ELSE g[i]]
           = [i \in 0..n |-> IF i = 0 THEN h ELSE WithoutTop(f[i - 1])]
    BY <1>11
  <1>13. Popping(h, n, f)
    BY <1>9, <1>12 DEF Popping
  <1> QED BY <1>5, <1>13

LEMMA AfterPopsIs ==
  ASSUME NEW h, Len(h) \in Nat
  PROVE  /\ AfterPops(h)[0] = h
         /\ \A i \in 1..Len(h) : AfterPops(h)[i] = WithoutTop(AfterPops(h)[i - 1])
PROOF
  <1>1. PICK a : a = AfterPops(h)
    OBVIOUS
  <1>2. a = CHOOSE f : Popping(h, Len(h), f)
    BY <1>1 DEF AfterPops, Popping
  <1>3. Popping(h, Len(h), a)
    BY <1>2, PoppingExists
  <1>4. \A i \in 0..Len(h) : a[i] = IF i = 0 THEN h ELSE WithoutTop(a[i - 1])
    BY <1>3 DEF Popping
  <1>5. \A i \in 1..Len(h) : i \in 0..Len(h) /\ i # 0
    OBVIOUS
  <1>6. a[0] = h
    BY <1>4
  <1> QED BY <1>1, <1>4, <1>5, <1>6

(* m pops take m nodes away. *)
PopsRight(Nodes, h, a, m) ==
  /\ HeapOf(Nodes, a[m]) /\ Len(a[m]) = Len(h) - m
  /\ NodesOf(a[m]) = NodesOf(h) \ {a[i - 1][1].node : i \in 1..m}

LEMMA PopsAre ==
  ASSUME NEW Nodes, NEW h, HeapOf(Nodes, h), NEW m \in 0..Len(h)
  PROVE  PopsRight(Nodes, h, AfterPops(h), m)
PROOF
  <1>0. Len(h) \in Nat
    BY LenProperties DEF HeapOf
  <1>1. PICK a : a = AfterPops(h)
    OBVIOUS
  <1>2. a[0] = h /\ \A i \in 1..Len(h) : a[i] = WithoutTop(a[i - 1])
    BY <1>0, <1>1, AfterPopsIs
  <1>3. PICK S : S = {i \in 0..Len(h) : ~PopsRight(Nodes, h, a, i)}
    OBVIOUS
  <1>4. SUFFICES ASSUME S # {} PROVE FALSE
    BY <1>1, <1>3
  <1>5. S \in SUBSET Nat
    BY <1>3
  <1>6. PICK n \in S : \A i \in S : n <= i
    BY <1>4, <1>5, LeastPosition
  <1>7. n \in 0..Len(h) /\ ~PopsRight(Nodes, h, a, n)
    BY <1>3, <1>6
  <1>8. n # 0
    <2>1. {a[i - 1][1].node : i \in 1..0} = {}
      OBVIOUS
    <2>2. PopsRight(Nodes, h, a, 0)
      BY <1>0, <1>2, <2>1 DEF PopsRight
    <2> QED BY <1>7, <2>2
  <1>9. n \in 1..Len(h) /\ n - 1 \in 0..Len(h) /\ n - 1 \notin S /\ n \in Nat
    BY <1>0, <1>6, <1>7, <1>8
  <1>10. PICK b : b = a[n - 1]
    OBVIOUS
  <1>11. /\ HeapOf(Nodes, b) /\ Len(b) = Len(h) - (n - 1)
         /\ NodesOf(b) = NodesOf(h) \ {a[i - 1][1].node : i \in 1..n - 1}
    BY <1>3, <1>9, <1>10 DEF PopsRight
  <1>12. b # <<>>
    <2>1. Len(b) # 0
      BY <1>0, <1>9, <1>11
    <2> QED BY <2>1
  <1>13. a[n] = WithoutTop(b)
    BY <1>2, <1>9, <1>10
  <1>14. /\ HeapOf(Nodes, a[n]) /\ Len(a[n]) = Len(b) - 1
         /\ \A e : e \in ToSet(a[n]) <=> e \in ToSet(b) /\ e.node # b[1].node
    BY <1>11, <1>12, <1>13, WithoutTopIs
  <1>15. NodesOf(a[n]) = NodesOf(b) \ {b[1].node}
    BY <1>14 DEF NodesOf
  <1>16. {a[i - 1][1].node : i \in 1..n} = {a[i - 1][1].node : i \in 1..n - 1} \union {b[1].node}
    <2>1. \A i \in 1..n : i \in 1..n - 1 \/ i = n
      BY <1>9
    <2>2. n \in 1..n /\ 1..n - 1 \subseteq 1..n
      BY <1>9
    <2> QED BY <1>10, <2>1, <2>2
  <1>17. Len(a[n]) = Len(h) - n
    BY <1>0, <1>9, <1>11, <1>14
  <1>18. NodesOf(a[n]) = NodesOf(h) \ {a[i - 1][1].node : i \in 1..n}
    BY <1>11, <1>15, <1>16
  <1>19. PopsRight(Nodes, h, a, n)
    BY <1>14, <1>17, <1>18 DEF PopsRight
  <1> QED BY <1>7, <1>19

LEMMA TakenIs ==
  ASSUME NEW Nodes, NEW h, HeapOf(Nodes, h), NEW t
  PROVE  /\ HeapOf(Nodes, Unexpired(h, t))
         /\ NodesOf(Unexpired(h, t)) = NodesOf(h) \ ToSet(Expired(h, t))
PROOF
  <1>0. Len(h) \in Nat
    BY LenProperties DEF HeapOf
  <1>1. PICK S : S = {n \in 0..Len(h) : n = Len(h) \/ TopKey(AfterPops(h)[n]) >= t}
    OBVIOUS
  <1>2. S \in SUBSET Nat /\ Len(h) \in S
    BY <1>0, <1>1
  <1>3. PICK m \in S : \A i \in S : m <= i
    BY <1>2, LeastPosition
  <1>4. PICK n : n = ExpiredCount(h, t)
    OBVIOUS
  <1>5. n \in S
    BY <1>1, <1>3, <1>4 DEF ExpiredCount, Min
  <1>6. n \in 0..Len(h)
    BY <1>1, <1>5
  <1>7. PopsRight(Nodes, h, AfterPops(h), n)
    BY <1>6, PopsAre
  <1>8. Unexpired(h, t) = AfterPops(h)[n]
    BY <1>4 DEF Unexpired
  <1>9. ToSet(Expired(h, t)) = {AfterPops(h)[i - 1][1].node : i \in 1..n}
    BY <1>4 DEF Expired, ToSet
  <1> QED BY <1>7, <1>8, <1>9 DEF PopsRight

TimerActor == {"multi", "single"}
MailEvent  == {"none", "Start", "Yield", "Timeout"}

(* The scheduler's heap has the MultiTimeout, if at all, at its first deadline. *)
AtFirst(heap, keys) == \A e \in ToSet(heap) : e.node = "multi" => e.key = TopKey(keys)
HasMulti(heap)      == \E e \in ToSet(heap) : e.node = "multi"

(* A Timeout event is still to be handled. *)
TimeoutWaits ==
  \E p \in 1..Len(mail["multi"]) :
    mail["multi"][p] = "Timeout" /\ (in_guard = "multi" => p > events.done)

HeapsRight ==
  /\ HeapOf(TimerActor, timeout_queue_)
  /\ HeapOf(TimerKey, key_queue_) /\ items_ = NodesOf(key_queue_)
  /\ "pending" \notin failures

MailRight ==
  /\ mail = [a \in TimerActor |-> mail[a]] /\ mail["multi"] \in Seq(MailEvent)
  /\ events.done \in Nat

WatchRight ==
  items_ # {} =>
    AtFirst(timeout_queue_, key_queue_) /\ (HasMulti(timeout_queue_) \/ TimeoutWaits)

TimersInv == HeapsRight /\ MailRight /\ WatchRight

LEMMA NoItems ==
  ASSUME NEW Nodes, NEW h, HeapOf(Nodes, h)
  PROVE  h = <<>> <=> NodesOf(h) = {}
PROOF
  <1>1. h \in Seq(ItemsOf(Nodes))
    BY DEF HeapOf
  <1>2. ASSUME h = <<>> PROVE NodesOf(h) = {}
    BY <1>2 DEF NodesOf, ToSet
  <1>3. ASSUME h # <<>> PROVE NodesOf(h) # {}
    <2>1. h[1] \in ToSet(h)
      BY <1>3, TopIsLeast
    <2> QED BY <2>1 DEF NodesOf
  <1> QED BY <1>2, <1>3

LEMMA MultiInHeap ==
  ASSUME NEW h, HeapOf(TimerActor, h)
  PROVE  HasMulti(h) <=> InHeap(h, "multi")
PROOF BY InHeapItems DEF HasMulti

LEMMA UpdateKeeps ==
  ASSUME NEW heap, HeapOf(TimerActor, heap), HeapOf(TimerKey, key_queue_'),
         items_' = NodesOf(key_queue_'), "pending" \notin failures, UpdateTimeout(heap),
         items_' # {} \/ HasMulti(heap) \/ "Timeout" \in ToSet(mail["multi"])
  PROVE  /\ HeapOf(TimerActor, timeout_queue_') /\ "pending" \notin failures'
         /\ items_' # {} => AtFirst(timeout_queue_', key_queue_') /\ HasMulti(timeout_queue_')
PROOF
  <1>1. CASE items_' # {}
    <2>1. key_queue_' # <<>>
      BY <1>1, NoItems
    <2>2. TopKey(key_queue_') \in Int
      BY <2>1, TopIsLeast
    <2>3. PICK t \in Int : t = TopKey(key_queue_')
      BY <2>2
    <2>4. timeout_queue_' = WithTimeout(heap, "multi", t) /\ failures' = failures
      BY <1>1, <2>3 DEF UpdateTimeout
    <2>5. "multi" \in TimerActor
      BY DEF TimerActor
    <2>6. /\ HeapOf(TimerActor, timeout_queue_')
          /\ \A e : e \in ToSet(timeout_queue_') <=>
                      e = [key |-> t, node |-> "multi"] \/ (e \in ToSet(heap) /\ e.node # "multi")
      BY <2>4, <2>5, WithTimeoutIs
    <2>7. AtFirst(timeout_queue_', key_queue_')
      BY <2>3, <2>6 DEF AtFirst
    <2>8. HasMulti(timeout_queue_')
      <3>1. PICK e : e = [key |-> t, node |-> "multi"]
        OBVIOUS
      <3>2. e \in ToSet(timeout_queue_') /\ e.node = "multi"
        BY <2>6, <3>1
      <3> QED BY <3>2 DEF HasMulti
    <2> QED BY <2>4, <2>6, <2>7, <2>8
  <1>2. CASE items_' = {} /\ InHeap(heap, "multi")
    <2>1. timeout_queue_' = Erase(heap, "multi") /\ failures' = failures
      BY <1>2 DEF UpdateTimeout
    <2>2. HeapOf(TimerActor, timeout_queue_')
      BY <1>2, <2>1, EraseIs
    <2> QED BY <1>2, <2>1, <2>2
  <1>3. CASE items_' = {} /\ ~InHeap(heap, "multi")
    <2>1. timeout_queue_' = heap /\ Must("Timeout" \in ToSet(mail["multi"]), "pending")
      BY <1>3 DEF UpdateTimeout
    <2>2. ~HasMulti(heap)
      BY <1>3, MultiInHeap
    <2>3. failures' = failures
      BY <1>3, <2>1, <2>2 DEF Must
    <2> QED BY <1>3, <2>1, <2>3
  <1> QED BY <1>1, <1>2, <1>3

(* Behind a Timeout event that waits there is one in the mailbox. *)
LEMMA WaitingIsMail ==
  ASSUME MailRight, TimeoutWaits
  PROVE  "Timeout" \in ToSet(mail["multi"])
PROOF
  <1>1. mail["multi"] \in Seq(MailEvent)
    BY DEF MailRight
  <1>2. DOMAIN mail["multi"] = 1..Len(mail["multi"])
    BY <1>1, LenProperties
  <1> QED BY <1>2 DEF TimeoutWaits, ToSet

LEMMA InitTimers == TimersInit => TimersInv
PROOF
  <1> SUFFICES ASSUME TimersInit PROVE TimersInv
    OBVIOUS
  <1>1. timeout_queue_ = <<>> /\ key_queue_ = <<>> /\ items_ = {} /\ failures = {}
    BY DEF TimersInit
  <1>2. \A Nodes : HeapOf(Nodes, <<>>)
    BY DEF HeapOf, Alone, InHeapOrder
  <1>3. NodesOf(<<>>) = {}
    BY DEF NodesOf, ToSet
  <1>4. HeapsRight
    BY <1>1, <1>2, <1>3 DEF HeapsRight
  <1>5. mail = [a \in TimerActor |-> <<"none">>] /\ events = [done |-> 0, left |-> 0]
    BY DEF TimersInit, TimerActor
  <1>6. mail["multi"] = <<"none">> /\ mail = [a \in TimerActor |-> mail[a]]
    BY <1>5 DEF TimerActor
  <1>7. <<"none">> \in Seq(MailEvent)
    BY DEF MailEvent
  <1>8. MailRight
    BY <1>5, <1>6, <1>7 DEF MailRight
  <1> QED BY <1>1, <1>4, <1>8 DEF TimersInv, WatchRight

-----------------------------------------------------------------------------
(* Clients *)

LEMMA SetKeyKeeps ==
  ASSUME TimersInv, NEW k \in TimerKey, NEW t \in Int, SetKey(k, t)
  PROVE  TimersInv'
PROOF
  <1>1. /\ HeapOf(TimerActor, timeout_queue_) /\ HeapOf(TimerKey, key_queue_)
        /\ items_ = NodesOf(key_queue_) /\ "pending" \notin failures
    BY DEF TimersInv, HeapsRight
  <1>2. key_queue_' = WithTimeout(key_queue_, k, t) /\ items_' = items_ \union {k}
    BY DEF SetKey, WithTimeout
  <1>3. /\ HeapOf(TimerKey, key_queue_')
        /\ \A e : e \in ToSet(key_queue_') <=>
                    e = [key |-> t, node |-> k] \/ (e \in ToSet(key_queue_) /\ e.node # k)
    BY <1>1, <1>2, WithTimeoutIs
  <1>4. NodesOf(key_queue_') = items_'
    <2>1. [key |-> t, node |-> k].node = k
      OBVIOUS
    <2> QED BY <1>1, <1>2, <1>3, <2>1 DEF NodesOf
  <1>5. UNCHANGED <<mail, in_guard, events>>
    BY DEF SetKey, CallsOn, ClientCalls, actorVars, loopVars
  <1>6. MailRight'
    BY <1>5 DEF TimersInv, MailRight
  <1>7. CASE IsTop(key_queue_, k) \/ IsTop(key_queue_', k)
    <2>1. UpdateTimeout(timeout_queue_)
      BY <1>7 DEF SetKey, UpdateIfMoved
    <2>2. items_' # {}
      BY <1>2
    <2>3. /\ HeapOf(TimerActor, timeout_queue_') /\ "pending" \notin failures'
          /\ AtFirst(timeout_queue_', key_queue_') /\ HasMulti(timeout_queue_')
      BY <1>1, <1>3, <1>4, <2>1, <2>2, UpdateKeeps
    <2> QED BY <1>3, <1>4, <1>6, <2>3 DEF TimersInv, HeapsRight, WatchRight
  <1>8. CASE ~(IsTop(key_queue_, k) \/ IsTop(key_queue_', k))
    <2>1. UNCHANGED <<timeout_queue_, failures>>
      BY <1>8 DEF SetKey, UpdateIfMoved
    <2>2. key_queue_' # <<>>
      BY <1>2, <1>3, <1>4, NoItems
    <2>3. key_queue_'[1] \in ToSet(key_queue_') /\ key_queue_'[1].node # k
      BY <1>3, <1>8, <2>2, TopIsLeast DEF IsTop
    <2>4. key_queue_'[1] \in ToSet(key_queue_)
      BY <1>3, <2>3
    <2>5. items_ # {} /\ key_queue_ # <<>>
      BY <1>1, <2>4, NoItems DEF NodesOf
    <2>6. key_queue_[1].node # k
      BY <1>8, <2>5 DEF IsTop
    <2>7. \A e : e.node # k => (e \in ToSet(key_queue_) <=> e \in ToSet(key_queue_'))
      BY <1>3
    <2>8. TopKey(key_queue_) = TopKey(key_queue_')
      BY <1>1, <1>3, <2>2, <2>3, <2>5, <2>6, <2>7, TopKept
    <2>9. WatchRight'
      BY <1>5, <2>1, <2>5, <2>8 DEF TimersInv, WatchRight, AtFirst, HasMulti, TimeoutWaits
    <2> QED BY <1>1, <1>3, <1>4, <1>6, <2>1, <2>9 DEF TimersInv, HeapsRight
  <1> QED BY <1>7, <1>8

LEMMA CancelKeyKeeps ==
  ASSUME TimersInv, NEW k \in TimerKey, CancelKey(k)
  PROVE  TimersInv'
PROOF
  <1>1. /\ HeapOf(TimerActor, timeout_queue_) /\ HeapOf(TimerKey, key_queue_)
        /\ items_ = NodesOf(key_queue_) /\ "pending" \notin failures
    BY DEF TimersInv, HeapsRight
  <1>2. /\ key_queue_' = Erase(key_queue_, k) /\ items_' = items_ \ {k}
        /\ k \in items_
    BY DEF CancelKey
  <1>3. InHeap(key_queue_, k)
    BY <1>1, <1>2, InHeapItems DEF NodesOf
  <1>4. /\ HeapOf(TimerKey, key_queue_')
        /\ \A e : e \in ToSet(key_queue_') <=> e \in ToSet(key_queue_) /\ e.node # k
    BY <1>1, <1>2, <1>3, EraseIs
  <1>5. NodesOf(key_queue_') = items_'
    BY <1>1, <1>2, <1>4 DEF NodesOf
  <1>6. UNCHANGED <<mail, in_guard, events>>
    BY DEF CancelKey, CallsOn, ClientCalls, actorVars, loopVars
  <1>7. MailRight'
    BY <1>6 DEF TimersInv, MailRight
  <1>8. AtFirst(timeout_queue_, key_queue_) /\ (HasMulti(timeout_queue_) \/ TimeoutWaits)
    BY <1>2 DEF TimersInv, WatchRight
  <1>9. CASE IsTop(key_queue_, k) \/ IsTop(key_queue_', k)
    <2>1. UpdateTimeout(timeout_queue_)
      BY <1>9 DEF CancelKey, UpdateIfMoved
    <2>2. HasMulti(timeout_queue_) \/ "Timeout" \in ToSet(mail["multi"])
      BY <1>8, WaitingIsMail DEF TimersInv
    <2>3. /\ HeapOf(TimerActor, timeout_queue_') /\ "pending" \notin failures'
          /\ items_' # {} => AtFirst(timeout_queue_', key_queue_') /\ HasMulti(timeout_queue_')
      BY <1>1, <1>4, <1>5, <2>1, <2>2, UpdateKeeps
    <2> QED BY <1>4, <1>5, <1>7, <2>3 DEF TimersInv, HeapsRight, WatchRight
  <1>10. CASE ~(IsTop(key_queue_, k) \/ IsTop(key_queue_', k))
    <2>1. UNCHANGED <<timeout_queue_, failures>>
      BY <1>10 DEF CancelKey, UpdateIfMoved
    <2>2. ASSUME items_' # {} PROVE TopKey(key_queue_) = TopKey(key_queue_')
      <3>1. key_queue_' # <<>> /\ key_queue_ # <<>>
        BY <1>1, <1>2, <1>4, <1>5, <2>2, NoItems
      <3>2. key_queue_'[1].node # k /\ key_queue_[1].node # k
        BY <1>10, <3>1 DEF IsTop
      <3>3. \A e : e.node # k => (e \in ToSet(key_queue_) <=> e \in ToSet(key_queue_'))
        BY <1>4
      <3> QED BY <1>1, <1>4, <3>1, <3>2, <3>3, TopKept
    <2>3. WatchRight'
      BY <1>6, <1>8, <2>1, <2>2 DEF WatchRight, AtFirst, HasMulti, TimeoutWaits
    <2> QED BY <1>1, <1>4, <1>5, <1>7, <2>1, <2>3 DEF TimersInv, HeapsRight
  <1> QED BY <1>9, <1>10

LEMMA RunAllKeeps ==
  ASSUME TimersInv, RunAll
  PROVE  TimersInv'
PROOF
  <1>1. /\ HeapOf(TimerActor, timeout_queue_) /\ HeapOf(TimerKey, key_queue_)
        /\ items_ = NodesOf(key_queue_) /\ "pending" \notin failures
    BY DEF TimersInv, HeapsRight
  <1>2. /\ key_queue_' = Unexpired(key_queue_, Never)
        /\ items_' = items_ \ ToSet(Expired(key_queue_, Never))
        /\ key_queue_ # <<>> /\ UpdateTimeout(timeout_queue_)
    BY DEF RunAll, TakeExpired
  <1>3. HeapOf(TimerKey, key_queue_') /\ items_' = NodesOf(key_queue_')
    BY <1>1, <1>2, TakenIs
  <1>4. UNCHANGED <<mail, in_guard, events>>
    BY DEF RunAll, CallsOn, ClientCalls, actorVars, loopVars
  <1>5. MailRight'
    BY <1>4 DEF TimersInv, MailRight
  <1>6. items_ # {}
    BY <1>1, <1>2, NoItems
  <1>7. HasMulti(timeout_queue_) \/ "Timeout" \in ToSet(mail["multi"])
    BY <1>6, WaitingIsMail DEF TimersInv, WatchRight
  <1>8. /\ HeapOf(TimerActor, timeout_queue_') /\ "pending" \notin failures'
        /\ items_' # {} => AtFirst(timeout_queue_', key_queue_') /\ HasMulti(timeout_queue_')
    BY <1>1, <1>2, <1>3, <1>7, UpdateKeeps
  <1> QED BY <1>3, <1>5, <1>8 DEF TimersInv, HeapsRight, WatchRight

(* What leaves the MultiTimeout's timer and its events alone. *)
LEMMA MultiKept ==
  ASSUME TimersInv, UNCHANGED multiVars, HeapOf(TimerActor, timeout_queue_'),
         "pending" \notin failures', MailRight',
         \A e : e.node = "multi" => (e \in ToSet(timeout_queue_) <=> e \in ToSet(timeout_queue_')),
         TimeoutWaits => TimeoutWaits'
  PROVE  TimersInv'
PROOF
  <1>1. items_' = items_ /\ key_queue_' = key_queue_
    BY DEF multiVars
  <1>2. HeapsRight'
    BY <1>1 DEF TimersInv, HeapsRight
  <1>3. WatchRight'
    <2>1. SUFFICES ASSUME items_ # {}
                   PROVE  /\ AtFirst(timeout_queue_', key_queue_)
                          /\ HasMulti(timeout_queue_') \/ TimeoutWaits'
      BY <1>1 DEF WatchRight
    <2>2. AtFirst(timeout_queue_, key_queue_) /\ (HasMulti(timeout_queue_) \/ TimeoutWaits)
      BY <2>1 DEF TimersInv, WatchRight
    <2>3. AtFirst(timeout_queue_', key_queue_)
      BY <2>2 DEF AtFirst
    <2>4. HasMulti(timeout_queue_) => HasMulti(timeout_queue_')
      BY DEF HasMulti
    <2> QED BY <2>2, <2>3, <2>4
  <1> QED BY <1>2, <1>3 DEF TimersInv

LEMMA QuietKeeps ==
  ASSUME TimersInv, UNCHANGED <<timeout_queue_, mail, in_guard, events, multiVars, failures>>
  PROVE  TimersInv'
PROOF
  <1>1. /\ HeapOf(TimerActor, timeout_queue_') /\ "pending" \notin failures'
        /\ timeout_queue_' = timeout_queue_
    BY DEF TimersInv, HeapsRight
  <1>2. MailRight'
    BY DEF TimersInv, MailRight
  <1>3. TimeoutWaits => TimeoutWaits'
    BY DEF TimeoutWaits
  <1>4. UNCHANGED multiVars
    OBVIOUS
  <1> QED BY <1>1, <1>2, <1>3, <1>4, MultiKept

LEMMA SingleKeeps ==
  ASSUME TimersInv, CancelSingle \/ \E t \in Int : SetSingle(t)
  PROVE  TimersInv'
PROOF
  <1>1. HeapOf(TimerActor, timeout_queue_) /\ "pending" \notin failures /\ MailRight
    BY DEF TimersInv, HeapsRight
  <1>2. UNCHANGED <<mail, in_guard, events, multiVars, failures>>
    BY DEF CancelSingle, SetSingle, CallsOn, ClientCalls, actorVars, loopVars
  <1>3. MailRight' /\ (TimeoutWaits => TimeoutWaits')
    BY <1>1, <1>2 DEF MailRight, TimeoutWaits
  <1>4. "single" \in TimerActor
    BY DEF TimerActor
  <1>5. CASE CancelSingle
    <2>1. InHeap(timeout_queue_, "single") /\ timeout_queue_' = Erase(timeout_queue_, "single")
      BY <1>5 DEF CancelSingle
    <2>2. /\ HeapOf(TimerActor, timeout_queue_')
          /\ \A e : e \in ToSet(timeout_queue_') <=> e \in ToSet(timeout_queue_) /\ e.node # "single"
      BY <1>1, <2>1, EraseIs
    <2>3. \A e : e.node = "multi" => (e \in ToSet(timeout_queue_) <=> e \in ToSet(timeout_queue_'))
      BY <2>2
    <2> QED BY <1>1, <1>2, <1>3, <2>2, <2>3, MultiKept
  <1>6. ASSUME NEW t \in Int, SetSingle(t) PROVE TimersInv'
    <2>1. timeout_queue_' = WithTimeout(timeout_queue_, "single", t)
      BY <1>6 DEF SetSingle
    <2>2. /\ HeapOf(TimerActor, timeout_queue_')
          /\ \A e : e \in ToSet(timeout_queue_') <=>
               e = [key |-> t, node |-> "single"] \/ (e \in ToSet(timeout_queue_) /\ e.node # "single")
      BY <1>1, <1>4, <2>1, WithTimeoutIs
    <2>3. [key |-> t, node |-> "single"].node = "single"
      OBVIOUS
    <2>4. \A e : e.node = "multi" => (e \in ToSet(timeout_queue_) <=> e \in ToSet(timeout_queue_'))
      BY <2>2, <2>3
    <2> QED BY <1>1, <1>2, <1>3, <2>2, <2>4, MultiKept
  <1> QED BY <1>5, <1>6

LEMMA RegisterKeeps ==
  ASSUME TimersInv, NEW a \in DOMAIN mail, Register(a)
  PROVE  TimersInv'
PROOF
  <1>1. /\ HeapOf(TimerActor, timeout_queue_) /\ "pending" \notin failures
        /\ mail = [b \in TimerActor |-> mail[b]] /\ mail["multi"] \in Seq(MailEvent)
        /\ events.done \in Nat
    BY DEF TimersInv, HeapsRight, MailRight
  <1>2. /\ UNCHANGED <<timeout_queue_, multiVars, in_guard, events, failures>>
        /\ mail[a] = <<"none">> /\ mail' = [mail EXCEPT ![a] = <<"Start">>]
    BY DEF Register, ClientCalls, loopVars, Made
  <1>3. DOMAIN mail = TimerActor /\ "multi" \in TimerActor
    BY <1>1 DEF TimerActor
  <1>4. /\ mail' = [b \in TimerActor |-> mail'[b]]
        /\ mail'["multi"] = IF a = "multi" THEN <<"Start">> ELSE mail["multi"]
    BY <1>1, <1>2, <1>3
  <1>5. <<"Start">> \in Seq(MailEvent)
    BY DEF MailEvent
  <1>6. MailRight'
    BY <1>1, <1>2, <1>4, <1>5 DEF MailRight
  <1>7. ASSUME TimeoutWaits PROVE TimeoutWaits'
    <2>1. a # "multi"
      BY <1>2, <1>7 DEF TimeoutWaits
    <2>2. mail'["multi"] = mail["multi"]
      BY <1>4, <2>1
    <2> QED BY <1>2, <1>7, <2>2 DEF TimeoutWaits
  <1>8. timeout_queue_' = timeout_queue_ /\ failures' = failures /\ UNCHANGED multiVars
    BY <1>2
  <1> QED BY <1>1, <1>6, <1>7, <1>8, MultiKept

-----------------------------------------------------------------------------
(* The loop *)

LEMMA RunActorKeeps ==
  ASSUME TimersInv, RunActor
  PROVE  TimersInv'
PROOF
  <1>1. HeapOf(TimerActor, timeout_queue_) /\ "pending" \notin failures /\ MailRight
    BY DEF TimersInv, HeapsRight
  <1>2. /\ UNCHANGED <<timeout_queue_, mail, multiVars, failures>>
        /\ in_guard = "nobody" /\ events'.done = 0
    BY DEF RunActor, actorVars
  <1>3. MailRight'
    BY <1>1, <1>2 DEF MailRight
  <1>4. ASSUME TimeoutWaits PROVE TimeoutWaits'
    <2>1. PICK p \in 1..Len(mail["multi"]) : mail["multi"][p] = "Timeout"
      BY <1>4 DEF TimeoutWaits
    <2>2. p > 0
      OBVIOUS
    <2> QED BY <1>2, <2>1, <2>2 DEF TimeoutWaits
  <1>5. timeout_queue_' = timeout_queue_ /\ failures' = failures /\ UNCHANGED multiVars
    BY <1>2
  <1> QED BY <1>1, <1>3, <1>4, <1>5, MultiKept

LEMMA LeaveActorKeeps ==
  ASSUME TimersInv, LeaveActor
  PROVE  TimersInv'
PROOF
  <1>1. /\ HeapOf(TimerActor, timeout_queue_) /\ "pending" \notin failures
        /\ mail = [b \in TimerActor |-> mail[b]] /\ mail["multi"] \in Seq(MailEvent)
        /\ events.done \in Nat
    BY DEF TimersInv, HeapsRight, MailRight
  <1>2. /\ UNCHANGED <<timeout_queue_, multiVars, failures>>
        /\ in_guard' = "nobody" /\ events'.done = 0
        /\ mail' = [mail EXCEPT ![in_guard] = SubSeq(mail[in_guard], events.done + 1, Len(mail[in_guard]))]
    BY DEF LeaveActor
  <1>3. DOMAIN mail = TimerActor /\ "multi" \in TimerActor
    BY <1>1 DEF TimerActor
  <1>4. PICK s \in Seq(MailEvent), d \in Nat : s = mail["multi"] /\ d = events.done
    BY <1>1
  <1>5. PICK n \in Nat : n = Len(s)
    BY LenProperties
  <1>6. PICK r : r = SubSeq(s, d + 1, n)
    OBVIOUS
  <1>7. /\ r \in Seq(MailEvent)
        /\ Len(r) = IF d + 1 <= n THEN n - (d + 1) + 1 ELSE 0
        /\ \A i \in 1..n - (d + 1) + 1 : r[i] = s[d + 1 + i - 1]
    <2>1. \A i \in d + 1..n : i \in 1..n
      OBVIOUS
    <2>2. \A i \in d + 1..n : s[i] \in MailEvent
      BY <1>5, <2>1, ElementOfSeq
    <2>3. d + 1 \in Int /\ n \in Int
      OBVIOUS
    <2> QED BY <1>6, <2>2, <2>3, SubSeqProperties
  <1>8. /\ mail' = [b \in TimerActor |-> mail'[b]]
        /\ mail'["multi"] = IF in_guard = "multi" THEN r ELSE s
    <2>1. CASE in_guard = "multi"
      BY <1>1, <1>2, <1>3, <1>4, <1>5, <1>6, <2>1
    <2>2. CASE in_guard # "multi"
      BY <1>1, <1>2, <1>3, <1>4, <2>2
    <2> QED BY <2>1, <2>2
  <1>9. MailRight'
    <2>1. mail'["multi"] \in Seq(MailEvent)
      BY <1>7, <1>8
    <2>2. events'.done \in Nat /\ mail' = [b \in TimerActor |-> mail'[b]]
      BY <1>2, <1>8
    <2> QED BY <2>1, <2>2 DEF MailRight
  <1>10. ASSUME TimeoutWaits PROVE TimeoutWaits'
    <2>1. PICK p \in 1..n : s[p] = "Timeout" /\ (in_guard = "multi" => p > d)
      BY <1>4, <1>5, <1>10 DEF TimeoutWaits
    <2>2. CASE in_guard = "multi"
      <3>1. p > d /\ d + 1 <= n
        BY <2>1, <2>2
      <3>2. p - d \in 1..n - (d + 1) + 1 /\ d + 1 + (p - d) - 1 = p
        BY <3>1
      <3>3. r[p - d] = "Timeout" /\ p - d \in 1..Len(r)
        BY <1>7, <2>1, <3>1, <3>2
      <3> QED BY <1>2, <1>8, <2>2, <3>3 DEF TimeoutWaits
    <2>3. CASE in_guard # "multi"
      <3>1. mail'["multi"] = s
        BY <1>8, <2>3
      <3> QED BY <1>2, <1>5, <2>1, <3>1 DEF TimeoutWaits
    <2> QED BY <2>2, <2>3
  <1>11. timeout_queue_' = timeout_queue_ /\ failures' = failures /\ UNCHANGED multiVars
    BY <1>2
  <1> QED BY <1>1, <1>9, <1>10, <1>11, MultiKept

LEMMA MultiExpiredKeeps ==
  ASSUME HeapsRight, MailRight', NEW heap, HeapOf(TimerActor, heap), MultiExpired(heap)
  PROVE  TimersInv'
PROOF
  <1>1. HeapOf(TimerKey, key_queue_) /\ items_ = NodesOf(key_queue_) /\ "pending" \notin failures
    BY DEF HeapsRight
  <1>2. /\ key_queue_' = Unexpired(key_queue_, clock)
        /\ items_' = items_ \ ToSet(Expired(key_queue_, clock))
    BY DEF MultiExpired, TakeExpired
  <1>3. HeapOf(TimerKey, key_queue_') /\ items_' = NodesOf(key_queue_')
    BY <1>1, <1>2, TakenIs
  <1>4. CASE items_' # {}
    <2>1. UpdateTimeout(heap)
      BY <1>4 DEF MultiExpired
    <2>2. /\ HeapOf(TimerActor, timeout_queue_') /\ "pending" \notin failures'
          /\ AtFirst(timeout_queue_', key_queue_') /\ HasMulti(timeout_queue_')
      BY <1>1, <1>3, <1>4, <2>1, UpdateKeeps
    <2> QED BY <1>3, <2>2 DEF TimersInv, HeapsRight, WatchRight
  <1>5. CASE items_' = {}
    <2>1. timeout_queue_' = heap /\ failures' = failures
      BY <1>5 DEF MultiExpired
    <2> QED BY <1>1, <1>3, <1>5, <2>1 DEF TimersInv, HeapsRight, WatchRight
  <1> QED BY <1>4, <1>5

LEMMA SingleExpiredKeeps ==
  ASSUME TimersInv, MailRight', TimeoutWaits => TimeoutWaits', NEW heap, HeapOf(TimerActor, heap),
         \A e : e.node = "multi" => (e \in ToSet(timeout_queue_) <=> e \in ToSet(heap)),
         SingleExpired(heap)
  PROVE  TimersInv'
PROOF
  <1>1. timeout_queue_' = heap /\ UNCHANGED multiVars
    BY DEF SingleExpired
  <1>2. failures' \in {failures, failures \union {"!has_timeout"}, failures \union {"callback_"}}
    BY DEF SingleExpired
  <1>3. "pending" \notin failures'
    BY <1>2 DEF TimersInv, HeapsRight
  <1> QED BY <1>1, <1>3, MultiKept

LEMMA DoEventKeeps ==
  ASSUME TimersInv, DoEvent
  PROVE  TimersInv'
PROOF
  <1>1. /\ HeapOf(TimerActor, timeout_queue_) /\ "pending" \notin failures
        /\ mail = [b \in TimerActor |-> mail[b]] /\ mail["multi"] \in Seq(MailEvent)
        /\ events.done \in Nat
    BY DEF TimersInv, HeapsRight, MailRight
  <1>2. in_guard' = in_guard /\ events'.done = events.done + 1
    BY DEF DoEvent
  <1>3. PICK s \in Seq(MailEvent), d \in Nat : s = mail["multi"] /\ d = events.done
    BY <1>1
  <1>4. PICK n \in Nat : n = Len(s)
    BY LenProperties
  <1>5. PICK event : event = mail[in_guard][d + 1]
    OBVIOUS
  <1>6. /\ mail' = IF event = "Start" THEN [mail EXCEPT ![in_guard] = Append(@, "Yield")] ELSE mail
        /\ IF event = "Timeout"
             THEN TimeoutExpired(in_guard, timeout_queue_)
             ELSE UNCHANGED <<timeout_queue_, multiVars, callback_, callbacks, failures>>
    BY <1>3, <1>5 DEF DoEvent
  <1>7. DOMAIN mail = TimerActor /\ "multi" \in TimerActor
    BY <1>1 DEF TimerActor
  <1>8. CASE event = "Timeout"
    <2>1. mail' = mail
      BY <1>6, <1>8
    <2>2. MailRight'
      <3>1. events'.done \in Nat
        BY <1>1, <1>2
      <3> QED BY <1>1, <2>1, <3>1 DEF MailRight
    <2>3. CASE in_guard = "multi"
      <3>1. MultiExpired(timeout_queue_)
        BY <1>6, <1>8, <2>3 DEF TimeoutExpired
      <3> QED BY <1>1, <2>2, <3>1, MultiExpiredKeeps DEF TimersInv
    <2>4. CASE in_guard # "multi"
      <3>1. SingleExpired(timeout_queue_)
        BY <1>6, <1>8, <2>4 DEF TimeoutExpired
      <3>2. TimeoutWaits => TimeoutWaits'
        BY <1>2, <2>1, <2>4 DEF TimeoutWaits
      <3> QED BY <1>1, <2>2, <3>1, <3>2, SingleExpiredKeeps
    <2> QED BY <2>3, <2>4
  <1>9. CASE event # "Timeout"
    <2>1. UNCHANGED <<timeout_queue_, multiVars, failures>>
      BY <1>6, <1>9
    <2>2. /\ mail' = [b \in TimerActor |-> mail'[b]]
          /\ mail'["multi"] = s \/ mail'["multi"] = Append(s, "Yield")
      <3>1. CASE event = "Start"
        <4>1. mail' = [mail EXCEPT ![in_guard] = Append(@, "Yield")]
          BY <1>6, <3>1
        <4>2. CASE in_guard = "multi"
          BY <1>1, <1>3, <1>7, <4>1, <4>2
        <4>3. CASE in_guard # "multi"
          BY <1>1, <1>3, <1>7, <4>1, <4>3
        <4> QED BY <4>2, <4>3
      <3>2. CASE event # "Start"
        BY <1>1, <1>3, <1>6, <3>2
      <3> QED BY <3>1, <3>2
    <2>3. /\ mail'["multi"] \in Seq(MailEvent) /\ Len(mail'["multi"]) \in {n, n + 1}
          /\ \A p \in 1..n : mail'["multi"][p] = s[p]
      <3>1. "Yield" \in MailEvent
        BY DEF MailEvent
      <3>2. /\ Append(s, "Yield") \in Seq(MailEvent) /\ Len(Append(s, "Yield")) = n + 1
            /\ \A p \in 1..n : Append(s, "Yield")[p] = s[p]
        BY <1>4, <3>1, AppendProperties
      <3> QED BY <1>4, <2>2, <3>2
    <2>4. MailRight'
      <3>1. events'.done \in Nat
        BY <1>1, <1>2
      <3> QED BY <2>2, <2>3, <3>1 DEF MailRight
    <2>5. ASSUME TimeoutWaits PROVE TimeoutWaits'
      <3>1. PICK p \in 1..n : s[p] = "Timeout" /\ (in_guard = "multi" => p > d)
        BY <1>3, <1>4, <2>5 DEF TimeoutWaits
      <3>2. in_guard = "multi" => p # d + 1
        BY <1>3, <1>5, <1>9, <3>1
      <3>3. in_guard = "multi" => p > d + 1
        BY <3>1, <3>2
      <3>4. p \in 1..Len(mail'["multi"])
        BY <2>3
      <3> QED BY <1>2, <1>3, <2>3, <3>1, <3>3, <3>4 DEF TimeoutWaits
    <2>6. timeout_queue_' = timeout_queue_ /\ failures' = failures /\ UNCHANGED multiVars
      BY <2>1
    <2> QED BY <1>1, <2>4, <2>5, <2>6, MultiKept
  <1> QED BY <1>8, <1>9

LEMMA ExpireNowKeeps ==
  ASSUME TimersInv, ExpireNow
  PROVE  TimersInv'
PROOF
  <1>1. HeapOf(TimerActor, timeout_queue_) /\ HeapsRight /\ MailRight
    BY DEF TimersInv, HeapsRight
  <1>2. PICK a \in DOMAIN mail :
          /\ PopTimer(a) /\ in_guard' = a /\ UNCHANGED actorVars
          /\ TimeoutExpired(a, WithoutTop(timeout_queue_))
    BY DEF ExpireNow
  <1>3. /\ in_guard = "nobody" /\ events' = events /\ mail' = mail
        /\ timeout_queue_ # <<>> /\ a = timeout_queue_[1].node
    BY <1>2 DEF PopTimer, Due, actorVars
  <1>4. PICK heap : heap = WithoutTop(timeout_queue_)
    OBVIOUS
  <1>5. /\ HeapOf(TimerActor, heap)
        /\ \A e : e \in ToSet(heap) <=> e \in ToSet(timeout_queue_) /\ e.node # a
    BY <1>1, <1>3, <1>4, WithoutTopIs
  <1>6. MailRight'
    BY <1>1, <1>3 DEF MailRight
  <1>7. CASE a = "multi"
    <2>1. MultiExpired(heap)
      BY <1>2, <1>4, <1>7 DEF TimeoutExpired
    <2> QED BY <1>1, <1>5, <1>6, <2>1, MultiExpiredKeeps
  <1>8. CASE a # "multi"
    <2>1. SingleExpired(heap)
      BY <1>2, <1>4, <1>8 DEF TimeoutExpired
    <2>2. a = "single"
      <3>1. a \in TimerActor
        BY <1>1, <1>3, TopIsLeast
      <3> QED BY <1>8, <3>1 DEF TimerActor
    <2>3. \A e : e.node = "multi" => (e \in ToSet(timeout_queue_) <=> e \in ToSet(heap))
      BY <1>5, <1>8
    <2>4. TimeoutWaits => TimeoutWaits'
      BY <1>2, <1>3, <1>8 DEF TimeoutWaits
    <2> QED BY <1>5, <1>6, <2>1, <2>3, <2>4, SingleExpiredKeeps
  <1> QED BY <1>7, <1>8

LEMMA ExpireLaterKeeps ==
  ASSUME TimersInv, ExpireLater
  PROVE  TimersInv'
PROOF
  <1>1. /\ HeapOf(TimerActor, timeout_queue_) /\ "pending" \notin failures
        /\ mail = [b \in TimerActor |-> mail[b]] /\ mail["multi"] \in Seq(MailEvent)
        /\ events.done \in Nat /\ HeapsRight
    BY DEF TimersInv, HeapsRight, MailRight
  <1>2. PICK a \in DOMAIN mail :
          /\ PopTimer(a) /\ timeout_queue_' = WithoutTop(timeout_queue_)
          /\ mail' = [mail EXCEPT ![a] = Append(@, "Timeout")]
          /\ UNCHANGED <<in_guard, multiVars, callback_, callbacks, failures>>
    BY DEF ExpireLater
  <1>3. /\ in_guard = "nobody" /\ events' = events
        /\ timeout_queue_ # <<>> /\ a = timeout_queue_[1].node
    BY <1>2 DEF PopTimer, Due
  <1>4. /\ HeapOf(TimerActor, timeout_queue_')
        /\ \A e : e \in ToSet(timeout_queue_') <=> e \in ToSet(timeout_queue_) /\ e.node # a
    BY <1>1, <1>2, <1>3, WithoutTopIs
  <1>5. DOMAIN mail = TimerActor /\ "multi" \in TimerActor
    BY <1>1 DEF TimerActor
  <1>6. PICK s \in Seq(MailEvent) : s = mail["multi"]
    BY <1>1
  <1>7. PICK n \in Nat : n = Len(s)
    BY LenProperties
  <1>8. PICK r : r = Append(s, "Timeout")
    OBVIOUS
  <1>9. r \in Seq(MailEvent) /\ Len(r) = n + 1 /\ r[n + 1] = "Timeout"
    <2>1. "Timeout" \in MailEvent
      BY DEF MailEvent
    <2> QED BY <1>7, <1>8, <2>1, AppendProperties
  <1>10. /\ mail' = [b \in TimerActor |-> mail'[b]]
         /\ mail'["multi"] = IF a = "multi" THEN r ELSE s
    <2>1. CASE a = "multi"
      BY <1>1, <1>2, <1>5, <1>6, <1>8, <2>1
    <2>2. CASE a # "multi"
      BY <1>1, <1>2, <1>5, <1>6, <2>2
    <2> QED BY <2>1, <2>2
  <1>11. MailRight'
    <2>1. mail'["multi"] \in Seq(MailEvent)
      BY <1>9, <1>10
    <2>2. events'.done \in Nat
      BY <1>1, <1>3
    <2> QED BY <1>10, <2>1, <2>2 DEF MailRight
  <1>12. CASE a = "multi"
    <2>1. n + 1 \in 1..Len(r)
      BY <1>9
    <2>2. mail'["multi"] = r /\ in_guard' # "multi"
      BY <1>2, <1>3, <1>10, <1>12
    <2>3. TimeoutWaits'
      BY <1>9, <2>1, <2>2 DEF TimeoutWaits
    <2>4. AtFirst(timeout_queue_', key_queue_')
      BY <1>4, <1>12 DEF AtFirst
    <2>5. HeapsRight'
      BY <1>1, <1>2, <1>4 DEF HeapsRight, multiVars
    <2> QED BY <1>11, <2>3, <2>4, <2>5 DEF TimersInv, WatchRight
  <1>13. CASE a # "multi"
    <2>1. \A e : e.node = "multi" => (e \in ToSet(timeout_queue_) <=> e \in ToSet(timeout_queue_'))
      BY <1>4, <1>13
    <2>2. mail'["multi"] = mail["multi"]
      BY <1>6, <1>10, <1>13
    <2>3. TimeoutWaits => TimeoutWaits'
      BY <1>2, <1>3, <2>2 DEF TimeoutWaits
    <2>4. failures' = failures /\ UNCHANGED multiVars
      BY <1>2
    <2> QED BY <1>1, <1>4, <1>11, <2>1, <2>3, <2>4, MultiKept
  <1> QED BY <1>12, <1>13

LEMMA DeadlinesAre == Deadlines \subseteq Int
PROOF BY TimersAssumption DEF Deadlines

LEMMA NextTimers == TimersInv /\ [TimersNext]_timersVars => TimersInv'
PROOF
  <1> SUFFICES ASSUME TimersInv, [TimersNext]_timersVars PROVE TimersInv'
    OBVIOUS
  <1>1. CASE Client
    <2>1. ASSUME NEW a \in DOMAIN mail, Register(a) PROVE TimersInv'
      BY <2>1, RegisterKeeps
    <2>2. ASSUME NEW k \in TimerKey, CancelKey(k) PROVE TimersInv'
      BY <2>2, CancelKeyKeeps
    <2>3. ASSUME NEW k \in TimerKey, NEW t \in Deadlines, SetKey(k, t) \/ AddKey(k, t)
          PROVE  TimersInv'
      <3>1. SetKey(k, t) /\ t \in Int
        BY <2>3, DeadlinesAre DEF AddKey
      <3> QED BY <3>1, SetKeyKeeps
    <2>4. CASE RunAll
      BY <2>4, RunAllKeeps
    <2>5. ASSUME NEW t \in Deadlines, SetSingle(t) PROVE TimersInv'
      <3>1. t \in Int
        BY DeadlinesAre
      <3> QED BY <2>5, <3>1, SingleKeeps
    <2>6. CASE CancelSingle
      BY <2>6, SingleKeeps
    <2> QED BY <1>1, <2>1, <2>2, <2>3, <2>4, <2>5, <2>6 DEF Client
  <1>2. CASE CallbackReturns \/ RunTimeout \/ RunReady \/ RunPoll \/ PollReturns \/ Tick
        \/ UNCHANGED timersVars
    <2>1. UNCHANGED <<timeout_queue_, mail, in_guard, events, multiVars, failures>>
      <3>1. CASE CallbackReturns \/ Tick \/ UNCHANGED timersVars
        BY <3>1 DEF CallbackReturns, Tick, timersVars, actorVars, loopVars
      <3>2. CASE RunTimeout
        BY <3>2 DEF RunTimeout, actorVars
      <3>3. CASE RunReady \/ RunPoll
        BY <3>3 DEF RunReady, RunPoll, TimersHandled
      <3>4. CASE PollReturns
        BY <3>4 DEF PollReturns
      <3> QED BY <1>2, <3>1, <3>2, <3>3, <3>4
    <2> QED BY <2>1, QuietKeeps
  <1>3. CASE RunActor \/ DoEvent \/ LeaveActor \/ ExpireNow \/ ExpireLater
    BY <1>3, RunActorKeeps, DoEventKeeps, LeaveActorKeeps, ExpireNowKeeps, ExpireLaterKeeps
  <1> QED BY <1>1, <1>2, <1>3 DEF TimersNext, RunScheduler

(* Timers: however clients set, cancel and run the timers of a MultiTimeout,   *)
(* between actors, in the poll or in callbacks, its first deadline is in the   *)
(* scheduler's heap, or a Timeout event is on its way to it.  TLC checks it    *)
(* on two keys and three calls.                                               *)
THEOREM KeysStayWatched == TimersSpec => []KeysAreWatched
PROOF
  <1>1. TimersInv => KeysAreWatched
    <2>1. SUFFICES ASSUME TimersInv PROVE KeysAreWatched
      OBVIOUS
    <2>2. /\ HeapOf(TimerActor, timeout_queue_) /\ HeapOf(TimerKey, key_queue_)
          /\ items_ = NodesOf(key_queue_) /\ "pending" \notin failures
          /\ mail["multi"] \in Seq(MailEvent) /\ events.done \in Nat
      BY <2>1 DEF TimersInv, HeapsRight, MailRight
    <2>3. items_ = {key_queue_[p].node : p \in DOMAIN key_queue_}
      BY <2>2 DEF NodesOf, ToSet
    <2>4. ASSUME items_ # {}, InHeap(timeout_queue_, "multi")
          PROVE  timeout_queue_[PosOf(timeout_queue_, "multi")].key
                   = Min({key_queue_[p].key : p \in DOMAIN key_queue_})
      <3>1. key_queue_ # <<>>
        BY <2>2, <2>4, NoItems
      <3>2. Min({key_queue_[p].key : p \in DOMAIN key_queue_}) = TopKey(key_queue_)
        BY <2>2, <3>1, MinIsTop
      <3>3. /\ timeout_queue_[PosOf(timeout_queue_, "multi")] \in ToSet(timeout_queue_)
            /\ timeout_queue_[PosOf(timeout_queue_, "multi")].node = "multi"
        BY <2>2, <2>4, InHeapItems
      <3>4. AtFirst(timeout_queue_, key_queue_)
        BY <2>1, <2>4 DEF TimersInv, WatchRight
      <3> QED BY <3>2, <3>3, <3>4 DEF AtFirst
    <2>5. ASSUME items_ # {}, ~InHeap(timeout_queue_, "multi")
          PROVE  \E p \in (IF in_guard = "multi" THEN events.done ELSE 0) + 1..Len(mail["multi"]) :
                   mail["multi"][p] = "Timeout"
      <3>1. TimeoutWaits
        BY <2>1, <2>2, <2>5, MultiInHeap DEF TimersInv, WatchRight
      <3>2. PICK n \in Nat : n = Len(mail["multi"])
        BY <2>2, LenProperties
      <3>3. PICK d \in Nat : d = IF in_guard = "multi" THEN events.done ELSE 0
        BY <2>2
      <3>4. PICK p \in 1..n : mail["multi"][p] = "Timeout" /\ (in_guard = "multi" => p > events.done)
        BY <3>1, <3>2 DEF TimeoutWaits
      <3>5. p > d
        BY <3>3, <3>4
      <3>6. p \in d + 1..n
        BY <3>5
      <3> QED BY <3>2, <3>3, <3>4, <3>6
    <2> QED BY <2>2, <2>3, <2>4, <2>5 DEF KeysAreWatched
  <1> QED BY <1>1, InitTimers, NextTimers, PTL DEF TimersSpec

==============================================================================

--------------------------- MODULE Actors_proofs ---------------------------
(***************************************************************************)
(* Safety of ConcurrentScheduler for any number of threads, of actors, of   *)
(* migrations and of creations, and of MultiPromiseActorSafe for any number  *)
(* of promises.                                                              *)
(***************************************************************************)
EXTENDS ConcurrentScheduler, Promises, FiniteSetTheorems, FunctionTheorems, SequenceTheorems,
        TLAPS

(* The pools are there until the end; what the main thread clears is         *)
(* cleared once, after the join.                                             *)
EndInOrder ==
  /\ phase # "finished" => pools = Sched
  /\ phase = "finished" => cleared = Sched
  /\ phase = "run" => cleared = {}
  /\ clearing # NoSched => phase = "clear" /\ clearing \notin cleared

IInv == TypeOK /\ AloneInClear /\ EndInOrder /\ ClearedIsEmpty

(* The inductive invariant holds in the initial state. *)
LEMMA InitInvariant == Init => IInv
<1> SUFFICES ASSUME Init PROVE IInv
  OBVIOUS
<1>1. /\ actors \in [Sched -> SUBSET Slot]
      /\ 0 \in 0..MaxMoves /\ 0 \in 0..MaxBirths
  BY ConstantsAssumption, SMT DEF ConstantsAssumption, Init
<1>2. /\ thread \in [Sched -> Place]
      /\ to_wake \in [Sched -> SUBSET Sched]
      /\ wakeups \in [Sched -> Nat]
      /\ arriving \in [Sched -> SUBSET Slot]
  BY SMT DEF Init, Place
<1>3. TypeOK
  BY <1>1, <1>2 DEF Init, TypeOK
<1>4. AloneInClear /\ EndInOrder /\ ClearedIsEmpty
  BY DEF Init, AloneInClear, EndInOrder, ClearedIsEmpty
<1> QED
  BY <1>3, <1>4 DEF IInv

(* Every step keeps the variables' types. *)
LEMMA TypeStep == IInv /\ [Next]_vars => TypeOK'
<1> SUFFICES ASSUME IInv, [Next]_vars PROVE TypeOK'
  OBVIOUS
<1> USE ConstantsAssumption DEF ConstantsAssumption, IInv, TypeOK, Place, loopVars, actorVars, endVars
<1>1. ASSUME NEW s \in Sched, Loop(s) PROVE TypeOK'
  <2>1. CASE Test(s)
    BY <2>1, SMT DEF Test
  <2>2. CASE EndEvents(s)
    BY <2>2, SMT DEF EndEvents
  <2>3. CASE EndRun(s)
    BY <2>3, SMT DEF EndRun
  <2>4. CASE PollSignalled(s)
    BY <2>4, SMT DEF PollSignalled, PollReturns
  <2>5. ASSUME NEW d \in Sched, WakeNext(s, d) PROVE TypeOK'
    BY <2>5, SMT DEF WakeNext
  <2> QED
    BY <1>1, <2>1, <2>2, <2>3, <2>4, <2>5 DEF Loop
<1>2. ASSUME NEW s \in Sched, ReceiveWakeup(s) PROVE TypeOK'
  BY <1>2, SMT DEF ReceiveWakeup
<1>3. ASSUME NEW s \in Sched, PollReturns(s) PROVE TypeOK'
  BY <1>3, SMT DEF PollReturns
<1>4. ASSUME NEW s \in Sched, Handler(s) PROVE TypeOK'
  <2>1. CASE CallFinish(s)
    BY <2>1, SMT DEF CallFinish
  <2>2. ASSUME NEW i \in Slot, ReceiveActor(s, i) PROVE TypeOK'
    BY <2>2, SMT DEF ReceiveActor
  <2>3. ASSUME NEW i \in Slot, StopActor(s, i) PROVE TypeOK'
    BY <2>3, SMT DEF StopActor
  <2>4. ASSUME NEW i \in Slot, NEW d \in Sched, CreateActor(s, i, d) PROVE TypeOK'
    BY <2>4, SMT DEF CreateActor, Register
  <2>5. ASSUME NEW i \in Slot, NEW d \in Sched, MigrateActor(s, i, d) PROVE TypeOK'
    BY <2>5, SMT DEF MigrateActor
  <2> QED
    BY <1>4, <2>1, <2>2, <2>3, <2>4, <2>5 DEF Handler
<1>5. ASSUME NEW i \in Slot, NEW d \in Sched, CreateInTearDown(i, d) PROVE TypeOK'
  BY <1>5, SMT DEF CreateInTearDown, Register
<1>6. CASE FinishUnasked
  BY <1>6, SMT DEF FinishUnasked
<1>7. CASE Finish
  <2>1. CASE Join
    BY <2>1, SMT DEF Join
  <2>2. CASE Cleared
    BY <2>2, SMT DEF Cleared
  <2>3. CASE AtFinish
    BY <2>3, SMT DEF AtFinish, InUse
  <2>4. ASSUME NEW s \in Sched, Clear(s) PROVE TypeOK'
    BY <2>4, SMT DEF Clear
  <2>5. ASSUME NEW i \in Slot, ClearActor(i) PROVE TypeOK'
    BY <2>5, SMT DEF ClearActor
  <2> QED
    BY <1>7, <2>1, <2>2, <2>3, <2>4, <2>5 DEF Finish
<1>8. CASE UNCHANGED vars
  BY <1>8, SMT DEF vars
<1> QED
  BY <1>1, <1>2, <1>3, <1>4, <1>5, <1>6, <1>7, <1>8 DEF Next

(* The main thread stays alone from the join on: nothing starts a thread    *)
(* that ended, and only a running handler calls on_finish().                 *)
LEMMA AloneStep == IInv /\ [Next]_vars => AloneInClear'
<1> SUFFICES ASSUME IInv, [Next]_vars PROVE AloneInClear'
  OBVIOUS
<1> USE DEF IInv, TypeOK, AloneInClear, loopVars, actorVars, endVars
<1>1. ASSUME NEW s \in Sched, Loop(s) PROVE AloneInClear'
  BY <1>1, SMT DEF Loop, Test, EndEvents, EndRun, Handling, PollSignalled, PollReturns, WakeNext
<1>2. ASSUME NEW s \in Sched, ReceiveWakeup(s) \/ PollReturns(s) PROVE AloneInClear'
  BY <1>2, SMT DEF ReceiveWakeup, PollReturns, Handling
<1>3. ASSUME NEW s \in Sched, Handler(s) PROVE AloneInClear'
  BY <1>3, SMT DEF Handler, CallFinish, ReceiveActor, StopActor, CreateActor, MigrateActor,
                   Handling
<1>4. ASSUME NEW i \in Slot, NEW d \in Sched, CreateInTearDown(i, d) PROVE AloneInClear'
  BY <1>4, SMT DEF CreateInTearDown
<1>5. CASE FinishUnasked
  BY <1>5, SMT DEF FinishUnasked
<1>6. CASE Finish
  BY <1>6, SMT DEF Finish, Join, Cleared, AtFinish, Clear, ClearActor
<1>7. CASE UNCHANGED vars
  BY <1>7, SMT DEF vars
<1> QED
  BY <1>1, <1>2, <1>3, <1>4, <1>5, <1>6, <1>7 DEF Next

(* While threads run, and until the last scheduler is destroyed, no pool is *)
(* deleted; handlers and tear_downs fill the lists of schedulers that are    *)
(* not destroyed yet, and only those.                                        *)
LEMMA EndStep == IInv /\ [Next]_vars => EndInOrder' /\ ClearedIsEmpty'
<1> SUFFICES ASSUME IInv, [Next]_vars PROVE EndInOrder' /\ ClearedIsEmpty'
  OBVIOUS
<1> USE ConstantsAssumption
    DEF ConstantsAssumption, IInv, TypeOK, AloneInClear, EndInOrder, ClearedIsEmpty, loopVars,
        actorVars, endVars
<1>1. ASSUME NEW s \in Sched, Loop(s) \/ ReceiveWakeup(s) \/ PollReturns(s)
      PROVE  EndInOrder' /\ ClearedIsEmpty'
  BY <1>1, SMT DEF Loop, Test, EndEvents, EndRun, PollSignalled, PollReturns, WakeNext,
                   ReceiveWakeup
<1>2. ASSUME NEW s \in Sched, Handler(s) PROVE EndInOrder' /\ ClearedIsEmpty'
  <2>1. UNCHANGED endVars
    BY <1>2 DEF Handler, CallFinish, ReceiveActor, StopActor, CreateActor, MigrateActor
  <2>2. Handling(s)
    BY <1>2 DEF Handler, CallFinish, ReceiveActor, StopActor, CreateActor, MigrateActor
  <2>3. cleared = {}
    BY <2>2, SMT DEF Handling
  <2> QED
    BY <2>1, <2>3
<1>3. ASSUME NEW i \in Slot, NEW d \in Sched, CreateInTearDown(i, d)
      PROVE  EndInOrder' /\ ClearedIsEmpty'
  BY <1>3, SMT DEF CreateInTearDown, Register
<1>4. CASE FinishUnasked
  BY <1>4, SMT DEF FinishUnasked
<1>5. CASE Finish
  <2>1. CASE Join
    BY <2>1, SMT DEF Join
  <2>2. CASE Cleared
    BY <2>2, SMT DEF Cleared
  <2>3. CASE AtFinish
    BY <2>3, SMT DEF AtFinish
  <2>4. ASSUME NEW s \in Sched, Clear(s) PROVE EndInOrder' /\ ClearedIsEmpty'
    BY <2>4, SMT DEF Clear
  <2>5. ASSUME NEW i \in Slot, ClearActor(i) PROVE EndInOrder' /\ ClearedIsEmpty'
    BY <2>5, SMT DEF ClearActor
  <2> QED
    BY <1>5, <2>1, <2>2, <2>3, <2>4, <2>5 DEF Finish
<1>6. CASE UNCHANGED vars
  BY <1>6, SMT DEF vars
<1> QED
  BY <1>1, <1>2, <1>3, <1>4, <1>5, <1>6 DEF Next

(* The inductive invariant, of which the theorems below are parts. *)
LEMMA Invariant == SafeSpec => []IInv
<1>1. IInv /\ [Next]_vars => IInv'
  BY TypeStep, AloneStep, EndStep DEF IInv
<1> QED
  BY InitInvariant, <1>1, PTL DEF SafeSpec

(* The variables of ConcurrentScheduler keep their types. *)
THEOREM TypeCorrect == SafeSpec => []TypeOK
<1>1. IInv => TypeOK
  BY DEF IInv
<1> QED
  BY Invariant, <1>1, PTL

(* finish() destroys the schedulers on a thread that is alone: the others   *)
(* have ended, and none of them is inside on_finish(), which walks through   *)
(* schedulers_.                                                               *)
THEOREM AloneAfterJoin == SafeSpec => []AloneInClear
<1>1. IInv => AloneInClear
  BY DEF IInv
<1> QED
  BY Invariant, <1>1, PTL

(* No pool is deleted before the last actor of it that is on the list of    *)
(* some scheduler, wherever the actor migrated.                              *)
THEOREM PoolsLast == SafeSpec => []PoolOutlivesActors
<1>1. IInv => PoolOutlivesActors
  BY ConstantsAssumption, SMT
     DEF ConstantsAssumption, IInv, TypeOK, EndInOrder, ClearedIsEmpty, PoolOutlivesActors
<1> QED
  BY Invariant, <1>1, PTL

(* Schedulers are destroyed without actors on their lists, though           *)
(* tear_downs create actors while the lists are cleared.                     *)
THEOREM ClearedForGood == SafeSpec => []ClearedIsEmpty
<1>1. IInv => ClearedIsEmpty
  BY DEF IInv
<1> QED
  BY Invariant, <1>1, PTL

(* Both: nothing that finish() destroys is still needed by an actor.         *)
THEOREM NothingOutlived == SafeSpec => []DestroyedInOrder
<1>1. PoolOutlivesActors /\ ClearedIsEmpty => DestroyedInOrder
  BY DEF DestroyedInOrder
<1> QED
  BY PoolsLast, ClearedForGood, <1>1, PTL

-----------------------------------------------------------------------------
(* MultiPromiseActorSafe, for any promises                                    *)
-----------------------------------------------------------------------------
Waiters    == ToSet(promises_)
Pending    == ToSet(futures_)
ToldNext   == ToSet(copy.promises)

(* A sequence of different elements of S. *)
Distinct(s, S) == s \in Seq(S) /\ \A i, j \in 1..Len(s) : s[i] = s[j] => i = j

PromisesType ==
  /\ actor \in {"empty", "alive", "down"} /\ has_handle \in BOOLEAN /\ ignore_errors_ \in BOOLEAN
  /\ Distinct(promises_, Added) /\ Distinct(futures_, Asked)
  /\ received_results_ \in Nat /\ raw_events \in Nat
  /\ future \in [Asked -> {"None", "Waiting", "Coming", "Ready", "Gone"}]
  /\ outcome \in [Asked -> {"none", "ok", "error"}]
  /\ copy \in [promises : Seq(Added), result : {"none", "ok", "error"}]
  /\ Distinct(copy.promises, Added)
  /\ answers \in [Added -> Seq({"ok", "error"})]
  /\ deaf \subseteq Asked /\ late \subseteq Asked /\ joint \subseteq Added \X Asked

(* What is known of each future. *)
FuturesRight ==
  /\ \A f \in Asked : future[f] = "None" =>
       f \notin deaf /\ f \notin Pending /\ \A p \in Added : <<p, f>> \notin joint
  /\ \A f \in Asked : future[f] \in {"None", "Waiting"} => outcome[f] = "none"
  /\ \A f \in Asked : future[f] \in {"Coming", "Ready"} => outcome[f] # "none"
  /\ \A f \in Pending : future[f] # "Gone"
  /\ \A f \in Asked : future[f] \in {"Waiting", "Coming"} => f \in Pending

(* Each promise that was added waits, is about to be told, or was told, ...     *)
PlacesOfPromises ==
  /\ Waiters \intersect ToldNext = {}
  /\ \A p \in Added : p \in Waiters \/ p \in ToldNext => answers[p] = <<>>
  /\ \A p \in Added : answers[p] = <<>> /\ p \notin Waiters /\ p \notin ToldNext => WaitedFor(p) = {}
  /\ actor # "down" => copy = NoCopy

(* ... for the futures that are counted now, or those that were.                *)
ToldRight(p) ==
  answers[p] # <<>> /\ WaitedFor(p) \intersect late = {} =>
    /\ answers[p] = <<IF WaitedFor(p) = {} THEN "error" ELSE Verdict(p)>>
    /\ WaitedFor(p) # {} => AllAnswered(p)

WaitsRight ==
  /\ \A p \in Waiters : WaitedFor(p) = Pending
  /\ \A p \in ToldNext : AllAnswered(p) /\ copy.result = Verdict(p)
  /\ \A p \in Added : ToldRight(p)

(* The futures of this round that are ready and were heard. *)
Heard == {f \in Pending : f \notin deaf /\ future[f] = "Ready"}

CountsRight ==
  /\ received_results_ + raw_events = Cardinality(Heard)
  /\ futures_ # <<>> => received_results_ < Len(futures_)
  /\ actor # "alive" => received_results_ = 0
  /\ actor = "empty" => raw_events = 0 /\ Pending \subseteq deaf
  /\ actor = "down" => Pending \subseteq late
  /\ Pending \intersect deaf \subseteq late

PromisesInv ==
  PromisesType /\ FuturesRight /\ PlacesOfPromises /\ WaitsRight /\ CountsRight

(* Sequences of different elements and their sets. *)
LEMMA EmptyDistinct ==
  ASSUME NEW S
  PROVE  Distinct(<<>>, S) /\ ToSet(<<>>) = {}
PROOF
  <1>1. <<>> \in Seq(S) /\ Len(<<>>) = 0 /\ DOMAIN <<>> = 1..0
    BY EmptySeq
  <1> QED BY <1>1 DEF Distinct, ToSet

LEMMA DistinctSet ==
  ASSUME NEW S, NEW s, Distinct(s, S)
  PROVE  /\ Len(s) \in Nat /\ DOMAIN s = 1..Len(s) /\ ToSet(s) \subseteq S
         /\ s # <<>> <=> Len(s) > 0
         /\ s = <<>> <=> ToSet(s) = {}
PROOF
  <1>1. s \in Seq(S) /\ Len(s) \in Nat /\ DOMAIN s = 1..Len(s) /\ \A i \in 1..Len(s) : s[i] \in S
    BY LenProperties, ElementOfSeq DEF Distinct
  <1>2. s # <<>> <=> Len(s) > 0
    BY <1>1, EmptySeq
  <1>3. ToSet(s) \subseteq S
    BY <1>1 DEF ToSet
  <1>4. ASSUME s # <<>> PROVE ToSet(s) # {}
    <2>1. s[1] \in ToSet(s)
      BY <1>1, <1>2, <1>4 DEF ToSet
    <2> QED BY <2>1
  <1>5. ToSet(<<>>) = {}
    BY EmptyDistinct
  <1> QED BY <1>1, <1>2, <1>3, <1>4, <1>5

LEMMA AppendDistinct ==
  ASSUME NEW S, NEW s, Distinct(s, S), NEW x \in S, x \notin ToSet(s)
  PROVE  /\ Distinct(Append(s, x), S) /\ ToSet(Append(s, x)) = ToSet(s) \union {x}
         /\ Len(Append(s, x)) = Len(s) + 1
PROOF
  <1>1. s \in Seq(S) /\ Len(s) \in Nat /\ DOMAIN s = 1..Len(s)
    BY DistinctSet DEF Distinct
  <1>2. PICK t : t = Append(s, x)
    OBVIOUS
  <1>3. /\ t \in Seq(S) /\ Len(t) = Len(s) + 1
        /\ \A i \in 1..Len(s) : t[i] = s[i]
        /\ t[Len(s) + 1] = x
    BY <1>1, <1>2
  <1>4. DOMAIN t = 1..(Len(s) + 1)
    BY <1>3, LenProperties
  <1>5. \A i \in 1..Len(s) : s[i] # x
    BY <1>1 DEF ToSet
  <1>6. \A i \in 1..(Len(s) + 1) : i \in 1..Len(s) \/ i = Len(s) + 1
    BY <1>1
  <1>7. Distinct(t, S)
    BY <1>1, <1>3, <1>5, <1>6 DEF Distinct
  <1>8. ToSet(t) = ToSet(s) \union {x}
    <2>1. \A y : y \in ToSet(t) <=> \E i \in 1..(Len(s) + 1) : y = t[i]
      BY <1>4 DEF ToSet
    <2>2. \A y : y \in ToSet(s) <=> \E i \in 1..Len(s) : y = s[i]
      BY <1>1 DEF ToSet
    <2>3. \A i \in 1..Len(s) : i \in 1..(Len(s) + 1)
      BY <1>1
    <2>4. Len(s) + 1 \in 1..(Len(s) + 1)
      BY <1>1
    <2> QED BY <1>3, <1>6, <2>1, <2>2, <2>3, <2>4
  <1> QED BY <1>2, <1>3, <1>7, <1>8

LEMMA TailDistinct ==
  ASSUME NEW S, NEW s, Distinct(s, S), s # <<>>
  PROVE  /\ Head(s) \in ToSet(s) /\ Distinct(Tail(s), S)
         /\ ToSet(Tail(s)) = ToSet(s) \ {Head(s)}
PROOF
  <1>1. s \in Seq(S) /\ Len(s) \in Nat /\ DOMAIN s = 1..Len(s) /\ Len(s) > 0
    BY DistinctSet DEF Distinct
  <1>2. PICK t : t = Tail(s)
    OBVIOUS
  <1>3. /\ t \in Seq(S) /\ Len(t) = Len(s) - 1
        /\ \A i \in 1..(Len(s) - 1) : t[i] = s[i + 1]
    BY <1>1, <1>2, HeadTailProperties
  <1>4. DOMAIN t = 1..(Len(s) - 1)
    BY <1>3, LenProperties
  <1>5. Head(s) = s[1] /\ 1 \in 1..Len(s)
    BY <1>1
  <1>6. \A i \in 1..(Len(s) - 1) : i + 1 \in 1..Len(s) /\ i + 1 # 1
    BY <1>1
  <1>7. Distinct(t, S)
    <2>1. ASSUME NEW i \in 1..(Len(s) - 1), NEW j \in 1..(Len(s) - 1), t[i] = t[j] PROVE i = j
      <3>1. s[i + 1] = s[j + 1]
        BY <1>3, <2>1
      <3>2. i + 1 = j + 1
        BY <1>6, <3>1 DEF Distinct
      <3> QED BY <1>1, <3>2
    <2> QED BY <1>3, <2>1 DEF Distinct
  <1>8. \A i \in 1..Len(s) : i = 1 \/ (i - 1 \in 1..(Len(s) - 1) /\ (i - 1) + 1 = i)
    BY <1>1
  <1>9. ToSet(t) = ToSet(s) \ {s[1]}
    <2>1. \A y : y \in ToSet(t) <=> \E i \in 1..(Len(s) - 1) : y = t[i]
      BY <1>4 DEF ToSet
    <2>2. \A y : y \in ToSet(s) <=> \E i \in 1..Len(s) : y = s[i]
      BY <1>1 DEF ToSet
    <2>3. \A i \in 1..(Len(s) - 1) : t[i] = s[i + 1] /\ i + 1 \in 1..Len(s) /\ s[i + 1] # s[1]
      BY <1>3, <1>5, <1>6 DEF Distinct
    <2>4. \A i \in 1..Len(s) : i # 1 => i - 1 \in 1..(Len(s) - 1) /\ s[i] = t[i - 1]
      BY <1>3, <1>8
    <2>5. ASSUME NEW y \in ToSet(t) PROVE y \in ToSet(s) /\ y # s[1]
      BY <2>1, <2>2, <2>3
    <2>6. ASSUME NEW y \in ToSet(s), y # s[1] PROVE y \in ToSet(t)
      BY <2>1, <2>2, <2>4, <2>6
    <2> QED BY <2>5, <2>6
  <1>10. s[1] \in ToSet(s)
    BY <1>1, <1>5 DEF ToSet
  <1> QED BY <1>2, <1>5, <1>7, <1>9, <1>10

LEMMA DistinctSize ==
  ASSUME NEW S, NEW s, Distinct(s, S)
  PROVE  IsFiniteSet(ToSet(s)) /\ Cardinality(ToSet(s)) = Len(s)
PROOF
  <1>1. s \in Seq(S) /\ Len(s) \in Nat /\ DOMAIN s = 1..Len(s)
    BY DistinctSet DEF Distinct
  <1>2. s \in [1..Len(s) -> ToSet(s)]
    BY <1>1, LenProperties DEF ToSet
  <1>3. s \in Surjection(1..Len(s), ToSet(s))
    <2>1. \A x \in ToSet(s) : \E i \in 1..Len(s) : s[i] = x
      BY <1>1 DEF ToSet
    <2> QED BY <1>2, <2>1, Fun_IsSurj
  <1>4. s \in Injection(1..Len(s), ToSet(s))
    <2>1. \A i, j \in 1..Len(s) : s[i] = s[j] => i = j
      BY DEF Distinct
    <2> QED BY <1>2, <2>1, Fun_IsInj
  <1>5. IsFiniteSet(1..Len(s)) /\ Cardinality(1..Len(s)) = Len(s)
    BY <1>1, FS_Interval
  <1> QED BY <1>3, <1>4, <1>5, FS_Surjection

(* The sets that the sequences stand for. *)
LEMMA PromiseSets ==
  ASSUME PromisesInv
  PROVE  /\ PromisesType /\ FuturesRight /\ PlacesOfPromises /\ WaitsRight /\ CountsRight
         /\ Waiters \subseteq Added /\ ToldNext \subseteq Added /\ Pending \subseteq Asked
         /\ IsFiniteSet(Pending) /\ Cardinality(Pending) = Len(futures_) /\ Len(futures_) \in Nat
         /\ futures_ # <<>> <=> Len(futures_) > 0
         /\ futures_ = <<>> <=> Pending = {}
         /\ IsFiniteSet(Heard) /\ Cardinality(Heard) \in Nat /\ Heard \subseteq Pending
         /\ Cardinality(Heard) <= Len(futures_)
         /\ Cardinality(Heard) = Len(futures_) => Heard = Pending
         /\ \A p \in Added : WaitedFor(p) \subseteq Asked
PROOF
  <1>1. PromisesType /\ FuturesRight /\ PlacesOfPromises /\ WaitsRight /\ CountsRight
    BY DEF PromisesInv
  <1>2. Distinct(promises_, Added) /\ Distinct(futures_, Asked) /\ Distinct(copy.promises, Added)
    BY <1>1 DEF PromisesType
  <1>3. Waiters \subseteq Added /\ ToldNext \subseteq Added /\ Pending \subseteq Asked
    BY <1>2, DistinctSet DEF Waiters, ToldNext, Pending
  <1>4. /\ Len(futures_) \in Nat /\ futures_ # <<>> <=> Len(futures_) > 0
        /\ futures_ = <<>> <=> Pending = {}
    BY <1>2, DistinctSet DEF Pending
  <1>5. IsFiniteSet(Pending) /\ Cardinality(Pending) = Len(futures_)
    BY <1>2, DistinctSize DEF Pending
  <1>6. Heard \subseteq Pending
    BY DEF Heard
  <1>7. /\ IsFiniteSet(Heard) /\ Cardinality(Heard) <= Cardinality(Pending)
        /\ Cardinality(Pending) = Cardinality(Heard) => Heard = Pending
    BY <1>5, <1>6, FS_Subset
  <1>8. Cardinality(Heard) \in Nat
    BY <1>7, FS_CardinalityType
  <1>9. \A p \in Added : WaitedFor(p) \subseteq Asked
    BY DEF WaitedFor
  <1> QED BY <1>1, <1>3, <1>4, <1>5, <1>6, <1>7, <1>8, <1>9

(* What is said of a promise stays true if nothing was answered or joined.      *)
LEMMA SameVerdict ==
  ASSUME UNCHANGED <<outcome, ignore_errors_>>, NEW p \in Added, WaitedFor(p)' = WaitedFor(p)
  PROVE  (AllAnswered(p)' <=> AllAnswered(p)) /\ Verdict(p)' = Verdict(p)
PROOF
  BY DEF AllAnswered, Verdict

LEMMA SameTold ==
  ASSUME UNCHANGED <<outcome, ignore_errors_>>, NEW p \in Added, WaitedFor(p)' = WaitedFor(p),
         late \subseteq late', answers'[p] = answers[p], ToldRight(p)
  PROVE  ToldRight(p)'
PROOF
  <1>1. (AllAnswered(p)' <=> AllAnswered(p)) /\ Verdict(p)' = Verdict(p)
    BY SameVerdict
  <1> QED BY <1>1 DEF ToldRight

LEMMA AddPromiseSafe ==
  ASSUME PromisesInv, NEW p \in Added, AddPromise(p)
  PROVE  PromisesInv'
PROOF
  <1>1. /\ PromisesType /\ FuturesRight /\ PlacesOfPromises /\ WaitsRight /\ CountsRight
        /\ Pending \subseteq Asked
    BY PromiseSets
  <1>2. /\ answers[p] = <<>> /\ p \notin Waiters /\ p \notin ToldNext
        /\ promises_' = Append(promises_, p) /\ joint' = joint \union ({p} \X Pending)
        /\ UNCHANGED <<actor, futures_, received_results_, raw_events, copy,
                       has_handle, ignore_errors_, future, deaf, outcome, answers, late>>
    BY DEF AddPromise, Waiters, ToldNext, Pending
  <1>3. Distinct(promises_', Added) /\ Waiters' = Waiters \union {p}
    <2>1. Distinct(promises_, Added) /\ p \notin ToSet(promises_)
      BY <1>1, <1>2 DEF PromisesType, Waiters
    <2> QED BY <1>2, <2>1, AppendDistinct DEF Waiters
  <1>4. Pending' = Pending /\ ToldNext' = ToldNext /\ Heard' = Heard
    BY <1>2 DEF Pending, ToldNext, Heard
  <1>5. WaitedFor(p)' = Pending /\ \A q \in Added : q # p => WaitedFor(q)' = WaitedFor(q)
    <2>1. WaitedFor(p) = {}
      BY <1>1, <1>2 DEF PlacesOfPromises
    <2> QED BY <1>1, <1>2, <2>1 DEF WaitedFor
  <1>6. PromisesType'
    BY <1>1, <1>2, <1>3 DEF PromisesType
  <1>7. FuturesRight'
    BY <1>1, <1>2, <1>4 DEF FuturesRight
  <1>8. PlacesOfPromises'
    BY <1>1, <1>2, <1>3, <1>4, <1>5 DEF PlacesOfPromises, NoCopy
  <1>9. WaitsRight'
    <2>1. \A q \in Waiters' : WaitedFor(q)' = Pending'
      <3>1. Waiters \subseteq Added
        BY PromiseSets
      <3> QED BY <1>1, <1>3, <1>4, <1>5, <3>1 DEF WaitsRight
    <2>2. ASSUME NEW q \in ToldNext PROVE AllAnswered(q)' /\ copy'.result = Verdict(q)'
      <3>1. q \in Added /\ q # p /\ AllAnswered(q) /\ copy.result = Verdict(q)
        BY <1>1, <1>2, PromiseSets DEF WaitsRight
      <3> QED BY <1>2, <1>5, <3>1, SameVerdict
    <2>3. ASSUME NEW q \in Added PROVE ToldRight(q)'
      <3>1. CASE q = p
        BY <1>2, <3>1 DEF ToldRight
      <3>2. CASE q # p
        BY <1>1, <1>2, <1>5, <3>2, SameTold DEF WaitsRight
      <3> QED BY <3>1, <3>2
    <2> QED BY <1>4, <2>1, <2>2, <2>3 DEF WaitsRight
  <1>10. CountsRight'
    BY <1>1, <1>2, <1>4 DEF CountsRight
  <1> QED BY <1>6, <1>7, <1>8, <1>9, <1>10 DEF PromisesInv

LEMMA GetPromiseSafe ==
  ASSUME PromisesInv, NEW f \in Asked, GetPromise(f)
  PROVE  PromisesInv'
PROOF
  <1>1. /\ PromisesType /\ FuturesRight /\ PlacesOfPromises /\ WaitsRight /\ CountsRight
        /\ Pending \subseteq Asked /\ Waiters \subseteq Added /\ ToldNext \subseteq Added
        /\ Len(futures_) \in Nat /\ (futures_ = <<>> <=> Pending = {})
        /\ (futures_ # <<>> <=> Len(futures_) > 0)
    BY PromiseSets
  <1>2. /\ future[f] = "None"
        /\ actor' = IF actor = "empty" THEN "alive" ELSE actor
        /\ future' = [future EXCEPT ![f] = "Waiting"]
        /\ futures_' = Append(futures_, f)
        /\ joint' = joint \union (Waiters \X {f})
        /\ late' = IF actor = "down" THEN late \union {f} ELSE late
        /\ UNCHANGED <<promises_, received_results_, raw_events, copy,
                       has_handle, ignore_errors_, deaf, outcome, answers>>
    BY DEF GetPromise, Waiters
  <1>3. f \notin Pending /\ f \notin deaf /\ outcome[f] = "none" /\ \A p \in Added : <<p, f>> \notin joint
    BY <1>1, <1>2 DEF FuturesRight
  <1>4. Distinct(futures_', Asked) /\ Pending' = Pending \union {f} /\ Len(futures_') = Len(futures_) + 1
    <2>1. Distinct(futures_, Asked) /\ f \notin ToSet(futures_)
      BY <1>1, <1>3 DEF PromisesType, Pending
    <2> QED BY <1>2, <2>1, AppendDistinct DEF Pending
  <1>5. Waiters' = Waiters /\ ToldNext' = ToldNext
    BY <1>2 DEF Waiters, ToldNext
  <1>6. /\ \A q \in Waiters : WaitedFor(q)' = WaitedFor(q) \union {f}
        /\ \A q \in Added : q \notin Waiters => WaitedFor(q)' = WaitedFor(q)
    BY <1>2 DEF WaitedFor
  <1>7. \A g \in Asked : future'[g] = IF g = f THEN "Waiting" ELSE future[g]
    BY <1>1, <1>2 DEF PromisesType
  <1>8. Heard' = Heard
    BY <1>1, <1>2, <1>3, <1>4, <1>7 DEF Heard
  <1>9. PromisesType'
    BY <1>1, <1>2, <1>4 DEF PromisesType
  <1>10. FuturesRight'
    BY <1>1, <1>2, <1>3, <1>4, <1>7 DEF FuturesRight
  <1>11. PlacesOfPromises'
    BY <1>1, <1>2, <1>5, <1>6 DEF PlacesOfPromises, NoCopy
  <1>12. WaitsRight'
    <2>1. \A q \in Waiters' : WaitedFor(q)' = Pending'
      BY <1>1, <1>4, <1>5, <1>6 DEF WaitsRight
    <2>2. ASSUME NEW q \in ToldNext PROVE AllAnswered(q)' /\ copy'.result = Verdict(q)'
      <3>1. q \in Added /\ q \notin Waiters /\ AllAnswered(q) /\ copy.result = Verdict(q)
        BY <1>1 DEF WaitsRight, PlacesOfPromises
      <3> QED BY <1>2, <1>6, <3>1, SameVerdict
    <2>3. ASSUME NEW q \in Added PROVE ToldRight(q)'
      <3>1. CASE q \in Waiters
        <4>1. answers'[q] = <<>>
          BY <1>1, <1>2, <3>1 DEF PlacesOfPromises
        <4> QED BY <4>1 DEF ToldRight
      <3>2. CASE q \notin Waiters
        <4>1. late \subseteq late' /\ ToldRight(q) /\ WaitedFor(q)' = WaitedFor(q)
          BY <1>1, <1>2, <1>6, <3>2 DEF WaitsRight
        <4> QED BY <1>2, <4>1, SameTold
      <3> QED BY <3>1, <3>2
    <2> QED BY <1>5, <2>1, <2>2, <2>3 DEF WaitsRight
  <1>13. CountsRight'
    <2>1. received_results_' + raw_events' = Cardinality(Heard')
      BY <1>1, <1>2, <1>8 DEF CountsRight
    <2>2. received_results_ < Len(futures_) + 1
      <3>1. received_results_ \in Nat /\ raw_events \in Nat
        BY <1>1 DEF PromisesType
      <3>2. received_results_ + raw_events <= Len(futures_)
        BY <1>1, PromiseSets DEF CountsRight
      <3> QED BY <1>1, <3>1, <3>2
    <2>3. actor' # "alive" => received_results_' = 0
      BY <1>1, <1>2 DEF CountsRight, PromisesType
    <2>4. actor' # "empty"
      BY <1>2
    <2>5. actor' = "down" => Pending' \subseteq late'
      BY <1>1, <1>2, <1>4 DEF CountsRight, PromisesType
    <2>6. Pending' \intersect deaf' \subseteq late'
      BY <1>1, <1>2, <1>3, <1>4 DEF CountsRight
    <2> QED BY <1>2, <1>4, <2>1, <2>2, <2>3, <2>4, <2>5, <2>6 DEF CountsRight
  <1> QED BY <1>9, <1>10, <1>11, <1>12, <1>13 DEF PromisesInv

(* A future that is counted becomes ready, and its event is sent. *)
LEMMA HeardOneMore ==
  ASSUME PromisesInv, NEW f \in Asked, future[f] \in {"Waiting", "Coming"},
         future' = [future EXCEPT ![f] = "Ready"], EmitLater(f),
         UNCHANGED <<actor, futures_, deaf, received_results_>>
  PROVE  /\ received_results_' + raw_events' = Cardinality(Heard') /\ raw_events' \in Nat
         /\ actor' = "empty" => raw_events' = 0
PROOF
  <1>1. /\ PromisesType /\ FuturesRight /\ CountsRight /\ IsFiniteSet(Heard) /\ Cardinality(Heard) \in Nat
        /\ Pending \subseteq Asked
    BY PromiseSets
  <1>2. f \in Pending /\ f \notin Heard
    BY <1>1 DEF FuturesRight, Heard
  <1>3. \A g \in Asked : future'[g] = IF g = f THEN "Ready" ELSE future[g]
    BY <1>1 DEF PromisesType
  <1>4. Pending' = Pending
    BY DEF Pending
  <1>5. received_results_ \in Nat /\ raw_events \in Nat /\ received_results_ + raw_events = Cardinality(Heard)
    BY <1>1 DEF CountsRight, PromisesType
  <1>6. CASE f \in deaf
    <2>1. Heard' = Heard
      BY <1>1, <1>3, <1>4, <1>6 DEF Heard
    <2>2. raw_events' = raw_events
      BY <1>6 DEF EmitLater
    <2> QED BY <1>1, <1>5, <2>1, <2>2 DEF CountsRight
  <1>7. CASE f \notin deaf
    <2>1. Heard' = Heard \union {f}
      BY <1>1, <1>2, <1>3, <1>4, <1>7 DEF Heard
    <2>2. actor # "empty"
      BY <1>1, <1>2, <1>7 DEF CountsRight
    <2>3. raw_events' = raw_events + 1
      BY <1>7, <2>2 DEF EmitLater
    <2>4. Cardinality(Heard \union {f}) = Cardinality(Heard) + 1
      BY <1>1, <1>2, FS_AddElement
    <2> QED BY <1>5, <2>1, <2>2, <2>3, <2>4
  <1> QED BY <1>6, <1>7

(* What follows from the new value of the counts, when nothing else moves.       *)
LEMMA CountsKept ==
  ASSUME CountsRight, received_results_' + raw_events' = Cardinality(Heard'),
         actor' = "empty" => raw_events' = 0,
         UNCHANGED <<actor, futures_, deaf, late, received_results_>>
  PROVE  CountsRight'
PROOF
  <1>1. Pending' = Pending
    BY DEF Pending
  <1> QED BY <1>1 DEF CountsRight

LEMMA AnswerSafe ==
  ASSUME PromisesInv, NEW f \in Asked, Answer(f)
  PROVE  PromisesInv'
PROOF
  <1>1. /\ PromisesType /\ FuturesRight /\ PlacesOfPromises /\ WaitsRight /\ CountsRight
        /\ Pending \subseteq Asked /\ Waiters \subseteq Added /\ ToldNext \subseteq Added
    BY PromiseSets
  <1>2. /\ future[f] \in {"Waiting", "Gone"} /\ outcome[f] = "none"
        /\ UNCHANGED <<actor, promises_, futures_, received_results_, copy,
                       has_handle, ignore_errors_, deaf, answers, joint, late>>
    BY DEF Answer
  <1>3. PICK o \in {"ok", "error"} : outcome' = [outcome EXCEPT ![f] = o]
    BY DEF Answer
  <1>4. \A g \in Asked : outcome'[g] = IF g = f THEN o ELSE outcome[g]
    BY <1>1, <1>3 DEF PromisesType
  <1>5. Pending' = Pending /\ Waiters' = Waiters /\ ToldNext' = ToldNext
    BY <1>2 DEF Pending, Waiters, ToldNext
  <1>6. \A q \in Added : WaitedFor(q)' = WaitedFor(q) /\ WaitedFor(q) \subseteq Asked
    BY <1>2 DEF WaitedFor
  <1>7. ASSUME NEW q \in Added, AllAnswered(q) PROVE AllAnswered(q)' /\ Verdict(q)' = Verdict(q)
    <2>1. WaitedFor(q) # {} /\ \A g \in WaitedFor(q) : outcome[g] # "none"
      BY <1>7 DEF AllAnswered
    <2>2. \A g \in WaitedFor(q) : outcome'[g] = outcome[g]
      BY <1>2, <1>4, <1>6, <2>1
    <2> QED BY <1>2, <1>6, <2>1, <2>2 DEF AllAnswered, Verdict
  <1>8. /\ PromisesType' /\ FuturesRight'
        /\ received_results_' + raw_events' = Cardinality(Heard')
        /\ actor' = "empty" => raw_events' = 0
    <2>1. outcome' \in [Asked -> {"none", "ok", "error"}]
      BY <1>1, <1>3 DEF PromisesType
    <2>2. CASE future[f] = "Waiting" /\ future' = [future EXCEPT ![f] = "Ready"] /\ EmitLater(f)
      <3>1. /\ received_results_' + raw_events' = Cardinality(Heard') /\ raw_events' \in Nat
            /\ actor' = "empty" => raw_events' = 0
        BY <1>2, <2>2, HeardOneMore
      <3>2. \A g \in Asked : future'[g] = IF g = f THEN "Ready" ELSE future[g]
        BY <1>1, <2>2 DEF PromisesType
      <3>3. PromisesType'
        BY <1>1, <1>2, <2>1, <2>2, <3>1 DEF PromisesType
      <3>4. FuturesRight'
        BY <1>1, <1>2, <1>3, <1>4, <1>5, <2>2, <3>2 DEF FuturesRight
      <3> QED BY <3>1, <3>3, <3>4
    <2>3. CASE future[f] = "Waiting" /\ future' = [future EXCEPT ![f] = "Coming"] /\ UNCHANGED raw_events
      <3>1. \A g \in Asked : future'[g] = IF g = f THEN "Coming" ELSE future[g]
        BY <1>1, <2>3 DEF PromisesType
      <3>2. Heard' = Heard
        BY <1>1, <1>2, <1>5, <2>3, <3>1 DEF Heard
      <3>3. PromisesType'
        BY <1>1, <1>2, <2>1, <2>3 DEF PromisesType
      <3>4. FuturesRight'
        BY <1>1, <1>2, <1>3, <1>4, <1>5, <2>3, <3>1 DEF FuturesRight
      <3> QED BY <1>1, <1>2, <2>3, <3>2, <3>3, <3>4 DEF CountsRight
    <2>4. CASE future[f] = "Gone" /\ UNCHANGED <<future, raw_events>>
      <3>2. Heard' = Heard
        BY <1>1, <1>2, <1>5, <2>4 DEF Heard
      <3>3. PromisesType'
        BY <1>1, <1>2, <2>1, <2>4 DEF PromisesType
      <3>4. FuturesRight'
        BY <1>1, <1>2, <1>3, <1>4, <1>5, <2>4 DEF FuturesRight
      <3> QED BY <1>1, <1>2, <2>4, <3>2, <3>3, <3>4 DEF CountsRight
    <2> QED BY <2>2, <2>3, <2>4 DEF Answer
  <1>9. PlacesOfPromises'
    BY <1>1, <1>2, <1>5, <1>6 DEF PlacesOfPromises, NoCopy
  <1>10. WaitsRight'
    <2>1. \A q \in Waiters' : WaitedFor(q)' = Pending'
      BY <1>1, <1>5, <1>6 DEF WaitsRight
    <2>2. \A q \in ToldNext : AllAnswered(q)' /\ copy'.result = Verdict(q)'
      BY <1>1, <1>2, <1>7 DEF WaitsRight
    <2>3. ASSUME NEW q \in Added PROVE ToldRight(q)'
      <3>1. ToldRight(q)
        BY <1>1 DEF WaitsRight
      <3>2. CASE AllAnswered(q)
        BY <1>2, <1>6, <1>7, <3>1, <3>2 DEF ToldRight
      <3>3. CASE ~AllAnswered(q)
        BY <1>2, <1>6, <3>1, <3>3 DEF ToldRight
      <3> QED BY <3>2, <3>3
    <2> QED BY <1>5, <2>1, <2>2, <2>3 DEF WaitsRight
  <1>11. CountsRight'
    BY <1>1, <1>2, <1>8, CountsKept
  <1> QED BY <1>8, <1>9, <1>10, <1>11 DEF PromisesInv

LEMMA FutureRunsSafe ==
  ASSUME PromisesInv, NEW f \in Asked, FutureRuns(f)
  PROVE  PromisesInv'
PROOF
  <1>1. /\ PromisesType /\ FuturesRight /\ PlacesOfPromises /\ WaitsRight /\ CountsRight
        /\ Pending \subseteq Asked /\ Waiters \subseteq Added /\ ToldNext \subseteq Added
    BY PromiseSets
  <1>2. /\ future[f] = "Coming" /\ future' = [future EXCEPT ![f] = "Ready"] /\ EmitLater(f)
        /\ UNCHANGED <<actor, promises_, futures_, received_results_, copy,
                       has_handle, ignore_errors_, deaf, outcome, answers, joint, late>>
    BY DEF FutureRuns
  <1>3. Pending' = Pending /\ Waiters' = Waiters /\ ToldNext' = ToldNext
    BY <1>2 DEF Pending, Waiters, ToldNext
  <1>4. \A q \in Added : WaitedFor(q)' = WaitedFor(q)
    BY <1>2 DEF WaitedFor
  <1>5. /\ received_results_' + raw_events' = Cardinality(Heard') /\ raw_events' \in Nat
        /\ actor' = "empty" => raw_events' = 0
    BY <1>2, HeardOneMore
  <1>6. \A g \in Asked : future'[g] = IF g = f THEN "Ready" ELSE future[g]
    BY <1>1, <1>2 DEF PromisesType
  <1>7. PromisesType'
    BY <1>1, <1>2, <1>5 DEF PromisesType
  <1>8. FuturesRight'
    BY <1>1, <1>2, <1>3, <1>6 DEF FuturesRight
  <1>9. PlacesOfPromises'
    BY <1>1, <1>2, <1>3, <1>4 DEF PlacesOfPromises, NoCopy
  <1>10. WaitsRight'
    <2>1. \A q \in Waiters' : WaitedFor(q)' = Pending'
      BY <1>1, <1>3, <1>4 DEF WaitsRight
    <2>2. \A q \in ToldNext : AllAnswered(q)' /\ copy'.result = Verdict(q)'
      BY <1>1, <1>2, <1>4, SameVerdict DEF WaitsRight
    <2>3. \A q \in Added : ToldRight(q)'
      BY <1>1, <1>2, <1>4, SameTold DEF WaitsRight
    <2> QED BY <1>3, <2>1, <2>2, <2>3 DEF WaitsRight
  <1>11. CountsRight'
    BY <1>1, <1>2, <1>5, CountsKept
  <1> QED BY <1>7, <1>8, <1>9, <1>10, <1>11 DEF PromisesInv

(* Promises and futures are destroyed when all the futures came too late. *)
LEMMA LostSafe ==
  ASSUME PromisesInv, Lost, Pending \subseteq late,
         UNCHANGED <<ignore_errors_, outcome, joint, late>>,
         ToldNext' = {}, ToldNext = {}
  PROVE  /\ Distinct(promises_', Added) /\ Distinct(futures_', Asked)
         /\ future' \in [Asked -> {"None", "Waiting", "Coming", "Ready", "Gone"}]
         /\ answers' \in [Added -> Seq({"ok", "error"})]
         /\ Waiters' = {} /\ Pending' = {} /\ futures_' = <<>>
         /\ \A f \in Asked : future'[f] = IF f \in Pending THEN "Gone" ELSE future[f]
         /\ \A p \in Added : answers'[p] = <<>> => WaitedFor(p)' = {}
         /\ WaitsRight'
PROOF
  <1>1. /\ PromisesType /\ FuturesRight /\ PlacesOfPromises /\ WaitsRight
        /\ Pending \subseteq Asked /\ Waiters \subseteq Added
    BY PromiseSets
  <1>2. /\ answers' = [p \in Added |-> IF p \in Waiters THEN Append(answers[p], "error") ELSE answers[p]]
        /\ promises_' = <<>> /\ futures_' = <<>>
        /\ future' = [f \in Asked |-> IF f \in Pending THEN "Gone" ELSE future[f]]
    BY DEF Lost, Waiters, Pending
  <1>3. /\ Distinct(promises_', Added) /\ Distinct(futures_', Asked) /\ Waiters' = {} /\ Pending' = {}
    BY <1>2, EmptyDistinct DEF Waiters, Pending
  <1>4. \A p \in Added : answers'[p] = IF p \in Waiters THEN <<"error">> ELSE answers[p]
    <2>1. \A p \in Waiters : answers[p] = <<>>
      BY <1>1 DEF PlacesOfPromises
    <2>2. Append(<<>>, "error") = <<"error">>
      OBVIOUS
    <2> QED BY <1>2, <2>1, <2>2
  <1>5. answers' \in [Added -> Seq({"ok", "error"})]
    <2>1. <<"error">> \in Seq({"ok", "error"})
      OBVIOUS
    <2>2. \A p \in Added : answers'[p] \in Seq({"ok", "error"})
      BY <1>1, <1>4, <2>1 DEF PromisesType
    <2> QED BY <1>2, <2>2
  <1>6. future' \in [Asked -> {"None", "Waiting", "Coming", "Ready", "Gone"}]
    BY <1>1, <1>2 DEF PromisesType
  <1>7. \A p \in Added : WaitedFor(p)' = WaitedFor(p)
    BY DEF WaitedFor
  <1>8. <<"error">> # <<>>
    OBVIOUS
  <1>9. \A p \in Added : answers'[p] = <<>> => WaitedFor(p)' = {}
    BY <1>1, <1>4, <1>7, <1>8 DEF PlacesOfPromises
  <1>10. ASSUME NEW p \in Added PROVE ToldRight(p)'
    <2>1. CASE p \in Waiters
      <3>1. WaitedFor(p) \subseteq late
        BY <1>1, <2>1 DEF WaitsRight
      <3>2. answers'[p] = <<"error">>
        BY <1>4, <2>1
      <3> QED BY <1>7, <3>1, <3>2 DEF ToldRight
    <2>2. CASE p \notin Waiters
      <3>1. answers'[p] = answers[p] /\ ToldRight(p)
        BY <1>1, <1>4, <2>2 DEF WaitsRight
      <3> QED BY <1>7, <3>1, SameTold
    <2> QED BY <2>1, <2>2
  <1>11. WaitsRight'
    BY <1>3, <1>10 DEF WaitsRight
  <1> QED BY <1>2, <1>3, <1>5, <1>6, <1>9, <1>11

LEMMA DropHandleSafe ==
  ASSUME PromisesInv, DropHandle
  PROVE  PromisesInv'
PROOF
  <1>1. /\ PromisesType /\ FuturesRight /\ PlacesOfPromises /\ WaitsRight /\ CountsRight
        /\ Pending \subseteq Asked /\ Waiters \subseteq Added /\ ToldNext \subseteq Added
    BY PromiseSets
  <1>2. /\ has_handle' = FALSE
        /\ UNCHANGED <<actor, received_results_, raw_events, copy,
                       ignore_errors_, deaf, outcome, joint, late>>
    BY DEF DropHandle
  <1>3. ToldNext' = ToldNext
    BY <1>2 DEF ToldNext
  <1>4. CASE actor = "empty" /\ Lost
    <2>1. Pending \subseteq late /\ copy = NoCopy
      BY <1>1, <1>4 DEF CountsRight, PlacesOfPromises
    <2>2. ToldNext = {}
      BY <2>1, EmptyDistinct DEF ToldNext, NoCopy
    <2>3. /\ Distinct(promises_', Added) /\ Distinct(futures_', Asked)
          /\ future' \in [Asked -> {"None", "Waiting", "Coming", "Ready", "Gone"}]
          /\ answers' \in [Added -> Seq({"ok", "error"})]
          /\ Waiters' = {} /\ Pending' = {} /\ futures_' = <<>>
          /\ \A f \in Asked : future'[f] = IF f \in Pending THEN "Gone" ELSE future[f]
          /\ \A p \in Added : answers'[p] = <<>> => WaitedFor(p)' = {}
          /\ WaitsRight'
      BY <1>2, <1>3, <1>4, <2>1, <2>2, LostSafe
    <2>4. PromisesType'
      BY <1>1, <1>2, <2>3 DEF PromisesType
    <2>5. FuturesRight'
      BY <1>1, <1>2, <2>3 DEF FuturesRight
    <2>6. PlacesOfPromises'
      BY <1>1, <1>2, <1>3, <2>2, <2>3 DEF PlacesOfPromises, NoCopy
    <2>7. CountsRight'
      <3>1. Heard' = {}
        BY <2>3 DEF Heard
      <3>2. received_results_ = 0 /\ raw_events = 0
        BY <1>1, <1>4 DEF CountsRight
      <3>3. Cardinality(Heard') = 0
        BY <3>1, FS_EmptySet
      <3> QED BY <1>2, <1>4, <2>3, <3>2, <3>3 DEF CountsRight
    <2> QED BY <2>3, <2>4, <2>5, <2>6, <2>7 DEF PromisesInv
  <1>5. CASE UNCHANGED <<answers, promises_, future, futures_>>
    <2>1. Waiters' = Waiters /\ Pending' = Pending /\ Heard' = Heard
      BY <1>2, <1>5 DEF Waiters, Pending, Heard
    <2>2. \A q \in Added : WaitedFor(q)' = WaitedFor(q)
      BY <1>2 DEF WaitedFor
    <2>3. PromisesType'
      BY <1>1, <1>2, <1>5 DEF PromisesType
    <2>4. FuturesRight'
      BY <1>1, <1>2, <1>5, <2>1 DEF FuturesRight
    <2>5. PlacesOfPromises'
      BY <1>1, <1>2, <1>3, <1>5, <2>1, <2>2 DEF PlacesOfPromises, NoCopy
    <2>6. WaitsRight'
      <3>1. \A q \in Waiters' : WaitedFor(q)' = Pending'
        BY <1>1, <2>1, <2>2 DEF WaitsRight
      <3>2. \A q \in ToldNext : AllAnswered(q)' /\ copy'.result = Verdict(q)'
        BY <1>1, <1>2, <2>2, SameVerdict DEF WaitsRight
      <3>3. \A q \in Added : ToldRight(q)'
        BY <1>1, <1>2, <1>5, <2>2, SameTold DEF WaitsRight
      <3> QED BY <1>3, <3>1, <3>2, <3>3 DEF WaitsRight
    <2>7. CountsRight'
      BY <1>1, <1>2, <1>5, <2>1 DEF CountsRight
    <2> QED BY <2>3, <2>4, <2>5, <2>6, <2>7 DEF PromisesInv
  <1> QED BY <1>4, <1>5 DEF DropHandle

LEMMA RawEventSafe ==
  ASSUME PromisesInv, RawEvent
  PROVE  PromisesInv'
PROOF
  <1>1. /\ PromisesType /\ FuturesRight /\ PlacesOfPromises /\ WaitsRight /\ CountsRight
        /\ Pending \subseteq Asked /\ Waiters \subseteq Added /\ Len(futures_) \in Nat
        /\ Cardinality(Heard) \in Nat /\ Cardinality(Heard) <= Len(futures_)
        /\ Cardinality(Heard) = Len(futures_) => Heard = Pending
        /\ (futures_ = <<>> <=> Pending = {}) /\ (futures_ # <<>> <=> Len(futures_) > 0)
    BY PromiseSets
  <1>2. /\ actor = "alive" /\ raw_events > 0 /\ raw_events' = raw_events - 1
        /\ UNCHANGED <<has_handle, ignore_errors_, future, deaf, outcome, answers, joint, late>>
    BY DEF RawEvent
  <1>3. /\ received_results_ \in Nat /\ raw_events \in Nat /\ raw_events' \in Nat
        /\ received_results_ + raw_events = Cardinality(Heard)
        /\ futures_ # <<>> /\ received_results_ < Len(futures_)
    <2>1. /\ received_results_ \in Nat /\ raw_events \in Nat
          /\ received_results_ + raw_events = Cardinality(Heard)
      BY <1>1 DEF CountsRight, PromisesType
    <2>2. futures_ # <<>>
      BY <1>1, <1>2, <2>1
    <2>3. received_results_ < Len(futures_)
      BY <1>1, <2>2 DEF CountsRight
    <2> QED BY <1>2, <2>1, <2>2, <2>3
  <1>4. \A q \in Added : WaitedFor(q)' = WaitedFor(q)
    BY <1>2 DEF WaitedFor
  <1>5. ToldNext = {} /\ copy = NoCopy
    <2>1. copy = NoCopy
      BY <1>1, <1>2 DEF PlacesOfPromises
    <2> QED BY <2>1, EmptyDistinct DEF ToldNext, NoCopy
  <1>6. \A q \in Added : ToldRight(q)'
    BY <1>1, <1>2, <1>4, SameTold DEF WaitsRight
  <1>7. CASE received_results_ + 1 = Len(futures_) /\ actor' = "down" /\ RoundOver
    <2>1. /\ copy' = [promises |-> promises_, result |-> ResultOf(futures_)]
          /\ promises_' = <<>> /\ futures_' = <<>> /\ received_results_' = 0
      BY <1>7 DEF RoundOver
    <2>2. raw_events' = 0 /\ Heard = Pending /\ Pending # {}
      BY <1>1, <1>2, <1>3, <1>7
    <2>3. /\ Waiters' = {} /\ Pending' = {} /\ ToldNext' = Waiters
          /\ Distinct(promises_', Added) /\ Distinct(futures_', Asked)
      BY <2>1, EmptyDistinct DEF Waiters, Pending, ToldNext
    <2>4. ResultOf(futures_) \in {"ok", "error"}
      BY DEF ResultOf
    <2>5. PromisesType'
      <3>1. copy' \in [promises : Seq(Added), result : {"none", "ok", "error"}]
        BY <1>1, <2>1, <2>4 DEF PromisesType, Distinct
      <3>2. Distinct(copy'.promises, Added)
        BY <1>1, <2>1 DEF PromisesType
      <3> QED BY <1>1, <1>2, <1>3, <1>7, <2>1, <2>3, <3>1, <3>2 DEF PromisesType
    <2>6. \A f \in Asked : future[f] \notin {"Waiting", "Coming"}
      BY <1>1, <2>2 DEF FuturesRight, Heard
    <2>7. FuturesRight'
      BY <1>1, <1>2, <2>3, <2>6 DEF FuturesRight
    <2>8. PlacesOfPromises'
      BY <1>1, <1>2, <1>4, <1>5, <1>7, <2>3 DEF PlacesOfPromises
    <2>9. ASSUME NEW q \in Waiters PROVE AllAnswered(q)' /\ copy'.result = Verdict(q)'
      <3>1. q \in Added /\ WaitedFor(q) = Pending
        BY <1>1 DEF WaitsRight
      <3>2. AllAnswered(q)
        BY <1>1, <2>2, <3>1 DEF AllAnswered, Heard, FuturesRight
      <3>3. ResultOf(futures_) = Verdict(q)
        BY <3>1 DEF ResultOf, Verdict, Pending
      <3>4. (AllAnswered(q)' <=> AllAnswered(q)) /\ Verdict(q)' = Verdict(q)
        BY <1>2, <1>4, <3>1, SameVerdict
      <3> QED BY <2>1, <3>2, <3>3, <3>4
    <2>10. WaitsRight'
      BY <1>6, <2>3, <2>9 DEF WaitsRight
    <2>11. CountsRight'
      <3>1. Heard' = {}
        BY <2>3 DEF Heard
      <3>2. Cardinality(Heard') = 0
        BY <3>1, FS_EmptySet
      <3> QED BY <1>7, <2>1, <2>2, <2>3, <3>2 DEF CountsRight
    <2> QED BY <2>5, <2>7, <2>8, <2>10, <2>11 DEF PromisesInv
  <1>8. CASE /\ received_results_ + 1 # Len(futures_) /\ received_results_' = received_results_ + 1
             /\ UNCHANGED <<actor, promises_, futures_, copy>>
    <2>1. Waiters' = Waiters /\ Pending' = Pending /\ Heard' = Heard /\ ToldNext' = ToldNext
      BY <1>2, <1>8 DEF Waiters, Pending, Heard, ToldNext
    <2>2. PromisesType'
      BY <1>1, <1>2, <1>3, <1>8 DEF PromisesType
    <2>3. FuturesRight'
      BY <1>1, <1>2, <1>8, <2>1 DEF FuturesRight
    <2>4. PlacesOfPromises'
      BY <1>1, <1>2, <1>4, <1>5, <1>8, <2>1 DEF PlacesOfPromises
    <2>5. WaitsRight'
      <3>1. \A q \in Waiters' : WaitedFor(q)' = Pending'
        BY <1>1, <1>4, <2>1 DEF WaitsRight
      <3> QED BY <1>5, <1>6, <2>1, <3>1 DEF WaitsRight
    <2>6. /\ received_results_' + raw_events' = Cardinality(Heard')
          /\ received_results_' < Len(futures_')
      BY <1>1, <1>2, <1>3, <1>8, <2>1
    <2>7. CountsRight'
      BY <1>1, <1>2, <1>8, <2>1, <2>6 DEF CountsRight
    <2> QED BY <2>2, <2>3, <2>4, <2>5, <2>7 DEF PromisesInv
  <1> QED BY <1>7, <1>8 DEF RawEvent

LEMMA SetResultSafe ==
  ASSUME PromisesInv, SetResult
  PROVE  PromisesInv'
PROOF
  <1>1. /\ PromisesType /\ FuturesRight /\ PlacesOfPromises /\ WaitsRight /\ CountsRight
        /\ Waiters \subseteq Added /\ ToldNext \subseteq Added
    BY PromiseSets
  <1>2. /\ actor = "down" /\ copy.promises # <<>>
        /\ answers' = [answers EXCEPT ![Head(copy.promises)] = Append(@, copy.result)]
        /\ copy' = [copy EXCEPT !.promises = Tail(@)]
        /\ UNCHANGED <<actor, promises_, futures_, received_results_, raw_events,
                       has_handle, ignore_errors_, future, deaf, outcome, joint, late>>
    BY DEF SetResult
  <1>3. PICK p : p = Head(copy.promises)
    OBVIOUS
  <1>4. /\ p \in ToldNext /\ ToldNext' = ToldNext \ {p} /\ Distinct(copy'.promises, Added)
        /\ copy'.result = copy.result /\ copy' \in [promises : Seq(Added), result : {"none", "ok", "error"}]
    <2>1. Distinct(copy.promises, Added) /\ copy \in [promises : Seq(Added), result : {"none", "ok", "error"}]
      BY <1>1 DEF PromisesType
    <2>2. copy'.promises = Tail(copy.promises) /\ copy'.result = copy.result
      BY <1>2, <2>1
    <2>3. /\ Head(copy.promises) \in ToSet(copy.promises) /\ Distinct(Tail(copy.promises), Added)
          /\ ToSet(Tail(copy.promises)) = ToSet(copy.promises) \ {Head(copy.promises)}
      BY <1>2, <2>1, TailDistinct
    <2>4. Tail(copy.promises) \in Seq(Added)
      BY <2>3 DEF Distinct
    <2> QED BY <1>2, <1>3, <2>1, <2>2, <2>3, <2>4 DEF ToldNext
  <1>5. /\ p \in Added /\ p \notin Waiters /\ answers[p] = <<>> /\ AllAnswered(p)
        /\ copy.result = Verdict(p) /\ copy.result \in {"ok", "error"}
    BY <1>1, <1>4 DEF PlacesOfPromises, WaitsRight, Verdict
  <1>6. \A q \in Added : answers'[q] = IF q = p THEN <<copy.result>> ELSE answers[q]
    <2>1. Append(<<>>, copy.result) = <<copy.result>>
      OBVIOUS
    <2> QED BY <1>1, <1>2, <1>3, <1>5, <2>1 DEF PromisesType
  <1>7. <<copy.result>> # <<>> /\ <<copy.result>> \in Seq({"ok", "error"})
    BY <1>5
  <1>8. answers' \in [Added -> Seq({"ok", "error"})]
    <2>1. \A q \in Added : answers'[q] \in Seq({"ok", "error"})
      BY <1>1, <1>6, <1>7 DEF PromisesType
    <2>2. DOMAIN answers' = Added /\ answers' = [q \in Added |-> answers'[q]]
      BY <1>1, <1>2 DEF PromisesType
    <2> QED BY <2>1, <2>2
  <1>9. Waiters' = Waiters /\ Pending' = Pending /\ Heard' = Heard
    BY <1>2 DEF Waiters, Pending, Heard
  <1>10. \A q \in Added : WaitedFor(q)' = WaitedFor(q)
    BY <1>2 DEF WaitedFor
  <1>11. PromisesType'
    BY <1>1, <1>2, <1>4, <1>8 DEF PromisesType
  <1>12. FuturesRight'
    BY <1>1, <1>2, <1>9 DEF FuturesRight
  <1>13. PlacesOfPromises'
    BY <1>1, <1>2, <1>4, <1>5, <1>6, <1>7, <1>9, <1>10 DEF PlacesOfPromises
  <1>14. WaitsRight'
    <2>1. \A q \in Waiters' : WaitedFor(q)' = Pending'
      BY <1>1, <1>9, <1>10 DEF WaitsRight
    <2>2. \A q \in ToldNext' : AllAnswered(q)' /\ copy'.result = Verdict(q)'
      BY <1>1, <1>2, <1>4, <1>10, SameVerdict DEF WaitsRight
    <2>3. ASSUME NEW q \in Added PROVE ToldRight(q)'
      <3>1. CASE q = p
        <4>1. AllAnswered(p)' /\ Verdict(p)' = Verdict(p) /\ WaitedFor(p)' = WaitedFor(p)
          BY <1>2, <1>5, <1>10, SameVerdict
        <4>2. WaitedFor(p) # {}
          BY <1>5 DEF AllAnswered
        <4>3. answers'[p] = <<Verdict(p)>>
          BY <1>5, <1>6
        <4> QED BY <3>1, <4>1, <4>2, <4>3 DEF ToldRight
      <3>2. CASE q # p
        <4>1. answers'[q] = answers[q] /\ ToldRight(q)
          BY <1>1, <1>6, <3>2 DEF WaitsRight
        <4> QED BY <1>2, <1>10, <4>1, SameTold
      <3> QED BY <3>1, <3>2
    <2> QED BY <2>1, <2>2, <2>3 DEF WaitsRight
  <1>15. CountsRight'
    BY <1>1, <1>2, <1>9 DEF CountsRight
  <1> QED BY <1>11, <1>12, <1>13, <1>14, <1>15 DEF PromisesInv

LEMMA StoppedSafe ==
  ASSUME PromisesInv, Stopped
  PROVE  PromisesInv'
PROOF
  <1>1. /\ PromisesType /\ FuturesRight /\ PlacesOfPromises /\ WaitsRight /\ CountsRight
        /\ Pending \subseteq Asked /\ Waiters \subseteq Added /\ ToldNext \subseteq Added
    BY PromiseSets
  <1>2. /\ actor = "down" /\ copy.promises = <<>> /\ actor' = "empty" /\ copy' = NoCopy
        /\ raw_events' = 0 /\ deaf' = {f \in Asked : future[f] # "None"}
        /\ UNCHANGED <<received_results_, has_handle, ignore_errors_, outcome, joint, late>>
    BY DEF Stopped
  <1>3. ToldNext = {} /\ ToldNext' = {} /\ Distinct(copy'.promises, Added)
        /\ copy' \in [promises : Seq(Added), result : {"none", "ok", "error"}]
    BY <1>2, EmptyDistinct DEF ToldNext, NoCopy, Distinct
  <1>4. Pending \subseteq late /\ received_results_ = 0 /\ Pending \subseteq deaf'
    BY <1>1, <1>2 DEF CountsRight, FuturesRight
  <1>5. deaf' \subseteq Asked
    BY <1>2
  <1>6. CASE UNCHANGED <<answers, promises_, future, futures_>>
    <2>1. Waiters' = Waiters /\ Pending' = Pending
      BY <1>6 DEF Waiters, Pending
    <2>2. \A q \in Added : WaitedFor(q)' = WaitedFor(q)
      BY <1>2 DEF WaitedFor
    <2>3. PromisesType'
      BY <1>1, <1>2, <1>3, <1>5, <1>6 DEF PromisesType
    <2>4. FuturesRight'
      BY <1>1, <1>2, <1>6, <2>1 DEF FuturesRight
    <2>5. PlacesOfPromises'
      BY <1>1, <1>2, <1>3, <1>6, <2>1, <2>2 DEF PlacesOfPromises, NoCopy
    <2>6. WaitsRight'
      <3>1. \A q \in Waiters' : WaitedFor(q)' = Pending'
        BY <1>1, <2>1, <2>2 DEF WaitsRight
      <3>2. \A q \in Added : ToldRight(q)'
        BY <1>1, <1>2, <1>6, <2>2, SameTold DEF WaitsRight
      <3> QED BY <1>3, <3>1, <3>2 DEF WaitsRight
    <2>7. CountsRight'
      <3>1. Heard' = {}
        BY <1>4, <2>1 DEF Heard
      <3>2. Cardinality(Heard') = 0
        BY <3>1, FS_EmptySet
      <3>3. futures_' # <<>> => received_results_' < Len(futures_')
        BY <1>1, <1>2, <1>6 DEF CountsRight
      <3> QED BY <1>2, <1>4, <2>1, <3>2, <3>3 DEF CountsRight
    <2> QED BY <2>3, <2>4, <2>5, <2>6, <2>7 DEF PromisesInv
  <1>7. CASE Lost
    <2>1. /\ Distinct(promises_', Added) /\ Distinct(futures_', Asked)
          /\ future' \in [Asked -> {"None", "Waiting", "Coming", "Ready", "Gone"}]
          /\ answers' \in [Added -> Seq({"ok", "error"})]
          /\ Waiters' = {} /\ Pending' = {} /\ futures_' = <<>>
          /\ \A f \in Asked : future'[f] = IF f \in Pending THEN "Gone" ELSE future[f]
          /\ \A p \in Added : answers'[p] = <<>> => WaitedFor(p)' = {}
          /\ WaitsRight'
      BY <1>2, <1>3, <1>4, <1>7, LostSafe
    <2>2. PromisesType'
      BY <1>1, <1>2, <1>3, <1>5, <2>1 DEF PromisesType
    <2>3. FuturesRight'
      BY <1>1, <1>2, <2>1 DEF FuturesRight
    <2>4. PlacesOfPromises'
      BY <1>2, <1>3, <2>1 DEF PlacesOfPromises, NoCopy
    <2>5. CountsRight'
      <3>1. Heard' = {}
        BY <2>1 DEF Heard
      <3>2. Cardinality(Heard') = 0
        BY <3>1, FS_EmptySet
      <3> QED BY <1>2, <1>4, <2>1, <3>2 DEF CountsRight
    <2> QED BY <2>1, <2>2, <2>3, <2>4, <2>5 DEF PromisesInv
  <1> QED BY <1>6, <1>7 DEF Stopped

LEMMA InitPromises == PromisesInit => PromisesInv
PROOF
  <1> SUFFICES ASSUME PromisesInit PROVE PromisesInv
    OBVIOUS
  <1> USE DEF PromisesInit, NoCopy
  <1>1. Waiters = {} /\ Pending = {} /\ ToldNext = {}
    BY EmptyDistinct DEF Waiters, Pending, ToldNext
  <1>2. PromisesType
    <2>1. Distinct(<<>>, Added) /\ Distinct(<<>>, Asked) /\ <<>> \in Seq(Added)
          /\ <<>> \in Seq({"ok", "error"})
      BY EmptyDistinct DEF Distinct
    <2> QED BY <2>1 DEF PromisesType
  <1>3. \A p \in Added : WaitedFor(p) = {}
    BY DEF WaitedFor
  <1>4. FuturesRight
    BY <1>1 DEF FuturesRight
  <1>5. PlacesOfPromises
    BY <1>1, <1>3 DEF PlacesOfPromises
  <1>6. WaitsRight
    BY <1>1 DEF WaitsRight, ToldRight
  <1>7. CountsRight
    <2>1. Heard = {}
      BY <1>1 DEF Heard
    <2>2. Cardinality(Heard) = 0
      BY <2>1, FS_EmptySet
    <2> QED BY <1>1, <2>2 DEF CountsRight
  <1> QED BY <1>2, <1>4, <1>5, <1>6, <1>7 DEF PromisesInv

LEMMA StutterPromises ==
  ASSUME PromisesInv, UNCHANGED promiseVars
  PROVE  PromisesInv'
PROOF
  <1> USE DEF promiseVars, roundVars
  <1>1. /\ PromisesType /\ FuturesRight /\ PlacesOfPromises /\ WaitsRight /\ CountsRight
        /\ Waiters \subseteq Added /\ ToldNext \subseteq Added
    BY PromiseSets
  <1>2. Waiters' = Waiters /\ Pending' = Pending /\ Heard' = Heard /\ ToldNext' = ToldNext
    BY DEF Waiters, Pending, Heard, ToldNext
  <1>3. \A q \in Added : WaitedFor(q)' = WaitedFor(q)
    BY DEF WaitedFor
  <1>4. PromisesType' /\ FuturesRight'
    BY <1>1, <1>2 DEF PromisesType, FuturesRight
  <1>5. PlacesOfPromises'
    BY <1>1, <1>2, <1>3 DEF PlacesOfPromises, NoCopy
  <1>6. WaitsRight'
    BY <1>1, <1>2, <1>3, SameVerdict, SameTold DEF WaitsRight
  <1>7. CountsRight'
    BY <1>1, <1>2 DEF CountsRight
  <1> QED BY <1>4, <1>5, <1>6, <1>7 DEF PromisesInv

LEMMA PromisesInvariant == PromisesSpec => []PromisesInv
PROOF
  <1>1. PromisesInit => PromisesInv
    BY InitPromises
  <1>2. PromisesInv /\ [PromisesNext]_promiseVars => PromisesInv'
    <2> SUFFICES ASSUME PromisesInv, [PromisesNext]_promiseVars PROVE PromisesInv'
      OBVIOUS
    <2>1. CASE UNCHANGED promiseVars
      BY <2>1, StutterPromises
    <2>2. CASE \E p \in Added : AddPromise(p)
      BY <2>2, AddPromiseSafe
    <2>3. CASE \E f \in Asked : GetPromise(f) \/ Answer(f) \/ FutureRuns(f)
      BY <2>3, GetPromiseSafe, AnswerSafe, FutureRunsSafe
    <2>4. CASE DropHandle \/ RawEvent \/ SetResult \/ Stopped
      BY <2>4, DropHandleSafe, RawEventSafe, SetResultSafe, StoppedSafe
    <2> QED BY <2>1, <2>2, <2>3, <2>4 DEF PromisesNext
  <1> QED BY <1>1, <1>2, PTL DEF PromisesSpec

LEMMA PromisesHold == PromisesInv => PromisesKept
PROOF
  <1> SUFFICES ASSUME PromisesInv, NEW p \in Added, WaitedFor(p) \cap late = {}
               PROVE  /\ answers[p] # <<>> =>
                           answers[p] = <<IF WaitedFor(p) = {} THEN "error" ELSE Verdict(p)>>
                             /\ (WaitedFor(p) # {} => AllAnswered(p))
                      /\ AllAnswered(p) /\ answers[p] = <<>> =>
                           actor = "down" \/ raw_events > 0 \/ \E f \in WaitedFor(p) : future[f] = "Coming"
    BY DEF PromisesKept
  <1>1. /\ PromisesType /\ FuturesRight /\ PlacesOfPromises /\ WaitsRight /\ CountsRight
        /\ Pending \subseteq Asked /\ Len(futures_) \in Nat /\ Cardinality(Pending) = Len(futures_)
        /\ (futures_ = <<>> <=> Pending = {})
    BY PromiseSets
  <1>2. answers[p] # <<>> =>
          answers[p] = <<IF WaitedFor(p) = {} THEN "error" ELSE Verdict(p)>>
            /\ (WaitedFor(p) # {} => AllAnswered(p))
    BY <1>1 DEF WaitsRight, ToldRight
  <1>3. ASSUME AllAnswered(p), answers[p] = <<>>, actor # "down",
               \A f \in WaitedFor(p) : future[f] # "Coming"
        PROVE  raw_events > 0
    <2>1. WaitedFor(p) # {} /\ \A f \in WaitedFor(p) : outcome[f] # "none"
      BY <1>3 DEF AllAnswered
    <2>2. p \notin ToldNext
      <3>1. copy = NoCopy
        BY <1>1, <1>3 DEF PlacesOfPromises
      <3> QED BY <3>1, EmptyDistinct DEF ToldNext, NoCopy
    <2>3. WaitedFor(p) = Pending
      BY <1>1, <1>3, <2>1, <2>2 DEF PlacesOfPromises, WaitsRight
    <2>4. \A f \in Pending : f \notin deaf /\ future[f] = "Ready"
      <3>1. SUFFICES ASSUME NEW f \in Pending PROVE f \notin deaf /\ future[f] = "Ready"
        OBVIOUS
      <3>2. f \in Asked /\ outcome[f] # "none" /\ future[f] # "Coming" /\ f \notin late
        BY <1>1, <1>3, <2>1, <2>3
      <3>3. f \notin deaf
        BY <1>1, <3>2 DEF CountsRight
      <3>4. future[f] \in {"None", "Waiting", "Coming", "Ready", "Gone"}
        BY <1>1, <3>2 DEF PromisesType
      <3> QED BY <1>1, <3>2, <3>3, <3>4 DEF FuturesRight
    <2>5. Heard = Pending
      BY <2>4 DEF Heard
    <2>6. received_results_ < Len(futures_)
      BY <1>1, <2>1, <2>3 DEF CountsRight
    <2>7. received_results_ \in Nat /\ raw_events \in Nat
      BY <1>1 DEF PromisesType
    <2>8. received_results_ + raw_events = Len(futures_)
      BY <1>1, <2>5 DEF CountsRight
    <2> QED BY <1>1, <2>6, <2>7, <2>8
  <1> QED BY <1>2, <1>3

(* MultiPromiseActorSafe tells an added promise one result, that of all the      *)
(* promises it waited for and not before their answers; and when these are       *)
(* there, an event is on its way to the actor or its tear_down runs, in         *)
(* whatever order the answers and their events come.                            *)
THEOREM PromisesAreKept == PromisesSpec => []PromisesKept
BY PromisesInvariant, PromisesHold, PTL
==============================================================================

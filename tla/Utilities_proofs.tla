--------------------------- MODULE Utilities_proofs --------------------------
(***************************************************************************)
(* Proofs about the utilities that stand each by itself: the value that many  *)
(* threads read while one writes, the flood controls, the queue of events     *)
(* that other threads send to a scheduler, the pool of slots, the events that *)
(* wait for their turn, and the pool of shared objects.                       *)
(***************************************************************************)
EXTENDS AtomicRead, FloodControl, MpscPollableQueue, ObjectPool, OrderedEvents,
        SharedObjectPool, FiniteSetTheorems, SequenceTheorems, TLAPS

-----------------------------------------------------------------------------
(* AtomicRead, for any number of readers, words and writes                   *)
-----------------------------------------------------------------------------

(* What a call of read knows: nothing yet, or the words it has copied. *)
Begun  == [op : {"before"}, since : Nat]
CopyOf(D) == [op : {"copy"}, since : Nat, version_before : Nat, left : SUBSET Word,
              dest : [D -> Nat]]
DoneWith(D) == [op : {"done"}, since : Nat, dest : [D -> Nat]]

IsCall(c) ==
  \/ c = NotCopying
  \/ c \in Begun
  \/ \E D \in SUBSET Word : c \in CopyOf(D) \union DoneWith(D)

AtomicReadType ==
  /\ version \in Nat
  /\ value \in [Word -> Nat]
  /\ write \in [busy : BOOLEAN, left : SUBSET Word]
  /\ copy = [t \in Copier |-> copy[t]]
  /\ \A t \in Copier : IsCall(copy[t])

(* The version is odd during a write, and the words already written are one    *)
(* ahead of the others.                                                      *)
Writing ==
  /\ write.busy <=> version % 2 = 1
  /\ \A w \in Word : value[w] = IF write.busy /\ w \notin write.left THEN WritesDone + 1
                                ELSE WritesDone

(* What a call has copied is whole unless the version has gone on. *)
Copying(t) ==
  /\ copy[t].op # "none" => copy[t].since <= WritesDone
  /\ copy[t].op = "copy" =>
       /\ copy[t].version_before % 2 = 0
       /\ copy[t].version_before <= version
       /\ copy[t].since <= copy[t].version_before \div 2
       /\ DOMAIN copy[t].dest = Word \ copy[t].left
       /\ copy[t].version_before = version =>
            \A w \in DOMAIN copy[t].dest : copy[t].dest[w] = WritesDone
  /\ copy[t].op = "done" =>
       \E n \in copy[t].since..WritesDone : \A w \in Word : copy[t].dest[w] = n

ReadInv == AtomicReadType /\ Writing /\ \A t \in Copier : Copying(t)

-----------------------------------------------------------------------------
(* The numbers of finished writes never go down. *)
LEMMA Halves ==
  ASSUME NEW v \in Nat
  PROVE  /\ v \div 2 \in Nat
         /\ v % 2 \in {0, 1}
         /\ v % 2 = 0 => (v + 1) % 2 = 1 /\ (v + 1) \div 2 = v \div 2
         /\ v % 2 = 1 => (v + 1) % 2 = 0 /\ (v + 1) \div 2 = v \div 2 + 1
  OBVIOUS

(* The fields of a call by what it is doing. *)
LEMMA Kinds ==
  ASSUME NEW c, IsCall(c)
  PROVE  /\ c.op \in {"none", "before", "copy", "done"}
         /\ c.op # "none" => c.since \in Nat
         /\ c.op = "copy" => \E D \in SUBSET Word : c \in CopyOf(D)
         /\ c.op = "done" => \E D \in SUBSET Word : c \in DoneWith(D)
  <1>1. CASE c = NotCopying
    BY <1>1 DEF NotCopying
  <1>2. CASE c \in Begun
    BY <1>2 DEF Begun
  <1>3. ASSUME NEW D \in SUBSET Word, c \in CopyOf(D) PROVE c.op = "copy" /\ c.since \in Nat
    BY <1>3 DEF CopyOf
  <1>4. ASSUME NEW D \in SUBSET Word, c \in DoneWith(D) PROVE c.op = "done" /\ c.since \in Nat
    BY <1>4 DEF DoneWith
  <1> QED
    BY <1>1, <1>2, <1>3, <1>4 DEF IsCall

LEMMA InitReadInv == AtomicReadInit => ReadInv
  <1> SUFFICES ASSUME AtomicReadInit PROVE ReadInv
    OBVIOUS
  <1>1. AtomicReadType
    BY DEF AtomicReadInit, AtomicReadType, IsCall
  <1>2. Writing
    BY DEF AtomicReadInit, Writing, WritesDone
  <1>3. \A t \in Copier : Copying(t)
    BY DEF AtomicReadInit, Copying, NotCopying
  <1> QED
    BY <1>1, <1>2, <1>3 DEF ReadInv

(* A step of the writer leaves what the readers know. *)
LEMMA WriterStep ==
  ASSUME ReadInv, UNCHANGED copy, version' \in Nat, version' >= version,
         WritesDone' >= WritesDone, WritesDone' \in Nat
  PROVE  \A t \in Copier : Copying(t)'
  <1> SUFFICES ASSUME NEW t \in Copier PROVE Copying(t)'
    OBVIOUS
  <1>1. version \in Nat /\ WritesDone \in Nat /\ Copying(t) /\ IsCall(copy[t])
    BY Halves DEF ReadInv, AtomicReadType, WritesDone
  <1>2. CASE copy[t].op = "none"
    BY <1>2 DEF Copying
  <1>3. CASE copy[t].op = "before"
    BY <1>1, <1>3, Kinds DEF Copying
  <1>4. CASE copy[t].op = "copy"
    <2>1. copy[t].version_before \in Nat /\ copy[t].since \in Nat
      BY <1>1, <1>4, Kinds DEF CopyOf
    <2>2. version' = copy[t].version_before => version' = version
      BY <1>1, <1>4, <2>1 DEF Copying
    <2>3. version' = version => WritesDone' = WritesDone
      BY DEF WritesDone
    <2> QED
      BY <1>1, <1>4, <2>1, <2>2, <2>3 DEF Copying
  <1>5. CASE copy[t].op = "done"
    <2>1. PICK n \in copy[t].since..WritesDone : \A w \in Word : copy[t].dest[w] = n
      BY <1>1, <1>5 DEF Copying
    <2>2. copy[t].since \in Nat
      BY <1>1, <1>5, Kinds
    <2>3. n \in copy[t].since..WritesDone'
      BY <1>1, <2>1, <2>2
    <2> QED
      BY <1>1, <1>5, <2>1, <2>2, <2>3 DEF Copying
  <1> QED
    BY <1>1, <1>2, <1>3, <1>4, <1>5, Kinds

(* A step of reader t leaves the writer and the other readers. *)
LEMMA CallMoved ==
  ASSUME ReadInv, NEW t \in Copier, NEW c, IsCall(c), copy' = [copy EXCEPT ![t] = c],
         UNCHANGED <<version, value, write>>, Copying(t)'
  PROVE  ReadInv'
  <1>1. AtomicReadType'
    BY DEF ReadInv, AtomicReadType
  <1>2. Writing'
    BY DEF ReadInv, Writing, WritesDone
  <1>3. ASSUME NEW u \in Copier PROVE Copying(u)'
    <2>1. CASE u = t
      BY <2>1
    <2>2. CASE u # t
      <3>1. copy'[u] = copy[u]
        BY <2>2 DEF ReadInv, AtomicReadType
      <3> QED
        BY <3>1 DEF ReadInv, Copying, WritesDone
    <2> QED
      BY <2>1, <2>2
  <1> QED
    BY <1>1, <1>2, <1>3 DEF ReadInv

LEMMA NextReadInv == ReadInv /\ [AtomicReadNext]_atomicReadVars => ReadInv'
  <1> SUFFICES ASSUME ReadInv, [AtomicReadNext]_atomicReadVars PROVE ReadInv'
    OBVIOUS
  <1> USE DEF ReadInv
  <1>0. /\ AtomicReadType /\ Writing /\ version \in Nat /\ WritesDone \in Nat
        /\ \A t \in Copier : Copying(t) /\ IsCall(copy[t])
    BY Halves DEF AtomicReadType, WritesDone
  <1>1. CASE DoLock
    <2>1. version' = version + 1 /\ version % 2 = 0 /\ WritesDone' = WritesDone
      BY <1>0, <1>1, Halves DEF DoLock, Writing, WritesDone
    <2>2. AtomicReadType'
      BY <1>0, <1>1 DEF DoLock, AtomicReadType
    <2>3. Writing'
      BY <1>0, <1>1, <2>1, Halves DEF DoLock, Writing, AtomicReadType
    <2>4. \A t \in Copier : Copying(t)'
      BY <1>0, <1>1, <2>1, WriterStep DEF DoLock
    <2> QED
      BY <2>2, <2>3, <2>4
  <1>2. CASE DoUnlock
    <2>1. version' = version + 1 /\ version % 2 = 1 /\ WritesDone' = WritesDone + 1
      BY <1>0, <1>2, Halves DEF DoUnlock, Writing, WritesDone
    <2>2. AtomicReadType'
      <3>1. write' = [write EXCEPT !.busy = FALSE] /\ write.left \in SUBSET Word
        BY <1>0, <1>2 DEF DoUnlock, AtomicReadType
      <3>2. write' \in [busy : BOOLEAN, left : SUBSET Word]
        BY <1>0, <3>1 DEF AtomicReadType
      <3> QED
        BY <1>0, <1>2, <3>2 DEF DoUnlock, AtomicReadType
    <2>3. Writing'
      BY <1>0, <1>2, <2>1, Halves DEF DoUnlock, Writing, AtomicReadType
    <2>4. \A t \in Copier : Copying(t)'
      BY <1>0, <1>2, <2>1, WriterStep DEF DoUnlock
    <2> QED
      BY <2>2, <2>3, <2>4
  <1>3. ASSUME NEW w \in Word, WriteWord(w) PROVE ReadInv'
    <2>1. version' = version /\ WritesDone' = WritesDone
      BY <1>3 DEF WriteWord, WritesDone
    <2>2. AtomicReadType'
      <3>1. write' = [write EXCEPT !.left = @ \ {w}] /\ write.left \in SUBSET Word
        BY <1>0, <1>3 DEF WriteWord, AtomicReadType
      <3>2. write' \in [busy : BOOLEAN, left : SUBSET Word]
        BY <1>0, <3>1 DEF AtomicReadType
      <3>3. value' \in [Word -> Nat]
        BY <1>0, <1>3 DEF WriteWord, AtomicReadType
      <3> QED
        BY <1>0, <1>3, <3>2, <3>3 DEF WriteWord, AtomicReadType
    <2>3. Writing'
      BY <1>0, <1>3, <2>1 DEF WriteWord, Writing, AtomicReadType
    <2>4. \A t \in Copier : Copying(t)'
      BY <1>0, <1>3, <2>1, WriterStep DEF WriteWord
    <2> QED
      BY <2>2, <2>3, <2>4
  <1>4. ASSUME NEW t \in Copier, Read(t) PROVE ReadInv'
    <2> DEFINE c == [op |-> "before", since |-> WritesDone]
    <2>1. IsCall(c)
      BY <1>0 DEF IsCall, Begun
    <2>2. copy' = [copy EXCEPT ![t] = c] /\ copy'[t] = c /\ WritesDone' = WritesDone
      BY <1>0, <1>4 DEF Read, AtomicReadType, WritesDone
    <2>3. Copying(t)'
      BY <1>0, <2>2 DEF Copying
    <2> QED
      BY <1>4, <2>1, <2>2, <2>3, CallMoved DEF Read
  <1>5. ASSUME NEW t \in Copier, VersionBefore(t) PROVE ReadInv'
    <2> DEFINE e == [w \in {} |-> 0]
               c == IF version % 2 = 0
                      THEN [op |-> "copy", since |-> copy[t].since,
                            version_before |-> version, left |-> Word, dest |-> e]
                      ELSE copy[t]
    <2>1. copy[t].op = "before" /\ copy[t].since \in Nat /\ copy[t].since <= WritesDone
      BY <1>0, <1>5, Kinds DEF VersionBefore, Copying
    <2>2. e \in [{} -> Nat] /\ DOMAIN e = {}
      OBVIOUS
    <2>3. IsCall(c)
      BY <1>0, <2>1, <2>2 DEF IsCall, CopyOf
    <2>4. copy' = [copy EXCEPT ![t] = c] /\ copy'[t] = c /\ WritesDone' = WritesDone
      BY <1>0, <1>5 DEF VersionBefore, AtomicReadType, WritesDone
    <2>5. version' = version
      BY <1>5 DEF VersionBefore
    <2>6. Copying(t)'
      BY <1>0, <2>1, <2>2, <2>4, <2>5 DEF Copying, WritesDone
    <2> HIDE DEF c
    <2> QED
      BY <1>5, <2>3, <2>4, <2>6, CallMoved DEF VersionBefore
  <1>6. ASSUME NEW t \in Copier, NEW w \in Word, CopyWord(t, w) PROVE ReadInv'
    <2> DEFINE old == copy[t]
               dest == [x \in DOMAIN old.dest \union {w} |-> IF x = w THEN value[w]
                                                             ELSE old.dest[x]]
               c == [op |-> "copy", since |-> old.since,
                     version_before |-> old.version_before, left |-> old.left \ {w},
                     dest |-> dest]
    <2>1. old.op = "copy" /\ w \in old.left
      BY <1>6 DEF CopyWord
    <2>2. PICK D \in SUBSET Word :
            old \in CopyOf(D)
      BY <1>0, <2>1, Kinds
    <2>3. DOMAIN old.dest = D /\ D = Word \ old.left
      BY <1>0, <2>1, <2>2 DEF Copying, CopyOf
    <2>4. dest \in [D \union {w} -> Nat] /\ D \union {w} \in SUBSET Word
      BY <1>0, <2>2, <2>3 DEF AtomicReadType, CopyOf
    <2>6. IsCall(c)
      <3>1. c \in CopyOf(D \union {w})
        BY <2>2, <2>4 DEF CopyOf
      <3> QED
        BY <2>4, <3>1 DEF IsCall
    <2>7. copy' = [copy EXCEPT ![t] = c] /\ copy'[t] = c
      BY <1>0, <1>6 DEF CopyWord, AtomicReadType
    <2>8. version' = version /\ WritesDone' = WritesDone
      BY <1>6 DEF CopyWord, WritesDone
    <2>9. old.version_before = version => value[w] = WritesDone
      BY <1>0, <2>1, <2>2, Halves DEF Copying, Writing
    <2>10. Copying(t)'
      <3>1. DOMAIN dest = Word \ (old.left \ {w})
        BY <2>1, <2>3
      <3>2. ASSUME old.version_before = version, NEW x \in DOMAIN dest
            PROVE  dest[x] = WritesDone
        <4>1. x # w => old.dest[x] = WritesDone
          BY <1>0, <2>1, <2>3, <3>2 DEF Copying
        <4> QED
          BY <2>9, <3>2, <4>1
      <3> HIDE DEF dest
      <3> QED
        BY <1>0, <2>1, <2>7, <2>8, <3>1, <3>2 DEF Copying
    <2> HIDE DEF c
    <2> QED
      BY <1>6, <2>6, <2>7, <2>10, CallMoved DEF CopyWord
  <1>7. ASSUME NEW t \in Copier, VersionAfter(t) PROVE ReadInv'
    <2> DEFINE old == copy[t]
               c == IF SameVersion(t)
                      THEN [op |-> "done", since |-> old.since, dest |-> old.dest]
                      ELSE [op |-> "before", since |-> old.since]
    <2>1. old.op = "copy" /\ old.left = {}
      BY <1>7 DEF VersionAfter
    <2>2. PICK D \in SUBSET Word :
            old \in CopyOf(D)
      BY <1>0, <2>1, Kinds
    <2>3. IsCall(c)
      BY <2>2 DEF IsCall, Begun, CopyOf, DoneWith
    <2>4. copy' = [copy EXCEPT ![t] = c] /\ copy'[t] = c
      BY <1>0, <1>7 DEF VersionAfter, AtomicReadType
    <2>5. version' = version /\ WritesDone' = WritesDone
      BY <1>7 DEF VersionAfter, WritesDone
    <2>6. old.since <= WritesDone /\ DOMAIN old.dest = Word
      BY <1>0, <2>1 DEF Copying
    <2>7. SameVersion(t) => \A w \in Word : old.dest[w] = WritesDone
      BY <1>0, <2>1, <2>6 DEF Copying, SameVersion
    <2>8. SameVersion(t) => WritesDone \in old.since..WritesDone
      BY <1>0, <2>2, <2>6
    <2>9. Copying(t)'
      <3>1. CASE SameVersion(t)
        BY <1>0, <2>4, <2>5, <2>6, <2>7, <2>8, <3>1 DEF Copying
      <3>2. CASE ~SameVersion(t)
        BY <1>0, <2>4, <2>5, <2>6, <3>2 DEF Copying
      <3> QED
        BY <3>1, <3>2
    <2> HIDE DEF c
    <2> QED
      BY <1>7, <2>3, <2>4, <2>9, CallMoved DEF VersionAfter
  <1>8. ASSUME NEW t \in Copier, CopyUsed(t) PROVE ReadInv'
    <2>1. IsCall(NotCopying)
      BY DEF IsCall
    <2>2. copy' = [copy EXCEPT ![t] = NotCopying] /\ copy'[t] = NotCopying
      BY <1>0, <1>8 DEF CopyUsed, AtomicReadType
    <2>3. Copying(t)'
      BY <2>2 DEF Copying, NotCopying
    <2> QED
      BY <1>8, <2>1, <2>2, <2>3, CallMoved DEF CopyUsed
  <1>9. CASE UNCHANGED atomicReadVars
    BY <1>0, <1>9 DEF atomicReadVars, AtomicReadType, Writing, Copying, WritesDone
  <1> QED
    BY <1>1, <1>2, <1>3, <1>4, <1>5, <1>6, <1>7, <1>8, <1>9 DEF AtomicReadNext

(* A read gives a value that one write left whole, and none older than the     *)
(* last write that was finished when it was called: AtomicRead::read.         *)
THEOREM CopiesAreWhole == AtomicReadSpec => []CopyIsWhole
  <1>1. ReadInv => CopyIsWhole
    BY DEF ReadInv, Copying, CopyIsWhole
  <1> QED
    BY InitReadInv, NextReadInv, <1>1, PTL DEF AtomicReadSpec

-----------------------------------------------------------------------------
(* FloodControlGlobal, for any number of threads and any limit               *)
-----------------------------------------------------------------------------

InState(state) == {t \in Starter : starter[t] = state}
Busy      == {t \in Starter : starter[t] # "none"}

(* active_count_ is the number of threads that have counted themselves. *)
GuardInv ==
  /\ starter \in [Starter -> {"none", "refused", "active"}]
  /\ active_count_ = Cardinality(Busy)
  /\ Cardinality(InState("active")) <= MaxActive

LEMMA StartersFinite ==
  /\ IsFiniteSet(InState("active")) /\ IsFiniteSet(Busy)
  /\ Cardinality(InState("active")) \in Nat /\ Cardinality(Busy) \in Nat
  /\ Cardinality(InState("active")) <= Cardinality(Busy)
  <1>1. InState("active") \subseteq Busy /\ Busy \subseteq Starter
    BY DEF InState, Busy
  <1>2. IsFiniteSet(Busy)
    BY <1>1, FS_Subset, FloodAssumption
  <1> QED
    BY <1>1, <1>2, FS_Subset, FS_CardinalityType

LEMMA InitGuardInv == FloodInit => GuardInv
  <1> SUFFICES ASSUME FloodInit PROVE GuardInv
    OBVIOUS
  <1>1. Busy = {} /\ InState("active") = {}
    BY DEF FloodInit, Busy, InState
  <1>2. MaxActive \in Nat
    BY FloodAssumption
  <1>3. starter \in [Starter -> {"none", "refused", "active"}] /\ active_count_ = 0
    BY DEF FloodInit
  <1> QED
    BY <1>1, <1>2, <1>3, FS_EmptySet DEF GuardInv

(* A thread that was counted already, or is now, changes Busy by itself. *)
LEMMA StateCounted ==
  ASSUME GuardInv, NEW t \in Starter, NEW to \in {"none", "refused", "active"},
         starter' = [starter EXCEPT ![t] = to]
  PROVE  /\ starter' \in [Starter -> {"none", "refused", "active"}]
         /\ starter[t] = "none" /\ to # "none" => Cardinality(Busy') = Cardinality(Busy) + 1
         /\ starter[t] # "none" /\ to = "none" => Cardinality(Busy') = Cardinality(Busy) - 1
         /\ to = "active" /\ starter[t] = "none" =>
              Cardinality(InState("active")') = Cardinality(InState("active")) + 1
         /\ to # "active" => Cardinality(InState("active")') <= Cardinality(InState("active"))
  <1>1. starter' \in [Starter -> {"none", "refused", "active"}]
    BY DEF GuardInv
  <1>2. ASSUME starter[t] = "none", to # "none" PROVE Cardinality(Busy') = Cardinality(Busy) + 1
    <2>1. Busy' = Busy \union {t} /\ t \notin Busy
      BY <1>2 DEF GuardInv, Busy
    <2> QED
      BY <2>1, StartersFinite, FS_AddElement
  <1>3. ASSUME starter[t] # "none", to = "none" PROVE Cardinality(Busy') = Cardinality(Busy) - 1
    <2>1. Busy' = Busy \ {t} /\ t \in Busy
      BY <1>3 DEF GuardInv, Busy
    <2> QED
      BY <2>1, StartersFinite, FS_RemoveElement
  <1>4. ASSUME to = "active", starter[t] = "none"
        PROVE  Cardinality(InState("active")') = Cardinality(InState("active")) + 1
    <2>1. InState("active")' = InState("active") \union {t} /\ t \notin InState("active")
      BY <1>4 DEF GuardInv, InState
    <2> QED
      BY <2>1, StartersFinite, FS_AddElement
  <1>5. ASSUME to # "active" PROVE Cardinality(InState("active")') <= Cardinality(InState("active"))
    <2>1. InState("active")' \subseteq InState("active")
      BY <1>5 DEF GuardInv, InState
    <2> QED
      BY <2>1, StartersFinite, FS_Subset
  <1> QED
    BY <1>1, <1>2, <1>3, <1>4, <1>5

LEMMA NextGuardInv == GuardInv /\ [FloodNext]_floodVars => GuardInv'
  <1> SUFFICES ASSUME GuardInv, [FloodNext]_floodVars PROVE GuardInv'
    OBVIOUS
  <1>1. ASSUME NEW t \in Starter, TryStart(t) PROVE GuardInv'
    <2>1. CASE active_count_ >= MaxActive
      <3>1. starter[t] = "none" /\ starter' = [starter EXCEPT ![t] = "refused"]
            /\ active_count_' = active_count_ + 1
        BY <1>1, <2>1 DEF TryStart, Starts
      <3>2. Cardinality(InState("active")') \in Nat
        <4>1. InState("active")' \subseteq Starter
          BY DEF InState
        <4> QED
          BY <4>1, FS_Subset, FS_CardinalityType, FloodAssumption
      <3>3. /\ starter' \in [Starter -> {"none", "refused", "active"}]
            /\ Cardinality(Busy') = Cardinality(Busy) + 1
            /\ Cardinality(InState("active")') <= Cardinality(InState("active"))
        BY <3>1, StateCounted
      <3>4. Cardinality(InState("active")') <= MaxActive
        BY <3>2, <3>3, StartersFinite, FloodAssumption DEF GuardInv
      <3> QED
        BY <3>1, <3>3, <3>4 DEF GuardInv
    <2>2. CASE ~(active_count_ >= MaxActive)
      <3>1. starter[t] = "none" /\ starter' = [starter EXCEPT ![t] = "active"]
            /\ active_count_' = active_count_ + 1
        BY <1>1, <2>2 DEF TryStart, Starts
      <3>2. /\ starter' \in [Starter -> {"none", "refused", "active"}]
            /\ Cardinality(Busy') = Cardinality(Busy) + 1
            /\ Cardinality(InState("active")') = Cardinality(InState("active")) + 1
        BY <3>1, StateCounted
      <3>3. Cardinality(InState("active")') <= MaxActive
        BY <2>2, <3>2, StartersFinite, FloodAssumption DEF GuardInv
      <3> QED
        BY <3>1, <3>2, <3>3 DEF GuardInv
    <2> QED
      BY <2>1, <2>2
  <1>2. ASSUME NEW t \in Starter, Refuse(t) \/ FinishGuard(t) PROVE GuardInv'
    <2>1. starter[t] # "none" /\ starter' = [starter EXCEPT ![t] = "none"]
          /\ active_count_' = active_count_ - 1
      BY <1>2 DEF Refuse, FinishGuard, Starts
    <2>2. Cardinality(InState("active")') \in Nat
      <3>1. InState("active")' \subseteq Starter
        BY DEF InState
      <3> QED
        BY <3>1, FS_Subset, FS_CardinalityType, FloodAssumption
    <2>3. /\ starter' \in [Starter -> {"none", "refused", "active"}]
          /\ Cardinality(Busy') = Cardinality(Busy) - 1
          /\ Cardinality(InState("active")') <= Cardinality(InState("active"))
      BY <2>1, StateCounted
    <2>4. Cardinality(InState("active")') <= MaxActive
      BY <2>2, <2>3, StartersFinite, FloodAssumption DEF GuardInv
    <2> QED
      BY <2>1, <2>3, <2>4 DEF GuardInv
  <1>3. CASE StrictNext \/ UNCHANGED floodVars
    <2>1. UNCHANGED <<active_count_, starter>>
      BY <1>3 DEF StrictNext, FloodAddEvent, ClearEvents, FloodTick, floodVars, globalVars
    <2> QED
      BY <2>1 DEF GuardInv, InState, Busy
  <1> QED
    BY <1>1, <1>2, <1>3 DEF FloodNext, GlobalNext

(* FloodControlGlobal never has more guards out than its limit, although       *)
(* try_start counts a thread before it refuses it.                           *)
THEOREM GuardsAreCounted == FloodSpec => []GuardsCounted
  <1>1. GuardInv => GuardsCounted
    BY DEF GuardInv, GuardsCounted, InState, Busy
  <1> QED
    BY InitGuardInv, NextGuardInv, <1>1, PTL DEF FloodSpec
-----------------------------------------------------------------------------
(* MpscPollableQueue, for any set of writers and any number of events: its    *)
(* type, that no wakeup is lost, that one writer at a time signals, and that  *)
(* every step is a step of FifoInbox or a stutter.                            *)
-----------------------------------------------------------------------------

(* There is one wakeup in the system and it is in one place.  The reader    *)
(* has it (it runs, or has a Yield to run on) ...                            *)
WithReader ==
  /\ signalling = {} /\ ~wait_event_fd_ /\ ~epoll_ready
  /\ reader = "scheduler" => yields = 1
  /\ reader # "scheduler" => yields = 0
  /\ reader \in {"read", "round1"} => ~to_write_
  /\ reader = "round1" => event_fd_ = 0

(* ... or it sleeps, and the wakeup is the flag wait_event_fd_, ...          *)
Asleep == reader = "scheduler" /\ yields = 0 /\ ~to_write_

WithFlag == /\ Asleep /\ wait_event_fd_ /\ signalling = {}
            /\ event_fd_ = 0 /\ ~epoll_ready
            /\ writer_vector_ = <<>>

(* ... or the one writer that took the flag, ...                             *)
WithWriter == /\ Asleep /\ ~wait_event_fd_
              /\ \E w \in Writer : signalling = {w}
              /\ event_fd_ = 0 /\ ~epoll_ready

(* ... or the eventfd that it wrote to.                                       *)
WithEventFd == /\ Asleep /\ ~wait_event_fd_ /\ signalling = {}
               /\ event_fd_ = 1 /\ epoll_ready

Drained == (reader = "drain") <=> (reader_vector_ # <<>>)

IInv == /\ TypeOK
        /\ Drained
        /\ WithReader \/ WithFlag \/ WithWriter \/ WithEventFd

USE MaxPutsAssumption DEF MaxPutsAssumption

(* Appending to the second of two concatenated sequences. *)
LEMMA AppendOfConcat ==
  ASSUME NEW S, NEW s \in Seq(S), NEW t \in Seq(S), NEW e \in S
  PROVE  s \o Append(t, e) = Append(s \o t, e)
<1>1. /\ Append(t, e) = t \o <<e>>
      /\ Append(s \o t, e) = (s \o t) \o <<e>>
  BY AppendIsConcat, ConcatProperties
<1>2. <<e>> \in Seq(S)
  OBVIOUS
<1> QED
  BY <1>1, <1>2, ConcatAssociative

(* The head and the tail of a concatenation whose first part is not empty. *)
LEMMA HeadTailOfConcat ==
  ASSUME NEW S, NEW s \in Seq(S), NEW t \in Seq(S), s # <<>>
  PROVE  /\ s \o t # <<>>
         /\ Head(s \o t) = Head(s)
         /\ Tail(s \o t) = Tail(s) \o t
<1>1. Len(s) \in Nat \ {0} /\ Len(t) \in Nat
  BY EmptySeq, LenProperties
<1>2. /\ s \o t \in Seq(S)
      /\ Len(s \o t) = Len(s) + Len(t)
      /\ \A i \in 1 .. Len(s) + Len(t) : (s \o t)[i] = IF i <= Len(s) THEN s[i] ELSE t[i - Len(s)]
  BY ConcatProperties
<1>3. s \o t # <<>>
  BY <1>1, ConcatEqualIffEmpty
<1>4. Head(s \o t) = Head(s)
  BY <1>1, <1>2, <1>3
<1>5. /\ Tail(s) \in Seq(S) /\ Len(Tail(s)) = Len(s) - 1
      /\ \A i \in 1 .. Len(Tail(s)) : Tail(s)[i] = s[i+1]
  BY HeadTailProperties
<1>6. /\ Tail(s \o t) \in Seq(S) /\ Len(Tail(s \o t)) = Len(s) + Len(t) - 1
      /\ \A i \in 1 .. Len(s) + Len(t) - 1 : Tail(s \o t)[i] = (s \o t)[i+1]
  BY <1>2, <1>3, HeadTailProperties
<1>7. /\ Tail(s) \o t \in Seq(S)
      /\ Len(Tail(s) \o t) = Len(s) - 1 + Len(t)
      /\ \A i \in 1 .. Len(s) - 1 + Len(t) :
           (Tail(s) \o t)[i] = IF i <= Len(s) - 1 THEN Tail(s)[i] ELSE t[i - (Len(s) - 1)]
  BY <1>5, ConcatProperties
<1>8. ASSUME NEW i \in 1 .. Len(Tail(s \o t)) PROVE Tail(s \o t)[i] = (Tail(s) \o t)[i]
  BY <1>1, <1>2, <1>5, <1>6, <1>7
<1> QED
  BY <1>1, <1>3, <1>4, <1>6, <1>7, <1>8, SeqEqual

(* Every variable of the queue keeps its type (MpscPollableQueue.h:101-106). *)
LEMMA InitIInv == Init => IInv
<1> SUFFICES ASSUME Init PROVE IInv
  OBVIOUS
<1>1. TypeOK
  <2>1. sent \in [Writer -> 0..MaxPuts]
    BY DEF Init
  <2>2. <<>> \in Seq(Item)
    BY EmptySeq
  <2> QED
    BY <2>1, <2>2 DEF Init, TypeOK, ReaderPlace
<1>2. Drained
  BY DEF Init, Drained
<1>3. WithReader
  BY DEF Init, WithReader
<1> QED
  BY <1>1, <1>2, <1>3 DEF IInv

LEMMA ItemOfWriter ==
  ASSUME NEW w \in Writer, TypeOK, sent[w] < MaxPuts
  PROVE  /\ [writer |-> w, n |-> sent[w] + 1] \in Item
         /\ sent[w] + 1 \in 0..MaxPuts
BY DEF TypeOK, Item

LEMMA TypeStep == TypeOK /\ Drained /\ [Next]_vars => TypeOK'
<1> SUFFICES ASSUME TypeOK, Drained, [Next]_vars PROVE TypeOK'
  OBVIOUS
<1> USE DEF TypeOK, ReaderPlace, queueVars, pollVars
<1>1. ASSUME NEW w \in Writer, WriterPut(w) PROVE TypeOK'
  BY <1>1, ItemOfWriter, AppendProperties DEF WriterPut
<1>2. ASSUME NEW w \in Writer, EventFdRelease(w) PROVE TypeOK'
  BY <1>2 DEF EventFdRelease
<1>3. CASE ServiceLoop
  BY <1>3 DEF ServiceLoop
<1>4. CASE SwapIn
  BY <1>4, EmptySeq DEF SwapIn
<1>5. CASE LockForAcquire
  BY <1>5 DEF LockForAcquire
<1>6. CASE AcquireSync
  BY <1>6 DEF AcquireSync
<1>7. CASE AcquireRead
  BY <1>7 DEF AcquireRead
<1>8. CASE AskForSignal
  BY <1>8 DEF AskForSignal
<1>9. CASE Deliver
  <2>1. reader_vector_ # <<>>
    BY <1>9 DEF Deliver, Drained
  <2>2. Head(reader_vector_) \in Item /\ Tail(reader_vector_) \in Seq(Item)
    BY <2>1, HeadTailProperties
  <2>3. got' \in Seq(Item)
    BY <1>9, <2>2, AppendProperties DEF Deliver
  <2> QED
    BY <1>9, <2>2, <2>3 DEF Deliver
<1>10. CASE PollRun
  <2>1. yields' \in Nat
    BY <1>10 DEF PollRun
  <2>2. to_write_' \in BOOLEAN
    BY <1>10 DEF PollRun
  <2> QED
    BY <1>10, <2>1, <2>2 DEF PollRun
<1>11. CASE UNCHANGED vars
  BY <1>11 DEF vars
<1> QED
  BY <1>1, <1>2, <1>3, <1>4, <1>5, <1>6, <1>7, <1>8, <1>9, <1>10, <1>11
     DEF Next, ReaderStep

(* The wakeup moves from the reader to the flag, to a writer, to the        *)
(* eventfd and back; no step loses it or makes a second one.                  *)
LEMMA TokenStep == IInv /\ [Next]_vars => IInv'
<1> SUFFICES ASSUME IInv, [Next]_vars PROVE IInv'
  OBVIOUS
<1> USE DEF IInv
<1>0. TypeOK'
  BY TypeStep
<1> DEFINE Token == WithReader \/ WithFlag \/ WithWriter \/ WithEventFd
<1> SUFFICES Drained' /\ Token'
  BY <1>0
<1> USE DEF TypeOK, Drained, queueVars, pollVars
<1>1. ASSUME NEW w \in Writer, WriterPut(w) PROVE Drained' /\ Token'
  <2>1. CASE wait_event_fd_
    <3>1. WithFlag
      BY <2>1 DEF WithReader, WithWriter, WithEventFd
    <3>2. WithWriter'
      BY <1>1, <2>1, <3>1 DEF WriterPut, WithFlag, WithWriter, Asleep
    <3> QED
      BY <1>1, <3>2 DEF WriterPut
  <2>2. CASE ~wait_event_fd_
    <3>1. UNCHANGED <<wait_event_fd_, signalling, pollVars, yields, reader, reader_vector_>>
      BY <1>1, <2>2 DEF WriterPut
    <3>2. ~WithFlag
      BY <2>2 DEF WithFlag
    <3> QED
      BY <3>1, <3>2 DEF WithReader, WithWriter, WithEventFd, Asleep
  <2> QED
    BY <2>1, <2>2
<1>2. ASSUME NEW w \in Writer, EventFdRelease(w) PROVE Drained' /\ Token'
  <2>1. WithWriter /\ signalling = {w}
    BY <1>2 DEF EventFdRelease, WithReader, WithFlag, WithWriter, WithEventFd
  <2>2. WithEventFd'
    BY <1>2, <2>1 DEF EventFdRelease, WithWriter, WithEventFd, Asleep
  <2> QED
    BY <1>2, <2>2 DEF EventFdRelease
<1>3. CASE PollRun
  <2>1. WithEventFd
    BY <1>3 DEF PollRun, WithReader, WithFlag, WithWriter
  <2>2. WithReader'
    BY <1>3, <2>1 DEF PollRun, WithEventFd, WithReader, Asleep
  <2> QED
    BY <1>3, <2>2 DEF PollRun
<1>4. CASE ReaderStep
  <2>1. WithReader
    BY <1>4 DEF ReaderStep, ServiceLoop, SwapIn, LockForAcquire, AcquireSync, AcquireRead,
                AskForSignal, Deliver, WithFlag, WithWriter, WithEventFd, Asleep
  <2>2. CASE AskForSignal
    <3>1. WithFlag'
      BY <2>1, <2>2 DEF AskForSignal, WithReader, WithFlag, Asleep
    <3> QED
      BY <2>2, <3>1 DEF AskForSignal
  <2>3. CASE ServiceLoop
    BY <2>1, <2>3 DEF ServiceLoop, WithReader
  <2>4. CASE SwapIn
    BY <2>1, <2>4 DEF SwapIn, WithReader
  <2>5. CASE LockForAcquire
    BY <2>1, <2>5 DEF LockForAcquire, WithReader
  <2>6. CASE AcquireSync
    BY <2>1, <2>6 DEF AcquireSync, WithReader
  <2>7. CASE AcquireRead
    BY <2>1, <2>7 DEF AcquireRead, WithReader
  <2>8. CASE Deliver
    BY <2>1, <2>8 DEF Deliver, WithReader
  <2> QED
    BY <1>4, <2>2, <2>3, <2>4, <2>5, <2>6, <2>7, <2>8 DEF ReaderStep
<1>5. CASE UNCHANGED vars
  BY <1>5 DEF vars, WithReader, WithFlag, WithWriter, WithEventFd, Asleep
<1> QED
  BY <1>1, <1>2, <1>3, <1>4, <1>5 DEF Next

(* The type of the queue, its eventfd and its reader, in every behaviour     *)
(* (MpscPollableQueue.h:101-106).                                             *)
THEOREM TypeCorrect == SafeSpec => []TypeOK
<1>1. IInv => TypeOK
  BY DEF IInv
<1> QED
  BY InitIInv, TokenStep, <1>1, PTL DEF SafeSpec

(* No wakeup is lost between writer_put, release, epoll, acquire and         *)
(* reader_wait_nonblock (MpscPollableQueue.h:26-65), for any set of writers.  *)
THEOREM WakeupsKept == SafeSpec => []NoLostWakeup
<1>1. IInv => NoLostWakeup
  <2> SUFFICES ASSUME IInv, reader = "scheduler", yields = 0, writer_vector_ # <<>>
               PROVE  SignalComing
    BY DEF NoLostWakeup
  <2>1. WithWriter \/ WithEventFd
    BY DEF IInv, WithReader, WithFlag
  <2>2. CASE WithWriter
    BY <2>2 DEF WithWriter, SignalComing
  <2>3. CASE WithEventFd
    BY <2>3 DEF WithEventFd, Asleep, SignalComing
  <2> QED
    BY <2>1, <2>2, <2>3
<1> QED
  BY InitIInv, TokenStep, <1>1, PTL DEF SafeSpec

(* wait_event_fd_ admits one signal at a time (MpscPollableQueue.h:60-64).    *)
THEOREM OneSignal == SafeSpec => []SingleWakeup
<1>1. IInv => SingleWakeup
  BY DEF IInv, SingleWakeup, WithReader, WithFlag, WithWriter, WithEventFd, Asleep
<1> QED
  BY InitIInv, TokenStep, <1>1, PTL DEF SafeSpec

(* One step of the queue is a put, a get or nothing of the FIFO inbox.        *)
LEMMA StepRefines ==
  ASSUME TypeOK, Drained, [Next]_vars
  PROVE  [Inbox!Next]_(Inbox!vars)
<1> USE DEF TypeOK, queueVars, pollVars
<1>1. ASSUME NEW w \in Writer, WriterPut(w) PROVE Inbox!Next
  <2> DEFINE e == [writer |-> w, n |-> sent[w] + 1]
  <2>1. e \in Item
    BY <1>1, ItemOfWriter DEF WriterPut
  <2>2. /\ writer_vector_' = Append(writer_vector_, e)
        /\ reader_vector_' = reader_vector_ /\ got' = got
    BY <1>1 DEF WriterPut
  <2> HIDE DEF e
  <2>3. reader_vector_ \o Append(writer_vector_, e) = Append(reader_vector_ \o writer_vector_, e)
    BY <2>1, AppendOfConcat
  <2>4. Inbox!Put(e)
    BY <2>2, <2>3 DEF Inbox!Put
  <2> QED
    BY <2>1, <2>4 DEF Inbox!Next
<1>2. CASE Deliver
  <2>1. reader_vector_ # <<>>
    BY <1>2 DEF Deliver, Drained
  <2>2. /\ reader_vector_ \o writer_vector_ # <<>>
        /\ Head(reader_vector_ \o writer_vector_) = Head(reader_vector_)
        /\ Tail(reader_vector_ \o writer_vector_) = Tail(reader_vector_) \o writer_vector_
    BY <2>1, HeadTailOfConcat
  <2>3. Inbox!Get
    BY <1>2, <2>2 DEF Deliver, Inbox!Get
  <2> QED
    BY <2>3 DEF Inbox!Next
<1>3. CASE SwapIn
  <2>1. reader_vector_ = <<>>
    BY <1>3 DEF SwapIn, Drained
  <2>2. <<>> \o writer_vector_ = writer_vector_ /\ writer_vector_ \o <<>> = writer_vector_
    BY ConcatEmptySeq
  <2> QED
    BY <1>3, <2>1, <2>2 DEF SwapIn, Inbox!vars
<1>4. ASSUME UNCHANGED <<reader_vector_, writer_vector_, got>> PROVE UNCHANGED Inbox!vars
  BY <1>4 DEF Inbox!vars
<1> QED
  BY <1>1, <1>2, <1>3, <1>4
     DEF Next, ReaderStep, EventFdRelease, ServiceLoop, LockForAcquire, AcquireSync,
         AcquireRead, AskForSignal, PollRun, vars

(* The lock, the two vectors and the wakeups implement the FIFO inbox: no    *)
(* event is lost, duplicated or reordered, whoever puts how many.            *)
THEOREM InboxRefinement == SafeSpec => Inbox!SafeSpec
<1>1. Init => Inbox!Init
  <2>1. <<>> \o <<>> = <<>>
    BY ConcatEmptySeq, EmptySeq
  <2> QED
    BY <2>1 DEF Init, Inbox!Init
<1>2. IInv /\ [Next]_vars => [Inbox!Next]_(Inbox!vars)
  BY StepRefines DEF IInv
<1> QED
  BY <1>1, <1>2, InitIInv, TokenStep, PTL DEF SafeSpec, Inbox!SafeSpec

-----------------------------------------------------------------------------
(* ObjectPool, for any threads, storages and objects                         *)
-----------------------------------------------------------------------------

WeakPtr == [storage : Storage, generation : Nat, object : Nat]

PoolCall ==
  {PoolIdle} \union [op : {"take"}] \union [op : {"init", "clear", "link"}, storage : Storage]
    \union [op : {"swing"}, storage : Storage, next : 0..MaxStorages]
    \union [op : {"push"}, storage : Storage, save_head : 0..MaxStorages]
    \union [op : {"check", "read"}, weak : WeakPtr, got : Nat]

PoolType ==
  /\ storage_count_ \in 0..MaxStorages /\ free_head \in 0..MaxStorages
  /\ next \in [Storage -> 0..MaxStorages]
  /\ generation \in [Storage -> Nat] /\ data \in [Storage -> Nat]
  /\ holder \in [Storage -> PoolThread \union {"list"}]
  /\ weak \subseteq WeakPtr
  /\ pool_call \in [PoolThread -> PoolCall]
  /\ created \in Nat

(* A WeakPtr is to what its storage holds or held, and held in an earlier      *)
(* generation if nobody owns the storage now.                                  *)
WeakInv ==
  /\ \A w \in weak :
       /\ w.generation <= generation[w.storage]
       /\ w.generation = generation[w.storage] =>
            holder[w.storage] \in PoolThread /\ data[w.storage] = w.object
  /\ \A t \in PoolThread :
       /\ pool_call[t].op \in {"check", "read"} => pool_call[t].weak \in weak
       /\ pool_call[t].op = "check" /\ IsAlive(pool_call[t].weak) =>
            pool_call[t].got = pool_call[t].weak.object
       /\ pool_call[t].op = "read" => pool_call[t].got = pool_call[t].weak.object

(* The free list has n storages, q[n] at its head and q[1] at its end.          *)
FreeList(q, n) ==
  /\ \A j, k \in 1..n : q[j] = q[k] => j = k
  /\ free_head = IF n = 0 THEN 0 ELSE q[n]
  /\ \A k \in 1..n : next[q[k]] = IF k = 1 THEN 0 ELSE q[k - 1]

(* A storage has an owner, or is in one call, or in the list, ...              *)
Placed(q, n) ==
  /\ \A t \in PoolThread : \A s \in Storage : InCall(t, s) =>
       /\ s <= storage_count_ /\ holder[s] = "list"
       /\ \A k \in 1..n : q[k] # s
       /\ \A u \in PoolThread : InCall(u, s) => u = t
  /\ \A k \in 1..n : q[k] <= storage_count_ /\ holder[q[k]] = "list"
  /\ \A s \in Storage : holder[s] \in PoolThread => s <= storage_count_
  /\ \A s \in Storage : s <= storage_count_ =>
       \/ holder[s] \in PoolThread
       \/ \E t \in PoolThread : InCall(t, s)
       \/ \E k \in 1..n : q[k] = s

(* ... and what a call read of head_ and next is still so, if head_ is: a        *)
(* storage that was at the head leaves the list by its creator's hand only.     *)
CallsRight(q, n) ==
  \A t \in PoolThread :
    /\ pool_call[t].op \in {"take", "swing", "init"} => t = Creator
    /\ pool_call[t].op = "swing" =>
         /\ next[pool_call[t].storage] = pool_call[t].next
         /\ \E k \in 1..n : q[k] = pool_call[t].storage
    /\ pool_call[t].op = "push" => next[pool_call[t].storage] = pool_call[t].save_head

ListInv(q, n) == FreeList(q, n) /\ Placed(q, n) /\ CallsRight(q, n)

PoolInv == PoolType /\ WeakInv /\ \E n \in 0..MaxStorages : \E q \in [1..n -> Storage] : ListInv(q, n)

LEMMA LeastOf ==
  ASSUME NEW T \in SUBSET Nat, T # {}
  PROVE  \E n \in T : \A m \in T : n <= m
PROOF
  <1>1. PICK R : R = {p \in Nat \X Nat : p[1] < p[2]}
    OBVIOUS
  <1>2. IsWellFoundedOn(R, Nat)
    BY <1>1, NatLessThanWellFounded, Zenon DEF OpToRel
  <1>3. PICK n \in T : \A m \in T : <<m, n>> \notin R
    <2>1. T \subseteq Nat
      OBVIOUS
    <2> QED BY <1>2, <2>1, WFMin
  <1>4. \A m \in T : ~(m < n)
    BY <1>1, <1>3
  <1> QED BY <1>4

(* What the fields of a call are. *)
LEMMA CallFields ==
  ASSUME PoolType, NEW t \in PoolThread
  PROVE  /\ pool_call[t] \in PoolCall
         /\ pool_call[t].op \in {"init", "clear", "link", "swing", "push"} => pool_call[t].storage \in Storage
         /\ pool_call[t].op = "swing" => pool_call[t].next \in 0..MaxStorages
         /\ pool_call[t].op = "push" => pool_call[t].save_head \in 0..MaxStorages
         /\ pool_call[t].op \in {"check", "read"} => pool_call[t].weak \in WeakPtr /\ pool_call[t].got \in Nat
         /\ pool_call[t].op = "none" => pool_call[t] = PoolIdle
         /\ pool_call[t].op = "clear" =>
              /\ [pool_call[t] EXCEPT !.op = "link"] = [op |-> "link", storage |-> pool_call[t].storage]
         /\ pool_call[t].op = "check" =>
              [pool_call[t] EXCEPT !.op = "read"] = [op |-> "read", weak |-> pool_call[t].weak, got |-> pool_call[t].got]
PROOF
  <1>1. pool_call[t] \in PoolCall
    BY DEF PoolType
  <1>2. CASE pool_call[t] = PoolIdle
    BY <1>1, <1>2 DEF PoolIdle
  <1>3. CASE pool_call[t] \in [op : {"take"}]
    BY <1>1, <1>3
  <1>4. CASE pool_call[t] \in [op : {"init", "clear", "link"}, storage : Storage]
    BY <1>1, <1>4
  <1>5. CASE pool_call[t] \in [op : {"swing"}, storage : Storage, next : 0..MaxStorages]
    BY <1>1, <1>5
  <1>6. CASE pool_call[t] \in [op : {"push"}, storage : Storage, save_head : 0..MaxStorages]
    BY <1>1, <1>6
  <1>7. CASE pool_call[t] \in [op : {"check", "read"}, weak : WeakPtr, got : Nat]
    BY <1>1, <1>7
  <1> QED BY <1>1, <1>2, <1>3, <1>4, <1>5, <1>6, <1>7 DEF PoolCall

LEMMA CallTypes ==
  /\ PoolIdle \in PoolCall /\ [op |-> "take"] \in PoolCall
  /\ \A s \in Storage :
       /\ \A o \in {"init", "clear", "link"} : [op |-> o, storage |-> s] \in PoolCall
       /\ \A m \in 0..MaxStorages : /\ [op |-> "swing", storage |-> s, next |-> m] \in PoolCall
                                    /\ [op |-> "push", storage |-> s, save_head |-> m] \in PoolCall
  /\ \A w \in WeakPtr, g \in Nat, o \in {"check", "read"} : [op |-> o, weak |-> w, got |-> g] \in PoolCall
PROOF
  BY DEF PoolCall

(* t takes up another call, and the WeakPtrs and what they are to stay.         *)
LEMMA WeakKept ==
  ASSUME PoolType, WeakInv, NEW t \in PoolThread, NEW c \in PoolCall,
         pool_call' = [pool_call EXCEPT ![t] = c],
         UNCHANGED <<weak, generation, data, holder>>,
         c.op \in {"check", "read"} => c.weak \in weak,
         c.op = "check" /\ IsAlive(c.weak) => c.got = c.weak.object,
         c.op = "read" => c.got = c.weak.object
  PROVE  WeakInv'
PROOF
  <1>1. \A u \in PoolThread : pool_call'[u] = IF u = t THEN c ELSE pool_call[u]
    BY DEF PoolType
  <1> QED BY <1>1 DEF WeakInv, IsAlive

(* t takes up another call with the same storage, and the list stays.           *)
LEMMA ListKept ==
  ASSUME PoolType, NEW t \in PoolThread, NEW c \in PoolCall,
         pool_call' = [pool_call EXCEPT ![t] = c],
         UNCHANGED <<storage_count_, free_head, next, holder>>,
         \A s \in Storage : (c.op \in {"init", "clear", "link", "push"} /\ c.storage = s) <=> InCall(t, s),
         NEW n \in 0..MaxStorages, NEW q \in [1..n -> Storage], ListInv(q, n),
         c.op \in {"take", "swing", "init"} => t = Creator,
         c.op = "swing" => next[c.storage] = c.next /\ \E k \in 1..n : q[k] = c.storage,
         c.op = "push" => next[c.storage] = c.save_head
  PROVE  ListInv(q, n)'
PROOF
  <1>1. \A u \in PoolThread : pool_call'[u] = IF u = t THEN c ELSE pool_call[u]
    BY DEF PoolType
  <1>2. \A u \in PoolThread : \A s \in Storage : InCall(u, s)' <=> InCall(u, s)
    BY <1>1 DEF InCall
  <1>3. FreeList(q, n)'
    BY DEF ListInv, FreeList
  <1>4. Placed(q, n)'
    BY <1>2 DEF ListInv, Placed
  <1>5. CallsRight(q, n)'
    BY <1>1 DEF ListInv, CallsRight
  <1> QED BY <1>3, <1>4, <1>5 DEF ListInv

(* Such a step keeps the invariant. *)
LEMMA CallStep ==
  ASSUME PoolInv, NEW t \in PoolThread, NEW c \in PoolCall,
         pool_call' = [pool_call EXCEPT ![t] = c],
         UNCHANGED <<storages, holder, weak, created>>,
         \A s \in Storage : (c.op \in {"init", "clear", "link", "push"} /\ c.storage = s) <=> InCall(t, s),
         c.op \in {"check", "read"} => c.weak \in weak,
         c.op = "check" /\ IsAlive(c.weak) => c.got = c.weak.object,
         c.op = "read" => c.got = c.weak.object,
         c.op \in {"take", "swing", "init"} => t = Creator,
         c.op = "swing" => next[c.storage] = c.next /\ c.storage = free_head,
         c.op = "push" => next[c.storage] = c.save_head
  PROVE  PoolInv'
PROOF
  <1>1. PoolType /\ WeakInv
    BY DEF PoolInv
  <1>2. PICK n \in 0..MaxStorages : \E q \in [1..n -> Storage] : ListInv(q, n)
    BY DEF PoolInv
  <1>3. PICK q \in [1..n -> Storage] : ListInv(q, n)
    BY <1>2
  <1>4. UNCHANGED <<storage_count_, free_head, next, generation, data, holder, weak, created>>
    BY DEF storages
  <1>5. PoolType'
    BY <1>1, <1>4 DEF PoolType
  <1>6. WeakInv'
    BY <1>1, <1>4, WeakKept
  <1>7. c.op = "swing" => next[c.storage] = c.next /\ \E k \in 1..n : q[k] = c.storage
    <2>1. SUFFICES ASSUME c.op = "swing" PROVE \E k \in 1..n : q[k] = c.storage
      OBVIOUS
    <2>2. c.storage \in Storage
      BY <2>1 DEF PoolCall, PoolIdle
    <2>3. c.storage = free_head /\ free_head # 0
      BY <2>1, <2>2 DEF Storage
    <2>4. n # 0 /\ q[n] = c.storage
      BY <1>3, <2>3 DEF ListInv, FreeList
    <2> QED BY <2>4
  <1>8. ListInv(q, n)'
    BY <1>1, <1>3, <1>4, <1>7, ListKept
  <1> QED BY <1>5, <1>6, <1>8 DEF PoolInv

LEMMA GetStorageSafe ==
  ASSUME ObjectPoolAssumption, PoolInv, NEW t \in PoolThread, GetStorage(t)
  PROVE  PoolInv'
PROOF
  <1>1. PoolType /\ WeakInv
    BY DEF PoolInv
  <1>2. pool_call[t].op = "none" /\ t = Creator
    BY DEF GetStorage, Doing, MayCreate
  <1>3. CASE free_head # 0
    <2>1. PICK c : c = [op |-> "take"]
      OBVIOUS
    <2>2. c \in PoolCall /\ pool_call' = [pool_call EXCEPT ![t] = c] /\ UNCHANGED <<storages, holder, weak, created>>
      BY <1>3, <2>1, CallTypes DEF GetStorage, Goes, storages
    <2>3. \A s \in Storage : (c.op \in {"init", "clear", "link", "push"} /\ c.storage = s) <=> InCall(t, s)
      BY <1>2, <2>1 DEF InCall
    <2> QED BY <1>2, <2>1, <2>2, <2>3, CallStep
  <1>4. CASE free_head = 0
    <2>1. PICK x : x = storage_count_ + 1
      OBVIOUS
    <2>2. /\ x \in Storage /\ x \in 0..MaxStorages /\ ~(x <= storage_count_) /\ storage_count_' = x
          /\ \A s \in Storage : s <= x <=> (s <= storage_count_ \/ s = x)
      BY <1>1, <1>4, <2>1, ObjectPoolAssumption DEF GetStorage, PoolType, Storage
    <2>3. PICK c : c = [op |-> "init", storage |-> x]
      OBVIOUS
    <2>4. /\ c \in PoolCall /\ pool_call' = [pool_call EXCEPT ![t] = c]
          /\ UNCHANGED <<free_head, next, generation, data, holder, weak, created>>
      BY <1>4, <2>1, <2>2, <2>3, CallTypes DEF GetStorage, Goes
    <2>5. \A u \in PoolThread : pool_call'[u] = IF u = t THEN c ELSE pool_call[u]
      BY <1>1, <2>4 DEF PoolType
    <2>6. PoolType'
      BY <1>1, <2>2, <2>4 DEF PoolType
    <2>7. WeakInv'
      BY <1>1, <2>3, <2>4, WeakKept
    <2>8. PICK n \in 0..MaxStorages : \E q \in [1..n -> Storage] : ListInv(q, n)
      BY DEF PoolInv
    <2>9. PICK q \in [1..n -> Storage] : ListInv(q, n)
      BY <2>8
    <2>10. \A u \in PoolThread : \A s \in Storage : InCall(u, s)' <=> InCall(u, s) \/ (u = t /\ s = x)
      BY <1>2, <2>3, <2>5 DEF InCall
    <2>11. holder[x] = "list" /\ \A k \in 1..n : q[k] # x
      BY <1>1, <2>2, <2>9 DEF ListInv, Placed, PoolType
    <2>12. Placed(q, n)'
      <3>1. \A u \in PoolThread : \A s \in Storage : InCall(u, s) => s # x
        BY <2>2, <2>9 DEF ListInv, Placed
      <3>2. ASSUME NEW u \in PoolThread, NEW s \in Storage, InCall(u, s)'
            PROVE  /\ s <= x /\ holder[s] = "list" /\ \A k \in 1..n : q[k] # s
                   /\ \A v \in PoolThread : InCall(v, s)' => v = u
        BY <2>2, <2>9, <2>10, <2>11, <3>1, <3>2 DEF ListInv, Placed
      <3>3. /\ \A k \in 1..n : q[k] <= x /\ holder[q[k]] = "list"
            /\ \A s \in Storage : holder[s] \in PoolThread => s <= x
        BY <2>2, <2>9 DEF ListInv, Placed
      <3>4. ASSUME NEW s \in Storage, s <= x
            PROVE  \/ holder[s] \in PoolThread
                   \/ \E u \in PoolThread : InCall(u, s)'
                   \/ \E k \in 1..n : q[k] = s
        BY <2>2, <2>9, <2>10, <3>4 DEF ListInv, Placed
      <3> QED BY <2>2, <2>4, <3>2, <3>3, <3>4 DEF Placed
    <2>13. FreeList(q, n)'
      BY <2>4, <2>9 DEF ListInv, FreeList
    <2>14. CallsRight(q, n)'
      BY <1>2, <2>3, <2>4, <2>5, <2>9 DEF ListInv, CallsRight
    <2>15. ListInv(q, n)'
      BY <2>12, <2>13, <2>14 DEF ListInv
    <2> QED BY <2>6, <2>7, <2>15 DEF PoolInv
  <1> QED BY <1>3, <1>4

LEMMA LoadHeadSafe ==
  ASSUME ObjectPoolAssumption, PoolInv, NEW t \in PoolThread, LoadHead(t)
  PROVE  PoolInv'
PROOF
  <1>1. PoolType
    BY DEF PoolInv
  <1>2. pool_call[t].op = "take" /\ free_head # 0
    BY DEF LoadHead, Doing
  <1>3. free_head \in Storage /\ next[free_head] \in 0..MaxStorages
    BY <1>1, <1>2, ObjectPoolAssumption DEF PoolType, Storage
  <1>4. PICK c : c = [op |-> "swing", storage |-> free_head, next |-> next[free_head]]
    OBVIOUS
  <1>5. c \in PoolCall /\ pool_call' = [pool_call EXCEPT ![t] = c] /\ UNCHANGED <<storages, holder, weak, created>>
    BY <1>3, <1>4, CallTypes DEF LoadHead, Goes
  <1>6. \A s \in Storage : (c.op \in {"init", "clear", "link", "push"} /\ c.storage = s) <=> InCall(t, s)
    BY <1>2, <1>4 DEF InCall
  <1>7. t = Creator
    BY <1>2 DEF PoolInv, ListInv, CallsRight
  <1> QED BY <1>4, <1>5, <1>6, <1>7, CallStep

(* head_ is the storage that was loaded, and its next is what was loaded: the    *)
(* list without its head.                                                       *)
LEMMA SwingHeadSafe ==
  ASSUME ObjectPoolAssumption, PoolInv, NEW t \in PoolThread, SwingHead(t)
  PROVE  PoolInv'
PROOF
  <1>1. PoolType /\ WeakInv
    BY DEF PoolInv
  <1>2. pool_call[t].op = "swing" /\ UNCHANGED <<storage_count_, next, generation, data, holder, weak, created>>
    BY DEF SwingHead, Doing
  <1>3. t = Creator
    BY <1>2 DEF PoolInv, ListInv, CallsRight
  <1>4. CASE Goes(t, [op |-> "take"]) /\ UNCHANGED free_head
    <2>1. PICK c : c = [op |-> "take"]
      OBVIOUS
    <2>2. c \in PoolCall /\ pool_call' = [pool_call EXCEPT ![t] = c] /\ UNCHANGED <<storages, holder, weak, created>>
      BY <1>2, <1>4, <2>1, CallTypes DEF Goes, storages
    <2>3. \A s \in Storage : (c.op \in {"init", "clear", "link", "push"} /\ c.storage = s) <=> InCall(t, s)
      BY <1>2, <2>1 DEF InCall
    <2> QED BY <1>3, <2>1, <2>2, <2>3, CallStep
  <1>5. CASE /\ free_head = pool_call[t].storage /\ free_head' = pool_call[t].next
             /\ Goes(t, [op |-> "init", storage |-> pool_call[t].storage])
    <2>1. PICK x : x = free_head
      OBVIOUS
    <2>2. x \in Storage /\ x # 0 /\ pool_call[t].next \in 0..MaxStorages
      <3>1. pool_call[t].storage \in Storage /\ pool_call[t].next \in 0..MaxStorages
        BY <1>1, <1>2, CallFields
      <3>2. \A s \in Storage : s # 0
        BY DEF Storage
      <3> QED BY <1>5, <2>1, <3>1, <3>2
    <2>3. PICK c : c = [op |-> "init", storage |-> x]
      OBVIOUS
    <2>4. c \in PoolCall /\ pool_call' = [pool_call EXCEPT ![t] = c]
      BY <1>5, <2>1, <2>2, <2>3, CallTypes DEF Goes
    <2>5. \A u \in PoolThread : pool_call'[u] = IF u = t THEN c ELSE pool_call[u]
      BY <1>1, <2>4 DEF PoolType
    <2>6. PoolType'
      BY <1>1, <1>2, <1>5, <2>2, <2>4 DEF PoolType
    <2>7. WeakInv'
      BY <1>1, <1>2, <2>3, <2>4, WeakKept
    <2>8. PICK n \in 0..MaxStorages : \E q \in [1..n -> Storage] : ListInv(q, n)
      BY DEF PoolInv
    <2>9. PICK q \in [1..n -> Storage] : ListInv(q, n)
      BY <2>8
    <2>10. n # 0 /\ q[n] = x /\ n \in 1..n /\ n \in Nat
      BY <2>1, <2>2, <2>9, ObjectPoolAssumption DEF ListInv, FreeList
    <2>11. free_head' = IF n = 1 THEN 0 ELSE q[n - 1]
      <3>1. next[pool_call[t].storage] = pool_call[t].next
        BY <1>2, <2>9 DEF ListInv, CallsRight
      <3>2. next[q[n]] = IF n = 1 THEN 0 ELSE q[n - 1]
        BY <2>9, <2>10 DEF ListInv, FreeList
      <3> QED BY <1>5, <2>1, <2>10, <3>1, <3>2
    <2>12. PICK m : m = n - 1
      OBVIOUS
    <2>13. /\ m \in 0..MaxStorages /\ m \in Nat /\ 1..m \subseteq 1..n /\ n \notin 1..m
           /\ \A k \in 1..n : k \in 1..m \/ k = n
           /\ \A k \in 1..m : k = 1 \/ k - 1 \in 1..m
           /\ (m = 0 <=> n = 1) /\ (m # 0 => m \in 1..m)
      BY <2>10, <2>12, ObjectPoolAssumption
    <2>14. PICK p : p = [k \in 1..m |-> q[k]]
      OBVIOUS
    <2>15. p \in [1..m -> Storage] /\ \A k \in 1..m : p[k] = q[k]
      BY <2>13, <2>14
    <2>16. FreeList(p, m)'
      <3>1. /\ \A j, k \in 1..n : q[j] = q[k] => j = k
            /\ \A k \in 1..n : next[q[k]] = IF k = 1 THEN 0 ELSE q[k - 1]
        BY <2>9 DEF ListInv, FreeList
      <3>2. \A j, k \in 1..m : p[j] = p[k] => j = k
        BY <2>13, <2>15, <3>1
      <3>3. free_head' = IF m = 0 THEN 0 ELSE p[m]
        BY <2>11, <2>12, <2>13, <2>15
      <3>4. \A k \in 1..m : next[p[k]] = IF k = 1 THEN 0 ELSE p[k - 1]
        BY <2>13, <2>15, <3>1
      <3>5. next' = next
        BY <1>2, <1>5
      <3> QED BY <3>2, <3>3, <3>4, <3>5 DEF FreeList
    <2>17. \A u \in PoolThread : \A s \in Storage : InCall(u, s)' <=> InCall(u, s) \/ (u = t /\ s = x)
      BY <1>2, <2>3, <2>5 DEF InCall
    <2>18. /\ x <= storage_count_ /\ holder[x] = "list" /\ \A k \in 1..m : p[k] # x
           /\ \A u \in PoolThread : ~InCall(u, x)
      BY <2>2, <2>9, <2>10, <2>13, <2>15 DEF ListInv, Placed, FreeList
    <2>19. Placed(p, m)'
      <3>1. ASSUME NEW u \in PoolThread, NEW s \in Storage, InCall(u, s)'
            PROVE  /\ s <= storage_count_ /\ holder[s] = "list" /\ \A k \in 1..m : p[k] # s
                   /\ \A v \in PoolThread : InCall(v, s)' => v = u
        <4>1. CASE s = x
          BY <2>17, <2>18, <3>1, <4>1
        <4>2. CASE s # x
          <5>1. InCall(u, s) /\ \A v \in PoolThread : InCall(v, s)' => InCall(v, s)
            BY <2>17, <3>1, <4>2
          <5> QED BY <2>9, <2>13, <2>15, <5>1 DEF ListInv, Placed
        <4> QED BY <4>1, <4>2
      <3>2. /\ \A k \in 1..m : p[k] <= storage_count_ /\ holder[p[k]] = "list"
            /\ \A s \in Storage : holder[s] \in PoolThread => s <= storage_count_
        BY <2>9, <2>13, <2>15 DEF ListInv, Placed
      <3>3. ASSUME NEW s \in Storage, s <= storage_count_
            PROVE  \/ holder[s] \in PoolThread
                   \/ \E u \in PoolThread : InCall(u, s)'
                   \/ \E k \in 1..m : p[k] = s
        <4>1. CASE \E k \in 1..n : q[k] = s
          BY <2>10, <2>13, <2>15, <2>17, <4>1
        <4> QED BY <2>9, <2>17, <3>3, <4>1 DEF ListInv, Placed
      <3> QED BY <1>2, <3>1, <3>2, <3>3 DEF Placed
    <2>20. CallsRight(p, m)'
      <3>1. \A u \in PoolThread : u # t => pool_call[u].op \notin {"take", "swing", "init"}
        BY <1>3, <2>9 DEF ListInv, CallsRight
      <3> QED BY <1>2, <1>3, <2>3, <2>5, <2>9, <3>1 DEF ListInv, CallsRight
    <2>21. ListInv(p, m)'
      BY <2>16, <2>19, <2>20 DEF ListInv
    <2> QED BY <2>6, <2>7, <2>13, <2>15, <2>21 DEF PoolInv
  <1> QED BY <1>4, <1>5 DEF SwingHead

LEMMA InitDataSafe ==
  ASSUME ObjectPoolAssumption, PoolInv, NEW t \in PoolThread, InitData(t)
  PROVE  PoolInv'
PROOF
  <1>1. PoolType /\ WeakInv
    BY DEF PoolInv
  <1>2. PICK x : x = pool_call[t].storage
    OBVIOUS
  <1>3. PICK w : w = [storage |-> x, generation |-> generation[x], object |-> created + 1]
    OBVIOUS
  <1>4. /\ pool_call[t].op = "init" /\ pool_call' = [pool_call EXCEPT ![t] = PoolIdle]
        /\ data' = [data EXCEPT ![x] = created + 1] /\ holder' = [holder EXCEPT ![x] = t]
        /\ weak' = weak \union {w} /\ created' = created + 1
        /\ UNCHANGED <<storage_count_, free_head, next, generation>>
    BY <1>2, <1>3 DEF InitData, Doing, Goes
  <1>5. x \in Storage /\ w \in WeakPtr /\ created + 1 \in Nat
    <2>1. x \in Storage
      BY <1>1, <1>2, <1>4, CallFields
    <2> QED BY <1>1, <1>3, <2>1 DEF PoolType, WeakPtr
  <1>6. \A u \in PoolThread : pool_call'[u] = IF u = t THEN PoolIdle ELSE pool_call[u]
    BY <1>1, <1>4 DEF PoolType
  <1>7. /\ \A s \in Storage : holder'[s] = IF s = x THEN t ELSE holder[s]
        /\ \A s \in Storage : data'[s] = IF s = x THEN created + 1 ELSE data[s]
    BY <1>1, <1>4, <1>5 DEF PoolType
  <1>8. PoolType'
    BY <1>1, <1>4, <1>5, CallTypes DEF PoolType
  <1>9. PICK n \in 0..MaxStorages : \E q \in [1..n -> Storage] : ListInv(q, n)
    BY DEF PoolInv
  <1>10. PICK q \in [1..n -> Storage] : ListInv(q, n)
    BY <1>9
  <1>11. InCall(t, x) /\ holder[x] = "list" /\ x <= storage_count_ /\ \A k \in 1..n : q[k] # x
    <2>1. InCall(t, x)
      BY <1>2, <1>4 DEF InCall
    <2> QED BY <1>5, <1>10, <2>1 DEF ListInv, Placed
  <1>12. WeakInv'
    <2>1. \A v \in weak : v \in WeakPtr /\ (v.storage = x => v.generation # generation[x])
      BY <1>1, <1>11, ObjectPoolAssumption DEF WeakInv, PoolType
    <2>2. ASSUME NEW v \in weak
          PROVE  /\ v.generation <= generation[v.storage]
                 /\ v.generation = generation[v.storage] =>
                      holder'[v.storage] \in PoolThread /\ data'[v.storage] = v.object
      <3>1. v.storage \in Storage
        BY <2>1 DEF WeakPtr
      <3> QED BY <1>1, <1>7, <2>1, <3>1 DEF WeakInv
    <2>3. /\ w.generation <= generation[w.storage]
          /\ holder'[w.storage] \in PoolThread /\ data'[w.storage] = w.object
      BY <1>1, <1>3, <1>5, <1>7 DEF PoolType
    <2>4. \A v : IsAlive(v)' <=> IsAlive(v)
      BY <1>4 DEF IsAlive
    <2>5. \A u \in PoolThread :
            /\ pool_call'[u].op \in {"check", "read"} => pool_call'[u].weak \in weak'
            /\ pool_call'[u].op = "check" /\ pool_call'[u].weak.generation = generation[pool_call'[u].weak.storage] =>
                 pool_call'[u].got = pool_call'[u].weak.object
            /\ pool_call'[u].op = "read" => pool_call'[u].got = pool_call'[u].weak.object
      BY <1>1, <1>4, <1>6 DEF WeakInv, PoolIdle, IsAlive
    <2> QED BY <1>4, <2>2, <2>3, <2>5 DEF WeakInv, IsAlive
  <1>13. \A u \in PoolThread : \A s \in Storage : InCall(u, s)' <=> InCall(u, s) /\ u # t
    BY <1>6 DEF InCall, PoolIdle
  <1>14. FreeList(q, n)'
    BY <1>4, <1>10 DEF ListInv, FreeList
  <1>15. Placed(q, n)'
    <2>1. ASSUME NEW u \in PoolThread, NEW s \in Storage, InCall(u, s), u # t
          PROVE  /\ s <= storage_count_ /\ holder'[s] = "list" /\ \A k \in 1..n : q[k] # s
                 /\ \A v \in PoolThread : InCall(v, s) => v = u
      BY <1>5, <1>7, <1>10, <1>11, <2>1 DEF ListInv, Placed
    <2>2. /\ \A k \in 1..n : q[k] <= storage_count_ /\ holder'[q[k]] = "list"
          /\ \A s \in Storage : holder'[s] \in PoolThread => s <= storage_count_
      BY <1>7, <1>10, <1>11 DEF ListInv, Placed
    <2>3. ASSUME NEW s \in Storage, s <= storage_count_
          PROVE  \/ holder'[s] \in PoolThread
                 \/ \E u \in PoolThread : InCall(u, s)'
                 \/ \E k \in 1..n : q[k] = s
      <3>1. CASE s = x
        BY <1>7, <3>1
      <3>2. CASE s # x
        <4>1. ~InCall(t, s)
          BY <1>2, <3>2 DEF InCall
        <4> QED BY <1>7, <1>10, <1>13, <2>3, <3>2, <4>1 DEF ListInv, Placed
      <3> QED BY <3>1, <3>2
    <2> QED BY <1>4, <1>13, <2>1, <2>2, <2>3 DEF Placed
  <1>16. CallsRight(q, n)'
    BY <1>4, <1>6, <1>10 DEF ListInv, CallsRight, PoolIdle
  <1>17. ListInv(q, n)'
    BY <1>14, <1>15, <1>16 DEF ListInv
  <1> QED BY <1>8, <1>12, <1>17 DEF PoolInv

LEMMA MoveOwnerSafe ==
  ASSUME ObjectPoolAssumption, PoolInv, NEW t \in PoolThread, NEW u \in PoolThread, NEW x \in Storage,
         MoveOwner(t, u, x)
  PROVE  PoolInv'
PROOF
  <1>1. PoolType /\ WeakInv
    BY DEF PoolInv
  <1>2. /\ holder[x] = t /\ holder' = [holder EXCEPT ![x] = u]
        /\ UNCHANGED <<storage_count_, free_head, next, generation, data, weak, pool_call, created>>
    BY DEF MoveOwner, storages
  <1>3. \A s \in Storage : holder'[s] = IF s = x THEN u ELSE holder[s]
    BY <1>1, <1>2 DEF PoolType
  <1>4. PoolType'
    BY <1>1, <1>2 DEF PoolType
  <1>5. WeakInv'
    <2>1. \A w \in weak : w.storage \in Storage
      BY <1>1 DEF PoolType, WeakPtr
    <2> QED BY <1>1, <1>2, <1>3, <2>1 DEF WeakInv, IsAlive
  <1>6. PICK n \in 0..MaxStorages : \E q \in [1..n -> Storage] : ListInv(q, n)
    BY DEF PoolInv
  <1>7. PICK q \in [1..n -> Storage] : ListInv(q, n)
    BY <1>6
  <1>8. FreeList(q, n)'
    BY <1>2, <1>7 DEF ListInv, FreeList
  <1>9. \A s \in Storage : /\ holder'[s] \in PoolThread <=> holder[s] \in PoolThread
                           /\ holder'[s] = "list" <=> holder[s] = "list"
    BY <1>2, <1>3, ObjectPoolAssumption
  <1>10. \A v \in PoolThread : \A s \in Storage : InCall(v, s)' <=> InCall(v, s)
    BY <1>2 DEF InCall
  <1>11. Placed(q, n)'
    BY <1>2, <1>7, <1>9, <1>10 DEF ListInv, Placed
  <1>12. CallsRight(q, n)'
    BY <1>2, <1>7 DEF ListInv, CallsRight
  <1>13. ListInv(q, n)'
    BY <1>8, <1>11, <1>12 DEF ListInv
  <1> QED BY <1>4, <1>5, <1>13 DEF PoolInv

LEMMA EndGenerationSafe ==
  ASSUME ObjectPoolAssumption, PoolInv, NEW t \in PoolThread, NEW x \in Storage, EndGeneration(t, x)
  PROVE  PoolInv'
PROOF
  <1>1. PoolType /\ WeakInv
    BY DEF PoolInv
  <1>2. PICK c : c = [op |-> "clear", storage |-> x]
    OBVIOUS
  <1>3. /\ pool_call[t].op = "none" /\ holder[x] = t /\ holder' = [holder EXCEPT ![x] = "list"]
        /\ generation' = [generation EXCEPT ![x] = generation[x] + 1]
        /\ pool_call' = [pool_call EXCEPT ![t] = c]
        /\ UNCHANGED <<storage_count_, free_head, next, data, weak, created>>
    BY <1>2 DEF EndGeneration, Doing, Goes
  <1>4. c \in PoolCall
    BY <1>2, CallTypes
  <1>5. \A u \in PoolThread : pool_call'[u] = IF u = t THEN c ELSE pool_call[u]
    BY <1>1, <1>3 DEF PoolType
  <1>6. /\ \A s \in Storage : holder'[s] = IF s = x THEN "list" ELSE holder[s]
        /\ \A s \in Storage : generation'[s] = IF s = x THEN generation[x] + 1 ELSE generation[s]
        /\ \A s \in Storage : generation[s] \in Nat
    BY <1>1, <1>3 DEF PoolType
  <1>7. PoolType'
    <2>1. generation' \in [Storage -> Nat] /\ holder' \in [Storage -> PoolThread \union {"list"}]
      BY <1>1, <1>3, <1>6 DEF PoolType
    <2> QED BY <1>1, <1>3, <1>4, <2>1 DEF PoolType
  <1>8. WeakInv'
    <2>1. \A w \in weak : w.storage \in Storage /\ w.generation \in Nat
      BY <1>1 DEF PoolType, WeakPtr
    <2>2. \A w \in weak :
            /\ w.generation <= generation'[w.storage]
            /\ w.generation = generation'[w.storage] => w.storage # x /\ w.generation = generation[w.storage]
      BY <1>1, <1>6, <2>1 DEF WeakInv
    <2>3. \A w \in weak : w.generation = generation'[w.storage] =>
            holder'[w.storage] \in PoolThread /\ data'[w.storage] = w.object
      BY <1>1, <1>3, <1>6, <2>1, <2>2 DEF WeakInv
    <2>4. \A u \in PoolThread :
            /\ pool_call'[u].op \in {"check", "read"} => pool_call'[u].weak \in weak
            /\ pool_call'[u].op = "check" /\ pool_call'[u].weak.generation = generation'[pool_call'[u].weak.storage] =>
                 pool_call'[u].got = pool_call'[u].weak.object
            /\ pool_call'[u].op = "read" => pool_call'[u].got = pool_call'[u].weak.object
      BY <1>1, <1>2, <1>5, <2>2 DEF WeakInv, IsAlive
    <2> QED BY <1>3, <2>2, <2>3, <2>4 DEF WeakInv, IsAlive
  <1>9. PICK n \in 0..MaxStorages : \E q \in [1..n -> Storage] : ListInv(q, n)
    BY DEF PoolInv
  <1>10. PICK q \in [1..n -> Storage] : ListInv(q, n)
    BY <1>9
  <1>11. \A u \in PoolThread : \A s \in Storage : InCall(u, s)' <=> InCall(u, s) \/ (u = t /\ s = x)
    BY <1>2, <1>3, <1>5 DEF InCall
  <1>12. x <= storage_count_ /\ (\A k \in 1..n : q[k] # x) /\ \A u \in PoolThread : ~InCall(u, x)
    BY <1>3, <1>10, ObjectPoolAssumption DEF ListInv, Placed
  <1>13. FreeList(q, n)'
    BY <1>3, <1>10 DEF ListInv, FreeList
  <1>14. Placed(q, n)'
    <2>1. ASSUME NEW u \in PoolThread, NEW s \in Storage, InCall(u, s)'
          PROVE  /\ s <= storage_count_ /\ holder'[s] = "list" /\ \A k \in 1..n : q[k] # s
                 /\ \A v \in PoolThread : InCall(v, s)' => v = u
      <3>1. CASE s = x
        BY <1>6, <1>11, <1>12, <2>1, <3>1
      <3>2. CASE s # x
        <4>1. InCall(u, s) /\ \A v \in PoolThread : InCall(v, s)' => InCall(v, s)
          BY <1>11, <2>1, <3>2
        <4> QED BY <1>6, <1>10, <3>2, <4>1 DEF ListInv, Placed
      <3> QED BY <3>1, <3>2
    <2>2. /\ \A k \in 1..n : q[k] <= storage_count_ /\ holder'[q[k]] = "list"
          /\ \A s \in Storage : holder'[s] \in PoolThread => s <= storage_count_
      BY <1>6, <1>10, ObjectPoolAssumption DEF ListInv, Placed
    <2>3. ASSUME NEW s \in Storage, s <= storage_count_
          PROVE  \/ holder'[s] \in PoolThread
                 \/ \E u \in PoolThread : InCall(u, s)'
                 \/ \E k \in 1..n : q[k] = s
      BY <1>6, <1>10, <1>11, <2>3 DEF ListInv, Placed
    <2> QED BY <1>3, <2>1, <2>2, <2>3 DEF Placed
  <1>15. CallsRight(q, n)'
    BY <1>2, <1>3, <1>5, <1>10 DEF ListInv, CallsRight
  <1>16. ListInv(q, n)'
    BY <1>13, <1>14, <1>15 DEF ListInv
  <1> QED BY <1>7, <1>8, <1>16 DEF PoolInv

LEMMA ClearDataSafe ==
  ASSUME ObjectPoolAssumption, PoolInv, NEW t \in PoolThread, ClearData(t)
  PROVE  PoolInv'
PROOF
  <1>1. PoolType /\ WeakInv
    BY DEF PoolInv
  <1>2. PICK x : x = pool_call[t].storage
    OBVIOUS
  <1>3. PICK c : c = [op |-> "link", storage |-> x]
    OBVIOUS
  <1>4. pool_call[t].op = "clear" /\ x \in Storage /\ c \in PoolCall
    <2>1. pool_call[t].op = "clear"
      BY DEF ClearData, Doing
    <2>2. x \in Storage
      BY <1>1, <1>2, <2>1, CallFields
    <2> QED BY <1>3, <2>1, <2>2, CallTypes
  <1>5. /\ pool_call' = [pool_call EXCEPT ![t] = c] /\ data' = [data EXCEPT ![x] = 0]
        /\ UNCHANGED <<storage_count_, free_head, next, generation, holder, weak, created>>
    <2>1. [pool_call[t] EXCEPT !.op = "link"] = c
      BY <1>1, <1>2, <1>3, <1>4, CallFields
    <2> QED BY <1>2, <2>1 DEF ClearData, Goes
  <1>6. PoolType'
    BY <1>1, <1>4, <1>5 DEF PoolType
  <1>7. \A u \in PoolThread : pool_call'[u] = IF u = t THEN c ELSE pool_call[u]
    BY <1>1, <1>5 DEF PoolType
  <1>8. PICK n \in 0..MaxStorages : \E q \in [1..n -> Storage] : ListInv(q, n)
    BY DEF PoolInv
  <1>9. PICK q \in [1..n -> Storage] : ListInv(q, n)
    BY <1>8
  <1>10. \A s \in Storage : (c.op \in {"init", "clear", "link", "push"} /\ c.storage = s) <=> InCall(t, s)
    BY <1>2, <1>3, <1>4 DEF InCall
  <1>11. WeakInv'
    <2>1. holder[x] = "list"
      <3>1. InCall(t, x)
        BY <1>2, <1>4 DEF InCall
      <3> QED BY <1>4, <1>9, <3>1 DEF ListInv, Placed
    <2>2. \A w \in weak : w.storage \in Storage
      BY <1>1 DEF PoolType, WeakPtr
    <2>3. \A s \in Storage \ {x} : data'[s] = data[s]
      BY <1>1, <1>5 DEF PoolType
    <2>4. \A w \in weak :
            /\ w.generation <= generation[w.storage]
            /\ w.generation = generation[w.storage] =>
                 holder[w.storage] \in PoolThread /\ data'[w.storage] = w.object
      BY <1>1, <2>1, <2>2, <2>3, ObjectPoolAssumption DEF WeakInv
    <2>5. ASSUME NEW u \in PoolThread
          PROVE  /\ pool_call'[u].op \in {"check", "read"} => pool_call'[u].weak \in weak
                 /\ pool_call'[u].op = "check" /\ pool_call'[u].weak.generation = generation[pool_call'[u].weak.storage] =>
                      pool_call'[u].got = pool_call'[u].weak.object
                 /\ pool_call'[u].op = "read" => pool_call'[u].got = pool_call'[u].weak.object
      <3>1. CASE u = t
        BY <1>3, <1>7, <3>1
      <3>2. CASE u # t
        BY <1>1, <1>7, <3>2 DEF WeakInv, IsAlive
      <3> QED BY <3>1, <3>2
    <2>6. weak' = weak /\ generation' = generation /\ holder' = holder
      BY <1>5
    <2>7. /\ \A w \in weak' :
               /\ w.generation <= generation'[w.storage]
               /\ w.generation = generation'[w.storage] =>
                    holder'[w.storage] \in PoolThread /\ data'[w.storage] = w.object
      BY <2>4, <2>6, Zenon
    <2>8. \A u \in PoolThread :
            /\ pool_call'[u].op \in {"check", "read"} => pool_call'[u].weak \in weak'
            /\ pool_call'[u].op = "check" /\ pool_call'[u].weak.generation = generation'[pool_call'[u].weak.storage] =>
                 pool_call'[u].got = pool_call'[u].weak.object
            /\ pool_call'[u].op = "read" => pool_call'[u].got = pool_call'[u].weak.object
      BY <2>5, <2>6, Zenon
    <2> QED BY <2>7, <2>8, Zenon DEF WeakInv, IsAlive
  <1>12. ListInv(q, n)'
    <2>1. c.op = "link" /\ c \in PoolCall /\ UNCHANGED <<storage_count_, free_head, next, holder>>
      BY <1>3, <1>4, <1>5
    <2>2. pool_call' = [pool_call EXCEPT ![t] = c] /\ PoolType
      BY <1>1, <1>5
    <2> QED BY <1>9, <1>10, <2>1, <2>2, ListKept
  <1> QED BY <1>6, <1>11, <1>12 DEF PoolInv

LEMMA LinkStorageSafe ==
  ASSUME ObjectPoolAssumption, PoolInv, NEW t \in PoolThread, LinkStorage(t)
  PROVE  PoolInv'
PROOF
  <1>1. PoolType /\ WeakInv
    BY DEF PoolInv
  <1>2. PICK x : x = pool_call[t].storage
    OBVIOUS
  <1>3. PICK c : c = [op |-> "push", storage |-> x, save_head |-> free_head]
    OBVIOUS
  <1>4. pool_call[t].op = "link" /\ x \in Storage /\ c \in PoolCall /\ free_head \in 0..MaxStorages
    <2>1. pool_call[t].op = "link" /\ free_head \in 0..MaxStorages
      BY <1>1 DEF LinkStorage, Doing, PoolType
    <2>2. x \in Storage
      BY <1>1, <1>2, <2>1, CallFields
    <2> QED BY <1>3, <2>1, <2>2, CallTypes
  <1>5. /\ pool_call' = [pool_call EXCEPT ![t] = c] /\ next' = [next EXCEPT ![x] = free_head]
        /\ UNCHANGED <<storage_count_, free_head, generation, data, holder, weak, created>>
    BY <1>2, <1>3 DEF LinkStorage, Goes
  <1>6. PoolType'
    BY <1>1, <1>4, <1>5 DEF PoolType
  <1>7. \A u \in PoolThread : pool_call'[u] = IF u = t THEN c ELSE pool_call[u]
    BY <1>1, <1>5 DEF PoolType
  <1>8. WeakInv'
    BY <1>1, <1>3, <1>4, <1>5, WeakKept
  <1>9. PICK n \in 0..MaxStorages : \E q \in [1..n -> Storage] : ListInv(q, n)
    BY DEF PoolInv
  <1>10. PICK q \in [1..n -> Storage] : ListInv(q, n)
    BY <1>9
  <1>11. \A u \in PoolThread : \A s \in Storage : InCall(u, s)' <=> InCall(u, s)
    BY <1>2, <1>3, <1>4, <1>7 DEF InCall
  <1>12. (\A k \in 1..n : q[k] # x) /\ \A u \in PoolThread : InCall(u, x) => u = t
    <2>1. InCall(t, x)
      BY <1>2, <1>4 DEF InCall
    <2> QED BY <1>4, <1>10, <2>1 DEF ListInv, Placed
  <1>13. next'[x] = free_head /\ \A s \in Storage \ {x} : next'[s] = next[s]
    BY <1>1, <1>4, <1>5 DEF PoolType
  <1>14. FreeList(q, n)'
    <2>1. \A k \in 1..n : next'[q[k]] = next[q[k]]
      BY <1>10, <1>12, <1>13
    <2> QED BY <1>5, <1>10, <2>1 DEF ListInv, FreeList
  <1>15. Placed(q, n)'
    BY <1>5, <1>10, <1>11 DEF ListInv, Placed
  <1>16. CallsRight(q, n)'
    <2>1. ASSUME NEW u \in PoolThread, u # t, pool_call[u].op \in {"swing", "push"}
          PROVE  next'[pool_call[u].storage] = next[pool_call[u].storage]
      <3>1. pool_call[u].storage \in Storage
        BY <1>1, <2>1, CallFields
      <3>2. pool_call[u].storage # x
        <4>1. CASE pool_call[u].op = "push"
          <5>1. InCall(u, pool_call[u].storage)
            BY <4>1 DEF InCall
          <5> QED BY <1>12, <2>1, <5>1
        <4>2. CASE pool_call[u].op = "swing"
          BY <1>10, <1>12, <4>2 DEF ListInv, CallsRight
        <4> QED BY <2>1, <4>1, <4>2
      <3> QED BY <1>13, <3>1, <3>2
    <2> QED BY <1>3, <1>7, <1>10, <1>13, <2>1 DEF ListInv, CallsRight
  <1>17. ListInv(q, n)'
    BY <1>14, <1>15, <1>16 DEF ListInv
  <1> QED BY <1>6, <1>8, <1>17 DEF PoolInv

(* head_ is what the storage's next is: the storage becomes the head.            *)
LEMMA PushStorageSafe ==
  ASSUME ObjectPoolAssumption, PoolInv, NEW t \in PoolThread, PushStorage(t)
  PROVE  PoolInv'
PROOF
  <1>1. PoolType /\ WeakInv
    BY DEF PoolInv
  <1>2. PICK x : x = pool_call[t].storage
    OBVIOUS
  <1>3. pool_call[t].op = "push" /\ UNCHANGED <<storage_count_, next, generation, data, holder, weak, created>>
    BY DEF PushStorage, Doing
  <1>4. x \in Storage
    BY <1>1, <1>2, <1>3, CallFields
  <1>5. CASE Goes(t, [op |-> "link", storage |-> pool_call[t].storage]) /\ UNCHANGED free_head
    <2>1. PICK c : c = [op |-> "link", storage |-> x]
      OBVIOUS
    <2>2. c \in PoolCall /\ pool_call' = [pool_call EXCEPT ![t] = c] /\ UNCHANGED <<storages, holder, weak, created>>
      BY <1>2, <1>3, <1>4, <1>5, <2>1, CallTypes DEF Goes, storages
    <2>3. \A s \in Storage : (c.op \in {"init", "clear", "link", "push"} /\ c.storage = s) <=> InCall(t, s)
      BY <1>2, <1>3, <2>1 DEF InCall
    <2> QED BY <2>1, <2>2, <2>3, CallStep
  <1>6. CASE free_head = pool_call[t].save_head /\ free_head' = pool_call[t].storage /\ Goes(t, PoolIdle)
    <2>1. pool_call' = [pool_call EXCEPT ![t] = PoolIdle]
      BY <1>6 DEF Goes
    <2>2. \A u \in PoolThread : pool_call'[u] = IF u = t THEN PoolIdle ELSE pool_call[u]
      BY <1>1, <2>1 DEF PoolType
    <2>3. x \in 0..MaxStorages /\ x # 0
      BY <1>4, ObjectPoolAssumption DEF Storage
    <2>4. PoolType'
      BY <1>1, <1>2, <1>3, <1>6, <2>1, <2>3, CallTypes DEF PoolType
    <2>5. WeakInv'
      BY <1>1, <1>3, <2>1, CallTypes, WeakKept DEF PoolIdle
    <2>6. PICK n \in 0..MaxStorages : \E q \in [1..n -> Storage] : ListInv(q, n)
      BY DEF PoolInv
    <2>7. PICK q \in [1..n -> Storage] : ListInv(q, n)
      BY <2>6
    <2>8. InCall(t, x) /\ next[x] = free_head
      BY <1>2, <1>3, <1>6, <2>7 DEF InCall, ListInv, CallsRight
    <2>9. /\ x <= storage_count_ /\ holder[x] = "list" /\ (\A k \in 1..n : q[k] # x)
          /\ \A u \in PoolThread : InCall(u, x) => u = t
      BY <1>4, <2>7, <2>8 DEF ListInv, Placed
    <2>10. PICK m : m = n + 1
      OBVIOUS
    <2>11. /\ m \in Nat /\ n \in Nat /\ m # 0 /\ m \in 1..m /\ m \notin 1..n /\ 1..n \subseteq 1..m
           /\ \A k \in 1..m : k \in 1..n \/ k = m
           /\ \A k \in 1..n : k = 1 \/ k - 1 \in 1..n
           /\ m - 1 = n /\ (m = 1 <=> n = 0) /\ (n # 0 => n \in 1..n)
      BY <2>10, ObjectPoolAssumption
    <2>12. PICK p : p = [k \in 1..m |-> IF k = m THEN x ELSE q[k]]
      OBVIOUS
    <2>13. p \in [1..m -> Storage] /\ p[m] = x /\ \A k \in 1..n : p[k] = q[k]
      BY <1>4, <2>11, <2>12
    <2>14. free_head' = x
      BY <1>2, <1>6
    <2>15. FreeList(p, m)'
      <3>1. \A j, k \in 1..m : p[j] = p[k] => j = k
        BY <2>7, <2>9, <2>11, <2>13 DEF ListInv, FreeList
      <3>2. ASSUME NEW k \in 1..n PROVE next'[p[k]] = IF k = 1 THEN 0 ELSE p[k - 1]
        BY <1>3, <2>7, <2>11, <2>13 DEF ListInv, FreeList
      <3>3. next'[p[m]] = IF m = 1 THEN 0 ELSE p[m - 1]
        BY <1>3, <2>7, <2>8, <2>11, <2>13 DEF ListInv, FreeList
      <3> QED BY <2>11, <2>13, <2>14, <3>1, <3>2, <3>3 DEF FreeList
    <2>16. m \in 0..MaxStorages
      <3>1. m <= MaxStorages
        <4>1. SUFFICES ASSUME ~(m <= MaxStorages) PROVE FALSE
          OBVIOUS
        <4>2. IsFiniteSet(1..m) /\ Cardinality(1..m) = m /\ IsFiniteSet(Storage) /\ Cardinality(Storage) = MaxStorages
          BY <2>11, ObjectPoolAssumption, FS_Interval DEF Storage
        <4>3. Cardinality(Storage) < Cardinality(1..m)
          BY <2>11, <4>1, <4>2, ObjectPoolAssumption
        <4>4. \E j, k \in 1..m : j # k /\ p[j] = p[k]
          <5>1. PICK S, T : S = 1..m /\ T = Storage
            OBVIOUS
          <5>2. p \in [S -> T] /\ IsFiniteSet(S) /\ IsFiniteSet(T) /\ Cardinality(T) < Cardinality(S)
            BY <2>13, <4>2, <4>3, <5>1
          <5>3. \E j, k \in S : j # k /\ p[j] = p[k]
            BY <5>2, FS_PigeonHole
          <5> QED BY <5>1, <5>3
        <4>5. \A j, k \in 1..m : p[j] = p[k] => j = k
          BY <2>7, <2>9, <2>11, <2>13 DEF ListInv, FreeList
        <4> QED BY <4>4, <4>5
      <3> QED BY <2>11, <3>1, ObjectPoolAssumption
    <2>17. \A u \in PoolThread : \A s \in Storage : InCall(u, s)' <=> InCall(u, s) /\ s # x
      <3>1. \A s \in Storage : InCall(t, s) => s = x
        BY <1>2 DEF InCall
      <3>2. \A s \in Storage : ~InCall(t, s)'
        BY <2>2 DEF InCall, PoolIdle
      <3>3. \A u \in PoolThread \ {t} : \A s \in Storage : InCall(u, s)' <=> InCall(u, s)
        BY <2>2 DEF InCall
      <3> QED BY <2>9, <3>1, <3>2, <3>3
    <2>18. Placed(p, m)'
      <3>1. ASSUME NEW u \in PoolThread, NEW s \in Storage, InCall(u, s)'
            PROVE  /\ s <= storage_count_ /\ holder[s] = "list" /\ \A k \in 1..m : p[k] # s
                   /\ \A v \in PoolThread : InCall(v, s)' => v = u
        <4>1. InCall(u, s) /\ s # x
          BY <2>17, <3>1
        <4>2. /\ s <= storage_count_ /\ holder[s] = "list" /\ (\A k \in 1..n : q[k] # s)
              /\ \A v \in PoolThread : InCall(v, s) => v = u
          BY <2>7, <4>1 DEF ListInv, Placed
        <4>3. \A k \in 1..m : p[k] # s
          BY <2>11, <2>13, <4>1, <4>2
        <4>4. \A v \in PoolThread : InCall(v, s)' => v = u
          BY <2>17, <4>2
        <4> QED BY <4>2, <4>3, <4>4
      <3>2. /\ \A k \in 1..m : p[k] <= storage_count_ /\ holder[p[k]] = "list"
            /\ \A s \in Storage : holder[s] \in PoolThread => s <= storage_count_
        BY <2>7, <2>9, <2>11, <2>13 DEF ListInv, Placed
      <3>3. ASSUME NEW s \in Storage, s <= storage_count_
            PROVE  \/ holder[s] \in PoolThread
                   \/ \E u \in PoolThread : InCall(u, s)'
                   \/ \E k \in 1..m : p[k] = s
        <4>1. CASE s = x
          BY <2>11, <2>13, <4>1
        <4>2. CASE \E k \in 1..n : q[k] = s
          BY <2>11, <2>13, <4>2
        <4> QED BY <2>7, <2>17, <3>3, <4>1, <4>2 DEF ListInv, Placed
      <3> QED BY <1>3, <3>1, <3>2, <3>3 DEF Placed
    <2>19. CallsRight(p, m)'
      <3>1. ASSUME NEW u \in PoolThread, pool_call[u].op = "swing" PROVE \E k \in 1..m : p[k] = pool_call[u].storage
        BY <2>7, <2>11, <2>13, <3>1 DEF ListInv, CallsRight
      <3> QED BY <1>3, <2>2, <2>7, <3>1 DEF ListInv, CallsRight, PoolIdle
    <2>20. ListInv(p, m)'
      BY <2>15, <2>18, <2>19 DEF ListInv
    <2> QED BY <2>4, <2>5, <2>13, <2>16, <2>20 DEF PoolInv
  <1> QED BY <1>5, <1>6 DEF PushStorage

LEMMA WeakSafe ==
  ASSUME ObjectPoolAssumption, PoolInv, NEW t \in PoolThread,
         (\E w \in weak : ReadWeak(t, w)) \/ CheckWeak(t) \/ Used(t)
  PROVE  PoolInv'
PROOF
  <1>1. PoolType /\ WeakInv
    BY DEF PoolInv
  <1>2. pool_call[t].op \in {"none", "check", "read"} /\ UNCHANGED <<storages, holder, weak, created>>
    BY DEF ReadWeak, CheckWeak, Used, Doing
  <1>3. \A s \in Storage : ~InCall(t, s)
    BY <1>2 DEF InCall
  <1>4. CASE pool_call' = [pool_call EXCEPT ![t] = PoolIdle]
    BY <1>2, <1>3, <1>4, CallTypes, CallStep DEF PoolIdle
  <1>5. ASSUME NEW w \in weak, ReadWeak(t, w) PROVE PoolInv'
    <2>1. PICK c : c = [op |-> "check", weak |-> w, got |-> data[w.storage]]
      OBVIOUS
    <2>2. w \in WeakPtr /\ data[w.storage] \in Nat
      BY <1>1 DEF PoolType, WeakPtr
    <2>3. c \in PoolCall /\ pool_call' = [pool_call EXCEPT ![t] = c]
      BY <1>5, <2>1, <2>2, CallTypes DEF ReadWeak, Goes
    <2>4. c.op = "check" /\ c.weak = w /\ c.got = data[w.storage]
      BY <2>1
    <2>5. IsAlive(w) => data[w.storage] = w.object
      BY <1>1 DEF WeakInv, IsAlive
    <2> QED BY <1>2, <1>3, <2>3, <2>4, <2>5, CallStep
  <1>6. CASE CheckWeak(t) /\ IsAlive(pool_call[t].weak)
    <2>1. PICK c : c = [op |-> "read", weak |-> pool_call[t].weak, got |-> pool_call[t].got]
      OBVIOUS
    <2>2. pool_call[t].op = "check" /\ pool_call[t].weak \in weak /\ pool_call[t].got = pool_call[t].weak.object
      BY <1>1, <1>6 DEF CheckWeak, Doing, WeakInv
    <2>3. c \in PoolCall
      <3>1. pool_call[t].weak \in WeakPtr /\ pool_call[t].got \in Nat
        BY <1>1, <2>2, CallFields
      <3> QED BY <2>1, <3>1, CallTypes
    <2>4. pool_call' = [pool_call EXCEPT ![t] = c]
      <3>1. [pool_call[t] EXCEPT !.op = "read"] = c
        BY <1>1, <2>1, <2>2, CallFields
      <3> QED BY <1>6, <3>1 DEF CheckWeak, Goes
    <2>5. c.op = "read" /\ c.weak \in weak /\ c.got = c.weak.object
      BY <2>1, <2>2
    <2> QED BY <1>2, <1>3, <2>3, <2>4, <2>5, CallStep
  <1> QED BY <1>4, <1>5, <1>6 DEF CheckWeak, Used, Goes

LEMMA InitPool ==
  ASSUME ObjectPoolAssumption, ObjectPoolInit
  PROVE  PoolInv
PROOF
  <1>1. PoolType
    <2>1. PoolIdle \in PoolCall
      BY CallTypes
    <2> QED BY <2>1, ObjectPoolAssumption DEF ObjectPoolInit, PoolType
  <1>2. WeakInv
    BY DEF ObjectPoolInit, WeakInv, PoolIdle
  <1>3. PICK q : q = [k \in 1..0 |-> 0]
    OBVIOUS
  <1>4. 1..0 = {} /\ q \in [1..0 -> Storage] /\ 0 \in 0..MaxStorages
    BY <1>3, ObjectPoolAssumption
  <1>5. \A t \in PoolThread : pool_call[t].op = "none"
    BY DEF ObjectPoolInit, PoolIdle
  <1>6. FreeList(q, 0)
    BY <1>4 DEF ObjectPoolInit, FreeList
  <1>7. Placed(q, 0)
    <2>1. \A s \in Storage : ~(s <= storage_count_) /\ holder[s] = "list"
      BY ObjectPoolAssumption DEF ObjectPoolInit, Storage
    <2> QED BY <1>4, <1>5, <2>1, ObjectPoolAssumption DEF Placed, InCall
  <1>8. CallsRight(q, 0)
    BY <1>5 DEF CallsRight
  <1> QED BY <1>1, <1>2, <1>4, <1>6, <1>7, <1>8 DEF PoolInv, ListInv

LEMMA NextPool ==
  ASSUME ObjectPoolAssumption, PoolInv, [ObjectPoolNext]_poolVars
  PROVE  PoolInv'
PROOF
  <1>1. CASE UNCHANGED poolVars
    <2>1. UNCHANGED <<storage_count_, free_head, next, generation, data, holder, weak, pool_call, created>>
      BY <1>1 DEF poolVars, storages
    <2>2. PoolType'
      BY <2>1 DEF PoolInv, PoolType
    <2>3. WeakInv'
      BY <2>1 DEF PoolInv, WeakInv, IsAlive
    <2>4. PICK n \in 0..MaxStorages : \E q \in [1..n -> Storage] : ListInv(q, n)
      BY DEF PoolInv
    <2>5. PICK q \in [1..n -> Storage] : ListInv(q, n)
      BY <2>4
    <2>6. \A u \in PoolThread : \A s \in Storage : InCall(u, s)' <=> InCall(u, s)
      BY <2>1 DEF InCall
    <2>7. FreeList(q, n)' /\ CallsRight(q, n)'
      BY <2>1, <2>5 DEF ListInv, FreeList, CallsRight
    <2>8. Placed(q, n)'
      BY <2>1, <2>5, <2>6 DEF ListInv, Placed
    <2> QED BY <2>2, <2>3, <2>7, <2>8 DEF PoolInv, ListInv
  <1>2. ASSUME NEW t \in PoolThread,
               \/ GetStorage(t) \/ LoadHead(t) \/ SwingHead(t) \/ InitData(t)
               \/ \E s \in Storage : EndGeneration(t, s) \/ \E u \in PoolThread : MoveOwner(t, u, s)
               \/ ClearData(t) \/ LinkStorage(t) \/ PushStorage(t)
               \/ \E w \in weak : ReadWeak(t, w)
               \/ CheckWeak(t) \/ Used(t)
        PROVE  PoolInv'
    <2>1. CASE GetStorage(t)
      BY <2>1, ObjectPoolAssumption, GetStorageSafe
    <2>2. CASE LoadHead(t)
      BY <2>2, ObjectPoolAssumption, LoadHeadSafe
    <2>3. CASE SwingHead(t)
      BY <2>3, ObjectPoolAssumption, SwingHeadSafe
    <2>4. CASE InitData(t)
      BY <2>4, ObjectPoolAssumption, InitDataSafe
    <2>5. ASSUME NEW s \in Storage, EndGeneration(t, s) PROVE PoolInv'
      BY <2>5, ObjectPoolAssumption, EndGenerationSafe
    <2>6. ASSUME NEW s \in Storage, NEW u \in PoolThread, MoveOwner(t, u, s) PROVE PoolInv'
      BY <2>6, ObjectPoolAssumption, MoveOwnerSafe
    <2>7. CASE ClearData(t)
      BY <2>7, ObjectPoolAssumption, ClearDataSafe
    <2>8. CASE LinkStorage(t)
      BY <2>8, ObjectPoolAssumption, LinkStorageSafe
    <2>9. CASE PushStorage(t)
      BY <2>9, ObjectPoolAssumption, PushStorageSafe
    <2>10. CASE (\E w \in weak : ReadWeak(t, w)) \/ CheckWeak(t) \/ Used(t)
      BY <2>10, ObjectPoolAssumption, WeakSafe
    <2> QED BY <1>2, <2>1, <2>2, <2>3, <2>4, <2>5, <2>6, <2>7, <2>8, <2>9, <2>10
  <1> QED BY <1>1, <1>2 DEF ObjectPoolNext

(* Whoever follows next from head_ meets the storages of the list.              *)
LEMMA ListedIs ==
  ASSUME ObjectPoolAssumption, PoolType, NEW n \in 0..MaxStorages, NEW q \in [1..n -> Storage], FreeList(q, n)
  PROVE  Listed = {q[k] : k \in 1..n}
PROOF
  <1> DEFINE Def(h) == h = [i \in 0..MaxStorages |->
                              IF i = 0 THEN {free_head} \ {0}
                              ELSE h[i - 1] \union ({next[s] : s \in h[i - 1]} \ {0})]
  <1> DEFINE From(i) == {q[k] : k \in {j \in 1..n : j >= n - i}}
  <1>1. PICK a : a = CHOOSE h : Def(h)
    OBVIOUS
  <1>2. Listed = a[MaxStorages]
    BY <1>1 DEF Listed
  <1>3. PICK g : g = [i \in 0..MaxStorages |-> From(i)]
    OBVIOUS
  <1>4. MaxStorages \in Nat /\ n \in Nat /\ \A k \in 1..n : q[k] \in Storage /\ q[k] # 0
    BY ObjectPoolAssumption DEF Storage
  <1>5. From(0) = {free_head} \ {0}
    BY <1>4 DEF FreeList
  <1>6. ASSUME NEW i \in 0..MaxStorages, i # 0
        PROVE  From(i) = From(i - 1) \union ({next[s] : s \in From(i - 1)} \ {0})
    <2>1. \A k \in 1..n : next[q[k]] = IF k = 1 THEN 0 ELSE q[k - 1]
      BY DEF FreeList
    <2>2. ASSUME NEW k \in 1..n, k >= n - i
          PROVE  q[k] \in From(i - 1) \union ({next[s] : s \in From(i - 1)} \ {0})
      <3>1. CASE k >= n - (i - 1)
        BY <3>1
      <3>2. CASE ~(k >= n - (i - 1))
        <4>1. k + 1 \in 1..n /\ k + 1 >= n - (i - 1) /\ k + 1 # 1 /\ (k + 1) - 1 = k
          BY <1>4, <1>6, <2>2, <3>2
        <4>2. next[q[k + 1]] = q[k] /\ q[k + 1] \in From(i - 1)
          BY <2>1, <4>1
        <4> QED BY <1>4, <4>2
      <3> QED BY <3>1, <3>2
    <2>3. From(i - 1) \subseteq From(i)
      BY <1>4, <1>6
    <2>4. ASSUME NEW k \in 1..n, k >= n - (i - 1), next[q[k]] # 0 PROVE next[q[k]] \in From(i)
      <3>1. k # 1 /\ next[q[k]] = q[k - 1]
        BY <2>1, <2>4
      <3>2. k - 1 \in 1..n /\ k - 1 >= n - i
        BY <1>4, <1>6, <2>4, <3>1
      <3>3. q[k - 1] \in From(i)
        BY <3>2
      <3> QED BY <3>1, <3>3
    <2>5. From(i) \subseteq From(i - 1) \union ({next[s] : s \in From(i - 1)} \ {0})
      BY <2>2
    <2>6. {next[s] : s \in From(i - 1)} \ {0} \subseteq From(i)
      <3>1. SUFFICES ASSUME NEW s \in From(i - 1), next[s] # 0 PROVE next[s] \in From(i)
        OBVIOUS
      <3>2. PICK k \in 1..n : k >= n - (i - 1) /\ s = q[k]
        OBVIOUS
      <3> QED BY <2>4, <3>1, <3>2
    <2> QED BY <2>3, <2>5, <2>6
  <1>7. Def(g)
    <2>1. \A i \in 0..MaxStorages : g[i] = From(i)
      BY <1>3
    <2>2. \A i \in 0..MaxStorages : i # 0 => i - 1 \in 0..MaxStorages
      BY <1>4
    <2>3. \A i \in 0..MaxStorages :
            From(i) = IF i = 0 THEN {free_head} \ {0} ELSE g[i - 1] \union ({next[s] : s \in g[i - 1]} \ {0})
      BY <1>5, <1>6, <2>1, <2>2
    <2> HIDE DEF From
    <2> QED BY <1>3, <2>3
  <1>8. Def(a)
    BY <1>1, <1>7
  <1>9. \A i \in 0..MaxStorages : a[i] = g[i]
    <2>1. PICK T : T = {i \in 0..MaxStorages : a[i] # g[i]}
      OBVIOUS
    <2>2. SUFFICES ASSUME T # {} PROVE FALSE
      BY <2>1
    <2>3. T \in SUBSET Nat
      BY <1>4, <2>1
    <2>4. PICK i \in T : \A m \in T : i <= m
      BY <2>2, <2>3, LeastOf
    <2>5. i \in 0..MaxStorages /\ a[i] # g[i]
      BY <2>1, <2>4
    <2>6. i # 0
      BY <1>7, <1>8, <2>5
    <2>7. i - 1 \in 0..MaxStorages /\ ~(i <= i - 1)
      BY <1>4, <2>5, <2>6
    <2>8. a[i - 1] = g[i - 1]
      BY <2>1, <2>4, <2>7
    <2> QED BY <1>7, <1>8, <2>5, <2>6, <2>8
  <1>10. g[MaxStorages] = {q[k] : k \in 1..n}
    <2>1. {j \in 1..n : j >= n - MaxStorages} = 1..n
      BY <1>4
    <2>2. g[MaxStorages] = From(MaxStorages)
      BY <1>3, <1>4
    <2> QED BY <2>1, <2>2
  <1> QED BY <1>2, <1>4, <1>9, <1>10

LEMMA OnePlace ==
  ASSUME ObjectPoolAssumption, PoolInv
  PROVE  StorageInOnePlace
PROOF
  <1>1. PoolType
    BY DEF PoolInv
  <1>2. PICK n \in 0..MaxStorages : \E q \in [1..n -> Storage] : ListInv(q, n)
    BY DEF PoolInv
  <1>3. PICK q \in [1..n -> Storage] : ListInv(q, n)
    BY <1>2
  <1>4. Listed = {q[k] : k \in 1..n}
    BY <1>1, <1>3, ListedIs DEF ListInv
  <1>5. SUFFICES ASSUME NEW s \in 1..storage_count_
                 PROVE  (IF holder[s] \in PoolThread THEN 1 ELSE 0)
                          + Cardinality({t \in PoolThread : InCall(t, s)})
                          + (IF s \in Listed THEN 1 ELSE 0) = 1
    BY Zenon DEF StorageInOnePlace
  <1>6. s \in Storage /\ s <= storage_count_
    BY <1>1, ObjectPoolAssumption DEF PoolType, Storage
  <1>7. PICK C : C = {t \in PoolThread : InCall(t, s)}
    OBVIOUS
  <1>8. "list" \notin PoolThread
    BY ObjectPoolAssumption
  <1>9. s \in Listed <=> \E k \in 1..n : q[k] = s
    BY <1>4
  <1>10. CASE \E t \in PoolThread : InCall(t, s)
    <2>1. PICK t \in PoolThread : InCall(t, s)
      BY <1>10
    <2>2. holder[s] = "list" /\ (\A k \in 1..n : q[k] # s) /\ \A u \in PoolThread : InCall(u, s) => u = t
      BY <1>3, <1>6, <2>1 DEF ListInv, Placed
    <2>3. C = {t}
      BY <1>7, <2>1, <2>2
    <2>4. Cardinality(C) = 1
      BY <2>3, FS_Singleton
    <2>5. s \notin Listed /\ holder[s] \notin PoolThread
      BY <1>8, <1>9, <2>2
    <2> QED BY <1>7, <2>4, <2>5
  <1>11. CASE ~\E t \in PoolThread : InCall(t, s)
    <2>1. C = {}
      BY <1>7, <1>11
    <2>2. Cardinality(C) = 0
      BY <2>1, FS_EmptySet
    <2>3. holder[s] \in PoolThread <=> s \notin Listed
      <3>1. \A k \in 1..n : holder[q[k]] = "list"
        BY <1>3 DEF ListInv, Placed
      <3>2. holder[s] \in PoolThread \/ \E k \in 1..n : q[k] = s
        BY <1>3, <1>6, <1>11 DEF ListInv, Placed
      <3> QED BY <1>8, <1>9, <3>1, <3>2
    <2> QED BY <1>7, <2>2, <2>3
  <1> QED BY <1>10, <1>11

LEMMA PoolInvariant == ObjectPoolSpec => []PoolInv
PROOF
  <1>1. ObjectPoolInit => PoolInv
    BY ObjectPoolAssumption, InitPool
  <1>2. PoolInv /\ [ObjectPoolNext]_poolVars => PoolInv'
    BY ObjectPoolAssumption, NextPool
  <1> QED BY <1>1, <1>2, PTL DEF ObjectPoolSpec

(* Every storage that get_storage made has an owner, or is in the hands of one *)
(* create or release, or is in the list, and never two of these: with one       *)
(* creator, the list has no ABA problem and loses no storage, whatever the       *)
(* other threads release in the meantime.                                       *)
THEOREM StoragesInOnePlace == ObjectPoolSpec => []StorageInOnePlace
PROOF
  <1>1. PoolInv => StorageInOnePlace
    BY ObjectPoolAssumption, OnePlace
  <1> QED BY <1>1, PoolInvariant, PTL

(* A read through a WeakPtr that is_alive then confirms returned the object the  *)
(* WeakPtr was made for, however often the storage was released and taken again. *)
THEOREM AliveReadsValid == ObjectPoolSpec => []AliveReadsAreValid
PROOF
  <1>1. PoolInv => AliveReadsAreValid
    BY DEF PoolInv, WeakInv, AliveReadsAreValid, Doing
  <1> QED BY <1>1, PoolInvariant, PTL

-----------------------------------------------------------------------------
(* OrderedEventsProcessor, for any first number and number of events           *)
-----------------------------------------------------------------------------
Datum == [data : Nat, flag : BOOLEAN]

OrderedType ==
  /\ offset_ \in Nat /\ begin_ \in Nat /\ end_ \in Nat
  /\ data_array_ \in Seq(Datum)
  /\ DOMAIN added \subseteq SeqNo /\ \A n \in DOMAIN added : added[n] \in Nat

(* Array a, which starts at number off, has the data of the numbers added from  *)
(* b on, and only those waiting.                                             *)
ArrayRight(a, off, b, e, ad) ==
  /\ \A i \in 1..Len(a) : a[i].flag <=> off + i - 1 \in DOMAIN ad /\ off + i - 1 >= b
  /\ \A m \in DOMAIN ad : m >= b =>
       m < e /\ m - off + 1 \in 1..Len(a) /\ a[m - off + 1].data = ad[m]

HandledTo(b, ad) ==
  [i \in 1..(b - FirstSeqNo) |-> [n |-> FirstSeqNo + i - 1, data |-> ad[FirstSeqNo + i - 1]]]

OrderedInv ==
  /\ OrderedType
  /\ FirstSeqNo <= offset_ /\ offset_ <= begin_ /\ begin_ <= end_
  /\ ArrayRight(data_array_, offset_, begin_, end_, added)
  /\ FirstSeqNo..(begin_ - 1) \subseteq DOMAIN added /\ begin_ \notin DOMAIN added
  /\ end_ = begin_ \/ end_ - 1 \in DOMAIN added
  /\ handled = HandledTo(begin_, added)

(* The function run in Stop: the first number from i on that does not wait.      *)
LEMMA StopIs ==
  ASSUME NEW n \in Nat, NEW e \in Nat, \A i \in Nat : i >= e => ~Waits(i)
  PROVE  /\ Stop(n) \in Nat /\ Stop(n) >= n /\ ~Waits(Stop(n))
         /\ \A i \in Nat : n <= i /\ i < Stop(n) => Waits(i)
PROOF
  <1> DEFINE Def(h) == h = [i \in Nat |-> IF Waits(i) THEN h[i + 1] ELSE i]
             First(i, j) == /\ j \in Nat /\ i <= j /\ ~Waits(j)
                            /\ \A k \in Nat : i <= k /\ k < j => Waits(k)
  <1>1. PICK run : run = CHOOSE h : Def(h)
    OBVIOUS
  <1>2. Stop(n) = run[n]
    BY <1>1 DEF Stop
  <1>3. ASSUME NEW i \in Nat PROVE \E j \in Nat : First(i, j)
    <2> DEFINE T == {j \in Nat : i <= j /\ ~Waits(j)}
    <2>1. (i + e) \in T
      OBVIOUS
    <2>2. PICK j \in T : \A m \in T : j <= m
      BY <2>1, LeastOf
    <2>3. \A k \in Nat : i <= k /\ k < j => Waits(k)
      BY <2>2
    <2> QED BY <2>2, <2>3
  <1>4. ASSUME NEW i \in Nat, NEW j \in Nat, NEW k \in Nat, First(i, j), First(i, k) PROVE j = k
    BY <1>4
  <1>5. ASSUME NEW i \in Nat, NEW j \in Nat, Waits(i), First(i + 1, j) PROVE First(i, j)
    BY <1>5
  <1>6. ASSUME NEW i \in Nat, ~Waits(i) PROVE First(i, i)
    BY <1>6
  <1> HIDE DEF First
  <1>7. PICK g : g = [i \in Nat |-> CHOOSE j \in Nat : First(i, j)]
    OBVIOUS
  <1>8. \A i \in Nat : g[i] \in Nat /\ First(i, g[i])
    BY <1>3, <1>7
  <1>9. Def(g)
    <2>1. ASSUME NEW i \in Nat PROVE g[i] = IF Waits(i) THEN g[i + 1] ELSE i
      <3>1. CASE Waits(i)
        <4>1. g[i + 1] \in Nat /\ First(i, g[i + 1])
          BY <1>5, <1>8, <3>1
        <4> QED BY <1>4, <1>8, <3>1, <4>1
      <3>2. CASE ~Waits(i)
        BY <1>4, <1>6, <1>8, <3>2
      <3> QED BY <3>1, <3>2
    <2>2. PICK w : w = [i \in Nat |-> IF Waits(i) THEN g[i + 1] ELSE i]
      OBVIOUS
    <2>3. \A i \in Nat : g[i] = w[i]
      BY <2>1, <2>2
    <2>4. g = w
      BY <1>7, <2>2, <2>3
    <2> QED BY <2>2, <2>4
  <1>10. Def(run)
    BY <1>1, <1>9
  <1>11. ASSUME NEW i \in Nat PROVE run[i] = IF Waits(i) THEN run[i + 1] ELSE i
    BY <1>10
  <1>12. PICK m \in Nat : First(n, m)
    BY <1>3
  <1>13. n <= m /\ ~Waits(m) /\ \A k \in Nat : n <= k /\ k < m => Waits(k)
    BY <1>12 DEF First
  <1> HIDE DEF Def
  <1>14. run[n] = m
    <2> SUFFICES ASSUME run[n] # m PROVE FALSE
      OBVIOUS
    <2> DEFINE T == {k \in 0..(m - n) : run[m - k] # m}
    <2>1. m - n \in T
      BY <1>13
    <2>2. T \in SUBSET Nat
      OBVIOUS
    <2>3. PICK k \in T : \A l \in T : k <= l
      BY <2>1, <2>2, LeastOf
    <2>4. k # 0
      BY <1>11, <1>13, <2>3
    <2>5. k - 1 \in 0..(m - n) /\ k - 1 \notin T
      BY <2>3, <2>4
    <2>6. run[m - (k - 1)] = m /\ m - (k - 1) = (m - k) + 1
      BY <2>5
    <2>7. m - k \in Nat /\ Waits(m - k)
      BY <1>13, <2>3, <2>4
    <2>8. run[m - k] = m
      BY <1>11, <2>6, <2>7
    <2> QED BY <2>3, <2>8
  <1> QED BY <1>2, <1>12, <1>13, <1>14

(* Three sequences one after the other, the one between of one element.         *)
LEMMA Joined ==
  ASSUME NEW R, NEW A \in Seq(R), NEW e \in R, NEW C \in Seq(R), NEW s \in Seq(R),
         Len(s) = Len(A) + 1 + Len(C),
         \A i \in 1..Len(s) :
           s[i] = IF i <= Len(A) THEN A[i] ELSE IF i = Len(A) + 1 THEN e ELSE C[i - Len(A) - 1]
  PROVE  (A \o <<e>>) \o C = s
PROOF
  <1>1. <<e>> \in Seq(R) /\ Len(<<e>>) = 1 /\ <<e>>[1] = e /\ Len(A) \in Nat /\ Len(C) \in Nat
    BY LenProperties
  <1>2. PICK B : B = A \o <<e>>
    OBVIOUS
  <1>3. /\ B \in Seq(R) /\ Len(B) = Len(A) + 1
        /\ \A i \in 1..(Len(A) + 1) : B[i] = IF i <= Len(A) THEN A[i] ELSE e
    BY <1>1, <1>2, ConcatProperties
  <1>4. PICK D : D = B \o C
    OBVIOUS
  <1>5. /\ D \in Seq(R) /\ Len(D) = Len(B) + Len(C)
        /\ \A i \in 1..(Len(B) + Len(C)) : D[i] = IF i <= Len(B) THEN B[i] ELSE C[i - Len(B)]
    BY <1>3, <1>4, ConcatProperties
  <1>6. PICK a \in Nat, c \in Nat : a = Len(A) /\ c = Len(C)
    BY <1>1
  <1>7. Len(B) = a + 1 /\ Len(D) = a + 1 + c /\ Len(s) = a + 1 + c
    BY <1>3, <1>5, <1>6
  <1>8. \A i \in 1..(a + 1 + c) : D[i] = s[i]
    <2>1. SUFFICES ASSUME NEW i \in 1..(a + 1 + c) PROVE D[i] = s[i]
      OBVIOUS
    <2>2. s[i] = IF i <= a THEN A[i] ELSE IF i = a + 1 THEN e ELSE C[i - a - 1]
      BY <1>6, <1>7
    <2>3. D[i] = IF i <= a + 1 THEN B[i] ELSE C[i - (a + 1)]
      BY <1>5, <1>6, <1>7
    <2>4. i \in 1..(a + 1) => B[i] = IF i <= a THEN A[i] ELSE e
      BY <1>3, <1>6
    <2>5. i - (a + 1) = i - a - 1
      OBVIOUS
    <2> QED BY <2>2, <2>3, <2>4, <2>5
  <1>9. D = s
    BY <1>5, <1>7, <1>8, SeqEqual
  <1> QED BY <1>2, <1>4, <1>9

(* From begin_ on, a number waits if it was added. *)
LEMMA WaitingAdded ==
  ASSUME OrderedInv
  PROVE  /\ \A i \in Nat : i > begin_ => (Waits(i) <=> i \in DOMAIN added)
         /\ \A i \in Nat : i >= end_ => ~Waits(i)
         /\ \A i \in Nat : begin_ < i /\ i < end_ => At(i) \in 1..Len(data_array_)
PROOF
  <1>1. /\ OrderedType /\ offset_ <= begin_ /\ begin_ <= end_
        /\ ArrayRight(data_array_, offset_, begin_, end_, added)
        /\ end_ = begin_ \/ end_ - 1 \in DOMAIN added
    BY DEF OrderedInv
  <1>2. /\ offset_ \in Nat /\ begin_ \in Nat /\ end_ \in Nat /\ Len(data_array_) \in Nat
        /\ DOMAIN added \subseteq Nat
    BY <1>1, OrderedEventsAssumption DEF OrderedType, SeqNo
  <1>3. ASSUME NEW i \in Nat, begin_ < i, i < end_ PROVE At(i) \in 1..Len(data_array_)
    <2>1. end_ - 1 \in DOMAIN added /\ end_ - 1 >= begin_
      BY <1>1, <1>2, <1>3
    <2>2. end_ - 1 - offset_ + 1 \in 1..Len(data_array_)
      BY <1>1, <2>1 DEF ArrayRight
    <2> QED BY <1>1, <1>2, <1>3, <2>2 DEF At
  <1>4. ASSUME NEW i \in Nat, i > begin_ PROVE Waits(i) <=> i \in DOMAIN added
    <2>1. CASE i < end_
      <3>1. At(i) \in 1..Len(data_array_) /\ offset_ + At(i) - 1 = i
        BY <1>2, <1>3, <1>4, <2>1 DEF At
      <3>2. data_array_[At(i)].flag <=> offset_ + At(i) - 1 \in DOMAIN added /\ offset_ + At(i) - 1 >= begin_
        BY <1>1, <3>1 DEF ArrayRight
      <3>3. data_array_[At(i)].flag <=> i \in DOMAIN added
        BY <1>2, <1>4, <3>1, <3>2
      <3> QED BY <2>1, <3>3 DEF Waits
    <2>2. CASE ~(i < end_)
      <3>1. ~Waits(i)
        BY <2>2 DEF Waits
      <3>2. i \notin DOMAIN added
        BY <1>1, <1>2, <1>4, <2>2 DEF ArrayRight
      <3> QED BY <3>1, <3>2
    <2> QED BY <2>1, <2>2
  <1>5. \A i \in Nat : i >= end_ => ~Waits(i)
    BY <1>2 DEF Waits
  <1> QED BY <1>3, <1>4, <1>5

LEMMA NextHandled ==
  ASSUME OrderedInv, NEW n \in SeqNo, n \notin DOMAIN added, NEW d \in Nat, AddNext(n, d),
         added' = [m \in DOMAIN added \union {n} |-> IF m = n THEN d ELSE added[m]]
  PROVE  OrderedInv'
PROOF
  <1>1. /\ OrderedType /\ FirstSeqNo <= offset_ /\ offset_ <= begin_ /\ begin_ <= end_
        /\ ArrayRight(data_array_, offset_, begin_, end_, added)
        /\ FirstSeqNo..(begin_ - 1) \subseteq DOMAIN added /\ begin_ \notin DOMAIN added
        /\ end_ = begin_ \/ end_ - 1 \in DOMAIN added
        /\ handled = HandledTo(begin_, added)
    BY DEF OrderedInv
  <1>2. /\ offset_ \in Nat /\ begin_ \in Nat /\ end_ \in Nat /\ FirstSeqNo \in Nat
        /\ DOMAIN added \subseteq Nat /\ Len(data_array_) \in Nat
        /\ data_array_ \in Seq(Datum) /\ n \in Nat /\ n = begin_
    BY <1>1, OrderedEventsAssumption DEF OrderedType, SeqNo, AddNext
  <1>3. PICK s : s = Stop(n + 1)
    OBVIOUS
  <1>4. /\ s \in Nat /\ s > n /\ ~Waits(s)
        /\ \A i \in Nat : n < i /\ i < s => Waits(i)
    <2>1. n + 1 \in Nat /\ \A i \in Nat : i >= end_ => ~Waits(i)
      BY <1>2, WaitingAdded
    <2>2. /\ Stop(n + 1) \in Nat /\ Stop(n + 1) >= n + 1 /\ ~Waits(Stop(n + 1))
          /\ \A i \in Nat : n + 1 <= i /\ i < Stop(n + 1) => Waits(i)
      BY <1>2, <2>1, StopIs
    <2> QED BY <1>2, <1>3, <2>2
  <1>5. /\ s \notin DOMAIN added
        /\ \A i \in Nat : n < i /\ i < s => i \in DOMAIN added /\ i < end_ /\ At(i) \in 1..Len(data_array_)
    <2>1. \A i \in Nat : n < i /\ i < s => i < end_
      BY <1>2, <1>4, WaitingAdded
    <2>2. \A i \in Nat : n < i => (Waits(i) <=> i \in DOMAIN added)
      BY <1>2, WaitingAdded
    <2>3. \A i \in Nat : n < i /\ i < end_ => At(i) \in 1..Len(data_array_)
      BY <1>2, WaitingAdded
    <2> QED BY <1>2, <1>4, <2>1, <2>2, <2>3
  <1>6. PICK array : array = [i \in DOMAIN data_array_ |->
                                IF i \in At(n + 1)..At(s - 1) THEN [data_array_[i] EXCEPT !.flag = FALSE]
                                ELSE data_array_[i]]
    OBVIOUS
  <1>7. PICK end : end = IF s > end_ THEN s ELSE end_
    OBVIOUS
  <1>8. PICK off : off = IF s = end THEN s ELSE offset_
    OBVIOUS
  <1>9. PICK cut : cut = Compacted(array, s, off)
    OBVIOUS
  <1>10. /\ handled' = (handled \o <<[n |-> n, data |-> d]>>)
                         \o [i \in 1..(s - n - 1) |->
                               [n |-> n + i, data |-> data_array_[At(n + i)].data]]
         /\ begin_' = s /\ end_' = end /\ data_array_' = cut.array /\ offset_' = cut.offset
    BY <1>3, <1>6, <1>7, <1>8, <1>9 DEF AddNext
  <1>11. end \in Nat /\ s <= end /\ end_ <= end /\ off \in Nat /\ offset_ <= off /\ off <= s
    BY <1>1, <1>2, <1>4, <1>7, <1>8
  <1>12. /\ DOMAIN added' = DOMAIN added \union {n} /\ added'[n] = d
         /\ \A m \in DOMAIN added : added'[m] = added[m]
    BY <1>2
  <1>13. s \notin DOMAIN added'
    BY <1>4, <1>5, <1>12
  <1>14. FirstSeqNo..(s - 1) \subseteq DOMAIN added'
    BY <1>1, <1>2, <1>4, <1>5, <1>12
  <1>15. end = s \/ end - 1 \in DOMAIN added'
    BY <1>1, <1>2, <1>4, <1>7, <1>12
  <1>16. /\ array \in Seq(Datum) /\ Len(array) = Len(data_array_)
         /\ \A i \in 1..Len(array) :
              /\ array[i].data = data_array_[i].data
              /\ array[i].flag <=> data_array_[i].flag /\ ~(i \in At(n + 1)..At(s - 1))
    <2>1. DOMAIN data_array_ = 1..Len(data_array_) /\ \A i \in 1..Len(data_array_) : data_array_[i] \in Datum
      BY <1>2, LenProperties, ElementOfSeq
    <2>2. \A i \in 1..Len(data_array_) : array[i] \in Datum
      BY <1>6, <2>1 DEF Datum
    <2>3. array \in [1..Len(data_array_) -> Datum]
      BY <1>6, <2>1, <2>2
    <2>4. array \in Seq(Datum)
      BY <1>2, <2>3
    <2>5. Len(array) = Len(data_array_)
      BY <1>2, <2>3, <2>4, LenProperties
    <2>6. \A i \in 1..Len(data_array_) :
              /\ array[i].data = data_array_[i].data
              /\ array[i].flag <=> data_array_[i].flag /\ ~(i \in At(n + 1)..At(s - 1))
      BY <1>6, <2>1 DEF Datum
    <2> QED BY <2>4, <2>5, <2>6
  <1>17. ArrayRight(array, offset_, s, end, added')
    <2>1. ASSUME NEW i \in 1..Len(array)
          PROVE  array[i].flag <=> offset_ + i - 1 \in DOMAIN added' /\ offset_ + i - 1 >= s
      <3>1. data_array_[i].flag <=> offset_ + i - 1 \in DOMAIN added /\ offset_ + i - 1 >= begin_
        BY <1>1, <1>16 DEF ArrayRight
      <3>2. i \in At(n + 1)..At(s - 1) <=> n < offset_ + i - 1 /\ offset_ + i - 1 < s
        BY <1>2, <1>4, <1>16 DEF At
      <3> QED BY <1>2, <1>4, <1>12, <1>16, <2>1, <3>1, <3>2
    <2>2. ASSUME NEW m \in DOMAIN added', m >= s
          PROVE  m < end /\ m - offset_ + 1 \in 1..Len(array) /\ array[m - offset_ + 1].data = added'[m]
      <3>1. m \in DOMAIN added /\ m \in Nat /\ added'[m] = added[m] /\ m >= begin_
        BY <1>2, <1>4, <1>12, <2>2
      <3>2. m < end_ /\ m - offset_ + 1 \in 1..Len(data_array_) /\ data_array_[m - offset_ + 1].data = added[m]
        BY <1>1, <3>1 DEF ArrayRight
      <3> QED BY <1>2, <1>11, <1>16, <3>1, <3>2
    <2> QED BY <2>1, <2>2 DEF ArrayRight
  <1>18. ArrayRight(array, off, s, end, added')
    <2>1. CASE s = end
      <3>0. \A m \in DOMAIN added' : m \in Nat /\ (m >= s => m < end)
        BY <1>2, <1>12, <1>17 DEF ArrayRight
      <3>1. \A m \in DOMAIN added' : m \in Nat /\ m < s
        BY <1>4, <2>1, <3>0
      <3>2. off = s
        BY <1>8, <2>1
      <3>3. \A i \in 1..Len(array) : ~array[i].flag
        BY <1>4, <1>17, <3>1 DEF ArrayRight
      <3>4. \A i \in 1..Len(array) : off + i - 1 \notin DOMAIN added'
        BY <1>2, <1>4, <1>12, <1>16, <3>1, <3>2
      <3>5. \A m \in DOMAIN added' : ~(m >= s)
        BY <1>2, <1>4, <1>12, <3>1
      <3> QED BY <3>3, <3>4, <3>5 DEF ArrayRight
    <2>2. CASE s # end
      BY <1>8, <1>17, <2>2
    <2> QED BY <2>1, <2>2
  <1>19. /\ cut.array \in Seq(Datum) /\ cut.offset \in Nat /\ off <= cut.offset /\ cut.offset <= s
         /\ ArrayRight(cut.array, cut.offset, s, end, added')
    <2>1. CASE ~LongPart(s - off, Len(array))
      <3>1. cut.array = array /\ cut.offset = off
        BY <1>9, <2>1 DEF Compacted
      <3> QED BY <1>11, <1>16, <1>18, <3>1
    <2>2. CASE LongPart(s - off, Len(array))
      <3>1. cut.array = SubSeq(array, s - off + 1, Len(array)) /\ cut.offset = s
        BY <1>9, <2>2 DEF Compacted
      <3>2. s - off \in Nat /\ Len(array) \in Nat
        BY <1>2, <1>4, <1>11, <1>16
      <3>3. \A i \in (s - off + 1)..Len(array) : array[i] \in Datum
        BY <1>16, <3>2, ElementOfSeq
      <3>4. /\ cut.array \in Seq(Datum)
            /\ Len(cut.array) = IF s - off + 1 <= Len(array) THEN Len(array) - (s - off + 1) + 1 ELSE 0
            /\ \A i \in 1..(Len(array) - (s - off + 1) + 1) : cut.array[i] = array[(s - off + 1) + i - 1]
        BY <3>1, <3>2, <3>3, SubSeqProperties
      <3>5. \A i \in 1..Len(cut.array) : s - off + i \in 1..Len(array) /\ cut.array[i] = array[s - off + i]
        <4>1. SUFFICES ASSUME NEW i \in 1..Len(cut.array)
                       PROVE  s - off + i \in 1..Len(array) /\ cut.array[i] = array[s - off + i]
          OBVIOUS
        <4>2. i \in 1..(Len(array) - (s - off + 1) + 1)
          BY <3>2, <3>4
        <4>3. (s - off + 1) + i - 1 = s - off + i
          BY <3>2, <4>2
        <4> QED BY <3>2, <3>4, <4>2, <4>3
      <3>6. \A i \in 1..Len(cut.array) :
              cut.array[i].flag <=> s + i - 1 \in DOMAIN added' /\ s + i - 1 >= s
        <4>1. SUFFICES ASSUME NEW i \in 1..Len(cut.array)
                       PROVE  cut.array[i].flag <=> s + i - 1 \in DOMAIN added' /\ s + i - 1 >= s
          OBVIOUS
        <4>2. off + (s - off + i) - 1 = s + i - 1
          BY <1>4, <1>11, <3>4
        <4>3. array[s - off + i].flag <=> off + (s - off + i) - 1 \in DOMAIN added'
                                            /\ off + (s - off + i) - 1 >= s
          BY <1>18, <3>5 DEF ArrayRight
        <4> QED BY <3>5, <4>2, <4>3
      <3>7. ASSUME NEW m \in DOMAIN added', m >= s
            PROVE  m < end /\ m - s + 1 \in 1..Len(cut.array) /\ cut.array[m - s + 1].data = added'[m]
        <4>1. m < end /\ m - off + 1 \in 1..Len(array) /\ array[m - off + 1].data = added'[m]
          BY <1>18, <3>7 DEF ArrayRight
        <4>2. m \in Nat
          BY <1>2, <1>12
        <4>3. s - off + (m - s + 1) = m - off + 1 /\ m - s + 1 \in Nat /\ m - s + 1 >= 1
          BY <1>4, <1>11, <3>7, <4>2
        <4>4. m - off + 1 <= Len(array)
          BY <1>11, <3>2, <4>1, <4>2
        <4>5. s - off + 1 <= Len(array) /\ m - s + 1 <= Len(array) - (s - off + 1) + 1
          BY <1>4, <1>11, <3>2, <3>7, <4>2, <4>4
        <4>6. Len(cut.array) = Len(array) - (s - off + 1) + 1
          BY <3>4, <4>5
        <4>7. m - s + 1 \in 1..Len(cut.array)
          BY <3>2, <4>3, <4>5, <4>6
        <4> QED BY <3>5, <4>1, <4>3, <4>7
      <3>8. ArrayRight(cut.array, s, s, end, added')
        BY <3>6, <3>7 DEF ArrayRight
      <3> QED BY <1>4, <1>11, <3>1, <3>4, <3>8
    <2> QED BY <2>1, <2>2
  <1>20. handled' = HandledTo(s, added')
    <2> DEFINE A == HandledTo(n, added)
               e == [n |-> n, data |-> d]
               C == [i \in 1..(s - n - 1) |-> [n |-> n + i, data |-> data_array_[At(n + i)].data]]
               R == [n : Nat, data : Nat]
               a == n - FirstSeqNo
               c == s - n - 1
    <2>1. a \in Nat /\ c \in Nat /\ a + 1 + c = s - FirstSeqNo
      BY <1>1, <1>2, <1>4
    <2>2. \A m \in DOMAIN added : added[m] \in Nat
      BY <1>1 DEF OrderedType
    <2>3. \A i \in 1..c : At(n + i) \in 1..Len(data_array_) /\ n + i \in DOMAIN added
                            /\ data_array_[At(n + i)].data = added[n + i]
      <3>1. SUFFICES ASSUME NEW i \in 1..c
                     PROVE  At(n + i) \in 1..Len(data_array_) /\ n + i \in DOMAIN added
                              /\ data_array_[At(n + i)].data = added[n + i]
        OBVIOUS
      <3>2. n + i \in Nat /\ n < n + i /\ n + i < s
        BY <1>2, <1>4, <2>1
      <3>3. At(n + i) \in 1..Len(data_array_) /\ n + i \in DOMAIN added
        BY <1>5, <3>2
      <3>4. data_array_[(n + i) - offset_ + 1].data = added[n + i]
        BY <1>1, <1>2, <3>2, <3>3 DEF ArrayRight
      <3> QED BY <3>3, <3>4 DEF At
    <2>4. \A i \in 1..a : FirstSeqNo + i - 1 \in DOMAIN added
      BY <1>1, <1>2
    <2>5. A \in [1..a -> R]
      BY <1>2, <2>2, <2>4 DEF HandledTo
    <2>6. e \in R
      BY <1>2
    <2>7. C \in [1..c -> R]
      BY <1>2, <2>2, <2>3
    <2>8. \A i \in 1..(s - FirstSeqNo) :
            HandledTo(s, added')[i] = IF i <= a THEN A[i] ELSE IF i = a + 1 THEN e ELSE C[i - a - 1]
      <3>1. SUFFICES ASSUME NEW i \in 1..(s - FirstSeqNo)
                     PROVE  HandledTo(s, added')[i]
                              = IF i <= a THEN A[i] ELSE IF i = a + 1 THEN e ELSE C[i - a - 1]
        OBVIOUS
      <3>2. HandledTo(s, added')[i] = [n |-> FirstSeqNo + i - 1, data |-> added'[FirstSeqNo + i - 1]]
        BY DEF HandledTo
      <3>3. CASE i <= a
        <4>1. i \in 1..a /\ FirstSeqNo + i - 1 \in DOMAIN added
          BY <1>2, <1>4, <2>4, <3>3
        <4>2. A[i] = [n |-> FirstSeqNo + i - 1, data |-> added[FirstSeqNo + i - 1]]
          BY <4>1 DEF HandledTo
        <4> QED BY <1>12, <3>2, <3>3, <4>1, <4>2
      <3>4. CASE i = a + 1
        <4>1. FirstSeqNo + i - 1 = n /\ ~(i <= a)
          BY <1>2, <2>1, <3>4
        <4> QED BY <1>12, <3>2, <3>4, <4>1
      <3>5. CASE i > a + 1
        <4>1. i - a - 1 \in 1..c /\ n + (i - a - 1) = FirstSeqNo + i - 1 /\ ~(i <= a) /\ i # a + 1
          BY <1>2, <1>4, <2>1, <3>5
        <4>2. C[i - a - 1] = [n |-> n + (i - a - 1), data |-> added[n + (i - a - 1)]]
          BY <2>3, <4>1
        <4> QED BY <1>12, <2>3, <3>2, <4>1, <4>2
      <3> QED BY <1>2, <1>4, <2>1, <3>3, <3>4, <3>5
    <2>9. HandledTo(s, added') \in [1..(s - FirstSeqNo) -> R]
      <3>1. \A i \in 1..(s - FirstSeqNo) : FirstSeqNo + i - 1 \in Nat /\ FirstSeqNo + i - 1 \in DOMAIN added'
        BY <1>2, <1>4, <1>14
      <3>2. \A m \in DOMAIN added' : added'[m] \in Nat
        BY <1>12, <2>2
      <3> QED BY <3>1, <3>2 DEF HandledTo
    <2>10. handled' = (A \o <<e>>) \o C
      BY <1>1, <1>2, <1>10
    <2> HIDE DEF A, e, C, R, a, c
    <2>11. (A \o <<e>>) \o C = HandledTo(s, added')
      <3>1. PICK h : h = HandledTo(s, added')
        OBVIOUS
      <3>2. A \in Seq(R) /\ C \in Seq(R) /\ h \in Seq(R)
        <4>1. A \in Seq(R)
          BY <2>1, <2>5
        <4>2. C \in Seq(R)
          BY <2>1, <2>7
        <4>3. s - FirstSeqNo \in Nat
          BY <1>1, <1>2, <1>4
        <4>5. h \in [1..(s - FirstSeqNo) -> R]
          BY <2>9, <3>1
        <4>4. h \in Seq(R)
          BY <4>3, <4>5
        <4> QED BY <4>1, <4>2, <4>4
      <3>3. Len(A) = a /\ Len(C) = c /\ Len(h) = a + 1 + c
        BY <2>1, <2>5, <2>7, <2>9, <3>1, <3>2, LenProperties
      <3>4. \A i \in 1..Len(h) :
              h[i] = IF i <= Len(A) THEN A[i] ELSE IF i = Len(A) + 1 THEN e ELSE C[i - Len(A) - 1]
        BY <2>1, <2>8, <3>1, <3>3
      <3>5. Len(h) = Len(A) + 1 + Len(C)
        BY <3>3
      <3>6. (A \o <<e>>) \o C = h
        BY <2>6, <3>2, <3>4, <3>5, Joined
      <3> QED BY <3>1, <3>6
    <2> QED BY <2>10, <2>11
  <1>21. OrderedType'
    <2>1. DOMAIN added' \subseteq SeqNo /\ \A m \in DOMAIN added' : added'[m] \in Nat
      BY <1>1, <1>12 DEF OrderedType
    <2> QED BY <1>4, <1>10, <1>11, <1>19, <2>1 DEF OrderedType, SeqNo
  <1>22. FirstSeqNo <= cut.offset
    BY <1>1, <1>2, <1>11, <1>19
  <1> QED BY <1>10, <1>11, <1>13, <1>14, <1>15, <1>19, <1>20, <1>21, <1>22 DEF OrderedInv

LEMMA NextWaiting ==
  ASSUME OrderedInv, NEW n \in SeqNo, n \notin DOMAIN added, NEW d \in Nat, AddLater(n, d),
         added' = [m \in DOMAIN added \union {n} |-> IF m = n THEN d ELSE added[m]]
  PROVE  OrderedInv'
PROOF
  <1>1. /\ OrderedType /\ FirstSeqNo <= offset_ /\ offset_ <= begin_ /\ begin_ <= end_
        /\ ArrayRight(data_array_, offset_, begin_, end_, added)
        /\ FirstSeqNo..(begin_ - 1) \subseteq DOMAIN added /\ begin_ \notin DOMAIN added
        /\ end_ = begin_ \/ end_ - 1 \in DOMAIN added
        /\ handled = HandledTo(begin_, added)
    BY DEF OrderedInv
  <1>2. /\ offset_ \in Nat /\ begin_ \in Nat /\ end_ \in Nat /\ FirstSeqNo \in Nat
        /\ DOMAIN added \subseteq Nat /\ Len(data_array_) \in Nat
        /\ data_array_ \in Seq(Datum) /\ n \in Nat /\ n > begin_
    BY <1>1, OrderedEventsAssumption DEF OrderedType, SeqNo, AddLater
  <1>3. PICK size : size = IF At(n) > Len(data_array_) THEN At(n) ELSE Len(data_array_)
    OBVIOUS
  <1>4. PICK array : array = [i \in 1..size |->
                                IF i = At(n) THEN [data |-> d, flag |-> TRUE]
                                ELSE IF i <= Len(data_array_) THEN data_array_[i] ELSE NoEvent]
    OBVIOUS
  <1>5. PICK end : end = IF end_ < n + 1 THEN n + 1 ELSE end_
    OBVIOUS
  <1>6. data_array_' = array /\ end_' = end /\ UNCHANGED <<offset_, begin_, handled>>
    BY <1>3, <1>4, <1>5 DEF AddLater
  <1>7. /\ DOMAIN added' = DOMAIN added \union {n} /\ added'[n] = d
        /\ \A m \in DOMAIN added : added'[m] = added[m]
    BY <1>2
  <1>8. /\ size \in Nat /\ At(n) \in 1..size /\ Len(data_array_) <= size /\ At(n) = n - offset_ + 1
        /\ end \in Nat /\ n < end /\ end_ <= end
    BY <1>1, <1>2, <1>3, <1>5 DEF At
  <1>9. \A i \in 1..Len(data_array_) : data_array_[i] \in Datum
    BY <1>2, ElementOfSeq
  <1>10. array \in [1..size -> Datum]
    BY <1>2, <1>4, <1>8, <1>9 DEF Datum, NoEvent
  <1>11. array \in Seq(Datum) /\ Len(array) = size
    <2>1. array \in Seq(Datum)
      BY <1>8, <1>10
    <2> QED BY <1>8, <1>10, <2>1, LenProperties
  <1>12. ArrayRight(array, offset_, begin_, end, added')
    <2>1. ASSUME NEW i \in 1..size
          PROVE  array[i].flag <=> offset_ + i - 1 \in DOMAIN added' /\ offset_ + i - 1 >= begin_
      <3>1. CASE i = At(n)
        <4>1. array[i].flag /\ offset_ + i - 1 = n
          BY <1>2, <1>4, <1>8, <3>1
        <4> QED BY <1>2, <1>7, <4>1
      <3>2. CASE i # At(n) /\ i <= Len(data_array_)
        <4>1. i \in 1..Len(data_array_) /\ array[i] = data_array_[i] /\ offset_ + i - 1 # n
          BY <1>2, <1>4, <1>8, <3>2
        <4> QED BY <1>1, <1>7, <4>1 DEF ArrayRight
      <3>3. CASE i # At(n) /\ ~(i <= Len(data_array_))
        <4>1. ~array[i].flag /\ offset_ + i - 1 # n
          BY <1>2, <1>4, <1>8, <3>3 DEF NoEvent
        <4>2. ASSUME offset_ + i - 1 \in DOMAIN added, offset_ + i - 1 >= begin_ PROVE FALSE
          <5>1. (offset_ + i - 1) - offset_ + 1 \in 1..Len(data_array_)
            BY <1>1, <4>2 DEF ArrayRight
          <5> QED BY <1>2, <1>8, <3>3, <5>1
        <4> QED BY <1>7, <4>1, <4>2
      <3> QED BY <3>1, <3>2, <3>3
    <2>2. ASSUME NEW m \in DOMAIN added', m >= begin_
          PROVE  m < end /\ m - offset_ + 1 \in 1..size /\ array[m - offset_ + 1].data = added'[m]
      <3>1. CASE m = n
        BY <1>4, <1>7, <1>8, <3>1
      <3>2. CASE m # n
        <4>1. m \in DOMAIN added /\ m \in Nat /\ added'[m] = added[m]
          BY <1>2, <1>7, <3>2
        <4>2. m < end_ /\ m - offset_ + 1 \in 1..Len(data_array_) /\ data_array_[m - offset_ + 1].data = added[m]
          BY <1>1, <2>2, <4>1 DEF ArrayRight
        <4>3. m - offset_ + 1 \in 1..size /\ m - offset_ + 1 # At(n) /\ m - offset_ + 1 <= Len(data_array_)
          BY <1>2, <1>8, <3>2, <4>1, <4>2
        <4>4. array[m - offset_ + 1] = data_array_[m - offset_ + 1]
          BY <1>4, <4>3
        <4> QED BY <1>2, <1>8, <4>1, <4>2, <4>3, <4>4
      <3> QED BY <3>1, <3>2
    <2> QED BY <1>11, <2>1, <2>2 DEF ArrayRight
  <1>13. FirstSeqNo..(begin_ - 1) \subseteq DOMAIN added' /\ begin_ \notin DOMAIN added'
    BY <1>1, <1>2, <1>7
  <1>14. end = begin_ \/ end - 1 \in DOMAIN added'
    <2>1. CASE end_ < n + 1
      BY <1>2, <1>5, <1>7, <2>1
    <2>2. CASE ~(end_ < n + 1)
      BY <1>1, <1>2, <1>5, <1>7, <2>2
    <2> QED BY <2>1, <2>2
  <1>15. handled = HandledTo(begin_, added')
    <2>1. \A i \in 1..(begin_ - FirstSeqNo) : FirstSeqNo + i - 1 \in DOMAIN added
      BY <1>1, <1>2
    <2> QED BY <1>1, <1>7, <2>1 DEF HandledTo
  <1>16. OrderedType'
    BY <1>1, <1>2, <1>6, <1>7, <1>8, <1>11 DEF OrderedType, SeqNo
  <1>17. begin_ <= end
    BY <1>1, <1>2, <1>8
  <1> QED BY <1>1, <1>6, <1>12, <1>13, <1>14, <1>15, <1>16, <1>17 DEF OrderedInv

LEMMA HandledLength ==
  ASSUME OrderedInv
  PROVE  Len(handled) + 1 \in Nat
PROOF
  <1>1. PICK R : R = {handled[i] : i \in 1..(begin_ - FirstSeqNo)}
    OBVIOUS
  <1>2. begin_ - FirstSeqNo \in Nat /\ handled = HandledTo(begin_, added)
    BY OrderedEventsAssumption DEF OrderedInv, OrderedType
  <1>4. handled \in [1..(begin_ - FirstSeqNo) -> R]
    BY <1>1, <1>2 DEF HandledTo
  <1>3. handled \in Seq(R)
    BY <1>2, <1>4
  <1> QED BY <1>3, LenProperties

LEMMA OrderedInvariant == OrderedEventsSpec => []OrderedInv
PROOF
  <1>1. OrderedEventsInit => OrderedInv
    <2> SUFFICES ASSUME OrderedEventsInit PROVE OrderedInv
      OBVIOUS
    <2> USE OrderedEventsAssumption DEF OrderedEventsInit
    <2>1. DOMAIN added = {} /\ data_array_ \in Seq(Datum) /\ Len(data_array_) = 0
      OBVIOUS
    <2>2. OrderedType
      BY <2>1 DEF OrderedType
    <2>3. ArrayRight(data_array_, offset_, begin_, end_, added)
      BY <2>1 DEF ArrayRight
    <2>4. 1..(begin_ - FirstSeqNo) = {} /\ FirstSeqNo..(begin_ - 1) = {}
      OBVIOUS
    <2>5. handled = HandledTo(begin_, added)
      <3>1. HandledTo(begin_, added) \in [1..0 -> {}] /\ handled \in [1..0 -> {}]
        BY <2>4 DEF HandledTo
      <3> QED BY <3>1
    <2> QED BY <2>1, <2>2, <2>3, <2>4, <2>5 DEF OrderedInv
  <1>2. OrderedInv /\ [OrderedEventsNext]_orderedVars => OrderedInv'
    <2> SUFFICES ASSUME OrderedInv, [OrderedEventsNext]_orderedVars PROVE OrderedInv'
      OBVIOUS
    <2>1. ASSUME NEW n \in SeqNo, AddEvent(n) PROVE OrderedInv'
      <3>1. PICK d : d = Len(handled) + 1
        OBVIOUS
      <3>2. d \in Nat
        BY <3>1, HandledLength
      <3>3. /\ n \notin DOMAIN added
            /\ AddNext(n, d) \/ AddLater(n, d)
            /\ added' = [m \in DOMAIN added \union {n} |-> IF m = n THEN d ELSE added[m]]
        BY <2>1, <3>1 DEF AddEvent
      <3> QED BY <3>2, <3>3, NextHandled, NextWaiting
    <2>2. CASE UNCHANGED orderedVars
      BY <2>2 DEF orderedVars, OrderedInv, OrderedType, ArrayRight, HandledTo
    <2> QED BY <2>1, <2>2 DEF OrderedEventsNext
  <1> QED BY <1>1, <1>2, PTL DEF OrderedEventsSpec

LEMMA OrderedHolds == OrderedInv => HandledInOrder
PROOF
  <1> SUFFICES ASSUME OrderedInv PROVE HandledInOrder
    OBVIOUS
  <1>1. /\ OrderedType /\ FirstSeqNo <= offset_ /\ offset_ <= begin_ /\ begin_ <= end_
        /\ ArrayRight(data_array_, offset_, begin_, end_, added)
        /\ begin_ \notin DOMAIN added
        /\ end_ = begin_ \/ end_ - 1 \in DOMAIN added
        /\ handled = HandledTo(begin_, added)
    BY DEF OrderedInv
  <1>2. /\ offset_ \in Nat /\ begin_ \in Nat /\ end_ \in Nat /\ FirstSeqNo \in Nat
        /\ DOMAIN added \subseteq Nat /\ SeqNo \subseteq Nat /\ Len(data_array_) \in Nat
    BY <1>1, OrderedEventsAssumption DEF OrderedType, SeqNo
  <1>3. ASSUME NEW n \in DOMAIN added PROVE n < begin_ \/ (Waits(n) /\ data_array_[At(n)].data = added[n])
    <2>1. CASE n > begin_
      <3>1. Waits(n)
        BY <1>2, <2>1, WaitingAdded
      <3> QED BY <1>1, <1>2, <2>1, <3>1 DEF ArrayRight, At
    <2> QED BY <1>1, <1>2, <2>1
  <1>4. ASSUME NEW n \in SeqNo, n >= begin_, n \notin DOMAIN added, At(n) <= Len(data_array_)
        PROVE  ~data_array_[At(n)].flag
    <2>1. At(n) \in 1..Len(data_array_) /\ offset_ + At(n) - 1 = n
      BY <1>1, <1>2, <1>4 DEF At
    <2> QED BY <1>1, <1>4, <2>1 DEF ArrayRight
  <1>5. \A n \in DOMAIN added : n \in Nat /\ n # begin_ /\ n < end_
    <2>1. \A n \in DOMAIN added : n >= begin_ => n < end_
      BY <1>1 DEF ArrayRight
    <2> QED BY <1>1, <1>2, <2>1
  <1>6. WaitingUpTo = IF \E n \in DOMAIN added : n > HandledUpTo
                        THEN CHOOSE n \in DOMAIN added : \A m \in DOMAIN added : m <= n
                        ELSE HandledUpTo
    <2>1. CASE end_ = begin_
      BY <1>2, <1>5, <2>1 DEF WaitingUpTo, HandledUpTo
    <2>2. CASE end_ # begin_
      <3>1. end_ - 1 \in DOMAIN added /\ end_ - 1 > begin_ - 1
        BY <1>1, <1>2, <2>2
      <3>2. \A m \in DOMAIN added : m <= end_ - 1
        BY <1>2, <1>5
      <3>3. PICK w : w = CHOOSE n \in DOMAIN added : \A m \in DOMAIN added : m <= n
        OBVIOUS
      <3>4. w \in DOMAIN added /\ \A m \in DOMAIN added : m <= w
        BY <3>1, <3>2, <3>3
      <3>5. w = end_ - 1
        BY <1>2, <3>1, <3>2, <3>4
      <3> QED BY <3>1, <3>3, <3>5 DEF WaitingUpTo, HandledUpTo
    <2> QED BY <2>1, <2>2
  <1>7. handled = [i \in 1..(begin_ - FirstSeqNo) |->
                     [n |-> FirstSeqNo + i - 1, data |-> added[FirstSeqNo + i - 1]]]
    BY <1>1 DEF HandledTo
  <1> QED BY <1>1, <1>3, <1>4, <1>6, <1>7 DEF HandledInOrder

(* OrderedEventsProcessor calls its function for every number up to the first   *)
(* gap, once, in order and with its data, in whatever order add is called, and  *)
(* the others wait with theirs, however try_compactify cuts the array.         *)
THEOREM EventsHandledInOrder == OrderedEventsSpec => []HandledInOrder
BY OrderedInvariant, OrderedHolds, PTL

-----------------------------------------------------------------------------
(* FloodControlStrict, for any limits, events and times                      *)
-----------------------------------------------------------------------------

LimitType == [duration_ : 0..MaxDuration, count_ : Nat \ {0}, pos_ : Nat]

FloodType ==
  /\ limits_ \in Seq(LimitType)
  /\ past \in Seq(Nat) /\ events_ \in Seq(Nat)
  /\ now \in Nat /\ wakeup_at_ \in Nat /\ without_update_ \in Nat

(* Times do not go back, and the events that are kept are the last ones. *)
InTime(p, t) ==
  /\ \A e \in DOMAIN p : p[e] <= t
  /\ \A e \in DOMAIN p : \A f \in DOMAIN p : e <= f => p[e] <= p[f]

LastEvents(ev, p) ==
  /\ Len(ev) <= Len(p)
  /\ \A e \in DOMAIN ev : ev[e] = p[Len(p) - Len(ev) + e]

(* When limit l has room for an event after those of p. *)
FitsAt(l, p) == IF l.count_ <= Len(p) THEN p[Len(p) - l.count_ + 1] + l.duration_ ELSE 0

(* An event that limit l has passed is too old, or has enough behind it.  While  *)
(* no update is needed, so many events more do not use l up.                     *)
Passed(l, k, p, t) == \A e \in 1..k : p[e] + l.duration_ < t \/ e + l.count_ <= Len(p)

LimitRight(l, p, ev, w, at, t) ==
  /\ l.pos_ <= Len(ev)
  /\ Passed(l, Len(p) - Len(ev) + l.pos_, p, t)
  /\ w > 0 => Len(ev) + w < l.count_ + l.pos_
  /\ FitsAt(l, p) <= at \/ FitsAt(l, p) <= t

StrictInv ==
  /\ FloodType
  /\ InTime(past, now)
  /\ LastEvents(events_, past)
  /\ \A i \in DOMAIN limits_ :
       LimitRight(limits_[i], past, events_, without_update_, wakeup_at_, now)
  /\ wakeup_at_ <= now \/ \E i \in DOMAIN limits_ : wakeup_at_ <= FitsAt(limits_[i], past)

LEMMA LeastIs ==
  ASSUME NEW T \in SUBSET Nat, T # {}
  PROVE  Least(T) \in T /\ \A m \in T : Least(T) <= m
PROOF BY LeastOf DEF Least

LEMMA MostIs ==
  ASSUME NEW T \in SUBSET Nat, T # {}, NEW b \in Nat, \A m \in T : m <= b
  PROVE  Most(T) \in T /\ \A m \in T : Most(T) >= m
PROOF
  <1> DEFINE B == {n \in Nat : \A m \in T : m <= n}
  <1>1. PICK n \in B : \A m \in B : n <= m
    <2>1. B \in SUBSET Nat /\ b \in B
      OBVIOUS
    <2> QED BY <2>1, LeastOf
  <1>2. n \in T
    <2> SUFFICES ASSUME n \notin T PROVE FALSE
      OBVIOUS
    <2>1. \A m \in T : m <= n - 1 /\ n - 1 \in Nat
      OBVIOUS
    <2>2. n - 1 \in B
      BY <2>1
    <2> QED BY <1>1, <2>2
  <1>3. \A m \in T : n >= m
    BY <1>1
  <1> QED BY <1>2, <1>3 DEF Most

(* The events in the duration before t are the last ones: they are as many as  *)
(* the limit, when the limit-th from the end is one of them.                    *)
LEMMA RoomIs ==
  ASSUME StrictInv, NEW l \in LimitType, NEW t \in Nat
  PROVE  Cardinality({e \in DOMAIN past : past[e] > t - l.duration_}) < l.count_
           <=> FitsAt(l, past) <= t
PROOF
  <1> DEFINE n == Len(past)
             c == l.count_
             E == {e \in DOMAIN past : past[e] > t - l.duration_}
  <1>1. /\ n \in Nat /\ c \in Nat \ {0} /\ DOMAIN past = 1..n /\ l.duration_ \in Nat
        /\ \A e \in 1..n : past[e] \in Nat
        /\ \A e \in 1..n : \A f \in 1..n : e <= f => past[e] <= past[f]
    <2>1. n \in Nat /\ c \in Nat \ {0} /\ DOMAIN past = 1..n /\ l.duration_ \in Nat
      BY DEF StrictInv, FloodType, LimitType
    <2>2. \A e \in 1..n : past[e] \in Nat
      BY DEF StrictInv, FloodType
    <2>3. \A e \in 1..n : \A f \in 1..n : e <= f => past[e] <= past[f]
      BY <2>1 DEF StrictInv, InTime
    <2> QED BY <2>1, <2>2, <2>3
  <1> HIDE DEF c
  <1>2. IsFiniteSet(1..n) /\ Cardinality(1..n) = n
    <2>1. 1 \in Int /\ n \in Int
      BY <1>1
    <2>2. IsFiniteSet(1..n) /\ Cardinality(1..n) = IF 1 > n THEN 0 ELSE n - 1 + 1
      BY <2>1, FS_Interval
    <2> QED BY <1>1, <2>2
  <1>3. E \subseteq 1..n
    BY <1>1
  <1>4. IsFiniteSet(E) /\ Cardinality(E) \in Nat /\ Cardinality(E) <= n
    BY <1>2, <1>3, FS_Subset, FS_CardinalityType
  <1>5. CASE ~(c <= n)
    BY <1>1, <1>4, <1>5 DEF FitsAt, c
  <1>6. CASE c <= n
    <2> DEFINE k == n - c + 1
    <2>1. k \in 1..n /\ FitsAt(l, past) = past[k] + l.duration_ /\ past[k] \in Nat
      BY <1>1, <1>6 DEF FitsAt, c
    <2>2. CASE past[k] + l.duration_ <= t
      <3>1. E \subseteq (k + 1)..n
        <4> SUFFICES ASSUME NEW e \in 1..n, past[e] > t - l.duration_ PROVE e > k
          BY <1>1
        <4>1. ~(e <= k)
          <5> SUFFICES ASSUME e <= k PROVE FALSE
            OBVIOUS
          <5>1. past[e] <= past[k] /\ past[e] \in Nat
            <6> HIDE DEF k
            <6> QED BY <1>1, <2>1
          <5> QED BY <1>1, <2>1, <2>2, <5>1
        <4> QED BY <2>1, <4>1
      <3>2. IsFiniteSet((k + 1)..n) /\ Cardinality((k + 1)..n) = c - 1
        <4>1. k + 1 \in Int /\ n \in Int
          BY <1>1, <2>1
        <4>2. IsFiniteSet((k + 1)..n)
              /\ Cardinality((k + 1)..n) = IF k + 1 > n THEN 0 ELSE n - (k + 1) + 1
          BY <4>1, FS_Interval
        <4> QED BY <1>1, <2>1, <4>2
      <3>3. Cardinality(E) <= c - 1
        <4> HIDE DEF E, k
        <4> QED BY <3>1, <3>2, FS_Subset
      <3>4. Cardinality(E) < c
        <4> HIDE DEF E, k
        <4> QED BY <1>1, <1>4, <3>3
      <3> QED BY <2>1, <2>2, <3>4 DEF c
    <2>3. CASE ~(past[k] + l.duration_ <= t)
      <3>1. k..n \subseteq E
        <4> SUFFICES ASSUME NEW e \in k..n PROVE e \in DOMAIN past /\ past[e] > t - l.duration_
          OBVIOUS
        <4>1. e \in 1..n /\ past[k] <= past[e]
          BY <1>1, <2>1
        <4> QED BY <1>1, <2>1, <2>3, <4>1
      <3>2. Cardinality(k..n) = c
        <4>1. k \in Int /\ n \in Int /\ ~(k > n)
          BY <1>1, <2>1
        <4>2. Cardinality(k..n) = n - k + 1
          BY <4>1, FS_Interval
        <4> QED BY <1>1, <4>2
      <3>3. c <= Cardinality(E)
        <4> HIDE DEF E, k
        <4> QED BY <1>4, <3>1, <3>2, FS_Subset
      <3>4. ~(Cardinality(E) < c)
        <4> HIDE DEF E, k
        <4> QED BY <1>1, <1>4, <3>3
      <3> QED BY <2>1, <2>3, <3>4 DEF c
    <2> QED BY <2>2, <2>3
  <1> QED BY <1>5, <1>6

LEMMA StrictInvAgrees == StrictInv => WakeupIsRight
PROOF
  <1> SUFFICES ASSUME StrictInv, NEW t \in now..(MaxFloodTime + 3)
               PROVE  t >= wakeup_at_ <=> Fits(t)
    BY DEF WakeupIsRight
  <1>1. t \in Nat /\ now <= t /\ now \in Nat /\ wakeup_at_ \in Nat
    BY FloodAssumption DEF StrictInv, FloodType
  <1>2. ASSUME NEW i \in DOMAIN limits_
        PROVE  /\ limits_[i] \in LimitType /\ FitsAt(limits_[i], past) \in Nat
               /\ Cardinality({e \in DOMAIN past : past[e] > t - limits_[i].duration_}) < limits_[i].count_
                    <=> FitsAt(limits_[i], past) <= t
    <2>1. limits_[i] \in LimitType
      BY DEF StrictInv, FloodType
    <2>2. FitsAt(limits_[i], past) \in Nat
      <3>1. /\ limits_[i].count_ \in Nat \ {0} /\ limits_[i].duration_ \in Nat
        BY <2>1 DEF LimitType
      <3>2. Len(past) \in Nat /\ \A e \in 1..Len(past) : past[e] \in Nat
        BY DEF StrictInv, FloodType
      <3> QED BY <3>1, <3>2 DEF FitsAt
    <2> QED BY <1>1, <2>1, <2>2, RoomIs
  <1>3. Fits(t) <=> \A i \in DOMAIN limits_ : FitsAt(limits_[i], past) <= t
    BY <1>2 DEF Fits
  <1>4. ASSUME NEW i \in DOMAIN limits_
        PROVE  FitsAt(limits_[i], past) <= wakeup_at_ \/ FitsAt(limits_[i], past) <= now
    BY DEF StrictInv, LimitRight
  <1>5. t >= wakeup_at_ => \A i \in DOMAIN limits_ : FitsAt(limits_[i], past) <= t
    <2> SUFFICES ASSUME t >= wakeup_at_, NEW i \in DOMAIN limits_ PROVE FitsAt(limits_[i], past) <= t
      OBVIOUS
    <2> DEFINE f == FitsAt(limits_[i], past)
    <2>1. f \in Nat /\ (f <= wakeup_at_ \/ f <= now)
      BY <1>2, <1>4
    <2> HIDE DEF f
    <2>2. f <= t
      BY <1>1, <2>1
    <2> QED BY <2>2 DEF f
  <1>6. (\A i \in DOMAIN limits_ : FitsAt(limits_[i], past) <= t) => t >= wakeup_at_
    <2> SUFFICES ASSUME \A i \in DOMAIN limits_ : FitsAt(limits_[i], past) <= t PROVE t >= wakeup_at_
      OBVIOUS
    <2>1. CASE wakeup_at_ <= now
      BY <1>1, <2>1
    <2>2. CASE \E i \in DOMAIN limits_ : wakeup_at_ <= FitsAt(limits_[i], past)
      <3>1. PICK i \in DOMAIN limits_ : wakeup_at_ <= FitsAt(limits_[i], past)
        BY <2>2
      <3> DEFINE f == FitsAt(limits_[i], past)
      <3>2. f \in Nat /\ wakeup_at_ <= f /\ f <= t
        BY <1>2, <3>1
      <3> HIDE DEF f
      <3> QED BY <1>1, <3>2
    <2> QED BY <2>1, <2>2 DEF StrictInv
  <1> QED BY <1>3, <1>5, <1>6

LEMMA InitStrictInv == FloodInit => StrictInv
PROOF
  <1> SUFFICES ASSUME FloodInit PROVE StrictInv
    OBVIOUS
  <1>1. PICK ls \in LimitSets :
          limits_ = [i \in DOMAIN ls |-> [duration_ |-> ls[i].duration, count_ |-> ls[i].count,
                                          pos_ |-> 0]]
    BY DEF FloodInit
  <1>2. ls \in Seq([duration : 0..MaxDuration, count : Nat \ {0}])
    BY FloodAssumption
  <1>3. /\ limits_ \in Seq(LimitType)
        /\ \A i \in DOMAIN limits_ : limits_[i] \in LimitType /\ limits_[i].pos_ = 0
    <2>1. DOMAIN ls = 1..Len(ls) /\ Len(ls) \in Nat
      BY <1>2
    <2>2. \A i \in 1..Len(ls) : ls[i] \in [duration : 0..MaxDuration, count : Nat \ {0}]
      <3>1. PICK S : S = [duration : 0..MaxDuration, count : Nat \ {0}]
        OBVIOUS
      <3>2. ls \in Seq(S)
        BY <1>2, <3>1
      <3>3. \A i \in 1..Len(ls) : ls[i] \in S
        BY <3>2
      <3> QED BY <3>1, <3>3
    <2>3. ASSUME NEW i \in 1..Len(ls)
          PROVE  [duration_ |-> ls[i].duration, count_ |-> ls[i].count, pos_ |-> 0] \in LimitType
      <3>1. ls[i].duration \in 0..MaxDuration /\ ls[i].count \in Nat \ {0}
        BY <2>2
      <3> QED BY <3>1 DEF LimitType
    <2>4. limits_ \in [1..Len(ls) -> LimitType]
      BY <1>1, <2>1, <2>3
    <2>5. limits_ \in Seq(LimitType)
      BY <2>1, <2>4, SeqDef
    <2> QED BY <1>1, <2>1, <2>4, <2>5
  <1>4. past = <<>> /\ events_ = <<>> /\ now = 0 /\ wakeup_at_ = 0 /\ without_update_ = 0
    BY DEF FloodInit
  <1>5. FloodType
    BY <1>3, <1>4 DEF FloodType
  <1>6. \A i \in DOMAIN limits_ :
          LimitRight(limits_[i], past, events_, without_update_, wakeup_at_, now)
    <2> SUFFICES ASSUME NEW l \in LimitType, l.pos_ = 0
                 PROVE  LimitRight(l, <<>>, <<>>, 0, 0, 0)
      BY <1>3, <1>4
    <2>1. FitsAt(l, <<>>) = 0
      BY DEF FitsAt, LimitType
    <2> QED BY <2>1 DEF LimitRight, Passed
  <1> QED BY <1>4, <1>5, <1>6 DEF StrictInv, InTime, LastEvents

(* Where the events begin that a limit counts, after an update. *)
LEMMA NewPosIs ==
  ASSUME NEW l \in LimitType, NEW ev \in Seq(Nat), l.pos_ <= Len(ev), now \in Nat
  PROVE  /\ NewPos(l, ev) \in Nat
         /\ l.pos_ <= NewPos(l, ev) /\ NewPos(l, ev) <= Len(ev)
         /\ Len(ev) <= NewPos(l, ev) + l.count_
         /\ \A q \in (l.pos_ + 1)..NewPos(l, ev) :
              ev[q] + l.duration_ < now \/ q + l.count_ <= Len(ev)
PROOF
  <1> DEFINE n == Len(ev)
             last == IF l.count_ < n - l.pos_ THEN n - l.count_ ELSE l.pos_
             P == {p \in last..n : p = n \/ ~Outdated(l, ev[p + 1])}
  <1>1. /\ n \in Nat /\ l.count_ \in Nat \ {0} /\ l.pos_ \in Nat /\ l.duration_ \in Nat
        /\ \A q \in 1..n : ev[q] \in Nat
    BY DEF LimitType
  <1>2. last \in Nat /\ l.pos_ <= last /\ last <= n /\ n <= last + l.count_
        /\ (last # l.pos_ => last + l.count_ = n)
    BY <1>1
  <1>3. NewPos(l, ev) = Least(P)
    BY DEF NewPos
  <1> HIDE DEF last, n
  <1>4. P \in SUBSET Nat /\ n \in P
    BY <1>1, <1>2
  <1>5. Least(P) \in P /\ \A p \in P : Least(P) <= p
    BY <1>4, LeastIs
  <1> DEFINE m == NewPos(l, ev)
  <1>6. m \in Nat /\ last <= m /\ m <= n /\ \A p \in last..n : (p < m => p # n /\ Outdated(l, ev[p + 1]))
    <2>1. m \in P /\ \A p \in P : m <= p
      BY <1>3, <1>5
    <2> HIDE DEF m
    <2>2. m \in Nat /\ last <= m /\ m <= n
      BY <1>1, <1>2, <2>1
    <2>3. ASSUME NEW p \in last..n, p < m PROVE p # n /\ Outdated(l, ev[p + 1])
      <3>1. p \in Int
        OBVIOUS
      <3>2. p \notin P
        BY <2>1, <2>2, <2>3, <3>1
      <3> QED BY <3>2
    <2> QED BY <2>2, <2>3
  <1>7. ASSUME NEW q \in (l.pos_ + 1)..m
        PROVE  ev[q] + l.duration_ < now \/ q + l.count_ <= n
    <2> HIDE DEF m
    <2>1. CASE q <= last
      BY <1>1, <1>2, <1>6, <2>1
    <2>2. CASE ~(q <= last)
      <3>1. q - 1 \in last..n /\ q - 1 < m /\ q \in 1..n /\ q - 1 + 1 = q
        BY <1>1, <1>2, <1>6, <2>2
      <3>2. Outdated(l, ev[q])
        BY <1>6, <3>1
      <3> QED BY <1>1, <3>1, <3>2 DEF Outdated
    <2> QED BY <2>1, <2>2
  <1> HIDE DEF m
  <1>8. l.pos_ <= m /\ n <= m + l.count_
    BY <1>1, <1>2, <1>6
  <1> QED BY <1>6, <1>7, <1>8 DEF m, n

(* The event at which a limit has room again is passed: there is room. *)
LEMMA PassedFits ==
  ASSUME NEW l \in LimitType, NEW p \in Seq(Nat), NEW k \in Nat, NEW t \in Nat,
         Passed(l, k, p, t), Len(p) < l.count_ + k
  PROVE  FitsAt(l, p) <= t
PROOF
  <1> DEFINE e == Len(p) - l.count_ + 1
  <1>1. Len(p) \in Nat /\ l.count_ \in Nat \ {0} /\ l.duration_ \in Nat
    BY DEF LimitType
  <1>2. CASE l.count_ <= Len(p)
    <2>1. e \in 1..k /\ e \in 1..Len(p) /\ ~(e + l.count_ <= Len(p))
      <3>1. ASSUME NEW n \in Nat, NEW c \in Nat \ {0}, c <= n, n < c + k
            PROVE  /\ n - c + 1 \in 1..k /\ n - c + 1 \in 1..n
                   /\ ~(n - c + 1 + c <= n)
        BY <3>1
      <3> QED BY <1>1, <1>2, <3>1
    <2>2. p[e] + l.duration_ < t
      BY <2>1 DEF Passed
    <2>3. p[e] \in Nat
      BY <2>1
    <2>4. FitsAt(l, p) = p[e] + l.duration_
      BY <1>2 DEF FitsAt
    <2> HIDE DEF e
    <2> QED BY <1>1, <2>2, <2>3, <2>4
  <1>3. CASE ~(l.count_ <= Len(p))
    BY <1>3 DEF FitsAt
  <1> QED BY <1>2, <1>3

LEMMA FitsIsNat ==
  ASSUME NEW l \in LimitType, NEW p \in Seq(Nat)
  PROVE  FitsAt(l, p) \in Nat
PROOF
  <1>1. /\ l.count_ \in Nat \ {0} /\ l.duration_ \in Nat
        /\ Len(p) \in Nat /\ \A e \in 1..Len(p) : p[e] \in Nat
    BY DEF LimitType
  <1> QED BY <1>1 DEF FitsAt

(* An event is added, and limits fit it no earlier than the one before. *)
LEMMA AddedEvent ==
  ASSUME StrictInv, NEW p, p = Append(past, now), NEW ev, ev = Append(events_, now)
  PROVE  /\ p \in Seq(Nat) /\ ev \in Seq(Nat)
         /\ Len(p) = Len(past) + 1 /\ Len(ev) = Len(events_) + 1
         /\ Len(past) \in Nat /\ Len(events_) \in Nat
         /\ InTime(p, now) /\ LastEvents(ev, p)
         /\ \A l \in LimitType : FitsAt(l, past) <= FitsAt(l, p)
         /\ \A l \in LimitType : \A k \in 0..Len(past) :
              Passed(l, k, past, now) => Passed(l, k, p, now)
PROOF
  <1> DEFINE n == Len(past)
             m == Len(events_)
  <1>1. /\ past \in Seq(Nat) /\ events_ \in Seq(Nat) /\ now \in Nat
        /\ n \in Nat /\ m \in Nat /\ m <= n
        /\ DOMAIN past = 1..n /\ DOMAIN events_ = 1..m
        /\ InTime(past, now) /\ LastEvents(events_, past)
    BY DEF StrictInv, FloodType, LastEvents
  <1>2. /\ p \in Seq(Nat) /\ ev \in Seq(Nat) /\ Len(p) = n + 1 /\ Len(ev) = m + 1
        /\ DOMAIN p = 1..(n + 1) /\ DOMAIN ev = 1..(m + 1)
        /\ p[n + 1] = now /\ \A e \in 1..n : p[e] = past[e]
        /\ ev[m + 1] = now /\ \A e \in 1..m : ev[e] = events_[e]
    BY <1>1
  <1>3. \A e \in 1..(n + 1) : e \in 1..n \/ e = n + 1
    BY <1>1
  <1>4. \A e \in 1..n : past[e] <= now
    BY <1>1 DEF InTime
  <1>5. InTime(p, now)
    <2>1. \A e \in 1..(n + 1) : p[e] <= now
      BY <1>1, <1>2, <1>3, <1>4
    <2>2. ASSUME NEW e \in 1..(n + 1), NEW f \in 1..(n + 1), e <= f PROVE p[e] <= p[f]
      <3>1. CASE f = n + 1
        BY <1>2, <2>1, <3>1
      <3>2. CASE f \in 1..n
        <4>1. e \in 1..n
          BY <1>1, <2>2, <3>2
        <4> QED BY <1>1, <1>2, <2>2, <3>2, <4>1 DEF InTime
      <3> QED BY <1>3, <3>1, <3>2
    <2> QED BY <1>2, <2>1, <2>2 DEF InTime
  <1>6. LastEvents(ev, p)
    <2>1. n - m + (m + 1) = n + 1 /\ n + 1 - (m + 1) = n - m /\ m + 1 <= n + 1
      <3> HIDE DEF n, m
      <3> QED BY <1>1
    <2>2. ASSUME NEW e \in 1..m PROVE ev[e] = p[n - m + e]
      <3>1. events_[e] = past[n - m + e]
        BY <1>1, <2>2 DEF LastEvents
      <3>2. n - m + e \in 1..n
        <4> HIDE DEF n, m
        <4> QED BY <1>1
      <3> QED BY <1>2, <3>1, <3>2
    <2>3. ev[m + 1] = p[n - m + (m + 1)]
      <3> HIDE DEF n, m
      <3> QED BY <1>2, <2>1
    <2>4. \A e \in 1..(m + 1) : ev[e] = p[n - m + e]
      <3>1. \A e \in 1..(m + 1) : e \in 1..m \/ e = m + 1
        BY <1>1
      <3> HIDE DEF n, m
      <3> QED BY <2>2, <2>3, <3>1
    <2>5. Len(p) - Len(ev) = n - m /\ Len(ev) <= Len(p)
      <3> HIDE DEF n, m
      <3> QED BY <1>1, <1>2, <2>1
    <2>6. \A e \in DOMAIN ev : ev[e] = p[Len(p) - Len(ev) + e]
      BY <1>2, <2>4, <2>5
    <2> QED BY <2>5, <2>6 DEF LastEvents
  <1>7. ASSUME NEW l \in LimitType PROVE FitsAt(l, past) <= FitsAt(l, p)
    <2>1. l.count_ \in Nat \ {0} /\ l.duration_ \in Nat
      BY DEF LimitType
    <2>2. CASE l.count_ <= n
      <3> DEFINE e == n - l.count_ + 1
                 f == n + 1 - l.count_ + 1
      <3>1. e \in 1..(n + 1) /\ f \in 1..(n + 1) /\ e <= f /\ e \in 1..n /\ l.count_ <= n + 1
        <4>1. ASSUME NEW k \in Nat, NEW c \in Nat \ {0}, c <= k
              PROVE  /\ k - c + 1 \in 1..(k + 1) /\ k + 1 - c + 1 \in 1..(k + 1)
                     /\ k - c + 1 <= k + 1 - c + 1 /\ k - c + 1 \in 1..k /\ c <= k + 1
          BY <4>1
        <4> QED BY <1>1, <2>1, <2>2, <4>1
      <3>2. FitsAt(l, past) = past[e] + l.duration_ /\ FitsAt(l, p) = p[f] + l.duration_
        <4>1. FitsAt(l, past) = past[e] + l.duration_
          BY <2>2 DEF FitsAt
        <4>2. FitsAt(l, p) = p[Len(p) - l.count_ + 1] + l.duration_
          BY <1>2, <3>1 DEF FitsAt
        <4>3. Len(p) - l.count_ + 1 = f
          <5>1. Len(p) = n + 1
            BY <1>2
          <5> HIDE DEF n
          <5> QED BY <1>1, <2>1, <5>1
        <4> QED BY <4>1, <4>2, <4>3
      <3>3. p[e] = past[e] /\ p[e] \in Nat /\ p[f] \in Nat
        BY <1>1, <1>2, <3>1
      <3>4. p[e] <= p[f]
        BY <1>2, <1>5, <3>1 DEF InTime
      <3>5. ASSUME NEW a \in Nat, NEW b \in Nat, NEW d \in Nat, a <= b PROVE a + d <= b + d
        BY <3>5
      <3>6. past[e] \in Nat /\ past[e] <= p[f]
        BY <3>3, <3>4
      <3>7. past[e] + l.duration_ <= p[f] + l.duration_
        <4> HIDE DEF e, f
        <4> QED BY <2>1, <3>3, <3>5, <3>6
      <3> QED BY <3>2, <3>7
    <2>3. CASE ~(l.count_ <= n)
      <3>1. FitsAt(l, past) = 0
        BY <2>3 DEF FitsAt
      <3> DEFINE f == FitsAt(l, p)
      <3>2. f \in Nat
        BY <1>2, FitsIsNat
      <3>3. 0 <= f
        <4> HIDE DEF f
        <4> QED BY <3>2
      <3> QED BY <3>1, <3>3
    <2> QED BY <2>2, <2>3
  <1>8. ASSUME NEW l \in LimitType, NEW k \in 0..n, Passed(l, k, past, now)
        PROVE  Passed(l, k, p, now)
    <2> SUFFICES ASSUME NEW e \in 1..k PROVE p[e] + l.duration_ < now \/ e + l.count_ <= n + 1
      BY <1>2 DEF Passed
    <2>1. e \in 1..n /\ l.count_ \in Nat
      BY <1>1 DEF LimitType
    <2>2. past[e] + l.duration_ < now \/ e + l.count_ <= n
      BY <1>8 DEF Passed
    <2>3. p[e] = past[e]
      BY <1>2, <2>1
    <2>4. e + l.count_ <= n => e + l.count_ <= n + 1
      BY <1>1, <2>1
    <2> QED BY <2>2, <2>3, <2>4
  <1> QED BY <1>1, <1>2, <1>5, <1>6, <1>7, <1>8

(* How much of the events is dropped, and where a limit is then. *)
LEMMA DroppedEvents ==
  ASSUME NEW ev \in Seq(Nat), NEW cut \in Nat, cut <= Len(ev), NEW p \in Seq(Nat), LastEvents(ev, p),
         NEW kept, kept = SubSeq(ev, cut + 1, Len(ev))
  PROVE  /\ kept \in Seq(Nat) /\ Len(kept) = Len(ev) - cut
         /\ LastEvents(kept, p)
PROOF
  <1> DEFINE n == Len(ev)
             m == Len(p)
  <1>1. n \in Nat /\ m \in Nat /\ n <= m /\ DOMAIN ev = 1..n
    BY DEF LastEvents
  <1>2. kept \in Seq(Nat) /\ Len(kept) = n - cut /\ DOMAIN kept = 1..(n - cut)
        /\ \A e \in 1..(n - cut) : kept[e] = ev[cut + e]
    <2>1. cut + 1 \in 1..(n + 1) /\ n \in cut..n
      BY <1>1
    <2>2. ev \in [1..n -> Nat]
      BY <1>1
    <2>3. n - (cut + 1) + 1 = n - cut /\ \A e \in 1..(n - cut) : cut + 1 + e - 1 = cut + e
      <3> HIDE DEF n
      <3> QED BY <1>1
    <2>4. /\ kept \in Seq(Nat) /\ Len(kept) = IF cut + 1 <= n THEN n - (cut + 1) + 1 ELSE 0
          /\ \A e \in 1..(n - (cut + 1) + 1) : kept[e] = ev[cut + 1 + e - 1]
      <3>1. cut + 1 \in Int /\ n \in Int /\ \A e \in (cut + 1)..n : ev[e] \in Nat
        <4>1. \A e \in (cut + 1)..n : e \in 1..n
          <5> HIDE DEF n
          <5> QED BY <1>1
        <4> QED BY <1>1, <2>2, <4>1
      <3> HIDE DEF n
      <3>2. kept = SubSeq(ev, cut + 1, n)
        BY DEF n
      <3> DEFINE c == cut + 1
      <3> HIDE DEF c
      <3>3. c \in Int /\ n \in Int /\ \A e \in c..n : ev[e] \in Nat
        BY <3>1 DEF c
      <3>4. /\ SubSeq(ev, c, n) \in Seq(Nat)
            /\ Len(SubSeq(ev, c, n)) = IF c <= n THEN n - c + 1 ELSE 0
            /\ \A e \in 1..(n - c + 1) : SubSeq(ev, c, n)[e] = ev[c + e - 1]
        BY <3>3, SubSeqProperties
      <3> QED BY <3>2, <3>4, Zenon DEF c
    <2>6. Len(kept) = n - cut
      <3> HIDE DEF n
      <3> QED BY <1>1, <2>3, <2>4
    <2>7. DOMAIN kept = 1..(n - cut)
      BY <2>4, <2>6
    <2>8. \A e \in 1..(n - cut) : kept[e] = ev[cut + e]
      <3> HIDE DEF n
      <3> QED BY <2>3, <2>4
    <2> QED BY <2>4, <2>6, <2>7, <2>8
  <1>3. \A e \in 1..(n - cut) : kept[e] = ev[cut + e]
    BY <1>2
  <1>4. ASSUME NEW e \in 1..(n - cut) PROVE kept[e] = p[m - (n - cut) + e]
    <2>1. cut + e \in 1..n
      BY <1>1
    <2>2. ev[cut + e] = p[m - n + (cut + e)]
      BY <1>1, <2>1 DEF LastEvents
    <2>3. m - n + (cut + e) = m - (n - cut) + e
      <3> HIDE DEF n, m
      <3> QED BY <1>1
    <2> QED BY <1>3, <2>2, <2>3
  <1>5. n - cut <= m
    BY <1>1
  <1> QED BY <1>1, <1>2, <1>4, <1>5 DEF LastEvents

LEMMA DroppedLimit ==
  ASSUME NEW p \in Seq(Nat), NEW ev \in Seq(Nat), LastEvents(ev, p),
         NEW w \in Nat, NEW at \in Nat, NEW t \in Nat,
         NEW l \in LimitType, LimitRight(l, p, ev, w, at, t),
         NEW cut \in Nat, cut <= l.pos_, NEW kept, kept = SubSeq(ev, cut + 1, Len(ev)),
         NEW moved \in LimitType, moved.pos_ = l.pos_ - cut,
         moved.count_ = l.count_, moved.duration_ = l.duration_
  PROVE  LimitRight(moved, p, kept, w, at, t)
PROOF
  <1>1. /\ Len(ev) \in Nat /\ Len(p) \in Nat /\ l.count_ \in Nat /\ l.pos_ \in Nat
        /\ l.pos_ <= Len(ev)
    BY DEF LimitType, LimitRight
  <1>2. Len(kept) = Len(ev) - cut
    BY <1>1, DroppedEvents
  <1>3. FitsAt(moved, p) = FitsAt(l, p)
    BY DEF FitsAt
  <1>5. moved.pos_ <= Len(kept)
    BY <1>1, <1>2
  <1>6. Passed(moved, Len(p) - Len(kept) + moved.pos_, p, t)
    <2>1. Len(p) - Len(kept) + moved.pos_ = Len(p) - Len(ev) + l.pos_
      <3> DEFINE n == Len(ev)
                 m == Len(p)
                 pos == l.pos_
      <3>1. n \in Nat /\ m \in Nat /\ pos \in Nat /\ Len(kept) = n - cut /\ moved.pos_ = pos - cut
        BY <1>1, <1>2
      <3> HIDE DEF n, m, pos
      <3>2. m - (n - cut) + (pos - cut) = m - n + pos
        BY <3>1
      <3> QED BY <3>1, <3>2 DEF n, m, pos
    <2>2. Passed(l, Len(p) - Len(ev) + l.pos_, p, t)
      BY DEF LimitRight
    <2>3. \A k : Passed(moved, k, p, t) <=> Passed(l, k, p, t)
      BY DEF Passed
    <2> QED BY <2>1, <2>2, <2>3
  <1>7. w > 0 => Len(kept) + w < moved.count_ + moved.pos_
    <2>1. w > 0 => Len(ev) + w < l.count_ + l.pos_
      BY DEF LimitRight
    <2> DEFINE n == Len(ev)
               c == l.count_
               pos == l.pos_
    <2>2. /\ n \in Nat /\ c \in Nat /\ pos \in Nat /\ (w > 0 => n + w < c + pos)
          /\ Len(kept) = n - cut /\ moved.pos_ = pos - cut /\ moved.count_ = c
      BY <1>1, <1>2, <2>1
    <2> HIDE DEF n, c, pos
    <2>3. w > 0 => n - cut + w < c + (pos - cut)
      BY <2>2
    <2> QED BY <2>2, <2>3
  <1>8. FitsAt(moved, p) <= at \/ FitsAt(moved, p) <= t
    BY <1>3 DEF LimitRight
  <1> QED BY <1>5, <1>6, <1>7, <1>8 DEF LimitRight

(* An event that needs no update. *)
LEMMA CountedEvent ==
  ASSUME StrictInv, FloodAddEvent, without_update_ > 0
  PROVE  StrictInv'
PROOF
  <1> DEFINE n == Len(past)
             m == Len(events_)
             w == without_update_
  <1>1. /\ past' = Append(past, now) /\ events_' = Append(events_, now)
        /\ without_update_' = w - 1 /\ limits_' = limits_ /\ wakeup_at_' = wakeup_at_ /\ now' = now
    BY DEF FloodAddEvent
  <1>2. /\ past' \in Seq(Nat) /\ events_' \in Seq(Nat)
        /\ Len(past') = n + 1 /\ Len(events_') = m + 1 /\ n \in Nat /\ m \in Nat
        /\ InTime(past', now) /\ LastEvents(events_', past')
        /\ \A l \in LimitType : FitsAt(l, past) <= FitsAt(l, past')
        /\ \A l \in LimitType : \A k \in 0..n : Passed(l, k, past, now) => Passed(l, k, past', now)
    BY <1>1, AddedEvent
  <1>3. /\ limits_ \in Seq(LimitType) /\ now \in Nat /\ wakeup_at_ \in Nat /\ w \in Nat /\ w > 0
        /\ m <= n
    BY DEF StrictInv, FloodType, LastEvents
  <1>4. FloodType'
    BY <1>1, <1>2, <1>3 DEF FloodType
  <1>5. ASSUME NEW i \in DOMAIN limits_
        PROVE  LimitRight(limits_[i], past', events_', w - 1, wakeup_at_, now)
    <2> DEFINE l == limits_[i]
               k == n - m + l.pos_
    <2>0. l \in LimitType
      BY <1>3
    <2>1. l.pos_ \in Nat /\ l.count_ \in Nat
      BY <2>0 DEF LimitType
    <2>2. l.pos_ <= m /\ Passed(l, k, past, now) /\ m + w < l.count_ + l.pos_
      BY <1>3 DEF StrictInv, LimitRight
    <2>a. n \in Nat /\ m \in Nat /\ w \in Nat /\ w > 0 /\ m <= n
      BY <1>2, <1>3
    <2>b. l.pos_ <= m /\ m + w < l.count_ + l.pos_
      BY <2>2
    <2> HIDE DEF l, n, m, w
    <2>3. k \in 0..n /\ k = n + 1 - (m + 1) + l.pos_ /\ k \in Nat
      BY <2>1, <2>a, <2>b
    <2>4. Passed(l, k, past', now)
      BY <1>2, <2>0, <2>2, <2>3
    <2>5. n + 1 < l.count_ + k /\ m + 1 + (w - 1) < l.count_ + l.pos_ /\ l.pos_ <= m + 1
      BY <2>1, <2>a, <2>b
    <2>6. FitsAt(l, past') <= now
      <3> HIDE DEF k
      <3> QED BY <1>2, <1>3, <2>0, <2>3, <2>4, <2>5, PassedFits
    <2>7. Len(past') - Len(events_') + l.pos_ = k
      BY <1>2, <2>3
    <2>8. LimitRight(l, past', events_', w - 1, wakeup_at_, now)
      <3> HIDE DEF k
      <3> QED BY <1>2, <2>4, <2>5, <2>6, <2>7 DEF LimitRight
    <2> QED BY <2>8 DEF l
  <1>6. wakeup_at_ <= now \/ \E i \in DOMAIN limits_ : wakeup_at_ <= FitsAt(limits_[i], past')
    <2>1. CASE wakeup_at_ <= now
      BY <2>1
    <2>2. CASE \E i \in DOMAIN limits_ : wakeup_at_ <= FitsAt(limits_[i], past)
      <3>1. PICK i \in DOMAIN limits_ : wakeup_at_ <= FitsAt(limits_[i], past)
        BY <2>2
      <3> DEFINE f == FitsAt(limits_[i], past)
                 g == FitsAt(limits_[i], past')
      <3>2. limits_[i] \in LimitType
        BY <1>3
      <3>3. f \in Nat /\ g \in Nat /\ f <= g /\ wakeup_at_ <= f
        <4>1. past \in Seq(Nat)
          BY DEF StrictInv, FloodType
        <4> QED BY <1>2, <3>1, <3>2, <4>1, FitsIsNat
      <3>4. wakeup_at_ <= g
        <4> HIDE DEF f, g
        <4> QED BY <1>3, <3>3
      <3> QED BY <3>4
    <2> QED BY <2>1, <2>2 DEF StrictInv
  <1>7. InTime(past', now') /\ LastEvents(events_', past')
    BY <1>1, <1>2
  <1>8. /\ \A i \in DOMAIN limits_' :
             LimitRight(limits_'[i], past', events_', without_update_', wakeup_at_', now')
        /\ wakeup_at_' <= now' \/ \E i \in DOMAIN limits_' : wakeup_at_' <= FitsAt(limits_'[i], past')
    BY <1>1, <1>5, <1>6
  <1> QED BY <1>4, <1>7, <1>8 DEF StrictInv

LEMMA BoundsAreNat == MaxDuration \in Nat /\ Unlimited \in Nat
PROOF BY SMT DEF MaxDuration, Unlimited

(* Where limit l stands when an update has looked at the events of ev, the last  *)
(* of p: it is used up and RoomAt says when it fits the next, or it fits it now. *)
LEMMA UpdatedLimit ==
  ASSUME NEW l \in LimitType, NEW p \in Seq(Nat), NEW ev \in Seq(Nat), LastEvents(ev, p), now \in Nat,
         l.pos_ <= Len(ev), Passed(l, Len(p) - Len(ev) + l.pos_, p, now)
  PROVE  LET pos == NewPos(l, ev) IN
         /\ pos \in Nat /\ pos <= Len(ev) /\ Passed(l, Len(p) - Len(ev) + pos, p, now)
         /\ l.count_ + pos <= Len(ev) => ev[pos + 1] + l.duration_ = FitsAt(l, p)
         /\ ~(l.count_ + pos <= Len(ev)) => FitsAt(l, p) <= now
PROOF
  <1> DEFINE m == Len(ev)
             d == Len(p) - m
             pos == NewPos(l, ev)
  <1>1. /\ m \in Nat /\ d \in Nat /\ Len(p) \in Nat /\ Len(p) = d + m
        /\ l.pos_ \in Nat /\ l.count_ \in Nat \ {0} /\ l.duration_ \in Nat
        /\ \A e \in 1..m : ev[e] = p[d + e]
    <2>1. m \in Nat /\ Len(p) \in Nat /\ m <= Len(p) /\ \A e \in 1..m : ev[e] = p[d + e]
      <3>1. DOMAIN ev = 1..m /\ m \in Nat /\ Len(p) \in Nat
        OBVIOUS
      <3>2. m <= Len(p) /\ \A e \in DOMAIN ev : ev[e] = p[Len(p) - Len(ev) + e]
        BY DEF LastEvents
      <3>3. \A e \in 1..m : ev[e] = p[d + e]
        BY <3>1, <3>2, Zenon
      <3> QED BY <3>1, <3>2, <3>3
    <2>2. l.pos_ \in Nat /\ l.count_ \in Nat \ {0} /\ l.duration_ \in Nat
      BY DEF LimitType
    <2>3. d \in Nat /\ Len(p) = d + m
      <3> HIDE DEF m
      <3> QED BY <2>1
    <2> QED BY <2>1, <2>2, <2>3
  <1>2. /\ pos \in Nat /\ l.pos_ <= pos /\ pos <= m /\ m <= pos + l.count_
        /\ \A q \in (l.pos_ + 1)..pos : ev[q] + l.duration_ < now \/ q + l.count_ <= m
    BY NewPosIs
  <1>3. Passed(l, d + l.pos_, p, now)
    OBVIOUS
  <1> HIDE DEF m, d, pos
  <1>4. Passed(l, d + pos, p, now)
    <2> SUFFICES ASSUME NEW e \in 1..(d + pos)
                 PROVE  p[e] + l.duration_ < now \/ e + l.count_ <= Len(p)
      BY DEF Passed
    <2>1. CASE e \in 1..(d + l.pos_)
      BY <1>3, <2>1 DEF Passed
    <2>2. CASE ~(e \in 1..(d + l.pos_))
      <3> DEFINE q == e - d
      <3>1. q \in (l.pos_ + 1)..pos /\ q \in 1..m /\ d + q = e /\ q + d = e
        <4>1. ASSUME NEW a \in Nat, NEW b \in Nat, NEW c \in Nat, NEW n \in Nat, c <= n,
                     NEW x \in 1..(a + c), ~(x \in 1..(a + b))
              PROVE  x - a \in (b + 1)..c /\ x - a \in 1..n /\ a + (x - a) = x /\ x - a + a = x
          BY <4>1
        <4>2. d \in Nat /\ l.pos_ \in Nat /\ pos \in Nat /\ m \in Nat /\ pos <= m
          BY <1>1, <1>2
        <4> QED BY <2>2, <4>1, <4>2
      <3>2. p[e] = ev[q]
        <4> HIDE DEF q
        <4> QED BY <1>1, <3>1
      <3>3. ev[q] + l.duration_ < now \/ q + l.count_ <= m
        <4> HIDE DEF q
        <4> QED BY <1>2, <3>1
      <3>4. q + l.count_ <= m => e + l.count_ <= Len(p)
        <4>1. ASSUME NEW c \in Nat, q + c <= m PROVE e + c <= d + m
          BY <1>1, <4>1
        <4> HIDE DEF q
        <4> QED BY <1>1, <4>1
      <3> QED BY <3>2, <3>3, <3>4
    <2> QED BY <2>1, <2>2
  <1>5. ASSUME l.count_ + pos <= m PROVE ev[pos + 1] + l.duration_ = FitsAt(l, p)
    <2>1. /\ pos + 1 \in 1..m /\ l.count_ <= Len(p) /\ d + (pos + 1) = Len(p) - l.count_ + 1
      <3>1. ASSUME NEW a \in Nat, NEW b \in Nat, NEW c \in Nat \ {0}, NEW n \in Nat,
                   c + b <= n, n <= b + c
            PROVE  b + 1 \in 1..n /\ c <= a + n /\ a + (b + 1) = (a + n) - c + 1
        BY <3>1
      <3>2. l.count_ \in Nat \ {0} /\ Len(p) = d + m /\ m \in Nat /\ d \in Nat
        BY <1>1
      <3>3. pos \in Nat /\ m <= pos + l.count_
        BY <1>2
      <3> QED BY <1>5, <3>1, <3>2, <3>3
    <2>2. ev[pos + 1] = p[d + (pos + 1)]
      BY <1>1, <2>1
    <2> QED BY <2>1, <2>2 DEF FitsAt
  <1>6. ASSUME ~(l.count_ + pos <= m) PROVE FitsAt(l, p) <= now
    <2>1. d + pos \in Nat /\ Len(p) < l.count_ + (d + pos)
      BY <1>1, <1>2, <1>6
    <2> QED BY <1>4, <2>1, PassedFits
  <1> QED BY <1>2, <1>4, <1>5, <1>6 DEF m, d, pos

(* An event that needs an update. *)
LEMMA UpdatedEvent ==
  ASSUME StrictInv, FloodAddEvent, ~(without_update_ > 0)
  PROVE  StrictInv'
PROOF
  <1> DEFINE ev == Append(events_, now)
             p == Append(past, now)
             m == Len(ev)
             pos == UpdatedPos(ev)
             full == {i \in DOMAIN limits_ : Full(i, pos, ev)}
             min_pos == Least({m} \union {pos[i] : i \in DOMAIN limits_})
             cut == IF min_pos * 2 > m THEN min_pos ELSE 0
             W == {wakeup_at_} \union {RoomAt(i, pos, ev) : i \in full}
             S == {Unlimited} \union {Spare(i, pos, ev) : i \in DOMAIN limits_}
  <1>1. /\ past' = p /\ now' = now
        /\ wakeup_at_' = Most(W)
        /\ without_update_' = IF full # {} THEN 0 ELSE Least(S)
        /\ limits_' = [i \in DOMAIN limits_ |-> [limits_[i] EXCEPT !.pos_ = pos[i] - cut]]
        /\ events_' = SubSeq(ev, cut + 1, m)
    BY Zenon DEF FloodAddEvent, Update
  <1>2. /\ p \in Seq(Nat) /\ ev \in Seq(Nat)
        /\ Len(p) = Len(past) + 1 /\ m = Len(events_) + 1
        /\ Len(past) \in Nat /\ Len(events_) \in Nat
        /\ InTime(p, now) /\ LastEvents(ev, p)
        /\ \A l \in LimitType : FitsAt(l, past) <= FitsAt(l, p)
        /\ \A l \in LimitType : \A k \in 0..Len(past) : Passed(l, k, past, now) => Passed(l, k, p, now)
    BY AddedEvent
  <1>3. /\ limits_ \in Seq(LimitType) /\ now \in Nat /\ wakeup_at_ \in Nat
        /\ Len(events_) <= Len(past) /\ past \in Seq(Nat)
    BY DEF StrictInv, FloodType, LastEvents
  <1>4. DOMAIN limits_ = 1..Len(limits_) /\ \A i \in DOMAIN limits_ : limits_[i] \in LimitType
    BY <1>3
  <1> HIDE DEF p, ev
  <1>5. m \in Nat
    BY <1>2
  <1>6. ASSUME NEW i \in DOMAIN limits_
        PROVE  /\ pos[i] \in Nat /\ pos[i] <= m /\ Passed(limits_[i], Len(p) - m + pos[i], p, now)
               /\ i \in full => RoomAt(i, pos, ev) = FitsAt(limits_[i], p)
               /\ i \notin full => FitsAt(limits_[i], p) <= now
    <2> DEFINE l == limits_[i]
    <2>1. pos[i] = NewPos(l, ev) /\ l \in LimitType
      BY <1>4 DEF UpdatedPos
    <2>2. l.pos_ <= Len(events_) /\ Passed(l, Len(past) - Len(events_) + l.pos_, past, now)
      BY DEF StrictInv, LimitRight
    <2>3. l.pos_ \in Nat
      BY <2>1 DEF LimitType
    <2>4. /\ Len(past) - Len(events_) + l.pos_ \in 0..Len(past) /\ l.pos_ <= m
          /\ Len(p) - m + l.pos_ = Len(past) - Len(events_) + l.pos_
      <3>1. ASSUME NEW a \in Nat, NEW b \in Nat, NEW c \in Nat, b <= a, c <= b
            PROVE  a - b + c \in 0..a /\ c <= b + 1 /\ a + 1 - (b + 1) + c = a - b + c
        BY <3>1
      <3> HIDE DEF l
      <3>2. Len(p) - m = Len(past) + 1 - (Len(events_) + 1)
        BY <1>2
      <3> QED BY <1>2, <1>3, <2>2, <2>3, <3>1
    <2>5. Passed(l, Len(p) - m + l.pos_, p, now)
      <3> HIDE DEF l
      <3> QED BY <1>2, <2>1, <2>2, <2>4
    <2>6. /\ NewPos(l, ev) \in Nat /\ NewPos(l, ev) <= m /\ Passed(l, Len(p) - m + NewPos(l, ev), p, now)
          /\ l.count_ + NewPos(l, ev) <= m => ev[NewPos(l, ev) + 1] + l.duration_ = FitsAt(l, p)
          /\ ~(l.count_ + NewPos(l, ev) <= m) => FitsAt(l, p) <= now
      <3> HIDE DEF l
      <3> QED BY <1>2, <1>3, <2>1, <2>4, <2>5, UpdatedLimit
    <2>7. i \in full <=> l.count_ + NewPos(l, ev) <= m
      BY <2>1 DEF Full
    <2>8. RoomAt(i, pos, ev) = ev[NewPos(l, ev) + 1] + l.duration_
      BY <2>1 DEF RoomAt
    <2> HIDE DEF m, full, pos
    <2> QED BY <2>1, <2>6, <2>7, <2>8
  <1>7. /\ cut \in Nat /\ cut <= m /\ \A i \in DOMAIN limits_ : cut <= pos[i]
    <2> DEFINE M == {m} \union {pos[i] : i \in DOMAIN limits_}
    <2>1. M \in SUBSET Nat /\ M # {}
      <3> HIDE DEF m, pos
      <3> QED BY <1>5, <1>6
    <2>2. min_pos \in M /\ \A q \in M : min_pos <= q
      <3> HIDE DEF M
      <3> QED BY <2>1, LeastIs DEF M
    <2> HIDE DEF min_pos
    <2>3. min_pos \in Nat /\ min_pos <= m /\ \A i \in DOMAIN limits_ : min_pos <= pos[i]
      BY <2>1, <2>2
    <2> HIDE DEF m, pos
    <2>4. cut = min_pos \/ cut = 0
      OBVIOUS
    <2> QED BY <1>5, <1>6, <2>3, <2>4
  <1> HIDE DEF cut, full, pos
  <1>8. /\ Most(W) \in W /\ Most(W) \in Nat /\ wakeup_at_ <= Most(W)
        /\ \A i \in full : RoomAt(i, pos, ev) <= Most(W)
    <2>1. \A i \in full : i \in DOMAIN limits_
      BY DEF full
    <2>2. \A i \in full : RoomAt(i, pos, ev) \in Nat /\ RoomAt(i, pos, ev) <= wakeup_at_ + now + MaxDuration
      <3> SUFFICES ASSUME NEW i \in full
                   PROVE  RoomAt(i, pos, ev) \in Nat /\ RoomAt(i, pos, ev) <= wakeup_at_ + now + MaxDuration
        OBVIOUS
      <3>1. RoomAt(i, pos, ev) = FitsAt(limits_[i], p) /\ limits_[i] \in LimitType
        BY <1>4, <1>6, <2>1
      <3>2. FitsAt(limits_[i], p) \in Nat
        BY <1>2, <3>1, FitsIsNat
      <3>3. FitsAt(limits_[i], p) <= now + MaxDuration
        <4> DEFINE l == limits_[i]
        <4>1. l.count_ \in Nat \ {0} /\ l.duration_ \in 0..MaxDuration /\ MaxDuration \in Nat
          BY <3>1, BoundsAreNat DEF LimitType
        <4>2. CASE l.count_ <= Len(p)
          <5>1. Len(p) - l.count_ + 1 \in DOMAIN p
            <6>1. Len(p) \in Nat /\ DOMAIN p = 1..Len(p)
              BY <1>2
            <6> HIDE DEF l
            <6> QED BY <4>1, <4>2, <6>1
          <5>2. p[Len(p) - l.count_ + 1] <= now /\ p[Len(p) - l.count_ + 1] \in Nat
            BY <1>2, <5>1 DEF InTime
          <5>3. FitsAt(l, p) = p[Len(p) - l.count_ + 1] + l.duration_
            BY <4>2 DEF FitsAt
          <5>4. ASSUME NEW a \in Nat, NEW b \in Nat, NEW c \in Nat, NEW t \in Nat, a <= t, b <= c
                PROVE  a + b <= t + c
            BY <5>4
          <5>5. l.duration_ \in Nat /\ l.duration_ <= MaxDuration
            BY <4>1
          <5> HIDE DEF l
          <5> DEFINE a == p[Len(p) - l.count_ + 1]
          <5>6. a \in Nat /\ a <= now /\ now \in Nat /\ MaxDuration \in Nat /\ FitsAt(l, p) = a + l.duration_
            BY <1>3, <4>1, <5>2, <5>3
          <5> HIDE DEF a
          <5> QED BY <5>4, <5>5, <5>6 DEF l
        <4>3. CASE ~(l.count_ <= Len(p))
          <5>1. FitsAt(l, p) = 0
            BY <4>3 DEF FitsAt
          <5>2. 0 <= now + MaxDuration
            BY <1>3, BoundsAreNat
          <5> QED BY <5>1, <5>2
        <4> QED BY <4>2, <4>3
      <3>4. wakeup_at_ \in Nat /\ now \in Nat /\ MaxDuration \in Nat
        BY <1>3, BoundsAreNat
      <3> QED BY <3>1, <3>2, <3>3, <3>4
    <2>3. W \in SUBSET Nat /\ W # {}
      BY <1>3, <2>2
    <2>4. wakeup_at_ + now + MaxDuration \in Nat /\ \A q \in W : q <= wakeup_at_ + now + MaxDuration
      <3>1. wakeup_at_ \in Nat /\ now \in Nat /\ MaxDuration \in Nat
        BY <1>3, BoundsAreNat
      <3> QED BY <2>2, <3>1
    <2>5. Most(W) \in W /\ \A q \in W : Most(W) >= q
      <3> HIDE DEF W
      <3> QED BY <2>3, <2>4, MostIs
    <2>6. wakeup_at_ \in W /\ \A i \in full : RoomAt(i, pos, ev) \in W
      OBVIOUS
    <2> DEFINE w == Most(W)
    <2>7. w \in W /\ w \in Nat /\ \A q \in W : w >= q
      BY <2>3, <2>5
    <2>8. \A q \in W : q <= w
      <3> HIDE DEF w, W
      <3> QED BY <2>3, <2>7
    <2> QED BY <2>6, <2>7, <2>8
  <1>9. /\ without_update_' \in Nat
        /\ \A i \in DOMAIN limits_ :
             without_update_' > 0 => m + without_update_' < limits_[i].count_ + pos[i]
    <2>1. CASE full # {}
      BY <1>1, <2>1
    <2>2. CASE full = {}
      <3>1. ASSUME NEW i \in DOMAIN limits_
            PROVE  /\ Spare(i, pos, ev) \in Nat
                   /\ \A w \in Nat : w <= Spare(i, pos, ev) => m + w < limits_[i].count_ + pos[i]
        <4>1. limits_[i].count_ \in Nat /\ pos[i] \in Nat
          BY <1>4, <1>6 DEF LimitType
        <4>2. ~(limits_[i].count_ + pos[i] <= m)
          BY <2>2 DEF full, Full
        <4>3. ASSUME NEW c \in Nat, NEW q \in Nat, NEW n \in Nat, ~(c + q <= n)
              PROVE  /\ c + q - n - 1 \in Nat
                     /\ \A w \in Nat : w <= c + q - n - 1 => n + w < c + q
          BY <4>3
        <4>4. Spare(i, pos, ev) = limits_[i].count_ + pos[i] - m - 1
          BY DEF Spare
        <4> HIDE DEF m
        <4> QED BY <1>5, <4>1, <4>2, <4>3, <4>4
      <3>2. S \in SUBSET Nat /\ S # {}
        BY <3>1, BoundsAreNat
      <3>3. Least(S) \in S /\ \A q \in S : Least(S) <= q
        <4> HIDE DEF S
        <4> QED BY <3>2, LeastIs
      <3>4. Least(S) \in Nat /\ \A i \in DOMAIN limits_ : Least(S) <= Spare(i, pos, ev)
        BY <3>2, <3>3
      <3>5. without_update_' = Least(S)
        BY <1>1, <2>2
      <3> HIDE DEF S, m
      <3> QED BY <3>1, <3>4, <3>5
    <2> QED BY <2>1, <2>2
  <1> HIDE DEF W, S
  <1>10. ASSUME NEW i \in DOMAIN limits_
         PROVE  FitsAt(limits_[i], p) <= wakeup_at_' \/ FitsAt(limits_[i], p) <= now
    BY <1>1, <1>6, <1>8
  <1>11. ASSUME NEW i \in DOMAIN limits_
         PROVE  /\ limits_'[i] \in LimitType /\ FitsAt(limits_'[i], p) = FitsAt(limits_[i], p)
                /\ LimitRight(limits_'[i], p, events_', without_update_', wakeup_at_', now)
    <2>1. limits_'[i] = [limits_[i] EXCEPT !.pos_ = pos[i] - cut]
      BY <1>1
    <2>2. cut <= pos[i] /\ pos[i] \in Nat /\ pos[i] <= m /\ Passed(limits_[i], Len(p) - m + pos[i], p, now)
      BY <1>6, <1>7
    <2>3. wakeup_at_' \in Nat
      BY <1>1, <1>8
    <2> DEFINE q == pos[i]
               l == [limits_[i] EXCEPT !.pos_ = q]
               moved == limits_'[i]
    <2>4. limits_[i] \in LimitType /\ q \in Nat /\ q - cut \in Nat /\ q <= m /\ cut <= q
      BY <1>4, <1>7, <2>2
    <2>5. /\ l \in LimitType /\ l.pos_ = q
          /\ l.count_ = limits_[i].count_ /\ l.duration_ = limits_[i].duration_
      BY <2>4 DEF LimitType
    <2>6. /\ moved \in LimitType /\ moved.pos_ = q - cut
          /\ moved.count_ = limits_[i].count_ /\ moved.duration_ = limits_[i].duration_
      BY <2>1, <2>4 DEF LimitType
    <2> HIDE DEF q, l, moved
    <2>7. FitsAt(l, p) = FitsAt(limits_[i], p) /\ FitsAt(moved, p) = FitsAt(limits_[i], p)
      BY <2>5, <2>6 DEF FitsAt
    <2>8. LimitRight(l, p, ev, without_update_', wakeup_at_', now)
      <3>1. Passed(l, Len(p) - m + q, p, now)
        BY <2>2, <2>5 DEF Passed, q
      <3>2. without_update_' > 0 => m + without_update_' < l.count_ + l.pos_
        BY <1>9, <2>5 DEF q
      <3>3. FitsAt(l, p) <= wakeup_at_' \/ FitsAt(l, p) <= now
        BY <1>10, <2>7
      <3> QED BY <2>4, <2>5, <3>1, <3>2, <3>3 DEF LimitRight
    <2>9. events_' = SubSeq(ev, cut + 1, Len(ev))
      BY <1>1
    <2>10. p \in Seq(Nat) /\ ev \in Seq(Nat) /\ LastEvents(ev, p) /\ cut \in Nat /\ now \in Nat
      BY <1>2, <1>3, <1>7
    <2>11. without_update_' \in Nat /\ wakeup_at_' \in Nat
      BY <1>9, <2>3
    <2>12. /\ cut <= l.pos_ /\ moved.pos_ = l.pos_ - cut
           /\ moved.count_ = l.count_ /\ moved.duration_ = l.duration_
      BY <2>4, <2>5, <2>6
    <2>13. LimitRight(moved, p, events_', without_update_', wakeup_at_', now)
      BY <2>5, <2>6, <2>8, <2>9, <2>10, <2>11, <2>12, DroppedLimit
    <2> QED BY <2>6, <2>7, <2>13 DEF moved
  <1>12. events_' \in Seq(Nat) /\ LastEvents(events_', p)
    BY <1>1, <1>2, <1>7, DroppedEvents
  <1>13. DOMAIN limits_' = DOMAIN limits_ /\ limits_' \in Seq(LimitType)
    <2>1. limits_' = [i \in DOMAIN limits_ |-> limits_'[i]]
      BY <1>1
    <2>2. limits_' \in [1..Len(limits_) -> LimitType]
      BY <1>4, <1>11, <2>1
    <2>3. Len(limits_) \in Nat
      BY <1>3
    <2> QED BY <1>4, <2>2, <2>3, SeqDef
  <1>14. FloodType'
    BY <1>1, <1>2, <1>3, <1>8, <1>9, <1>12, <1>13 DEF FloodType
  <1>15. wakeup_at_' <= now \/ \E i \in DOMAIN limits_ : wakeup_at_' <= FitsAt(limits_[i], p)
    <2>1. CASE wakeup_at_' = wakeup_at_
      <3>1. CASE wakeup_at_ <= now
        BY <2>1, <3>1
      <3>2. CASE \E i \in DOMAIN limits_ : wakeup_at_ <= FitsAt(limits_[i], past)
        <4>1. PICK i \in DOMAIN limits_ : wakeup_at_ <= FitsAt(limits_[i], past)
          BY <3>2
        <4> DEFINE f == FitsAt(limits_[i], past)
                   g == FitsAt(limits_[i], p)
        <4>2. f \in Nat /\ g \in Nat /\ f <= g /\ wakeup_at_ <= f
          BY <1>2, <1>3, <1>4, <4>1, FitsIsNat
        <4>3. wakeup_at_ <= g
          <5> HIDE DEF f, g
          <5> QED BY <1>3, <4>2
        <4> QED BY <2>1, <4>3
      <3> QED BY <3>1, <3>2 DEF StrictInv
    <2>2. CASE \E i \in full : wakeup_at_' = RoomAt(i, pos, ev)
      <3>1. PICK i \in full : wakeup_at_' = RoomAt(i, pos, ev)
        BY <2>2
      <3>2. i \in DOMAIN limits_
        BY DEF full
      <3>3. wakeup_at_' = FitsAt(limits_[i], p) /\ wakeup_at_' \in Nat
        BY <1>1, <1>6, <1>8, <3>1, <3>2
      <3> QED BY <3>2, <3>3
    <2>3. wakeup_at_' \in W
      BY <1>1, <1>8
    <2> QED BY <2>1, <2>2, <2>3 DEF W
  <1>16. wakeup_at_' <= now \/ \E i \in DOMAIN limits_' : wakeup_at_' <= FitsAt(limits_'[i], p)
    BY <1>11, <1>13, <1>15
  <1>17. /\ InTime(past', now') /\ LastEvents(events_', past')
         /\ \A i \in DOMAIN limits_' :
              LimitRight(limits_'[i], past', events_', without_update_', wakeup_at_', now')
         /\ wakeup_at_' <= now' \/ \E i \in DOMAIN limits_' : wakeup_at_' <= FitsAt(limits_'[i], past')
    BY <1>1, <1>2, <1>11, <1>12, <1>13, <1>16
  <1> QED BY <1>14, <1>17 DEF StrictInv

LEMMA ClearedEvents ==
  ASSUME StrictInv, ClearEvents
  PROVE  StrictInv'
PROOF
  <1>1. /\ events_' = <<>> /\ past' = <<>> /\ without_update_' = 0 /\ wakeup_at_' = 0 /\ now' = now
        /\ limits_' = [i \in DOMAIN limits_ |-> [limits_[i] EXCEPT !.pos_ = 0]]
    BY DEF ClearEvents
  <1>2. limits_ \in Seq(LimitType) /\ now \in Nat
    BY DEF StrictInv, FloodType
  <1>3. /\ limits_' \in Seq(LimitType) /\ DOMAIN limits_' = DOMAIN limits_
        /\ \A i \in DOMAIN limits_' : limits_'[i] \in LimitType /\ limits_'[i].pos_ = 0
    <2>1. Len(limits_) \in Nat /\ DOMAIN limits_ = 1..Len(limits_)
      BY <1>2
    <2>2. ASSUME NEW i \in 1..Len(limits_)
          PROVE  [limits_[i] EXCEPT !.pos_ = 0] \in LimitType /\ [limits_[i] EXCEPT !.pos_ = 0].pos_ = 0
      <3>1. limits_[i] \in LimitType
        BY <1>2
      <3> QED BY <3>1 DEF LimitType
    <2>3. limits_' \in [1..Len(limits_) -> LimitType]
      BY <1>1, <2>1, <2>2
    <2>4. limits_' \in Seq(LimitType)
      BY <2>1, <2>3, SeqDef
    <2> QED BY <1>1, <2>1, <2>2, <2>3, <2>4
  <1>4. FloodType'
    BY <1>1, <1>2, <1>3 DEF FloodType
  <1>5. \A i \in DOMAIN limits_' :
          LimitRight(limits_'[i], past', events_', without_update_', wakeup_at_', now')
    <2> SUFFICES ASSUME NEW l \in LimitType, l.pos_ = 0
                 PROVE  LimitRight(l, <<>>, <<>>, 0, 0, now)
      BY <1>1, <1>3
    <2>1. FitsAt(l, <<>>) = 0
      BY DEF FitsAt, LimitType
    <2> QED BY <2>1 DEF LimitRight, Passed
  <1>6. InTime(past', now') /\ LastEvents(events_', past') /\ wakeup_at_' <= now'
    BY <1>1, <1>2 DEF InTime, LastEvents
  <1> QED BY <1>4, <1>5, <1>6 DEF StrictInv

LEMMA TickedFlood ==
  ASSUME StrictInv, FloodTick
  PROVE  StrictInv'
PROOF
  <1>1. /\ now' = now + 1
        /\ UNCHANGED <<limits_, events_, without_update_, wakeup_at_, past>>
    BY DEF FloodTick
  <1>2. /\ limits_ \in Seq(LimitType) /\ now \in Nat /\ wakeup_at_ \in Nat
        /\ past \in Seq(Nat) /\ DOMAIN past = 1..Len(past) /\ Len(past) \in Nat
        /\ Len(events_) \in Nat /\ Len(events_) <= Len(past)
    BY DEF StrictInv, FloodType, LastEvents
  <1>3. FloodType'
    BY <1>1, <1>2 DEF StrictInv, FloodType
  <1>4. InTime(past, now + 1)
    <2>1. \A e \in 1..Len(past) : past[e] \in Nat /\ past[e] <= now
      BY <1>2 DEF StrictInv, InTime
    <2>2. \A e \in 1..Len(past) : past[e] <= now + 1
      BY <1>2, <2>1
    <2> QED BY <1>2, <2>2 DEF StrictInv, InTime
  <1>5. ASSUME NEW i \in DOMAIN limits_
        PROVE  LimitRight(limits_[i], past, events_, without_update_, wakeup_at_, now + 1)
    <2> DEFINE l == limits_[i]
               k == Len(past) - Len(events_) + l.pos_
    <2>1. l \in LimitType
      BY <1>2
    <2>2. l.pos_ \in Nat /\ l.count_ \in Nat \ {0} /\ l.duration_ \in Nat
      BY <2>1 DEF LimitType
    <2>3. LimitRight(l, past, events_, without_update_, wakeup_at_, now)
      BY DEF StrictInv
    <2>4. k \in 0..Len(past)
      <3>1. l.pos_ <= Len(events_)
        BY <2>3 DEF LimitRight
      <3> HIDE DEF l
      <3> QED BY <1>2, <2>2, <3>1
    <2>5. Passed(l, k, past, now + 1)
      <3> SUFFICES ASSUME NEW e \in 1..k
                   PROVE  past[e] + l.duration_ < now + 1 \/ e + l.count_ <= Len(past)
        BY DEF Passed
      <3>1. past[e] + l.duration_ < now \/ e + l.count_ <= Len(past)
        BY <2>3 DEF LimitRight, Passed
      <3>2. e \in 1..Len(past)
        <4> HIDE DEF k
        <4> QED BY <1>2, <2>4
      <3>3. past[e] \in Nat
        BY <1>2, <3>2
      <3> HIDE DEF l, k
      <3> QED BY <1>2, <2>2, <3>1, <3>3
    <2>6. FitsAt(l, past) <= wakeup_at_ \/ FitsAt(l, past) <= now + 1
      <3> DEFINE f == FitsAt(l, past)
      <3>1. f \in Nat /\ (f <= wakeup_at_ \/ f <= now)
        BY <1>2, <2>1, <2>3, FitsIsNat DEF LimitRight
      <3> HIDE DEF f
      <3>2. f <= wakeup_at_ \/ f <= now + 1
        BY <1>2, <3>1
      <3> QED BY <3>2 DEF f
    <2> QED BY <2>3, <2>5, <2>6 DEF LimitRight
  <1>6. wakeup_at_ <= now + 1 \/ \E i \in DOMAIN limits_ : wakeup_at_ <= FitsAt(limits_[i], past)
    BY <1>2 DEF StrictInv
  <1>7. LastEvents(events_, past)
    BY DEF StrictInv
  <1>8. /\ InTime(past', now') /\ LastEvents(events_', past')
        /\ \A i \in DOMAIN limits_' :
             LimitRight(limits_'[i], past', events_', without_update_', wakeup_at_', now')
        /\ wakeup_at_' <= now' \/ \E i \in DOMAIN limits_' : wakeup_at_' <= FitsAt(limits_'[i], past')
    BY <1>1, <1>4, <1>5, <1>6, <1>7
  <1> QED BY <1>3, <1>8 DEF StrictInv

LEMMA NextStrictInv == StrictInv /\ [FloodNext]_floodVars => StrictInv'
PROOF
  <1> SUFFICES ASSUME StrictInv, [FloodNext]_floodVars PROVE StrictInv'
    OBVIOUS
  <1>1. CASE FloodAddEvent
    BY <1>1, CountedEvent, UpdatedEvent
  <1>2. CASE ClearEvents
    BY <1>2, ClearedEvents
  <1>3. CASE FloodTick
    BY <1>3, TickedFlood
  <1>4. CASE UNCHANGED strictVars
    BY <1>4 DEF StrictInv, FloodType, strictVars
  <1>5. GlobalNext => UNCHANGED strictVars
    BY DEF GlobalNext, TryStart, Refuse, FinishGuard, Starts
  <1>6. UNCHANGED floodVars => UNCHANGED strictVars
    BY DEF floodVars
  <1> QED BY <1>1, <1>2, <1>3, <1>4, <1>5, <1>6 DEF FloodNext, StrictNext

(* FloodControlStrict says exactly when the next event fits, though it looks at   *)
(* few of them and forgets the old, and FloodControlGlobal keeps to its limit.    *)
THEOREM FloodIsControlled == FloodSpec => []FloodControlled
  <1>1. FloodSpec => []StrictInv
    BY InitStrictInv, NextStrictInv, PTL DEF FloodSpec
  <1>2. StrictInv /\ GuardsCounted => FloodControlled
    BY StrictInvAgrees DEF FloodControlled
  <1> QED
    BY <1>1, <1>2, GuardsAreCounted, PTL

-----------------------------------------------------------------------------
(* SharedObjectPool, for any holders and any number of objects               *)
-----------------------------------------------------------------------------

Dropping(t, r) == drop[t].op # "none" /\ drop[t].raw = r

(* Pointers to one raw, when thread t has c[t] of them. *)
Pairs(c) == UNION {{t} \X (1..c[t]) : t \in Holder}

PairsTo(p, r) == Pairs([t \in Holder |-> p[t][r]])

SharedPoolType ==
  /\ allocated_ \in 0..MaxRaws /\ queue_head \in 0..MaxRaws
  /\ ref_cnt_ \in [Raw -> Nat] /\ has_data \in [Raw -> BOOLEAN]
  /\ link \in [Raw -> 0..MaxRaws]
  /\ free_reader \in [head : 0..MaxRaws, tail : 0..MaxRaws]
  /\ ptrs \in [Holder -> [Raw -> Nat]]
  /\ drop \in [Holder -> {NoDrop} \union [op : {"destroy", "load", "push"}, raw : Raw]]

(* From node h on there are the n nodes of q, each once. *)
Path(links, h, q, n) ==
  /\ h = IF n = 0 THEN 0 ELSE q[1]
  /\ \A k \in 1..n : links[q[k]] = IF k = n THEN 0 ELSE q[k + 1]
  /\ \A j, k \in 1..n : q[j] = q[k] => j = k

Nodes(q, n) == {q[k] : k \in 1..n}

(* What the reader has, with its tail. *)
ReaderPath(links, rdr, q, n) ==
  /\ Path(links, rdr.head, q, n)
  /\ n > 0 => rdr.tail = q[n]

Counted(p, refs) ==
  \A r \in Raw : IsFiniteSet(PairsTo(p, r)) /\ refs[r] = Cardinality(PairsTo(p, r))

(* A raw has pointers and its data, or is dropped by one thread, or is in F.   *)
RawsPlaced(F) ==
  \A r \in Raw :
    /\ r \in F => /\ r <= allocated_ /\ ref_cnt_[r] = 0 /\ ~has_data[r]
                  /\ \A t \in Holder : ~Dropping(t, r)
    /\ ref_cnt_[r] > 0 => /\ r <= allocated_ /\ has_data[r]
                          /\ \A t \in Holder : ~Dropping(t, r)
    /\ \A t \in Holder : Dropping(t, r) =>
         /\ r <= allocated_
         /\ \A u \in Holder : Dropping(u, r) => u = t
         /\ drop[t].op # "destroy" => ~has_data[r]
    /\ r <= allocated_ => \/ ref_cnt_[r] > 0
                          \/ \E t \in Holder : Dropping(t, r)
                          \/ r \in F

(* The free queue has the nodes of s, the reader those of q. *)
FreeNodes(s, m, q, n) ==
  /\ Path(link, queue_head, s, m)
  /\ ReaderPath(link, free_reader, q, n)
  /\ Nodes(s, m) \intersect Nodes(q, n) = {}
  /\ RawsPlaced(Nodes(s, m) \union Nodes(q, n))

SharedPoolInv ==
  /\ SharedPoolType /\ Counted(ptrs, ref_cnt_)
  /\ \E m, n \in 0..MaxRaws : \E s \in [1..m -> Raw] : \E q \in [1..n -> Raw] : FreeNodes(s, m, q, n)

-----------------------------------------------------------------------------
(* Counting pointers *)

LEMMA PairsIn ==
  ASSUME NEW c, NEW t, NEW k
  PROVE  <<t, k>> \in Pairs(c) <=> t \in Holder /\ k \in 1..c[t]
BY DEF Pairs

LEMMA PairsArePairs ==
  ASSUME NEW c, NEW x \in Pairs(c)
  PROVE  \E t \in Holder : \E k \in 1..c[t] : x = <<t, k>>
BY DEF Pairs

LEMMA PairsGrow ==
  ASSUME NEW c \in [Holder -> Nat], NEW d \in [Holder -> Nat], NEW t \in Holder,
         d[t] = c[t] + 1, \A u \in Holder : u # t => d[u] = c[u]
  PROVE  /\ IsFiniteSet(Pairs(c)) <=> IsFiniteSet(Pairs(d))
         /\ IsFiniteSet(Pairs(c)) => Cardinality(Pairs(d)) = Cardinality(Pairs(c)) + 1
PROOF
  <1> DEFINE x == <<t, c[t] + 1>>
  <1>1. c[t] \in Nat /\ d[t] = c[t] + 1 /\ \A u \in Holder : u # t => d[u] = c[u]
    OBVIOUS
  <1>2. x \notin Pairs(c)
    BY <1>1, PairsIn
  <1>3. Pairs(d) = Pairs(c) \union {x}
    <2>1. ASSUME NEW y \in Pairs(c) PROVE y \in Pairs(d)
      <3>1. PICK u \in Holder : \E k \in 1..c[u] : y = <<u, k>>
        BY PairsArePairs
      <3>2. PICK k \in 1..c[u] : y = <<u, k>>
        BY <3>1
      <3>3. k \in 1..d[u]
        BY <1>1
      <3> QED BY <3>2, <3>3, PairsIn
    <2>2. ASSUME NEW y \in Pairs(d) PROVE y \in Pairs(c) \union {x}
      <3>1. PICK u \in Holder : \E k \in 1..d[u] : y = <<u, k>>
        BY PairsArePairs
      <3>2. PICK k \in 1..d[u] : y = <<u, k>>
        BY <3>1
      <3>3. CASE k \in 1..c[u]
        BY <3>2, <3>3, PairsIn
      <3>4. CASE ~(k \in 1..c[u])
        <4>1. u = t /\ k = c[t] + 1
          BY <1>1, <3>4
        <4> QED BY <3>2, <4>1
      <3> QED BY <3>3, <3>4
    <2>3. x \in Pairs(d)
      <3>1. t \in Holder /\ c[t] + 1 \in 1..d[t]
        BY <1>1
      <3>2. <<t, c[t] + 1>> \in Pairs(d)
        BY <3>1, PairsIn
      <3> QED BY <3>2
    <2> QED BY <2>1, <2>2, <2>3
  <1> HIDE DEF x
  <1>4. IsFiniteSet(Pairs(c)) => IsFiniteSet(Pairs(d)) /\ Cardinality(Pairs(d)) = Cardinality(Pairs(c)) + 1
    <2> DEFINE C == Pairs(c)
               D == Pairs(d)
    <2>1. x \notin C /\ D = C \union {x}
      BY <1>2, <1>3
    <2> HIDE DEF C, D
    <2>2. IsFiniteSet(C) => IsFiniteSet(D) /\ Cardinality(D) = Cardinality(C) + 1
      BY <2>1, FS_AddElement
    <2> QED BY <2>2 DEF C, D
  <1>5. ASSUME IsFiniteSet(Pairs(d)) PROVE IsFiniteSet(Pairs(c))
    <2>1. Pairs(c) \in SUBSET Pairs(d)
      BY <1>3
    <2> DEFINE C == Pairs(c)
               D == Pairs(d)
    <2>2. IsFiniteSet(D) /\ C \in SUBSET D
      BY <1>5, <2>1
    <2> HIDE DEF C, D
    <2>3. IsFiniteSet(C)
      BY <2>2, FS_Subset
    <2> QED BY <2>3 DEF C
  <1> QED BY <1>4, <1>5

(* Few nodes: each is another raw. *)
LEMMA FewNodes ==
  ASSUME NEW n \in Nat, NEW q \in [1..n -> Raw], \A j, k \in 1..n : q[j] = q[k] => j = k
  PROVE  n <= MaxRaws
PROOF
  <1>1. MaxRaws \in Nat
    BY SharedPoolAssumption
  <1>2. q \in Injection(1..n, Raw)
    BY DEF Injection, IsInjective
  <1>3. IsFiniteSet(1..n) /\ Cardinality(1..n) = n
    <2>1. IsFiniteSet(1..n) /\ Cardinality(1..n) = IF 1 > n THEN 0 ELSE n - 1 + 1
      BY FS_Interval
    <2> QED BY <2>1
  <1>4. IsFiniteSet(Raw) /\ Cardinality(Raw) = MaxRaws
    <2>1. IsFiniteSet(1..MaxRaws) /\ Cardinality(1..MaxRaws) = IF 1 > MaxRaws THEN 0 ELSE MaxRaws - 1 + 1
      BY <1>1, FS_Interval
    <2> QED BY <1>1, <2>1 DEF Raw
  <1>5. Cardinality(1..n) <= Cardinality(Raw)
    BY <1>2, <1>3, <1>4, FS_Injection
  <1> QED BY <1>3, <1>4, <1>5

-----------------------------------------------------------------------------
(* Following links *)

(* Chained finds the path that there is. *)
LEMMA ChainedIs ==
  ASSUME NEW links, NEW h, NEW n \in 0..MaxRaws, NEW q \in [1..n -> Raw], Path(links, h, q, n)
  PROVE  Chained(links, h) = q
PROOF
  <1> DEFINE Def(f) == f = [k \in 0..MaxRaws |->
                              IF k = 0 THEN h ELSE IF f[k - 1] = 0 THEN 0 ELSE links[f[k - 1]]]
             NodeAt(k) == IF k < n THEN q[k + 1] ELSE 0
  <1>1. PICK a : a = CHOOSE f : Def(f)
    OBVIOUS
  <1>2. Chained(links, h) = [i \in 1..Cardinality({k \in 0..(MaxRaws - 1) : a[k] # 0}) |-> a[i - 1]]
    BY <1>1 DEF Chained
  <1>3. PICK g : g = [k \in 0..MaxRaws |-> NodeAt(k)]
    OBVIOUS
  <1>4. MaxRaws \in Nat /\ n \in Nat /\ n <= MaxRaws /\ \A k \in 1..n : q[k] \in Raw /\ q[k] # 0
    BY SharedPoolAssumption DEF Raw
  <1>5. NodeAt(0) = h
    BY <1>4 DEF Path
  <1>6. ASSUME NEW k \in 0..MaxRaws, k # 0
        PROVE  NodeAt(k) = IF NodeAt(k - 1) = 0 THEN 0 ELSE links[NodeAt(k - 1)]
    <2>1. CASE k - 1 < n
      <3>1. k \in 1..n /\ k - 1 + 1 = k
        BY <1>4, <1>6, <2>1
      <3>2. NodeAt(k - 1) = q[k] /\ q[k] # 0
        BY <1>4, <2>1, <3>1
      <3>3. links[q[k]] = IF k = n THEN 0 ELSE q[k + 1]
        BY <3>1 DEF Path
      <3>4. k < n <=> k # n
        BY <1>4, <3>1
      <3> QED BY <3>2, <3>3, <3>4
    <2>2. CASE ~(k - 1 < n)
      <3>1. ~(k < n)
        BY <1>4, <1>6, <2>2
      <3> QED BY <2>2, <3>1
    <2> QED BY <2>1, <2>2
  <1>7. Def(g)
    <2>1. \A k \in 0..MaxRaws : g[k] = NodeAt(k)
      BY <1>3
    <2>2. \A k \in 0..MaxRaws : k # 0 => k - 1 \in 0..MaxRaws
      BY <1>4
    <2> HIDE DEF NodeAt
    <2>3. \A k \in 0..MaxRaws : NodeAt(k) = IF k = 0 THEN h ELSE IF g[k - 1] = 0 THEN 0 ELSE links[g[k - 1]]
      BY <1>5, <1>6, <2>1, <2>2
    <2> QED BY <1>3, <2>3
  <1>8. Def(a)
    BY <1>1, <1>7
  <1>9. \A k \in 0..MaxRaws : a[k] = g[k]
    <2>1. PICK T : T = {k \in 0..MaxRaws : a[k] # g[k]}
      OBVIOUS
    <2>2. SUFFICES ASSUME T # {} PROVE FALSE
      BY <2>1
    <2>3. T \in SUBSET Nat
      BY <1>4, <2>1
    <2>4. PICK k \in T : \A m \in T : k <= m
      BY <2>2, <2>3, LeastOf
    <2>5. k \in 0..MaxRaws /\ a[k] # g[k]
      BY <2>1, <2>4
    <2>6. k # 0
      BY <1>7, <1>8, <2>5
    <2>7. k - 1 \in 0..MaxRaws /\ ~(k <= k - 1)
      BY <1>4, <2>5, <2>6
    <2>8. a[k - 1] = g[k - 1]
      BY <2>1, <2>4, <2>7
    <2> QED BY <1>7, <1>8, <2>5, <2>6, <2>8
  <1>10. {k \in 0..(MaxRaws - 1) : a[k] # 0} = 0..(n - 1)
    <2>1. ASSUME NEW k \in 0..(MaxRaws - 1) PROVE a[k] # 0 <=> k \in 0..(n - 1)
      <3>1. k \in 0..MaxRaws /\ (k < n <=> k \in 0..(n - 1)) /\ (k < n => k + 1 \in 1..n)
        BY <1>4
      <3>2. a[k] = NodeAt(k)
        BY <1>3, <1>9, <3>1
      <3> QED BY <1>4, <3>1, <3>2
    <2>2. 0..(n - 1) \subseteq 0..(MaxRaws - 1)
      BY <1>4
    <2> QED BY <2>1, <2>2
  <1>11. Cardinality(0..(n - 1)) = n
    <2>1. 0 \in Int /\ n - 1 \in Int
      BY <1>4
    <2>2. Cardinality(0..(n - 1)) = IF 0 > n - 1 THEN 0 ELSE n - 1 - 0 + 1
      BY <2>1, FS_Interval
    <2> QED BY <1>4, <2>2
  <1>12. \A i \in 1..n : a[i - 1] = q[i]
    <2> SUFFICES ASSUME NEW i \in 1..n PROVE a[i - 1] = q[i]
      OBVIOUS
    <2>1. i - 1 \in 0..MaxRaws /\ i - 1 < n /\ i - 1 + 1 = i
      BY <1>4
    <2> QED BY <1>3, <1>9, <2>1
  <1>13. Chained(links, h) = [i \in 1..n |-> a[i - 1]]
    BY <1>2, <1>10, <1>11
  <1> QED BY <1>12, <1>13

(* What the reader has after pop_all: its nodes, and those of the stack turned   *)
(* round.                                                                    *)
TurnedRound(s, m, q, n) == [k \in 1..(m + n) |-> IF k <= n THEN q[k] ELSE s[m + n + 1 - k]]

(* w turns the nodes of s round behind those of q. *)
TurnedBehind(w, s, m, q, n) ==
  /\ Path(link, queue_head, s, m) /\ ReaderPath(link, free_reader, q, n)
  /\ Nodes(s, m) \intersect Nodes(q, n) = {}
  /\ w = TurnedRound(s, m, q, n)

LEMMA AllPopped ==
  ASSUME SharedPoolType, NEW m \in 0..MaxRaws, NEW n \in 0..MaxRaws,
         NEW s \in [1..m -> Raw], NEW q \in [1..n -> Raw],
         NEW w, TurnedBehind(w, s, m, q, n)
  PROVE  /\ PoppedAll.links \in [Raw -> 0..MaxRaws]
         /\ PoppedAll.reader \in [head : 0..MaxRaws, tail : 0..MaxRaws]
         /\ m + n \in 0..MaxRaws /\ w \in [1..(m + n) -> Raw]
         /\ Nodes(w, m + n) = Nodes(s, m) \union Nodes(q, n)
         /\ ReaderPath(PoppedAll.links, PoppedAll.reader, w, m + n)
PROOF
  <1> SUFFICES ASSUME Path(link, queue_head, s, m), ReaderPath(link, free_reader, q, n),
                      Nodes(s, m) \intersect Nodes(q, n) = {}, w = TurnedRound(s, m, q, n)
               PROVE  /\ PoppedAll.links \in [Raw -> 0..MaxRaws]
                      /\ PoppedAll.reader \in [head : 0..MaxRaws, tail : 0..MaxRaws]
                      /\ m + n \in 0..MaxRaws /\ w \in [1..(m + n) -> Raw]
                      /\ Nodes(w, m + n) = Nodes(s, m) \union Nodes(q, n)
                      /\ ReaderPath(PoppedAll.links, PoppedAll.reader, w, m + n)
    BY DEF TurnedBehind
  <1> DEFINE N == m + n
             T(k) == N + 1 - k
             links == PoppedAll.links
             rdr == PoppedAll.reader
  <1>1. /\ MaxRaws \in Nat /\ m \in Nat /\ n \in Nat /\ N \in Nat
        /\ \A k \in 1..m : s[k] \in Raw /\ s[k] # 0 /\ s[k] \in 0..MaxRaws
        /\ \A k \in 1..n : q[k] \in Raw /\ q[k] # 0 /\ q[k] \in 0..MaxRaws
    BY SharedPoolAssumption DEF Raw
  <1>2. /\ \A j, k \in 1..m : s[j] = s[k] => j = k
        /\ \A j, k \in 1..n : q[j] = q[k] => j = k
        /\ \A j \in 1..m : \A k \in 1..n : s[j] # q[k]
    <2>1. \A j, k \in 1..m : s[j] = s[k] => j = k
      BY DEF Path
    <2>2. \A j, k \in 1..n : q[j] = q[k] => j = k
      BY DEF Path, ReaderPath
    <2>3. \A j \in 1..m : \A k \in 1..n : s[j] # q[k]
      BY DEF Nodes
    <2> QED BY <2>1, <2>2, <2>3
  <1>3. /\ \A k \in 1..N : k <= n => k \in 1..n /\ w[k] = q[k]
        /\ \A k \in 1..N : ~(k <= n) => T(k) \in 1..m /\ w[k] = s[T(k)]
        /\ \A j \in 1..m : T(j) \in 1..N /\ ~(T(j) <= n) /\ T(T(j)) = j
        /\ \A k \in 1..n : k \in 1..N /\ k <= n
    <2>1. \A k \in 1..N : w[k] = IF k <= n THEN q[k] ELSE s[T(k)]
      BY DEF TurnedRound
    <2>2. \A k \in 1..N : (k <= n => k \in 1..n) /\ (~(k <= n) => T(k) \in 1..m)
      BY <1>1
    <2>3. \A j \in 1..m : T(j) \in 1..N /\ ~(T(j) <= n) /\ T(T(j)) = j
      BY <1>1
    <2>4. \A k \in 1..n : k \in 1..N /\ k <= n
      BY <1>1
    <2> QED BY <2>1, <2>2, <2>3, <2>4
  <1>4. w \in [1..N -> Raw]
    <2>1. w = [k \in 1..N |-> w[k]]
      BY DEF TurnedRound
    <2>2. \A k \in 1..N : w[k] \in Raw
      BY <1>1, <1>3
    <2> HIDE DEF N
    <2> QED BY <2>1, <2>2
  <1>5. \A j, k \in 1..N : w[j] = w[k] => j = k
    <2> SUFFICES ASSUME NEW j \in 1..N, NEW k \in 1..N, w[j] = w[k] PROVE j = k
      OBVIOUS
    <2>1. CASE j <= n /\ k <= n
      BY <1>2, <1>3, <2>1
    <2>2. CASE ~(j <= n) /\ ~(k <= n)
      <3>1. T(j) = T(k)
        <4> HIDE DEF T
        <4> QED BY <1>2, <1>3, <2>2
      <3> QED BY <1>1, <3>1
    <2>3. CASE j <= n /\ ~(k <= n)
      BY <1>2, <1>3, <2>3
    <2>4. CASE ~(j <= n) /\ k <= n
      BY <1>2, <1>3, <2>4
    <2> QED BY <2>1, <2>2, <2>3, <2>4
  <1>6. N \in 0..MaxRaws
    <2>1. N \in Nat
      BY <1>1
    <2> HIDE DEF N
    <2>2. N <= MaxRaws
      BY <1>4, <1>5, <2>1, FewNodes
    <2> QED BY <2>1, <2>2, SharedPoolAssumption
  <1>7. Nodes(w, N) = Nodes(s, m) \union Nodes(q, n)
    <2>1. ASSUME NEW x \in Nodes(w, N) PROVE x \in Nodes(s, m) \union Nodes(q, n)
      <3>1. PICK k \in 1..N : x = w[k]
        BY DEF Nodes
      <3>2. CASE k <= n
        <4>1. k \in 1..n /\ x = q[k]
          BY <1>3, <3>1, <3>2
        <4> QED BY <4>1 DEF Nodes
      <3>3. CASE ~(k <= n)
        <4>1. \E j \in 1..m : x = s[j]
          BY <1>3, <3>1, <3>3
        <4> QED BY <4>1 DEF Nodes
      <3> QED BY <3>2, <3>3
    <2>2. ASSUME NEW k \in 1..n PROVE q[k] \in Nodes(w, N)
      BY <1>3 DEF Nodes
    <2>3. ASSUME NEW j \in 1..m PROVE s[j] \in Nodes(w, N)
      <3>1. T(j) \in 1..N /\ w[T(j)] = s[j]
        <4> HIDE DEF T
        <4> QED BY <1>3
      <3> QED BY <3>1 DEF Nodes
    <2> QED BY <2>1, <2>2, <2>3 DEF Nodes
  <1>8. CASE queue_head = 0
    <2>1. m = 0 /\ N = n
      BY <1>1, <1>8 DEF Path
    <2>2. links = link /\ rdr = free_reader
      BY <1>8 DEF PoppedAll, Add
    <2>3. \A k \in 1..n : w[k] = q[k]
      BY <1>3
    <2>4. ReaderPath(link, free_reader, w, n)
      <3>1. n # 0 => 1 \in 1..n /\ n \in 1..n
        BY <1>1
      <3>2. \A k \in 1..n : k # n => k + 1 \in 1..n
        BY <1>1
      <3>3. n > 0 => n # 0
        BY <1>1
      <3> QED BY <1>2, <2>3, <3>1, <3>2, <3>3 DEF ReaderPath, Path
    <2> QED BY <1>4, <1>6, <1>7, <2>1, <2>2, <2>4 DEF SharedPoolType
  <1>9. CASE queue_head # 0
    <2>1. m # 0 /\ m \in 1..m /\ 1 \in 1..m /\ queue_head = s[1]
      BY <1>1, <1>9 DEF Path
    <2>2. Chained(link, queue_head) = s /\ Len(s) = m
      BY <1>1, ChainedIs
    <2> DEFINE InStack(r) == \E i \in 1..m : s[i] = r
               at(r) == CHOOSE j \in 1..m : s[j] = r
               empty == free_reader.head = 0
    <2>3. /\ links = [r \in Raw |->
                        IF InStack(r) THEN IF at(r) = 1 THEN 0 ELSE s[at(r) - 1]
                        ELSE IF free_reader.head # 0 /\ r = free_reader.tail THEN s[m] ELSE link[r]]
          /\ rdr = [head |-> IF free_reader.head = 0 THEN s[m] ELSE free_reader.head, tail |-> s[1]]
      BY <1>9, <2>1, <2>2, Zenon DEF PoppedAll, Add, NewTail
    <2>4. /\ free_reader.head = IF n = 0 THEN 0 ELSE q[1]
          /\ n > 0 => free_reader.tail = q[n] /\ n \in 1..n /\ 1 \in 1..n
          /\ n # 0 => free_reader.head # 0
          /\ \A k \in 1..n : link[q[k]] = IF k = n THEN 0 ELSE q[k + 1]
      BY <1>1 DEF ReaderPath, Path
    <2>5. ASSUME NEW j \in 1..m PROVE InStack(s[j]) /\ at(s[j]) = j
      <3>1. at(s[j]) \in 1..m /\ s[at(s[j])] = s[j]
        OBVIOUS
      <3> QED BY <1>2, <3>1
    <2>6. ASSUME NEW r \in Raw, InStack(r) PROVE at(r) \in 1..m /\ (at(r) # 1 => at(r) - 1 \in 1..m)
      <3>1. at(r) \in 1..m
        BY <2>6
      <3> HIDE DEF at
      <3> QED BY <1>1, <3>1
    <2>7. links \in [Raw -> 0..MaxRaws]
      <3>1. 0 \in 0..MaxRaws /\ \A r \in Raw : link[r] \in 0..MaxRaws
        BY <1>1 DEF SharedPoolType
      <3>2. ASSUME NEW r \in Raw
            PROVE  (IF InStack(r) THEN IF at(r) = 1 THEN 0 ELSE s[at(r) - 1]
                    ELSE IF free_reader.head # 0 /\ r = free_reader.tail THEN s[m] ELSE link[r]) \in 0..MaxRaws
        <4> HIDE DEF at, InStack
        <4> QED BY <1>1, <2>1, <2>6, <3>1
      <3> HIDE DEF at, InStack, links
      <3> QED BY <2>3, <3>2
    <2>8. rdr \in [head : 0..MaxRaws, tail : 0..MaxRaws]
      <3>1. free_reader.head \in 0..MaxRaws
        BY DEF SharedPoolType
      <3> HIDE DEF rdr
      <3> QED BY <1>1, <2>1, <2>3, <3>1
    <2>9. /\ \A j \in 1..m : links[s[j]] = IF j = 1 THEN 0 ELSE s[j - 1]
          /\ \A k \in 1..n : links[q[k]] = IF k = n THEN s[m] ELSE q[k + 1]
      <3>1. ASSUME NEW j \in 1..m PROVE links[s[j]] = IF j = 1 THEN 0 ELSE s[j - 1]
        <4> HIDE DEF at, InStack, links
        <4> QED BY <1>1, <2>3, <2>5
      <3>2. ASSUME NEW k \in 1..n PROVE links[q[k]] = IF k = n THEN s[m] ELSE q[k + 1]
        <4>1. ~InStack(q[k])
          BY <1>2
        <4>2. n > 0 /\ n # 0
          BY <1>1
        <4>3. q[k] = free_reader.tail <=> k = n
          BY <1>2, <2>4, <4>2
        <4> HIDE DEF at, InStack, links
        <4> QED BY <1>1, <2>3, <2>4, <4>1, <4>2, <4>3
      <3> QED BY <3>1, <3>2
    <2> HIDE DEF links, rdr
    <2>10. rdr.head = w[1] /\ rdr.tail = w[N] /\ N # 0 /\ N > 0
      <3>1. N # 0 /\ N > 0 /\ 1 \in 1..N /\ N \in 1..N /\ ~(N <= n) /\ T(N) = 1
        BY <1>1, <2>1
      <3>2. w[N] = s[1]
        BY <1>3, <3>1
      <3>3. CASE n = 0
        <4>1. T(1) = m /\ ~(1 <= n)
          BY <1>1, <3>3
        <4>2. w[1] = s[m]
          BY <1>3, <3>1, <4>1
        <4> QED BY <2>3, <2>4, <3>1, <3>2, <3>3, <4>2
      <3>4. CASE n # 0
        <4>1. 1 <= n
          BY <1>1, <3>4
        <4>2. w[1] = q[1]
          BY <1>3, <3>1, <4>1
        <4> QED BY <2>3, <2>4, <3>1, <3>2, <3>4, <4>2
      <3> QED BY <3>3, <3>4
    <2>11. ASSUME NEW k \in 1..N PROVE links[w[k]] = IF k = N THEN 0 ELSE w[k + 1]
      <3>1. CASE k < n
        <4>1. k \in 1..n /\ k <= n /\ k + 1 \in 1..N /\ k + 1 <= n /\ k # n /\ k # N
          BY <1>1, <3>1
        <4> QED BY <1>3, <2>9, <4>1
      <3>2. CASE k = n
        <4>1. k \in 1..n /\ k <= n /\ k + 1 \in 1..N /\ ~(k + 1 <= n) /\ k # N /\ T(k + 1) = m
          BY <1>1, <2>1, <3>2
        <4>2. w[k + 1] = s[m] /\ w[k] = q[k]
          BY <1>3, <4>1
        <4> QED BY <2>9, <3>2, <4>1, <4>2
      <3>3. CASE k > n
        <4>1. ~(k <= n) /\ T(k) \in 1..m /\ (k = N <=> T(k) = 1)
          BY <1>1, <3>3
        <4>2. k # N => k + 1 \in 1..N /\ ~(k + 1 <= n) /\ T(k + 1) = T(k) - 1
          BY <1>1, <3>3
        <4>3. w[k] = s[T(k)] /\ (k # N => w[k + 1] = s[T(k) - 1])
          BY <1>3, <4>1, <4>2
        <4> HIDE DEF T
        <4> QED BY <2>9, <4>1, <4>3
      <3> QED BY <1>1, <3>1, <3>2, <3>3
    <2>12. ReaderPath(links, rdr, w, N)
      <3> HIDE DEF N
      <3> QED BY <1>5, <2>10, <2>11 DEF ReaderPath, Path
    <2> QED BY <1>4, <1>6, <1>7, <2>7, <2>8, <2>12 DEF links, rdr
  <1> QED BY <1>8, <1>9

-----------------------------------------------------------------------------
(* The steps *)

(* p2 and refs2 are p and refs with one pointer of t to r more.                *)
OneMore(p, refs, t, r, p2, refs2) ==
  /\ p2[t][r] = p[t][r] + 1 /\ refs2[r] = refs[r] + 1
  /\ \A u \in Holder : \A x \in Raw : u # t \/ x # r => p2[u][x] = p[u][x]
  /\ \A x \in Raw : x # r => refs2[x] = refs[x]

LEMMA CountedMore ==
  ASSUME NEW p \in [Holder -> [Raw -> Nat]], NEW refs \in [Raw -> Nat],
         NEW p2 \in [Holder -> [Raw -> Nat]], NEW refs2 \in [Raw -> Nat],
         NEW t \in Holder, NEW r \in Raw, OneMore(p, refs, t, r, p2, refs2)
  PROVE  Counted(p, refs) <=> Counted(p2, refs2)
PROOF
  <1> DEFINE c == [u \in Holder |-> p[u][r]]
             d == [u \in Holder |-> p2[u][r]]
  <1>1. /\ p2[t][r] = p[t][r] + 1 /\ refs2[r] = refs[r] + 1
        /\ \A u \in Holder : u # t => p2[u][r] = p[u][r]
        /\ \A u \in Holder : \A x \in Raw : x # r => p2[u][x] = p[u][x]
        /\ \A x \in Raw : x # r => refs2[x] = refs[x]
    BY DEF OneMore
  <1>2. /\ c \in [Holder -> Nat] /\ d \in [Holder -> Nat]
        /\ d[t] = c[t] + 1 /\ \A u \in Holder : u # t => d[u] = c[u]
    BY <1>1
  <1>3. PairsTo(p, r) = Pairs(c) /\ PairsTo(p2, r) = Pairs(d)
    BY DEF PairsTo
  <1> HIDE DEF c, d
  <1>4. /\ IsFiniteSet(PairsTo(p, r)) <=> IsFiniteSet(PairsTo(p2, r))
        /\ IsFiniteSet(PairsTo(p, r)) => Cardinality(PairsTo(p2, r)) = Cardinality(PairsTo(p, r)) + 1
    BY <1>2, <1>3, PairsGrow
  <1>5. IsFiniteSet(PairsTo(p, r)) => Cardinality(PairsTo(p, r)) \in Nat
    BY FS_CardinalityType
  <1>6. /\ IsFiniteSet(PairsTo(p, r)) /\ refs[r] = Cardinality(PairsTo(p, r))
        <=> IsFiniteSet(PairsTo(p2, r)) /\ refs2[r] = Cardinality(PairsTo(p2, r))
    <2> DEFINE a == Cardinality(PairsTo(p, r))
               b == Cardinality(PairsTo(p2, r))
    <2>1. IsFiniteSet(PairsTo(p, r)) => a \in Nat /\ b = a + 1
      BY <1>4, <1>5
    <2> HIDE DEF a, b
    <2>2. ASSUME IsFiniteSet(PairsTo(p, r)) PROVE refs[r] = a <=> refs2[r] = b
      <3>1. refs[r] \in Nat /\ refs2[r] = refs[r] + 1 /\ a \in Nat /\ b = a + 1
        BY <1>1, <2>1, <2>2
      <3>2. ASSUME NEW x \in Nat, NEW y \in Nat PROVE x = y <=> x + 1 = y + 1
        OBVIOUS
      <3>3. refs[r] = a <=> refs[r] + 1 = a + 1
        BY <3>1, <3>2
      <3>4. refs2[r] = refs[r] + 1 /\ b = a + 1
        BY <3>1
      <3> QED BY <3>3, <3>4, Zenon
    <2> QED BY <1>4, <2>2 DEF a, b
  <1>7. ASSUME NEW x \in Raw, x # r PROVE PairsTo(p2, x) = PairsTo(p, x) /\ refs2[x] = refs[x]
    <2>1. [u \in Holder |-> p2[u][x]] = [u \in Holder |-> p[u][x]]
      BY <1>1, <1>7
    <2> QED BY <1>1, <1>7, <2>1 DEF PairsTo
  <1> QED BY <1>6, <1>7 DEF Counted

LEMMA PtrIsCounted ==
  ASSUME NEW p \in [Holder -> [Raw -> Nat]], NEW refs \in [Raw -> Nat], Counted(p, refs),
         NEW t \in Holder, NEW r \in Raw, p[t][r] > 0
  PROVE  refs[r] > 0
PROOF
  <1> DEFINE c == [u \in Holder |-> p[u][r]]
  <1>1. <<t, 1>> \in Pairs(c)
    <2>1. 1 \in 1..c[t]
      OBVIOUS
    <2> HIDE DEF c
    <2> QED BY <2>1, PairsIn
  <1>2. IsFiniteSet(PairsTo(p, r)) /\ refs[r] = Cardinality(PairsTo(p, r)) /\ PairsTo(p, r) # {}
    BY <1>1 DEF Counted, PairsTo
  <1>3. refs[r] # 0
    BY <1>2, FS_EmptySet
  <1> QED BY <1>3

(* The paths are the same while the links of their nodes are.                  *)
LEMMA PathKept ==
  ASSUME NEW links, NEW h, NEW q, NEW n, Path(links, h, q, n), NEW links2,
         \A x \in Nodes(q, n) : links2[x] = links[x]
  PROVE  Path(links2, h, q, n)
BY DEF Path, Nodes

LEMMA InitSharedPool == SharedPoolInit => SharedPoolInv
PROOF
  <1> SUFFICES ASSUME SharedPoolInit PROVE SharedPoolInv
    OBVIOUS
  <1>1. /\ allocated_ = 0 /\ queue_head = 0 /\ free_reader = [head |-> 0, tail |-> 0]
        /\ ref_cnt_ = [r \in Raw |-> 0] /\ has_data = [r \in Raw |-> FALSE] /\ link = [r \in Raw |-> 0]
        /\ ptrs = [t \in Holder |-> [r \in Raw |-> 0]] /\ drop = [t \in Holder |-> NoDrop]
    BY DEF SharedPoolInit
  <1>2. MaxRaws \in Nat /\ 0 \in 0..MaxRaws
    BY SharedPoolAssumption
  <1>3. SharedPoolType
    BY <1>1, <1>2 DEF SharedPoolType
  <1>4. ASSUME NEW r \in Raw PROVE IsFiniteSet(PairsTo(ptrs, r)) /\ ref_cnt_[r] = Cardinality(PairsTo(ptrs, r))
    <2>1. \A t \in Holder : ptrs[t][r] = 0
      BY <1>1
    <2>2. PairsTo(ptrs, r) = {}
      BY <2>1 DEF PairsTo, Pairs
    <2> QED BY <1>1, <2>2, FS_EmptySet
  <1>5. PICK s : s \in [1..0 -> Raw]
    <2>1. [i \in 1..0 |-> 1] \in [1..0 -> Raw]
      OBVIOUS
    <2> QED BY <2>1
  <1>6. Path(link, 0, s, 0) /\ Nodes(s, 0) = {}
    BY DEF Path, Nodes
  <1>7. RawsPlaced({})
    <2>1. \A r \in Raw : ref_cnt_[r] = 0 /\ ~(r <= allocated_)
      BY <1>1, <1>2 DEF Raw
    <2>2. \A t \in Holder : \A r \in Raw : ~Dropping(t, r)
      BY <1>1 DEF Dropping, NoDrop
    <2> QED BY <2>1, <2>2 DEF RawsPlaced
  <1>8. FreeNodes(s, 0, s, 0)
    BY <1>1, <1>6, <1>7 DEF FreeNodes, ReaderPath
  <1> QED BY <1>2, <1>3, <1>4, <1>5, <1>8 DEF SharedPoolInv, Counted

(* What a step other than the allocator's does to one raw, r, in the hands of t. *)
LEMMA PlaceOfRaw ==
  ASSUME SharedPoolInv
  PROVE  /\ ptrs \in [Holder -> [Raw -> Nat]] /\ ref_cnt_ \in [Raw -> Nat]
         /\ Counted(ptrs, ref_cnt_)
         /\ \A t \in Holder : \A r \in Raw : ptrs[t][r] > 0 => ref_cnt_[r] > 0
         /\ \A t \in Holder : drop[t].op # "none" => drop[t].raw \in Raw /\ Dropping(t, drop[t].raw)
         /\ \A t \in Holder : drop[t].op # "none" => drop[t].op \in {"destroy", "load", "push"}
         /\ \A t \in Holder : drop[t].op = "none" => drop[t] = NoDrop
PROOF
  <1>1. SharedPoolType /\ Counted(ptrs, ref_cnt_)
    BY DEF SharedPoolInv
  <1>2. ptrs \in [Holder -> [Raw -> Nat]] /\ ref_cnt_ \in [Raw -> Nat]
    BY <1>1 DEF SharedPoolType
  <1>3. \A t \in Holder : \A r \in Raw : ptrs[t][r] > 0 => ref_cnt_[r] > 0
    BY <1>1, <1>2, PtrIsCounted
  <1>4. ASSUME NEW t \in Holder
        PROVE  /\ drop[t].op # "none" => drop[t].raw \in Raw /\ drop[t].op \in {"destroy", "load", "push"}
               /\ drop[t].op = "none" => drop[t] = NoDrop
    BY <1>1 DEF SharedPoolType, NoDrop
  <1> QED BY <1>1, <1>2, <1>3, <1>4 DEF Dropping

(* Nothing is dropped, pushed or taken. *)
LEMMA PlacesKept ==
  ASSUME SharedPoolInv, SharedPoolType', Counted(ptrs, ref_cnt_)',
         UNCHANGED <<allocated_, has_data, link, queue_head, free_reader, drop>>,
         \A r \in Raw : ref_cnt_'[r] > 0 <=> ref_cnt_[r] > 0
  PROVE  SharedPoolInv'
PROOF
  <1>1. PICK m \in 0..MaxRaws : \E n \in 0..MaxRaws : \E s \in [1..m -> Raw] : \E q \in [1..n -> Raw] :
          FreeNodes(s, m, q, n)
    BY DEF SharedPoolInv
  <1>2. PICK n \in 0..MaxRaws : \E s \in [1..m -> Raw] : \E q \in [1..n -> Raw] : FreeNodes(s, m, q, n)
    BY <1>1
  <1>3. PICK s \in [1..m -> Raw] : \E q \in [1..n -> Raw] : FreeNodes(s, m, q, n)
    BY <1>2
  <1>4. PICK q \in [1..n -> Raw] : FreeNodes(s, m, q, n)
    BY <1>3
  <1>5. PICK F : F = Nodes(s, m) \union Nodes(q, n)
    OBVIOUS
  <1>6. RawsPlaced(F)
    BY <1>4, <1>5 DEF FreeNodes
  <1>7. RawsPlaced(F)'
    <2>1. \A r \in Raw : ref_cnt_[r] = 0 => ref_cnt_'[r] = 0
      <3>1. \A r \in Raw : ref_cnt_[r] \in Nat /\ ref_cnt_'[r] \in Nat
        BY DEF SharedPoolInv, SharedPoolType
      <3> QED BY <3>1
    <2>2. \A t \in Holder : \A r \in Raw : Dropping(t, r)' <=> Dropping(t, r)
      BY DEF Dropping
    <2> QED BY <1>6, <2>1, <2>2 DEF RawsPlaced
  <1>8. FreeNodes(s, m, q, n)'
    BY <1>4, <1>5, <1>7 DEF FreeNodes
  <1> QED BY <1>8 DEF SharedPoolInv

LEMMA CopyPtrSafe ==
  ASSUME SharedPoolInv, NEW t \in Holder, NEW r \in Raw, CopyPtr(t, r)
  PROVE  SharedPoolInv'
PROOF
  <1>1. /\ ref_cnt_' = [ref_cnt_ EXCEPT ![r] = @ + 1] /\ ptrs' = [ptrs EXCEPT ![t][r] = @ + 1]
        /\ UNCHANGED <<allocated_, has_data, link, queue_head, free_reader, drop>> /\ ptrs[t][r] > 0
    BY DEF CopyPtr
  <1>2. /\ ptrs \in [Holder -> [Raw -> Nat]] /\ ref_cnt_ \in [Raw -> Nat]
        /\ Counted(ptrs, ref_cnt_) /\ ref_cnt_[r] > 0
    BY <1>1, PlaceOfRaw
  <1>3. ptrs' \in [Holder -> [Raw -> Nat]] /\ ref_cnt_' \in [Raw -> Nat]
    BY <1>1, <1>2
  <1>4. OneMore(ptrs, ref_cnt_, t, r, ptrs', ref_cnt_')
    BY <1>1, <1>2 DEF OneMore
  <1>5. Counted(ptrs', ref_cnt_')
    BY <1>2, <1>3, <1>4, CountedMore
  <1>6. SharedPoolType'
    BY <1>1, <1>3 DEF SharedPoolInv, SharedPoolType
  <1>7. \A x \in Raw : ref_cnt_'[x] > 0 <=> ref_cnt_[x] > 0
    BY <1>1, <1>2
  <1> QED BY <1>1, <1>5, <1>6, <1>7, PlacesKept

LEMMA MovePtrSafe ==
  ASSUME SharedPoolInv, NEW t \in Holder, NEW u \in Holder, NEW r \in Raw, MovePtr(t, u, r)
  PROVE  SharedPoolInv'
PROOF
  <1>1. /\ ptrs' = [ptrs EXCEPT ![t][r] = @ - 1, ![u][r] = @ + 1]
        /\ UNCHANGED <<allocated_, ref_cnt_, has_data, link, queue_head, free_reader, drop>>
        /\ ptrs[t][r] > 0 /\ u # t
    BY DEF MovePtr, raws
  <1>2. /\ ptrs \in [Holder -> [Raw -> Nat]] /\ ref_cnt_ \in [Raw -> Nat]
        /\ Counted(ptrs, ref_cnt_) /\ ref_cnt_[r] > 0
    BY <1>1, PlaceOfRaw
  <1>3. PICK p : p = [ptrs EXCEPT ![t][r] = @ - 1]
    OBVIOUS
  <1>4. PICK refs : refs = [ref_cnt_ EXCEPT ![r] = @ - 1]
    OBVIOUS
  <1>5. /\ ptrs[t][r] \in Nat /\ ptrs[t][r] - 1 \in Nat /\ ptrs[t][r] - 1 + 1 = ptrs[t][r]
        /\ ref_cnt_[r] - 1 \in Nat /\ ref_cnt_[r] - 1 + 1 = ref_cnt_[r]
    BY <1>1, <1>2
  <1>6. p \in [Holder -> [Raw -> Nat]] /\ refs \in [Raw -> Nat]
    BY <1>2, <1>3, <1>4, <1>5
  <1>7. OneMore(p, refs, t, r, ptrs, ref_cnt_)
    BY <1>2, <1>3, <1>4, <1>5 DEF OneMore
  <1>8. Counted(p, refs)
    BY <1>2, <1>6, <1>7, CountedMore
  <1>9. ptrs' = [p EXCEPT ![u][r] = @ + 1]
    BY <1>1, <1>2, <1>3
  <1>10. ptrs' \in [Holder -> [Raw -> Nat]]
    BY <1>6, <1>9
  <1>11. OneMore(p, refs, u, r, ptrs', ref_cnt_)
    <2>1. ptrs'[u][r] = p[u][r] + 1
      BY <1>6, <1>9
    <2>2. \A v \in Holder : \A x \in Raw : v # u \/ x # r => ptrs'[v][x] = p[v][x]
      BY <1>6, <1>9
    <2>3. ref_cnt_[r] = refs[r] + 1 /\ \A x \in Raw : x # r => ref_cnt_[x] = refs[x]
      BY <1>7 DEF OneMore
    <2> QED BY <2>1, <2>2, <2>3 DEF OneMore
  <1>12. Counted(ptrs', ref_cnt_)
    BY <1>2, <1>6, <1>8, <1>10, <1>11, CountedMore
  <1>13. SharedPoolType'
    BY <1>1, <1>10 DEF SharedPoolInv, SharedPoolType
  <1>14. Counted(ptrs, ref_cnt_)'
    BY <1>1, <1>12
  <1> QED BY <1>1, <1>13, <1>14, PlacesKept

LEMMA ResetSafe ==
  ASSUME SharedPoolInv, NEW t \in Holder, NEW r \in Raw, Reset(t, r)
  PROVE  SharedPoolInv'
PROOF
  <1>1. /\ ptrs' = [ptrs EXCEPT ![t][r] = @ - 1] /\ ref_cnt_' = [ref_cnt_ EXCEPT ![r] = @ - 1]
        /\ drop' = [drop EXCEPT ![t] = IF ref_cnt_[r] = 1 THEN [op |-> "destroy", raw |-> r] ELSE NoDrop]
        /\ UNCHANGED <<allocated_, has_data, link, queue_head, free_reader>>
        /\ ptrs[t][r] > 0 /\ drop[t].op = "none"
    BY DEF Reset
  <1>2. /\ ptrs \in [Holder -> [Raw -> Nat]] /\ ref_cnt_ \in [Raw -> Nat]
        /\ Counted(ptrs, ref_cnt_) /\ ref_cnt_[r] > 0
    BY <1>1, PlaceOfRaw
  <1>3. /\ ptrs[t][r] \in Nat /\ ptrs[t][r] - 1 \in Nat /\ ptrs[t][r] - 1 + 1 = ptrs[t][r]
        /\ ref_cnt_[r] \in Nat /\ ref_cnt_[r] - 1 \in Nat /\ ref_cnt_[r] - 1 + 1 = ref_cnt_[r]
    BY <1>1, <1>2
  <1>4. ptrs' \in [Holder -> [Raw -> Nat]] /\ ref_cnt_' \in [Raw -> Nat]
    BY <1>1, <1>2, <1>3
  <1>5. OneMore(ptrs', ref_cnt_', t, r, ptrs, ref_cnt_)
    BY <1>1, <1>2, <1>3 DEF OneMore
  <1>6. Counted(ptrs', ref_cnt_')
    BY <1>2, <1>4, <1>5, CountedMore
  <1>7. drop \in [Holder -> {NoDrop} \union [op : {"destroy", "load", "push"}, raw : Raw]]
    BY DEF SharedPoolInv, SharedPoolType
  <1>8. drop' \in [Holder -> {NoDrop} \union [op : {"destroy", "load", "push"}, raw : Raw]]
    <2>1. [op |-> "destroy", raw |-> r] \in [op : {"destroy", "load", "push"}, raw : Raw]
      OBVIOUS
    <2> QED BY <1>1, <1>7, <2>1
  <1>9. SharedPoolType'
    BY <1>1, <1>4, <1>8 DEF SharedPoolInv, SharedPoolType
  <1>10. PICK m \in 0..MaxRaws : \E n \in 0..MaxRaws : \E s \in [1..m -> Raw] : \E q \in [1..n -> Raw] :
           FreeNodes(s, m, q, n)
    BY DEF SharedPoolInv
  <1>11. PICK n \in 0..MaxRaws : \E s \in [1..m -> Raw] : \E q \in [1..n -> Raw] : FreeNodes(s, m, q, n)
    BY <1>10
  <1>12. PICK s \in [1..m -> Raw] : \E q \in [1..n -> Raw] : FreeNodes(s, m, q, n)
    BY <1>11
  <1>13. PICK q \in [1..n -> Raw] : FreeNodes(s, m, q, n)
    BY <1>12
  <1>14. PICK F : F = Nodes(s, m) \union Nodes(q, n)
    OBVIOUS
  <1>15. RawsPlaced(F)
    BY <1>13, <1>14 DEF FreeNodes
  <1>16. /\ r <= allocated_ /\ has_data[r] /\ r \notin F
         /\ \A u \in Holder : ~Dropping(u, r)
    <2>1. ref_cnt_[r] # 0
      BY <1>2, <1>3
    <2> QED BY <1>2, <1>15, <2>1 DEF RawsPlaced
  <1>17. /\ \A x \in Raw : x # r => ref_cnt_'[x] = ref_cnt_[x]
         /\ ref_cnt_[r] = 1 => ref_cnt_'[r] = 0
         /\ ref_cnt_[r] # 1 => ref_cnt_'[r] > 0
    BY <1>1, <1>2, <1>3
  <1>18. /\ \A u \in Holder : \A x \in Raw : x # r => (Dropping(u, x)' <=> Dropping(u, x))
         /\ \A u \in Holder : Dropping(u, r)' <=> u = t /\ ref_cnt_[r] = 1
         /\ ref_cnt_[r] = 1 => drop'[t].op = "destroy"
         /\ \A u \in Holder : u # t => drop'[u] = drop[u]
    <2>1. \A u \in Holder : u # t => drop'[u] = drop[u]
      BY <1>1, <1>7
    <2>2. CASE ref_cnt_[r] = 1
      <3>1. drop'[t] = [op |-> "destroy", raw |-> r]
        BY <1>1, <1>7, <2>2
      <3>2. drop'[t].op = "destroy" /\ drop'[t].raw = r
        BY <3>1
      <3> QED BY <1>1, <1>16, <2>1, <2>2, <3>2 DEF Dropping
    <2>3. CASE ref_cnt_[r] # 1
      <3>1. drop'[t].op = "none"
        BY <1>1, <1>7, <2>3 DEF NoDrop
      <3> QED BY <1>1, <1>16, <2>1, <2>3, <3>1 DEF Dropping
    <2> QED BY <2>2, <2>3
  <1>19. RawsPlaced(F)'
    <2> SUFFICES ASSUME NEW x \in Raw
                 PROVE  (/\ x \in F => /\ x <= allocated_ /\ ref_cnt_[x] = 0 /\ ~has_data[x]
                                       /\ \A u \in Holder : ~Dropping(u, x)
                         /\ ref_cnt_[x] > 0 => /\ x <= allocated_ /\ has_data[x]
                                               /\ \A u \in Holder : ~Dropping(u, x)
                         /\ \A u \in Holder : Dropping(u, x) =>
                              /\ x <= allocated_
                              /\ \A v \in Holder : Dropping(v, x) => v = u
                              /\ drop[u].op # "destroy" => ~has_data[x]
                         /\ x <= allocated_ => \/ ref_cnt_[x] > 0
                                               \/ \E u \in Holder : Dropping(u, x)
                                               \/ x \in F)'
      BY DEF RawsPlaced
    <2>1. CASE x = r
      <3>1. CASE ref_cnt_[r] = 1
        <4>1. ~(ref_cnt_'[x] > 0)
          BY <1>17, <2>1, <3>1
        <4> QED BY <1>1, <1>16, <1>17, <1>18, <2>1, <3>1, <4>1
      <3>2. CASE ref_cnt_[r] # 1
        BY <1>1, <1>16, <1>17, <1>18, <2>1, <3>2
      <3> QED BY <3>1, <3>2
    <2>2. CASE x # r
      <3>1. \A u \in Holder : Dropping(u, x) => drop'[u] = drop[u]
        BY <1>1, <1>18 DEF Dropping
      <3> QED BY <1>1, <1>15, <1>17, <1>18, <2>2, <3>1 DEF RawsPlaced
    <2> QED BY <2>1, <2>2
  <1>20. FreeNodes(s, m, q, n)'
    BY <1>1, <1>13, <1>14, <1>19 DEF FreeNodes
  <1> QED BY <1>6, <1>9, <1>20 DEF SharedPoolInv

(* Steps that only change a drop, the data and the link of the raw dropped.      *)
LEMMA DropSafe ==
  ASSUME SharedPoolInv, NEW t \in Holder, drop[t].op # "none",
         UNCHANGED <<allocated_, ref_cnt_, queue_head, free_reader, ptrs>>,
         NEW r, r = drop[t].raw,
         NEW op \in {"load", "push"}, drop' = [drop EXCEPT ![t].op = op],
         has_data' \in [Raw -> BOOLEAN], ~has_data'[r],
         \A x \in Raw : x # r => has_data'[x] = has_data[x],
         link' \in [Raw -> 0..MaxRaws], \A x \in Raw : x # r => link'[x] = link[x]
  PROVE  SharedPoolInv'
PROOF
  <1>1. /\ SharedPoolType /\ Counted(ptrs, ref_cnt_) /\ r \in Raw /\ Dropping(t, r)
        /\ drop[t].op \in {"destroy", "load", "push"}
    BY PlaceOfRaw DEF SharedPoolInv
  <1>2. drop \in [Holder -> {NoDrop} \union [op : {"destroy", "load", "push"}, raw : Raw]]
    BY <1>1 DEF SharedPoolType
  <1>3. drop[t] \in [op : {"destroy", "load", "push"}, raw : Raw]
    BY <1>1, <1>2 DEF NoDrop
  <1>4. drop'[t] = [drop[t] EXCEPT !.op = op] /\ \A u \in Holder : u # t => drop'[u] = drop[u]
    BY <1>2
  <1>5. drop'[t].op = op /\ drop'[t].raw = r /\ drop'[t] \in [op : {"destroy", "load", "push"}, raw : Raw]
    BY <1>3, <1>4
  <1>6. drop' \in [Holder -> {NoDrop} \union [op : {"destroy", "load", "push"}, raw : Raw]]
    <2>1. drop' = [u \in Holder |-> drop'[u]]
      BY <1>2
    <2>2. \A u \in Holder : drop'[u] \in {NoDrop} \union [op : {"destroy", "load", "push"}, raw : Raw]
      BY <1>2, <1>4, <1>5
    <2> QED BY <2>1, <2>2
  <1>7. SharedPoolType'
    BY <1>1, <1>6 DEF SharedPoolType
  <1>8. \A u \in Holder : \A x \in Raw : Dropping(u, x)' <=> Dropping(u, x)
    <2>1. op # "none"
      OBVIOUS
    <2> QED BY <1>1, <1>4, <1>5, <2>1 DEF Dropping
  <1>10. PICK m \in 0..MaxRaws : \E n \in 0..MaxRaws : \E s \in [1..m -> Raw] : \E q \in [1..n -> Raw] :
           FreeNodes(s, m, q, n)
    BY DEF SharedPoolInv
  <1>11. PICK n \in 0..MaxRaws : \E s \in [1..m -> Raw] : \E q \in [1..n -> Raw] : FreeNodes(s, m, q, n)
    BY <1>10
  <1>12. PICK s \in [1..m -> Raw] : \E q \in [1..n -> Raw] : FreeNodes(s, m, q, n)
    BY <1>11
  <1>13. PICK q \in [1..n -> Raw] : FreeNodes(s, m, q, n)
    BY <1>12
  <1>14. PICK F : F = Nodes(s, m) \union Nodes(q, n)
    OBVIOUS
  <1>15. RawsPlaced(F)
    BY <1>13, <1>14 DEF FreeNodes
  <1>16. /\ r <= allocated_ /\ r \notin F /\ ~(ref_cnt_[r] > 0)
         /\ \A u \in Holder : Dropping(u, r) => u = t
    BY <1>1, <1>15 DEF RawsPlaced
  <1>17. RawsPlaced(F)'
    <2> SUFFICES ASSUME NEW x \in Raw
                 PROVE  (/\ x \in F => /\ x <= allocated_ /\ ref_cnt_[x] = 0 /\ ~has_data[x]
                                       /\ \A u \in Holder : ~Dropping(u, x)
                         /\ ref_cnt_[x] > 0 => /\ x <= allocated_ /\ has_data[x]
                                               /\ \A u \in Holder : ~Dropping(u, x)
                         /\ \A u \in Holder : Dropping(u, x) =>
                              /\ x <= allocated_
                              /\ \A v \in Holder : Dropping(v, x) => v = u
                              /\ drop[u].op # "destroy" => ~has_data[x]
                         /\ x <= allocated_ => \/ ref_cnt_[x] > 0
                                               \/ \E u \in Holder : Dropping(u, x)
                                               \/ x \in F)'
      BY DEF RawsPlaced
    <2>1. CASE x = r
      BY <1>1, <1>8, <1>16, <2>1
    <2>2. CASE x # r
      <3>1. \A u \in Holder : Dropping(u, x) => drop'[u] = drop[u]
        BY <1>1, <1>4, <2>2 DEF Dropping
      <3>2. has_data'[x] = has_data[x]
        BY <2>2
      <3>3. ref_cnt_'[x] = ref_cnt_[x] /\ allocated_' = allocated_
        OBVIOUS
      <3>4. /\ x \in F => /\ x <= allocated_ /\ ref_cnt_[x] = 0 /\ ~has_data[x]
                         /\ \A u \in Holder : ~Dropping(u, x)
            /\ ref_cnt_[x] > 0 => /\ x <= allocated_ /\ has_data[x]
                                  /\ \A u \in Holder : ~Dropping(u, x)
            /\ x <= allocated_ => \/ ref_cnt_[x] > 0
                                  \/ \E u \in Holder : Dropping(u, x)
                                  \/ x \in F
        BY <1>15 DEF RawsPlaced
      <3>5. \A u \in Holder : Dropping(u, x) =>
              /\ x <= allocated_
              /\ \A v \in Holder : Dropping(v, x) => v = u
              /\ drop[u].op # "destroy" => ~has_data[x]
        BY <1>15 DEF RawsPlaced
      <3>6. \A u \in Holder : Dropping(u, x)' =>
              /\ x <= allocated_'
              /\ \A v \in Holder : Dropping(v, x)' => v = u
              /\ drop'[u].op # "destroy" => ~has_data'[x]
        <4> SUFFICES ASSUME NEW u \in Holder, Dropping(u, x)'
                     PROVE  /\ x <= allocated_'
                            /\ \A v \in Holder : Dropping(v, x)' => v = u
                            /\ drop'[u].op # "destroy" => ~has_data'[x]
          OBVIOUS
        <4>1. Dropping(u, x)
          BY <1>8
        <4>2. x <= allocated_'
          BY <3>3, <3>5, <4>1
        <4>3. ASSUME NEW v \in Holder, Dropping(v, x)' PROVE v = u
          <5>1. Dropping(v, x)
            BY <1>8, <4>3
          <5> QED BY <3>5, <4>1, <5>1
        <4>4. ASSUME drop'[u].op # "destroy" PROVE ~has_data'[x]
          <5>1. drop[u].op # "destroy"
            BY <3>1, <4>1, <4>4
          <5> QED BY <3>2, <3>5, <4>1, <5>1
        <4> QED BY <4>2, <4>3, <4>4
      <3> QED BY <1>8, <3>2, <3>3, <3>4, <3>6
    <2> QED BY <2>1, <2>2
  <1>18. \A x \in F : x # r /\ x \in Raw
    BY <1>14, <1>16 DEF Nodes
  <1>19. Path(link', queue_head, s, m) /\ Path(link', free_reader.head, q, n)
    <2>1. \A x \in Nodes(s, m) : link'[x] = link[x]
      BY <1>14, <1>18
    <2>2. \A x \in Nodes(q, n) : link'[x] = link[x]
      BY <1>14, <1>18
    <2>3. Path(link, queue_head, s, m) /\ Path(link, free_reader.head, q, n)
      BY <1>13 DEF FreeNodes, ReaderPath
    <2> QED BY <2>1, <2>2, <2>3, PathKept
  <1>20. FreeNodes(s, m, q, n)'
    BY <1>13, <1>14, <1>17, <1>19 DEF FreeNodes, ReaderPath
  <1>21. Counted(ptrs, ref_cnt_)'
    BY <1>1
  <1> QED BY <1>7, <1>20, <1>21 DEF SharedPoolInv

LEMMA DroppedData ==
  ASSUME SharedPoolInv, NEW t \in Holder, drop[t].op \in {"load", "push"}
  PROVE  ~has_data[drop[t].raw]
PROOF
  <1>1. drop[t].raw \in Raw /\ Dropping(t, drop[t].raw)
    BY PlaceOfRaw
  <1>2. PICK F : RawsPlaced(F)
    BY DEF SharedPoolInv, FreeNodes
  <1>3. drop[t].op # "destroy"
    OBVIOUS
  <1> QED BY <1>1, <1>2, <1>3 DEF RawsPlaced

LEMMA DestroyDataSafe ==
  ASSUME SharedPoolInv, NEW t \in Holder, DestroyData(t)
  PROVE  SharedPoolInv'
PROOF
  <1> DEFINE r == drop[t].raw
  <1>1. /\ drop[t].op # "none" /\ has_data' = [has_data EXCEPT ![r] = FALSE]
        /\ drop' = [drop EXCEPT ![t].op = "load"]
        /\ UNCHANGED <<allocated_, ref_cnt_, link, queue_head, free_reader, ptrs>>
    BY DEF DestroyData
  <1>2. r \in Raw /\ has_data \in [Raw -> BOOLEAN] /\ link \in [Raw -> 0..MaxRaws]
    BY <1>1, PlaceOfRaw DEF SharedPoolInv, SharedPoolType
  <1> HIDE DEF r
  <1>3. /\ has_data' \in [Raw -> BOOLEAN] /\ ~has_data'[r]
        /\ \A x \in Raw : x # r => has_data'[x] = has_data[x]
    BY <1>1, <1>2
  <1>4. link' \in [Raw -> 0..MaxRaws] /\ \A x \in Raw : x # r => link'[x] = link[x]
    BY <1>1, <1>2
  <1>5. r = drop[t].raw
    BY DEF r
  <1>6. /\ drop[t].op # "none" /\ drop' = [drop EXCEPT ![t].op = "load"] /\ "load" \in {"load", "push"}
        /\ UNCHANGED <<allocated_, ref_cnt_, queue_head, free_reader, ptrs>>
    BY <1>1
  <1> QED BY <1>3, <1>4, <1>5, <1>6, DropSafe

LEMMA NextOfDropped ==
  ASSUME SharedPoolInv, NEW t \in Holder, drop[t].op \in {"load", "push"},
         link' = [link EXCEPT ![drop[t].raw] = queue_head],
         drop' = [drop EXCEPT ![t].op = "push"],
         UNCHANGED <<allocated_, ref_cnt_, has_data, queue_head, free_reader, ptrs>>
  PROVE  SharedPoolInv'
PROOF
  <1> DEFINE r == drop[t].raw
  <1>1. drop[t].op # "none"
    OBVIOUS
  <1>2. /\ r \in Raw /\ has_data \in [Raw -> BOOLEAN] /\ link \in [Raw -> 0..MaxRaws]
        /\ queue_head \in 0..MaxRaws
    BY <1>1, PlaceOfRaw DEF SharedPoolInv, SharedPoolType
  <1>3. ~has_data[r]
    BY DroppedData
  <1>4. link' = [link EXCEPT ![r] = queue_head]
    OBVIOUS
  <1>5. r = drop[t].raw
    OBVIOUS
  <1> HIDE DEF r
  <1>6. /\ has_data' \in [Raw -> BOOLEAN] /\ ~has_data'[r]
        /\ \A x \in Raw : x # r => has_data'[x] = has_data[x]
    BY <1>2, <1>3
  <1>7. link' \in [Raw -> 0..MaxRaws] /\ \A x \in Raw : x # r => link'[x] = link[x]
    BY <1>2, <1>4
  <1> QED BY <1>1, <1>5, <1>6, <1>7, DropSafe

LEMMA LoadNextSafe ==
  ASSUME SharedPoolInv, NEW t \in Holder, LoadNext(t)
  PROVE  SharedPoolInv'
PROOF
  <1>1. /\ drop[t].op \in {"load", "push"} /\ link' = [link EXCEPT ![drop[t].raw] = queue_head]
        /\ drop' = [drop EXCEPT ![t].op = "push"]
        /\ UNCHANGED <<allocated_, ref_cnt_, has_data, queue_head, free_reader, ptrs>>
    BY DEF LoadNext
  <1> QED BY <1>1, NextOfDropped

LEMMA PushFails ==
  ASSUME SharedPoolInv, NEW t \in Holder, PushRaw(t), queue_head # link[drop[t].raw]
  PROVE  SharedPoolInv'
PROOF
  <1>1. /\ drop[t].op = "push" /\ link' = [link EXCEPT ![drop[t].raw] = queue_head]
        /\ drop' = drop
        /\ UNCHANGED <<allocated_, ref_cnt_, has_data, queue_head, free_reader, ptrs>>
    BY DEF PushRaw
  <1>2. drop \in [Holder -> {NoDrop} \union [op : {"destroy", "load", "push"}, raw : Raw]]
    BY DEF SharedPoolInv, SharedPoolType
  <1>3. [drop[t] EXCEPT !.op = "push"] = drop[t]
    BY <1>1, <1>2 DEF NoDrop
  <1>4. drop' = [drop EXCEPT ![t].op = "push"]
    BY <1>1, <1>2, <1>3
  <1> QED BY <1>1, <1>4, NextOfDropped

LEMMA PushSucceeds ==
  ASSUME SharedPoolInv, NEW t \in Holder, PushRaw(t), queue_head = link[drop[t].raw]
  PROVE  SharedPoolInv'
PROOF
  <1>1. PICK r : r = drop[t].raw
    OBVIOUS
  <1>2. /\ drop[t].op = "push" /\ link[r] = queue_head
        /\ queue_head' = r /\ drop' = [drop EXCEPT ![t] = NoDrop]
        /\ UNCHANGED <<allocated_, ref_cnt_, has_data, free_reader, ptrs, link>>
    BY <1>1 DEF PushRaw
  <1>3. SharedPoolType /\ Counted(ptrs, ref_cnt_) /\ r \in Raw /\ Dropping(t, r) /\ ~has_data[r]
    <2>1. drop[t].op # "none"
      BY <1>2
    <2> QED BY <1>1, <1>2, <2>1, PlaceOfRaw, DroppedData DEF SharedPoolInv
  <1>4. /\ drop' \in [Holder -> {NoDrop} \union [op : {"destroy", "load", "push"}, raw : Raw]]
        /\ drop'[t].op = "none" /\ \A u \in Holder : u # t => drop'[u] = drop[u]
    BY <1>2, <1>3 DEF SharedPoolType, NoDrop
  <1>5. SharedPoolType'
    <2>1. r \in 0..MaxRaws
      BY <1>3, SharedPoolAssumption DEF Raw
    <2> QED BY <1>2, <1>3, <1>4, <2>1 DEF SharedPoolType
  <1>6. PICK m \in 0..MaxRaws : \E n \in 0..MaxRaws : \E s \in [1..m -> Raw] : \E q \in [1..n -> Raw] :
          FreeNodes(s, m, q, n)
    BY DEF SharedPoolInv
  <1>7. PICK n \in 0..MaxRaws : \E s \in [1..m -> Raw] : \E q \in [1..n -> Raw] : FreeNodes(s, m, q, n)
    BY <1>6
  <1>8. PICK s \in [1..m -> Raw] : \E q \in [1..n -> Raw] : FreeNodes(s, m, q, n)
    BY <1>7
  <1>9. PICK q \in [1..n -> Raw] : FreeNodes(s, m, q, n)
    BY <1>8
  <1>10. PICK F : F = Nodes(s, m) \union Nodes(q, n)
    OBVIOUS
  <1>11. /\ Path(link, queue_head, s, m) /\ ReaderPath(link, free_reader, q, n)
         /\ Nodes(s, m) \intersect Nodes(q, n) = {} /\ RawsPlaced(F)
    BY <1>9, <1>10 DEF FreeNodes
  <1>12. /\ r <= allocated_ /\ r \notin F /\ ~(ref_cnt_[r] > 0)
         /\ \A u \in Holder : Dropping(u, r) => u = t
    BY <1>3, <1>11 DEF RawsPlaced
  <1>13. r \notin Nodes(s, m) /\ r \notin Nodes(q, n)
    BY <1>10, <1>12
  <1> DEFINE s2 == [k \in 1..(m + 1) |-> IF k = 1 THEN r ELSE s[k - 1]]
  <1>14. \A j, k \in 1..(m + 1) : s2[j] = s2[k] => j = k
    <2> SUFFICES ASSUME NEW j \in 1..(m + 1), NEW k \in 1..(m + 1), s2[j] = s2[k] PROVE j = k
      OBVIOUS
    <2>1. \A i \in 1..m : s[i] # r
      BY <1>13 DEF Nodes
    <2>2. \A h, i \in 1..m : s[h] = s[i] => h = i
      BY <1>11 DEF Path
    <2>3. CASE j = 1 \/ k = 1
      BY <2>1, <2>3
    <2>4. CASE j # 1 /\ k # 1
      <3>1. j - 1 \in 1..m /\ k - 1 \in 1..m /\ s[j - 1] = s[k - 1]
        BY <2>4
      <3>2. j - 1 = k - 1
        BY <2>2, <3>1
      <3> QED BY <3>2
    <2> QED BY <2>3, <2>4
  <1>15. m + 1 \in 0..MaxRaws /\ s2 \in [1..(m + 1) -> Raw]
    <2>1. \A k \in 1..(m + 1) : k # 1 => k - 1 \in 1..m
      OBVIOUS
    <2>2. s2 \in [1..(m + 1) -> Raw]
      BY <1>3, <2>1
    <2>4. m + 1 \in Nat
      OBVIOUS
    <2> HIDE DEF s2
    <2>5. m + 1 <= MaxRaws
      BY <1>14, <2>2, <2>4, FewNodes
    <2> QED BY <2>2, <2>5, SharedPoolAssumption
  <1>16. s2[1] = r /\ (\A k \in 1..m : s2[k + 1] = s[k])
    OBVIOUS
  <1>17. Nodes(s2, m + 1) = Nodes(s, m) \union {r}
    <2>1. ASSUME NEW k \in 1..(m + 1) PROVE s2[k] \in Nodes(s, m) \union {r}
      <3>1. CASE k = 1
        BY <3>1
      <3>2. CASE k # 1
        <4>1. k - 1 \in 1..m /\ s2[k] = s[k - 1]
          BY <3>2
        <4> QED BY <4>1 DEF Nodes
      <3> QED BY <3>1, <3>2
    <2>2. ASSUME NEW k \in 1..m PROVE s[k] \in Nodes(s2, m + 1)
      <3>1. k + 1 \in 1..(m + 1) /\ s2[k + 1] = s[k]
        BY <1>16
      <3> HIDE DEF s2
      <3> QED BY <3>1 DEF Nodes
    <2>3. r \in Nodes(s2, m + 1)
      <3>1. 1 \in 1..(m + 1) /\ s2[1] = r
        BY <1>16
      <3> HIDE DEF s2
      <3> QED BY <3>1 DEF Nodes
    <2> HIDE DEF s2
    <2> QED BY <2>1, <2>2, <2>3 DEF Nodes
  <1>18. Path(link, r, s2, m + 1)
    <2>1. queue_head = IF m = 0 THEN 0 ELSE s[1]
      BY <1>11 DEF Path
    <2>2. \A k \in 1..m : link[s[k]] = IF k = m THEN 0 ELSE s[k + 1]
      BY <1>11 DEF Path
    <2>3. ASSUME NEW k \in 1..(m + 1)
          PROVE link[s2[k]] = IF k = m + 1 THEN 0 ELSE s2[k + 1]
      <3>1. CASE k = 1 /\ m = 0
        BY <1>2, <1>16, <2>1, <3>1
      <3>2. CASE k = 1 /\ m # 0
        <4>1. 1 \in 1..m /\ s2[2] = s[1] /\ 1 # m + 1
          BY <3>2
        <4> QED BY <1>2, <1>16, <2>1, <3>2, <4>1
      <3>3. CASE k # 1
        <4>1. k - 1 \in 1..m /\ s2[k] = s[k - 1]
          BY <3>3
        <4>2. k - 1 + 1 = k /\ (k = m + 1 <=> k - 1 = m)
          OBVIOUS
        <4>3. k # m + 1 => s2[k + 1] = s[k]
          <5>1. k # m + 1 => k \in 1..m
            BY <3>3
          <5> QED BY <1>16, <5>1
        <4> QED BY <2>2, <4>1, <4>2, <4>3
      <3> QED BY <3>1, <3>2, <3>3
    <2>4. m + 1 # 0
      OBVIOUS
    <2> HIDE DEF s2
    <2> QED BY <1>16, <1>14, <2>3, <2>4 DEF Path
  <1> HIDE DEF s2
  <1>19. PICK G : G = F \union {r}
    OBVIOUS
  <1>20. G = Nodes(s2, m + 1) \union Nodes(q, n) /\ Nodes(s2, m + 1) \intersect Nodes(q, n) = {}
    BY <1>10, <1>11, <1>13, <1>17, <1>19
  <1>21. \A u \in Holder : \A x \in Raw : Dropping(u, x)' <=> Dropping(u, x) /\ u # t
    BY <1>2, <1>4 DEF Dropping
  <1>22. \A u \in Holder : Dropping(u, r)' => FALSE
    BY <1>3, <1>12, <1>21
  <1>23. \A x \in Raw : ~Dropping(t, x) \/ x = r
    BY <1>3 DEF Dropping
  <1>24. RawsPlaced(G)'
    <2> SUFFICES ASSUME NEW x \in Raw
                 PROVE  (/\ x \in G => /\ x <= allocated_ /\ ref_cnt_[x] = 0 /\ ~has_data[x]
                                       /\ \A u \in Holder : ~Dropping(u, x)
                         /\ ref_cnt_[x] > 0 => /\ x <= allocated_ /\ has_data[x]
                                               /\ \A u \in Holder : ~Dropping(u, x)
                         /\ \A u \in Holder : Dropping(u, x) =>
                              /\ x <= allocated_
                              /\ \A v \in Holder : Dropping(v, x) => v = u
                              /\ drop[u].op # "destroy" => ~has_data[x]
                         /\ x <= allocated_ => \/ ref_cnt_[x] > 0
                                               \/ \E u \in Holder : Dropping(u, x)
                                               \/ x \in G)'
      BY DEF RawsPlaced
    <2>1. CASE x = r
      <3>1. ref_cnt_[r] = 0
        BY <1>3, <1>12 DEF SharedPoolType
      <3> QED BY <1>2, <1>3, <1>12, <1>19, <1>22, <2>1, <3>1
    <2>2. CASE x # r
      <3>1. x \in G <=> x \in F
        BY <1>19, <2>2
      <3>2. \A u \in Holder : Dropping(u, x)' <=> Dropping(u, x)
        BY <1>21, <1>23, <2>2
      <3>3. \A u \in Holder : Dropping(u, x) => drop'[u] = drop[u]
        BY <1>4, <1>23, <2>2
      <3>4. /\ ref_cnt_'[x] = ref_cnt_[x] /\ allocated_' = allocated_ /\ has_data'[x] = has_data[x]
        BY <1>2
      <3>5. /\ x \in F => /\ x <= allocated_ /\ ref_cnt_[x] = 0 /\ ~has_data[x]
                         /\ \A u \in Holder : ~Dropping(u, x)
            /\ ref_cnt_[x] > 0 => /\ x <= allocated_ /\ has_data[x]
                                  /\ \A u \in Holder : ~Dropping(u, x)
            /\ x <= allocated_ => \/ ref_cnt_[x] > 0
                                  \/ \E u \in Holder : Dropping(u, x)
                                  \/ x \in F
        BY <1>11 DEF RawsPlaced
      <3>6. \A u \in Holder : Dropping(u, x) =>
              /\ x <= allocated_
              /\ \A v \in Holder : Dropping(v, x) => v = u
              /\ drop[u].op # "destroy" => ~has_data[x]
        BY <1>11 DEF RawsPlaced
      <3>7. \A u \in Holder : Dropping(u, x)' =>
              /\ x <= allocated_'
              /\ \A v \in Holder : Dropping(v, x)' => v = u
              /\ drop'[u].op # "destroy" => ~has_data'[x]
        BY <3>2, <3>3, <3>4, <3>6
      <3> QED BY <3>1, <3>2, <3>4, <3>5, <3>7
    <2> QED BY <2>1, <2>2
  <1>25. FreeNodes(s2, m + 1, q, n)'
    BY <1>2, <1>11, <1>18, <1>20, <1>24 DEF FreeNodes
  <1>26. Counted(ptrs, ref_cnt_)'
    BY <1>2, <1>3
  <1> QED BY <1>5, <1>15, <1>25, <1>26 DEF SharedPoolInv

NoNode == [k \in 1..0 |-> 0]

LEMMA NoNodes ==
  ASSUME NEW links
  PROVE  /\ 0 \in 0..MaxRaws /\ NoNode \in [1..0 -> Raw]
         /\ Path(links, 0, NoNode, 0) /\ Nodes(NoNode, 0) = {}
PROOF
  <1>1. 0 \in 0..MaxRaws /\ 1..0 = {}
    BY SharedPoolAssumption
  <1> QED BY <1>1 DEF NoNode, Path, Nodes

(* What the reader has after pop_all: all that is free. *)
LEMMA PoppedNodes ==
  ASSUME SharedPoolInv
  PROVE  \E n \in 0..MaxRaws : \E w \in [1..n -> Raw] :
           /\ PoppedAll.links \in [Raw -> 0..MaxRaws]
           /\ PoppedAll.reader \in [head : 0..MaxRaws, tail : 0..MaxRaws]
           /\ ReaderPath(PoppedAll.links, PoppedAll.reader, w, n)
           /\ RawsPlaced(Nodes(w, n))
PROOF
  <1>1. PICK m \in 0..MaxRaws : \E n \in 0..MaxRaws : \E s \in [1..m -> Raw] : \E q \in [1..n -> Raw] :
          FreeNodes(s, m, q, n)
    BY DEF SharedPoolInv
  <1>2. PICK n \in 0..MaxRaws : \E s \in [1..m -> Raw] : \E q \in [1..n -> Raw] : FreeNodes(s, m, q, n)
    BY <1>1
  <1>3. PICK s \in [1..m -> Raw] : \E q \in [1..n -> Raw] : FreeNodes(s, m, q, n)
    BY <1>2
  <1>4. PICK q \in [1..n -> Raw] : FreeNodes(s, m, q, n)
    BY <1>3
  <1>5. PICK w : w = TurnedRound(s, m, q, n)
    OBVIOUS
  <1>6. TurnedBehind(w, s, m, q, n)
    BY <1>4, <1>5 DEF FreeNodes, TurnedBehind
  <1>7. SharedPoolType
    BY DEF SharedPoolInv
  <1>8. /\ PoppedAll.links \in [Raw -> 0..MaxRaws]
        /\ PoppedAll.reader \in [head : 0..MaxRaws, tail : 0..MaxRaws]
        /\ m + n \in 0..MaxRaws /\ w \in [1..(m + n) -> Raw]
        /\ Nodes(w, m + n) = Nodes(s, m) \union Nodes(q, n)
        /\ ReaderPath(PoppedAll.links, PoppedAll.reader, w, m + n)
    BY <1>6, <1>7, AllPopped
  <1> QED BY <1>4, <1>8 DEF FreeNodes

LEMMA CalcFreeSizeSafe ==
  ASSUME SharedPoolInv, NEW t \in Holder, CalcFreeSize(t)
  PROVE  SharedPoolInv'
PROOF
  <1>1. /\ link' = PoppedAll.links /\ free_reader' = PoppedAll.reader /\ queue_head' = 0
        /\ UNCHANGED <<allocated_, ref_cnt_, has_data, ptrs, drop>>
    BY DEF CalcFreeSize
  <1>2. PICK n \in 0..MaxRaws : \E w \in [1..n -> Raw] :
          /\ PoppedAll.links \in [Raw -> 0..MaxRaws]
          /\ PoppedAll.reader \in [head : 0..MaxRaws, tail : 0..MaxRaws]
          /\ ReaderPath(PoppedAll.links, PoppedAll.reader, w, n)
          /\ RawsPlaced(Nodes(w, n))
    BY PoppedNodes
  <1>3. PICK w \in [1..n -> Raw] :
          /\ PoppedAll.links \in [Raw -> 0..MaxRaws]
          /\ PoppedAll.reader \in [head : 0..MaxRaws, tail : 0..MaxRaws]
          /\ ReaderPath(PoppedAll.links, PoppedAll.reader, w, n)
          /\ RawsPlaced(Nodes(w, n))
    BY <1>2
  <1>4. /\ 0 \in 0..MaxRaws /\ NoNode \in [1..0 -> Raw]
        /\ Path(link', 0, NoNode, 0) /\ Nodes(NoNode, 0) = {}
    BY NoNodes
  <1>5. SharedPoolType'
    BY <1>1, <1>3, <1>4 DEF SharedPoolInv, SharedPoolType
  <1>6. Counted(ptrs, ref_cnt_)'
    BY <1>1 DEF SharedPoolInv
  <1>7. PICK F : F = Nodes(w, n)
    OBVIOUS
  <1>8. RawsPlaced(F)'
    BY <1>1, <1>3, <1>7 DEF RawsPlaced, Dropping
  <1>9. Nodes(NoNode, 0) \union F = F /\ Nodes(NoNode, 0) \intersect F = {}
    BY <1>4
  <1>10. FreeNodes(NoNode, 0, w, n)'
    BY <1>1, <1>3, <1>4, <1>7, <1>8, <1>9 DEF FreeNodes
  <1> QED BY <1>4, <1>5, <1>6, <1>10 DEF SharedPoolInv

(* Where every raw is when alloc has given out r. *)
LEMMA GivenOut ==
  ASSUME SharedPoolInv, NEW F, RawsPlaced(F), NEW r \in Raw,
         ref_cnt_[r] = 0, \A u \in Holder : ~Dropping(u, r),
         ref_cnt_'[r] > 0, has_data'[r], r <= allocated_', drop' = drop,
         \A x \in Raw : x # r => /\ ref_cnt_'[x] = ref_cnt_[x] /\ has_data'[x] = has_data[x]
                                 /\ (x <= allocated_' <=> x <= allocated_),
         NEW G, \A x \in Raw : x \in G <=> x \in F /\ x # r
  PROVE  RawsPlaced(G)'
PROOF
  <1>1. \A u \in Holder : \A x \in Raw : Dropping(u, x)' <=> Dropping(u, x)
    BY DEF Dropping
  <1> SUFFICES ASSUME NEW x \in Raw
               PROVE  (/\ x \in G => /\ x <= allocated_ /\ ref_cnt_[x] = 0 /\ ~has_data[x]
                                     /\ \A u \in Holder : ~Dropping(u, x)
                       /\ ref_cnt_[x] > 0 => /\ x <= allocated_ /\ has_data[x]
                                             /\ \A u \in Holder : ~Dropping(u, x)
                       /\ \A u \in Holder : Dropping(u, x) =>
                            /\ x <= allocated_
                            /\ \A v \in Holder : Dropping(v, x) => v = u
                            /\ drop[u].op # "destroy" => ~has_data[x]
                       /\ x <= allocated_ => \/ ref_cnt_[x] > 0
                                             \/ \E u \in Holder : Dropping(u, x)
                                             \/ x \in G)'
    BY DEF RawsPlaced
  <1>2. CASE x = r
    BY <1>1, <1>2
  <1>3. CASE x # r
    <2>1. /\ ref_cnt_'[x] = ref_cnt_[x] /\ has_data'[x] = has_data[x] /\ drop' = drop
          /\ (x <= allocated_' <=> x <= allocated_) /\ (x \in G <=> x \in F)
      BY <1>3
    <2>2. /\ x \in F => /\ x <= allocated_ /\ ref_cnt_[x] = 0 /\ ~has_data[x]
                       /\ \A u \in Holder : ~Dropping(u, x)
          /\ ref_cnt_[x] > 0 => /\ x <= allocated_ /\ has_data[x]
                                /\ \A u \in Holder : ~Dropping(u, x)
          /\ x <= allocated_ => \/ ref_cnt_[x] > 0
                                \/ \E u \in Holder : Dropping(u, x)
                                \/ x \in F
      BY DEF RawsPlaced
    <2>3. \A u \in Holder : Dropping(u, x) =>
            /\ x <= allocated_
            /\ \A v \in Holder : Dropping(v, x) => v = u
            /\ drop[u].op # "destroy" => ~has_data[x]
      BY DEF RawsPlaced
    <2> QED BY <1>1, <2>1, <2>2, <2>3
  <1> QED BY <1>2, <1>3

LEMMA AllocSafe ==
  ASSUME SharedPoolInv, NEW t \in Holder, Alloc(t)
  PROVE  SharedPoolInv'
PROOF
  <1>1. PICK L : L = PoppedAll.links
    OBVIOUS
  <1>2. PICK R : R = PoppedAll.reader
    OBVIOUS
  <1>3. PICK r : r = IF R.head # 0 THEN R.head ELSE allocated_ + 1
    OBVIOUS
  <1>4. /\ r \in Raw /\ allocated_' = IF R.head # 0 THEN allocated_ ELSE allocated_ + 1
        /\ link' = L /\ queue_head' = 0 /\ drop' = drop
        /\ free_reader' = IF R.head = 0 THEN R ELSE [R EXCEPT !.head = L[R.head]]
        /\ has_data' = [has_data EXCEPT ![r] = TRUE]
        /\ ref_cnt_' = [ref_cnt_ EXCEPT ![r] = @ + 1]
        /\ ptrs' = [ptrs EXCEPT ![t][r] = @ + 1]
    <2> HIDE DEF PoppedAll
    <2> QED BY <1>1, <1>2, <1>3 DEF Alloc
  <1>5. PICK n \in 0..MaxRaws : \E w \in [1..n -> Raw] :
          /\ L \in [Raw -> 0..MaxRaws] /\ R \in [head : 0..MaxRaws, tail : 0..MaxRaws]
          /\ ReaderPath(L, R, w, n) /\ RawsPlaced(Nodes(w, n))
    BY <1>1, <1>2, PoppedNodes
  <1>6. PICK w \in [1..n -> Raw] :
          /\ L \in [Raw -> 0..MaxRaws] /\ R \in [head : 0..MaxRaws, tail : 0..MaxRaws]
          /\ ReaderPath(L, R, w, n) /\ RawsPlaced(Nodes(w, n))
    BY <1>5
  <1>7. SharedPoolType /\ Counted(ptrs, ref_cnt_)
    BY DEF SharedPoolInv
  <1>8. PICK F : F = Nodes(w, n)
    OBVIOUS
  <1>9. RawsPlaced(F)
    BY <1>6, <1>8
  <1>10. /\ R.head = IF n = 0 THEN 0 ELSE w[1]
         /\ \A k \in 1..n : L[w[k]] = IF k = n THEN 0 ELSE w[k + 1]
         /\ \A j, k \in 1..n : w[j] = w[k] => j = k
         /\ n > 0 => R.tail = w[n]
    BY <1>6 DEF ReaderPath, Path
  <1>11. MaxRaws \in Nat /\ Raw = 1..MaxRaws /\ allocated_ \in 0..MaxRaws
    BY <1>7, SharedPoolAssumption DEF SharedPoolType, Raw
  <1>12. /\ n = 0 => R.head = 0 /\ r = allocated_ + 1 /\ r \notin F
         /\ n > 0 => R.head # 0 /\ r = w[1] /\ r \in F
    <2>1. CASE n = 0
      <3>1. 1..n = {}
        BY <2>1
      <3> QED BY <1>3, <1>8, <1>10, <2>1, <3>1 DEF Nodes
    <2>2. CASE n > 0
      <3>1. 1 \in 1..n /\ n # 0
        BY <2>2
      <3>2. w[1] \in Raw /\ w[1] # 0
        BY <1>11, <3>1
      <3> QED BY <1>3, <1>8, <1>10, <3>1, <3>2 DEF Nodes
    <2> QED BY <2>1, <2>2
  <1>13. /\ ref_cnt_ \in [Raw -> Nat] /\ has_data \in [Raw -> BOOLEAN]
         /\ ptrs \in [Holder -> [Raw -> Nat]]
    BY <1>7 DEF SharedPoolType
  <1>14. ref_cnt_[r] = 0 /\ \A u \in Holder : ~Dropping(u, r)
    <2>1. CASE n > 0
      BY <1>4, <1>9, <1>12, <2>1 DEF RawsPlaced
    <2>2. CASE n = 0
      <3>1. ~(r <= allocated_)
        BY <1>11, <1>12, <2>2
      <3>2. ~(ref_cnt_[r] > 0)
        BY <1>4, <1>9, <3>1 DEF RawsPlaced
      <3>3. \A u \in Holder : ~Dropping(u, r)
        BY <1>4, <1>9, <3>1 DEF RawsPlaced
      <3> QED BY <1>4, <1>13, <3>2, <3>3
    <2> QED BY <2>1, <2>2
  <1>15. /\ r <= allocated_' /\ allocated_' \in 0..MaxRaws
         /\ \A x \in Raw : x # r => (x <= allocated_' <=> x <= allocated_)
    <2>1. CASE n > 0
      <3>1. r <= allocated_
        BY <1>4, <1>9, <1>12, <2>1 DEF RawsPlaced
      <3> QED BY <1>4, <1>11, <1>12, <2>1, <3>1
    <2>2. CASE n = 0
      <3>1. allocated_' = allocated_ + 1 /\ r = allocated_ + 1
        BY <1>4, <1>12, <2>2
      <3> QED BY <1>4, <1>11, <3>1
    <2> QED BY <2>1, <2>2
  <1>16. /\ ref_cnt_'[r] = 1 /\ has_data'[r] = TRUE
         /\ \A x \in Raw : x # r => ref_cnt_'[x] = ref_cnt_[x] /\ has_data'[x] = has_data[x]
         /\ ref_cnt_' \in [Raw -> Nat] /\ has_data' \in [Raw -> BOOLEAN]
         /\ ptrs' \in [Holder -> [Raw -> Nat]]
    BY <1>4, <1>13, <1>14
  <1>17. OneMore(ptrs, ref_cnt_, t, r, ptrs', ref_cnt_')
    BY <1>4, <1>13 DEF OneMore
  <1>18. Counted(ptrs', ref_cnt_')
    <2>1. t \in Holder /\ r \in Raw /\ Counted(ptrs, ref_cnt_)
      BY <1>4, <1>7
    <2>2. ref_cnt_' \in [Raw -> Nat] /\ ptrs' \in [Holder -> [Raw -> Nat]]
      BY <1>16
    <2> QED BY <1>13, <1>17, <2>1, <2>2, CountedMore
  <1>19. PICK G : G = F \ {r}
    OBVIOUS
  <1>20. RawsPlaced(G)'
    <2>1. r \in Raw /\ ref_cnt_'[r] > 0 /\ has_data'[r] /\ r <= allocated_' /\ drop' = drop
      BY <1>4, <1>15, <1>16
    <2>2. \A x \in Raw : x \in G <=> x \in F /\ x # r
      BY <1>19
    <2>3. \A x \in Raw : x # r => /\ ref_cnt_'[x] = ref_cnt_[x] /\ has_data'[x] = has_data[x]
                                  /\ (x <= allocated_' <=> x <= allocated_)
      BY <1>15, <1>16
    <2> QED BY <1>9, <1>14, <2>1, <2>2, <2>3, GivenOut
  <1>21. /\ 0 \in 0..MaxRaws /\ NoNode \in [1..0 -> Raw]
         /\ Path(L, 0, NoNode, 0) /\ Nodes(NoNode, 0) = {}
    BY NoNodes
  <1>22. \E n2 \in 0..MaxRaws : \E q \in [1..n2 -> Raw] :
           ReaderPath(L, free_reader', q, n2) /\ Nodes(q, n2) = G
    <2>1. CASE n = 0
      <3>1. free_reader' = R /\ G = F
        BY <1>4, <1>12, <1>19, <2>1
      <3> QED BY <1>6, <1>8, <3>1
    <2>2. CASE n > 0
      <3> DEFINE q == [k \in 1..(n - 1) |-> w[k + 1]]
      <3>1. 1 \in 1..n /\ n - 1 \in 0..MaxRaws /\ \A k \in 1..(n - 1) : k \in 1..n /\ k + 1 \in 1..n
        BY <1>11, <2>2
      <3>2. q \in [1..(n - 1) -> Raw] /\ \A k \in 1..(n - 1) : q[k] = w[k + 1]
        BY <3>1
      <3>3. \A k \in 1..n : k # 1 => k - 1 \in 1..(n - 1) /\ k - 1 + 1 = k
        OBVIOUS
      <3> HIDE DEF q
      <3>4. Nodes(q, n - 1) = G
        <4>1. ASSUME NEW k \in 1..(n - 1) PROVE q[k] \in G
          <5>1. k + 1 \in 1..n /\ k + 1 # 1 /\ q[k] = w[k + 1]
            BY <3>1, <3>2
          <5>2. w[k + 1] # w[1]
            BY <1>10, <3>1, <5>1
          <5>3. w[k + 1] \in F
            BY <1>8, <5>1 DEF Nodes
          <5> QED BY <1>12, <1>19, <2>2, <5>1, <5>2, <5>3
        <4>2. ASSUME NEW x \in G PROVE \E k \in 1..(n - 1) : x = q[k]
          <5>1. PICK k \in 1..n : x = w[k]
            BY <1>8, <1>19 DEF Nodes
          <5>2. k # 1
            BY <1>12, <1>19, <2>2, <5>1
          <5>3. k - 1 \in 1..(n - 1) /\ k - 1 + 1 = k
            BY <3>3, <5>2
          <5>4. q[k - 1] = x
            BY <3>2, <5>1, <5>3
          <5> QED BY <5>3, <5>4
        <4> QED BY <4>1, <4>2 DEF Nodes
      <3>5. Path(L, L[w[1]], q, n - 1)
        <4>1. L[w[1]] = IF n - 1 = 0 THEN 0 ELSE q[1]
          <5>1. CASE n = 1
            BY <1>10, <3>1, <5>1
          <5>2. CASE n # 1
            <6>1. 1 \in 1..(n - 1) /\ n - 1 # 0
              BY <2>2, <5>2
            <6>2. q[1] = w[1 + 1]
              BY <3>2, <6>1
            <6> QED BY <1>10, <3>1, <5>2, <6>1, <6>2
          <5> QED BY <5>1, <5>2
        <4>2. ASSUME NEW k \in 1..(n - 1)
              PROVE  L[q[k]] = IF k = n - 1 THEN 0 ELSE q[k + 1]
          <5>1. q[k] = w[k + 1] /\ k + 1 \in 1..n
            BY <3>1, <3>2
          <5>2. k = n - 1 <=> k + 1 = n
            OBVIOUS
          <5>3. k # n - 1 => k + 1 \in 1..(n - 1)
            OBVIOUS
          <5>4. k # n - 1 => q[k + 1] = w[k + 1 + 1]
            BY <3>2, <5>3
          <5> QED BY <1>10, <5>1, <5>2, <5>4
        <4>3. ASSUME NEW j \in 1..(n - 1), NEW k \in 1..(n - 1), q[j] = q[k]
              PROVE  j = k
          <5>1. j + 1 \in 1..n /\ k + 1 \in 1..n /\ w[j + 1] = w[k + 1]
            BY <3>1, <3>2, <4>3
          <5>2. j + 1 = k + 1
            BY <1>10, <5>1
          <5> QED BY <5>2
        <4> QED BY <4>1, <4>2, <4>3 DEF Path
      <3>6. free_reader'.head = L[w[1]] /\ free_reader'.tail = w[n]
        <4>1. free_reader' = [R EXCEPT !.head = L[w[1]]]
          BY <1>4, <1>10, <1>12, <2>2
        <4> QED BY <1>6, <1>10, <2>2, <4>1
      <3>7. n - 1 > 0 => w[n] = q[n - 1]
        <4>1. n - 1 > 0 => n - 1 \in 1..(n - 1) /\ n - 1 + 1 = n
          OBVIOUS
        <4> QED BY <3>2, <4>1
      <3>8. ReaderPath(L, free_reader', q, n - 1)
        BY <3>5, <3>6, <3>7 DEF ReaderPath
      <3> QED BY <3>1, <3>2, <3>4, <3>8
    <2> QED BY <2>1, <2>2
  <1>23. PICK n2 \in 0..MaxRaws : \E q \in [1..n2 -> Raw] :
           ReaderPath(L, free_reader', q, n2) /\ Nodes(q, n2) = G
    BY <1>22
  <1>24. PICK q \in [1..n2 -> Raw] : ReaderPath(L, free_reader', q, n2) /\ Nodes(q, n2) = G
    BY <1>23
  <1>25. FreeNodes(NoNode, 0, q, n2)'
    <2>1. Nodes(NoNode, 0) \union Nodes(q, n2) = G /\ Nodes(NoNode, 0) \intersect Nodes(q, n2) = {}
      BY <1>21, <1>24
    <2> QED BY <1>4, <1>20, <1>21, <1>24, <2>1 DEF FreeNodes
  <1>26. free_reader' \in [head : 0..MaxRaws, tail : 0..MaxRaws]
    <2>1. CASE R.head = 0
      BY <1>4, <1>6, <2>1
    <2>2. CASE R.head # 0
      <3>1. R.head \in Raw
        BY <1>3, <1>4, <2>2
      <3>2. L[R.head] \in 0..MaxRaws
        BY <1>6, <3>1
      <3> QED BY <1>4, <1>6, <2>2, <3>2
    <2> QED BY <2>1, <2>2
  <1>27. SharedPoolType'
    BY <1>4, <1>6, <1>7, <1>15, <1>16, <1>21, <1>26 DEF SharedPoolType
  <1>28. Counted(ptrs, ref_cnt_)'
    BY <1>18
  <1> QED BY <1>21, <1>25, <1>27, <1>28 DEF SharedPoolInv

LEMMA NextSharedPool ==
  ASSUME SharedPoolInv, [SharedPoolNext]_sharedPoolVars
  PROVE  SharedPoolInv'
PROOF
  <1>1. CASE UNCHANGED sharedPoolVars
    <2>1. UNCHANGED <<allocated_, ref_cnt_, has_data, link, queue_head, free_reader, ptrs, drop>>
      BY <1>1 DEF sharedPoolVars, raws
    <2>2. SharedPoolType' /\ Counted(ptrs, ref_cnt_)'
      BY <2>1 DEF SharedPoolInv, SharedPoolType
    <2>3. \A r \in Raw : ref_cnt_'[r] > 0 <=> ref_cnt_[r] > 0
      BY <2>1
    <2> QED BY <2>1, <2>2, <2>3, PlacesKept
  <1>2. CASE SharedPoolNext
    <2>1. PICK t \in Holder :
            \/ Alloc(t) \/ CalcFreeSize(t)
            \/ \E r \in Raw : CopyPtr(t, r) \/ Reset(t, r) \/ \E u \in Holder : MovePtr(t, u, r)
            \/ DestroyData(t) \/ LoadNext(t) \/ PushRaw(t)
      BY <1>2 DEF SharedPoolNext
    <2>2. CASE Alloc(t)
      BY <2>2, AllocSafe
    <2>3. CASE CalcFreeSize(t)
      BY <2>3, CalcFreeSizeSafe
    <2>4. CASE \E r \in Raw : CopyPtr(t, r)
      BY <2>4, CopyPtrSafe
    <2>5. CASE \E r \in Raw : Reset(t, r)
      BY <2>5, ResetSafe
    <2>6. CASE \E r \in Raw : \E u \in Holder : MovePtr(t, u, r)
      BY <2>6, MovePtrSafe
    <2>7. CASE DestroyData(t)
      BY <2>7, DestroyDataSafe
    <2>8. CASE LoadNext(t)
      BY <2>8, LoadNextSafe
    <2>9. CASE PushRaw(t)
      BY <2>9, PushFails, PushSucceeds
    <2> QED BY <2>1, <2>2, <2>3, <2>4, <2>5, <2>6, <2>7, <2>8, <2>9
  <1> QED BY <1>1, <1>2

(* The places that a raw has in what ~SharedObjectPool counts. *)
LEMMA FreeOnce ==
  ASSUME NEW m \in 0..MaxRaws, NEW n \in 0..MaxRaws,
         NEW s \in [1..m -> Raw], NEW q \in [1..n -> Raw], FreeNodes(s, m, q, n),
         NEW r \in Raw
  PROVE  Cardinality({i \in DOMAIN FreeRaws : FreeRaws[i] = r})
           = IF r \in Nodes(s, m) \union Nodes(q, n) THEN 1 ELSE 0
PROOF
  <1>1. /\ Path(link, queue_head, s, m) /\ Path(link, free_reader.head, q, n)
        /\ Nodes(s, m) \intersect Nodes(q, n) = {}
    BY DEF FreeNodes, ReaderPath
  <1>2. Chained(link, queue_head) = s /\ Chained(link, free_reader.head) = q
    BY <1>1, ChainedIs
  <1>3. PICK f : f = FreeRaws
    OBVIOUS
  <1>4. m \in Nat /\ n \in Nat /\ s \in Seq(Raw) /\ q \in Seq(Raw) /\ Len(s) = m /\ Len(q) = n
    BY SharedPoolAssumption
  <1>5. f = s \o q
    BY <1>2, <1>3 DEF FreeRaws
  <1>6. /\ DOMAIN f = 1..(m + n)
        /\ \A i \in 1..(m + n) : f[i] = IF i <= m THEN s[i] ELSE q[i - m]
    <2>1. f \in Seq(Raw) /\ Len(f) = Len(s) + Len(q)
      BY <1>4, <1>5, ConcatProperties
    <2>2. DOMAIN f = 1..(m + n)
      BY <1>4, <2>1
    <2>3. \A i \in 1..(m + n) : f[i] = IF i <= Len(s) THEN s[i] ELSE q[i - Len(s)]
      BY <1>4, <1>5, ConcatProperties
    <2> QED BY <1>4, <2>2, <2>3
  <1>7. /\ \A i \in 1..(m + n) : i <= m => i \in 1..m
        /\ \A i \in 1..(m + n) : ~(i <= m) => i - m \in 1..n
    BY <1>4
  <1>8. \A i, j \in 1..(m + n) : f[i] = f[j] => i = j
    <2> SUFFICES ASSUME NEW i \in 1..(m + n), NEW j \in 1..(m + n), f[i] = f[j] PROVE i = j
      OBVIOUS
    <2>1. \A h \in 1..m : \A k \in 1..n : s[h] # q[k]
      BY <1>1 DEF Nodes
    <2>2. /\ \A h, k \in 1..m : s[h] = s[k] => h = k
          /\ \A h, k \in 1..n : q[h] = q[k] => h = k
      BY <1>1 DEF Path
    <2>3. CASE i <= m /\ j <= m
      BY <1>6, <1>7, <2>2, <2>3
    <2>4. CASE ~(i <= m) /\ ~(j <= m)
      <3>1. i - m \in 1..n /\ j - m \in 1..n /\ q[i - m] = q[j - m]
        BY <1>6, <1>7, <2>4
      <3>2. i - m = j - m
        BY <2>2, <3>1
      <3> QED BY <1>4, <3>2
    <2>5. CASE i <= m /\ ~(j <= m)
      BY <1>6, <1>7, <2>1, <2>5
    <2>6. CASE ~(i <= m) /\ j <= m
      BY <1>6, <1>7, <2>1, <2>6
    <2> QED BY <2>3, <2>4, <2>5, <2>6
  <1>9. r \in Nodes(s, m) \union Nodes(q, n) <=> \E i \in 1..(m + n) : f[i] = r
    <2>1. ASSUME NEW k \in 1..m PROVE k \in 1..(m + n) /\ f[k] = s[k]
      <3>1. k \in 1..(m + n) /\ k <= m
        BY <1>4
      <3> QED BY <1>6, <3>1
    <2>2. ASSUME NEW k \in 1..n PROVE \E i \in 1..(m + n) : f[i] = q[k]
      <3>1. m + k \in 1..(m + n) /\ ~(m + k <= m) /\ m + k - m = k
        BY <1>4
      <3> QED BY <1>6, <3>1
    <2>3. ASSUME NEW i \in 1..(m + n) PROVE f[i] \in Nodes(s, m) \union Nodes(q, n)
      <3>1. CASE i <= m
        <4>1. i \in 1..m /\ f[i] = s[i]
          BY <1>6, <1>7, <3>1
        <4> QED BY <4>1 DEF Nodes
      <3>2. CASE ~(i <= m)
        <4>1. i - m \in 1..n /\ f[i] = q[i - m]
          BY <1>6, <1>7, <3>2
        <4> QED BY <4>1 DEF Nodes
      <3> QED BY <3>1, <3>2
    <2> QED BY <2>1, <2>2, <2>3 DEF Nodes
  <1>10. CASE r \in Nodes(s, m) \union Nodes(q, n)
    <2>1. PICK i \in 1..(m + n) : f[i] = r
      BY <1>9, <1>10
    <2>2. {j \in DOMAIN f : f[j] = r} = {i}
      BY <1>6, <1>8, <2>1
    <2>3. Cardinality({i}) = 1
      BY FS_Singleton
    <2> QED BY <1>3, <1>10, <2>2, <2>3
  <1>11. CASE r \notin Nodes(s, m) \union Nodes(q, n)
    <2>1. {j \in DOMAIN f : f[j] = r} = {}
      BY <1>6, <1>9, <1>11
    <2> QED BY <1>3, <1>11, <2>1, FS_EmptySet
  <1> QED BY <1>10, <1>11

LEMMA SharedPoolIsRight == SharedPoolInv => PoolCountsRight
PROOF
  <1> SUFFICES ASSUME SharedPoolInv, NEW r \in 1..allocated_
               PROVE  LET free     == Cardinality({i \in DOMAIN FreeRaws : FreeRaws[i] = r})
                          dropping == Cardinality({t \in Holder : drop[t].op # "none" /\ drop[t].raw = r})
                      IN /\ ref_cnt_[r] = PtrsTo(r)
                         /\ free + dropping + (IF PtrsTo(r) > 0 THEN 1 ELSE 0) = 1
                         /\ PtrsTo(r) > 0 => has_data[r]
                         /\ free > 0 => ~has_data[r]
    BY DEF PoolCountsRight
  <1>1. SharedPoolType /\ Counted(ptrs, ref_cnt_)
    BY DEF SharedPoolInv
  <1>2. r \in Raw /\ r <= allocated_
    BY <1>1, SharedPoolAssumption DEF SharedPoolType, Raw
  <1>3. PICK m \in 0..MaxRaws : \E n \in 0..MaxRaws : \E s \in [1..m -> Raw] : \E q \in [1..n -> Raw] :
          FreeNodes(s, m, q, n)
    BY DEF SharedPoolInv
  <1>4. PICK n \in 0..MaxRaws : \E s \in [1..m -> Raw] : \E q \in [1..n -> Raw] : FreeNodes(s, m, q, n)
    BY <1>3
  <1>5. PICK s \in [1..m -> Raw] : \E q \in [1..n -> Raw] : FreeNodes(s, m, q, n)
    BY <1>4
  <1>6. PICK q \in [1..n -> Raw] : FreeNodes(s, m, q, n)
    BY <1>5
  <1>7. PICK F : F = Nodes(s, m) \union Nodes(q, n)
    OBVIOUS
  <1>8. RawsPlaced(F)
    BY <1>6, <1>7 DEF FreeNodes
  <1>9. PICK free : free = Cardinality({i \in DOMAIN FreeRaws : FreeRaws[i] = r})
    OBVIOUS
  <1>10. free = IF r \in F THEN 1 ELSE 0
    BY <1>2, <1>6, <1>7, <1>9, FreeOnce
  <1>11. PICK dropping : dropping = Cardinality({t \in Holder : Dropping(t, r)})
    OBVIOUS
  <1>12. PtrsTo(r) = ref_cnt_[r] /\ ref_cnt_[r] \in Nat
    <2>1. PICK c : c = [t \in Holder |-> ptrs[t][r]]
      OBVIOUS
    <2>2. ref_cnt_[r] = Cardinality(Pairs(c))
      BY <1>1, <1>2, <2>1 DEF Counted, PairsTo
    <2>3. Pairs(c) = UNION {{t} \X (1..ptrs[t][r]) : t \in Holder}
      <3>1. \A t \in Holder : c[t] = ptrs[t][r]
        BY <2>1
      <3> QED BY <3>1 DEF Pairs
    <2> QED BY <1>1, <1>2, <2>2, <2>3 DEF PtrsTo, SharedPoolType
  <1>13. /\ (\E t \in Holder : Dropping(t, r)) => dropping = 1
         /\ (\A t \in Holder : ~Dropping(t, r)) => dropping = 0
    <2>1. ASSUME NEW t \in Holder, Dropping(t, r) PROVE dropping = 1
      <3>1. \A u \in Holder : Dropping(u, r) => u = t
        BY <1>2, <1>8, <2>1 DEF RawsPlaced
      <3>2. {u \in Holder : Dropping(u, r)} = {t}
        BY <2>1, <3>1
      <3> QED BY <1>11, <3>2, FS_Singleton
    <2>2. ASSUME \A t \in Holder : ~Dropping(t, r) PROVE dropping = 0
      <3>1. {u \in Holder : Dropping(u, r)} = {}
        BY <2>2
      <3> QED BY <1>11, <3>1, FS_EmptySet
    <2> QED BY <2>1, <2>2
  <1>14. /\ r \in F => ref_cnt_[r] = 0 /\ ~has_data[r] /\ \A t \in Holder : ~Dropping(t, r)
         /\ ref_cnt_[r] > 0 => has_data[r] /\ \A t \in Holder : ~Dropping(t, r)
         /\ ref_cnt_[r] > 0 \/ (\E t \in Holder : Dropping(t, r)) \/ r \in F
    BY <1>2, <1>8 DEF RawsPlaced
  <1>15. free + dropping + (IF ref_cnt_[r] > 0 THEN 1 ELSE 0) = 1
    BY <1>10, <1>12, <1>13, <1>14
  <1>16. /\ ref_cnt_[r] > 0 => has_data[r]
         /\ free > 0 => ~has_data[r]
    BY <1>10, <1>14
  <1>17. dropping = Cardinality({t \in Holder : drop[t].op # "none" /\ drop[t].raw = r})
    BY <1>11 DEF Dropping
  <1> QED BY <1>9, <1>12, <1>15, <1>16, <1>17

(* However threads copy, move and drop pointers while the allocator takes    *)
(* raws, ref_cnt_ counts each raw's pointers, and a raw is in use, or being  *)
(* dropped by one thread, or free, once: what ~SharedObjectPool checks.       *)
THEOREM PoolIsRight == SharedPoolSpec => []PoolCountsRight
PROOF
  <1>1. SharedPoolInit => SharedPoolInv
    BY InitSharedPool
  <1>2. SharedPoolInv /\ [SharedPoolNext]_sharedPoolVars => SharedPoolInv'
    BY NextSharedPool
  <1>3. SharedPoolInv => PoolCountsRight
    BY SharedPoolIsRight
  <1> QED BY <1>1, <1>2, <1>3, PTL DEF SharedPoolSpec
=============================================================================

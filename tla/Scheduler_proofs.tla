--------------------------- MODULE Scheduler_proofs ---------------------------
(***************************************************************************)
(* Safety of Scheduler for any threads, slots, generations, messages and      *)
(* migrations: every actor belongs to one thread.                             *)
(***************************************************************************)
EXTENDS Scheduler, FiniteSetTheorems, SequenceTheorems, TLAPS

Distinct(list) == \A j, k \in DOMAIN list : list[j] = list[k] => j = k

(* The types, up to where the events come from: they may be any events.       *)
Types ==
  /\ generation \in [Info -> 0..MaxGen]
  /\ sched_id_ \in [Info -> [dest : Sched \union {NoSched}, migrating : BOOLEAN]]
  /\ alive \subseteq Info
  /\ is_running \in [Info -> BOOLEAN]
  /\ mailbox \in [Info -> Seq(Event)]
  /\ ready \in [Sched -> Seq(Info)] /\ batch \in [Sched -> Seq(Info)]
  /\ pending \in [Sched -> SUBSET Info]
  /\ pending_events \in [Sched -> [Info -> Seq(Event)]]
  /\ inbound \in [Sched -> Seq(Entry)]
  /\ actor_count \in [Sched -> Nat]
  /\ stack \in [Sched -> Seq(EventGuard)]
  /\ call \in [Sched -> Call]
  /\ sent \subseteq Event /\ IsFiniteSet(sent) /\ handled \subseteq Event /\ dropped \subseteq Event
  /\ torn \subseteq Id
  /\ moves \in [Info -> 0..MaxMoves]

Owned(s) == {i \in alive : sched_id_[i] = Owner(s)}

(* No actor is twice on the run lists of s, which are three.                  *)
Listing(s) ==
  /\ Distinct(ready[s]) /\ Distinct(batch[s])
  /\ ToSet(ready[s]) \intersect ToSet(batch[s]) = {}
  /\ pending[s] \intersect (ToSet(ready[s]) \union ToSet(batch[s])) = {}

(* s owns what it lists, and mail decides on which list an idle actor is.     *)
ListedHere(s) ==
  \A i \in Listed(s) :
    /\ i \in alive /\ sched_id_[i] = Owner(s)
    /\ ~is_running[i] => (mailbox[i] = <<>> <=> i \in pending[s])

Counted(s) == actor_count[s] = Cardinality(Owned(s))

(* An EventGuard is of an actor of this thread that runs, and of no other      *)
(* guard's, and the events it counts are in the mailbox.                       *)
Guarding(s) ==
  \A k \in DOMAIN stack[s] :
    /\ stack[s][k].info \in alive /\ sched_id_[stack[s][k].info] = Owner(s)
    /\ is_running[stack[s][k].info]
    /\ stack[s][k].left <= Len(mailbox[stack[s][k].info])
    /\ \A j \in DOMAIN stack[s] : stack[s][j].info = stack[s][k].info => j = k

(* A call that hands an actor over is its only carrier ...                     *)
HandingOver(s) ==
  call[s].op = "handover" =>
    /\ call[s].info \in alive /\ sched_id_[call[s].info] = InTransit(call[s].dest)
    /\ \A t \in Sched :
         /\ call[t].op = "handover" /\ call[t].info = call[s].info => t = s
         /\ \A k \in DOMAIN inbound[t] :
              inbound[t][k].op = "actor" => inbound[t][k].info # call[s].info

(* ... and so is an entry of the inbound queue of its destination.             *)
Brought(s) ==
  \A k \in DOMAIN inbound[s] : inbound[s][k].op = "actor" =>
    /\ inbound[s][k].info \in alive /\ sched_id_[inbound[s][k].info] = InTransit(s)
    /\ \A j \in DOMAIN inbound[s] : inbound[s][j] = inbound[s][k] => j = k

RunsOn(s, i) == \E k \in DOMAIN stack[s] : stack[s][k].info = i
Hands(s, i)  == call[s].op = "handover" /\ call[s].info = i
Brings(s, i) == \E k \in DOMAIN inbound[s] : inbound[s][k].op = "actor" /\ inbound[s][k].info = i

(* A slot in the pool is as clear() leaves it.  An actor that runs has a        *)
(* guard, one with an owner is there, and one in transit is carried.           *)
InSlot(i) ==
  IF i \notin alive
    THEN sched_id_[i] = Owner(NoSched) /\ ~is_running[i] /\ mailbox[i] = <<>>
    ELSE /\ generation[i] < MaxGen /\ sched_id_[i].dest \in Sched
         /\ is_running[i] => \E s \in Sched : RunsOn(s, i)
         /\ IF sched_id_[i].migrating
              THEN \E s \in Sched : Hands(s, i) \/ Brings(s, i)
              ELSE \E s \in Sched : i \in Listed(s) \/ RunsOn(s, i)

Owning ==
  /\ \A s \in Sched : Listing(s) /\ ListedHere(s) /\ Counted(s) /\ Guarding(s)
  /\ \A s \in Sched : HandingOver(s) /\ Brought(s)
  /\ \A i \in Info : InSlot(i)

(* The only CHECK that may fail is that of the key of pending_events_.          *)
ChecksOk == failed \subseteq {"pending_key"}

IInv == Types /\ Owning /\ ChecksOk

-----------------------------------------------------------------------------
(* Sequences *)

LEMMA Elements ==
  ASSUME NEW S, NEW q \in Seq(S)
  PROVE  /\ DOMAIN q = 1..Len(q) /\ Len(q) \in Nat
         /\ \A k \in DOMAIN q : q[k] \in S
         /\ ToSet(q) \subseteq S
         /\ q = <<>> <=> ToSet(q) = {}
PROOF BY SMT DEF ToSet

LEMMA Appended ==
  ASSUME NEW S, NEW q \in Seq(S), NEW x \in S
  PROVE  /\ Append(q, x) \in Seq(S) /\ Append(q, x) # <<>>
         /\ Len(Append(q, x)) = Len(q) + 1
         /\ \A k \in 1..Len(q) : Append(q, x)[k] = q[k]
         /\ Append(q, x)[Len(q) + 1] = x
         /\ ToSet(Append(q, x)) = ToSet(q) \union {x}
PROOF BY SMT DEF ToSet

LEMMA Tailed ==
  ASSUME NEW S, NEW q \in Seq(S), q # <<>>
  PROVE  /\ Tail(q) \in Seq(S) /\ Head(q) \in S /\ Head(q) = q[1]
         /\ Len(q) \in Nat \ {0} /\ Len(Tail(q)) = Len(q) - 1
         /\ \A k \in 1..Len(q) - 1 : Tail(q)[k] = q[k + 1]
         /\ ToSet(q) = ToSet(Tail(q)) \union {Head(q)}
PROOF
  <1>1. /\ Tail(q) \in Seq(S) /\ Head(q) \in S /\ Head(q) = q[1]
        /\ Len(q) \in Nat \ {0} /\ Len(Tail(q)) = Len(q) - 1
        /\ \A k \in 1..Len(q) - 1 : Tail(q)[k] = q[k + 1]
    BY EmptySeq, HeadTailProperties, SMT
  <1>2. DOMAIN q = 1..Len(q) /\ DOMAIN Tail(q) = 1..Len(q) - 1
    BY <1>1, LenProperties
  <1>3. ASSUME NEW k \in 1..Len(q)
        PROVE  q[k] = Head(q) \/ \E j \in 1..Len(q) - 1 : Tail(q)[j] = q[k]
    <2>1. k = 1 \/ (k - 1 \in 1..Len(q) - 1 /\ k - 1 + 1 = k)
      BY <1>1, SMT
    <2> QED BY <1>1, <2>1
  <1>4. \A j \in 1..Len(q) - 1 : j + 1 \in 1..Len(q)
    BY <1>1, SMT
  <1>5. 1 \in 1..Len(q)
    BY <1>1, SMT
  <1>6. ToSet(q) \subseteq ToSet(Tail(q)) \union {Head(q)}
    <2> SUFFICES ASSUME NEW x \in ToSet(q) PROVE x \in ToSet(Tail(q)) \union {Head(q)}
      OBVIOUS
    <2>1. PICK k \in 1..Len(q) : x = q[k]
      BY <1>2, Zenon DEF ToSet
    <2>2. CASE q[k] = Head(q)
      BY <2>1, <2>2
    <2>3. CASE \E j \in 1..Len(q) - 1 : Tail(q)[j] = q[k]
      BY <1>2, <2>1, <2>3, Zenon DEF ToSet
    <2>4. q[k] = Head(q) \/ \E j \in 1..Len(q) - 1 : Tail(q)[j] = q[k]
      BY <1>3, <2>1, Zenon
    <2> QED BY <2>2, <2>3, <2>4, Zenon
  <1>7. ToSet(Tail(q)) \subseteq ToSet(q)
    <2> SUFFICES ASSUME NEW x \in ToSet(Tail(q)) PROVE x \in ToSet(q)
      OBVIOUS
    <2>1. PICK j \in 1..Len(q) - 1 : x = Tail(q)[j]
      BY <1>2, Zenon DEF ToSet
    <2>2. x = q[j + 1] /\ j + 1 \in DOMAIN q
      BY <1>1, <1>2, <1>4, <2>1, Zenon
    <2> QED BY <2>2, Zenon DEF ToSet
  <1>8. Head(q) \in ToSet(q)
    BY <1>1, <1>2, <1>5, Zenon DEF ToSet
  <1> QED BY <1>1, <1>6, <1>7, <1>8

LEMMA Fronted ==
  ASSUME NEW S, NEW q \in Seq(S), q # <<>>
  PROVE  /\ Front(q) \in Seq(S) /\ Len(Front(q)) = Len(q) - 1
         /\ \A k \in 1..Len(q) - 1 : Front(q)[k] = q[k]
         /\ Last(q) = q[Len(q)] /\ Last(q) \in S /\ Len(q) \in 1..Len(q)
PROOF
  <1>1. Len(q) \in Nat \ {0} /\ \A k \in 1..Len(q) : q[k] \in S
    BY EmptySeq, ElementOfSeq
  <1>2. Len(q) \in 1..Len(q) /\ Len(q) - 1 \in Int /\ \A k \in 1..Len(q) - 1 : q[k] \in S
    BY <1>1, SMT
  <1>3. /\ SubSeq(q, 1, Len(q) - 1) \in Seq(S)
        /\ Len(SubSeq(q, 1, Len(q) - 1)) = IF 1 <= Len(q) - 1 THEN Len(q) - 1 - 1 + 1 ELSE 0
        /\ \A k \in 1..Len(q) - 1 - 1 + 1 : SubSeq(q, 1, Len(q) - 1)[k] = q[1 + k - 1]
    BY <1>2, SubSeqProperties
  <1> DEFINE n == Len(q) - 1
  <1>a. n \in Nat
    BY <1>1, SMT
  <1> HIDE DEF n
  <1>4. n - 1 + 1 = n /\ (IF 1 <= n THEN n - 1 + 1 ELSE 0) = n /\ \A k \in 1..n : 1 + k - 1 = k
    BY <1>a, SMT
  <1> USE DEF n
  <1>5. Front(q) \in Seq(S) /\ Len(Front(q)) = Len(q) - 1
    BY <1>3, <1>4 DEF Front
  <1>6. \A k \in 1..Len(q) - 1 : Front(q)[k] = q[k]
    BY <1>3, <1>4 DEF Front
  <1>7. Last(q) = q[Len(q)]
    BY DEF Last
  <1> QED BY <1>1, <1>2, <1>5, <1>6, <1>7

LEMMA Concatenated ==
  ASSUME NEW S, NEW q \in Seq(S), NEW r \in Seq(S)
  PROVE  /\ q \o r \in Seq(S)
         /\ ToSet(q \o r) \subseteq ToSet(q) \union ToSet(r)
PROOF
  <1>1. /\ q \o r \in Seq(S)
        /\ Len(q \o r) = Len(q) + Len(r)
        /\ \A k \in 1..Len(q) + Len(r) : (q \o r)[k] = IF k <= Len(q) THEN q[k] ELSE r[k - Len(q)]
        /\ Len(q) \in Nat /\ Len(r) \in Nat
        /\ DOMAIN q = 1..Len(q) /\ DOMAIN r = 1..Len(r) /\ DOMAIN (q \o r) = 1..Len(q \o r)
    BY ConcatProperties, LenProperties
  <1> QED BY <1>1, SMT DEF ToSet

LEMMA DistinctAppend ==
  ASSUME NEW S, NEW q \in Seq(S), NEW x \in S, Distinct(q), x \notin ToSet(q)
  PROVE  Distinct(Append(q, x))
PROOF BY SMT DEF ToSet, Distinct

LEMMA DistinctTail ==
  ASSUME NEW S, NEW q \in Seq(S), q # <<>>, Distinct(q)
  PROVE  Distinct(Tail(q)) /\ ToSet(Tail(q)) = ToSet(q) \ {Head(q)}
PROOF
  <1>1. /\ Tail(q) \in Seq(S) /\ Head(q) = q[1]
        /\ Len(q) \in Nat \ {0} /\ Len(Tail(q)) = Len(q) - 1
        /\ \A k \in 1..Len(q) - 1 : Tail(q)[k] = q[k + 1]
        /\ ToSet(q) = ToSet(Tail(q)) \union {Head(q)}
    BY Tailed
  <1>2. DOMAIN q = 1..Len(q) /\ DOMAIN Tail(q) = 1..Len(q) - 1
    BY <1>1, LenProperties
  <1>3. Distinct(Tail(q))
    BY <1>1, <1>2, SMT DEF Distinct
  <1>4. \A k \in 1..Len(q) - 1 : Tail(q)[k] # Head(q)
    BY <1>1, <1>2, SMT DEF Distinct
  <1>5. Head(q) \notin ToSet(Tail(q))
    BY <1>2, <1>4 DEF ToSet
  <1> QED BY <1>1, <1>3, <1>5

LEMMA Removed ==
  ASSUME NEW S, NEW q \in Seq(S), NEW k \in 1..Len(q)
  PROVE  /\ RemoveAt(q, k) \in Seq(S)
         /\ Len(RemoveAt(q, k)) = Len(q) - 1
         /\ \A j \in 1..Len(q) - 1 : RemoveAt(q, k)[j] = IF j < k THEN q[j] ELSE q[j + 1]
PROOF
  <1> DEFINE before == SubSeq(q, 1, k - 1)
             after  == SubSeq(q, k + 1, Len(q))
  <1>1. Len(q) \in Nat /\ k \in Nat /\ 1 <= k /\ k <= Len(q)
    BY LenProperties, SMT
  <1>2. \A j \in 1..Len(q) : q[j] \in S
    BY ElementOfSeq
  <1>3. /\ before \in Seq(S) /\ Len(before) = k - 1
        /\ \A j \in 1..k - 1 : before[j] = q[j]
    <2>1. k - 1 \in Int /\ \A j \in 1..k - 1 : q[j] \in S
      BY <1>1, <1>2, SMT
    <2>2. /\ before \in Seq(S)
          /\ Len(before) = IF 1 <= k - 1 THEN k - 1 - 1 + 1 ELSE 0
          /\ \A j \in 1..k - 1 - 1 + 1 : before[j] = q[1 + j - 1]
      BY <2>1, SubSeqProperties
    <2> HIDE DEF before
    <2> QED BY <1>1, <2>2, SMT
  <1>4. /\ after \in Seq(S) /\ Len(after) = Len(q) - k
        /\ \A j \in 1..Len(q) - k : after[j] = q[k + j]
    <2>1. k + 1 \in Int /\ Len(q) \in Int /\ \A j \in k + 1..Len(q) : q[j] \in S
      BY <1>1, <1>2, SMT
    <2>2. /\ after \in Seq(S)
          /\ Len(after) = IF k + 1 <= Len(q) THEN Len(q) - (k + 1) + 1 ELSE 0
          /\ \A j \in 1..Len(q) - (k + 1) + 1 : after[j] = q[k + 1 + j - 1]
      BY <2>1, SubSeqProperties
    <2> HIDE DEF after
    <2> QED BY <1>1, <2>2, SMT
  <1>5. RemoveAt(q, k) = before \o after
    BY DEF RemoveAt
  <1> HIDE DEF before, after
  <1>6. /\ before \o after \in Seq(S) /\ Len(before \o after) = Len(before) + Len(after)
        /\ \A j \in 1..Len(before) + Len(after) :
             (before \o after)[j] = IF j <= Len(before) THEN before[j] ELSE after[j - Len(before)]
    BY <1>3, <1>4, ConcatProperties
  <1> QED BY <1>1, <1>3, <1>4, <1>5, <1>6, SMT

(* Unlink takes an actor off a list. *)
LEMMA Unlinked ==
  ASSUME NEW q \in Seq(Info), NEW i \in Info, Distinct(q)
  PROVE  /\ Unlink(q, i) \in Seq(Info) /\ Distinct(Unlink(q, i))
         /\ ToSet(Unlink(q, i)) = ToSet(q) \ {i}
PROOF
  <1>1. DOMAIN q = 1..Len(q) /\ Len(q) \in Nat
    BY LenProperties
  <1>2. CASE \E k \in DOMAIN q : q[k] = i
    <2> DEFINE k == CHOOSE j \in DOMAIN q : q[j] = i
    <2>1. k \in 1..Len(q) /\ q[k] = i /\ Unlink(q, i) = RemoveAt(q, k)
      BY <1>1, <1>2, Zenon DEF Unlink
    <2> HIDE DEF k
    <2>2. /\ RemoveAt(q, k) \in Seq(Info)
          /\ Len(RemoveAt(q, k)) = Len(q) - 1
          /\ \A j \in 1..Len(q) - 1 : RemoveAt(q, k)[j] = IF j < k THEN q[j] ELSE q[j + 1]
      BY <2>1, Removed
    <2>3. DOMAIN RemoveAt(q, k) = 1..Len(q) - 1
      BY <2>2, LenProperties
    <2> DEFINE r == RemoveAt(q, k)
               old(j) == IF j < k THEN j ELSE j + 1
    <2>4. \A j \in 1..Len(q) - 1 : r[j] = q[old(j)]
      BY <2>2
    <2>5. \A j, m \in 1..Len(q) - 1 :
            old(j) \in 1..Len(q) /\ old(j) # k /\ (old(j) = old(m) => j = m)
      BY <1>1, <2>1, SMT
    <2> HIDE DEF r, old
    <2>8. Distinct(r)
      BY <1>1, <2>3, <2>4, <2>5, Zenon DEF Distinct, r
    <2>9. \A j \in 1..Len(q) - 1 : r[j] # i /\ \E m \in 1..Len(q) : q[m] = r[j]
      BY <1>1, <2>1, <2>4, <2>5, Zenon DEF Distinct
    <2>6. \A m \in 1..Len(q) : m # k => \E j \in 1..Len(q) - 1 : r[j] = q[m]
      <3> TAKE m \in 1..Len(q)
      <3> HAVE m # k
      <3>1. CASE m < k
        BY <1>1, <2>1, <2>2, <3>1, SMT DEF r
      <3>2. CASE m > k
        <4>1. m - 1 \in 1..Len(q) - 1 /\ ~(m - 1 < k) /\ m - 1 + 1 = m
          BY <1>1, <2>1, <3>2, SMT
        <4> QED BY <2>2, <4>1 DEF r
      <3> QED BY <1>1, <2>1, <3>1, <3>2, SMT
    <2>7. ToSet(r) = ToSet(q) \ {i}
      <3>1. DOMAIN r = 1..Len(q) - 1
        BY <2>3 DEF r
      <3>2. ToSet(r) \subseteq ToSet(q) \ {i}
        BY <1>1, <2>9, <3>1, Zenon DEF ToSet
      <3>3. ASSUME NEW x \in ToSet(q) \ {i} PROVE x \in ToSet(r)
        <4>1. PICK m \in 1..Len(q) : x = q[m]
          BY <1>1, Zenon DEF ToSet
        <4>2. m # k
          BY <2>1, <4>1
        <4> QED BY <2>6, <3>1, <4>1, <4>2, Zenon DEF ToSet
      <3> QED BY <3>2, <3>3
    <2> QED BY <2>1, <2>2, <2>8, <2>7 DEF r
  <1>3. CASE ~\E k \in DOMAIN q : q[k] = i
    BY <1>3, Zenon DEF Unlink, ToSet
  <1> QED BY <1>2, <1>3

-----------------------------------------------------------------------------
(* What sched_id_ says *)

LEMMA Ids ==
  /\ \A s, t : Owner(s) = Owner(t) => s = t
  /\ \A s, t : InTransit(s) = InTransit(t) => s = t
  /\ \A s, t : Owner(s) # InTransit(t)
  /\ \A s : Owner(s).dest = s /\ ~Owner(s).migrating /\ InTransit(s).dest = s /\ InTransit(s).migrating
PROOF
  <1>1. \A s, t : Owner(s) = Owner(t) => s = t
    BY DEF Owner
  <1>2. \A s, t : InTransit(s) = InTransit(t) => s = t
    BY DEF InTransit
  <1>3. \A s, t : Owner(s) # InTransit(t)
    BY DEF Owner, InTransit
  <1>4. \A s : Owner(s).dest = s /\ ~Owner(s).migrating /\ InTransit(s).dest = s /\ InTransit(s).migrating
    BY DEF Owner, InTransit
  <1> QED BY <1>1, <1>2, <1>3, <1>4

-----------------------------------------------------------------------------
(* The run lists *)

(* What a move between the lists of s comes to.                                *)
ListsBecome(s, listed, idle) ==
  /\ ready' \in [Sched -> Seq(Info)] /\ batch' \in [Sched -> Seq(Info)]
  /\ pending' \in [Sched -> SUBSET Info]
  /\ \A t \in Sched : Listing(t)'
  /\ Listed(s)' = listed /\ pending'[s] = idle
  /\ \A t \in Sched \ {s} : Listed(t)' = Listed(t) /\ pending'[t] = pending[t]

LEMMA MovedToReady ==
  ASSUME Types, NEW s \in Sched, NEW i \in Info, \A t \in Sched : Listing(t), MoveToReady(s, i)
  PROVE  ListsBecome(s, Listed(s) \union {i}, pending[s] \ {i})
PROOF
  <1> DEFINE r == Unlink(ready[s], i)
             b == Unlink(batch[s], i)
  <1>1. /\ ready[s] \in Seq(Info) /\ batch[s] \in Seq(Info) /\ pending[s] \subseteq Info
        /\ Distinct(ready[s]) /\ Distinct(batch[s])
    BY DEF Types, Listing
  <1>2. r \in Seq(Info) /\ Distinct(r) /\ ToSet(r) = ToSet(ready[s]) \ {i}
    BY <1>1, Unlinked
  <1>3. b \in Seq(Info) /\ Distinct(b) /\ ToSet(b) = ToSet(batch[s]) \ {i}
    BY <1>1, Unlinked
  <1> HIDE DEF r, b
  <1>4. Append(r, i) \in Seq(Info) /\ ToSet(Append(r, i)) = ToSet(r) \union {i}
    BY <1>2, Appended
  <1>5. Distinct(Append(r, i))
    BY <1>2, DistinctAppend
  <1>6. /\ ready' = [ready EXCEPT ![s] = Append(r, i)]
        /\ batch' = [batch EXCEPT ![s] = b]
        /\ pending' = [pending EXCEPT ![s] = @ \ {i}]
    BY DEF MoveToReady, r, b
  <1>7. /\ ready' \in [Sched -> Seq(Info)] /\ batch' \in [Sched -> Seq(Info)]
        /\ pending' \in [Sched -> SUBSET Info]
    BY <1>1, <1>3, <1>4, <1>6 DEF Types
  <1>8. ready'[s] = Append(r, i) /\ batch'[s] = b /\ pending'[s] = pending[s] \ {i}
    BY <1>6 DEF Types
  <1>9. \A t \in Sched \ {s} : ready'[t] = ready[t] /\ batch'[t] = batch[t] /\ pending'[t] = pending[t]
    BY <1>6 DEF Types
  <1>10. \A t \in Sched : Listing(t)'
    BY <1>1, <1>2, <1>3, <1>4, <1>5, <1>8, <1>9 DEF Listing
  <1>11. Listed(s)' = Listed(s) \union {i}
    BY <1>2, <1>3, <1>4, <1>8 DEF Listed
  <1>12. \A t \in Sched \ {s} : Listed(t)' = Listed(t)
    BY <1>9 DEF Listed
  <1> QED BY <1>7, <1>8, <1>9, <1>10, <1>11, <1>12 DEF ListsBecome

LEMMA MovedToPending ==
  ASSUME Types, NEW s \in Sched, NEW i \in Info, \A t \in Sched : Listing(t), MoveToPending(s, i)
  PROVE  ListsBecome(s, Listed(s) \union {i}, pending[s] \union {i})
PROOF
  <1> DEFINE r == Unlink(ready[s], i)
             b == Unlink(batch[s], i)
  <1>1. /\ ready[s] \in Seq(Info) /\ batch[s] \in Seq(Info) /\ pending[s] \subseteq Info
        /\ Distinct(ready[s]) /\ Distinct(batch[s])
    BY DEF Types, Listing
  <1>2. r \in Seq(Info) /\ Distinct(r) /\ ToSet(r) = ToSet(ready[s]) \ {i}
    BY <1>1, Unlinked
  <1>3. b \in Seq(Info) /\ Distinct(b) /\ ToSet(b) = ToSet(batch[s]) \ {i}
    BY <1>1, Unlinked
  <1> HIDE DEF r, b
  <1>4. /\ ready' = [ready EXCEPT ![s] = r]
        /\ batch' = [batch EXCEPT ![s] = b]
        /\ pending' = [pending EXCEPT ![s] = @ \union {i}]
    BY DEF MoveToPending, r, b
  <1>5. /\ ready' \in [Sched -> Seq(Info)] /\ batch' \in [Sched -> Seq(Info)]
        /\ pending' \in [Sched -> SUBSET Info]
    BY <1>1, <1>2, <1>3, <1>4 DEF Types
  <1>6. ready'[s] = r /\ batch'[s] = b /\ pending'[s] = pending[s] \union {i}
    BY <1>4 DEF Types
  <1>7. \A t \in Sched \ {s} : ready'[t] = ready[t] /\ batch'[t] = batch[t] /\ pending'[t] = pending[t]
    BY <1>4 DEF Types
  <1>8. \A t \in Sched : Listing(t)'
    BY <1>1, <1>2, <1>3, <1>6, <1>7 DEF Listing
  <1>9. Listed(s)' = Listed(s) \union {i}
    BY <1>2, <1>3, <1>6 DEF Listed
  <1>10. \A t \in Sched \ {s} : Listed(t)' = Listed(t)
    BY <1>7 DEF Listed
  <1> QED BY <1>5, <1>6, <1>7, <1>8, <1>9, <1>10 DEF ListsBecome

LEMMA Unlisted ==
  ASSUME Types, NEW s \in Sched, NEW i \in Info, \A t \in Sched : Listing(t), Unlist(s, i)
  PROVE  ListsBecome(s, Listed(s) \ {i}, pending[s] \ {i})
PROOF
  <1> DEFINE r == Unlink(ready[s], i)
             b == Unlink(batch[s], i)
  <1>1. /\ ready[s] \in Seq(Info) /\ batch[s] \in Seq(Info) /\ pending[s] \subseteq Info
        /\ Distinct(ready[s]) /\ Distinct(batch[s])
    BY DEF Types, Listing
  <1>2. r \in Seq(Info) /\ Distinct(r) /\ ToSet(r) = ToSet(ready[s]) \ {i}
    BY <1>1, Unlinked
  <1>3. b \in Seq(Info) /\ Distinct(b) /\ ToSet(b) = ToSet(batch[s]) \ {i}
    BY <1>1, Unlinked
  <1> HIDE DEF r, b
  <1>4. /\ ready' = [ready EXCEPT ![s] = r]
        /\ batch' = [batch EXCEPT ![s] = b]
        /\ pending' = [pending EXCEPT ![s] = @ \ {i}]
    BY DEF Unlist, r, b
  <1>5. /\ ready' \in [Sched -> Seq(Info)] /\ batch' \in [Sched -> Seq(Info)]
        /\ pending' \in [Sched -> SUBSET Info]
    BY <1>1, <1>2, <1>3, <1>4 DEF Types
  <1>6. ready'[s] = r /\ batch'[s] = b /\ pending'[s] = pending[s] \ {i}
    BY <1>4 DEF Types
  <1>7. \A t \in Sched \ {s} : ready'[t] = ready[t] /\ batch'[t] = batch[t] /\ pending'[t] = pending[t]
    BY <1>4 DEF Types
  <1>8. \A t \in Sched : Listing(t)'
    BY <1>1, <1>2, <1>3, <1>6, <1>7 DEF Listing
  <1>9. Listed(s)' = Listed(s) \ {i}
    BY <1>2, <1>3, <1>6 DEF Listed
  <1>10. \A t \in Sched \ {s} : Listed(t)' = Listed(t)
    BY <1>7 DEF Listed
  <1> QED BY <1>5, <1>6, <1>7, <1>8, <1>9, <1>10 DEF ListsBecome

(* ~EventGuard and register_migrated_actor choose the list by the mailbox.     *)
LEMMA Relisted ==
  ASSUME Types, NEW s \in Sched, NEW i \in Info, \A t \in Sched : Listing(t), NEW mail,
         IF mail = <<>> THEN MoveToPending(s, i) ELSE MoveToReady(s, i)
  PROVE  ListsBecome(s, Listed(s) \union {i},
                     IF mail = <<>> THEN pending[s] \union {i} ELSE pending[s] \ {i})
PROOF
  <1>1. CASE mail = <<>>
    BY <1>1, MovedToPending
  <1>2. CASE mail # <<>>
    BY <1>2, MovedToReady
  <1> QED BY <1>1, <1>2

(* run_mailbox takes the ready list. *)
LEMMA RoundTaken ==
  ASSUME Types, NEW s \in Sched, \A t \in Sched : Listing(t), RunMailbox(s)
  PROVE  ListsBecome(s, Listed(s), pending[s])
PROOF
  <1>1. /\ batch[s] = <<>> /\ ready[s] \in Seq(Info)
        /\ ready'[s] = <<>> /\ batch'[s] = ready[s] /\ pending' = pending
        /\ \A t \in Sched \ {s} : ready'[t] = ready[t] /\ batch'[t] = batch[t]
        /\ ready' \in [Sched -> Seq(Info)] /\ batch' \in [Sched -> Seq(Info)]
    BY DEF RunMailbox, Types
  <1>2. <<>> \in Seq(Info) /\ ToSet(<<>>) = {} /\ Distinct(<<>>)
    <2>1. <<>> \in Seq(Info)
      BY EmptySeq
    <2> QED BY <2>1, Elements DEF ToSet, Distinct
  <1>3. \A t \in Sched : Listing(t)'
    BY <1>1, <1>2 DEF Listing
  <1>4. Listed(s)' = Listed(s)
    BY <1>1, <1>2 DEF Listed
  <1>5. \A t \in Sched \ {s} : Listed(t)' = Listed(t)
    BY <1>1 DEF Listed
  <1>6. pending' \in [Sched -> SUBSET Info]
    BY <1>1 DEF Types
  <1> QED BY <1>1, <1>3, <1>4, <1>5, <1>6 DEF ListsBecome

(* The next actor of the round leaves its list. *)
LEMMA NextTaken ==
  ASSUME Types, NEW s \in Sched, \A t \in Sched : Listing(t), FlushMailbox(s)
  PROVE  /\ Head(batch[s]) \in Info /\ Head(batch[s]) \in Listed(s) /\ Head(batch[s]) \notin pending[s]
         /\ ListsBecome(s, Listed(s) \ {Head(batch[s])}, pending[s])
PROOF
  <1> DEFINE i == Head(batch[s])
  <1>1. batch[s] \in Seq(Info) /\ batch[s] # <<>> /\ Distinct(batch[s])
    BY DEF FlushMailbox, Types, Listing
  <1>2. Tail(batch[s]) \in Seq(Info) /\ i \in Info /\ ToSet(batch[s]) = ToSet(Tail(batch[s])) \union {i}
    BY <1>1, Tailed
  <1>3. Distinct(Tail(batch[s])) /\ ToSet(Tail(batch[s])) = ToSet(batch[s]) \ {i}
    BY <1>1, DistinctTail
  <1>4. /\ batch' = [batch EXCEPT ![s] = Tail(@)] /\ ready' = ready /\ pending' = pending
    BY DEF FlushMailbox
  <1> HIDE DEF i
  <1>5. /\ batch'[s] = Tail(batch[s])
        /\ \A t \in Sched \ {s} : batch'[t] = batch[t]
        /\ batch' \in [Sched -> Seq(Info)]
    BY <1>2, <1>4 DEF Types
  <1>6. i \in ToSet(batch[s])
    BY <1>2
  <1>7. \A t \in Sched : Listing(t)'
    BY <1>3, <1>4, <1>5 DEF Listing
  <1>8. i \in Listed(s) /\ i \notin pending[s] /\ i \notin ToSet(ready[s])
    BY <1>6 DEF Listed, Listing
  <1>9. Listed(s)' = Listed(s) \ {i}
    BY <1>3, <1>4, <1>5, <1>8 DEF Listed
  <1>10. \A t \in Sched \ {s} : Listed(t)' = Listed(t)
    BY <1>4, <1>5 DEF Listed
  <1>11. ready' \in [Sched -> Seq(Info)] /\ pending' \in [Sched -> SUBSET Info]
    BY <1>4 DEF Types
  <1> QED BY <1>2, <1>4, <1>5, <1>7, <1>8, <1>9, <1>10, <1>11 DEF ListsBecome, i

LEMMA ListsKept ==
  ASSUME Types, \A t \in Sched : Listing(t), UNCHANGED <<ready, batch, pending>>
  PROVE  /\ \A t \in Sched : Listing(t)' /\ Listed(t)' = Listed(t)
         /\ ready' \in [Sched -> Seq(Info)] /\ batch' \in [Sched -> Seq(Info)]
         /\ pending' \in [Sched -> SUBSET Info]
PROOF BY DEF Types, Listing, Listed

-----------------------------------------------------------------------------
(* The stacks of EventGuards *)

LEMMA GuardPushed ==
  ASSUME Types, NEW s \in Sched, NEW g \in EventGuard,
         stack' = [stack EXCEPT ![s] = Append(@, g)]
  PROVE  /\ stack' \in [Sched -> Seq(EventGuard)]
         /\ DOMAIN stack[s] = 1..Len(stack[s]) /\ Len(stack[s]) \in Nat
         /\ DOMAIN stack'[s] = 1..Len(stack[s]) + 1
         /\ \A k \in 1..Len(stack[s]) : stack'[s][k] = stack[s][k]
         /\ stack'[s][Len(stack[s]) + 1] = g
         /\ \A t \in Sched \ {s} : stack'[t] = stack[t]
         /\ \A t \in Sched, j \in Info : RunsOn(t, j)' <=> RunsOn(t, j) \/ (t = s /\ j = g.info)
PROOF
  <1>1. stack[s] \in Seq(EventGuard)
    BY DEF Types
  <1>2. /\ Append(stack[s], g) \in Seq(EventGuard)
        /\ Len(Append(stack[s], g)) = Len(stack[s]) + 1
        /\ \A k \in 1..Len(stack[s]) : Append(stack[s], g)[k] = stack[s][k]
        /\ Append(stack[s], g)[Len(stack[s]) + 1] = g
    BY <1>1, Appended
  <1>3. /\ DOMAIN stack[s] = 1..Len(stack[s]) /\ Len(stack[s]) \in Nat
        /\ DOMAIN Append(stack[s], g) = 1..Len(stack[s]) + 1
    BY <1>1, <1>2, Elements
  <1>4. stack'[s] = Append(stack[s], g) /\ \A t \in Sched \ {s} : stack'[t] = stack[t]
    BY DEF Types
  <1>5. stack' \in [Sched -> Seq(EventGuard)]
    BY <1>2 DEF Types
  <1>6. \A t \in Sched \ {s}, j \in Info : RunsOn(t, j)' <=> RunsOn(t, j)
    BY <1>4 DEF RunsOn
  <1>7. ASSUME NEW j \in Info PROVE RunsOn(s, j)' <=> RunsOn(s, j) \/ j = g.info
    <2>1. \A k \in 1..Len(stack[s]) : k \in 1..Len(stack[s]) + 1
      BY <1>3
    <2>2. Len(stack[s]) + 1 \in 1..Len(stack[s]) + 1
      BY <1>3
    <2>3. \A k \in 1..Len(stack[s]) + 1 : k \in 1..Len(stack[s]) \/ k = Len(stack[s]) + 1
      BY <1>3
    <2> QED BY <1>2, <1>3, <1>4, <2>1, <2>2, <2>3, Zenon DEF RunsOn
  <1> QED BY <1>2, <1>3, <1>4, <1>5, <1>6, <1>7

LEMMA GuardPopped ==
  ASSUME Types, NEW s \in Sched, stack[s] # <<>>,
         stack' = [stack EXCEPT ![s] = Front(@)]
  PROVE  /\ stack' \in [Sched -> Seq(EventGuard)]
         /\ DOMAIN stack[s] = 1..Len(stack[s]) /\ Len(stack[s]) \in Nat \ {0}
         /\ DOMAIN stack'[s] = 1..Len(stack[s]) - 1
         /\ \A k \in 1..Len(stack[s]) - 1 : stack'[s][k] = stack[s][k]
         /\ \A t \in Sched \ {s} : stack'[t] = stack[t]
         /\ \A t \in Sched, j \in Info : RunsOn(t, j)' => RunsOn(t, j)
         /\ \A t \in Sched, j \in Info : RunsOn(t, j) => RunsOn(t, j)' \/ (t = s /\ j = Innermost(s).info)
PROOF
  <1>1. stack[s] \in Seq(EventGuard)
    BY DEF Types
  <1>2. /\ Front(stack[s]) \in Seq(EventGuard) /\ Len(Front(stack[s])) = Len(stack[s]) - 1
        /\ \A k \in 1..Len(stack[s]) - 1 : Front(stack[s])[k] = stack[s][k]
        /\ Len(stack[s]) \in 1..Len(stack[s])
    BY <1>1, Fronted
  <1>3. /\ DOMAIN stack[s] = 1..Len(stack[s]) /\ Len(stack[s]) \in Nat
        /\ DOMAIN Front(stack[s]) = 1..Len(stack[s]) - 1
    BY <1>1, <1>2, Elements
  <1>4. Len(stack[s]) \in Nat \ {0}
    BY <1>2, <1>3
  <1>5. stack'[s] = Front(stack[s]) /\ \A t \in Sched \ {s} : stack'[t] = stack[t]
    BY DEF Types
  <1>6. stack' \in [Sched -> Seq(EventGuard)]
    BY <1>2 DEF Types
  <1>7. \A t \in Sched \ {s}, j \in Info : RunsOn(t, j)' <=> RunsOn(t, j)
    BY <1>5 DEF RunsOn
  <1>8. Innermost(s) = stack[s][Len(stack[s])]
    BY <1>1, Fronted DEF Innermost
  <1>9. ASSUME NEW j \in Info
        PROVE  (RunsOn(s, j)' => RunsOn(s, j)) /\ (RunsOn(s, j) => RunsOn(s, j)' \/ j = Innermost(s).info)
    <2>1. \A k \in 1..Len(stack[s]) - 1 : k \in 1..Len(stack[s])
      BY <1>3
    <2>2. \A k \in 1..Len(stack[s]) : k \in 1..Len(stack[s]) - 1 \/ k = Len(stack[s])
      BY <1>3
    <2> QED BY <1>2, <1>3, <1>5, <1>8, <2>1, <2>2, Zenon DEF RunsOn
  <1> QED BY <1>2, <1>3, <1>4, <1>5, <1>6, <1>7, <1>9

(* The innermost guard of s is now g. *)
TopBecomes(s, g) ==
  /\ stack' \in [Sched -> Seq(EventGuard)]
  /\ DOMAIN stack[s] = 1..Len(stack[s]) /\ Len(stack[s]) \in Nat \ {0}
  /\ DOMAIN stack'[s] = 1..Len(stack[s])
  /\ \A k \in 1..Len(stack[s]) - 1 : stack'[s][k] = stack[s][k]
  /\ stack'[s][Len(stack[s])] = g
  /\ \A t \in Sched \ {s} : stack'[t] = stack[t]

LEMMA TopChanged ==
  ASSUME Types, NEW s \in Sched, stack[s] # <<>>, NEW g \in EventGuard,
         stack' = [stack EXCEPT ![s][Len(stack[s])] = g]
  PROVE  TopBecomes(s, g)
PROOF
  <1> DEFINE n == Len(stack[s])
             q == [stack[s] EXCEPT ![n] = g]
  <1>1. stack[s] \in Seq(EventGuard) /\ n \in 1..n
    BY Fronted DEF Types
  <1>2. DOMAIN stack[s] = 1..n /\ n \in Nat
    BY <1>1, Elements
  <1>3. q \in Seq(EventGuard) /\ Len(q) = n
    BY <1>1, ExceptSeq
  <1>4. DOMAIN q = 1..n
    BY <1>3, Elements
  <1>5. q[n] = g /\ \A k \in 1..n - 1 : q[k] = stack[s][k]
    BY <1>1, <1>2
  <1>6. stack' = [stack EXCEPT ![s] = q]
    OBVIOUS
  <1> HIDE DEF q
  <1>7. stack'[s] = q /\ \A t \in Sched \ {s} : stack'[t] = stack[t]
    BY <1>6 DEF Types
  <1>8. stack' \in [Sched -> Seq(EventGuard)]
    BY <1>3, <1>6 DEF Types
  <1>9. n \in Nat \ {0}
    BY <1>1, <1>2
  <1> QED BY <1>2, <1>4, <1>5, <1>7, <1>8, <1>9 DEF TopBecomes

LEMMA TopReplaced ==
  ASSUME Types, NEW s \in Sched, stack[s] # <<>>, NEW g \in EventGuard,
         stack' = [stack EXCEPT ![s] = Append(Front(@), g)]
  PROVE  TopBecomes(s, g)
PROOF
  <1> DEFINE n == Len(stack[s])
             f == Front(stack[s])
             q == Append(f, g)
  <1>1. /\ stack[s] \in Seq(EventGuard) /\ n \in 1..n
        /\ f \in Seq(EventGuard) /\ Len(f) = n - 1
        /\ \A k \in 1..n - 1 : f[k] = stack[s][k]
    BY Fronted DEF Types
  <1>2. DOMAIN stack[s] = 1..n /\ n \in Nat
    BY <1>1, Elements
  <1> HIDE DEF f
  <1>3. /\ q \in Seq(EventGuard) /\ Len(q) = n - 1 + 1
        /\ \A k \in 1..n - 1 : q[k] = f[k]
        /\ q[n - 1 + 1] = g
    BY <1>1, Appended
  <1> HIDE DEF q
  <1>4. n - 1 + 1 = n
    BY <1>2
  <1>5. DOMAIN q = 1..n
    BY <1>3, <1>4, Elements
  <1>6. stack' = [stack EXCEPT ![s] = q]
    BY DEF q, f
  <1>7. stack'[s] = q /\ \A t \in Sched \ {s} : stack'[t] = stack[t]
    BY <1>6 DEF Types
  <1>8. stack' \in [Sched -> Seq(EventGuard)]
    BY <1>3, <1>6 DEF Types
  <1>9. n \in Nat \ {0}
    BY <1>1, <1>2
  <1> QED BY <1>1, <1>2, <1>3, <1>4, <1>5, <1>7, <1>8, <1>9 DEF TopBecomes

LEMMA TopRuns ==
  ASSUME Types, NEW s \in Sched, stack[s] # <<>>, NEW g \in EventGuard, TopBecomes(s, g),
         g.info = Innermost(s).info
  PROVE  \A t \in Sched, j \in Info : RunsOn(t, j)' <=> RunsOn(t, j)
PROOF
  <1>1. \A t \in Sched \ {s}, j \in Info : RunsOn(t, j)' <=> RunsOn(t, j)
    BY DEF RunsOn, TopBecomes
  <1>2. Innermost(s) = stack[s][Len(stack[s])]
    BY Fronted DEF Innermost, Types
  <1>3. ASSUME NEW j \in Info PROVE RunsOn(s, j)' <=> RunsOn(s, j)
    <2>1. \A k \in 1..Len(stack[s]) : stack'[s][k].info = stack[s][k].info
      <3>1. \A k \in 1..Len(stack[s]) : k \in 1..Len(stack[s]) - 1 \/ k = Len(stack[s])
        BY DEF TopBecomes
      <3> QED BY <1>2, <3>1, Zenon DEF TopBecomes
    <2> QED BY <2>1, Zenon DEF RunsOn, TopBecomes
  <1> QED BY <1>1, <1>3

(* An actor with a guard on s has none elsewhere, and its guards are one.      *)
LEMMA InnermostOwned ==
  ASSUME IInv, NEW s \in Sched, stack[s] # <<>>
  PROVE  /\ Innermost(s) \in EventGuard /\ Innermost(s) = stack[s][Len(stack[s])]
         /\ DOMAIN stack[s] = 1..Len(stack[s]) /\ Len(stack[s]) \in 1..Len(stack[s])
         /\ Innermost(s).info \in Info /\ Innermost(s).info \in alive
         /\ sched_id_[Innermost(s).info] = Owner(s) /\ is_running[Innermost(s).info]
         /\ Innermost(s).left \in Nat /\ Innermost(s).left <= Len(mailbox[Innermost(s).info])
         /\ Innermost(s).dest \in Sched \union {NoSched}
         /\ \A k \in 1..Len(stack[s]) - 1 : stack[s][k].info # Innermost(s).info
         /\ \A t \in Sched \ {s} : ~RunsOn(t, Innermost(s).info)
PROOF
  <1>1. stack[s] \in Seq(EventGuard) /\ Guarding(s)
    BY DEF IInv, Types, Owning
  <1>2. Innermost(s) \in EventGuard /\ Innermost(s) = stack[s][Len(stack[s])] /\ Len(stack[s]) \in 1..Len(stack[s])
    BY <1>1, Fronted DEF Innermost
  <1>3. DOMAIN stack[s] = 1..Len(stack[s]) /\ Len(stack[s]) \in Nat
    BY <1>1, Elements
  <1> DEFINE n == Len(stack[s])
             i == Innermost(s).info
  <1>4. /\ i \in alive /\ sched_id_[i] = Owner(s) /\ is_running[i]
        /\ Innermost(s).left <= Len(mailbox[i])
        /\ \A j \in 1..n : stack[s][j].info = i => j = n
    BY <1>1, <1>2, <1>3 DEF Guarding
  <1>5. \A k \in 1..n - 1 : stack[s][k].info # i
    BY <1>2, <1>3, <1>4
  <1>6. i \in Info /\ Innermost(s).left \in Nat /\ Innermost(s).dest \in Sched \union {NoSched}
    BY <1>2 DEF EventGuard
  <1>7. ASSUME NEW t \in Sched \ {s} PROVE ~RunsOn(t, i)
    <2>1. Guarding(t)
      BY DEF IInv, Owning
    <2>2. Owner(s) # Owner(t)
      BY DEF Owner
    <2> QED BY <1>4, <2>1, <2>2 DEF Guarding, RunsOn
  <1> QED BY <1>2, <1>3, <1>4, <1>5, <1>6, <1>7

-----------------------------------------------------------------------------
(* The inbound queues *)

LEMMA EntryTaken ==
  ASSUME Types, NEW s \in Sched, inbound[s] # <<>>,
         inbound' = [inbound EXCEPT ![s] = Tail(@)]
  PROVE  /\ inbound' \in [Sched -> Seq(Entry)] /\ Head(inbound[s]) \in Entry
         /\ Len(inbound[s]) \in Nat \ {0} /\ Head(inbound[s]) = inbound[s][1]
         /\ DOMAIN inbound[s] = 1..Len(inbound[s]) /\ DOMAIN inbound'[s] = 1..Len(inbound[s]) - 1
         /\ \A k \in 1..Len(inbound[s]) - 1 : inbound'[s][k] = inbound[s][k + 1]
         /\ \A t \in Sched \ {s} : inbound'[t] = inbound[t]
PROOF
  <1>1. inbound[s] \in Seq(Entry)
    BY DEF Types
  <1>2. /\ Tail(inbound[s]) \in Seq(Entry) /\ Head(inbound[s]) \in Entry /\ Head(inbound[s]) = inbound[s][1]
        /\ Len(inbound[s]) \in Nat \ {0} /\ Len(Tail(inbound[s])) = Len(inbound[s]) - 1
        /\ \A k \in 1..Len(inbound[s]) - 1 : Tail(inbound[s])[k] = inbound[s][k + 1]
    BY <1>1, Tailed
  <1>3. /\ DOMAIN inbound[s] = 1..Len(inbound[s])
        /\ DOMAIN Tail(inbound[s]) = 1..Len(inbound[s]) - 1
    BY <1>1, <1>2, Elements
  <1>4. inbound'[s] = Tail(inbound[s]) /\ \A t \in Sched \ {s} : inbound'[t] = inbound[t]
    BY DEF Types
  <1>5. inbound' \in [Sched -> Seq(Entry)]
    BY <1>2 DEF Types
  <1> QED BY <1>2, <1>3, <1>4, <1>5

LEMMA EntryPut ==
  ASSUME Types, NEW d \in Sched, NEW x \in Entry,
         inbound' = [inbound EXCEPT ![d] = Append(@, x)]
  PROVE  /\ inbound' \in [Sched -> Seq(Entry)]
         /\ DOMAIN inbound[d] = 1..Len(inbound[d]) /\ Len(inbound[d]) \in Nat
         /\ DOMAIN inbound'[d] = 1..Len(inbound[d]) + 1
         /\ \A k \in 1..Len(inbound[d]) : inbound'[d][k] = inbound[d][k]
         /\ inbound'[d][Len(inbound[d]) + 1] = x
         /\ \A t \in Sched \ {d} : inbound'[t] = inbound[t]
PROOF
  <1>1. inbound[d] \in Seq(Entry)
    BY DEF Types
  <1>2. /\ Append(inbound[d], x) \in Seq(Entry)
        /\ Len(Append(inbound[d], x)) = Len(inbound[d]) + 1
        /\ \A k \in 1..Len(inbound[d]) : Append(inbound[d], x)[k] = inbound[d][k]
        /\ Append(inbound[d], x)[Len(inbound[d]) + 1] = x
    BY <1>1, Appended
  <1>3. /\ DOMAIN inbound[d] = 1..Len(inbound[d]) /\ Len(inbound[d]) \in Nat
        /\ DOMAIN Append(inbound[d], x) = 1..Len(inbound[d]) + 1
    BY <1>1, <1>2, Elements
  <1>4. inbound'[d] = Append(inbound[d], x) /\ \A t \in Sched \ {d} : inbound'[t] = inbound[t]
    BY DEF Types
  <1>5. inbound' \in [Sched -> Seq(Entry)]
    BY <1>2 DEF Types
  <1> QED BY <1>2, <1>3, <1>4, <1>5

(* What an entry taken was, and what it leaves. *)
LEMMA TakenBrings ==
  ASSUME Types, NEW s \in Sched, inbound[s] # <<>>,
         inbound' = [inbound EXCEPT ![s] = Tail(@)]
  PROVE  /\ \A t \in Sched, j \in Info : Brings(t, j)' => Brings(t, j)
         /\ \A t \in Sched, j \in Info : Brings(t, j) =>
              \/ Brings(t, j)'
              \/ t = s /\ Head(inbound[s]).op = "actor" /\ Head(inbound[s]).info = j
PROOF
  <1>1. /\ Len(inbound[s]) \in Nat \ {0} /\ Head(inbound[s]) = inbound[s][1]
        /\ DOMAIN inbound[s] = 1..Len(inbound[s]) /\ DOMAIN inbound'[s] = 1..Len(inbound[s]) - 1
        /\ \A k \in 1..Len(inbound[s]) - 1 : inbound'[s][k] = inbound[s][k + 1]
    BY EntryTaken
  <1>b. \A t \in Sched \ {s} : inbound'[t] = inbound[t]
    BY EntryTaken
  <1>2. \A k \in 1..Len(inbound[s]) - 1 : k + 1 \in 1..Len(inbound[s])
    BY <1>1
  <1>3. \A k \in 1..Len(inbound[s]) :
          k = 1 \/ (k - 1 \in 1..Len(inbound[s]) - 1 /\ inbound'[s][k - 1] = inbound[s][k])
    BY <1>1
  <1>4. ASSUME NEW t \in Sched \ {s}, NEW j \in Info PROVE Brings(t, j)' <=> Brings(t, j)
    <2>1. inbound'[t] = inbound[t]
      BY <1>b
    <2> QED BY <2>1 DEF Brings
  <1>5. ASSUME NEW j \in Info, Brings(s, j)' PROVE Brings(s, j)
    <2>1. PICK k \in 1..Len(inbound[s]) - 1 : inbound'[s][k].op = "actor" /\ inbound'[s][k].info = j
      BY <1>1, <1>5, Zenon DEF Brings
    <2>2. inbound[s][k + 1].op = "actor" /\ inbound[s][k + 1].info = j /\ k + 1 \in 1..Len(inbound[s])
      BY <1>1, <1>2, <2>1, Zenon
    <2> QED BY <1>1, <2>2, Zenon DEF Brings
  <1>6. ASSUME NEW j \in Info, Brings(s, j)
        PROVE  Brings(s, j)' \/ (Head(inbound[s]).op = "actor" /\ Head(inbound[s]).info = j)
    <2>1. PICK k \in 1..Len(inbound[s]) : inbound[s][k].op = "actor" /\ inbound[s][k].info = j
      BY <1>1, <1>6, Zenon DEF Brings
    <2>2. CASE k = 1
      BY <1>1, <2>1, <2>2
    <2>3. CASE k - 1 \in 1..Len(inbound[s]) - 1 /\ inbound'[s][k - 1] = inbound[s][k]
      BY <1>1, <2>1, <2>3, Zenon DEF Brings
    <2>4. k = 1 \/ (k - 1 \in 1..Len(inbound[s]) - 1 /\ inbound'[s][k - 1] = inbound[s][k])
      BY <1>3, <2>1
    <2> QED BY <2>2, <2>3, <2>4, Zenon
  <1> QED BY <1>4, <1>5, <1>6

LEMMA PutBrings ==
  ASSUME Types, NEW d \in Sched, NEW x \in Entry,
         inbound' = [inbound EXCEPT ![d] = Append(@, x)]
  PROVE  \A t \in Sched, j \in Info :
           Brings(t, j)' <=> Brings(t, j) \/ (t = d /\ x.op = "actor" /\ x.info = j)
PROOF
  <1>1. /\ DOMAIN inbound[d] = 1..Len(inbound[d]) /\ Len(inbound[d]) \in Nat
        /\ DOMAIN inbound'[d] = 1..Len(inbound[d]) + 1
        /\ \A k \in 1..Len(inbound[d]) : inbound'[d][k] = inbound[d][k]
        /\ inbound'[d][Len(inbound[d]) + 1] = x
        /\ \A t \in Sched \ {d} : inbound'[t] = inbound[t]
    BY EntryPut
  <1>2. \A t \in Sched \ {d}, j \in Info : Brings(t, j)' <=> Brings(t, j)
    BY <1>1 DEF Brings
  <1>3. ASSUME NEW j \in Info PROVE Brings(d, j)' <=> Brings(d, j) \/ (x.op = "actor" /\ x.info = j)
    <2>1. \A k \in 1..Len(inbound[d]) : k \in 1..Len(inbound[d]) + 1
      BY <1>1
    <2>2. Len(inbound[d]) + 1 \in 1..Len(inbound[d]) + 1
      BY <1>1
    <2>3. \A k \in 1..Len(inbound[d]) + 1 : k \in 1..Len(inbound[d]) \/ k = Len(inbound[d]) + 1
      BY <1>1
    <2> QED BY <1>1, <2>1, <2>2, <2>3, Zenon DEF Brings
  <1> QED BY <1>2, <1>3

-----------------------------------------------------------------------------
(* What a step leaves alone *)

(* No hand-over begins or ends. *)
CallsKept ==
  \A t \in Sched : (call[t].op = "handover" \/ call'[t].op = "handover") => call'[t] = call[t]

LEMMA CarriersKept ==
  ASSUME IInv, CallsKept, UNCHANGED <<alive, sched_id_, inbound>>
  PROVE  \A t \in Sched : HandingOver(t)' /\ Brought(t)'
PROOF
  <1> SUFFICES ASSUME NEW t \in Sched PROVE HandingOver(t)' /\ Brought(t)'
    OBVIOUS
  <1>1. HandingOver(t)'
    BY DEF IInv, Owning, HandingOver, CallsKept
  <1>2. Brought(t)'
    BY DEF IInv, Owning, Brought
  <1> QED BY <1>1, <1>2

(* An event goes from or to a queue; the actors in the queues stay. *)
LEMMA CarriersTake ==
  ASSUME IInv, CallsKept, UNCHANGED <<alive, sched_id_>>, NEW s \in Sched, inbound[s] # <<>>,
         inbound' = [inbound EXCEPT ![s] = Tail(@)]
  PROVE  \A t \in Sched : HandingOver(t)' /\ Brought(t)'
PROOF
  <1>1. /\ Len(inbound[s]) \in Nat \ {0}
        /\ DOMAIN inbound[s] = 1..Len(inbound[s]) /\ DOMAIN inbound'[s] = 1..Len(inbound[s]) - 1
        /\ \A k \in 1..Len(inbound[s]) - 1 : inbound'[s][k] = inbound[s][k + 1]
    BY EntryTaken DEF IInv
  <1>2. \A t \in Sched \ {s} : inbound'[t] = inbound[t]
    BY EntryTaken DEF IInv
  <1>3. \A k \in DOMAIN inbound'[s] : k + 1 \in DOMAIN inbound[s] /\ inbound'[s][k] = inbound[s][k + 1]
    BY <1>1
  <1>4. \A j, k \in DOMAIN inbound'[s] : j + 1 = k + 1 => j = k
    BY <1>1
  <1>5. \A t \in Sched, j \in Info : Brings(t, j)' => Brings(t, j)
    BY TakenBrings DEF IInv
  <1>6. ASSUME NEW t \in Sched PROVE HandingOver(t)'
    <2>1. HandingOver(t) /\ (call'[t].op = "handover" => call'[t] = call[t])
      BY DEF IInv, Owning, CallsKept
    <2>2. \A u \in Sched : call'[u].op = "handover" => call'[u] = call[u]
      BY DEF CallsKept
    <2>3. ASSUME NEW u \in Sched, NEW k \in DOMAIN inbound'[u]
          PROVE  \E j \in DOMAIN inbound[u] : inbound'[u][k] = inbound[u][j]
      BY <1>2, <1>3
    <2> QED BY <2>1, <2>2, <2>3 DEF HandingOver
  <1>7. ASSUME NEW t \in Sched PROVE Brought(t)'
    <2>1. Brought(t)
      BY DEF IInv, Owning
    <2>2. CASE t = s
      BY <1>3, <1>4, <2>1, <2>2 DEF Brought
    <2>3. CASE t # s
      <3>1. inbound'[t] = inbound[t]
        BY <1>2, <2>3
      <3>2. DOMAIN inbound'[t] = DOMAIN inbound[t] /\ \A k \in DOMAIN inbound[t] : inbound'[t][k] = inbound[t][k]
        BY <3>1
      <3> QED BY <2>1, <3>2 DEF Brought
    <2> QED BY <2>2, <2>3
  <1> QED BY <1>6, <1>7

LEMMA CarriersPut ==
  ASSUME IInv, CallsKept, UNCHANGED <<alive, sched_id_>>, NEW d \in Sched,
         NEW x \in Entry, x.op = "event",
         inbound' = [inbound EXCEPT ![d] = Append(@, x)]
  PROVE  \A t \in Sched : HandingOver(t)' /\ Brought(t)'
PROOF
  <1>1. /\ DOMAIN inbound[d] = 1..Len(inbound[d]) /\ Len(inbound[d]) \in Nat
        /\ DOMAIN inbound'[d] = 1..Len(inbound[d]) + 1
        /\ \A k \in 1..Len(inbound[d]) : inbound'[d][k] = inbound[d][k]
        /\ inbound'[d][Len(inbound[d]) + 1] = x
    BY EntryPut DEF IInv
  <1>2. \A t \in Sched \ {d} : inbound'[t] = inbound[t]
    BY EntryPut DEF IInv
  <1>3. \A k \in DOMAIN inbound'[d] : inbound'[d][k].op = "actor" =>
          k \in DOMAIN inbound[d] /\ inbound'[d][k] = inbound[d][k]
    BY <1>1
  <1>4. ASSUME NEW t \in Sched, NEW k \in DOMAIN inbound'[t], inbound'[t][k].op = "actor"
        PROVE  k \in DOMAIN inbound[t] /\ inbound'[t][k] = inbound[t][k]
    BY <1>2, <1>3, <1>4
  <1>5. ASSUME NEW t \in Sched PROVE HandingOver(t)'
    <2>1. HandingOver(t) /\ (call'[t].op = "handover" => call'[t] = call[t])
      BY DEF IInv, Owning, CallsKept
    <2>2. \A u \in Sched : call'[u].op = "handover" => call'[u] = call[u]
      BY DEF CallsKept
    <2> QED BY <1>4, <2>1, <2>2 DEF HandingOver
  <1>6. ASSUME NEW t \in Sched PROVE Brought(t)'
    <2>1. Brought(t)
      BY DEF IInv, Owning
    <2> QED BY <1>4, <2>1 DEF Brought
  <1> QED BY <1>5, <1>6

LEMMA CountsKept ==
  ASSUME IInv, UNCHANGED <<alive, sched_id_, actor_count>>
  PROVE  \A t \in Sched : Counted(t)'
PROOF BY DEF IInv, Owning, Counted, Owned

LEMMA GuardsKept ==
  ASSUME IInv, UNCHANGED <<alive, sched_id_, is_running, mailbox, stack>>
  PROVE  \A t \in Sched : Guarding(t)'
PROOF
  <1> SUFFICES ASSUME NEW t \in Sched PROVE Guarding(t)'
    OBVIOUS
  <1> QED BY DEF IInv, Owning, Guarding

LEMMA ListedKept ==
  ASSUME IInv, UNCHANGED <<alive, sched_id_, is_running, mailbox, ready, batch, pending>>
  PROVE  /\ \A t \in Sched : Listing(t)' /\ ListedHere(t)' /\ Listed(t)' = Listed(t)
         /\ ready' \in [Sched -> Seq(Info)] /\ batch' \in [Sched -> Seq(Info)]
         /\ pending' \in [Sched -> SUBSET Info]
PROOF
  <1>1. /\ \A t \in Sched : Listing(t)' /\ Listed(t)' = Listed(t)
        /\ ready' \in [Sched -> Seq(Info)] /\ batch' \in [Sched -> Seq(Info)]
        /\ pending' \in [Sched -> SUBSET Info]
    BY ListsKept DEF IInv, Owning
  <1>2. ASSUME NEW t \in Sched PROVE ListedHere(t)'
    BY <1>1 DEF IInv, Owning, ListedHere
  <1> QED BY <1>1, <1>2

LEMMA SlotsKept ==
  ASSUME IInv, UNCHANGED <<generation, alive, sched_id_>>,
         \A j \in Info \ alive : is_running'[j] = is_running[j] /\ mailbox'[j] = mailbox[j],
         \A j \in Info : is_running'[j] => is_running[j],
         \A t \in Sched, j \in Info : is_running'[j] /\ RunsOn(t, j) => RunsOn(t, j)',
         \A t \in Sched, j \in Info : j \in Listed(t) \/ RunsOn(t, j) =>
           \E u \in Sched : j \in Listed(u)' \/ RunsOn(u, j)',
         \A t \in Sched, j \in Info : Hands(t, j) \/ Brings(t, j) =>
           \E u \in Sched : Hands(u, j)' \/ Brings(u, j)'
  PROVE  \A j \in Info : InSlot(j)'
PROOF
  <1> SUFFICES ASSUME NEW j \in Info PROVE InSlot(j)'
    OBVIOUS
  <1>1. InSlot(j)
    BY DEF IInv, Owning
  <1> QED BY <1>1 DEF InSlot

(* A guard for an actor that did not run. *)
LEMMA GuardEntered ==
  ASSUME IInv, NEW s \in Sched, NEW g \in EventGuard,
         stack' = [stack EXCEPT ![s] = Append(@, g)],
         UNCHANGED <<alive, sched_id_>>,
         \A t \in Sched : ~RunsOn(t, g.info),
         \A j \in Info \ {g.info} : is_running'[j] = is_running[j] /\ mailbox'[j] = mailbox[j],
         g.info \in alive, sched_id_[g.info] = Owner(s),
         is_running'[g.info], g.left <= Len(mailbox'[g.info])
  PROVE  \A t \in Sched : Guarding(t)'
PROOF
  <1> SUFFICES ASSUME NEW t \in Sched PROVE Guarding(t)'
    OBVIOUS
  <1>1. /\ DOMAIN stack[s] = 1..Len(stack[s]) /\ Len(stack[s]) \in Nat
        /\ DOMAIN stack'[s] = 1..Len(stack[s]) + 1
        /\ \A k \in 1..Len(stack[s]) : stack'[s][k] = stack[s][k]
        /\ stack'[s][Len(stack[s]) + 1] = g
        /\ \A u \in Sched \ {s} : stack'[u] = stack[u]
    BY GuardPushed DEF IInv
  <1>2. Guarding(t) /\ \A k \in DOMAIN stack[t] : stack[t][k].info # g.info
    BY DEF IInv, Owning, RunsOn
  <1>3. \A k \in DOMAIN stack[t] : stack[t][k].info \in Info \ {g.info}
    BY <1>2 DEF Guarding, IInv, Types
  <1>4. CASE t = s
    <2>1. \A k \in DOMAIN stack'[s] : k \in DOMAIN stack[s] \/ k = Len(stack[s]) + 1
      BY <1>1
    <2> SUFFICES ASSUME NEW k \in DOMAIN stack'[s]
                 PROVE  /\ stack'[s][k].info \in alive' /\ sched_id_'[stack'[s][k].info] = Owner(s)
                        /\ is_running'[stack'[s][k].info]
                        /\ stack'[s][k].left <= Len(mailbox'[stack'[s][k].info])
                        /\ \A j \in DOMAIN stack'[s] : stack'[s][j].info = stack'[s][k].info => j = k
      BY <1>4 DEF Guarding
    <2>2. CASE k = Len(stack[s]) + 1
      BY <1>1, <1>2, <1>4, <2>1, <2>2
    <2>3. CASE k \in DOMAIN stack[s]
      <3>1. stack'[s][k] = stack[s][k] /\ stack[s][k].info \in Info \ {g.info}
        BY <1>1, <1>3, <1>4, <2>3
      <3>2. /\ stack[s][k].info \in alive /\ sched_id_[stack[s][k].info] = Owner(s)
            /\ is_running[stack[s][k].info]
            /\ stack[s][k].left <= Len(mailbox[stack[s][k].info])
            /\ \A j \in DOMAIN stack[s] : stack[s][j].info = stack[s][k].info => j = k
        BY <1>2, <1>4, <2>3 DEF Guarding
      <3>3. \A j \in DOMAIN stack'[s] : stack'[s][j].info = stack'[s][k].info => j = k
        BY <1>1, <1>2, <1>4, <2>1, <3>1, <3>2
      <3> QED BY <3>1, <3>2, <3>3
    <2> QED BY <2>1, <2>2, <2>3
  <1>5. CASE t # s
    BY <1>1, <1>2, <1>3, <1>5 DEF Guarding
  <1> QED BY <1>4, <1>5

-----------------------------------------------------------------------------
(* What a step about one actor does *)

(* The step leaves every slot but that of i as it was. *)
Only(i) ==
  \A j \in Info \ {i} :
    /\ generation'[j] = generation[j] /\ sched_id_'[j] = sched_id_[j]
    /\ j \in alive' <=> j \in alive
    /\ is_running'[j] = is_running[j] /\ mailbox'[j] = mailbox[j]

LEMMA NotCarried ==
  ASSUME IInv, NEW i \in Info, ~(i \in alive /\ sched_id_[i].migrating)
  PROVE  \A t \in Sched : ~Hands(t, i) /\ ~Brings(t, i)
PROOF
  <1> SUFFICES ASSUME NEW t \in Sched PROVE ~Hands(t, i) /\ ~Brings(t, i)
    OBVIOUS
  <1>1. HandingOver(t) /\ Brought(t)
    BY DEF IInv, Owning
  <1>2. \A d : InTransit(d).migrating
    BY Ids
  <1>3. ~Hands(t, i)
    BY <1>1, <1>2 DEF HandingOver, Hands
  <1>4. ~Brings(t, i)
    BY <1>1, <1>2 DEF Brought, Brings
  <1> QED BY <1>3, <1>4

(* Who is not of s is neither on a list of s nor in a guard of s. *)
LEMMA NotHere ==
  ASSUME IInv, NEW i \in Info, NEW s \in Sched, ~(i \in alive /\ sched_id_[i] = Owner(s))
  PROVE  i \notin Listed(s) /\ ~RunsOn(s, i)
PROOF
  <1>1. ListedHere(s) /\ Guarding(s)
    BY DEF IInv, Owning
  <1> QED BY <1>1 DEF ListedHere, Guarding, RunsOn

LEMMA ListedMoved ==
  ASSUME IInv, NEW s \in Sched, NEW i \in Info, NEW listed, NEW idle, Only(i),
         ListsBecome(s, listed, idle),
         listed \ {i} \subseteq Listed(s), idle \ {i} = pending[s] \ {i},
         \A t \in Sched \ {s} : i \notin Listed(t),
         i \in listed =>
           /\ i \in alive' /\ sched_id_'[i] = Owner(s)
           /\ ~is_running'[i] => (mailbox'[i] = <<>> <=> i \in idle)
  PROVE  \A t \in Sched : Listing(t)' /\ ListedHere(t)'
PROOF
  <1>1. \A t \in Sched : Listing(t)'
    BY DEF ListsBecome
  <1>2. ASSUME NEW t \in Sched PROVE ListedHere(t)'
    <2>1. Listed(t) \subseteq Info /\ ListedHere(t)
      BY DEF IInv, Owning, Types, ListedHere
    <2>2. CASE t # s
      <3>1. Listed(t)' = Listed(t) /\ pending'[t] = pending[t] /\ i \notin Listed(t)
        BY <2>2 DEF ListsBecome
      <3> QED BY <2>1, <3>1 DEF ListedHere, Only
    <2>3. CASE t = s
      <3>1. Listed(s)' = listed /\ pending'[s] = idle
        BY DEF ListsBecome
      <3> SUFFICES ASSUME NEW j \in Listed(s)'
                   PROVE  /\ j \in alive' /\ sched_id_'[j] = Owner(s)
                          /\ ~is_running'[j] => (mailbox'[j] = <<>> <=> j \in pending'[s])
        BY <2>3 DEF ListedHere
      <3>2. CASE j = i
        BY <3>1, <3>2
      <3>3. CASE j # i
        <4>1. j \in Listed(s) /\ j \in Info \ {i} /\ (j \in idle <=> j \in pending[s])
          BY <2>1, <2>3, <3>1, <3>3
        <4> QED BY <2>1, <2>3, <3>1, <4>1 DEF ListedHere, Only
      <3> QED BY <3>2, <3>3
    <2> QED BY <2>2, <2>3
  <1> QED BY <1>1, <1>2

(* The lists stay, and i is on none. *)
LEMMA ListedApart ==
  ASSUME IInv, NEW i \in Info, Only(i), UNCHANGED <<ready, batch, pending>>,
         \A t \in Sched : i \notin Listed(t)
  PROVE  \A t \in Sched : Listing(t)' /\ ListedHere(t)' /\ Listed(t)' = Listed(t)
PROOF
  <1>1. \A t \in Sched : Listing(t)' /\ Listed(t)' = Listed(t)
    BY ListsKept DEF IInv, Owning
  <1>2. ASSUME NEW t \in Sched PROVE ListedHere(t)'
    <2>1. Listed(t) \subseteq Info \ {i} /\ ListedHere(t) /\ pending'[t] = pending[t]
      BY DEF IInv, Owning, Types, ListedHere
    <2> QED BY <1>1, <2>1 DEF ListedHere, Only
  <1> QED BY <1>1, <1>2

LEMMA OwnedOthers ==
  ASSUME IsFiniteSet(Info), IInv, NEW i \in Info, Only(i), alive' \subseteq Info, NEW t \in Sched
  PROVE  Owned(t)' \ {i} = Owned(t) \ {i} /\ IsFiniteSet(Owned(t))
PROOF
  <1>1. Owned(t) \subseteq Info
    BY DEF Owned, IInv, Types
  <1>2. IsFiniteSet(Owned(t))
    BY <1>1, FS_Subset
  <1>3. Owned(t)' \ {i} = Owned(t) \ {i}
    BY DEF Owned, Only, IInv, Types
  <1> QED BY <1>2, <1>3

(* s owns i from now on, ... *)
LEMMA OwnerGained ==
  ASSUME IsFiniteSet(Info), IInv, NEW s \in Sched, NEW i \in Info, Only(i), alive' \subseteq Info,
         \A t \in Sched : ~(i \in alive /\ sched_id_[i] = Owner(t)),
         i \in alive', sched_id_'[i] = Owner(s),
         actor_count' = [actor_count EXCEPT ![s] = @ + 1]
  PROVE  \A t \in Sched : Counted(t)'
PROOF
  <1> SUFFICES ASSUME NEW t \in Sched PROVE Counted(t)'
    OBVIOUS
  <1>1. Counted(t) /\ IsFiniteSet(Owned(t)) /\ Owned(t)' \ {i} = Owned(t) \ {i} /\ i \notin Owned(t)
    BY OwnedOthers DEF IInv, Owning, Owned
  <1>2. i \in Owned(t)' <=> t = s
    BY Ids DEF Owned
  <1>3. CASE t = s
    <2>1. Owned(t)' = Owned(t) \union {i}
      BY <1>1, <1>2, <1>3
    <2>2. Cardinality(Owned(t) \union {i}) = Cardinality(Owned(t)) + 1
      BY <1>1, FS_AddElement
    <2>3. actor_count'[t] = actor_count[t] + 1
      BY <1>3 DEF IInv, Types
    <2> QED BY <1>1, <2>1, <2>2, <2>3 DEF Counted
  <1>4. CASE t # s
    <2>1. Owned(t)' = Owned(t)
      BY <1>1, <1>2, <1>4
    <2>2. actor_count'[t] = actor_count[t]
      BY <1>4 DEF IInv, Types
    <2> QED BY <1>1, <2>1, <2>2 DEF Counted
  <1> QED BY <1>3, <1>4

(* ... no longer, ... *)
LEMMA OwnerLost ==
  ASSUME IsFiniteSet(Info), IInv, NEW s \in Sched, NEW i \in Info, Only(i), alive' \subseteq Info,
         i \in alive, sched_id_[i] = Owner(s),
         \A t \in Sched : ~(i \in alive' /\ sched_id_'[i] = Owner(t)),
         actor_count' = [actor_count EXCEPT ![s] = @ - 1]
  PROVE  /\ \A t \in Sched : Counted(t)'
         /\ actor_count[s] > 0 /\ actor_count' \in [Sched -> Nat]
PROOF
  <1>1. ASSUME NEW t \in Sched
        PROVE  /\ Counted(t) /\ IsFiniteSet(Owned(t)) /\ Owned(t)' \ {i} = Owned(t) \ {i}
               /\ i \notin Owned(t)' /\ (i \in Owned(t) <=> t = s)
               /\ actor_count[t] \in Nat
    <2>1. Counted(t) /\ IsFiniteSet(Owned(t)) /\ Owned(t)' \ {i} = Owned(t) \ {i}
      BY OwnedOthers DEF IInv, Owning
    <2>2. i \notin Owned(t)' /\ (i \in Owned(t) <=> t = s)
      BY Ids DEF Owned
    <2> QED BY <2>1, <2>2 DEF IInv, Types
  <1>2. Cardinality(Owned(s) \ {i}) = Cardinality(Owned(s)) - 1 /\ Cardinality(Owned(s) \ {i}) \in Nat
    <2>1. IsFiniteSet(Owned(s)) /\ i \in Owned(s)
      BY <1>1
    <2> QED BY <2>1, FS_RemoveElement, FS_CardinalityType
  <1>3. Owned(s)' = Owned(s) \ {i}
    BY <1>1
  <1>4. actor_count'[s] = actor_count[s] - 1 /\ actor_count[s] = Cardinality(Owned(s))
    BY <1>1 DEF IInv, Types, Counted
  <1>5. Counted(s)' /\ actor_count'[s] \in Nat /\ actor_count[s] > 0
    BY <1>1, <1>2, <1>3, <1>4 DEF Counted
  <1>6. ASSUME NEW t \in Sched, t # s PROVE Counted(t)'
    <2>0. Owned(t)' \ {i} = Owned(t) \ {i} /\ i \notin Owned(t)' /\ i \notin Owned(t) /\ Counted(t)
      BY <1>1, <1>6, Zenon
    <2>1. Owned(t)' = Owned(t)
      BY <2>0
    <2>2. actor_count'[t] = actor_count[t]
      BY <1>6 DEF IInv, Types
    <2> QED BY <2>0, <2>1, <2>2 DEF Counted
  <1>7. actor_count' \in [Sched -> Nat]
    BY <1>5 DEF IInv, Types
  <1> QED BY <1>5, <1>6, <1>7

(* ... or it never did, nor does another. *)
LEMMA OwnerNone ==
  ASSUME IsFiniteSet(Info), IInv, NEW i \in Info, Only(i), alive' \subseteq Info, UNCHANGED actor_count,
         \A t \in Sched : ~(i \in alive /\ sched_id_[i] = Owner(t)),
         \A t \in Sched : ~(i \in alive' /\ sched_id_'[i] = Owner(t))
  PROVE  \A t \in Sched : Counted(t)'
PROOF
  <1> SUFFICES ASSUME NEW t \in Sched PROVE Counted(t)'
    OBVIOUS
  <1>1. Counted(t) /\ Owned(t)' \ {i} = Owned(t) \ {i} /\ i \notin Owned(t) /\ i \notin Owned(t)'
    BY OwnedOthers DEF IInv, Owning, Owned
  <1> QED BY <1>1 DEF Counted

(* The stacks stay, and who runs still does, with as much mail. *)
LEMMA GuardsStay ==
  ASSUME IInv, UNCHANGED stack, mailbox' \in [Info -> Seq(Event)],
         \A t \in Sched, j \in Info : RunsOn(t, j) =>
           /\ j \in alive' /\ sched_id_'[j] = sched_id_[j] /\ is_running'[j]
           /\ Len(mailbox[j]) <= Len(mailbox'[j])
  PROVE  \A t \in Sched : Guarding(t)'
PROOF
  <1> SUFFICES ASSUME NEW t \in Sched, NEW k \in DOMAIN stack[t]
               PROVE  /\ stack[t][k].info \in alive' /\ sched_id_'[stack[t][k].info] = Owner(t)
                      /\ is_running'[stack[t][k].info]
                      /\ stack[t][k].left <= Len(mailbox'[stack[t][k].info])
                      /\ \A j \in DOMAIN stack[t] : stack[t][j].info = stack[t][k].info => j = k
    BY DEF Guarding
  <1>1. stack[t] \in Seq(EventGuard)
    BY DEF IInv, Types
  <1>2. stack[t][k] \in EventGuard
    BY <1>1, Elements
  <1>3. stack[t][k].info \in Info /\ stack[t][k].left \in Nat
    BY <1>2 DEF EventGuard
  <1>4. /\ sched_id_[stack[t][k].info] = Owner(t)
        /\ stack[t][k].left <= Len(mailbox[stack[t][k].info])
        /\ \A j \in DOMAIN stack[t] : stack[t][j].info = stack[t][k].info => j = k
    BY DEF IInv, Owning, Guarding
  <1>5. RunsOn(t, stack[t][k].info)
    BY Zenon DEF RunsOn
  <1>6. /\ stack[t][k].info \in alive' /\ sched_id_'[stack[t][k].info] = Owner(t)
        /\ is_running'[stack[t][k].info]
        /\ Len(mailbox[stack[t][k].info]) <= Len(mailbox'[stack[t][k].info])
    BY <1>3, <1>4, <1>5
  <1>7. Len(mailbox[stack[t][k].info]) \in Nat /\ Len(mailbox'[stack[t][k].info]) \in Nat
    BY <1>3, Elements DEF IInv, Types
  <1> QED BY <1>3, <1>4, <1>6, <1>7

(* The innermost guard of s changes, and at most the mailbox of its actor. *)
LEMMA GuardsReplaced ==
  ASSUME IInv, NEW s \in Sched, stack[s] # <<>>, NEW g \in EventGuard, TopBecomes(s, g),
         g.info = Innermost(s).info, UNCHANGED <<alive, sched_id_, is_running>>,
         \A j \in Info \ {g.info} : mailbox'[j] = mailbox[j],
         g.left <= Len(mailbox'[g.info])
  PROVE  \A t \in Sched : Guarding(t)'
PROOF
  <1> SUFFICES ASSUME NEW t \in Sched PROVE Guarding(t)'
    OBVIOUS
  <1>1. /\ DOMAIN stack[s] = 1..Len(stack[s]) /\ Len(stack[s]) \in Nat \ {0}
        /\ DOMAIN stack'[s] = 1..Len(stack[s])
        /\ \A k \in 1..Len(stack[s]) - 1 : stack'[s][k] = stack[s][k]
        /\ stack'[s][Len(stack[s])] = g
        /\ \A u \in Sched \ {s} : stack'[u] = stack[u]
    BY DEF TopBecomes
  <1>2. /\ g.info \in alive /\ sched_id_[g.info] = Owner(s) /\ is_running[g.info]
        /\ \A k \in 1..Len(stack[s]) - 1 : stack[s][k].info # g.info
        /\ \A u \in Sched \ {s} : ~RunsOn(u, g.info)
    BY InnermostOwned
  <1>3. Guarding(t)
    BY DEF IInv, Owning
  <1>4. \A k \in DOMAIN stack[t] : stack[t][k].info \in Info
    BY <1>3 DEF Guarding, IInv, Types
  <1>5. CASE t = s
    <2>1. \A k \in 1..Len(stack[s]) : k \in 1..Len(stack[s]) - 1 \/ k = Len(stack[s])
      BY <1>1
    <2>2. \A k \in 1..Len(stack[s]) - 1 : k \in 1..Len(stack[s])
      BY <1>1
    <2> SUFFICES ASSUME NEW k \in 1..Len(stack[s])
                 PROVE  /\ stack'[s][k].info \in alive' /\ sched_id_'[stack'[s][k].info] = Owner(s)
                        /\ is_running'[stack'[s][k].info]
                        /\ stack'[s][k].left <= Len(mailbox'[stack'[s][k].info])
                        /\ \A j \in 1..Len(stack[s]) : stack'[s][j].info = stack'[s][k].info => j = k
      BY <1>1, <1>5 DEF Guarding
    <2>3. CASE k = Len(stack[s])
      BY <1>1, <1>2, <2>1, <2>3
    <2>4. CASE k \in 1..Len(stack[s]) - 1
      <3>1. stack'[s][k] = stack[s][k] /\ stack[s][k].info \in Info \ {g.info}
        BY <1>1, <1>2, <1>4, <1>5, <2>2, <2>4
      <3>2. /\ stack[s][k].info \in alive /\ sched_id_[stack[s][k].info] = Owner(s)
            /\ is_running[stack[s][k].info]
            /\ stack[s][k].left <= Len(mailbox[stack[s][k].info])
            /\ \A j \in 1..Len(stack[s]) : stack[s][j].info = stack[s][k].info => j = k
        BY <1>1, <1>3, <1>5, <2>2, <2>4 DEF Guarding
      <3>3. \A j \in 1..Len(stack[s]) : stack'[s][j].info = stack'[s][k].info => j = k
        <4> TAKE j \in 1..Len(stack[s])
        <4>1. CASE j = Len(stack[s])
          BY <1>1, <3>1, <4>1
        <4>2. CASE j \in 1..Len(stack[s]) - 1
          BY <1>1, <3>1, <3>2, <4>2
        <4> QED BY <2>1, <4>1, <4>2
      <3> QED BY <3>1, <3>2, <3>3
    <2> QED BY <2>1, <2>3, <2>4
  <1>6. CASE t # s
    <2>1. \A k \in DOMAIN stack[t] : stack[t][k].info # g.info
      BY <1>2, <1>6, Zenon DEF RunsOn
    <2>2. stack'[t] = stack[t]
      BY <1>1, <1>6
    <2> QED BY <1>3, <1>4, <2>1, <2>2 DEF Guarding
  <1> QED BY <1>5, <1>6

(* The innermost guard of s is gone, and only its actor changed. *)
LEMMA GuardLeft ==
  ASSUME IInv, NEW s \in Sched, stack[s] # <<>>, NEW i, i = Innermost(s).info, Only(i),
         stack' = [stack EXCEPT ![s] = Front(@)]
  PROVE  \A t \in Sched : Guarding(t)'
PROOF
  <1> SUFFICES ASSUME NEW t \in Sched PROVE Guarding(t)'
    OBVIOUS
  <1>1. /\ DOMAIN stack[s] = 1..Len(stack[s]) /\ Len(stack[s]) \in Nat \ {0}
        /\ DOMAIN stack'[s] = 1..Len(stack[s]) - 1
        /\ \A k \in 1..Len(stack[s]) - 1 : stack'[s][k] = stack[s][k]
        /\ \A u \in Sched \ {s} : stack'[u] = stack[u]
    BY GuardPopped DEF IInv
  <1>2. /\ \A k \in 1..Len(stack[s]) - 1 : stack[s][k].info # i
        /\ \A u \in Sched \ {s} : ~RunsOn(u, i)
    BY InnermostOwned
  <1>3. Guarding(t)
    BY DEF IInv, Owning
  <1>4. \A k \in DOMAIN stack[t] : stack[t][k].info \in Info
    BY <1>3 DEF Guarding, IInv, Types
  <1>5. \A k \in DOMAIN stack'[t] :
          k \in DOMAIN stack[t] /\ stack'[t][k] = stack[t][k] /\ stack[t][k].info \in Info \ {i}
    <2>1. CASE t = s
      BY <1>1, <1>2, <1>4, <2>1
    <2>2. CASE t # s
      BY <1>1, <1>2, <1>4, <2>2, Zenon DEF RunsOn
    <2> QED BY <2>1, <2>2
  <1> SUFFICES ASSUME NEW k \in DOMAIN stack'[t]
               PROVE  /\ stack'[t][k].info \in alive' /\ sched_id_'[stack'[t][k].info] = Owner(t)
                      /\ is_running'[stack'[t][k].info]
                      /\ stack'[t][k].left <= Len(mailbox'[stack'[t][k].info])
                      /\ \A j \in DOMAIN stack'[t] : stack'[t][j].info = stack'[t][k].info => j = k
    BY DEF Guarding
  <1>6. stack'[t][k] = stack[t][k] /\ stack[t][k].info \in Info \ {i} /\ k \in DOMAIN stack[t]
    BY <1>5
  <1>7. /\ stack[t][k].info \in alive /\ sched_id_[stack[t][k].info] = Owner(t)
        /\ is_running[stack[t][k].info]
        /\ stack[t][k].left <= Len(mailbox[stack[t][k].info])
        /\ \A j \in DOMAIN stack[t] : stack[t][j].info = stack[t][k].info => j = k
    BY <1>3, <1>6 DEF Guarding
  <1>8. \A j \in DOMAIN stack'[t] : stack'[t][j].info = stack'[t][k].info => j = k
    BY <1>5, <1>6, <1>7
  <1> QED BY <1>6, <1>7, <1>8 DEF Only

(* The slots other than that of i, when their actors stay where they are. *)
LEMMA SlotsOthers ==
  ASSUME IInv, NEW i \in Info, Only(i),
         \A t \in Sched, j \in Info \ {i} : RunsOn(t, j) => RunsOn(t, j)',
         \A t \in Sched, j \in Info \ {i} : j \in Listed(t) => j \in Listed(t)',
         \A t \in Sched, j \in Info \ {i} : Hands(t, j) \/ Brings(t, j) =>
           \E u \in Sched : Hands(u, j)' \/ Brings(u, j)'
  PROVE  \A j \in Info \ {i} : InSlot(j)'
PROOF
  <1> SUFFICES ASSUME NEW j \in Info \ {i} PROVE InSlot(j)'
    OBVIOUS
  <1>1. InSlot(j)
    BY DEF IInv, Owning
  <1>2. /\ generation'[j] = generation[j] /\ sched_id_'[j] = sched_id_[j]
        /\ j \in alive' <=> j \in alive
        /\ is_running'[j] = is_running[j] /\ mailbox'[j] = mailbox[j]
    BY DEF Only
  <1> QED BY <1>1, <1>2 DEF InSlot

(* What i becomes is no business of those carried. *)
LEMMA CarriersApart ==
  ASSUME IInv, CallsKept, UNCHANGED inbound, NEW i \in Info, Only(i),
         \A t \in Sched : ~Hands(t, i) /\ ~Brings(t, i)
  PROVE  \A t \in Sched : HandingOver(t)' /\ Brought(t)'
PROOF
  <1> SUFFICES ASSUME NEW t \in Sched PROVE HandingOver(t)' /\ Brought(t)'
    OBVIOUS
  <1>1. HandingOver(t) /\ Brought(t) /\ ~Hands(t, i) /\ ~Brings(t, i)
    BY DEF IInv, Owning
  <1>2. HandingOver(t)'
    <2>1. call'[t].op = "handover" => call'[t] = call[t] /\ call[t].info \in Info \ {i}
      BY <1>1 DEF CallsKept, Hands, HandingOver, IInv, Types
    <2>2. \A u \in Sched : call'[u].op = "handover" => call'[u] = call[u]
      BY DEF CallsKept
    <2> QED BY <1>1, <2>1, <2>2 DEF HandingOver, Only
  <1>3. Brought(t)'
    <2>1. \A k \in DOMAIN inbound[t] : inbound[t][k].op = "actor" => inbound[t][k].info \in Info \ {i}
      BY <1>1 DEF Brings, Brought, IInv, Types
    <2> QED BY <1>1, <2>1 DEF Brought, Only
  <1> QED BY <1>2, <1>3

-----------------------------------------------------------------------------
(* Ownership, step by step *)

LEMMA RunMailboxOwning ==
  ASSUME ConstantsAssumption, IInv, NEW s \in Sched, RunMailbox(s)
  PROVE  IInv'
PROOF
  <1> USE DEF IInv, Owning
  <1>1. ListsBecome(s, Listed(s), pending[s])
    BY RoundTaken
  <1>2. UNCHANGED <<slotVars, is_running, mailbox, pending, actor_count, pending_events,
                    inbound, stack, call, history, failed>>
    BY DEF RunMailbox
  <1>3. \A t \in Sched : Listed(t)' = Listed(t) /\ pending'[t] = pending[t]
    BY <1>1 DEF ListsBecome
  <1>4. Types'
    BY <1>1, <1>2 DEF Types, ListsBecome, slotVars, history
  <1>5. \A t \in Sched : Listing(t)'
    BY <1>1 DEF ListsBecome
  <1>6. ASSUME NEW t \in Sched PROVE ListedHere(t)'
    BY <1>2, <1>3 DEF ListedHere, slotVars
  <1>7. ASSUME NEW t \in Sched PROVE Counted(t)'
    BY <1>2 DEF Counted, Owned, slotVars
  <1>71. ASSUME NEW t \in Sched PROVE Guarding(t)'
    BY <1>2 DEF Guarding, slotVars
  <1>72. ASSUME NEW t \in Sched PROVE HandingOver(t)'
    BY <1>2 DEF HandingOver, slotVars
  <1>73. ASSUME NEW t \in Sched PROVE Brought(t)'
    BY <1>2, Zenon DEF Brought, slotVars
  <1>8. ASSUME NEW i \in Info PROVE InSlot(i)'
    BY <1>2, <1>3 DEF InSlot, RunsOn, Hands, Brings, slotVars
  <1>9. ChecksOk'
    BY <1>2 DEF ChecksOk
  <1> QED BY <1>4, <1>5, <1>6, <1>7, <1>71, <1>72, <1>73, <1>8, <1>9

(* flush_mailbox finds mail, and an actor that does not run. *)
LEMMA FlushFinds ==
  ASSUME IInv, NEW s \in Sched, FlushMailbox(s), NEW i, i = Head(batch[s])
  PROVE  /\ i \in Info /\ i \in alive /\ sched_id_[i] = Owner(s)
         /\ ~is_running[i] /\ mailbox[i] # <<>> /\ mailbox[i] \in Seq(Event)
         /\ \A t \in Sched : ~RunsOn(t, i)
         /\ failed' = failed
         /\ Enter(s, i, Head(mailbox[i]), Len(mailbox[i]) - 1)
         /\ mailbox' = [mailbox EXCEPT ![i] = Tail(@)]
PROOF
  <1>1. i \in Info /\ i \in Listed(s) /\ i \notin pending[s]
    BY NextTaken DEF IInv, Owning
  <1>2. ListedHere(s)
    BY DEF IInv, Owning
  <1>3. i \in alive /\ sched_id_[i] = Owner(s) /\ (~is_running[i] => mailbox[i] # <<>>)
    BY <1>1, <1>2 DEF ListedHere
  <1>4. ASSUME NEW t \in Sched PROVE ~RunsOn(t, i)
    <2>1. Guarding(t)
      BY DEF IInv, Owning
    <2>2. CASE t = s
      BY <2>2, Elements DEF FlushMailbox, Free, RunsOn, IInv, Types
    <2>3. CASE t # s
      BY <1>3, <2>1, <2>3 DEF Guarding, RunsOn, Owner
    <2> QED BY <2>2, <2>3
  <1>5. ~is_running[i]
    BY <1>1, <1>3, <1>4 DEF IInv, Owning, InSlot
  <1>6. mailbox[i] \in Seq(Event)
    BY <1>1 DEF IInv, Types
  <1>7. Check(TRUE, "flush_mailbox")
    BY <1>3, <1>5 DEF FlushMailbox
  <1> QED BY <1>1, <1>3, <1>4, <1>5, <1>6, <1>7 DEF FlushMailbox, Check

LEMMA FlushMailboxOwning ==
  ASSUME ConstantsAssumption, IInv, NEW s \in Sched, FlushMailbox(s)
  PROVE  IInv'
PROOF
  <1>a. PICK i : i = Head(batch[s])
    OBVIOUS
  <1>b. PICK n : n = Len(mailbox[i]) - 1
    OBVIOUS
  <1>1. /\ i \in Info /\ i \in alive /\ sched_id_[i] = Owner(s)
        /\ ~is_running[i] /\ mailbox[i] # <<>> /\ mailbox[i] \in Seq(Event)
        /\ \A t \in Sched : ~RunsOn(t, i)
        /\ failed' = failed
        /\ Enter(s, i, Head(mailbox[i]), n)
        /\ mailbox' = [mailbox EXCEPT ![i] = Tail(@)]
    BY <1>a, <1>b, FlushFinds
  <1>2. /\ i \in Listed(s) /\ i \notin pending[s]
        /\ ListsBecome(s, Listed(s) \ {i}, pending[s])
    BY <1>a, NextTaken DEF IInv, Owning
  <1>3. /\ Tail(mailbox[i]) \in Seq(Event) /\ Head(mailbox[i]) \in Event
        /\ Len(mailbox[i]) \in Nat \ {0} /\ Len(Tail(mailbox[i])) = n
    BY <1>1, <1>b, Tailed
  <1>4. n \in Nat
    BY <1>3, <1>b
  <1>c. Guard(i, n) \in EventGuard /\ Guard(i, n).info = i /\ Guard(i, n).left = n
    BY <1>1, <1>4 DEF Guard, EventGuard
  <1>5. PICK g \in EventGuard : g = Guard(i, n) /\ g.info = i /\ g.left = n
    BY <1>c, Zenon
  <1>6. UNCHANGED <<slotVars, actor_count, pending_events, inbound, call, sent, dropped, torn, moves>>
    BY DEF FlushMailbox
  <1>7. /\ is_running' = [is_running EXCEPT ![i] = TRUE]
        /\ stack' = [stack EXCEPT ![s] = Append(@, g)]
        /\ handled' = handled \union {Head(mailbox[i])}
    BY <1>1, <1>5 DEF Enter
  <1>8. /\ stack' \in [Sched -> Seq(EventGuard)]
        /\ DOMAIN stack[s] = 1..Len(stack[s]) /\ Len(stack[s]) \in Nat
        /\ DOMAIN stack'[s] = 1..Len(stack[s]) + 1
        /\ \A k \in 1..Len(stack[s]) : stack'[s][k] = stack[s][k]
        /\ stack'[s][Len(stack[s]) + 1] = g
        /\ \A t \in Sched \ {s} : stack'[t] = stack[t]
        /\ \A t \in Sched, j \in Info : RunsOn(t, j)' <=> RunsOn(t, j) \/ (t = s /\ j = g.info)
    <2>1. Types /\ stack' = [stack EXCEPT ![s] = Append(@, g)]
      BY <1>7 DEF IInv
    <2> QED BY <2>1, GuardPushed
  <1>9. Types'
    BY <1>1, <1>2, <1>3, <1>6, <1>7, <1>8 DEF IInv, Types, ListsBecome, slotVars
  <1>10. \A t \in Sched : Listing(t)'
    BY <1>2 DEF ListsBecome
  <1>11. ASSUME NEW t \in Sched PROVE ListedHere(t)'
    <2>1. Listed(t)' \subseteq Listed(t) /\ i \notin Listed(t)' /\ pending'[t] = pending[t]
      <3>1. CASE t = s
        BY <1>2, <3>1 DEF ListsBecome
      <3>2. CASE t # s
        BY <1>1, <1>2, <3>2, Ids DEF ListsBecome, IInv, Owning, ListedHere
      <3> QED BY <3>1, <3>2
    <2>2. \A j \in Listed(t)' : j \in Info /\ is_running'[j] = is_running[j] /\ mailbox'[j] = mailbox[j]
      BY <1>1, <1>7, <2>1 DEF IInv, Owning, ListedHere, Types
    <2> QED BY <1>6, <2>1, <2>2 DEF IInv, Owning, ListedHere, slotVars
  <1>12. \A t \in Sched : Counted(t)' /\ HandingOver(t)' /\ Brought(t)'
    BY <1>6, CountsKept, CarriersKept DEF slotVars, CallsKept
  <1>13. \A t \in Sched : Guarding(t)'
    <2>1. \A j \in Info \ {i} : is_running'[j] = is_running[j] /\ mailbox'[j] = mailbox[j]
      BY <1>1, <1>7 DEF IInv, Types
    <2>2. is_running'[i] /\ mailbox'[i] = Tail(mailbox[i])
      BY <1>1, <1>7 DEF IInv, Types
    <2>3. g.left <= Len(mailbox'[i])
      BY <1>3, <1>4, <1>5, <2>2
    <2>4. /\ stack' = [stack EXCEPT ![s] = Append(@, g)] /\ UNCHANGED <<alive, sched_id_>>
          /\ \A t \in Sched : ~RunsOn(t, g.info)
          /\ \A j \in Info \ {g.info} : is_running'[j] = is_running[j] /\ mailbox'[j] = mailbox[j]
          /\ g.info \in alive /\ sched_id_[g.info] = Owner(s)
          /\ is_running'[g.info] /\ g.left <= Len(mailbox'[g.info])
      BY <1>1, <1>5, <1>6, <1>7, <2>1, <2>2, <2>3 DEF slotVars
    <2> QED BY <2>4, GuardEntered
  <1>14. ASSUME NEW j \in Info PROVE InSlot(j)'
    <2>1. InSlot(j)
      BY DEF IInv, Owning
    <2>2. CASE j = i
      <3>2. RunsOn(s, i)'
        BY <1>1, <1>5, <1>8, Zenon
      <3>3. i \in alive' /\ generation'[i] < MaxGen /\ sched_id_'[i].dest \in Sched /\ ~sched_id_'[i].migrating
        BY <1>1, <1>6, <2>1, <2>2, Ids DEF InSlot, slotVars
      <3> QED BY <2>2, <3>2, <3>3, Zenon DEF InSlot
    <2>3. CASE j # i
      <3>1. is_running'[j] = is_running[j] /\ mailbox'[j] = mailbox[j]
        BY <1>1, <1>7, <2>3 DEF IInv, Types
      <3>2. \A t \in Sched : RunsOn(t, j) => RunsOn(t, j)'
        BY <1>8
      <3>3. \A t \in Sched : j \in Listed(t) => j \in Listed(t)'
        BY <1>2, <2>3 DEF ListsBecome
      <3>4. \A t \in Sched : (Hands(t, j) => Hands(t, j)') /\ (Brings(t, j) => Brings(t, j)')
        BY <1>6 DEF Hands, Brings
      <3> QED BY <1>6, <2>1, <3>1, <3>2, <3>3, <3>4 DEF InSlot, slotVars
    <2> QED BY <2>2, <2>3
  <1>15. ChecksOk'
    BY <1>1 DEF IInv, ChecksOk
  <1> QED BY <1>9, <1>10, <1>11, <1>12, <1>13, <1>14, <1>15 DEF IInv, Owning

LEMMA ReceiveEventOwning ==
  ASSUME ConstantsAssumption, IInv, NEW s \in Sched, ReceiveEvent(s)
  PROVE  IInv'
PROOF
  <1>1. UNCHANGED <<slotVars, runVars, pending_events, stack, sent, handled, torn, moves, failed>>
    BY DEF ReceiveEvent
  <1>2. /\ inbound[s] # <<>> /\ Head(inbound[s]).op = "event"
        /\ inbound' = [inbound EXCEPT ![s] = Tail(@)]
    BY DEF ReceiveEvent
  <1>3. inbound' \in [Sched -> Seq(Entry)] /\ Head(inbound[s]) \in Entry
    BY <1>2, EntryTaken DEF IInv
  <1>4. Head(inbound[s]).event \in Event
    BY <1>2, <1>3 DEF Entry
  <1>5. PICK e \in Event : e = Head(inbound[s]).event
    BY <1>4
  <1>6. /\ call[s] = Idle
        /\ \/ /\ call' = [call EXCEPT ![s] = [op |-> "send", event |-> e, immediate |-> TRUE]]
              /\ dropped' = dropped
           \/ call' = call /\ dropped' = dropped \union {e}
    BY <1>5 DEF ReceiveEvent, Free
  <1>7. [op |-> "send", event |-> e, immediate |-> TRUE] \in Call
    BY <1>5 DEF Call
  <1>8. CallsKept
    BY <1>6 DEF CallsKept, Idle, IInv, Types
  <1>9. Types'
    <2>1. call' \in [Sched -> Call]
      BY <1>6, <1>7 DEF IInv, Types
    <2>2. dropped' \subseteq Event
      BY <1>5, <1>6 DEF IInv, Types
    <2> QED BY <1>1, <1>3, <2>1, <2>2 DEF IInv, Types, slotVars, runVars
  <1>10. \A t \in Sched : Listing(t)' /\ ListedHere(t)' /\ Listed(t)' = Listed(t)
    BY <1>1, ListedKept DEF slotVars, runVars
  <1>11. \A t \in Sched : Counted(t)' /\ Guarding(t)'
    BY <1>1, CountsKept, GuardsKept DEF slotVars, runVars
  <1>12. \A t \in Sched : HandingOver(t)' /\ Brought(t)'
    BY <1>1, <1>2, <1>8, CarriersTake DEF slotVars
  <1>13. \A j \in Info : InSlot(j)'
    <2>1. \A t \in Sched, j \in Info : RunsOn(t, j)' <=> RunsOn(t, j)
      BY <1>1 DEF RunsOn
    <2>2. \A t \in Sched, j \in Info : Hands(t, j) => Hands(t, j)'
      BY <1>8 DEF Hands, CallsKept
    <2>3. \A t \in Sched, j \in Info : Brings(t, j) => Brings(t, j)'
      <3>1. Head(inbound[s]).op # "actor"
        BY <1>2
      <3> QED BY <1>2, <3>1, TakenBrings DEF IInv
    <2>4. UNCHANGED <<generation, alive, sched_id_, is_running, mailbox>>
      BY <1>1 DEF slotVars, runVars
    <2> QED BY <1>10, <2>1, <2>2, <2>3, <2>4, SlotsKept
  <1>14. ChecksOk'
    BY <1>1 DEF IInv, ChecksOk
  <1> QED BY <1>9, <1>10, <1>11, <1>12, <1>13, <1>14 DEF IInv, Owning

LEMMA SendOwning ==
  ASSUME ConstantsAssumption, IInv, NEW s \in Sched, NEW i \in Info, NEW immediate \in BOOLEAN,
         Send(s, i, immediate)
  PROVE  IInv'
PROOF
  <1>1. UNCHANGED <<slotVars, runVars, pending_events, inbound, stack, handled, dropped, torn,
                    moves, failed>>
    BY DEF Send
  <1>2. /\ IsFiniteSet(SentBy(s)) /\ Cardinality(SentBy(s)) \in Nat
        /\ Cardinality(SentBy(s)) + 1 \in 0..MaxSends
    <2>1. SentBy(s) \subseteq sent /\ IsFiniteSet(sent)
      BY DEF SentBy, IInv, Types
    <2>2. IsFiniteSet(SentBy(s)) /\ Cardinality(SentBy(s)) \in Nat
      BY <2>1, FS_Subset, FS_CardinalityType
    <2> QED BY <2>2 DEF Send, ConstantsAssumption
  <1>3. PICK e : e = [kind |-> "msg", to |-> IdOf(i), src |-> s, n |-> Cardinality(SentBy(s)) + 1]
    OBVIOUS
  <1>4. e \in Event
    <2>1. IdOf(i) \in Id
      BY DEF IdOf, Id, IInv, Types
    <2> QED BY <1>2, <1>3, <2>1 DEF Event
  <1>5. /\ call[s] = Idle /\ sent' = sent \union {e}
        /\ call' = [call EXCEPT ![s] = [op |-> "send", event |-> e, immediate |-> immediate]]
    BY <1>3 DEF Send, InHandler
  <1>6. [op |-> "send", event |-> e, immediate |-> immediate] \in Call
    BY <1>4 DEF Call
  <1>7. CallsKept
    BY <1>5 DEF CallsKept, Idle, IInv, Types
  <1>8. IsFiniteSet(sent') /\ sent' \subseteq Event
    BY <1>4, <1>5, FS_AddElement DEF IInv, Types
  <1>9. Types'
    BY <1>1, <1>5, <1>6, <1>8 DEF IInv, Types, slotVars, runVars
  <1>10. \A t \in Sched : Listing(t)' /\ ListedHere(t)' /\ Listed(t)' = Listed(t)
    BY <1>1, ListedKept DEF slotVars, runVars
  <1>11. \A t \in Sched : Counted(t)' /\ Guarding(t)'
    BY <1>1, CountsKept, GuardsKept DEF slotVars, runVars
  <1>12. \A t \in Sched : HandingOver(t)' /\ Brought(t)'
    BY <1>1, <1>7, CarriersKept DEF slotVars
  <1>13. \A j \in Info : InSlot(j)'
    <2>1. \A t \in Sched, j \in Info : RunsOn(t, j)' <=> RunsOn(t, j)
      BY <1>1 DEF RunsOn
    <2>2. \A t \in Sched, j \in Info : Hands(t, j) => Hands(t, j)'
      BY <1>7 DEF Hands, CallsKept
    <2>3. \A t \in Sched, j \in Info : Brings(t, j) => Brings(t, j)'
      BY <1>1 DEF Brings
    <2>4. UNCHANGED <<generation, alive, sched_id_, is_running, mailbox>>
      BY <1>1 DEF slotVars, runVars
    <2> QED BY <1>10, <2>1, <2>2, <2>3, <2>4, SlotsKept
  <1>14. ChecksOk'
    BY <1>1 DEF IInv, ChecksOk
  <1> QED BY <1>9, <1>10, <1>11, <1>12, <1>13, <1>14 DEF IInv, Owning

(* What the thread is to route, and that its call ends. *)
LEMMA Routed ==
  ASSUME ConstantsAssumption, IInv, NEW s \in Sched, call[s].op = "send",
         call' = [call EXCEPT ![s] = Idle]
  PROVE  /\ call[s].event \in Event /\ call[s].event.to.info \in Info
         /\ call' \in [Sched -> Call] /\ CallsKept
         /\ \A t \in Sched, j \in Info : Hands(t, j)' <=> Hands(t, j)
         /\ sched_id_[call[s].event.to.info] = Owner(s) => call[s].event.to.info \in alive
PROOF
  <1>1. call[s] \in Call
    BY DEF IInv, Types
  <1>2. call[s].event \in Event
    BY <1>1 DEF Call, Idle
  <1>3. call[s].event.to.info \in Info
    BY <1>2 DEF Event, Id
  <1>4. call' \in [Sched -> Call] /\ call'[s] = Idle /\ \A t \in Sched \ {s} : call'[t] = call[t]
    BY DEF IInv, Types, Call
  <1>5. CallsKept
    BY <1>4 DEF CallsKept, Idle
  <1>6. \A t \in Sched, j \in Info : Hands(t, j)' <=> Hands(t, j)
    BY <1>4 DEF Hands, Idle
  <1>7. sched_id_[call[s].event.to.info] = Owner(s) => call[s].event.to.info \in alive
    BY <1>3, Ids DEF IInv, Owning, InSlot, ConstantsAssumption
  <1> QED BY <1>2, <1>3, <1>4, <1>5, <1>6, <1>7

(* An Immediate send that is run at once. *)
RunNow(s, i, e) ==
  /\ i \in alive /\ sched_id_[i] = Owner(s) /\ ~is_running[i]
  /\ call[s].op = "send" /\ call' = [call EXCEPT ![s] = Idle]
  /\ Enter(s, i, e, 0)
  /\ UNCHANGED <<mailbox, ready, batch, pending, slotVars, actor_count, pending_events, inbound,
                 sent, dropped, torn, moves, failed>>

LEMMA RunNowOwning ==
  ASSUME ConstantsAssumption, IInv, NEW s \in Sched, NEW e \in Event, NEW i \in Info, RunNow(s, i, e)
  PROVE  IInv'
PROOF
  <1>0. /\ i \in alive /\ sched_id_[i] = Owner(s) /\ ~is_running[i]
        /\ call[s].op = "send" /\ call' = [call EXCEPT ![s] = Idle]
        /\ UNCHANGED <<mailbox, ready, batch, pending, slotVars, actor_count, pending_events, inbound,
                       sent, dropped, torn, moves, failed>>
    BY DEF RunNow
  <1>1. /\ call' \in [Sched -> Call] /\ CallsKept
        /\ \A t \in Sched, j \in Info : Hands(t, j)' <=> Hands(t, j)
    BY <1>0, Routed
  <1>2. Guard(i, 0) \in EventGuard /\ Guard(i, 0).info = i /\ Guard(i, 0).left = 0
    BY DEF Guard, EventGuard
  <1>3. PICK g \in EventGuard : g = Guard(i, 0) /\ g.info = i /\ g.left = 0
    BY <1>2, Zenon
  <1>4. /\ is_running' = [is_running EXCEPT ![i] = TRUE]
        /\ stack' = [stack EXCEPT ![s] = Append(@, g)]
        /\ handled' = handled \union {e}
    BY <1>3 DEF Enter, RunNow
  <1>5. /\ stack' \in [Sched -> Seq(EventGuard)]
        /\ DOMAIN stack[s] = 1..Len(stack[s]) /\ Len(stack[s]) \in Nat
        /\ DOMAIN stack'[s] = 1..Len(stack[s]) + 1
        /\ \A k \in 1..Len(stack[s]) : stack'[s][k] = stack[s][k]
        /\ stack'[s][Len(stack[s]) + 1] = g
        /\ \A t \in Sched \ {s} : stack'[t] = stack[t]
        /\ \A t \in Sched, j \in Info : RunsOn(t, j)' <=> RunsOn(t, j) \/ (t = s /\ j = g.info)
    <2>1. Types /\ stack' = [stack EXCEPT ![s] = Append(@, g)]
      BY <1>4 DEF IInv
    <2> QED BY <2>1, GuardPushed, Zenon
  <1>6. UNCHANGED <<generation, sched_id_, alive>>
    BY <1>0 DEF slotVars
  <1>7. Types'
    BY <1>0, <1>1, <1>4, <1>5, <1>6 DEF IInv, Types
  <1>8. is_running'[i] /\ \A j \in Info \ {i} : is_running'[j] = is_running[j]
    BY <1>4 DEF IInv, Types
  <1>9. \A t \in Sched : Listing(t)' /\ Listed(t)' = Listed(t)
    BY <1>0, ListsKept DEF IInv, Owning
  <1>10. ASSUME NEW t \in Sched PROVE ListedHere(t)'
    <2>1. ListedHere(t) /\ Listed(t) \subseteq Info
      BY DEF IInv, Owning, Types, ListedHere
    <2> QED BY <1>0, <1>6, <1>8, <1>9, <2>1 DEF ListedHere
  <1>11. \A t \in Sched : Counted(t)' /\ HandingOver(t)' /\ Brought(t)'
    BY <1>0, <1>1, <1>6, CountsKept, CarriersKept
  <1>12. \A t \in Sched : ~RunsOn(t, i)
    BY <1>0 DEF IInv, Owning, Guarding, RunsOn
  <1>13. \A t \in Sched : Guarding(t)'
    <2>1. mailbox[i] \in Seq(Event)
      BY DEF IInv, Types
    <2>2. Len(mailbox[i]) \in Nat
      BY <2>1, Elements
    <2>3. g.left <= Len(mailbox'[i])
      BY <1>0, <1>3, <2>2
    <2>4. /\ stack' = [stack EXCEPT ![s] = Append(@, g)] /\ UNCHANGED <<alive, sched_id_>>
          /\ \A t \in Sched : ~RunsOn(t, g.info)
          /\ \A j \in Info \ {g.info} : is_running'[j] = is_running[j] /\ mailbox'[j] = mailbox[j]
          /\ g.info \in alive /\ sched_id_[g.info] = Owner(s)
          /\ is_running'[g.info] /\ g.left <= Len(mailbox'[g.info])
      BY <1>0, <1>3, <1>4, <1>6, <1>8, <1>12, <2>3
    <2> QED BY <2>4, GuardEntered
  <1>14. \A t \in Sched, j \in Info : Brings(t, j)' <=> Brings(t, j)
    BY <1>0 DEF Brings
  <1>15. \A j \in Info \ {i} : InSlot(j)'
    BY <1>0, <1>1, <1>3, <1>5, <1>6, <1>8, <1>9, <1>14, SlotsOthers DEF Only
  <1>16. InSlot(i)'
    <2>1. InSlot(i)
      BY DEF IInv, Owning
    <2>2. RunsOn(s, i)'
      BY <1>3, <1>5
    <2>3. ~sched_id_[i].migrating /\ sched_id_[i].dest \in Sched
      BY <1>0, Ids
    <2> QED BY <1>0, <1>6, <2>1, <2>2, <2>3, Zenon DEF InSlot
  <1>17. ChecksOk'
    BY <1>0 DEF IInv, ChecksOk
  <1> QED BY <1>7, <1>9, <1>10, <1>11, <1>13, <1>15, <1>16, <1>17 DEF IInv, Owning

(* A send that leaves the event in the mailbox. *)
PutInMailbox(s, i, e) ==
  /\ i \in alive /\ sched_id_[i] = Owner(s)
  /\ call[s].op = "send" /\ call' = [call EXCEPT ![s] = Idle]
  /\ mailbox' = [mailbox EXCEPT ![i] = Append(@, e)]
  /\ IF is_running[i] THEN UNCHANGED <<ready, batch, pending>> ELSE MoveToReady(s, i)
  /\ UNCHANGED <<is_running, stack, handled, slotVars, actor_count, pending_events, inbound,
                 sent, dropped, torn, moves, failed>>

LEMMA PutInMailboxOwning ==
  ASSUME ConstantsAssumption, IInv, NEW s \in Sched, NEW e \in Event, NEW i \in Info, PutInMailbox(s, i, e)
  PROVE  IInv'
PROOF
  <1> USE DEF PutInMailbox
  <1>1. /\ call' \in [Sched -> Call] /\ CallsKept
        /\ \A t \in Sched, j \in Info : Hands(t, j)' <=> Hands(t, j)
    BY Routed
  <1>2. mailbox[i] \in Seq(Event)
    BY DEF IInv, Types
  <1>3. /\ Append(mailbox[i], e) \in Seq(Event) /\ Append(mailbox[i], e) # <<>>
        /\ Len(Append(mailbox[i], e)) = Len(mailbox[i]) + 1
    BY <1>2, Appended
  <1>4. /\ mailbox' \in [Info -> Seq(Event)] /\ mailbox'[i] = Append(mailbox[i], e)
        /\ \A j \in Info \ {i} : mailbox'[j] = mailbox[j]
    BY <1>3 DEF IInv, Types
  <1>5. UNCHANGED <<generation, sched_id_, alive>>
    BY DEF slotVars
  <1>6. Only(i)
    BY <1>4, <1>5 DEF Only
  <1>7. /\ \A t \in Sched : Listing(t)' /\ ListedHere(t)' /\ (\A j \in Info : j \in Listed(t) => j \in Listed(t)')
        /\ ready' \in [Sched -> Seq(Info)] /\ batch' \in [Sched -> Seq(Info)]
        /\ pending' \in [Sched -> SUBSET Info]
        /\ is_running[i] \/ i \in Listed(s)'
    <2>1. CASE is_running[i]
      <3>1. /\ \A t \in Sched : Listing(t)' /\ Listed(t)' = Listed(t)
            /\ ready' \in [Sched -> Seq(Info)] /\ batch' \in [Sched -> Seq(Info)]
            /\ pending' \in [Sched -> SUBSET Info]
        BY <2>1, ListsKept DEF IInv, Owning
      <3>2. ASSUME NEW t \in Sched PROVE ListedHere(t)'
        <4>1. ListedHere(t) /\ Listed(t) \subseteq Info
          BY DEF IInv, Owning, Types, ListedHere
        <4> QED BY <1>4, <1>5, <2>1, <3>1, <4>1 DEF ListedHere
      <3> QED BY <2>1, <3>1, <3>2
    <2>2. CASE ~is_running[i]
      <3>1. MoveToReady(s, i) /\ Types /\ \A t \in Sched : Listing(t)
        BY <2>2 DEF IInv, Owning
      <3>2. ListsBecome(s, Listed(s) \union {i}, pending[s] \ {i})
        BY <3>1, MovedToReady
      <3>3. \A t \in Sched \ {s} : i \notin Listed(t)
        BY NotHere, Ids
      <3>4. /\ (Listed(s) \union {i}) \ {i} \subseteq Listed(s)
            /\ (pending[s] \ {i}) \ {i} = pending[s] \ {i}
            /\ i \in alive' /\ sched_id_'[i] = Owner(s)
            /\ ~is_running'[i] => (mailbox'[i] = <<>> <=> i \in pending[s] \ {i})
        BY <1>3, <1>4, <1>5
      <3>5. \A t \in Sched : Listing(t)' /\ ListedHere(t)'
        BY <1>6, <3>2, <3>3, <3>4, ListedMoved
      <3> QED BY <3>2, <3>5 DEF ListsBecome
    <2> QED BY <2>1, <2>2
  <1>8. Types'
    BY <1>1, <1>4, <1>5, <1>7 DEF IInv, Types
  <1>9. \A t \in Sched : Counted(t)' /\ HandingOver(t)' /\ Brought(t)'
    BY <1>1, <1>5, CountsKept, CarriersKept
  <1>10. \A t \in Sched : Guarding(t)'
    <2>1. ASSUME NEW j \in Info PROVE Len(mailbox[j]) <= Len(mailbox'[j])
      <3>1. Len(mailbox[j]) \in Nat
        BY Elements DEF IInv, Types
      <3> QED BY <1>3, <1>4, <3>1
    <2>2. ASSUME NEW t \in Sched, NEW j \in Info, RunsOn(t, j)
          PROVE  j \in alive' /\ sched_id_'[j] = sched_id_[j] /\ is_running'[j]
      BY <1>5, <2>2 DEF IInv, Owning, Guarding, RunsOn
    <2> QED BY <1>4, <2>1, <2>2, GuardsStay
  <1>11. \A t \in Sched, j \in Info : (RunsOn(t, j)' <=> RunsOn(t, j)) /\ (Brings(t, j)' <=> Brings(t, j))
    BY DEF RunsOn, Brings
  <1>12. \A j \in Info \ {i} : InSlot(j)'
    BY <1>1, <1>6, <1>7, <1>11, SlotsOthers
  <1>13. InSlot(i)'
    <2>1. InSlot(i)
      BY DEF IInv, Owning
    <2>2. ~sched_id_[i].migrating
      BY Ids
    <2>3. \E u \in Sched : i \in Listed(u)' \/ RunsOn(u, i)'
      BY <1>7, <1>11, <2>1, <2>2, Zenon DEF InSlot
    <2> QED BY <1>5, <1>11, <2>1, <2>2, <2>3, Zenon DEF InSlot
  <1>14. ChecksOk'
    BY DEF IInv, ChecksOk
  <1> QED BY <1>7, <1>8, <1>9, <1>10, <1>12, <1>13, <1>14 DEF IInv, Owning

LEMMA RouteHereOwning ==
  ASSUME ConstantsAssumption, IInv, NEW s \in Sched, RouteHere(s)
  PROVE  IInv'
PROOF
  <1>1. PICK e : e = call[s].event
    OBVIOUS
  <1>2. PICK i : i = e.to.info
    OBVIOUS
  <1>3. call[s].op = "send" /\ call' = [call EXCEPT ![s] = Idle] /\ sched_id_[i] = Owner(s)
    BY <1>1, <1>2 DEF RouteHere
  <1>4. e \in Event /\ i \in Info /\ i \in alive
    BY <1>1, <1>2, <1>3, Routed
  <1>5. UNCHANGED <<slotVars, actor_count, pending_events, inbound, sent, dropped, torn, moves, failed>>
    BY DEF RouteHere
  <1>6. CASE call[s].immediate /\ CanRunNow(i)
    <2>1. Enter(s, i, e, 0) /\ UNCHANGED <<mailbox, ready, batch, pending>> /\ ~is_running[i]
      BY <1>1, <1>2, <1>6 DEF RouteHere, CanRunNow
    <2> QED BY <1>3, <1>4, <1>5, <2>1, RunNowOwning DEF RunNow
  <1>7. CASE ~(call[s].immediate /\ CanRunNow(i))
    <2>1. /\ mailbox' = [mailbox EXCEPT ![i] = Append(@, e)]
          /\ IF is_running[i] THEN UNCHANGED <<ready, batch, pending>> ELSE MoveToReady(s, i)
          /\ UNCHANGED <<is_running, stack, handled>>
      BY <1>1, <1>2, <1>7 DEF RouteHere
    <2> QED BY <1>3, <1>4, <1>5, <2>1, PutInMailboxOwning DEF PutInMailbox
  <1> QED BY <1>6, <1>7

LEMMA RouteToMigrantOwning ==
  ASSUME ConstantsAssumption, IInv, NEW s \in Sched, RouteToMigrant(s)
  PROVE  IInv'
PROOF
  <1>1. PICK e : e = call[s].event
    OBVIOUS
  <1>2. PICK i : i = e.to.info
    OBVIOUS
  <1>3. call[s].op = "send" /\ failed' \subseteq failed \union {"pending_key"}
    BY DEF RouteToMigrant, Check
  <1>4. UNCHANGED <<slotVars, runVars, inbound, stack, history>>
    BY DEF RouteToMigrant
  <1>5. \/ UNCHANGED <<pending_events, call>>
        \/ /\ pending_events' = [pending_events EXCEPT ![s][i] = Append(@, e)]
           /\ call' = [call EXCEPT ![s] = Idle]
    BY <1>1, <1>2 DEF RouteToMigrant
  <1>6. /\ call' \in [Sched -> Call] /\ CallsKept
        /\ \A t \in Sched, j \in Info : Hands(t, j)' <=> Hands(t, j)
        /\ pending_events' \in [Sched -> [Info -> Seq(Event)]]
    <2>1. CASE UNCHANGED <<pending_events, call>>
      BY <2>1 DEF CallsKept, Hands, IInv, Types
    <2>2. CASE /\ pending_events' = [pending_events EXCEPT ![s][i] = Append(@, e)]
               /\ call' = [call EXCEPT ![s] = Idle]
      <3>1. /\ call' \in [Sched -> Call] /\ CallsKept /\ e \in Event /\ i \in Info
            /\ \A t \in Sched, j \in Info : Hands(t, j)' <=> Hands(t, j)
        BY <1>1, <1>2, <1>3, <2>2, Routed
      <3>2. pending_events[s][i] \in Seq(Event)
        BY <3>1 DEF IInv, Types
      <3>3. Append(pending_events[s][i], e) \in Seq(Event)
        BY <3>1, <3>2, Appended
      <3> QED BY <2>2, <3>1, <3>3 DEF IInv, Types
    <2> QED BY <1>5, <2>1, <2>2
  <1>7. Types'
    BY <1>4, <1>6 DEF IInv, Types, slotVars, runVars, history
  <1>8. \A t \in Sched : Listing(t)' /\ ListedHere(t)' /\ Listed(t)' = Listed(t)
    BY <1>4, ListedKept DEF slotVars, runVars
  <1>9. \A t \in Sched : Counted(t)' /\ Guarding(t)'
    BY <1>4, CountsKept, GuardsKept DEF slotVars, runVars
  <1>10. \A t \in Sched : HandingOver(t)' /\ Brought(t)'
    BY <1>4, <1>6, CarriersKept DEF slotVars
  <1>11. \A j \in Info : InSlot(j)'
    <2>1. \A t \in Sched, j \in Info : (RunsOn(t, j)' <=> RunsOn(t, j)) /\ (Brings(t, j)' <=> Brings(t, j))
      BY <1>4 DEF RunsOn, Brings
    <2>2. UNCHANGED <<generation, alive, sched_id_, is_running, mailbox>>
      BY <1>4 DEF slotVars, runVars
    <2> QED BY <1>6, <1>8, <2>1, <2>2, SlotsKept
  <1>12. ChecksOk'
    BY <1>3 DEF IInv, ChecksOk
  <1> QED BY <1>7, <1>8, <1>9, <1>10, <1>11, <1>12 DEF IInv, Owning

LEMMA RouteAwayOwning ==
  ASSUME ConstantsAssumption, IInv, NEW s \in Sched, RouteAway(s)
  PROVE  IInv'
PROOF
  <1>1. PICK e : e = call[s].event
    OBVIOUS
  <1>2. PICK x : x = [op |-> "event", event |-> e]
    OBVIOUS
  <1>3. PICK d : d = sched_id_[e.to.info].dest
    OBVIOUS
  <1>4. call[s].op = "send" /\ call' = [call EXCEPT ![s] = Idle]
    BY DEF RouteAway
  <1>5. UNCHANGED <<slotVars, runVars, pending_events, stack, sent, handled, torn, moves, failed>>
    BY DEF RouteAway
  <1>6. \/ d \in Sched /\ inbound' = [inbound EXCEPT ![d] = Append(@, x)] /\ dropped' = dropped
        \/ inbound' = inbound /\ dropped' = dropped \union {e}
    BY <1>1, <1>2, <1>3 DEF RouteAway
  <1>7. /\ call' \in [Sched -> Call] /\ CallsKept /\ e \in Event
        /\ \A t \in Sched, j \in Info : Hands(t, j)' <=> Hands(t, j)
    BY <1>1, <1>4, Routed
  <1>8. x \in Entry /\ x.op = "event"
    BY <1>2, <1>7 DEF Entry
  <1>9. /\ inbound' \in [Sched -> Seq(Entry)] /\ dropped' \subseteq Event
        /\ \A t \in Sched, j \in Info : Brings(t, j) => Brings(t, j)'
        /\ \A t \in Sched : HandingOver(t)' /\ Brought(t)'
    <2>1. CASE d \in Sched /\ inbound' = [inbound EXCEPT ![d] = Append(@, x)] /\ dropped' = dropped
      <3>1. d \in Sched /\ inbound' = [inbound EXCEPT ![d] = Append(@, x)] /\ Types
        BY <2>1 DEF IInv
      <3>2. inbound' \in [Sched -> Seq(Entry)]
        BY <1>8, <3>1, EntryPut
      <3>3. \A t \in Sched, j \in Info : Brings(t, j) => Brings(t, j)'
        BY <1>8, <3>1, PutBrings
      <3>4. UNCHANGED <<alive, sched_id_>>
        BY <1>5 DEF slotVars
      <3>5. \A t \in Sched : HandingOver(t)' /\ Brought(t)'
        BY <1>7, <1>8, <3>1, <3>4, CarriersPut
      <3>6. dropped' \subseteq Event
        BY <2>1 DEF IInv, Types
      <3> QED BY <3>2, <3>3, <3>5, <3>6
    <2>2. CASE inbound' = inbound /\ dropped' = dropped \union {e}
      <3>1. \A t \in Sched, j \in Info : Brings(t, j) => Brings(t, j)'
        BY <2>2 DEF Brings
      <3>2. \A t \in Sched : HandingOver(t)' /\ Brought(t)'
        BY <1>5, <1>7, <2>2, CarriersKept DEF slotVars
      <3> QED BY <1>7, <2>2, <3>1, <3>2 DEF IInv, Types
    <2> QED BY <1>6, <2>1, <2>2
  <1>10. Types'
    BY <1>5, <1>7, <1>9 DEF IInv, Types, slotVars, runVars
  <1>11. \A t \in Sched : Listing(t)' /\ ListedHere(t)' /\ Listed(t)' = Listed(t)
    BY <1>5, ListedKept DEF slotVars, runVars
  <1>12. \A t \in Sched : Counted(t)' /\ Guarding(t)'
    BY <1>5, CountsKept, GuardsKept DEF slotVars, runVars
  <1>13. \A j \in Info : InSlot(j)'
    <2>1. \A t \in Sched, j \in Info : RunsOn(t, j)' <=> RunsOn(t, j)
      BY <1>5 DEF RunsOn
    <2>2. UNCHANGED <<generation, alive, sched_id_, is_running, mailbox>>
      BY <1>5 DEF slotVars, runVars
    <2> QED BY <1>7, <1>9, <1>11, <2>1, <2>2, SlotsKept
  <1>14. ChecksOk'
    BY <1>5 DEF IInv, ChecksOk
  <1> QED BY <1>9, <1>10, <1>11, <1>12, <1>13, <1>14 DEF IInv, Owning

(* stop() and migrate() leave a flag in the innermost guard. *)
LEMMA FlagOwning ==
  ASSUME ConstantsAssumption, IInv, NEW s \in Sched, stack[s] # <<>>, NEW g \in EventGuard,
         g.info = Innermost(s).info, g.left = Innermost(s).left,
         stack' = [stack EXCEPT ![s][Len(stack[s])] = g],
         UNCHANGED <<slotVars, runVars, pending_events, inbound, call, sent, handled, dropped, torn, failed>>,
         moves' \in [Info -> 0..MaxMoves]
  PROVE  IInv'
PROOF
  <1>1. TopBecomes(s, g)
    BY TopChanged DEF IInv
  <1>2. \A t \in Sched, j \in Info : RunsOn(t, j)' <=> RunsOn(t, j)
    BY <1>1, TopRuns DEF IInv
  <1>3. UNCHANGED <<generation, alive, sched_id_, is_running, mailbox, ready, batch, pending, actor_count>>
    BY DEF slotVars, runVars
  <1>4. Types'
    BY <1>1, <1>3 DEF IInv, Types, TopBecomes
  <1>5. \A t \in Sched : Listing(t)' /\ ListedHere(t)' /\ Listed(t)' = Listed(t)
    BY <1>3, ListedKept
  <1>6. \A t \in Sched : Counted(t)'
    BY <1>3, CountsKept
  <1>7. \A t \in Sched : Guarding(t)'
    <2>1. g.left <= Len(mailbox'[g.info])
      BY <1>3, InnermostOwned
    <2> QED BY <1>1, <1>3, <2>1, GuardsReplaced
  <1>8. \A t \in Sched : HandingOver(t)' /\ Brought(t)'
    BY <1>3, CarriersKept DEF CallsKept
  <1>9. \A j \in Info : InSlot(j)'
    <2>1. \A t \in Sched, j \in Info : (Hands(t, j)' <=> Hands(t, j)) /\ (Brings(t, j)' <=> Brings(t, j))
      BY DEF Hands, Brings
    <2> QED BY <1>2, <1>3, <1>5, <2>1, SlotsKept
  <1>10. ChecksOk'
    BY DEF IInv, ChecksOk
  <1> QED BY <1>4, <1>5, <1>6, <1>7, <1>8, <1>9, <1>10 DEF IInv, Owning

LEMMA StopOwning ==
  ASSUME ConstantsAssumption, IInv, NEW s \in Sched, Stop(s)
  PROVE  IInv'
PROOF
  <1>1. stack[s] # <<>>
    BY DEF Stop, InHandler
  <1>2. Innermost(s) \in EventGuard /\ Innermost(s) = stack[s][Len(stack[s])]
    BY <1>1, InnermostOwned
  <1>3. PICK g : g = [Innermost(s) EXCEPT !.stop = TRUE]
    OBVIOUS
  <1>4. g \in EventGuard /\ g.info = Innermost(s).info /\ g.left = Innermost(s).left
    BY <1>2, <1>3 DEF EventGuard
  <1>5. stack' = [stack EXCEPT ![s][Len(stack[s])] = g]
    BY <1>2, <1>3 DEF Stop
  <1>6. UNCHANGED <<slotVars, runVars, pending_events, inbound, call, sent, handled, dropped, torn, failed>>
        /\ moves' \in [Info -> 0..MaxMoves]
    BY DEF Stop, history, IInv, Types
  <1> QED BY <1>1, <1>4, <1>5, <1>6, FlagOwning

LEMMA MigrateOwning ==
  ASSUME ConstantsAssumption, IInv, NEW s \in Sched, NEW d \in Destinations, Migrate(s, d)
  PROVE  IInv'
PROOF
  <1>1. stack[s] # <<>>
    BY DEF Migrate, InHandler
  <1>2. /\ Innermost(s) \in EventGuard /\ Innermost(s) = stack[s][Len(stack[s])]
        /\ Innermost(s).info \in Info
    BY <1>1, InnermostOwned
  <1>3. PICK g : g = [Innermost(s) EXCEPT !.dest = d]
    OBVIOUS
  <1>4. g \in EventGuard /\ g.info = Innermost(s).info /\ g.left = Innermost(s).left
    BY <1>2, <1>3 DEF EventGuard, ConstantsAssumption
  <1>5. stack' = [stack EXCEPT ![s][Len(stack[s])] = g]
    BY <1>2, <1>3 DEF Migrate
  <1>6. UNCHANGED <<slotVars, runVars, pending_events, inbound, call, sent, handled, dropped, torn, failed>>
    BY DEF Migrate
  <1>7. moves' \in [Info -> 0..MaxMoves]
    <2>1. PICK i \in Info : i = Innermost(s).info
      BY <1>2
    <2>2. moves[i] < MaxMoves /\ moves' = [moves EXCEPT ![i] = @ + 1]
      BY <2>1 DEF Migrate
    <2>3. moves \in [Info -> 0..MaxMoves] /\ MaxMoves \in Nat
      BY DEF IInv, Types, ConstantsAssumption
    <2>4. moves[i] + 1 \in 0..MaxMoves
      BY <2>2, <2>3
    <2> QED BY <2>2, <2>3, <2>4
  <1> QED BY <1>1, <1>4, <1>5, <1>6, <1>7, FlagOwning

(* A handler that returned: its actor, and the guard that runs it. *)
LEMMA DoneOf ==
  ASSUME IInv, NEW s \in Sched, InHandler(s)
  PROVE  /\ stack[s] # <<>> /\ call[s] = Idle
         /\ Innermost(s) \in EventGuard /\ Innermost(s) = stack[s][Len(stack[s])]
         /\ Innermost(s).info \in Info /\ Innermost(s).info \in alive
         /\ sched_id_[Innermost(s).info] = Owner(s) /\ is_running[Innermost(s).info]
         /\ Innermost(s).left \in Nat /\ Innermost(s).left <= Len(mailbox[Innermost(s).info])
         /\ mailbox[Innermost(s).info] \in Seq(Event)
         /\ \A t \in Sched \ {s} : Innermost(s).info \notin Listed(t) /\ ~RunsOn(t, Innermost(s).info)
PROOF
  <1>1. stack[s] # <<>> /\ call[s] = Idle
    BY DEF InHandler
  <1>2. /\ Innermost(s) \in EventGuard /\ Innermost(s) = stack[s][Len(stack[s])]
        /\ Innermost(s).info \in Info /\ Innermost(s).info \in alive
        /\ sched_id_[Innermost(s).info] = Owner(s) /\ is_running[Innermost(s).info]
        /\ Innermost(s).left \in Nat /\ Innermost(s).left <= Len(mailbox[Innermost(s).info])
        /\ \A t \in Sched \ {s} : ~RunsOn(t, Innermost(s).info)
    BY <1>1, InnermostOwned
  <1>3. mailbox[Innermost(s).info] \in Seq(Event)
    BY <1>2 DEF IInv, Types
  <1>4. \A t \in Sched \ {s} : Innermost(s).info \notin Listed(t)
    BY <1>2, NotHere, Ids
  <1> QED BY <1>1, <1>2, <1>3, <1>4

LEMMA NextEventOwning ==
  ASSUME ConstantsAssumption, IInv, NEW s \in Sched, NextEvent(s)
  PROVE  IInv'
PROOF
  <1>1. InHandler(s)
    BY DEF NextEvent, Done
  <1>2. PICK i \in Info : i = Innermost(s).info
    BY <1>1, DoneOf
  <1>3. /\ stack[s] # <<>> /\ Innermost(s) \in EventGuard /\ Innermost(s) = stack[s][Len(stack[s])]
        /\ i \in alive /\ sched_id_[i] = Owner(s) /\ is_running[i]
        /\ Innermost(s).left \in Nat /\ Innermost(s).left <= Len(mailbox[i])
        /\ mailbox[i] \in Seq(Event)
    BY <1>1, <1>2, DoneOf
  <1>4. PICK g : g = [Innermost(s) EXCEPT !.left = @ - 1]
    OBVIOUS
  <1>5. /\ Innermost(s).left > 0
        /\ stack' = [stack EXCEPT ![s][Len(stack[s])].left = @ - 1]
        /\ handled' = handled \union {Head(mailbox[i])}
        /\ mailbox' = [mailbox EXCEPT ![i] = Tail(@)]
    BY <1>2 DEF NextEvent
  <1>6. stack' = [stack EXCEPT ![s][Len(stack[s])] = g]
    BY <1>3, <1>4, <1>5
  <1>7. g \in EventGuard /\ g.info = i /\ g.left = Innermost(s).left - 1
    <2>1. Innermost(s).left - 1 \in Nat
      BY <1>3, <1>5
    <2> QED BY <1>2, <1>3, <1>4, <2>1 DEF EventGuard
  <1>8. UNCHANGED <<slotVars, is_running, ready, batch, pending, actor_count, pending_events,
                    inbound, call, sent, dropped, torn, moves, failed>>
    BY DEF NextEvent
  <1>9. /\ Tail(mailbox[i]) \in Seq(Event) /\ Head(mailbox[i]) \in Event
        /\ Len(mailbox[i]) \in Nat \ {0} /\ Len(Tail(mailbox[i])) = Len(mailbox[i]) - 1
    <2>1. mailbox[i] # <<>>
      BY <1>3, <1>5
    <2> QED BY <1>3, <2>1, Tailed
  <1>10. TopBecomes(s, g)
    BY <1>3, <1>6, <1>7, TopChanged DEF IInv
  <1>11. \A t \in Sched, j \in Info : RunsOn(t, j)' <=> RunsOn(t, j)
    BY <1>2, <1>3, <1>7, <1>10, TopRuns DEF IInv
  <1>12. UNCHANGED <<generation, alive, sched_id_>>
    BY <1>8 DEF slotVars
  <1>13. /\ mailbox' \in [Info -> Seq(Event)] /\ mailbox'[i] = Tail(mailbox[i])
         /\ \A j \in Info \ {i} : mailbox'[j] = mailbox[j]
    BY <1>5, <1>9 DEF IInv, Types
  <1>14. Types'
    BY <1>5, <1>8, <1>9, <1>10, <1>12, <1>13 DEF IInv, Types, TopBecomes
  <1>15. \A t \in Sched : Listing(t)' /\ Listed(t)' = Listed(t)
    BY <1>8, ListsKept DEF IInv, Owning
  <1>16. ASSUME NEW t \in Sched PROVE ListedHere(t)'
    <2>1. ListedHere(t) /\ Listed(t) \subseteq Info
      BY DEF IInv, Owning, Types, ListedHere
    <2> QED BY <1>3, <1>8, <1>12, <1>13, <1>15, <2>1 DEF ListedHere
  <1>17. \A t \in Sched : Counted(t)' /\ HandingOver(t)' /\ Brought(t)'
    BY <1>8, <1>12, CountsKept, CarriersKept DEF CallsKept
  <1>18. \A t \in Sched : Guarding(t)'
    <2>1. g.left <= Len(mailbox'[i])
      BY <1>3, <1>7, <1>9, <1>13
    <2>2. UNCHANGED <<alive, sched_id_, is_running>> /\ \A j \in Info \ {g.info} : mailbox'[j] = mailbox[j]
      BY <1>7, <1>8, <1>12, <1>13
    <2> QED BY <1>2, <1>3, <1>7, <1>10, <2>1, <2>2, GuardsReplaced
  <1>19. \A j \in Info : InSlot(j)'
    <2>1. \A t \in Sched, j \in Info : (Hands(t, j)' <=> Hands(t, j)) /\ (Brings(t, j)' <=> Brings(t, j))
      BY <1>8 DEF Hands, Brings
    <2>2. \A j \in Info \ alive : is_running'[j] = is_running[j] /\ mailbox'[j] = mailbox[j]
      BY <1>3, <1>8, <1>13
    <2> QED BY <1>8, <1>11, <1>12, <1>15, <2>1, <2>2, SlotsKept
  <1>20. ChecksOk'
    BY <1>8 DEF IInv, ChecksOk
  <1> QED BY <1>14, <1>15, <1>16, <1>17, <1>18, <1>19, <1>20 DEF IInv, Owning

LEMMA LeaveActorOwning ==
  ASSUME ConstantsAssumption, IInv, NEW s \in Sched, LeaveActor(s)
  PROVE  IInv'
PROOF
  <1>1. InHandler(s)
    BY DEF LeaveActor, Done
  <1>2. PICK i \in Info : i = Innermost(s).info
    BY <1>1, DoneOf
  <1>3. /\ stack[s] # <<>> /\ i \in alive /\ sched_id_[i] = Owner(s) /\ is_running[i]
        /\ \A t \in Sched \ {s} : i \notin Listed(t) /\ ~RunsOn(t, i)
    BY <1>1, <1>2, DoneOf
  <1>4. /\ is_running' = [is_running EXCEPT ![i] = FALSE]
        /\ IF mailbox[i] = <<>> THEN MoveToPending(s, i) ELSE MoveToReady(s, i)
        /\ stack' = [stack EXCEPT ![s] = Front(@)]
    BY <1>2 DEF LeaveActor, Relist
  <1>5. UNCHANGED <<slotVars, mailbox, actor_count, pending_events, inbound, call, history, failed>>
    BY DEF LeaveActor
  <1>6. PICK idle : idle = IF mailbox[i] = <<>> THEN pending[s] \union {i} ELSE pending[s] \ {i}
    OBVIOUS
  <1>7. ListsBecome(s, Listed(s) \union {i}, idle)
    BY <1>4, <1>6, Relisted DEF IInv, Owning
  <1>8. /\ stack' \in [Sched -> Seq(EventGuard)]
        /\ \A t \in Sched, j \in Info : RunsOn(t, j) => RunsOn(t, j)' \/ (t = s /\ j = i)
    BY <1>2, <1>3, <1>4, GuardPopped DEF IInv
  <1>9. UNCHANGED <<generation, sched_id_, alive>>
    BY <1>5 DEF slotVars
  <1>10. /\ is_running' \in [Info -> BOOLEAN] /\ ~is_running'[i]
         /\ \A j \in Info \ {i} : is_running'[j] = is_running[j]
    BY <1>4 DEF IInv, Types
  <1>11. Only(i)
    BY <1>5, <1>9, <1>10 DEF Only
  <1>12. Types'
    BY <1>5, <1>7, <1>8, <1>9, <1>10 DEF IInv, Types, ListsBecome, history
  <1>13. \A t \in Sched : Listing(t)' /\ ListedHere(t)'
    <2>1. /\ (Listed(s) \union {i}) \ {i} \subseteq Listed(s) /\ idle \ {i} = pending[s] \ {i}
          /\ i \in alive' /\ sched_id_'[i] = Owner(s)
          /\ mailbox'[i] = <<>> <=> i \in idle
      BY <1>3, <1>5, <1>6, <1>9
    <2> QED BY <1>3, <1>7, <1>11, <2>1, ListedMoved
  <1>14. \A t \in Sched : Counted(t)' /\ HandingOver(t)' /\ Brought(t)'
    BY <1>5, <1>9, CountsKept, CarriersKept DEF CallsKept
  <1>15. \A t \in Sched : Guarding(t)'
    BY <1>2, <1>3, <1>4, <1>11, GuardLeft
  <1>16. \A t \in Sched, j \in Info : (Hands(t, j)' <=> Hands(t, j)) /\ (Brings(t, j)' <=> Brings(t, j))
    BY <1>5 DEF Hands, Brings
  <1>17. \A t \in Sched, j \in Info : j \in Listed(t) => j \in Listed(t)'
    BY <1>7 DEF ListsBecome
  <1>18. \A j \in Info \ {i} : InSlot(j)'
    BY <1>8, <1>11, <1>16, <1>17, SlotsOthers
  <1>19. InSlot(i)'
    <2>1. InSlot(i)
      BY DEF IInv, Owning
    <2>2. ~sched_id_[i].migrating /\ i \in Listed(s)'
      BY <1>3, <1>7, Ids DEF ListsBecome
    <2> QED BY <1>3, <1>9, <1>10, <2>1, <2>2, Zenon DEF InSlot
  <1>20. ChecksOk'
    BY <1>5 DEF IInv, ChecksOk
  <1> QED BY <1>12, <1>13, <1>14, <1>15, <1>18, <1>19, <1>20 DEF IInv, Owning

LEMMA StopActorOwning ==
  ASSUME ConstantsAssumption, IInv, NEW s \in Sched, StopActor(s)
  PROVE  IInv'
PROOF
  <1>1. InHandler(s)
    BY DEF StopActor, Done
  <1>2. PICK i \in Info : i = Innermost(s).info
    BY <1>1, DoneOf
  <1>3. /\ stack[s] # <<>> /\ i \in alive /\ sched_id_[i] = Owner(s) /\ is_running[i]
        /\ mailbox[i] \in Seq(Event)
        /\ \A t \in Sched \ {s} : i \notin Listed(t) /\ ~RunsOn(t, i)
    BY <1>1, <1>2, DoneOf
  <1>4. PICK g : g = DownGuard(i)
    OBVIOUS
  <1>5. g \in EventGuard /\ g.info = i /\ g.left = 0
    BY <1>4 DEF DownGuard, Guard, EventGuard
  <1>6. /\ IF mailbox[i] = <<>> THEN MoveToPending(s, i) ELSE MoveToReady(s, i)
        /\ torn' = torn \union {IdOf(i)}
        /\ stack' = [stack EXCEPT ![s] = Append(Front(@), g)]
        /\ failed' = failed
    BY <1>2, <1>3, <1>4 DEF StopActor, Relist, Check
  <1>7. UNCHANGED <<slotVars, is_running, mailbox, actor_count, pending_events, inbound, call,
                    sent, handled, dropped, moves>>
    BY DEF StopActor
  <1>8. PICK idle : idle = IF mailbox[i] = <<>> THEN pending[s] \union {i} ELSE pending[s] \ {i}
    OBVIOUS
  <1>9. ListsBecome(s, Listed(s) \union {i}, idle)
    BY <1>6, <1>8, Relisted DEF IInv, Owning
  <1>10. TopBecomes(s, g)
    BY <1>3, <1>5, <1>6, TopReplaced DEF IInv
  <1>11. \A t \in Sched, j \in Info : RunsOn(t, j)' <=> RunsOn(t, j)
    BY <1>2, <1>3, <1>5, <1>10, TopRuns DEF IInv
  <1>12. UNCHANGED <<generation, sched_id_, alive>>
    BY <1>7 DEF slotVars
  <1>13. Only(i)
    BY <1>7, <1>12 DEF Only
  <1>14. Types'
    <2>1. torn' \subseteq Id
      <3>1. IdOf(i) \in Id
        BY DEF IdOf, Id, IInv, Types
      <3> QED BY <1>6, <3>1 DEF IInv, Types
    <2> QED BY <1>7, <1>9, <1>10, <1>12, <2>1 DEF IInv, Types, ListsBecome, TopBecomes
  <1>15. \A t \in Sched : Listing(t)' /\ ListedHere(t)'
    <2>1. /\ (Listed(s) \union {i}) \ {i} \subseteq Listed(s) /\ idle \ {i} = pending[s] \ {i}
          /\ i \in alive' /\ sched_id_'[i] = Owner(s) /\ is_running'[i]
      BY <1>3, <1>7, <1>8, <1>12
    <2> QED BY <1>3, <1>9, <1>13, <2>1, ListedMoved
  <1>16. \A t \in Sched : Counted(t)' /\ HandingOver(t)' /\ Brought(t)'
    BY <1>7, <1>12, CountsKept, CarriersKept DEF CallsKept
  <1>17. \A t \in Sched : Guarding(t)'
    <2>1. g.left <= Len(mailbox'[i])
      <3>1. Len(mailbox[i]) \in Nat
        BY <1>3, Elements
      <3> QED BY <1>5, <1>7, <3>1
    <2>2. UNCHANGED <<alive, sched_id_, is_running>> /\ \A j \in Info \ {g.info} : mailbox'[j] = mailbox[j]
      BY <1>7, <1>12
    <2> QED BY <1>2, <1>3, <1>5, <1>10, <2>1, <2>2, GuardsReplaced
  <1>18. \A j \in Info : InSlot(j)'
    <2>1. \A t \in Sched, j \in Info : (Hands(t, j)' <=> Hands(t, j)) /\ (Brings(t, j)' <=> Brings(t, j))
      BY <1>7 DEF Hands, Brings
    <2>2. \A t \in Sched, j \in Info : j \in Listed(t) => j \in Listed(t)'
      BY <1>9 DEF ListsBecome
    <2> QED BY <1>7, <1>11, <1>12, <2>1, <2>2, SlotsKept
  <1>19. ChecksOk'
    BY <1>6 DEF IInv, ChecksOk
  <1> QED BY <1>14, <1>15, <1>16, <1>17, <1>18, <1>19 DEF IInv, Owning

(* i sets off for d, in a call of s. *)
LEMMA CarrierBegins ==
  ASSUME IInv, NEW s \in Sched, NEW i \in Info, NEW d \in Sched, call[s] = Idle,
         call' = [call EXCEPT ![s] = [op |-> "handover", info |-> i, dest |-> d]],
         UNCHANGED inbound, Only(i), i \in alive', sched_id_'[i] = InTransit(d),
         ~(i \in alive /\ sched_id_[i].migrating)
  PROVE  /\ \A t \in Sched : HandingOver(t)' /\ Brought(t)'
         /\ call' \in [Sched -> Call] /\ Hands(s, i)'
         /\ \A t \in Sched, j \in Info : Hands(t, j) => Hands(t, j)'
         /\ \A t \in Sched, j \in Info : Brings(t, j)' <=> Brings(t, j)
PROOF
  <1>1. \A t \in Sched : ~Hands(t, i) /\ ~Brings(t, i)
    BY NotCarried
  <1>2. /\ call'[s] = [op |-> "handover", info |-> i, dest |-> d]
        /\ \A t \in Sched \ {s} : call'[t] = call[t]
    BY DEF IInv, Types
  <1>3. call' \in [Sched -> Call]
    <2>1. [op |-> "handover", info |-> i, dest |-> d] \in Call
      BY DEF Call
    <2> QED BY <2>1 DEF IInv, Types
  <1>4. Hands(s, i)'
    BY <1>2 DEF Hands
  <1>5. \A t \in Sched, j \in Info : Hands(t, j) => Hands(t, j)'
    BY <1>2 DEF Hands, Idle
  <1>6. \A t \in Sched, j \in Info : Brings(t, j)' <=> Brings(t, j)
    BY DEF Brings
  <1>7. ASSUME NEW t \in Sched PROVE HandingOver(t)'
    <2>1. \A u \in Sched : call'[u].op = "handover" =>
            \/ u = s
            \/ u # s /\ call'[u] = call[u] /\ call[u].info # i
      BY <1>1, <1>2 DEF Hands
    <2>2. CASE t = s
      <3>1. \A u \in Sched : \A k \in DOMAIN inbound[u] :
              inbound[u][k].op = "actor" => inbound[u][k].info # i
        BY <1>1, Zenon DEF Brings
      <3>2. call'[s].info = i /\ call'[s].dest = d
        BY <1>2
      <3> QED BY <2>1, <2>2, <3>1, <3>2 DEF HandingOver
    <2>3. CASE t # s /\ call'[t].op = "handover"
      <3>1. call'[t] = call[t] /\ call[t].info # i /\ HandingOver(t)
        BY <1>1, <1>2, <2>3 DEF IInv, Owning, Hands
      <3>2. call[t].info \in Info \ {i}
        BY <2>3, <3>1 DEF HandingOver, IInv, Types
      <3>3. call'[s].info = i
        BY <1>2
      <3> QED BY <2>1, <2>3, <3>1, <3>2, <3>3 DEF HandingOver, Only
    <2> QED BY <2>2, <2>3 DEF HandingOver
  <1>8. ASSUME NEW t \in Sched PROVE Brought(t)'
    <2>1. Brought(t) /\ ~Brings(t, i)
      BY <1>1 DEF IInv, Owning
    <2>2. \A k \in DOMAIN inbound[t] : inbound[t][k].op = "actor" => inbound[t][k].info \in Info \ {i}
      BY <2>1 DEF Brings, Brought, IInv, Types
    <2> QED BY <2>1, <2>2 DEF Brought, Only
  <1> QED BY <1>3, <1>4, <1>5, <1>6, <1>7, <1>8

LEMMA StartMigrateOwning ==
  ASSUME ConstantsAssumption, IInv, NEW s \in Sched, StartMigrate(s)
  PROVE  IInv'
PROOF
  <1>1. InHandler(s)
    BY DEF StartMigrate, Done
  <1>2. PICK i \in Info : i = Innermost(s).info
    BY <1>1, DoneOf
  <1>3. /\ stack[s] # <<>> /\ i \in alive /\ sched_id_[i] = Owner(s) /\ is_running[i]
        /\ call[s] = Idle /\ Innermost(s) \in EventGuard
        /\ \A t \in Sched \ {s} : i \notin Listed(t) /\ ~RunsOn(t, i)
    BY <1>1, <1>2, DoneOf
  <1>4. PICK d \in Sched : d = Innermost(s).dest
    BY <1>3 DEF StartMigrate, EventGuard
  <1>5. /\ is_running' = [is_running EXCEPT ![i] = FALSE]
        /\ actor_count' = [actor_count EXCEPT ![s] = @ - 1]
        /\ Check(actor_count[s] > 0, "start_migrate_actor")
        /\ sched_id_' = [sched_id_ EXCEPT ![i] = InTransit(d)]
        /\ Unlist(s, i)
        /\ call' = [call EXCEPT ![s] = [op |-> "handover", info |-> i, dest |-> d]]
        /\ stack' = [stack EXCEPT ![s] = Front(@)]
    BY <1>2, <1>4 DEF StartMigrate
  <1>6. UNCHANGED <<generation, alive, mailbox, pending_events, inbound, history>>
    BY DEF StartMigrate
  <1>7. ListsBecome(s, Listed(s) \ {i}, pending[s] \ {i})
    BY <1>5, Unlisted DEF IInv, Owning
  <1>8. /\ stack' \in [Sched -> Seq(EventGuard)]
        /\ \A t \in Sched, j \in Info : RunsOn(t, j) => RunsOn(t, j)' \/ (t = s /\ j = i)
    BY <1>2, <1>3, <1>5, GuardPopped DEF IInv
  <1>9. /\ is_running' \in [Info -> BOOLEAN] /\ ~is_running'[i]
        /\ \A j \in Info \ {i} : is_running'[j] = is_running[j]
    BY <1>5 DEF IInv, Types
  <1>10. /\ sched_id_' \in [Info -> [dest : Sched \union {NoSched}, migrating : BOOLEAN]]
         /\ sched_id_'[i] = InTransit(d)
         /\ \A j \in Info \ {i} : sched_id_'[j] = sched_id_[j]
    <2>1. InTransit(d) \in [dest : Sched \union {NoSched}, migrating : BOOLEAN]
      BY DEF InTransit
    <2> QED BY <1>5, <2>1 DEF IInv, Types
  <1>11. Only(i) /\ alive' \subseteq Info
    BY <1>6, <1>9, <1>10 DEF Only, IInv, Types
  <1>12. /\ \A t \in Sched : Counted(t)'
         /\ actor_count[s] > 0 /\ actor_count' \in [Sched -> Nat]
    <2>1. \A t \in Sched : ~(i \in alive' /\ sched_id_'[i] = Owner(t))
      BY <1>10, Ids
    <2> QED BY <1>3, <1>5, <1>11, <2>1, OwnerLost DEF ConstantsAssumption
  <1>13. /\ \A t \in Sched : HandingOver(t)' /\ Brought(t)'
         /\ call' \in [Sched -> Call] /\ Hands(s, i)'
         /\ \A t \in Sched, j \in Info : Hands(t, j) => Hands(t, j)'
         /\ \A t \in Sched, j \in Info : Brings(t, j)' <=> Brings(t, j)
    <2>1. ~sched_id_[i].migrating /\ UNCHANGED inbound /\ i \in alive'
      BY <1>3, <1>6, Ids
    <2> QED BY <1>3, <1>5, <1>10, <1>11, <2>1, CarrierBegins
  <1>14. Types'
    BY <1>6, <1>7, <1>8, <1>9, <1>10, <1>12, <1>13 DEF IInv, Types, ListsBecome, history
  <1>15. \A t \in Sched : Listing(t)' /\ ListedHere(t)'
    <2>1. /\ (Listed(s) \ {i}) \ {i} \subseteq Listed(s) /\ (pending[s] \ {i}) \ {i} = pending[s] \ {i}
          /\ i \notin Listed(s) \ {i}
      OBVIOUS
    <2> QED BY <1>3, <1>7, <1>11, <2>1, ListedMoved
  <1>16. \A t \in Sched : Guarding(t)'
    BY <1>2, <1>3, <1>5, <1>11, GuardLeft
  <1>17. \A t \in Sched, j \in Info \ {i} : j \in Listed(t) => j \in Listed(t)'
    BY <1>7 DEF ListsBecome
  <1>18. \A j \in Info \ {i} : InSlot(j)'
    BY <1>8, <1>11, <1>13, <1>17, SlotsOthers
  <1>19. InSlot(i)'
    <2>1. InSlot(i)
      BY DEF IInv, Owning
    <2>2. sched_id_'[i].migrating /\ sched_id_'[i].dest \in Sched
      BY <1>10, Ids
    <2> QED BY <1>3, <1>6, <1>9, <1>13, <2>1, <2>2, Zenon DEF InSlot
  <1>20. ChecksOk'
    BY <1>5, <1>12 DEF IInv, ChecksOk, Check
  <1> QED BY <1>12, <1>13, <1>14, <1>15, <1>16, <1>18, <1>19, <1>20 DEF IInv, Owning

LEMMA HandOverOwning ==
  ASSUME ConstantsAssumption, IInv, NEW s \in Sched, HandOver(s)
  PROVE  IInv'
PROOF
  <1>1. call[s].op = "handover" /\ call[s] \in Call /\ HandingOver(s)
    BY DEF HandOver, IInv, Types, Owning
  <1>2. PICK i \in Info, d \in Sched : call[s] = [op |-> "handover", info |-> i, dest |-> d]
    BY <1>1 DEF Call, Idle
  <1>3. PICK x : x = [op |-> "actor", info |-> i]
    OBVIOUS
  <1>4. x \in Entry /\ x.op = "actor" /\ x.info = i
    BY <1>3 DEF Entry
  <1>5. inbound' = [inbound EXCEPT ![d] = Append(@, x)] /\ call' = [call EXCEPT ![s] = Idle]
    BY <1>2, <1>3 DEF HandOver
  <1>6. UNCHANGED <<slotVars, runVars, pending_events, stack, history, failed>>
    BY DEF HandOver
  <1>7. /\ call' \in [Sched -> Call] /\ call'[s] = Idle /\ \A t \in Sched \ {s} : call'[t] = call[t]
    BY <1>5 DEF IInv, Types, Call
  <1>8. /\ i \in alive /\ sched_id_[i] = InTransit(d)
        /\ \A t \in Sched : (Hands(t, i) => t = s) /\ ~Brings(t, i)
    BY <1>1, <1>2 DEF HandingOver, Hands, Brings
  <1>9. /\ inbound' \in [Sched -> Seq(Entry)]
        /\ DOMAIN inbound[d] = 1..Len(inbound[d]) /\ Len(inbound[d]) \in Nat
        /\ DOMAIN inbound'[d] = 1..Len(inbound[d]) + 1
        /\ \A k \in 1..Len(inbound[d]) : inbound'[d][k] = inbound[d][k]
        /\ inbound'[d][Len(inbound[d]) + 1] = x
        /\ \A t \in Sched \ {d} : inbound'[t] = inbound[t]
    BY <1>4, <1>5, EntryPut DEF IInv
  <1>10. \A t \in Sched, j \in Info : Brings(t, j)' <=> Brings(t, j) \/ (t = d /\ j = i)
    BY <1>4, <1>5, PutBrings DEF IInv
  <1>11. ASSUME NEW t \in Sched, NEW k \in DOMAIN inbound'[t]
         PROVE  \/ k \in DOMAIN inbound[t] /\ inbound'[t][k] = inbound[t][k]
                \/ t = d /\ k = Len(inbound[d]) + 1 /\ inbound'[t][k] = x
    <2>1. CASE t = d
      <3>1. k \in 1..Len(inbound[d]) + 1
        BY <1>9, <1>11, <2>1
      <3>2. k \in 1..Len(inbound[d]) \/ k = Len(inbound[d]) + 1
        BY <1>9, <3>1
      <3> QED BY <1>9, <2>1, <3>2, Zenon
    <2>2. CASE t # d
      <3>1. inbound'[t] = inbound[t]
        BY <1>9, <2>2
      <3> QED BY <1>11, <3>1, Zenon
    <2> QED BY <2>1, <2>2
  <1>12. ASSUME NEW t \in Sched, call'[t].op = "handover" PROVE HandingOver(t)'
    <2>1. t # s /\ call'[t] = call[t] /\ call[t].info # i /\ HandingOver(t)
      BY <1>7, <1>8, <1>12 DEF Idle, Hands, IInv, Owning
    <2>2. \A u \in Sched : call'[u].op = "handover" => call'[u] = call[u]
      BY <1>7 DEF Idle
    <2>3. \A u \in Sched : \A k \in DOMAIN inbound'[u] :
            inbound'[u][k].op = "actor" => inbound'[u][k].info # call[t].info
      BY <1>4, <1>11, <1>12, <2>1, Zenon DEF HandingOver
    <2>4. UNCHANGED <<alive, sched_id_>>
      BY <1>6 DEF slotVars
    <2> QED BY <1>12, <2>1, <2>2, <2>3, <2>4 DEF HandingOver
  <1>13. ASSUME NEW t \in Sched PROVE Brought(t)'
    <2>1. Brought(t) /\ ~Brings(t, i) /\ UNCHANGED <<alive, sched_id_>>
      BY <1>6, <1>8 DEF slotVars, IInv, Owning
    <2> SUFFICES ASSUME NEW k \in DOMAIN inbound'[t], inbound'[t][k].op = "actor"
                 PROVE  /\ inbound'[t][k].info \in alive' /\ sched_id_'[inbound'[t][k].info] = InTransit(t)
                        /\ \A j \in DOMAIN inbound'[t] : inbound'[t][j] = inbound'[t][k] => j = k
      BY DEF Brought
    <2>2. CASE k \in DOMAIN inbound[t] /\ inbound'[t][k] = inbound[t][k]
      <3>1. inbound[t][k].op = "actor" /\ inbound[t][k].info # i
        BY <2>1, <2>2 DEF Brings
      <3>2. inbound[t][k] # x
        BY <1>4, <3>1
      <3>3. /\ inbound[t][k].info \in alive /\ sched_id_[inbound[t][k].info] = InTransit(t)
            /\ \A j \in DOMAIN inbound[t] : inbound[t][j] = inbound[t][k] => j = k
        BY <2>1, <2>2, <3>1 DEF Brought
      <3>4. \A j \in DOMAIN inbound'[t] : inbound'[t][j] = inbound'[t][k] => j = k
        BY <1>11, <2>2, <3>2, <3>3
      <3> QED BY <2>1, <2>2, <3>3, <3>4
    <2>3. CASE t = d /\ k = Len(inbound[d]) + 1 /\ inbound'[t][k] = x
      <3>1. \A j \in DOMAIN inbound[t] : inbound[t][j] # x
        BY <1>4, <2>1 DEF Brings
      <3>2. \A j \in DOMAIN inbound'[t] : inbound'[t][j] = inbound'[t][k] => j = k
        BY <1>11, <2>3, <3>1
      <3> QED BY <1>4, <1>8, <2>1, <2>3, <3>2
    <2> QED BY <1>11, <2>2, <2>3
  <1>14. Types'
    BY <1>6, <1>7, <1>9 DEF IInv, Types, slotVars, runVars, history
  <1>15. \A t \in Sched : Listing(t)' /\ ListedHere(t)' /\ Listed(t)' = Listed(t)
    BY <1>6, ListedKept DEF slotVars, runVars
  <1>16. \A t \in Sched : Counted(t)' /\ Guarding(t)'
    BY <1>6, CountsKept, GuardsKept DEF slotVars, runVars
  <1>17. \A j \in Info : InSlot(j)'
    <2>1. \A t \in Sched, j \in Info : RunsOn(t, j)' <=> RunsOn(t, j)
      BY <1>6 DEF RunsOn
    <2>2. UNCHANGED <<generation, alive, sched_id_, is_running, mailbox>>
      BY <1>6 DEF slotVars, runVars
    <2>3. \A t \in Sched, j \in Info : Hands(t, j) => Hands(t, j)' \/ j = i
      BY <1>2, <1>7 DEF Hands
    <2>4. \A t \in Sched, j \in Info : Hands(t, j) \/ Brings(t, j) =>
            \E u \in Sched : Hands(u, j)' \/ Brings(u, j)'
      BY <1>10, <2>3, Zenon
    <2> QED BY <1>15, <2>1, <2>2, <2>4, SlotsKept
  <1>18. ChecksOk'
    BY <1>6 DEF IInv, ChecksOk
  <1> QED BY <1>12, <1>13, <1>14, <1>15, <1>16, <1>17, <1>18 DEF IInv, Owning, HandingOver

LEMMA DestroyActorOwning ==
  ASSUME ConstantsAssumption, IInv, NEW s \in Sched, DestroyActor(s)
  PROVE  IInv'
PROOF
  <1>1. InHandler(s)
    BY DEF DestroyActor
  <1>2. PICK i \in Info : i = Innermost(s).info
    BY <1>1, DoneOf
  <1>3. /\ stack[s] # <<>> /\ i \in alive /\ sched_id_[i] = Owner(s) /\ is_running[i]
        /\ mailbox[i] \in Seq(Event)
        /\ \A t \in Sched \ {s} : i \notin Listed(t) /\ ~RunsOn(t, i)
    BY <1>1, <1>2, DoneOf
  <1>4. /\ dropped' = dropped \union ToSet(mailbox[i])
        /\ mailbox' = [mailbox EXCEPT ![i] = <<>>]
        /\ is_running' = [is_running EXCEPT ![i] = FALSE]
        /\ Unlist(s, i)
        /\ actor_count' = [actor_count EXCEPT ![s] = @ - 1]
        /\ Check(actor_count[s] > 0 /\ sched_id_[i] = Owner(s), "destroy_actor")
        /\ generation' = [generation EXCEPT ![i] = @ + 1]
        /\ sched_id_' = [sched_id_ EXCEPT ![i] = Owner(NoSched)]
        /\ alive' = alive \ {i}
        /\ stack' = [stack EXCEPT ![s] = Front(@)]
    BY <1>2 DEF DestroyActor
  <1>5. UNCHANGED <<pending_events, inbound, call, sent, handled, torn, moves>>
    BY DEF DestroyActor
  <1>6. ListsBecome(s, Listed(s) \ {i}, pending[s] \ {i})
    BY <1>4, Unlisted DEF IInv, Owning
  <1>7. /\ stack' \in [Sched -> Seq(EventGuard)]
        /\ \A t \in Sched, j \in Info : RunsOn(t, j) => RunsOn(t, j)' \/ (t = s /\ j = i)
    BY <1>2, <1>3, <1>4, GuardPopped DEF IInv
  <1>8. /\ is_running' \in [Info -> BOOLEAN] /\ ~is_running'[i]
        /\ \A j \in Info \ {i} : is_running'[j] = is_running[j]
    BY <1>4 DEF IInv, Types
  <1>9. /\ sched_id_' \in [Info -> [dest : Sched \union {NoSched}, migrating : BOOLEAN]]
        /\ sched_id_'[i] = Owner(NoSched)
        /\ \A j \in Info \ {i} : sched_id_'[j] = sched_id_[j]
    <2>1. Owner(NoSched) \in [dest : Sched \union {NoSched}, migrating : BOOLEAN]
      BY DEF Owner
    <2> QED BY <1>4, <2>1 DEF IInv, Types
  <1>10. /\ mailbox' \in [Info -> Seq(Event)] /\ mailbox'[i] = <<>>
         /\ \A j \in Info \ {i} : mailbox'[j] = mailbox[j]
    BY <1>4 DEF IInv, Types
  <1>11. /\ generation' \in [Info -> 0..MaxGen]
         /\ \A j \in Info \ {i} : generation'[j] = generation[j]
    <2>1. generation[i] < MaxGen
      BY <1>3 DEF IInv, Owning, InSlot
    <2>2. generation \in [Info -> 0..MaxGen] /\ MaxGen \in Nat
      BY DEF IInv, Types, ConstantsAssumption
    <2>3. generation[i] + 1 \in 0..MaxGen
      BY <2>1, <2>2
    <2> QED BY <1>4, <2>2, <2>3
  <1>12. Only(i) /\ alive' \subseteq Info /\ i \notin alive'
    BY <1>4, <1>8, <1>9, <1>10, <1>11 DEF Only, IInv, Types
  <1>13. /\ \A t \in Sched : Counted(t)'
         /\ actor_count[s] > 0 /\ actor_count' \in [Sched -> Nat]
    BY <1>3, <1>4, <1>12, OwnerLost DEF ConstantsAssumption
  <1>14. \A t \in Sched : HandingOver(t)' /\ Brought(t)'
    <2>1. \A t \in Sched : ~Hands(t, i) /\ ~Brings(t, i)
      BY <1>3, NotCarried, Ids
    <2> QED BY <1>5, <1>12, <2>1, CarriersApart DEF CallsKept
  <1>15. Types'
    <2>1. dropped' \subseteq Event
      BY <1>3, <1>4, Elements DEF IInv, Types
    <2> QED BY <1>5, <1>6, <1>7, <1>8, <1>9, <1>10, <1>11, <1>12, <1>13, <2>1 DEF IInv, Types, ListsBecome
  <1>16. \A t \in Sched : Listing(t)' /\ ListedHere(t)'
    <2>1. /\ (Listed(s) \ {i}) \ {i} \subseteq Listed(s) /\ (pending[s] \ {i}) \ {i} = pending[s] \ {i}
          /\ i \notin Listed(s) \ {i}
      OBVIOUS
    <2> QED BY <1>3, <1>6, <1>12, <2>1, ListedMoved
  <1>17. \A t \in Sched : Guarding(t)'
    BY <1>2, <1>3, <1>4, <1>12, GuardLeft
  <1>18. \A j \in Info \ {i} : InSlot(j)'
    <2>1. \A t \in Sched, j \in Info \ {i} : j \in Listed(t) => j \in Listed(t)'
      BY <1>6 DEF ListsBecome
    <2>2. \A t \in Sched, j \in Info : (Hands(t, j)' <=> Hands(t, j)) /\ (Brings(t, j)' <=> Brings(t, j))
      BY <1>5 DEF Hands, Brings
    <2> QED BY <1>7, <1>12, <2>1, <2>2, SlotsOthers
  <1>19. InSlot(i)'
    BY <1>8, <1>9, <1>10, <1>12 DEF InSlot
  <1>20. ChecksOk'
    BY <1>3, <1>4, <1>13 DEF IInv, ChecksOk, Check
  <1> QED BY <1>13, <1>14, <1>15, <1>16, <1>17, <1>18, <1>19, <1>20 DEF IInv, Owning

(* register_actor_impl takes a slot that nobody lists, runs or carries. *)
LEMMA SlotTaken ==
  ASSUME ConstantsAssumption, IInv, NEW s \in Sched, NEW i \in Info, NEW d, CreateActor(s, i, d)
  PROVE  /\ call[s] = Idle /\ i \notin alive /\ Home[i] = s /\ generation[i] < MaxGen
         /\ sched_id_[i] = Owner(NoSched) /\ ~is_running[i] /\ failed' = failed
         /\ StartOf(IdOf(i), s) \in Event
         /\ sent' = sent \union {StartOf(IdOf(i), s)} /\ IsFiniteSet(sent') /\ sent' \subseteq Event
         /\ mailbox' \in [Info -> Seq(Event)] /\ mailbox'[i] = <<StartOf(IdOf(i), s)>> /\ mailbox'[i] # <<>>
         /\ \A j \in Info \ {i} : mailbox'[j] = mailbox[j]
         /\ \A t \in Sched : i \notin Listed(t) /\ ~RunsOn(t, i) /\ ~Hands(t, i) /\ ~Brings(t, i)
PROOF
  <1>1. /\ call[s] = Idle /\ i \notin alive /\ Home[i] = s /\ generation[i] < MaxGen
        /\ sent' = sent \union {StartOf(IdOf(i), s)}
        /\ mailbox' = [mailbox EXCEPT ![i] = <<StartOf(IdOf(i), s)>>]
        /\ Check(~is_running[i] /\ ~sched_id_[i].migrating, "init")
    BY DEF CreateActor, InHandler
  <1>2. sched_id_[i] = Owner(NoSched) /\ ~is_running[i]
    BY <1>1 DEF IInv, Owning, InSlot
  <1>3. failed' = failed
    BY <1>1, <1>2, Ids DEF Check
  <1>4. StartOf(IdOf(i), s) \in Event
    <2>1. IdOf(i) \in Id /\ 0 \in 0..MaxSends
      BY DEF IdOf, Id, IInv, Types, ConstantsAssumption
    <2> QED BY <2>1 DEF StartOf, Event
  <1>5. IsFiniteSet(sent') /\ sent' \subseteq Event
    BY <1>1, <1>4, FS_AddElement DEF IInv, Types
  <1>6. \A t \in Sched : i \notin Listed(t) /\ ~RunsOn(t, i) /\ ~Hands(t, i) /\ ~Brings(t, i)
    BY <1>1, NotHere, NotCarried
  <1> HIDE DEF StartOf
  <1>7. <<StartOf(IdOf(i), s)>> \in Seq(Event) /\ <<StartOf(IdOf(i), s)>> # <<>>
    BY <1>4
  <1>8. /\ mailbox' \in [Info -> Seq(Event)] /\ mailbox'[i] = <<StartOf(IdOf(i), s)>>
        /\ \A j \in Info \ {i} : mailbox'[j] = mailbox[j]
    BY <1>1, <1>7 DEF IInv, Types
  <1> QED BY <1>1, <1>2, <1>3, <1>4, <1>5, <1>6, <1>7, <1>8

LEMMA CreateActorOwning ==
  ASSUME ConstantsAssumption, IInv, NEW s \in Sched, NEW i \in Info, NEW d \in Destinations \union {s},
         CreateActor(s, i, d)
  PROVE  IInv'
PROOF
  <1>1. /\ call[s] = Idle /\ i \notin alive /\ generation[i] < MaxGen
        /\ sched_id_[i] = Owner(NoSched) /\ ~is_running[i] /\ failed' = failed
        /\ IsFiniteSet(sent') /\ sent' \subseteq Event
        /\ mailbox' \in [Info -> Seq(Event)] /\ mailbox'[i] # <<>>
        /\ \A j \in Info \ {i} : mailbox'[j] = mailbox[j]
        /\ \A t \in Sched : i \notin Listed(t) /\ ~RunsOn(t, i) /\ ~Hands(t, i) /\ ~Brings(t, i)
    BY SlotTaken
  <1>2. /\ alive' = alive \union {i}
        /\ UNCHANGED <<generation, is_running, pending_events, inbound, stack, handled, dropped, torn, moves>>
    BY DEF CreateActor
  <1>3. PICK id : id = IF d = s THEN Owner(s) ELSE InTransit(d)
    OBVIOUS
  <1>4. d \in Sched /\ id.dest = d /\ id \in [dest : Sched \union {NoSched}, migrating : BOOLEAN]
    BY <1>3 DEF ConstantsAssumption, Owner, InTransit
  <1>5. sched_id_' = [sched_id_ EXCEPT ![i] = id]
    BY <1>3 DEF CreateActor
  <1>6. /\ sched_id_' \in [Info -> [dest : Sched \union {NoSched}, migrating : BOOLEAN]]
        /\ sched_id_'[i] = id /\ \A j \in Info \ {i} : sched_id_'[j] = sched_id_[j]
    BY <1>4, <1>5 DEF IInv, Types
  <1>7. Only(i) /\ alive' \subseteq Info /\ i \in alive'
    BY <1>1, <1>2, <1>6 DEF Only, IInv, Types
  <1>8. \A t \in Sched, j \in Info : (RunsOn(t, j)' <=> RunsOn(t, j)) /\ (Brings(t, j)' <=> Brings(t, j))
    BY <1>2 DEF RunsOn, Brings
  <1>9. \A t \in Sched : Guarding(t)'
    <2>1. ASSUME NEW t \in Sched, NEW j \in Info, RunsOn(t, j)
          PROVE  /\ j \in alive' /\ sched_id_'[j] = sched_id_[j] /\ is_running'[j]
                 /\ Len(mailbox[j]) <= Len(mailbox'[j])
      <3>1. j # i
        BY <1>1, <2>1
      <3>2. j \in alive /\ is_running[j]
        BY <2>1 DEF IInv, Owning, Guarding, RunsOn
      <3>3. Len(mailbox[j]) \in Nat
        BY Elements DEF IInv, Types
      <3> QED BY <1>1, <1>2, <1>6, <3>1, <3>2, <3>3
    <2> QED BY <1>1, <1>2, <2>1, GuardsStay
  <1>10. ChecksOk'
    BY <1>1 DEF IInv, ChecksOk
  <1>11. CASE d = s
    <2>1. /\ actor_count' = [actor_count EXCEPT ![s] = @ + 1] /\ MoveToReady(s, i) /\ call' = call
          /\ id = Owner(s)
      BY <1>3, <1>11 DEF CreateActor
    <2>2. ListsBecome(s, Listed(s) \union {i}, pending[s] \ {i})
      BY <2>1, MovedToReady DEF IInv, Owning
    <2>3. \A t \in Sched : Listing(t)' /\ ListedHere(t)'
      <3>1. /\ (Listed(s) \union {i}) \ {i} \subseteq Listed(s)
            /\ (pending[s] \ {i}) \ {i} = pending[s] \ {i}
            /\ i \in alive' /\ sched_id_'[i] = Owner(s)
            /\ mailbox'[i] = <<>> <=> i \in pending[s] \ {i}
        BY <1>1, <1>6, <1>7, <2>1
      <3> QED BY <1>1, <1>7, <2>2, <3>1, ListedMoved
    <2>4. \A t \in Sched : Counted(t)'
      <3>1. \A t \in Sched : ~(i \in alive /\ sched_id_[i] = Owner(t))
        BY <1>1
      <3> QED BY <1>6, <1>7, <2>1, <3>1, OwnerGained DEF ConstantsAssumption
    <2>5. \A t \in Sched : HandingOver(t)' /\ Brought(t)'
      BY <1>1, <1>2, <1>7, <2>1, CarriersApart DEF CallsKept
    <2>6. Types'
      <3>a. actor_count \in [Sched -> Nat]
        BY DEF IInv, Types
      <3>1. actor_count' \in [Sched -> Nat]
        <4>1. actor_count[s] + 1 \in Nat
          BY <3>a
        <4>2. actor_count' = [actor_count EXCEPT ![s] = @ + 1]
          BY <2>1
        <4> QED BY <3>a, <4>1, <4>2
      <3>2. call' \in [Sched -> Call]
        BY <2>1 DEF IInv, Types
      <3> QED BY <1>1, <1>2, <1>6, <1>7, <2>2, <3>1, <3>2 DEF IInv, Types, ListsBecome
    <2>7. \A t \in Sched, j \in Info : Hands(t, j)' <=> Hands(t, j)
      BY <2>1 DEF Hands
    <2>8. \A t \in Sched, j \in Info : j \in Listed(t) => j \in Listed(t)'
      BY <2>2 DEF ListsBecome
    <2>9. \A j \in Info \ {i} : InSlot(j)'
      BY <1>7, <1>8, <2>7, <2>8, SlotsOthers
    <2>10. InSlot(i)'
      <3>1. i \in Listed(s)' /\ ~id.migrating
        BY <2>1, <2>2, Ids DEF ListsBecome
      <3> QED BY <1>1, <1>2, <1>4, <1>6, <1>7, <3>1, Zenon DEF InSlot
    <2> QED BY <1>9, <1>10, <2>3, <2>4, <2>5, <2>6, <2>9, <2>10 DEF IInv, Owning
  <1>12. CASE d # s
    <2>1. /\ call' = [call EXCEPT ![s] = [op |-> "handover", info |-> i, dest |-> d]]
          /\ UNCHANGED <<actor_count, ready, batch, pending>>
          /\ id = InTransit(d)
      BY <1>3, <1>12 DEF CreateActor
    <2>2. \A t \in Sched : Listing(t)' /\ ListedHere(t)' /\ Listed(t)' = Listed(t)
      BY <1>1, <1>7, <2>1, ListedApart
    <2>3. \A t \in Sched : Counted(t)'
      <3>1. \A t \in Sched : ~(i \in alive /\ sched_id_[i] = Owner(t)) /\ ~(i \in alive' /\ sched_id_'[i] = Owner(t))
        BY <1>1, <1>6, <2>1, Ids
      <3> QED BY <1>7, <2>1, <3>1, OwnerNone DEF ConstantsAssumption
    <2>4. /\ \A t \in Sched : HandingOver(t)' /\ Brought(t)'
          /\ call' \in [Sched -> Call] /\ Hands(s, i)'
          /\ \A t \in Sched, j \in Info : Hands(t, j) => Hands(t, j)'
      BY <1>1, <1>2, <1>4, <1>6, <1>7, <2>1, CarrierBegins
    <2>5. Types'
      BY <1>1, <1>2, <1>6, <1>7, <2>1, <2>4 DEF IInv, Types
    <2>6. \A j \in Info \ {i} : InSlot(j)'
      BY <1>7, <1>8, <2>2, <2>4, SlotsOthers
    <2>7. InSlot(i)'
      <3>1. id.migrating
        BY <2>1, Ids
      <3> QED BY <1>1, <1>2, <1>4, <1>6, <1>7, <2>4, <3>1, Zenon DEF InSlot
    <2> QED BY <1>9, <1>10, <2>2, <2>3, <2>4, <2>5, <2>6, <2>7 DEF IInv, Owning
  <1> QED BY <1>11, <1>12

(* An actor taken from the queue is nowhere else. *)
LEMMA Arrived ==
  ASSUME IInv, NEW s \in Sched, inbound[s] # <<>>, Head(inbound[s]).op = "actor",
         NEW i, i = Head(inbound[s]).info,
         inbound' = [inbound EXCEPT ![s] = Tail(@)]
  PROVE  /\ i \in Info /\ i \in alive /\ sched_id_[i] = InTransit(s)
         /\ \A t \in Sched : ~Hands(t, i) /\ ~Brings(t, i)'
PROOF
  <1>1. /\ inbound' \in [Sched -> Seq(Entry)] /\ Head(inbound[s]) \in Entry
        /\ Len(inbound[s]) \in Nat \ {0} /\ Head(inbound[s]) = inbound[s][1]
        /\ DOMAIN inbound[s] = 1..Len(inbound[s]) /\ DOMAIN inbound'[s] = 1..Len(inbound[s]) - 1
        /\ \A k \in 1..Len(inbound[s]) - 1 : inbound'[s][k] = inbound[s][k + 1]
        /\ \A t \in Sched \ {s} : inbound'[t] = inbound[t]
    BY EntryTaken DEF IInv
  <1>2. i \in Info /\ Head(inbound[s]) = [op |-> "actor", info |-> i]
    BY <1>1 DEF Entry
  <1>3. 1 \in DOMAIN inbound[s]
    BY <1>1
  <1>4. /\ i \in alive /\ sched_id_[i] = InTransit(s)
        /\ \A j \in DOMAIN inbound[s] : inbound[s][j] = inbound[s][1] => j = 1
    BY <1>1, <1>3 DEF IInv, Owning, Brought
  <1>5. ASSUME NEW t \in Sched PROVE ~Hands(t, i)
    <2>1. HandingOver(t)
      BY DEF IInv, Owning
    <2> QED BY <1>1, <1>3, <2>1 DEF HandingOver, Hands
  <1>6. ~Brings(s, i)'
    <2> SUFFICES ASSUME NEW k \in DOMAIN inbound'[s], inbound'[s][k].op = "actor", inbound'[s][k].info = i
                 PROVE  FALSE
      BY DEF Brings
    <2>1. k + 1 \in DOMAIN inbound[s] /\ k + 1 # 1 /\ inbound'[s][k] = inbound[s][k + 1]
      BY <1>1
    <2>2. inbound[s][k + 1] \in Entry
      BY <2>1, Elements DEF IInv, Types
    <2>3. inbound[s][k + 1] = [op |-> "actor", info |-> i]
      BY <2>1, <2>2 DEF Entry
    <2> QED BY <1>1, <1>2, <1>4, <2>1, <2>3
  <1>7. ASSUME NEW t \in Sched, t # s PROVE ~Brings(t, i)'
    <2>1. inbound'[t] = inbound[t] /\ Brought(t) /\ InTransit(t) # InTransit(s)
      BY <1>1, <1>7, Ids DEF IInv, Owning
    <2> QED BY <1>4, <2>1 DEF Brought, Brings
  <1> QED BY <1>2, <1>4, <1>5, <1>6, <1>7

LEMMA ReceiveActorOwning ==
  ASSUME ConstantsAssumption, IInv, NEW s \in Sched, ReceiveActor(s)
  PROVE  IInv'
PROOF
  <1>1. /\ inbound[s] # <<>> /\ Head(inbound[s]).op = "actor"
        /\ inbound' = [inbound EXCEPT ![s] = Tail(@)]
    BY DEF ReceiveActor
  <1>2. PICK i : i = Head(inbound[s]).info
    OBVIOUS
  <1>3. /\ i \in Info /\ i \in alive /\ sched_id_[i] = InTransit(s)
        /\ \A t \in Sched : ~Hands(t, i) /\ ~Brings(t, i)'
    BY <1>1, <1>2, Arrived
  <1>4. PICK mail : mail = mailbox[i] \o pending_events[s][i]
    OBVIOUS
  <1>5. /\ Check(sched_id_[i] = InTransit(s), "register_migrated_actor")
        /\ actor_count' = [actor_count EXCEPT ![s] = @ + 1]
        /\ sched_id_' = [sched_id_ EXCEPT ![i] = Owner(s)]
        /\ mailbox' = [mailbox EXCEPT ![i] = mail]
        /\ pending_events' = [pending_events EXCEPT ![s][i] = <<>>]
        /\ IF mail = <<>> THEN MoveToPending(s, i) ELSE MoveToReady(s, i)
    BY <1>2, <1>4 DEF ReceiveActor, MailOnArrival
  <1>6. UNCHANGED <<generation, alive, is_running, stack, call, history>>
    BY DEF ReceiveActor
  <1>7. mail \in Seq(Event)
    <2>1. mailbox[i] \in Seq(Event) /\ pending_events[s][i] \in Seq(Event)
      BY <1>3 DEF IInv, Types
    <2> QED BY <1>4, <2>1, Concatenated
  <1>8. /\ mailbox' \in [Info -> Seq(Event)] /\ mailbox'[i] = mail
        /\ \A j \in Info \ {i} : mailbox'[j] = mailbox[j]
    BY <1>3, <1>5, <1>7 DEF IInv, Types
  <1>9. /\ sched_id_' \in [Info -> [dest : Sched \union {NoSched}, migrating : BOOLEAN]]
        /\ sched_id_'[i] = Owner(s) /\ \A j \in Info \ {i} : sched_id_'[j] = sched_id_[j]
    <2>1. Owner(s) \in [dest : Sched \union {NoSched}, migrating : BOOLEAN]
      BY DEF Owner
    <2> QED BY <1>3, <1>5, <2>1 DEF IInv, Types
  <1>10. Only(i) /\ alive' \subseteq Info /\ i \in alive'
    BY <1>3, <1>6, <1>8, <1>9 DEF Only, IInv, Types
  <1>11. /\ inbound' \in [Sched -> Seq(Entry)]
         /\ DOMAIN inbound'[s] = 1..Len(inbound[s]) - 1 /\ DOMAIN inbound[s] = 1..Len(inbound[s])
         /\ Len(inbound[s]) \in Nat \ {0}
         /\ \A k \in 1..Len(inbound[s]) - 1 : inbound'[s][k] = inbound[s][k + 1]
    BY <1>1, EntryTaken DEF IInv
  <1>12. \A t \in Sched \ {s} : inbound'[t] = inbound[t]
    BY <1>1, EntryTaken DEF IInv
  <1>13. \A t \in Sched : i \notin Listed(t) /\ ~RunsOn(t, i)
    BY <1>3, NotHere, Ids
  <1>14. PICK idle : idle = IF mail = <<>> THEN pending[s] \union {i} ELSE pending[s] \ {i}
    OBVIOUS
  <1>15. ListsBecome(s, Listed(s) \union {i}, idle)
    BY <1>3, <1>5, <1>14, Relisted DEF IInv, Owning
  <1>16. Types'
    <2>1. pending_events' \in [Sched -> [Info -> Seq(Event)]]
      <3>1. <<>> \in Seq(Event)
        OBVIOUS
      <3> QED BY <1>3, <1>5, <3>1 DEF IInv, Types
    <2>2. actor_count' \in [Sched -> Nat]
      BY <1>5 DEF IInv, Types
    <2> QED BY <1>6, <1>8, <1>9, <1>10, <1>11, <1>15, <2>1, <2>2 DEF IInv, Types, ListsBecome, history
  <1>17. \A t \in Sched : Listing(t)' /\ ListedHere(t)'
    <2>1. /\ (Listed(s) \union {i}) \ {i} \subseteq Listed(s) /\ idle \ {i} = pending[s] \ {i}
          /\ i \in alive' /\ sched_id_'[i] = Owner(s)
          /\ mailbox'[i] = <<>> <=> i \in idle
      BY <1>8, <1>9, <1>10, <1>13, <1>14
    <2> QED BY <1>3, <1>10, <1>13, <1>15, <2>1, ListedMoved
  <1>18. \A t \in Sched : Counted(t)'
    <2>1. \A t \in Sched : ~(i \in alive /\ sched_id_[i] = Owner(t))
      BY <1>3, Ids
    <2> QED BY <1>3, <1>5, <1>9, <1>10, <2>1, OwnerGained DEF ConstantsAssumption
  <1>19. \A t \in Sched : Guarding(t)'
    <2>1. ASSUME NEW t \in Sched, NEW j \in Info, RunsOn(t, j)
          PROVE  /\ j \in alive' /\ sched_id_'[j] = sched_id_[j] /\ is_running'[j]
                 /\ Len(mailbox[j]) <= Len(mailbox'[j])
      <3>1. j # i
        BY <1>13, <2>1
      <3>2. j \in alive /\ is_running[j]
        BY <2>1 DEF IInv, Owning, Guarding, RunsOn
      <3>3. Len(mailbox[j]) \in Nat
        BY Elements DEF IInv, Types
      <3> QED BY <1>6, <1>8, <1>9, <3>1, <3>2, <3>3
    <2> QED BY <1>6, <1>8, <2>1, GuardsStay
  <1>20. \A t \in Sched, j \in Info : Brings(t, j)' => Brings(t, j)
    BY <1>1, TakenBrings DEF IInv
  <1>21. ASSUME NEW t \in Sched, call'[t].op = "handover" PROVE HandingOver(t)'
    <2>1. HandingOver(t) /\ call' = call /\ call[t].info # i
      BY <1>3, <1>6, <1>21 DEF Hands, IInv, Owning
    <2>2. call[t].info \in Info \ {i}
      BY <1>21, <2>1 DEF HandingOver, IInv, Types
    <2>3. PICK j \in Info : j = call[t].info
      BY <2>2
    <2>5. \A u \in Sched : ~Brings(u, j)'
      <3>1. \A u \in Sched : ~Brings(u, j)
        BY <1>21, <2>1, <2>3 DEF HandingOver, Brings
      <3> QED BY <1>20, <3>1
    <2>4. \A u \in Sched : \A k \in DOMAIN inbound'[u] :
            inbound'[u][k].op = "actor" => inbound'[u][k].info # call[t].info
      BY <2>3, <2>5 DEF Brings
    <2> QED BY <1>10, <1>21, <2>1, <2>2, <2>4 DEF HandingOver, Only
  <1>22. ASSUME NEW t \in Sched PROVE Brought(t)'
    <2>1. Brought(t) /\ ~Brings(t, i)'
      BY <1>3 DEF IInv, Owning
    <2>2. \A k \in DOMAIN inbound'[t] : inbound'[t][k].op = "actor" => inbound'[t][k].info # i
      BY <2>1 DEF Brings
    <2>3. CASE t = s
      <3>1. \A k \in DOMAIN inbound'[s] : k + 1 \in DOMAIN inbound[s] /\ inbound'[s][k] = inbound[s][k + 1]
        BY <1>11
      <3>2. \A j, k \in DOMAIN inbound'[s] : j + 1 = k + 1 => j = k
        BY <1>11
      <3>3. \A k \in DOMAIN inbound'[s] : inbound'[s][k].op = "actor" =>
              /\ inbound'[s][k].info \in alive /\ sched_id_[inbound'[s][k].info] = InTransit(s)
              /\ \A j \in DOMAIN inbound'[s] : inbound'[s][j] = inbound'[s][k] => j = k
        BY <2>1, <2>3, <3>1, <3>2 DEF Brought
      <3>4. alive \subseteq Info
        BY DEF IInv, Types
      <3> QED BY <1>10, <2>2, <2>3, <3>3, <3>4 DEF Brought, Only
    <2>4. CASE t # s
      <3>1. DOMAIN inbound'[t] = DOMAIN inbound[t] /\ \A k \in DOMAIN inbound[t] : inbound'[t][k] = inbound[t][k]
        BY <1>12, <2>4
      <3>2. alive \subseteq Info
        BY DEF IInv, Types
      <3> QED BY <1>10, <2>1, <2>2, <3>1, <3>2 DEF Brought, Only
    <2> QED BY <2>3, <2>4
  <1>23. \A j \in Info \ {i} : InSlot(j)'
    <2>1. \A t \in Sched, j \in Info \ {i} : j \in Listed(t) => j \in Listed(t)'
      BY <1>15 DEF ListsBecome
    <2>2. \A t \in Sched, j \in Info : (Hands(t, j)' <=> Hands(t, j)) /\ (RunsOn(t, j)' <=> RunsOn(t, j))
      BY <1>6 DEF Hands, RunsOn
    <2>3. \A t \in Sched, j \in Info \ {i} : Brings(t, j) => Brings(t, j)'
      BY <1>1, <1>2, TakenBrings DEF IInv
    <2> QED BY <1>3, <1>10, <2>1, <2>2, <2>3, SlotsOthers
  <1>24. InSlot(i)'
    <2>1. InSlot(i) /\ ~is_running[i]
      BY <1>3, <1>13 DEF IInv, Owning, InSlot
    <2>2. i \in Listed(s)' /\ ~sched_id_'[i].migrating /\ sched_id_'[i].dest \in Sched
      BY <1>9, <1>15, Ids DEF ListsBecome
    <2> QED BY <1>3, <1>6, <1>10, <2>1, <2>2, Zenon DEF InSlot
  <1>25. ChecksOk'
    BY <1>3, <1>5 DEF IInv, ChecksOk, Check
  <1> QED BY <1>16, <1>17, <1>18, <1>19, <1>21, <1>22, <1>23, <1>24, <1>25 DEF IInv, Owning, HandingOver

-----------------------------------------------------------------------------
(* The initial state *)

LEMMA SetListed ==
  ASSUME NEW S, IsFiniteSet(S)
  PROVE  /\ SetToSeq(S) \in Seq(S) /\ Distinct(SetToSeq(S)) /\ ToSet(SetToSeq(S)) = S
PROOF
  <1> DEFINE n == Cardinality(S)
  <1>1. n \in Nat /\ ExistsBijection(1..n, S)
    BY FS_CardinalityType
  <1>2. \E f \in [1..n -> S] : IsInjective(f)
    BY <1>1 DEF ExistsBijection, Bijection, Injection
  <1>3. PICK q : q = SetToSeq(S)
    OBVIOUS
  <1>4. q \in [1..n -> S] /\ IsInjective(q)
    BY <1>2, <1>3 DEF SetToSeq
  <1>5. q \in Injection(1..n, S)
    BY <1>4 DEF Injection
  <1>6. IsFiniteSet(1..n) /\ Cardinality(1..n) = n
    BY <1>1, FS_Interval
  <1>7. q \in Surjection(1..n, S)
    BY <1>5, <1>6, FS_Injection
  <1>8. q \in Seq(S) /\ DOMAIN q = 1..n
    BY <1>1, <1>4
  <1>9. Distinct(q)
    BY <1>4 DEF IsInjective, Distinct
  <1>10. ToSet(q) = S
    BY <1>4, <1>7 DEF ToSet, Surjection
  <1> QED BY <1>3, <1>8, <1>9, <1>10

LEMMA InitOwning ==
  ASSUME ConstantsAssumption, Init
  PROVE  IInv
PROOF
  <1>1. IsFiniteSet(InitialActors) /\ \A s \in Sched : IsFiniteSet(InitialAt(s)) /\ InitialAt(s) \subseteq InitialActors
    <2>1. IsFiniteSet(InitialActors)
      BY FS_Subset DEF ConstantsAssumption
    <2> QED BY <2>1, FS_Subset DEF InitialAt
  <1>2. \A i \in InitialActors : i \in Info /\ Home[i] \in Sched /\ i \in InitialAt(Home[i])
    BY DEF InitialAt, ConstantsAssumption
  <1>3. \A i \in InitialActors : FirstStart(i) \in Event
    <2>1. 0 \in 0..MaxGen /\ 0 \in 0..MaxSends
      BY DEF ConstantsAssumption
    <2> QED BY <1>2, <2>1 DEF FirstStart, StartOf, Event, Id
  <1>4. \A s \in Sched : /\ SetToSeq(InitialAt(s)) \in Seq(InitialAt(s))
                         /\ Distinct(SetToSeq(InitialAt(s))) /\ ToSet(SetToSeq(InitialAt(s))) = InitialAt(s)
    BY <1>1, SetListed
  <1>5. ASSUME NEW s \in Sched
        PROVE  /\ ready[s] \in Seq(Info) /\ Distinct(ready[s]) /\ ToSet(ready[s]) = InitialAt(s)
               /\ batch[s] = <<>> /\ pending[s] = {} /\ stack[s] = <<>> /\ call[s] = Idle /\ inbound[s] = <<>>
               /\ actor_count[s] = Cardinality(InitialAt(s)) /\ actor_count[s] \in Nat
    <2>1. ready[s] = SetToSeq(InitialAt(s)) /\ InitialAt(s) \subseteq Info
      BY <1>1 DEF Init, ConstantsAssumption
    <2>2. ready[s] \in Seq(InitialAt(s)) /\ Distinct(ready[s]) /\ ToSet(ready[s]) = InitialAt(s)
      BY <1>4, <2>1
    <2>3. ready[s] \in Seq(Info)
      BY <2>1, <2>2
    <2>4. Cardinality(InitialAt(s)) \in Nat
      BY <1>1, FS_CardinalityType
    <2> QED BY <2>2, <2>3, <2>4 DEF Init
  <1>6. \A s \in Sched : Listed(s) = InitialAt(s)
    <2>1. ToSet(<<>>) = {}
      BY DEF ToSet
    <2> QED BY <1>5, <2>1 DEF Listed
  <1>7. ASSUME NEW i \in Info
        PROVE  IF i \in InitialActors
                 THEN /\ sched_id_[i] = Owner(Home[i]) /\ mailbox[i] = <<FirstStart(i)>> /\ mailbox[i] # <<>>
                      /\ mailbox[i] \in Seq(Event)
                 ELSE sched_id_[i] = Owner(NoSched) /\ mailbox[i] = <<>> /\ mailbox[i] \in Seq(Event)
    <2>1. CASE i \in InitialActors
      BY <1>3, <2>1 DEF Init
    <2>2. CASE i \notin InitialActors
      BY <2>2 DEF Init
    <2> QED BY <2>1, <2>2
  <1>8. /\ alive = InitialActors /\ failed = {} /\ handled = {} /\ dropped = {} /\ torn = {}
        /\ generation = [i \in Info |-> 0] /\ is_running = [i \in Info |-> FALSE]
        /\ \A i \in Info : ~is_running[i] /\ generation[i] = 0
    BY DEF Init
  <1>9. Types
    <2>1. sent \subseteq Event /\ IsFiniteSet(sent)
      <3> DEFINE f == [i \in InitialActors |-> FirstStart(i)]
      <3>1. f \in Surjection(InitialActors, sent)
        BY DEF Init, Surjection
      <3> HIDE DEF f
      <3>2. IsFiniteSet(sent)
        BY <1>1, <3>1, FS_Surjection
      <3> QED BY <1>3, <3>2 DEF Init
    <2>2. generation \in [Info -> 0..MaxGen] /\ moves \in [Info -> 0..MaxMoves]
      BY DEF Init, ConstantsAssumption
    <2>3. sched_id_ \in [Info -> [dest : Sched \union {NoSched}, migrating : BOOLEAN]]
      <3>a. \A d \in Sched \union {NoSched} : Owner(d) \in [dest : Sched \union {NoSched}, migrating : BOOLEAN]
        BY DEF Owner
      <3>1. \A i \in Info : sched_id_[i] \in [dest : Sched \union {NoSched}, migrating : BOOLEAN]
        BY <1>2, <1>7, <3>a, Zenon
      <3> QED BY <3>1 DEF Init
    <2>4. mailbox \in [Info -> Seq(Event)]
      BY <1>7 DEF Init
    <2>5. alive \subseteq Info /\ is_running \in [Info -> BOOLEAN] /\ pending \in [Sched -> SUBSET Info]
      BY <1>8 DEF Init, ConstantsAssumption
    <2>6. ready \in [Sched -> Seq(Info)] /\ actor_count \in [Sched -> Nat]
      BY <1>5 DEF Init
    <2>7. /\ batch \in [Sched -> Seq(Info)] /\ pending_events \in [Sched -> [Info -> Seq(Event)]]
          /\ inbound \in [Sched -> Seq(Entry)] /\ stack \in [Sched -> Seq(EventGuard)] /\ call \in [Sched -> Call]
      BY DEF Init, Call
    <2> QED BY <1>8, <2>1, <2>2, <2>3, <2>4, <2>5, <2>6, <2>7 DEF Types
  <1>10. ASSUME NEW s \in Sched PROVE Listing(s) /\ ListedHere(s) /\ Counted(s) /\ Guarding(s)
    <2>1. Listing(s)
      BY <1>5 DEF Listing, Distinct, ToSet
    <2>2. ListedHere(s)
      <3>1. \A i \in InitialAt(s) : i \in InitialActors /\ Home[i] = s /\ i \in Info
        BY <1>2 DEF InitialAt
      <3> QED BY <1>5, <1>6, <1>7, <1>8, <3>1 DEF ListedHere
    <2>3. Counted(s)
      <3>1. Owned(s) = InitialAt(s)
        BY <1>2, <1>7, <1>8, Ids DEF Owned, InitialAt
      <3> QED BY <1>5, <3>1 DEF Counted
    <2>4. Guarding(s)
      BY <1>5 DEF Guarding
    <2> QED BY <2>1, <2>2, <2>3, <2>4
  <1>11. ASSUME NEW s \in Sched PROVE HandingOver(s) /\ Brought(s)
    BY <1>5 DEF HandingOver, Brought, Idle
  <1>12. ASSUME NEW i \in Info PROVE InSlot(i)
    <2>1. CASE i \in InitialActors
      <3>1. Home[i] \in Sched /\ i \in Listed(Home[i])
        BY <1>2, <1>6, <2>1
      <3>2. generation[i] < MaxGen
        BY <1>8 DEF ConstantsAssumption
      <3>3. sched_id_[i].dest = Home[i] /\ ~sched_id_[i].migrating
        BY <1>7, <2>1, Ids
      <3> QED BY <1>8, <2>1, <3>1, <3>2, <3>3, Zenon DEF InSlot
    <2>2. CASE i \notin InitialActors
      BY <1>7, <1>8, <2>2 DEF InSlot
    <2> QED BY <2>1, <2>2
  <1>13. ChecksOk
    BY <1>8 DEF ChecksOk
  <1> QED BY <1>9, <1>10, <1>11, <1>12, <1>13 DEF IInv, Owning

-----------------------------------------------------------------------------
(* Every step *)

LEMMA StutterOwning ==
  ASSUME IInv, UNCHANGED vars
  PROVE  IInv'
PROOF
  <1>1. UNCHANGED <<slotVars, runVars, pending_events, inbound, stack, call, history, failed>>
    BY DEF vars
  <1>2. Types'
    BY <1>1 DEF IInv, Types, slotVars, runVars, history
  <1>3. \A t \in Sched : Listing(t)' /\ ListedHere(t)' /\ Listed(t)' = Listed(t)
    BY <1>1, ListedKept DEF slotVars, runVars
  <1>4. \A t \in Sched : Counted(t)' /\ Guarding(t)'
    BY <1>1, CountsKept, GuardsKept DEF slotVars, runVars
  <1>5. \A t \in Sched : HandingOver(t)' /\ Brought(t)'
    BY <1>1, CarriersKept DEF slotVars, CallsKept
  <1>6. \A j \in Info : InSlot(j)'
    <2>1. \A t \in Sched, j \in Info :
            (RunsOn(t, j)' <=> RunsOn(t, j)) /\ (Hands(t, j)' <=> Hands(t, j)) /\ (Brings(t, j)' <=> Brings(t, j))
      BY <1>1 DEF RunsOn, Hands, Brings
    <2> QED BY <1>1, <1>3, <2>1, SlotsKept DEF slotVars, runVars
  <1>7. ChecksOk'
    BY <1>1 DEF IInv, ChecksOk
  <1> QED BY <1>2, <1>3, <1>4, <1>5, <1>6, <1>7 DEF IInv, Owning

LEMMA NextOwning ==
  ASSUME ConstantsAssumption, IInv, [Next]_vars
  PROVE  IInv'
PROOF
  <1>1. CASE UNCHANGED vars
    BY <1>1, StutterOwning
  <1>2. CASE Next
    <2>1. PICK s \in Sched : Proceed(s) \/ Receive(s) \/ HandlerCall(s)
      BY <1>2 DEF Next
    <2>2. CASE Proceed(s)
      BY <2>2, RunMailboxOwning, FlushMailboxOwning, RouteHereOwning, RouteToMigrantOwning, RouteAwayOwning,
         NextEventOwning, LeaveActorOwning, StopActorOwning, DestroyActorOwning, StartMigrateOwning,
         HandOverOwning DEF Proceed
    <2>3. CASE Receive(s)
      BY <2>3, ReceiveEventOwning, ReceiveActorOwning DEF Receive
    <2>4. CASE HandlerCall(s)
      BY <2>4, SendOwning, StopOwning, MigrateOwning, CreateActorOwning DEF HandlerCall
    <2> QED BY <2>1, <2>2, <2>3, <2>4
  <1> QED BY <1>1, <1>2

(* Every actor belongs to one thread, or to the one carrier that hands it over:  *)
(* the sched_id_ of its slot says which, only that thread has it on one of its    *)
(* run lists, in an EventGuard or in actor_count_, and what register_actor_impl,  *)
(* ~EventGuard, do_migrate_actor and register_migrated_actor change agrees.       *)
THEOREM OwnershipHolds == SafeSpec => []IInv
PROOF
  <1>1. Init => IInv
    BY InitOwning, ConstantsAssumption
  <1>2. IInv /\ [Next]_vars => IInv'
    BY NextOwning, ConstantsAssumption
  <1> QED BY <1>1, <1>2, PTL DEF SafeSpec
==============================================================================

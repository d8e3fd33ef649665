------------------------- MODULE SchedulerEvents_proofs ------------------------
(***************************************************************************)
(* Safety of Scheduler for any threads, slots, generations, messages and      *)
(* migrations: what happens to the events that actors send each other and to   *)
(* the actors they are for, and in which order they are handled.              *)
(***************************************************************************)
EXTENDS Scheduler_proofs

(* What has been sent: events of actors that lived or live, and the messages   *)
(* of each thread are numbered.                                                  *)
SentInv ==
  \A e \in sent :
    /\ \/ e.to.gen < generation[e.to.info]
       \/ e.to = IdOf(e.to.info) /\ e.to.info \in alive
    /\ IF e.kind = "start" THEN e = StartOf(e.to, Home[e.to.info])
                           ELSE e.n <= Cardinality(SentBy(e.src))

Posted(s, e) == \E k \in DOMAIN inbound[s] : inbound[s][k].op = "event" /\ inbound[s][k].event = e
Called(s, e) == call[s].op = "send" /\ call[s].event = e

(* Mail is for the actor that is there; what waits for an actor waits where it  *)
(* is going, and a call that finds its scheduler here has found it alive.       *)
Addressed ==
  /\ \A i \in Info : \A e \in ToSet(mailbox[i]) : e.to = IdOf(i)
  /\ \A s \in Sched, i \in Info : \A e \in ToSet(pending_events[s][i]) :
       e.to = IdOf(i) /\ i \in alive /\ sched_id_[i] = InTransit(s)
  /\ \A s \in Sched, e \in Event : Called(s, e) /\ sched_id_[e.to.info] = Owner(s) => IsAlive(e.to)
  /\ \A e \in dropped : ~IsAlive(e.to)

(* The places an event can be in, and whether e is there.                        *)
Place == [kind : {"handled", "dropped", "mailbox"}, at : {NoSched}]
           \union [kind : {"pending", "inbound", "call"}, at : Sched]

Spot(kind, s) == [kind |-> kind, at |-> s]

Holds(p, e) ==
  \/ p.kind = "handled" /\ e \in handled
  \/ p.kind = "dropped" /\ e \in dropped
  \/ p.kind = "mailbox" /\ e \in ToSet(mailbox[e.to.info])
  \/ p.kind = "pending" /\ e \in ToSet(pending_events[p.at][e.to.info])
  \/ p.kind = "inbound" /\ Posted(p.at, e)
  \/ p.kind = "call" /\ Called(p.at, e)

(* What has been sent, and nothing else, is in one place, ...                    *)
Conserved ==
  /\ \A e \in Event, p \in Place : Holds(p, e) => e \in sent
  /\ \A e \in Event, p \in Place, q \in Place : Holds(p, e) /\ Holds(q, e) => p = q
  /\ \A e \in sent : \E p \in Place : Holds(p, e)

(* ... and once.                                                                 *)
Unrepeated ==
  /\ \A i \in Info : Distinct(mailbox[i])
  /\ \A s \in Sched, i \in Info : Distinct(pending_events[s][i])
  /\ \A s \in Sched : \A j, k \in DOMAIN inbound[s] :
       inbound[s][j].op = "event" /\ inbound[s][j] = inbound[s][k] => j = k

(* Start is handled, or the first in the mailbox.                                *)
StartInv ==
  /\ \A e \in handled : StartOf(e.to, Home[e.to.info]) \in handled
  /\ \A i \in alive :
       \/ StartOf(IdOf(i), Home[i]) \in handled
       \/ mailbox[i] # <<>> /\ Head(mailbox[i]) = StartOf(IdOf(i), Home[i])

(* Who was torn down is gone, or is in the guard of do_stop_actor.               *)
Down(i) == \E s \in Sched : \E k \in DOMAIN stack[s] : stack[s][k].info = i /\ stack[s][k].down

TornInv ==
  \A id \in torn :
    \/ id.gen < generation[id.info]
    \/ IsAlive(id) /\ id.info \in alive /\ Down(id.info)

EventInv == SentInv /\ Addressed /\ Conserved /\ Unrepeated /\ StartInv /\ TornInv

-----------------------------------------------------------------------------
(* Where events are *)

(* M goes from p to q.                                                           *)
Moved(M, p, q) ==
  \A r \in Place, e \in Event :
    Holds(r, e)' <=> (Holds(r, e) /\ ~(e \in M /\ r = p)) \/ (e \in M /\ r = q)

LEMMA Spots ==
  /\ \A s \in Sched : /\ Spot("pending", s) \in Place /\ Spot("inbound", s) \in Place
                      /\ Spot("call", s) \in Place
  /\ Spot("handled", NoSched) \in Place /\ Spot("dropped", NoSched) \in Place
  /\ Spot("mailbox", NoSched) \in Place
  /\ \A k, s : Spot(k, s).kind = k /\ Spot(k, s).at = s
  /\ \A p \in Place : p = Spot(p.kind, p.at)
  /\ \A p \in Place :
       \/ p.kind \in {"handled", "dropped", "mailbox"} /\ p.at = NoSched
       \/ p.kind \in {"pending", "inbound", "call"} /\ p.at \in Sched
PROOF
  <1>1. \A s \in Sched : Spot("pending", s) \in Place /\ Spot("inbound", s) \in Place /\ Spot("call", s) \in Place
    BY DEF Spot, Place
  <1>2. Spot("handled", NoSched) \in Place /\ Spot("dropped", NoSched) \in Place /\ Spot("mailbox", NoSched) \in Place
    BY DEF Spot, Place
  <1>3. \A k, s : Spot(k, s).kind = k /\ Spot(k, s).at = s
    BY DEF Spot
  <1>4. \A p \in Place : p = Spot(p.kind, p.at)
    BY DEF Spot, Place
  <1>5. \A p \in Place :
          \/ p.kind \in {"handled", "dropped", "mailbox"} /\ p.at = NoSched
          \/ p.kind \in {"pending", "inbound", "call"} /\ p.at \in Sched
    BY DEF Place
  <1> QED BY <1>1, <1>2, <1>3, <1>4, <1>5

LEMMA MovedConserves ==
  ASSUME Types, Conserved, NEW M \in SUBSET Event, NEW p, NEW q \in Place, Moved(M, p, q),
         sent' = sent \union M,
         \A e \in M : (p \in Place /\ Holds(p, e)) \/ e \notin sent
  PROVE  Conserved'
PROOF
  <1>1. ASSUME NEW e \in Event, NEW r \in Place
        PROVE  Holds(r, e)' => e \in sent' /\ (e \in M => r = q) /\ (e \notin M => Holds(r, e))
    <2>1. CASE e \in M
      <3>1. Holds(r, e) => p \in Place /\ r = p
        BY <2>1 DEF Conserved
      <3> QED BY <2>1, <3>1 DEF Moved
    <2>2. CASE e \notin M
      BY <2>2 DEF Moved, Conserved
    <2> QED BY <2>1, <2>2
  <1>2. ASSUME NEW e \in Event, NEW r \in Place, NEW o \in Place, Holds(r, e)', Holds(o, e)'
        PROVE  r = o
    BY <1>1, <1>2 DEF Conserved
  <1>3. ASSUME NEW e \in sent' PROVE \E r \in Place : Holds(r, e)'
    <2>1. CASE e \in M
      BY <2>1 DEF Moved
    <2>2. CASE e \notin M
      <3>1. e \in sent /\ e \in Event
        BY <1>3, <2>2 DEF Types
      <3>2. PICK r \in Place : Holds(r, e)
        BY <3>1 DEF Conserved
      <3> QED BY <2>2, <3>1, <3>2 DEF Moved
    <2> QED BY <2>1, <2>2
  <1> QED BY <1>1, <1>2, <1>3 DEF Conserved

(* No event moves. *)
EventsStay ==
  /\ UNCHANGED <<handled, dropped, mailbox, pending_events>>
  /\ \A t \in Sched, e \in Event : (Posted(t, e)' <=> Posted(t, e)) /\ (Called(t, e)' <=> Called(t, e))

LEMMA StayConserves ==
  ASSUME Types, Conserved, EventsStay, sent' = sent
  PROVE  Conserved'
PROOF
  <1>1. \A r \in Place, e \in Event : Holds(r, e)' <=> Holds(r, e)
    BY DEF Holds, EventsStay, Place
  <1> QED BY <1>1 DEF Conserved, Types

LEMMA SentKept ==
  ASSUME SentInv, UNCHANGED <<generation, alive, sent>>
  PROVE  SentInv'
PROOF BY DEF SentInv, SentBy, IdOf

LEMMA StartKept ==
  ASSUME StartInv, UNCHANGED <<generation, alive, handled, mailbox>>
  PROVE  StartInv'
PROOF BY DEF StartInv, IdOf

LEMMA TornKept ==
  ASSUME TornInv, UNCHANGED <<generation, alive, torn>>, torn \subseteq Id, \A i \in Info : Down(i) => Down(i)'
  PROVE  TornInv'
PROOF BY DEF TornInv, IsAlive, Id

LEMMA AddressedKept ==
  ASSUME IInv, Addressed, UNCHANGED <<generation, alive, mailbox, pending_events, dropped>>,
         \A t \in Sched, e \in Event : Called(t, e)' => Called(t, e),
         \A i \in Info, t \in Sched :
           /\ sched_id_[i] = InTransit(t) => sched_id_'[i] = InTransit(t)
           /\ sched_id_'[i] = Owner(t) => sched_id_[i] = Owner(t)
  PROVE  Addressed'
PROOF
  <1>1. \A i \in Info : \A e \in ToSet(mailbox'[i]) : e.to = IdOf(i)'
    BY DEF Addressed, IdOf
  <1>2. ASSUME NEW s \in Sched, NEW i \in Info, NEW e \in ToSet(pending_events'[s][i])
        PROVE  e.to = IdOf(i)' /\ i \in alive' /\ sched_id_'[i] = InTransit(s)
    BY <1>2 DEF Addressed, IdOf
  <1>3. ASSUME NEW s \in Sched, NEW e \in Event, Called(s, e)', sched_id_'[e.to.info] = Owner(s)
        PROVE  IsAlive(e.to)'
    <2>1. e.to.info \in Info
      BY DEF Event, Id
    <2> QED BY <1>3, <2>1 DEF Addressed, IsAlive
  <1>4. \A e \in dropped' : ~IsAlive(e.to)'
    BY DEF Addressed, IsAlive
  <1> QED BY <1>1, <1>2, <1>3, <1>4 DEF Addressed

QueueOnce(s) ==
  \A j, k \in DOMAIN inbound[s] : inbound[s][j].op = "event" /\ inbound[s][j] = inbound[s][k] => j = k

LEMMA EntryOf ==
  ASSUME Types, NEW s \in Sched, NEW k \in DOMAIN inbound[s]
  PROVE  /\ inbound[s][k] \in Entry
         /\ inbound[s][k].op = "event" =>
              /\ inbound[s][k].event \in Event
              /\ inbound[s][k] = [op |-> "event", event |-> inbound[s][k].event]
         /\ inbound[s][k].op = "actor" =>
              /\ inbound[s][k].info \in Info
              /\ inbound[s][k] = [op |-> "actor", info |-> inbound[s][k].info]
PROOF
  <1>1. inbound[s] \in Seq(Entry)
    BY DEF Types
  <1>2. inbound[s][k] \in Entry
    BY <1>1, Elements
  <1> QED BY <1>2 DEF Entry

LEMMA PostedTaken ==
  ASSUME Types, \A t \in Sched : QueueOnce(t), NEW s \in Sched, inbound[s] # <<>>,
         inbound' = [inbound EXCEPT ![s] = Tail(@)]
  PROVE  /\ \A t \in Sched : QueueOnce(t)'
         /\ \A t \in Sched, f \in Event :
              Posted(t, f)' <=> /\ Posted(t, f)
                                /\ ~(t = s /\ Head(inbound[s]).op = "event" /\ Head(inbound[s]).event = f)
         /\ Head(inbound[s]).op = "event" => Posted(s, Head(inbound[s]).event)
PROOF
  <1>1. /\ Len(inbound[s]) \in Nat \ {0} /\ Head(inbound[s]) = inbound[s][1]
        /\ DOMAIN inbound[s] = 1..Len(inbound[s]) /\ DOMAIN inbound'[s] = 1..Len(inbound[s]) - 1
        /\ \A k \in 1..Len(inbound[s]) - 1 : inbound'[s][k] = inbound[s][k + 1]
        /\ \A t \in Sched \ {s} : inbound'[t] = inbound[t]
    BY EntryTaken
  <1>2. \A k \in DOMAIN inbound'[s] : k + 1 \in DOMAIN inbound[s] /\ k + 1 # 1 /\ inbound'[s][k] = inbound[s][k + 1]
    BY <1>1
  <1>3. \A j, k \in DOMAIN inbound'[s] : j + 1 = k + 1 => j = k
    BY <1>1
  <1>4. \A k \in DOMAIN inbound[s] : k # 1 => k - 1 \in DOMAIN inbound'[s] /\ inbound'[s][k - 1] = inbound[s][k]
    BY <1>1
  <1>5. 1 \in DOMAIN inbound[s]
    BY <1>1
  <1>6. ASSUME NEW t \in Sched PROVE QueueOnce(t)'
    <2>1. QueueOnce(t)
      OBVIOUS
    <2>2. CASE t = s
      <3> SUFFICES ASSUME NEW j \in DOMAIN inbound'[s], NEW k \in DOMAIN inbound'[s],
                          inbound'[s][j].op = "event", inbound'[s][j] = inbound'[s][k]
                   PROVE  j = k
        BY <2>2 DEF QueueOnce
      <3>1. j + 1 = k + 1
        BY <1>2, <2>1, <2>2 DEF QueueOnce
      <3> QED BY <1>3, <3>1
    <2>3. CASE t # s
      <3>1. inbound'[t] = inbound[t]
        BY <1>1, <2>3
      <3> QED BY <2>1, <3>1 DEF QueueOnce
    <2> QED BY <2>2, <2>3
  <1>7. ASSUME NEW f \in Event
        PROVE  Posted(s, f)' <=> Posted(s, f) /\ ~(Head(inbound[s]).op = "event" /\ Head(inbound[s]).event = f)
    <2>1. ASSUME Posted(s, f)' PROVE Posted(s, f) /\ ~(Head(inbound[s]).op = "event" /\ Head(inbound[s]).event = f)
      <3>1. PICK k \in DOMAIN inbound'[s] : inbound'[s][k].op = "event" /\ inbound'[s][k].event = f
        BY <2>1, Zenon DEF Posted
      <3>2. PICK j : j = k + 1
        OBVIOUS
      <3>3. j \in DOMAIN inbound[s] /\ j # 1 /\ inbound[s][j].op = "event" /\ inbound[s][j].event = f
        BY <1>2, <3>1, <3>2
      <3>4. Posted(s, f)
        BY <3>3, Zenon DEF Posted
      <3>5. ASSUME Head(inbound[s]).op = "event", Head(inbound[s]).event = f PROVE FALSE
        <4>0. PICK a \in DOMAIN inbound[s] : a = 1
          BY <1>5
        <4>3. inbound[s][a].op = "event" /\ inbound[s][a].event = f
          BY <1>1, <3>5, <4>0
        <4>4. inbound[s][a] = [op |-> "event", event |-> inbound[s][a].event]
          BY <4>3, EntryOf
        <4>5. inbound[s][j] = [op |-> "event", event |-> inbound[s][j].event]
          BY <3>3, EntryOf
        <4>1. inbound[s][1] = inbound[s][j]
          BY <3>3, <4>0, <4>3, <4>4, <4>5
        <4>2. QueueOnce(s)
          OBVIOUS
        <4> QED BY <1>5, <3>3, <4>1, <4>2 DEF QueueOnce
      <3> QED BY <3>4, <3>5
    <2>2. ASSUME Posted(s, f), ~(Head(inbound[s]).op = "event" /\ Head(inbound[s]).event = f) PROVE Posted(s, f)'
      <3>1. PICK k \in DOMAIN inbound[s] : inbound[s][k].op = "event" /\ inbound[s][k].event = f
        BY <2>2, Zenon DEF Posted
      <3>2. k # 1
        BY <1>1, <2>2, <3>1
      <3>3. PICK j \in DOMAIN inbound'[s] : inbound'[s][j] = inbound[s][k]
        BY <1>4, <3>2
      <3> QED BY <3>1, <3>3, Zenon DEF Posted
    <2> QED BY <2>1, <2>2
  <1>8. ASSUME NEW t \in Sched, t # s, NEW f \in Event PROVE Posted(t, f)' <=> Posted(t, f)
    <2>1. inbound'[t] = inbound[t]
      BY <1>1, <1>8
    <2> QED BY <2>1 DEF Posted
  <1>9. Head(inbound[s]).op = "event" => Posted(s, Head(inbound[s]).event)
    BY <1>1, <1>5, Zenon DEF Posted
  <1> QED BY <1>6, <1>7, <1>8, <1>9

LEMMA PostedPut ==
  ASSUME Types, \A t \in Sched : QueueOnce(t), NEW d \in Sched, NEW x \in Entry,
         inbound' = [inbound EXCEPT ![d] = Append(@, x)],
         x.op = "event" => ~Posted(d, x.event)
  PROVE  /\ \A t \in Sched : QueueOnce(t)'
         /\ \A t \in Sched, f \in Event :
              Posted(t, f)' <=> Posted(t, f) \/ (t = d /\ x.op = "event" /\ x.event = f)
PROOF
  <1>1. /\ DOMAIN inbound[d] = 1..Len(inbound[d]) /\ Len(inbound[d]) \in Nat
        /\ DOMAIN inbound'[d] = 1..Len(inbound[d]) + 1
        /\ \A k \in 1..Len(inbound[d]) : inbound'[d][k] = inbound[d][k]
        /\ inbound'[d][Len(inbound[d]) + 1] = x
        /\ \A t \in Sched \ {d} : inbound'[t] = inbound[t]
    BY EntryPut
  <1> DEFINE n == Len(inbound[d]) + 1
  <1>2. /\ n \in DOMAIN inbound'[d] /\ inbound'[d][n] = x
        /\ \A k \in DOMAIN inbound[d] : k \in DOMAIN inbound'[d] /\ inbound'[d][k] = inbound[d][k]
        /\ \A k \in DOMAIN inbound'[d] : k \in DOMAIN inbound[d] \/ k = n
    BY <1>1
  <1> HIDE DEF n
  <1>3. ASSUME NEW t \in Sched PROVE QueueOnce(t)'
    <2>1. QueueOnce(t)
      OBVIOUS
    <2>2. CASE t = d
      <3>1. \A k \in DOMAIN inbound[d] : x.op = "event" => inbound[d][k] # x
        BY DEF Posted
      <3> SUFFICES ASSUME NEW j \in DOMAIN inbound'[d], NEW k \in DOMAIN inbound'[d],
                          inbound'[d][j].op = "event", inbound'[d][j] = inbound'[d][k]
                   PROVE  j = k
        BY <2>2 DEF QueueOnce
      <3>2. CASE j \in DOMAIN inbound[d] /\ k \in DOMAIN inbound[d]
        BY <1>2, <2>1, <2>2, <3>2 DEF QueueOnce
      <3>3. CASE j = n /\ k = n
        BY <3>3
      <3>4. CASE j \in DOMAIN inbound[d] /\ k = n
        BY <1>2, <3>1, <3>4
      <3>5. CASE j = n /\ k \in DOMAIN inbound[d]
        BY <1>2, <3>1, <3>5
      <3> QED BY <1>2, <3>2, <3>3, <3>4, <3>5
    <2>3. CASE t # d
      <3>1. inbound'[t] = inbound[t]
        BY <1>1, <2>3
      <3> SUFFICES ASSUME NEW j \in DOMAIN inbound'[t], NEW k \in DOMAIN inbound'[t],
                          inbound'[t][j].op = "event", inbound'[t][j] = inbound'[t][k]
                   PROVE  j = k
        BY DEF QueueOnce
      <3>2. j \in DOMAIN inbound[t] /\ k \in DOMAIN inbound[t]
        BY <3>1
      <3>3. inbound[t][j].op = "event" /\ inbound[t][j] = inbound[t][k]
        BY <3>1
      <3> QED BY <2>1, <3>2, <3>3, Zenon DEF QueueOnce
    <2> QED BY <2>2, <2>3
  <1>4. ASSUME NEW f \in Event
        PROVE  Posted(d, f)' <=> Posted(d, f) \/ (x.op = "event" /\ x.event = f)
    BY <1>2, Zenon DEF Posted
  <1>5. ASSUME NEW t \in Sched, t # d, NEW f \in Event PROVE Posted(t, f)' <=> Posted(t, f)
    <2>1. inbound'[t] = inbound[t]
      BY <1>1, <1>5
    <2> QED BY <2>1 DEF Posted
  <1> QED BY <1>3, <1>4, <1>5

LEMMA SendEnds ==
  ASSUME Types, NEW s \in Sched, call[s].op = "send", call' = [call EXCEPT ![s] = Idle]
  PROVE  /\ \A t \in Sched, f \in Event : Called(t, f)' <=> Called(t, f) /\ ~(t = s /\ f = call[s].event)
         /\ Called(s, call[s].event)
PROOF
  <1>1. call'[s] = Idle /\ \A t \in Sched \ {s} : call'[t] = call[t]
    BY DEF Types
  <1>2. \A t \in Sched, f \in Event : Called(t, f)' <=> Called(t, f) /\ ~(t = s /\ f = call[s].event)
    BY <1>1 DEF Called, Idle
  <1> QED BY <1>2 DEF Called

LEMMA SendBegins ==
  ASSUME Types, NEW s \in Sched, call[s] = Idle, NEW e, NEW b,
         call' = [call EXCEPT ![s] = [op |-> "send", event |-> e, immediate |-> b]]
  PROVE  \A t \in Sched, f \in Event : Called(t, f)' <=> Called(t, f) \/ (t = s /\ f = e)
PROOF
  <1>1. /\ call'[s] = [op |-> "send", event |-> e, immediate |-> b]
        /\ \A t \in Sched \ {s} : call'[t] = call[t]
    BY DEF Types
  <1> QED BY <1>1 DEF Called, Idle

(* No send begins or ends. *)
LEMMA SendsKept ==
  ASSUME Types, NEW s \in Sched, call[s].op # "send", NEW c, c.op # "send", call' = [call EXCEPT ![s] = c]
  PROVE  \A t \in Sched, f \in Event : Called(t, f)' <=> Called(t, f)
PROOF
  <1>1. call'[s] = c /\ \A t \in Sched \ {s} : call'[t] = call[t]
    BY DEF Types
  <1> QED BY <1>1 DEF Called

-----------------------------------------------------------------------------
(* tear_down guards *)

LEMMA DownPushed ==
  ASSUME Types, NEW s \in Sched, NEW g \in EventGuard, stack' = [stack EXCEPT ![s] = Append(@, g)]
  PROVE  \A i \in Info : Down(i) => Down(i)'
PROOF
  <1>1. /\ DOMAIN stack[s] = 1..Len(stack[s]) /\ Len(stack[s]) \in Nat
        /\ DOMAIN stack'[s] = 1..Len(stack[s]) + 1
        /\ \A k \in 1..Len(stack[s]) : stack'[s][k] = stack[s][k]
        /\ \A t \in Sched \ {s} : stack'[t] = stack[t]
    BY GuardPushed
  <1>2. \A t \in Sched : \A k \in DOMAIN stack[t] : k \in DOMAIN stack'[t] /\ stack'[t][k] = stack[t][k]
    BY <1>1
  <1> QED BY <1>2, Zenon DEF Down

LEMMA DownReplaced ==
  ASSUME Types, NEW s \in Sched, stack[s] # <<>>, NEW g \in EventGuard, TopBecomes(s, g),
         g.info = Innermost(s).info, Innermost(s).down => g.down
  PROVE  \A i \in Info : Down(i) => Down(i)'
PROOF
  <1>1. Innermost(s) = stack[s][Len(stack[s])]
    BY Fronted DEF Innermost, Types
  <1>2. \A k \in DOMAIN stack[s] : k \in 1..Len(stack[s]) - 1 \/ k = Len(stack[s])
    BY DEF TopBecomes
  <1>3. \A k \in DOMAIN stack[s] :
          /\ k \in DOMAIN stack'[s] /\ stack'[s][k].info = stack[s][k].info
          /\ stack[s][k].down => stack'[s][k].down
    BY <1>1, <1>2, Zenon DEF TopBecomes
  <1>4. \A t \in Sched : \A k \in DOMAIN stack[t] :
          /\ k \in DOMAIN stack'[t] /\ stack'[t][k].info = stack[t][k].info
          /\ stack[t][k].down => stack'[t][k].down
    BY <1>3, Zenon DEF TopBecomes
  <1> QED BY <1>4, Zenon DEF Down

LEMMA DownPopped ==
  ASSUME IInv, NEW s \in Sched, stack[s] # <<>>, stack' = [stack EXCEPT ![s] = Front(@)]
  PROVE  \A i \in Info : Down(i) => Down(i)' \/ (i = Innermost(s).info /\ Innermost(s).down)
PROOF
  <1>1. /\ DOMAIN stack[s] = 1..Len(stack[s]) /\ Len(stack[s]) \in Nat \ {0}
        /\ DOMAIN stack'[s] = 1..Len(stack[s]) - 1
        /\ \A k \in 1..Len(stack[s]) - 1 : stack'[s][k] = stack[s][k]
        /\ \A t \in Sched \ {s} : stack'[t] = stack[t]
    BY GuardPopped DEF IInv
  <1>2. Innermost(s) = stack[s][Len(stack[s])]
    BY InnermostOwned
  <1>3. \A k \in 1..Len(stack[s]) : k \in 1..Len(stack[s]) - 1 \/ k = Len(stack[s])
    BY <1>1
  <1>4. ASSUME NEW i \in Info, Down(i) PROVE Down(i)' \/ (i = Innermost(s).info /\ Innermost(s).down)
    <2>0. PICK t \in Sched : \E k \in DOMAIN stack[t] : stack[t][k].info = i /\ stack[t][k].down
      BY <1>4, Zenon DEF Down
    <2>1. PICK k \in DOMAIN stack[t] : stack[t][k].info = i /\ stack[t][k].down
      BY <2>0
    <2>2. CASE t = s /\ k = Len(stack[s])
      BY <1>2, <2>1, <2>2
    <2>3. CASE t = s /\ k \in 1..Len(stack[s]) - 1
      BY <1>1, <2>1, <2>3, Zenon DEF Down
    <2>4. CASE t # s
      <3>1. stack'[t] = stack[t]
        BY <1>1, <2>4
      <3> QED BY <2>1, <3>1, Zenon DEF Down
    <2> QED BY <1>1, <1>3, <2>1, <2>2, <2>3, <2>4
  <1> QED BY <1>4

-----------------------------------------------------------------------------
(* Steps that move no event *)

LEMMA Quiet ==
  ASSUME IInv, EventInv, UNCHANGED <<generation, alive, sent, handled, dropped, mailbox, pending_events>>,
         \A t \in Sched, e \in Event : (Posted(t, e)' <=> Posted(t, e)) /\ (Called(t, e)' <=> Called(t, e)),
         \A t \in Sched : QueueOnce(t)',
         \A i \in Info, t \in Sched :
           /\ sched_id_[i] = InTransit(t) => sched_id_'[i] = InTransit(t)
           /\ sched_id_'[i] = Owner(t) => sched_id_[i] = Owner(t),
         TornInv'
  PROVE  EventInv'
PROOF
  <1>1. SentInv'
    BY SentKept DEF EventInv
  <1>2. Addressed'
    BY AddressedKept DEF EventInv
  <1>3. Conserved'
    BY StayConserves DEF EventInv, EventsStay, IInv
  <1>4. Unrepeated'
    <2>1. \A i \in Info : Distinct(mailbox[i])' /\ \A s \in Sched : Distinct(pending_events[s][i])'
      BY DEF EventInv, Unrepeated, Distinct
    <2> QED BY <2>1 DEF Unrepeated, QueueOnce
  <1>5. StartInv'
    BY StartKept DEF EventInv
  <1> QED BY <1>1, <1>2, <1>3, <1>4, <1>5 DEF EventInv

LEMMA QueuesOnce ==
  ASSUME EventInv
  PROVE  \A t \in Sched : QueueOnce(t)
PROOF BY DEF EventInv, Unrepeated, QueueOnce

(* Steps of the lists and the guards. *)
LEMMA QuietHere ==
  ASSUME IInv, EventInv, UNCHANGED <<generation, alive, sched_id_, sent, handled, dropped, mailbox,
                                     pending_events, inbound, call>>,
         TornInv'
  PROVE  EventInv'
PROOF
  <1>1. \A t \in Sched : QueueOnce(t)'
    BY QueuesOnce DEF QueueOnce
  <1>2. \A t \in Sched, e \in Event : (Posted(t, e)' <=> Posted(t, e)) /\ (Called(t, e)' <=> Called(t, e))
    BY DEF Posted, Called
  <1> QED BY <1>1, <1>2, Quiet

LEMMA RunMailboxEvents ==
  ASSUME ConstantsAssumption, IInv, EventInv, NEW s \in Sched, RunMailbox(s)
  PROVE  EventInv'
PROOF
  <1>1. UNCHANGED <<generation, alive, sched_id_, sent, handled, dropped, mailbox, pending_events, inbound,
                    call, torn, stack>>
    BY DEF RunMailbox, slotVars, history
  <1>2. TornInv'
    BY <1>1, TornKept DEF EventInv, Down, IInv, Types
  <1> QED BY <1>1, <1>2, QuietHere

LEMMA FlagEvents ==
  ASSUME ConstantsAssumption, IInv, EventInv, NEW s \in Sched, stack[s] # <<>>, NEW g \in EventGuard,
         g.info = Innermost(s).info, g.down = Innermost(s).down,
         stack' = [stack EXCEPT ![s][Len(stack[s])] = g],
         UNCHANGED <<slotVars, runVars, pending_events, inbound, call, sent, handled, dropped, torn>>
  PROVE  EventInv'
PROOF
  <1>1. UNCHANGED <<generation, alive, sched_id_, sent, handled, dropped, mailbox, pending_events, inbound,
                    call, torn>>
    BY DEF slotVars, runVars
  <1>2. TopBecomes(s, g)
    BY TopChanged DEF IInv
  <1>3. \A i \in Info : Down(i) => Down(i)'
    BY <1>2, DownReplaced DEF IInv
  <1>4. TornInv'
    BY <1>1, <1>3, TornKept DEF EventInv, IInv, Types
  <1> QED BY <1>1, <1>4, QuietHere

LEMMA StopEvents ==
  ASSUME ConstantsAssumption, IInv, EventInv, NEW s \in Sched, Stop(s)
  PROVE  EventInv'
PROOF
  <1>1. stack[s] # <<>>
    BY DEF Stop, InHandler
  <1>2. Innermost(s) \in EventGuard /\ Innermost(s) = stack[s][Len(stack[s])]
    BY <1>1, InnermostOwned
  <1>3. PICK g : g = [Innermost(s) EXCEPT !.stop = TRUE]
    OBVIOUS
  <1>4. g \in EventGuard /\ g.info = Innermost(s).info /\ g.down = Innermost(s).down
    BY <1>2, <1>3 DEF EventGuard
  <1>5. stack' = [stack EXCEPT ![s][Len(stack[s])] = g]
    BY <1>2, <1>3 DEF Stop
  <1>6. UNCHANGED <<slotVars, runVars, pending_events, inbound, call, sent, handled, dropped, torn>>
    BY DEF Stop, history
  <1> QED BY <1>1, <1>4, <1>5, <1>6, FlagEvents

LEMMA MigrateEvents ==
  ASSUME ConstantsAssumption, IInv, EventInv, NEW s \in Sched, NEW d \in Destinations, Migrate(s, d)
  PROVE  EventInv'
PROOF
  <1>1. stack[s] # <<>>
    BY DEF Migrate, InHandler
  <1>2. Innermost(s) \in EventGuard /\ Innermost(s) = stack[s][Len(stack[s])]
    BY <1>1, InnermostOwned
  <1>3. PICK g : g = [Innermost(s) EXCEPT !.dest = d]
    OBVIOUS
  <1>4. g \in EventGuard /\ g.info = Innermost(s).info /\ g.down = Innermost(s).down
    BY <1>2, <1>3 DEF EventGuard, ConstantsAssumption
  <1>5. stack' = [stack EXCEPT ![s][Len(stack[s])] = g]
    BY <1>2, <1>3 DEF Migrate
  <1>6. UNCHANGED <<slotVars, runVars, pending_events, inbound, call, sent, handled, dropped, torn>>
    BY DEF Migrate
  <1> QED BY <1>1, <1>4, <1>5, <1>6, FlagEvents

LEMMA LeaveActorEvents ==
  ASSUME ConstantsAssumption, IInv, EventInv, NEW s \in Sched, LeaveActor(s)
  PROVE  EventInv'
PROOF
  <1>1. /\ UNCHANGED <<generation, alive, sched_id_, sent, handled, dropped, mailbox, pending_events, inbound,
                       call, torn>>
        /\ stack[s] # <<>> /\ stack' = [stack EXCEPT ![s] = Front(@)] /\ ~Innermost(s).down
    BY DEF LeaveActor, Done, InHandler, slotVars, history
  <1>2. \A i \in Info : Down(i) => Down(i)'
    BY <1>1, DownPopped
  <1>3. TornInv'
    BY <1>1, <1>2, TornKept DEF EventInv, IInv, Types
  <1> QED BY <1>1, <1>3, QuietHere

(* do_stop_actor: the actor is torn down, in a guard that is there. *)
LEMMA StopActorEvents ==
  ASSUME ConstantsAssumption, IInv, EventInv, NEW s \in Sched, StopActor(s)
  PROVE  EventInv'
PROOF
  <1>1. InHandler(s)
    BY DEF StopActor, Done
  <1>2. PICK i \in Info : i = Innermost(s).info
    BY <1>1, DoneOf
  <1>3. stack[s] # <<>> /\ i \in alive
    BY <1>1, <1>2, DoneOf
  <1>4. PICK g : g = DownGuard(i)
    OBVIOUS
  <1>5. g \in EventGuard /\ g.info = i /\ g.down
    BY <1>4 DEF DownGuard, Guard, EventGuard
  <1>6. /\ torn' = torn \union {IdOf(i)}
        /\ stack' = [stack EXCEPT ![s] = Append(Front(@), g)]
        /\ UNCHANGED <<generation, alive, sched_id_, sent, handled, dropped, mailbox, pending_events, inbound, call>>
    BY <1>2, <1>4 DEF StopActor, slotVars
  <1>7. TopBecomes(s, g)
    BY <1>3, <1>5, <1>6, TopReplaced DEF IInv
  <1>8. \A j \in Info : Down(j) => Down(j)'
    BY <1>2, <1>3, <1>5, <1>7, DownReplaced DEF IInv
  <1>9. Down(i)'
    <2>1. PICK n : n = Len(stack[s])
      OBVIOUS
    <2>2. n \in Nat \ {0} /\ DOMAIN stack'[s] = 1..n /\ stack'[s][n] = g
      BY <1>7, <2>1 DEF TopBecomes
    <2>3. n \in DOMAIN stack'[s]
      BY <2>2
    <2> QED BY <1>5, <2>2, <2>3, Zenon DEF Down
  <1>10. TornInv'
    <2>1. IsAlive(IdOf(i)) /\ IdOf(i).info = i
      BY DEF IsAlive, IdOf
    <2>2. torn \subseteq Id
      BY DEF IInv, Types
    <2>3. ASSUME NEW id \in torn' PROVE id.gen < generation'[id.info] \/ (IsAlive(id)' /\ id.info \in alive' /\ Down(id.info)')
      <3>1. CASE id = IdOf(i)
        <4>1. id.info = i /\ IsAlive(id)'
          BY <1>6, <2>1, <3>1 DEF IsAlive
        <4> QED BY <1>3, <1>6, <1>9, <4>1
      <3>2. CASE id \in torn
        <4>1. id.info \in Info
          BY <2>2, <3>2 DEF Id
        <4>2. id.gen < generation[id.info] \/ (IsAlive(id) /\ id.info \in alive /\ Down(id.info))
          BY <3>2 DEF EventInv, TornInv
        <4>3. Down(id.info) => Down(id.info)'
          BY <1>8, <4>1
        <4> QED BY <1>6, <4>2, <4>3 DEF IsAlive
      <3> QED BY <1>6, <2>3, <3>1, <3>2
    <2> QED BY <2>3 DEF TornInv
  <1> QED BY <1>6, <1>10, QuietHere

LEMMA StartMigrateEvents ==
  ASSUME ConstantsAssumption, IInv, EventInv, NEW s \in Sched, StartMigrate(s)
  PROVE  EventInv'
PROOF
  <1>1. InHandler(s) /\ ~Innermost(s).down
    BY DEF StartMigrate, Done
  <1>2. PICK i \in Info : i = Innermost(s).info
    BY <1>1, DoneOf
  <1>3. stack[s] # <<>> /\ sched_id_[i] = Owner(s) /\ call[s] = Idle
    BY <1>1, <1>2, DoneOf
  <1>4. PICK d : d = Innermost(s).dest
    OBVIOUS
  <1>5. /\ sched_id_' = [sched_id_ EXCEPT ![i] = InTransit(d)]
        /\ call' = [call EXCEPT ![s] = [op |-> "handover", info |-> i, dest |-> d]]
        /\ stack' = [stack EXCEPT ![s] = Front(@)]
        /\ UNCHANGED <<generation, alive, sent, handled, dropped, mailbox, pending_events, inbound, torn>>
    BY <1>2, <1>4 DEF StartMigrate, history
  <1>6. \A j \in Info, t \in Sched :
          /\ sched_id_[j] = InTransit(t) => sched_id_'[j] = InTransit(t)
          /\ sched_id_'[j] = Owner(t) => sched_id_[j] = Owner(t)
    BY <1>3, <1>5, Ids DEF IInv, Types
  <1>7. PICK c : c = [op |-> "handover", info |-> i, dest |-> d]
    OBVIOUS
  <1>8. c.op # "send" /\ call[s].op # "send" /\ call' = [call EXCEPT ![s] = c]
    BY <1>3, <1>5, <1>7 DEF Idle
  <1>9. \A t \in Sched, e \in Event : (Posted(t, e)' <=> Posted(t, e)) /\ (Called(t, e)' <=> Called(t, e))
    <2>1. \A t \in Sched, e \in Event : Called(t, e)' <=> Called(t, e)
      BY <1>8, SendsKept DEF IInv
    <2> QED BY <1>5, <2>1 DEF Posted
  <1>10. \A t \in Sched : QueueOnce(t)'
    BY <1>5, QueuesOnce DEF QueueOnce
  <1>11. \A j \in Info : Down(j) => Down(j)'
    BY <1>1, <1>3, <1>5, DownPopped
  <1>12. TornInv'
    BY <1>5, <1>11, TornKept DEF EventInv, IInv, Types
  <1> QED BY <1>5, <1>6, <1>9, <1>10, <1>12, Quiet

LEMMA HandOverEvents ==
  ASSUME ConstantsAssumption, IInv, EventInv, NEW s \in Sched, HandOver(s)
  PROVE  EventInv'
PROOF
  <1>1. call[s].op = "handover" /\ call[s] \in Call
    BY DEF HandOver, IInv, Types
  <1>2. call[s].info \in Info /\ call[s].dest \in Sched
    BY <1>1 DEF Call, Idle
  <1>3. PICK d \in Sched, i \in Info : d = call[s].dest /\ i = call[s].info
    BY <1>2
  <1>4. PICK x : x = [op |-> "actor", info |-> i]
    OBVIOUS
  <1>5. x \in Entry /\ x.op = "actor"
    BY <1>4 DEF Entry
  <1>6. /\ inbound' = [inbound EXCEPT ![d] = Append(@, x)]
        /\ call' = [call EXCEPT ![s] = Idle]
        /\ UNCHANGED <<generation, alive, sched_id_, sent, handled, dropped, mailbox, pending_events, torn, stack>>
    BY <1>3, <1>4 DEF HandOver, slotVars, runVars, history
  <1>7. /\ \A t \in Sched : QueueOnce(t)'
        /\ \A t \in Sched, e \in Event : Posted(t, e)' <=> Posted(t, e) \/ (t = d /\ x.op = "event" /\ x.event = e)
    <2>1. \A t \in Sched : QueueOnce(t)
      BY QueuesOnce
    <2> QED BY <1>5, <1>6, <2>1, PostedPut DEF IInv
  <1>8. \A t \in Sched, e \in Event : Called(t, e)' <=> Called(t, e)
    <2>1. Idle.op # "send" /\ call[s].op # "send"
      BY <1>1 DEF Idle
    <2> QED BY <1>6, <2>1, SendsKept DEF IInv
  <1>9. TornInv'
    BY <1>6, TornKept DEF EventInv, Down, IInv, Types
  <1> QED BY <1>5, <1>6, <1>7, <1>8, <1>9, Quiet

-----------------------------------------------------------------------------
(* Steps that move events *)

Nowhere == Spot("nowhere", NoSched)

(* M leaves the place of this kind at t, or arrives there. *)
Goes(M, p, q, kind, t, e, was) ==
  \/ was /\ ~(e \in M /\ p.kind = kind /\ p.at = t)
  \/ e \in M /\ q.kind = kind /\ q.at = t

Moves(M, p, q) ==
  /\ \A e \in Event :
       /\ e \in handled' <=> Goes(M, p, q, "handled", NoSched, e, e \in handled)
       /\ e \in dropped' <=> Goes(M, p, q, "dropped", NoSched, e, e \in dropped)
       /\ e \in ToSet(mailbox'[e.to.info]) <=>
            Goes(M, p, q, "mailbox", NoSched, e, e \in ToSet(mailbox[e.to.info]))
  /\ \A t \in Sched, e \in Event :
       /\ e \in ToSet(pending_events'[t][e.to.info]) <=>
            Goes(M, p, q, "pending", t, e, e \in ToSet(pending_events[t][e.to.info]))
       /\ Posted(t, e)' <=> Goes(M, p, q, "inbound", t, e, Posted(t, e))
       /\ Called(t, e)' <=> Goes(M, p, q, "call", t, e, Called(t, e))

LEMMA MovesConserve ==
  ASSUME Types, Conserved, NEW M \in SUBSET Event, NEW p \in Place \union {Nowhere}, NEW q \in Place, Moves(M, p, q),
         \/ p \in Place /\ sent' = sent /\ \A e \in M : Holds(p, e)
         \/ sent' = sent \union M /\ \A e \in M : e \notin sent
  PROVE  Conserved'
PROOF
  <1>1. ASSUME NEW r \in Place, NEW e \in Event
        PROVE  Holds(r, e)' <=> (Holds(r, e) /\ ~(e \in M /\ r = p)) \/ (e \in M /\ r = q)
    <2>1. \A o \in Place \union {Nowhere} : r = o <=> o.kind = r.kind /\ o.at = r.at
      BY DEF Spot, Place, Nowhere
    <2>2. (Holds(r, e) /\ ~(e \in M /\ r = p)) \/ (e \in M /\ r = q) <=> Goes(M, p, q, r.kind, r.at, e, Holds(r, e))
      BY <2>1 DEF Goes
    <2>3. CASE r.kind = "handled"
      <3>1. r.at = NoSched /\ (Holds(r, e) <=> e \in handled) /\ (Holds(r, e)' <=> e \in handled')
        BY <2>3, Spots DEF Holds
      <3> QED BY <2>2, <2>3, <3>1 DEF Moves, Goes
    <2>4. CASE r.kind = "dropped"
      <3>1. r.at = NoSched /\ (Holds(r, e) <=> e \in dropped) /\ (Holds(r, e)' <=> e \in dropped')
        BY <2>4, Spots DEF Holds
      <3> QED BY <2>2, <2>4, <3>1 DEF Moves, Goes
    <2>5. CASE r.kind = "mailbox"
      <3>1. /\ r.at = NoSched /\ (Holds(r, e) <=> e \in ToSet(mailbox[e.to.info]))
            /\ (Holds(r, e)' <=> e \in ToSet(mailbox'[e.to.info]))
        BY <2>5, Spots DEF Holds
      <3> QED BY <2>2, <2>5, <3>1 DEF Moves, Goes
    <2>6. CASE r.kind = "pending"
      <3>1. /\ r.at \in Sched /\ (Holds(r, e) <=> e \in ToSet(pending_events[r.at][e.to.info]))
            /\ (Holds(r, e)' <=> e \in ToSet(pending_events'[r.at][e.to.info]))
        BY <2>6, Spots DEF Holds
      <3> QED BY <2>2, <2>6, <3>1 DEF Moves, Goes
    <2>7. CASE r.kind = "inbound"
      <3>1. r.at \in Sched /\ (Holds(r, e) <=> Posted(r.at, e)) /\ (Holds(r, e)' <=> Posted(r.at, e)')
        BY <2>7, Spots DEF Holds
      <3> QED BY <2>2, <2>7, <3>1 DEF Moves, Goes
    <2>8. CASE r.kind = "call"
      <3>1. r.at \in Sched /\ (Holds(r, e) <=> Called(r.at, e)) /\ (Holds(r, e)' <=> Called(r.at, e)')
        BY <2>8, Spots DEF Holds
      <3> QED BY <2>2, <2>8, <3>1 DEF Moves, Goes
    <2> QED BY <2>3, <2>4, <2>5, <2>6, <2>7, <2>8, Spots
  <1>2. Moved(M, p, q)
    BY <1>1 DEF Moved
  <1>3. sent' = sent \union M /\ \A e \in M : (p \in Place /\ Holds(p, e)) \/ e \notin sent
    BY DEF Conserved
  <1> QED BY <1>2, <1>3, MovedConserves

LEMMA Unrepeats ==
  ASSUME EventInv
  PROVE  /\ \A i \in Info : Distinct(mailbox[i])
         /\ \A s \in Sched, i \in Info : Distinct(pending_events[s][i])
         /\ \A s \in Sched : QueueOnce(s)
PROOF BY DEF EventInv, Unrepeated, QueueOnce

(* An event that is somewhere has been sent, and is nowhere else. *)
LEMMA OnlyThere ==
  ASSUME EventInv, NEW p \in Place, NEW e \in Event, Holds(p, e)
  PROVE  /\ e \in sent
         /\ \A q \in Place : Holds(q, e) => q = p
PROOF BY DEF EventInv, Conserved

(* A call that finds its actor here is for the actor that is there. *)
LEMMA CalledHere ==
  ASSUME ConstantsAssumption, IInv, EventInv, NEW s \in Sched, NEW e \in Event, Called(s, e),
         sched_id_[e.to.info] = Owner(s)
  PROVE  e.to = IdOf(e.to.info) /\ e.to.info \in Info /\ e.to.info \in alive
PROOF
  <1>1. e.to \in Id /\ e.to.info \in Info
    BY DEF Event, Id
  <1>2. IsAlive(e.to)
    BY DEF EventInv, Addressed
  <1>3. e.to = IdOf(e.to.info)
    BY <1>1, <1>2 DEF IsAlive, IdOf, Id
  <1>4. e.to.info \in alive
    BY <1>1, Ids DEF IInv, Owning, InSlot, ConstantsAssumption
  <1> QED BY <1>1, <1>3, <1>4

(* The first event of a mailbox is handled. *)
LEMMA FirstHandled ==
  ASSUME ConstantsAssumption, IInv, EventInv, NEW i \in Info, i \in alive, mailbox[i] # <<>>,
         mailbox' = [mailbox EXCEPT ![i] = Tail(@)],
         handled' = handled \union {Head(mailbox[i])},
         UNCHANGED <<generation, alive, sched_id_, sent, dropped, pending_events, inbound, call>>,
         TornInv'
  PROVE  EventInv'
PROOF
  <1>1. mailbox \in [Info -> Seq(Event)] /\ mailbox[i] \in Seq(Event)
    BY DEF IInv, Types
  <1>2. /\ Tail(mailbox[i]) \in Seq(Event) /\ Head(mailbox[i]) \in Event
        /\ ToSet(mailbox[i]) = ToSet(Tail(mailbox[i])) \union {Head(mailbox[i])}
    BY <1>1, Tailed
  <1>3. PICK e \in Event : e = Head(mailbox[i])
    BY <1>2
  <1>4. PICK rest : rest = Tail(mailbox[i])
    OBVIOUS
  <1>5. /\ mailbox'[i] = rest /\ \A j \in Info \ {i} : mailbox'[j] = mailbox[j]
        /\ handled' = handled \union {e}
    BY <1>1, <1>3, <1>4
  <1>6. Distinct(rest) /\ ToSet(rest) = ToSet(mailbox[i]) \ {e} /\ e \in ToSet(mailbox[i])
    <2>1. Distinct(mailbox[i])
      BY Unrepeats
    <2> QED BY <1>1, <1>2, <1>3, <1>4, <2>1, DistinctTail
  <1>7. e.to = IdOf(i) /\ e.to.info = i
    BY <1>6 DEF EventInv, Addressed, IdOf
  <1>8. SentInv'
    BY SentKept DEF EventInv
  <1>9. Addressed'
    <2>1. ASSUME NEW j \in Info, NEW f \in ToSet(mailbox'[j]) PROVE f.to = IdOf(j)'
      <3>1. f \in ToSet(mailbox[j])
        BY <1>5, <1>6, <2>1
      <3> QED BY <3>1 DEF EventInv, Addressed, IdOf
    <2>2. ASSUME NEW t \in Sched, NEW j \in Info, NEW f \in ToSet(pending_events'[t][j])
          PROVE  f.to = IdOf(j)' /\ j \in alive' /\ sched_id_'[j] = InTransit(t)
      BY <2>2 DEF EventInv, Addressed, IdOf
    <2>3. ASSUME NEW t \in Sched, NEW f \in Event, Called(t, f)', sched_id_'[f.to.info] = Owner(t)
          PROVE  IsAlive(f.to)'
      BY <2>3 DEF EventInv, Addressed, IsAlive, Called
    <2>4. \A f \in dropped' : ~IsAlive(f.to)'
      BY DEF EventInv, Addressed, IsAlive
    <2> QED BY <2>1, <2>2, <2>3, <2>4 DEF Addressed
  <1>10. Conserved'
    <2>1. PICK p \in Place : p = Spot("mailbox", NoSched)
      BY Spots
    <2>2. PICK q \in Place : q = Spot("handled", NoSched)
      BY Spots
    <2>3. p.kind = "mailbox" /\ p.at = NoSched /\ q.kind = "handled" /\ q.at = NoSched
      BY <2>1, <2>2, Spots
    <2>4. Moves({e}, p, q)
      <3>1. ASSUME NEW f \in Event
            PROVE  f \in ToSet(mailbox'[f.to.info]) <=> f \in ToSet(mailbox[f.to.info]) /\ f # e
        <4>1. f.to.info \in Info
          BY DEF Event, Id
        <4>2. CASE f.to.info = i
          BY <1>5, <1>6, <4>2
        <4>3. CASE f.to.info # i
          BY <1>5, <1>7, <4>1, <4>3
        <4> QED BY <4>2, <4>3
      <3>2. \A t \in Sched, f \in Event : (Posted(t, f)' <=> Posted(t, f)) /\ (Called(t, f)' <=> Called(t, f))
        BY DEF Posted, Called
      <3> QED BY <1>5, <2>3, <3>1, <3>2 DEF Moves, Goes
    <2>5. \A f \in {e} : Holds(p, f)
      BY <1>6, <1>7, <2>3 DEF Holds
    <2>6. Types /\ Conserved /\ {e} \in SUBSET Event /\ sent' = sent
      BY DEF EventInv, IInv
    <2> QED BY <2>4, <2>5, <2>6, MovesConserve
  <1>11. Unrepeated'
    <2>1. ASSUME NEW j \in Info PROVE Distinct(mailbox'[j])
      BY <1>5, <1>6, Unrepeats
    <2>2. \A t \in Sched, j \in Info : Distinct(pending_events'[t][j])
      BY Unrepeats
    <2>3. \A t \in Sched : QueueOnce(t)'
      BY Unrepeats DEF QueueOnce
    <2> QED BY <2>1, <2>2, <2>3 DEF Unrepeated, QueueOnce, Distinct
  <1>12. StartInv'
    <2>1. \/ StartOf(IdOf(i), Home[i]) \in handled
          \/ e = StartOf(IdOf(i), Home[i])
      BY <1>3 DEF EventInv, StartInv
    <2>2. StartOf(IdOf(i), Home[i]) \in handled'
      BY <1>5, <2>1
    <2>3. \A f \in handled' : StartOf(f.to, Home[f.to.info]) \in handled'
      BY <1>5, <1>7, <2>2 DEF EventInv, StartInv
    <2>4. ASSUME NEW j \in alive'
          PROVE  \/ StartOf(IdOf(j), Home[j])' \in handled'
                 \/ mailbox'[j] # <<>> /\ Head(mailbox'[j]) = StartOf(IdOf(j), Home[j])'
      <3>1. alive' \subseteq Info /\ IdOf(j)' = IdOf(j)
        BY DEF IInv, Types, IdOf
      <3> QED BY <1>5, <2>2, <3>1 DEF EventInv, StartInv, StartOf
    <2> QED BY <2>3, <2>4 DEF StartInv, StartOf
  <1> QED BY <1>8, <1>9, <1>10, <1>11, <1>12 DEF EventInv

LEMMA FlushMailboxEvents ==
  ASSUME ConstantsAssumption, IInv, EventInv, NEW s \in Sched, FlushMailbox(s)
  PROVE  EventInv'
PROOF
  <1>1. PICK i : i = Head(batch[s])
    OBVIOUS
  <1>2. PICK n : n = Len(mailbox[i]) - 1
    OBVIOUS
  <1>3. /\ i \in Info /\ i \in alive /\ mailbox[i] # <<>> /\ mailbox[i] \in Seq(Event)
        /\ Enter(s, i, Head(mailbox[i]), n)
        /\ mailbox' = [mailbox EXCEPT ![i] = Tail(@)]
    BY <1>1, <1>2, FlushFinds
  <1>4. UNCHANGED <<generation, alive, sched_id_, pending_events, inbound, call, sent, dropped, torn>>
    BY DEF FlushMailbox, slotVars
  <1>5. PICK g \in EventGuard : g = Guard(i, n)
    <2>1. Len(mailbox[i]) \in Nat \ {0}
      BY <1>3, Tailed
    <2>2. n \in Nat
      BY <1>2, <2>1
    <2> QED BY <1>3, <2>2 DEF Guard, EventGuard
  <1>6. stack' = [stack EXCEPT ![s] = Append(@, g)] /\ handled' = handled \union {Head(mailbox[i])}
    BY <1>3, <1>5 DEF Enter
  <1>7. \A j \in Info : Down(j) => Down(j)'
    BY <1>6, DownPushed DEF IInv
  <1>8. TornInv'
    BY <1>4, <1>7, TornKept DEF EventInv, IInv, Types
  <1> QED BY <1>3, <1>4, <1>6, <1>8, FirstHandled

LEMMA NextEventEvents ==
  ASSUME ConstantsAssumption, IInv, EventInv, NEW s \in Sched, NextEvent(s)
  PROVE  EventInv'
PROOF
  <1>1. InHandler(s)
    BY DEF NextEvent, Done
  <1>2. PICK i \in Info : i = Innermost(s).info
    BY <1>1, DoneOf
  <1>3. /\ stack[s] # <<>> /\ Innermost(s) \in EventGuard /\ Innermost(s) = stack[s][Len(stack[s])]
        /\ i \in alive /\ Innermost(s).left \in Nat /\ Innermost(s).left <= Len(mailbox[i])
        /\ mailbox[i] \in Seq(Event)
    BY <1>1, <1>2, DoneOf
  <1>4. PICK g : g = [Innermost(s) EXCEPT !.left = @ - 1]
    OBVIOUS
  <1>5. /\ Innermost(s).left > 0
        /\ stack' = [stack EXCEPT ![s][Len(stack[s])].left = @ - 1]
        /\ handled' = handled \union {Head(mailbox[i])}
        /\ mailbox' = [mailbox EXCEPT ![i] = Tail(@)]
    BY <1>2 DEF NextEvent
  <1>6. stack' = [stack EXCEPT ![s][Len(stack[s])] = g]
    BY <1>3, <1>4, <1>5
  <1>7. g \in EventGuard /\ g.info = Innermost(s).info /\ g.down = Innermost(s).down
    <2>1. Innermost(s).left - 1 \in Nat
      BY <1>3, <1>5
    <2> QED BY <1>3, <1>4, <2>1 DEF EventGuard
  <1>8. UNCHANGED <<generation, alive, sched_id_, pending_events, inbound, call, sent, dropped, torn>>
    BY DEF NextEvent, slotVars
  <1>9. mailbox[i] # <<>>
    BY <1>3, <1>5
  <1>10. TopBecomes(s, g)
    BY <1>3, <1>6, <1>7, TopChanged DEF IInv
  <1>11. \A j \in Info : Down(j) => Down(j)'
    BY <1>3, <1>7, <1>10, DownReplaced DEF IInv
  <1>12. TornInv'
    BY <1>8, <1>11, TornKept DEF EventInv, IInv, Types
  <1> QED BY <1>3, <1>5, <1>8, <1>9, <1>12, FirstHandled

(* The call of s is to send e to the actor in slot i. *)
Routing(s, i, e) == Called(s, e) /\ e = call[s].event /\ i = e.to.info

(* An Immediate send is run at once: Start has been handled. *)
LEMMA RunNowEvents ==
  ASSUME ConstantsAssumption, IInv, EventInv, NEW s \in Sched, NEW e \in Event, NEW i \in Info,
         Routing(s, i, e), mailbox[i] = <<>>, RunNow(s, i, e)
  PROVE  EventInv'
PROOF
  <1>1. /\ i \in alive /\ sched_id_[i] = Owner(s)
        /\ call[s].op = "send" /\ call' = [call EXCEPT ![s] = Idle]
        /\ UNCHANGED <<mailbox, generation, sched_id_, alive, pending_events, inbound, sent, dropped, torn>>
    BY DEF RunNow, slotVars
  <1>r. Called(s, e) /\ e = call[s].event /\ i = e.to.info
    BY DEF Routing
  <1>2. e.to = IdOf(i) /\ e.to.info = i
    BY <1>1, <1>r, CalledHere
  <1>3. PICK g \in EventGuard : g = Guard(i, 0)
    BY DEF Guard, EventGuard
  <1>4. stack' = [stack EXCEPT ![s] = Append(@, g)] /\ handled' = handled \union {e}
    BY <1>3 DEF Enter, RunNow
  <1>5. \A t \in Sched, f \in Event : Called(t, f)' <=> Called(t, f) /\ ~(t = s /\ f = e)
    BY <1>1, <1>r, SendEnds DEF IInv
  <1>6. SentInv'
    BY <1>1, SentKept DEF EventInv
  <1>7. Addressed'
    <2>1. \A t \in Sched, f \in Event : Called(t, f)' => Called(t, f)
      BY <1>5
    <2> QED BY <1>1, <2>1, AddressedKept DEF EventInv
  <1>8. Conserved'
    <2>1. PICK p \in Place : p = Spot("call", s)
      BY Spots
    <2>2. PICK q \in Place : q = Spot("handled", NoSched)
      BY Spots
    <2>3. p.kind = "call" /\ p.at = s /\ q.kind = "handled" /\ q.at = NoSched
      BY <2>1, <2>2, Spots
    <2>4. Moves({e}, p, q)
      <3>1. \A t \in Sched, f \in Event : Posted(t, f)' <=> Posted(t, f)
        BY <1>1 DEF Posted
      <3> QED BY <1>1, <1>4, <1>5, <2>3, <3>1 DEF Moves, Goes
    <2>5. \A f \in {e} : Holds(p, f)
      BY <1>r, <2>3 DEF Holds
    <2>6. Types /\ Conserved /\ {e} \in SUBSET Event /\ sent' = sent
      BY <1>1 DEF EventInv, IInv
    <2> QED BY <2>4, <2>5, <2>6, MovesConserve
  <1>9. Unrepeated'
    BY <1>1, Unrepeats DEF Unrepeated, QueueOnce, Distinct
  <1>10. StartInv'
    <2>1. StartOf(IdOf(i), Home[i]) \in handled
      BY <1>1 DEF EventInv, StartInv
    <2>2. \A f \in handled' : StartOf(f.to, Home[f.to.info]) \in handled'
      BY <1>2, <1>4, <2>1 DEF EventInv, StartInv
    <2>3. ASSUME NEW j \in alive'
          PROVE  \/ StartOf(IdOf(j), Home[j])' \in handled'
                 \/ mailbox'[j] # <<>> /\ Head(mailbox'[j]) = StartOf(IdOf(j), Home[j])'
      BY <1>1, <1>4 DEF EventInv, StartInv, StartOf, IdOf
    <2> QED BY <2>2, <2>3 DEF StartInv, StartOf
  <1>11. TornInv'
    <2>1. \A j \in Info : Down(j) => Down(j)'
      BY <1>4, DownPushed DEF IInv
    <2> QED BY <1>1, <2>1, TornKept DEF EventInv, IInv, Types
  <1> QED BY <1>6, <1>7, <1>8, <1>9, <1>10, <1>11 DEF EventInv

LEMMA PutInMailboxEvents ==
  ASSUME ConstantsAssumption, IInv, EventInv, NEW s \in Sched, NEW e \in Event, NEW i \in Info,
         Routing(s, i, e), PutInMailbox(s, i, e)
  PROVE  EventInv'
PROOF
  <1>1. /\ i \in alive /\ sched_id_[i] = Owner(s)
        /\ call[s].op = "send" /\ call' = [call EXCEPT ![s] = Idle]
        /\ mailbox' = [mailbox EXCEPT ![i] = Append(@, e)]
        /\ UNCHANGED <<stack, handled, generation, sched_id_, alive, pending_events, inbound, sent, dropped, torn>>
    BY DEF PutInMailbox, slotVars
  <1>r. Called(s, e) /\ e = call[s].event /\ i = e.to.info
    BY DEF Routing
  <1>2. e.to = IdOf(i) /\ e.to.info = i
    BY <1>1, <1>r, CalledHere
  <1>3. mailbox \in [Info -> Seq(Event)] /\ mailbox[i] \in Seq(Event)
    BY DEF IInv, Types
  <1>4. PICK mail : mail = Append(mailbox[i], e)
    OBVIOUS
  <1>5. /\ mailbox'[i] = mail /\ \A j \in Info \ {i} : mailbox'[j] = mailbox[j]
        /\ ToSet(mail) = ToSet(mailbox[i]) \union {e} /\ mail # <<>>
        /\ mailbox[i] # <<>> => Head(mail) = Head(mailbox[i])
    <2>1. mailbox'[i] = mail /\ \A j \in Info \ {i} : mailbox'[j] = mailbox[j]
      BY <1>1, <1>3, <1>4
    <2>2. ToSet(mail) = ToSet(mailbox[i]) \union {e} /\ mail # <<>>
      BY <1>3, <1>4, Appended
    <2>3. mailbox[i] # <<>> => Head(mail) = Head(mailbox[i])
      BY <1>3, <1>4, SMT
    <2> QED BY <2>1, <2>2, <2>3
  <1>6. \A t \in Sched, f \in Event : Called(t, f)' <=> Called(t, f) /\ ~(t = s /\ f = e)
    BY <1>1, <1>r, SendEnds DEF IInv
  <1>7. PICK p \in Place : p = Spot("call", s)
    BY Spots
  <1>8. PICK q \in Place : q = Spot("mailbox", NoSched)
    BY Spots
  <1>9. p.kind = "call" /\ p.at = s /\ q.kind = "mailbox" /\ q.at = NoSched /\ p # q
    BY <1>7, <1>8, Spots
  <1>10. Holds(p, e) /\ ~Holds(q, e)
    <2>1. Holds(p, e)
      BY <1>r, <1>9 DEF Holds
    <2> QED BY <1>9, <2>1, OnlyThere
  <1>11. e \notin ToSet(mailbox[i])
    BY <1>2, <1>9, <1>10 DEF Holds
  <1>12. SentInv'
    BY <1>1, SentKept DEF EventInv
  <1>13. Addressed'
    <2>1. ASSUME NEW j \in Info, NEW f \in ToSet(mailbox'[j]) PROVE f.to = IdOf(j)'
      <3>1. f \in ToSet(mailbox[j]) \/ (j = i /\ f = e)
        BY <1>5, <2>1
      <3>2. IdOf(j)' = IdOf(j)
        BY <1>1 DEF IdOf
      <3> QED BY <1>2, <3>1, <3>2 DEF EventInv, Addressed
    <2>2. ASSUME NEW t \in Sched, NEW j \in Info, NEW f \in ToSet(pending_events'[t][j])
          PROVE  f.to = IdOf(j)' /\ j \in alive' /\ sched_id_'[j] = InTransit(t)
      BY <1>1, <2>2 DEF EventInv, Addressed, IdOf
    <2>3. ASSUME NEW t \in Sched, NEW f \in Event, Called(t, f)', sched_id_'[f.to.info] = Owner(t)
          PROVE  IsAlive(f.to)'
      BY <1>1, <1>6, <2>3 DEF EventInv, Addressed, IsAlive
    <2>4. \A f \in dropped' : ~IsAlive(f.to)'
      BY <1>1 DEF EventInv, Addressed, IsAlive
    <2> QED BY <2>1, <2>2, <2>3, <2>4 DEF Addressed
  <1>14. Conserved'
    <2>1. Moves({e}, p, q)
      <3>1. ASSUME NEW f \in Event
            PROVE  f \in ToSet(mailbox'[f.to.info]) <=> f \in ToSet(mailbox[f.to.info]) \/ f = e
        <4>1. f.to.info \in Info
          BY DEF Event, Id
        <4>2. CASE f.to.info = i
          BY <1>5, <4>2
        <4>3. CASE f.to.info # i
          BY <1>2, <1>5, <4>1, <4>3
        <4> QED BY <4>2, <4>3
      <3>2. \A t \in Sched, f \in Event : Posted(t, f)' <=> Posted(t, f)
        BY <1>1 DEF Posted
      <3> QED BY <1>1, <1>6, <1>9, <3>1, <3>2 DEF Moves, Goes
    <2>2. Types /\ Conserved /\ {e} \in SUBSET Event /\ sent' = sent
      BY <1>1 DEF EventInv, IInv
    <2>3. \A f \in {e} : Holds(p, f)
      BY <1>10
    <2> QED BY <2>1, <2>2, <2>3, MovesConserve
  <1>15. Unrepeated'
    <2>1. ASSUME NEW j \in Info PROVE Distinct(mailbox'[j])
      <3>1. Distinct(mail)
        BY <1>3, <1>4, <1>11, Unrepeats, DistinctAppend
      <3> QED BY <1>5, <3>1, Unrepeats
    <2>2. \A t \in Sched, j \in Info : Distinct(pending_events'[t][j])
      BY <1>1, Unrepeats
    <2>3. \A t \in Sched : QueueOnce(t)'
      BY <1>1, Unrepeats DEF QueueOnce
    <2> QED BY <2>1, <2>2, <2>3 DEF Unrepeated, QueueOnce, Distinct
  <1>16. StartInv'
    <2>1. \A f \in handled' : StartOf(f.to, Home[f.to.info]) \in handled'
      BY <1>1 DEF EventInv, StartInv
    <2>2. ASSUME NEW j \in alive'
          PROVE  \/ StartOf(IdOf(j), Home[j])' \in handled'
                 \/ mailbox'[j] # <<>> /\ Head(mailbox'[j]) = StartOf(IdOf(j), Home[j])'
      <3>1. j \in alive /\ j \in Info /\ StartOf(IdOf(j), Home[j])' = StartOf(IdOf(j), Home[j])
        BY <1>1 DEF IInv, Types, IdOf, StartOf
      <3>2. \/ StartOf(IdOf(j), Home[j]) \in handled
            \/ mailbox[j] # <<>> /\ Head(mailbox[j]) = StartOf(IdOf(j), Home[j])
        BY <3>1 DEF EventInv, StartInv
      <3>3. mailbox[j] # <<>> => mailbox'[j] # <<>> /\ Head(mailbox'[j]) = Head(mailbox[j])
        BY <1>5, <3>1
      <3> QED BY <1>1, <3>1, <3>2, <3>3
    <2> QED BY <2>1, <2>2 DEF StartInv, StartOf
  <1>17. TornInv'
    BY <1>1, TornKept DEF EventInv, Down, IInv, Types
  <1> QED BY <1>12, <1>13, <1>14, <1>15, <1>16, <1>17 DEF EventInv

LEMMA RouteHereEvents ==
  ASSUME ConstantsAssumption, IInv, EventInv, NEW s \in Sched, RouteHere(s)
  PROVE  EventInv'
PROOF
  <1>1. call[s].op = "send" /\ call' = [call EXCEPT ![s] = Idle]
    BY DEF RouteHere
  <1>2. PICK e \in Event : e = call[s].event
    BY <1>1, Routed
  <1>3. PICK i \in Info : i = e.to.info
    BY DEF Event, Id
  <1>4. Routing(s, i, e)
    BY <1>1, <1>2, <1>3 DEF Called, Routing
  <1>5. sched_id_[i] = Owner(s) /\ i \in alive
    BY <1>1, <1>2, <1>3, Routed DEF RouteHere
  <1>6. CASE call[s].immediate /\ CanRunNow(i)
    <2>1. RunNow(s, i, e) /\ mailbox[i] = <<>>
      BY <1>1, <1>2, <1>3, <1>5, <1>6 DEF RouteHere, CanRunNow, RunNow
    <2> QED BY <1>4, <2>1, RunNowEvents
  <1>7. CASE ~(call[s].immediate /\ CanRunNow(i))
    <2>1. PutInMailbox(s, i, e)
      BY <1>1, <1>2, <1>3, <1>5, <1>7 DEF RouteHere, PutInMailbox
    <2> QED BY <1>4, <2>1, PutInMailboxEvents
  <1> QED BY <1>6, <1>7

(* The event waits for the actor, on the scheduler it is going to. *)
WaitHere(s, i, e) ==
  /\ call[s].op = "send" /\ call' = [call EXCEPT ![s] = Idle]
  /\ sched_id_[i] = InTransit(s) /\ IsAlive(e.to)
  /\ pending_events' = [pending_events EXCEPT ![s][i] = Append(@, e)]
  /\ UNCHANGED <<slotVars, runVars, inbound, stack, history>>

LEMMA WaitHereEvents ==
  ASSUME ConstantsAssumption, IInv, EventInv, NEW s \in Sched, NEW e \in Event, NEW i \in Info,
         Routing(s, i, e), WaitHere(s, i, e)
  PROVE  EventInv'
PROOF
  <1>1. /\ call[s].op = "send" /\ call' = [call EXCEPT ![s] = Idle]
        /\ sched_id_[i] = InTransit(s) /\ IsAlive(e.to)
        /\ pending_events' = [pending_events EXCEPT ![s][i] = Append(@, e)]
        /\ UNCHANGED <<stack, mailbox, handled, generation, sched_id_, alive, inbound, sent, dropped, torn>>
    BY DEF WaitHere, slotVars, runVars, history
  <1>r. Called(s, e) /\ e = call[s].event /\ i = e.to.info
    BY DEF Routing
  <1>2. e.to = IdOf(i) /\ e.to.info = i /\ i \in alive
    <2>1. e.to \in Id
      BY DEF Event
    <2>2. e.to = IdOf(i)
      BY <1>1, <1>r, <2>1 DEF Id, IdOf, IsAlive
    <2>3. i \in alive
      BY <1>1, Ids DEF IInv, Owning, InSlot
    <2> QED BY <1>r, <2>2, <2>3
  <1>3. pending_events[s] \in [Info -> Seq(Event)] /\ pending_events[s][i] \in Seq(Event)
    BY DEF IInv, Types
  <1>4. PICK mail : mail = Append(pending_events[s][i], e)
    OBVIOUS
  <1>5. /\ pending_events'[s][i] = mail
        /\ \A t \in Sched, j \in Info : t # s \/ j # i => pending_events'[t][j] = pending_events[t][j]
        /\ ToSet(mail) = ToSet(pending_events[s][i]) \union {e}
    <2>1. /\ pending_events'[s][i] = mail
          /\ \A t \in Sched, j \in Info : t # s \/ j # i => pending_events'[t][j] = pending_events[t][j]
      BY <1>1, <1>4 DEF IInv, Types
    <2>2. ToSet(mail) = ToSet(pending_events[s][i]) \union {e}
      BY <1>3, <1>4, Appended
    <2> QED BY <2>1, <2>2
  <1>6. \A t \in Sched, f \in Event : Called(t, f)' <=> Called(t, f) /\ ~(t = s /\ f = e)
    BY <1>1, <1>r, SendEnds DEF IInv
  <1>7. PICK p \in Place : p = Spot("call", s)
    BY Spots
  <1>8. PICK q \in Place : q = Spot("pending", s)
    BY Spots
  <1>9. p.kind = "call" /\ p.at = s /\ q.kind = "pending" /\ q.at = s /\ p # q
    BY <1>7, <1>8, Spots
  <1>10. Holds(p, e) /\ ~Holds(q, e)
    <2>1. Holds(p, e)
      BY <1>r, <1>9 DEF Holds
    <2> QED BY <1>9, <2>1, OnlyThere
  <1>11. e \notin ToSet(pending_events[s][i])
    BY <1>2, <1>9, <1>10 DEF Holds
  <1>12. SentInv'
    BY <1>1, SentKept DEF EventInv
  <1>13. Addressed'
    <2>1. \A j \in Info : IdOf(j)' = IdOf(j)
      BY <1>1 DEF IdOf
    <2>2. ASSUME NEW j \in Info, NEW f \in ToSet(mailbox'[j]) PROVE f.to = IdOf(j)'
      BY <1>1, <2>1, <2>2 DEF EventInv, Addressed
    <2>3. ASSUME NEW t \in Sched, NEW j \in Info, NEW f \in ToSet(pending_events'[t][j])
          PROVE  f.to = IdOf(j)' /\ j \in alive' /\ sched_id_'[j] = InTransit(t)
      <3>1. f \in ToSet(pending_events[t][j]) \/ (t = s /\ j = i /\ f = e)
        BY <1>5, <2>3
      <3>2. CASE f \in ToSet(pending_events[t][j])
        BY <1>1, <2>1, <3>2 DEF EventInv, Addressed
      <3>3. CASE t = s /\ j = i /\ f = e
        BY <1>1, <1>2, <2>1, <3>3
      <3> QED BY <3>1, <3>2, <3>3
    <2>4. ASSUME NEW t \in Sched, NEW f \in Event, Called(t, f)', sched_id_'[f.to.info] = Owner(t)
          PROVE  IsAlive(f.to)'
      BY <1>1, <1>6, <2>4 DEF EventInv, Addressed, IsAlive
    <2>5. \A f \in dropped' : ~IsAlive(f.to)'
      BY <1>1 DEF EventInv, Addressed, IsAlive
    <2> QED BY <2>2, <2>3, <2>4, <2>5 DEF Addressed
  <1>14. Conserved'
    <2>1. Moves({e}, p, q)
      <3>1. ASSUME NEW t \in Sched, NEW f \in Event
            PROVE  f \in ToSet(pending_events'[t][f.to.info]) <=>
                     f \in ToSet(pending_events[t][f.to.info]) \/ (t = s /\ f = e)
        <4>1. f.to.info \in Info
          BY DEF Event, Id
        <4>2. CASE t = s /\ f.to.info = i
          BY <1>5, <4>2
        <4>3. CASE t # s \/ f.to.info # i
          BY <1>2, <1>5, <4>1, <4>3
        <4> QED BY <4>2, <4>3
      <3>2. \A t \in Sched, f \in Event : Posted(t, f)' <=> Posted(t, f)
        BY <1>1 DEF Posted
      <3> QED BY <1>1, <1>6, <1>9, <3>1, <3>2 DEF Moves, Goes
    <2>2. Types /\ Conserved /\ {e} \in SUBSET Event /\ sent' = sent
      BY <1>1 DEF EventInv, IInv
    <2>3. \A f \in {e} : Holds(p, f)
      BY <1>10
    <2> QED BY <2>1, <2>2, <2>3, MovesConserve
  <1>15. Unrepeated'
    <2>1. \A j \in Info : Distinct(mailbox'[j])
      BY <1>1, Unrepeats
    <2>2. ASSUME NEW t \in Sched, NEW j \in Info PROVE Distinct(pending_events'[t][j])
      <3>1. Distinct(mail)
        BY <1>3, <1>4, <1>11, Unrepeats, DistinctAppend
      <3> QED BY <1>5, <3>1, Unrepeats
    <2>3. \A t \in Sched : QueueOnce(t)'
      BY <1>1, Unrepeats DEF QueueOnce
    <2> QED BY <2>1, <2>2, <2>3 DEF Unrepeated, QueueOnce, Distinct
  <1>16. StartInv'
    BY <1>1, StartKept DEF EventInv
  <1>17. TornInv'
    BY <1>1, TornKept DEF EventInv, Down, IInv, Types
  <1> QED BY <1>12, <1>13, <1>14, <1>15, <1>16, <1>17 DEF EventInv

LEMMA RouteToMigrantEvents ==
  ASSUME ConstantsAssumption, IInv, EventInv, NEW s \in Sched, RouteToMigrant(s)
  PROVE  EventInv'
PROOF
  <1>1. call[s].op = "send" /\ call[s] \in Call
    BY DEF RouteToMigrant, IInv, Types
  <1>2. PICK e \in Event : e = call[s].event
    BY <1>1 DEF Call, Idle
  <1>3. PICK i \in Info : i = e.to.info
    BY DEF Event, Id
  <1>4. Routing(s, i, e)
    BY <1>1, <1>2, <1>3 DEF Called, Routing
  <1>5. CASE IsAlive(e.to)
    <2>1. WaitHere(s, i, e)
      BY <1>1, <1>2, <1>3, <1>5 DEF RouteToMigrant, WaitHere
    <2> QED BY <1>4, <2>1, WaitHereEvents
  <1>6. CASE ~IsAlive(e.to)
    <2>1. UNCHANGED <<generation, alive, sched_id_, sent, handled, dropped, mailbox, pending_events, inbound,
                      call, torn, stack>>
      BY <1>2, <1>6 DEF RouteToMigrant, slotVars, runVars, history
    <2>2. TornInv'
      BY <2>1, TornKept DEF EventInv, Down, IInv, Types
    <2> QED BY <2>1, <2>2, QuietHere
  <1> QED BY <1>5, <1>6

LEMMA RouteAwayEvents ==
  ASSUME ConstantsAssumption, IInv, EventInv, NEW s \in Sched, RouteAway(s)
  PROVE  EventInv'
PROOF
  <1>1. /\ call[s].op = "send" /\ call[s] \in Call /\ call' = [call EXCEPT ![s] = Idle]
        /\ UNCHANGED <<mailbox, handled, generation, sched_id_, alive, pending_events, sent, stack, torn>>
    BY DEF RouteAway, IInv, Types, slotVars, runVars
  <1>2. PICK e \in Event : e = call[s].event
    BY <1>1 DEF Call, Idle
  <1>3. PICK i \in Info : i = e.to.info
    BY DEF Event, Id
  <1>4. PICK d : d = sched_id_[i].dest
    OBVIOUS
  <1>5. /\ d \in Sched => inbound' = [inbound EXCEPT ![d] = Append(@, [op |-> "event", event |-> e])] /\ dropped' = dropped
        /\ d \notin Sched => dropped' = dropped \union {e} /\ inbound' = inbound
    BY <1>2, <1>3, <1>4 DEF RouteAway
  <1>6. Called(s, e)
    BY <1>1, <1>2 DEF Called
  <1>7. \A t \in Sched, f \in Event : Called(t, f)' <=> Called(t, f) /\ ~(t = s /\ f = e)
    BY <1>1, <1>2, SendEnds DEF IInv
  <1>8. PICK p \in Place : p = Spot("call", s)
    BY Spots
  <1>9. p.kind = "call" /\ p.at = s
    BY <1>8, Spots
  <1>10. Holds(p, e)
    BY <1>6, <1>9 DEF Holds
  <1>11. SentInv' /\ StartInv' /\ TornInv'
    BY <1>1, SentKept, StartKept, TornKept DEF EventInv, Down, IInv, Types
  <1>12. d \notin Sched => ~IsAlive(e.to)
    <2>1. e \in sent
      BY <1>10, OnlyThere
    <2>2. d \notin Sched => i \notin alive
      BY <1>4 DEF IInv, Owning, InSlot
    <2>3. d \notin Sched => e.to.gen < generation[i]
      BY <1>3, <2>1, <2>2 DEF EventInv, SentInv
    <2>4. e.to.gen \in Nat /\ generation[i] \in Nat
      BY DEF Event, Id, IInv, Types
    <2> QED BY <1>3, <2>3, <2>4 DEF IsAlive
  <1>13. Addressed'
    <2>1. \A j \in Info : \A f \in ToSet(mailbox'[j]) : f.to = IdOf(j)'
      BY <1>1 DEF EventInv, Addressed, IdOf
    <2>2. ASSUME NEW t \in Sched, NEW j \in Info, NEW f \in ToSet(pending_events'[t][j])
          PROVE  f.to = IdOf(j)' /\ j \in alive' /\ sched_id_'[j] = InTransit(t)
      BY <1>1, <2>2 DEF EventInv, Addressed, IdOf
    <2>3. ASSUME NEW t \in Sched, NEW f \in Event, Called(t, f)', sched_id_'[f.to.info] = Owner(t)
          PROVE  IsAlive(f.to)'
      BY <1>1, <1>7, <2>3 DEF EventInv, Addressed, IsAlive
    <2>4. \A f \in dropped' : ~IsAlive(f.to)'
      BY <1>1, <1>5, <1>12 DEF EventInv, Addressed, IsAlive
    <2> QED BY <2>1, <2>2, <2>3, <2>4 DEF Addressed
  <1>14. Types /\ Conserved /\ {e} \in SUBSET Event /\ sent' = sent /\ \A f \in {e} : Holds(p, f)
    BY <1>1, <1>10 DEF EventInv, IInv
  <1>15. CASE d \in Sched
    <2>1. PICK x : x = [op |-> "event", event |-> e]
      OBVIOUS
    <2>2. x \in Entry /\ x.op = "event" /\ x.event = e
      BY <2>1 DEF Entry
    <2>3. PICK q \in Place : q = Spot("inbound", d)
      BY <1>15, Spots
    <2>4. q.kind = "inbound" /\ q.at = d /\ p # q
      BY <1>9, <2>3, Spots
    <2>5. ~Posted(d, e)
      BY <1>10, <2>4, OnlyThere DEF Holds
    <2>6. /\ \A t \in Sched : QueueOnce(t)'
          /\ \A t \in Sched, f \in Event : Posted(t, f)' <=> Posted(t, f) \/ (t = d /\ x.op = "event" /\ x.event = f)
      <3>1. /\ inbound' = [inbound EXCEPT ![d] = Append(@, x)] /\ \A t \in Sched : QueueOnce(t)
            /\ x.op = "event" => ~Posted(d, x.event)
        BY <1>5, <1>15, <2>1, <2>2, <2>5, Unrepeats
      <3> QED BY <1>15, <2>2, <3>1, PostedPut DEF IInv
    <2>7. Moves({e}, p, q)
      BY <1>1, <1>5, <1>7, <1>9, <1>15, <2>2, <2>4, <2>6 DEF Moves, Goes
    <2>8. Conserved'
      BY <1>14, <2>7, MovesConserve
    <2>9. Unrepeated'
      BY <1>1, <2>6, Unrepeats DEF Unrepeated, QueueOnce, Distinct
    <2> QED BY <1>11, <1>13, <2>8, <2>9 DEF EventInv
  <1>16. CASE d \notin Sched
    <2>1. PICK q \in Place : q = Spot("dropped", NoSched)
      BY Spots
    <2>2. q.kind = "dropped" /\ q.at = NoSched
      BY <2>1, Spots
    <2>3. \A t \in Sched, f \in Event : Posted(t, f)' <=> Posted(t, f)
      BY <1>5, <1>16 DEF Posted
    <2>4. Moves({e}, p, q)
      BY <1>1, <1>5, <1>7, <1>9, <1>16, <2>2, <2>3 DEF Moves, Goes
    <2>5. Conserved'
      BY <1>14, <2>4, MovesConserve
    <2>6. Unrepeated'
      BY <1>1, <1>5, <1>16, Unrepeats DEF Unrepeated, QueueOnce, Distinct
    <2> QED BY <1>11, <1>13, <2>5, <2>6 DEF EventInv
  <1> QED BY <1>15, <1>16

LEMMA ReceiveEventEvents ==
  ASSUME ConstantsAssumption, IInv, EventInv, NEW s \in Sched, ReceiveEvent(s)
  PROVE  EventInv'
PROOF
  <1>1. /\ UNCHANGED <<mailbox, handled, generation, sched_id_, alive, pending_events, sent, stack, torn>>
        /\ call[s] = Idle /\ inbound[s] # <<>> /\ Head(inbound[s]).op = "event"
        /\ inbound' = [inbound EXCEPT ![s] = Tail(@)]
    BY DEF ReceiveEvent, Free, slotVars, runVars
  <1>2. PICK e \in Event : e = Head(inbound[s]).event
    <2>1. Head(inbound[s]) \in Entry
      BY <1>1, EntryTaken DEF IInv
    <2> QED BY <1>1, <2>1 DEF Entry
  <1>3. /\ IsAlive(e.to) => /\ call' = [call EXCEPT ![s] = [op |-> "send", event |-> e, immediate |-> TRUE]]
                            /\ dropped' = dropped
        /\ ~IsAlive(e.to) => call' = call /\ dropped' = dropped \union {e}
    BY <1>2 DEF ReceiveEvent
  <1>4. /\ \A t \in Sched : QueueOnce(t)'
        /\ \A t \in Sched, f \in Event : Posted(t, f)' <=> Posted(t, f) /\ ~(t = s /\ f = e)
        /\ Posted(s, e)
    <2>1. \A t \in Sched : QueueOnce(t)
      BY Unrepeats
    <2>2. /\ \A t \in Sched : QueueOnce(t)'
          /\ \A t \in Sched, f \in Event :
               Posted(t, f)' <=> Posted(t, f) /\ ~(t = s /\ Head(inbound[s]).op = "event" /\ Head(inbound[s]).event = f)
          /\ Posted(s, Head(inbound[s]).event)
      BY <1>1, <2>1, PostedTaken DEF IInv
    <2> QED BY <1>1, <1>2, <2>2
  <1>5. PICK p \in Place : p = Spot("inbound", s)
    BY Spots
  <1>6. p.kind = "inbound" /\ p.at = s
    BY <1>5, Spots
  <1>7. Types /\ Conserved /\ {e} \in SUBSET Event /\ sent' = sent /\ \A f \in {e} : Holds(p, f)
    BY <1>1, <1>4, <1>6 DEF EventInv, IInv, Holds
  <1>8. SentInv' /\ StartInv' /\ TornInv'
    BY <1>1, SentKept, StartKept, TornKept DEF EventInv, Down, IInv, Types
  <1>9. Unrepeated'
    BY <1>1, <1>4, Unrepeats DEF Unrepeated, QueueOnce, Distinct
  <1>10. /\ \A j \in Info : \A f \in ToSet(mailbox'[j]) : f.to = IdOf(j)'
         /\ \A t \in Sched, j \in Info : \A f \in ToSet(pending_events'[t][j]) :
              f.to = IdOf(j)' /\ j \in alive' /\ sched_id_'[j] = InTransit(t)
    <2>1. \A j \in Info : \A f \in ToSet(mailbox'[j]) : f.to = IdOf(j)'
      BY <1>1 DEF EventInv, Addressed, IdOf
    <2>2. ASSUME NEW t \in Sched, NEW j \in Info, NEW f \in ToSet(pending_events'[t][j])
          PROVE  f.to = IdOf(j)' /\ j \in alive' /\ sched_id_'[j] = InTransit(t)
      BY <1>1, <2>2 DEF EventInv, Addressed, IdOf
    <2> QED BY <2>1, <2>2
  <1>11. CASE IsAlive(e.to)
    <2>1. \A t \in Sched, f \in Event : Called(t, f)' <=> Called(t, f) \/ (t = s /\ f = e)
      BY <1>1, <1>3, <1>11, SendBegins DEF IInv
    <2>2. PICK q \in Place : q = Spot("call", s)
      BY Spots
    <2>3. q.kind = "call" /\ q.at = s
      BY <2>2, Spots
    <2>4. Moves({e}, p, q)
      BY <1>1, <1>3, <1>4, <1>6, <1>11, <2>1, <2>3 DEF Moves, Goes
    <2>5. Conserved'
      BY <1>7, <2>4, MovesConserve
    <2>6. ASSUME NEW t \in Sched, NEW f \in Event, Called(t, f)', sched_id_'[f.to.info] = Owner(t)
          PROVE  IsAlive(f.to)'
      BY <1>1, <1>11, <2>1, <2>6 DEF EventInv, Addressed, IsAlive
    <2>7. \A f \in dropped' : ~IsAlive(f.to)'
      BY <1>1, <1>3, <1>11 DEF EventInv, Addressed, IsAlive
    <2>8. Addressed'
      BY <1>10, <2>6, <2>7 DEF Addressed
    <2> QED BY <1>8, <1>9, <2>5, <2>8 DEF EventInv
  <1>12. CASE ~IsAlive(e.to)
    <2>1. \A t \in Sched, f \in Event : Called(t, f)' <=> Called(t, f)
      BY <1>3, <1>12 DEF Called
    <2>2. PICK q \in Place : q = Spot("dropped", NoSched)
      BY Spots
    <2>3. q.kind = "dropped" /\ q.at = NoSched
      BY <2>2, Spots
    <2>4. Moves({e}, p, q)
      BY <1>1, <1>3, <1>4, <1>6, <1>12, <2>1, <2>3 DEF Moves, Goes
    <2>5. Conserved'
      BY <1>7, <2>4, MovesConserve
    <2>6. ASSUME NEW t \in Sched, NEW f \in Event, Called(t, f)', sched_id_'[f.to.info] = Owner(t)
          PROVE  IsAlive(f.to)'
      BY <1>1, <2>1, <2>6 DEF EventInv, Addressed, IsAlive
    <2>7. \A f \in dropped' : ~IsAlive(f.to)'
      BY <1>1, <1>3, <1>12 DEF EventInv, Addressed, IsAlive
    <2>8. Addressed'
      BY <1>10, <2>6, <2>7 DEF Addressed
    <2> QED BY <1>8, <1>9, <2>5, <2>8 DEF EventInv
  <1> QED BY <1>11, <1>12

(* A new message is the next of its thread. *)
LEMMA MessageSent ==
  ASSUME Types, SentInv, NEW s \in Sched, NEW e \in Event, NEW i \in Info, i \in alive,
         e.kind = "msg", e.src = s, e.to = IdOf(i), e.n = Cardinality(SentBy(s)) + 1,
         sent' = sent \union {e}, UNCHANGED <<generation, alive>>
  PROVE  e \notin sent /\ SentInv'
PROOF
  <1>1. /\ IsFiniteSet(SentBy(s)) /\ Cardinality(SentBy(s)) \in Nat
        /\ \A t \in Sched : Cardinality(SentBy(t)) \in Nat
    <2>1. \A t \in Sched : SentBy(t) \subseteq sent
      BY DEF SentBy
    <2>2. \A t \in Sched : IsFiniteSet(SentBy(t)) /\ Cardinality(SentBy(t)) \in Nat
      BY <2>1, FS_Subset, FS_CardinalityType DEF Types
    <2> QED BY <2>2
  <1>2. e \notin sent
    BY <1>1 DEF SentInv
  <1>3. Cardinality(SentBy(s))' = Cardinality(SentBy(s)) + 1
    <2>1. SentBy(s)' = SentBy(s) \union {e} /\ e \notin SentBy(s)
      BY <1>2 DEF SentBy
    <2> QED BY <1>1, <2>1, FS_AddElement
  <1>4. ASSUME NEW t \in Sched, t # s PROVE SentBy(t)' = SentBy(t)
    BY <1>4 DEF SentBy
  <1>5. ASSUME NEW f \in sent'
        PROVE  /\ \/ f.to.gen < generation'[f.to.info]
                  \/ f.to = IdOf(f.to.info)' /\ f.to.info \in alive'
               /\ IF f.kind = "start" THEN f = StartOf(f.to, Home[f.to.info])
                                      ELSE f.n <= Cardinality(SentBy(f.src))'
    <2>1. CASE f = e
      <3>1. e.to.info = i /\ IdOf(i)' = IdOf(i)
        BY DEF IdOf
      <3>2. f.n <= Cardinality(SentBy(f.src))'
        BY <1>1, <1>3, <2>1
      <3> QED BY <2>1, <3>1, <3>2
    <2>2. CASE f \in sent
      <3>1. \/ f.to.gen < generation[f.to.info]
            \/ f.to = IdOf(f.to.info) /\ f.to.info \in alive
        BY <2>2 DEF SentInv
      <3>2. IdOf(f.to.info)' = IdOf(f.to.info)
        BY DEF IdOf
      <3>3. CASE f.kind = "start"
        BY <2>2, <3>1, <3>2, <3>3 DEF SentInv
      <3>4. CASE f.kind # "start"
        <4>1. f.n <= Cardinality(SentBy(f.src)) /\ f.src \in Sched /\ f.n \in Nat
          BY <2>2, <3>4 DEF SentInv, Types, Event
        <4>2. CASE f.src = s
          BY <1>1, <1>3, <3>1, <3>2, <3>4, <4>1, <4>2
        <4>3. CASE f.src # s
          <5>1. Cardinality(SentBy(f.src))' = Cardinality(SentBy(f.src))
            BY <1>4, <4>1, <4>3
          <5> QED BY <3>1, <3>2, <3>4, <4>1, <5>1
        <4> QED BY <4>2, <4>3
      <3> QED BY <3>3, <3>4
    <2> QED BY <1>5, <2>1, <2>2
  <1>6. SentInv'
    BY <1>5 DEF SentInv
  <1> QED BY <1>2, <1>6

LEMMA SendEvents ==
  ASSUME ConstantsAssumption, IInv, EventInv, NEW s \in Sched, NEW i \in Info, NEW immediate \in BOOLEAN,
         Send(s, i, immediate)
  PROVE  EventInv'
PROOF
  <1>1. /\ UNCHANGED <<mailbox, handled, dropped, generation, sched_id_, alive, pending_events, inbound, stack, torn>>
        /\ call[s] = Idle /\ i \in alive
    BY DEF Send, InHandler, slotVars, runVars
  <1>2. PICK n : n = Cardinality(SentBy(s)) + 1
    OBVIOUS
  <1>3. PICK e : e = [kind |-> "msg", to |-> IdOf(i), src |-> s, n |-> n]
    OBVIOUS
  <1>4. e \in Event
    <2>1. IdOf(i) \in Id
      BY DEF IdOf, Id, IInv, Types
    <2>2. SentBy(s) \subseteq sent /\ IsFiniteSet(sent)
      BY DEF SentBy, IInv, Types
    <2>3. Cardinality(SentBy(s)) \in Nat
      BY <2>2, FS_Subset, FS_CardinalityType
    <2>4. n \in 0..MaxSends
      BY <1>2, <2>3 DEF Send, ConstantsAssumption
    <2> QED BY <1>3, <2>1, <2>4 DEF Event
  <1>5. /\ sent' = sent \union {e}
        /\ call' = [call EXCEPT ![s] = [op |-> "send", event |-> e, immediate |-> immediate]]
    BY <1>2, <1>3 DEF Send
  <1>6. e.kind = "msg" /\ e.src = s /\ e.to = IdOf(i) /\ e.n = n
    BY <1>3
  <1>7. e \notin sent /\ SentInv'
    <2>1. Types /\ SentInv /\ i \in alive /\ UNCHANGED <<generation, alive>>
          /\ e.kind = "msg" /\ e.src = s /\ e.to = IdOf(i) /\ e.n = Cardinality(SentBy(s)) + 1
          /\ sent' = sent \union {e}
      BY <1>1, <1>2, <1>5, <1>6 DEF IInv, EventInv
    <2> QED BY <1>4, <2>1, MessageSent
  <1>8. \A t \in Sched, f \in Event : Called(t, f)' <=> Called(t, f) \/ (t = s /\ f = e)
    BY <1>1, <1>4, <1>5, SendBegins DEF IInv
  <1>9. StartInv' /\ TornInv'
    BY <1>1, StartKept, TornKept DEF EventInv, Down, IInv, Types
  <1>10. Unrepeated'
    BY <1>1, Unrepeats DEF Unrepeated, QueueOnce, Distinct
  <1>11. Addressed'
    <2>1. \A j \in Info : \A f \in ToSet(mailbox'[j]) : f.to = IdOf(j)'
      BY <1>1 DEF EventInv, Addressed, IdOf
    <2>2. ASSUME NEW t \in Sched, NEW j \in Info, NEW f \in ToSet(pending_events'[t][j])
          PROVE  f.to = IdOf(j)' /\ j \in alive' /\ sched_id_'[j] = InTransit(t)
      BY <1>1, <2>2 DEF EventInv, Addressed, IdOf
    <2>3. IsAlive(e.to)
      BY <1>6 DEF IsAlive, IdOf
    <2>4. ASSUME NEW t \in Sched, NEW f \in Event, Called(t, f)', sched_id_'[f.to.info] = Owner(t)
          PROVE  IsAlive(f.to)'
      BY <1>1, <1>8, <2>3, <2>4 DEF EventInv, Addressed, IsAlive
    <2>5. \A f \in dropped' : ~IsAlive(f.to)'
      BY <1>1 DEF EventInv, Addressed, IsAlive
    <2> QED BY <2>1, <2>2, <2>4, <2>5 DEF Addressed
  <1>12. Conserved'
    <2>1. PICK q \in Place : q = Spot("call", s)
      BY Spots
    <2>2. PICK p \in Place \union {Nowhere} : p = Nowhere
      OBVIOUS
    <2>3. p.kind = "nowhere" /\ q.kind = "call" /\ q.at = s
      BY <2>1, <2>2, Spots DEF Nowhere
    <2>4. Moves({e}, p, q)
      <3>1. \A t \in Sched, f \in Event : Posted(t, f)' <=> Posted(t, f)
        BY <1>1 DEF Posted
      <3> QED BY <1>1, <1>8, <2>3, <3>1 DEF Moves, Goes
    <2>5. Types /\ Conserved /\ {e} \in SUBSET Event /\ sent' = sent \union {e} /\ \A f \in {e} : f \notin sent
      BY <1>4, <1>5, <1>7 DEF IInv, EventInv
    <2> QED BY <2>4, <2>5, MovesConserve
  <1> QED BY <1>7, <1>9, <1>10, <1>11, <1>12 DEF EventInv

LEMMA Joined ==
  ASSUME NEW S, NEW q \in Seq(S), NEW r \in Seq(S), Distinct(q), Distinct(r), ToSet(q) \intersect ToSet(r) = {}
  PROVE  /\ ToSet(q \o r) = ToSet(q) \union ToSet(r) /\ Distinct(q \o r)
         /\ q # <<>> => q \o r # <<>> /\ Head(q \o r) = Head(q)
PROOF
  <1>1. /\ q \o r \in Seq(S) /\ Len(q \o r) = Len(q) + Len(r)
        /\ \A k \in 1..Len(q) + Len(r) : (q \o r)[k] = IF k <= Len(q) THEN q[k] ELSE r[k - Len(q)]
        /\ Len(q) \in Nat /\ Len(r) \in Nat
        /\ DOMAIN q = 1..Len(q) /\ DOMAIN r = 1..Len(r) /\ DOMAIN (q \o r) = 1..Len(q \o r)
    BY ConcatProperties, LenProperties
  <1>2. PICK c : c = q \o r
    OBVIOUS
  <1>3. \A k \in 1..Len(q) + Len(r) :
          \/ k \in 1..Len(q) /\ c[k] = q[k]
          \/ ~(k \in 1..Len(q)) /\ k - Len(q) \in 1..Len(r) /\ c[k] = r[k - Len(q)]
    BY <1>1, <1>2
  <1>4. \A k \in 1..Len(q) : k \in 1..Len(q) + Len(r) /\ c[k] = q[k]
    BY <1>1, <1>2
  <1>5. \A k \in 1..Len(r) : Len(q) + k \in 1..Len(q) + Len(r) /\ c[Len(q) + k] = r[k]
    BY <1>1, <1>2
  <1>6. ToSet(c) = ToSet(q) \union ToSet(r)
    <2>1. ASSUME NEW x \in ToSet(c) PROVE x \in ToSet(q) \union ToSet(r)
      <3>1. PICK k \in 1..Len(q) + Len(r) : x = c[k]
        BY <1>1, <1>2 DEF ToSet
      <3> QED BY <1>1, <1>3, <3>1 DEF ToSet
    <2>2. ASSUME NEW x \in ToSet(q) PROVE x \in ToSet(c)
      <3>1. PICK k \in 1..Len(q) : x = q[k]
        BY <1>1 DEF ToSet
      <3> QED BY <1>1, <1>2, <1>4, <3>1 DEF ToSet
    <2>3. ASSUME NEW x \in ToSet(r) PROVE x \in ToSet(c)
      <3>1. PICK k \in 1..Len(r) : x = r[k]
        BY <1>1 DEF ToSet
      <3> QED BY <1>1, <1>2, <1>5, <3>1 DEF ToSet
    <2> QED BY <2>1, <2>2, <2>3
  <1>7. Distinct(c)
    <2> SUFFICES ASSUME NEW j \in 1..Len(q) + Len(r), NEW k \in 1..Len(q) + Len(r), c[j] = c[k]
                 PROVE  j = k
      BY <1>1, <1>2 DEF Distinct
    <2>1. CASE j \in 1..Len(q) /\ k \in 1..Len(q)
      BY <1>1, <1>4, <2>1 DEF Distinct
    <2>2. CASE ~(j \in 1..Len(q)) /\ ~(k \in 1..Len(q))
      <3>1. j - Len(q) = k - Len(q)
        BY <1>1, <1>3, <2>2 DEF Distinct
      <3> QED BY <1>1, <3>1
    <2>3. CASE j \in 1..Len(q) /\ ~(k \in 1..Len(q))
      <3>1. c[j] \in ToSet(q) /\ c[k] \in ToSet(r)
        BY <1>1, <1>3, <2>3 DEF ToSet
      <3> QED BY <3>1
    <2>4. CASE ~(j \in 1..Len(q)) /\ k \in 1..Len(q)
      <3>1. c[k] \in ToSet(q) /\ c[j] \in ToSet(r)
        BY <1>1, <1>3, <2>4 DEF ToSet
      <3> QED BY <3>1
    <2> QED BY <2>1, <2>2, <2>3, <2>4
  <1>8. q # <<>> => c # <<>> /\ Head(c) = Head(q)
    <2> SUFFICES ASSUME q # <<>> PROVE c # <<>> /\ Head(c) = Head(q)
      OBVIOUS
    <2>1. Len(q) \in Nat \ {0} /\ Head(q) = q[1]
      BY Tailed
    <2>2. c \in Seq(S) /\ Len(c) # 0 /\ c[1] = q[1]
      BY <1>1, <1>2, <2>1
    <2> QED BY <2>1, <2>2, Tailed
  <1> QED BY <1>2, <1>6, <1>7, <1>8

LEMMA ReceiveActorEvents ==
  ASSUME ConstantsAssumption, IInv, EventInv, NEW s \in Sched, ReceiveActor(s)
  PROVE  EventInv'
PROOF
  <1>1. /\ inbound[s] # <<>> /\ Head(inbound[s]).op = "actor" /\ call[s] = Idle
        /\ inbound' = [inbound EXCEPT ![s] = Tail(@)]
    BY DEF ReceiveActor, Free
  <1>2. PICK i : i = Head(inbound[s]).info
    OBVIOUS
  <1>3. i \in Info /\ i \in alive /\ sched_id_[i] = InTransit(s)
    BY <1>1, <1>2, Arrived
  <1>4. PICK q \in Seq(Event), r \in Seq(Event) : q = mailbox[i] /\ r = pending_events[s][i]
    BY <1>3 DEF IInv, Types
  <1>5. PICK mail : mail = q \o r
    OBVIOUS
  <1>6. /\ sched_id_' = [sched_id_ EXCEPT ![i] = Owner(s)]
        /\ mailbox' = [mailbox EXCEPT ![i] = mail]
        /\ pending_events' = [pending_events EXCEPT ![s][i] = <<>>]
        /\ UNCHANGED <<generation, alive, stack, call, sent, handled, dropped, torn>>
    BY <1>2, <1>4, <1>5 DEF ReceiveActor, MailOnArrival, history
  <1>7. /\ sched_id_'[i] = Owner(s) /\ \A j \in Info \ {i} : sched_id_'[j] = sched_id_[j]
        /\ mailbox'[i] = mail /\ \A j \in Info \ {i} : mailbox'[j] = mailbox[j]
        /\ pending_events'[s][i] = <<>>
        /\ \A t \in Sched, j \in Info : t # s \/ j # i => pending_events'[t][j] = pending_events[t][j]
    BY <1>3, <1>6 DEF IInv, Types
  <1>8. PICK M : M = ToSet(r)
    OBVIOUS
  <1>9. M \in SUBSET Event /\ \A f \in M : f.to = IdOf(i) /\ f.to.info = i
    BY <1>3, <1>4, <1>8, Elements DEF EventInv, Addressed, IdOf
  <1>10. PICK p \in Place : p = Spot("pending", s)
    BY Spots
  <1>11. PICK o \in Place : o = Spot("mailbox", NoSched)
    BY Spots
  <1>12. p.kind = "pending" /\ p.at = s /\ o.kind = "mailbox" /\ o.at = NoSched /\ p # o
    BY <1>10, <1>11, Spots
  <1>13. \A f \in M : Holds(p, f) /\ ~Holds(o, f)
    <2>1. \A f \in M : Holds(p, f)
      BY <1>4, <1>8, <1>9, <1>12 DEF Holds
    <2> QED BY <1>9, <1>12, <2>1, OnlyThere
  <1>14. ToSet(q) \intersect ToSet(r) = {}
    BY <1>4, <1>8, <1>9, <1>12, <1>13 DEF Holds
  <1>15. /\ ToSet(mail) = ToSet(q) \union M /\ Distinct(mail)
         /\ q # <<>> => mail # <<>> /\ Head(mail) = Head(q)
    <2>1. Distinct(q) /\ Distinct(r)
      BY <1>3, <1>4, Unrepeats
    <2> QED BY <1>5, <1>8, <1>14, <2>1, Joined
  <1>16. /\ \A t \in Sched : QueueOnce(t)'
         /\ \A t \in Sched, f \in Event : Posted(t, f)' <=> Posted(t, f)
    <2>1. \A t \in Sched : QueueOnce(t)
      BY Unrepeats
    <2>2. /\ \A t \in Sched : QueueOnce(t)'
          /\ \A t \in Sched, f \in Event :
               Posted(t, f)' <=> Posted(t, f) /\ ~(t = s /\ Head(inbound[s]).op = "event" /\ Head(inbound[s]).event = f)
      BY <1>1, <2>1, PostedTaken DEF IInv
    <2> QED BY <1>1, <2>2
  <1>17. SentInv' /\ TornInv'
    BY <1>6, SentKept, TornKept DEF EventInv, Down, IInv, Types
  <1>18. Addressed'
    <2>1. \A j \in Info : IdOf(j)' = IdOf(j)
      BY <1>6 DEF IdOf
    <2>2. ASSUME NEW j \in Info, NEW f \in ToSet(mailbox'[j]) PROVE f.to = IdOf(j)'
      <3>1. f \in ToSet(mailbox[j]) \/ (j = i /\ f \in M)
        BY <1>4, <1>7, <1>15, <2>2
      <3> QED BY <1>9, <2>1, <3>1 DEF EventInv, Addressed
    <2>3. ASSUME NEW t \in Sched, NEW j \in Info, NEW f \in ToSet(pending_events'[t][j])
          PROVE  f.to = IdOf(j)' /\ j \in alive' /\ sched_id_'[j] = InTransit(t)
      <3>1. ~(t = s /\ j = i)
        <4>1. ToSet(<<>>) = {}
          BY DEF ToSet
        <4> QED BY <1>7, <2>3, <4>1
      <3>2. f \in ToSet(pending_events[t][j])
        BY <1>7, <2>3, <3>1
      <3>3. f.to = IdOf(j) /\ j \in alive /\ sched_id_[j] = InTransit(t)
        BY <3>2 DEF EventInv, Addressed
      <3>4. j # i
        BY <1>3, <3>1, <3>3, Ids
      <3> QED BY <1>6, <1>7, <2>1, <3>3, <3>4
    <2>4. ASSUME NEW t \in Sched, NEW f \in Event, Called(t, f)', sched_id_'[f.to.info] = Owner(t)
          PROVE  IsAlive(f.to)'
      <3>1. Called(t, f) /\ f.to.info \in Info
        BY <1>6, <2>4 DEF Called, Event, Id
      <3>2. f.to.info # i
        BY <1>1, <1>7, <2>4, <3>1, Ids DEF Called, Idle
      <3> QED BY <1>6, <1>7, <2>4, <3>1, <3>2 DEF EventInv, Addressed, IsAlive
    <2>5. \A f \in dropped' : ~IsAlive(f.to)'
      BY <1>6 DEF EventInv, Addressed, IsAlive
    <2> QED BY <2>2, <2>3, <2>4, <2>5 DEF Addressed
  <1>19. Conserved'
    <2>1. Moves(M, p, o)
      <3>1. ASSUME NEW f \in Event
            PROVE  f \in ToSet(mailbox'[f.to.info]) <=> f \in ToSet(mailbox[f.to.info]) \/ f \in M
        <4>1. f.to.info \in Info
          BY DEF Event, Id
        <4>2. CASE f.to.info = i
          BY <1>4, <1>7, <1>15, <4>2
        <4>3. CASE f.to.info # i
          BY <1>7, <1>9, <4>1, <4>3
        <4> QED BY <4>2, <4>3
      <3>2. ASSUME NEW t \in Sched, NEW f \in Event
            PROVE  f \in ToSet(pending_events'[t][f.to.info]) <=>
                     f \in ToSet(pending_events[t][f.to.info]) /\ ~(f \in M /\ t = s)
        <4>1. f.to.info \in Info
          BY DEF Event, Id
        <4>2. CASE t = s /\ f.to.info = i
          <5>1. ToSet(<<>>) = {}
            BY DEF ToSet
          <5> QED BY <1>4, <1>7, <1>8, <4>2, <5>1
        <4>3. CASE t # s \/ f.to.info # i
          BY <1>7, <1>9, <4>1, <4>3
        <4> QED BY <4>2, <4>3
      <3>3. \A t \in Sched, f \in Event : Called(t, f)' <=> Called(t, f)
        BY <1>6 DEF Called
      <3> QED BY <1>6, <1>12, <1>16, <3>1, <3>2, <3>3 DEF Moves, Goes
    <2>2. Types /\ Conserved /\ sent' = sent /\ \A f \in M : Holds(p, f)
      BY <1>6, <1>13 DEF EventInv, IInv
    <2> QED BY <1>9, <2>1, <2>2, MovesConserve
  <1>20. Unrepeated'
    <2>1. ASSUME NEW j \in Info PROVE Distinct(mailbox'[j])
      BY <1>7, <1>15, Unrepeats
    <2>2. ASSUME NEW t \in Sched, NEW j \in Info PROVE Distinct(pending_events'[t][j])
      <3>1. Distinct(<<>>)
        BY DEF Distinct
      <3> QED BY <1>7, <3>1, Unrepeats
    <2> QED BY <1>16, <2>1, <2>2 DEF Unrepeated, QueueOnce, Distinct
  <1>21. StartInv'
    <2>1. \A f \in handled' : StartOf(f.to, Home[f.to.info]) \in handled'
      BY <1>6 DEF EventInv, StartInv
    <2>2. ASSUME NEW j \in alive'
          PROVE  \/ StartOf(IdOf(j), Home[j])' \in handled'
                 \/ mailbox'[j] # <<>> /\ Head(mailbox'[j]) = StartOf(IdOf(j), Home[j])'
      <3>1. j \in alive /\ j \in Info /\ StartOf(IdOf(j), Home[j])' = StartOf(IdOf(j), Home[j])
        BY <1>6 DEF IInv, Types, IdOf, StartOf
      <3>2. \/ StartOf(IdOf(j), Home[j]) \in handled
            \/ mailbox[j] # <<>> /\ Head(mailbox[j]) = StartOf(IdOf(j), Home[j])
        BY <3>1 DEF EventInv, StartInv
      <3>3. mailbox[j] # <<>> => mailbox'[j] # <<>> /\ Head(mailbox'[j]) = Head(mailbox[j])
        BY <1>4, <1>7, <1>15, <3>1
      <3> QED BY <1>6, <3>1, <3>2, <3>3
    <2> QED BY <2>1, <2>2 DEF StartInv, StartOf
  <1> QED BY <1>17, <1>18, <1>19, <1>20, <1>21 DEF EventInv

(* The actor is deleted with its mail, and its generation ends. *)
LEMMA DestroyActorEvents ==
  ASSUME ConstantsAssumption, IInv, EventInv, NEW s \in Sched, DestroyActor(s)
  PROVE  EventInv'
PROOF
  <1>1. InHandler(s)
    BY DEF DestroyActor
  <1>2. PICK i \in Info : i = Innermost(s).info
    BY <1>1, DoneOf
  <1>3. stack[s] # <<>> /\ i \in alive /\ sched_id_[i] = Owner(s) /\ mailbox[i] \in Seq(Event)
    BY <1>1, <1>2, DoneOf
  <1>4. PICK M \in SUBSET Event : M = ToSet(mailbox[i])
    BY <1>3, Elements
  <1>5. /\ dropped' = dropped \union M
        /\ mailbox' = [mailbox EXCEPT ![i] = <<>>]
        /\ generation' = [generation EXCEPT ![i] = @ + 1]
        /\ sched_id_' = [sched_id_ EXCEPT ![i] = Owner(NoSched)]
        /\ alive' = alive \ {i}
        /\ stack' = [stack EXCEPT ![s] = Front(@)]
        /\ UNCHANGED <<pending_events, inbound, call, sent, handled, torn>>
    BY <1>2, <1>4 DEF DestroyActor
  <1>6. /\ mailbox'[i] = <<>> /\ \A j \in Info \ {i} : mailbox'[j] = mailbox[j]
        /\ sched_id_'[i] = Owner(NoSched) /\ \A j \in Info \ {i} : sched_id_'[j] = sched_id_[j]
        /\ generation'[i] = generation[i] + 1 /\ \A j \in Info \ {i} : generation'[j] = generation[j]
    BY <1>5 DEF IInv, Types
  <1>7. \A j \in Info : generation[j] \in Nat
    BY DEF IInv, Types
  <1>8. \A j \in Info \ {i} : IdOf(j)' = IdOf(j)
    BY <1>6 DEF IdOf
  <1>9. sent \subseteq Event /\ \A f \in Event : f.to \in Id /\ f.to.info \in Info /\ f.to.gen \in Nat
    <2>1. sent \subseteq Event /\ MaxGen \in Nat
      BY DEF IInv, Types, ConstantsAssumption
    <2>2. \A f \in Event : f.to \in Id
      BY DEF Event
    <2>3. \A id \in Id : id.info \in Info /\ id.gen \in Nat
      BY <2>1 DEF Id
    <2> QED BY <2>1, <2>2, <2>3
  <1>10. \A f \in sent : f.to.info = i => f.to.gen < generation'[i]
    <2> SUFFICES ASSUME NEW f \in sent, f.to.info = i PROVE f.to.gen < generation'[i]
      OBVIOUS
    <2>1. f.to.gen < generation[i] \/ f.to = IdOf(i)
      BY DEF EventInv, SentInv
    <2>2. f.to.gen <= generation[i] /\ f.to.gen \in Nat
      BY <1>7, <1>9, <2>1 DEF IdOf
    <2> QED BY <1>6, <1>7, <2>2
  <1>11. SentInv'
    <2>1. ASSUME NEW f \in sent'
          PROVE  /\ \/ f.to.gen < generation'[f.to.info]
                    \/ f.to = IdOf(f.to.info)' /\ f.to.info \in alive'
                 /\ IF f.kind = "start" THEN f = StartOf(f.to, Home[f.to.info])
                                        ELSE f.n <= Cardinality(SentBy(f.src))'
      <3>1. f \in sent /\ SentBy(f.src)' = SentBy(f.src)
        BY <1>5, <2>1 DEF SentBy
      <3>2. CASE f.to.info = i
        BY <1>10, <3>1, <3>2 DEF EventInv, SentInv
      <3>3. CASE f.to.info # i
        <4>1. f.to.info \in Info \ {i}
          BY <1>9, <3>1, <3>3
        <4> QED BY <1>5, <1>6, <1>8, <3>1, <4>1 DEF EventInv, SentInv
      <3> QED BY <3>2, <3>3
    <2> QED BY <2>1 DEF SentInv
  <1>12. PICK p \in Place : p = Spot("mailbox", NoSched)
    BY Spots
  <1>13. PICK q \in Place : q = Spot("dropped", NoSched)
    BY Spots
  <1>14. p.kind = "mailbox" /\ p.at = NoSched /\ q.kind = "dropped" /\ q.at = NoSched
    BY <1>12, <1>13, Spots
  <1>15. \A f \in M : f.to.info = i /\ Holds(p, f) /\ f \in sent
    <2>1. \A f \in M : f.to.info = i
      <3>1. \A f \in M : f.to = IdOf(i)
        BY <1>2, <1>4 DEF EventInv, Addressed
      <3> QED BY <3>1 DEF IdOf
    <2>2. \A f \in M : Holds(p, f)
      BY <1>4, <1>14, <2>1 DEF Holds
    <2> QED BY <2>1, <2>2, OnlyThere
  <1>16. Conserved'
    <2>1. Moves(M, p, q)
      <3>1. ASSUME NEW f \in Event
            PROVE  f \in ToSet(mailbox'[f.to.info]) <=> f \in ToSet(mailbox[f.to.info]) /\ f \notin M
        <4>1. CASE f.to.info = i
          <5>1. ToSet(<<>>) = {}
            BY DEF ToSet
          <5> QED BY <1>4, <1>6, <4>1, <5>1
        <4>2. CASE f.to.info # i
          BY <1>6, <1>9, <1>15, <4>2
        <4> QED BY <4>1, <4>2
      <3>2. \A t \in Sched, f \in Event : (Posted(t, f)' <=> Posted(t, f)) /\ (Called(t, f)' <=> Called(t, f))
        BY <1>5 DEF Posted, Called
      <3> QED BY <1>5, <1>14, <3>1, <3>2 DEF Moves, Goes
    <2>2. Types /\ Conserved /\ sent' = sent /\ \A f \in M : Holds(p, f)
      BY <1>5, <1>15 DEF EventInv, IInv
    <2> QED BY <2>1, <2>2, MovesConserve
  <1>17. Addressed'
    <2>1. ASSUME NEW j \in Info, NEW f \in ToSet(mailbox'[j]) PROVE f.to = IdOf(j)'
      <3>1. j # i
        <4>1. ToSet(<<>>) = {}
          BY DEF ToSet
        <4> QED BY <1>6, <2>1, <4>1
      <3> QED BY <1>6, <1>8, <2>1, <3>1 DEF EventInv, Addressed
    <2>2. ASSUME NEW t \in Sched, NEW j \in Info, NEW f \in ToSet(pending_events'[t][j])
          PROVE  f.to = IdOf(j)' /\ j \in alive' /\ sched_id_'[j] = InTransit(t)
      <3>1. f.to = IdOf(j) /\ j \in alive /\ sched_id_[j] = InTransit(t)
        BY <1>5, <2>2 DEF EventInv, Addressed
      <3>2. j # i
        BY <1>3, <3>1, Ids
      <3> QED BY <1>5, <1>6, <1>8, <3>1, <3>2
    <2>3. ASSUME NEW t \in Sched, NEW f \in Event, Called(t, f)', sched_id_'[f.to.info] = Owner(t)
          PROVE  IsAlive(f.to)'
      <3>1. Called(t, f)
        BY <1>5, <2>3 DEF Called
      <3>2. f.to.info \in Info \ {i}
        BY <1>6, <1>9, <2>3, Ids DEF ConstantsAssumption
      <3>3. IsAlive(f.to)
        BY <1>6, <2>3, <3>1, <3>2 DEF EventInv, Addressed
      <3> QED BY <1>6, <3>2, <3>3 DEF IsAlive
    <2>4. ASSUME NEW f \in dropped' PROVE ~IsAlive(f.to)'
      <3>1. f \in sent /\ f \in Event
        <4>1. CASE f \in M
          BY <1>15, <4>1
        <4>2. CASE f \in dropped
          <5>1. f \in Event /\ Holds(q, f)
            BY <1>14, <4>2 DEF Holds, IInv, Types
          <5> QED BY <5>1, OnlyThere
        <4> QED BY <1>5, <1>9, <2>4, <4>1, <4>2
      <3>2. CASE f.to.info = i
        <4>1. f.to.gen < generation'[i] /\ f.to.gen \in Nat /\ generation'[i] \in Nat
          BY <1>6, <1>7, <1>9, <1>10, <3>1, <3>2
        <4> QED BY <3>2, <4>1 DEF IsAlive
      <3>3. CASE f.to.info # i
        <4>1. f \in dropped
          BY <1>5, <1>15, <2>4, <3>3
        <4> QED BY <1>6, <1>9, <3>1, <3>3, <4>1 DEF EventInv, Addressed, IsAlive
      <3> QED BY <3>2, <3>3
    <2> QED BY <2>1, <2>2, <2>3, <2>4 DEF Addressed
  <1>18. Unrepeated'
    <2>1. ASSUME NEW j \in Info PROVE Distinct(mailbox'[j])
      <3>1. Distinct(<<>>)
        BY DEF Distinct
      <3> QED BY <1>6, <3>1, Unrepeats
    <2>2. \A t \in Sched, j \in Info : Distinct(pending_events'[t][j])
      BY <1>5, Unrepeats
    <2>3. \A t \in Sched : QueueOnce(t)'
      BY <1>5, Unrepeats DEF QueueOnce
    <2> QED BY <2>1, <2>2, <2>3 DEF Unrepeated, QueueOnce, Distinct
  <1>19. StartInv'
    <2>1. \A f \in handled' : StartOf(f.to, Home[f.to.info]) \in handled'
      BY <1>5 DEF EventInv, StartInv
    <2>2. ASSUME NEW j \in alive'
          PROVE  \/ StartOf(IdOf(j), Home[j])' \in handled'
                 \/ mailbox'[j] # <<>> /\ Head(mailbox'[j]) = StartOf(IdOf(j), Home[j])'
      <3>1. j \in alive /\ j \in Info \ {i}
        BY <1>5 DEF IInv, Types
      <3>2. StartOf(IdOf(j), Home[j])' = StartOf(IdOf(j), Home[j])
        BY <1>8, <3>1 DEF StartOf
      <3> QED BY <1>5, <1>6, <3>1, <3>2 DEF EventInv, StartInv
    <2> QED BY <2>1, <2>2 DEF StartInv, StartOf
  <1>20. TornInv'
    <2>1. ASSUME NEW id \in torn'
          PROVE  id.gen < generation'[id.info] \/ (IsAlive(id)' /\ id.info \in alive' /\ Down(id.info)')
      <3>1. id \in torn /\ id.info \in Info /\ id.gen \in Nat
        <4>1. id \in torn /\ id \in Id /\ MaxGen \in Nat
          BY <1>5, <2>1 DEF IInv, Types, ConstantsAssumption
        <4> QED BY <4>1 DEF Id
      <3>2. id.gen < generation[id.info] \/ (IsAlive(id) /\ id.info \in alive /\ Down(id.info))
        BY <3>1 DEF EventInv, TornInv
      <3>3. CASE id.info = i
        <4>1. id.gen <= generation[i]
          BY <1>7, <3>1, <3>2, <3>3 DEF IsAlive
        <4>2. id.gen < generation'[i]
          BY <1>6, <1>7, <3>1, <4>1
        <4> QED BY <3>3, <4>2
      <3>4. CASE id.info # i
        <4>1. Down(id.info) => Down(id.info)'
          BY <1>2, <1>3, <1>5, <3>1, <3>4, DownPopped
        <4> QED BY <1>5, <1>6, <3>1, <3>2, <3>4, <4>1 DEF IsAlive
      <3> QED BY <3>3, <3>4
    <2> QED BY <2>1 DEF TornInv
  <1> QED BY <1>11, <1>16, <1>17, <1>18, <1>19, <1>20 DEF EventInv

LEMMA CreateActorEvents ==
  ASSUME ConstantsAssumption, IInv, EventInv, NEW s \in Sched, NEW i \in Info, NEW d \in Destinations \union {s},
         CreateActor(s, i, d)
  PROVE  EventInv'
PROOF
  <1>1. PICK e \in Event : e = StartOf(IdOf(i), s)
    BY SlotTaken
  <1>2. PICK mail : mail = <<e>>
    OBVIOUS
  <1>3. /\ call[s] = Idle /\ i \notin alive /\ Home[i] = s /\ sched_id_[i] = Owner(NoSched)
        /\ sent' = sent \union {e}
        /\ mailbox'[i] = mail /\ \A j \in Info \ {i} : mailbox'[j] = mailbox[j]
    BY <1>1, <1>2, SlotTaken
  <1>4. /\ alive' = alive \union {i}
        /\ UNCHANGED <<generation, pending_events, inbound, stack, handled, dropped, torn>>
    BY DEF CreateActor
  <1>5. /\ e.kind = "start" /\ e.to = IdOf(i) /\ e.to.info = i /\ e = StartOf(e.to, Home[i])
        /\ \A j : IdOf(j)' = IdOf(j)
    BY <1>1, <1>3, <1>4 DEF StartOf, IdOf
  <1>6. mailbox[i] = <<>>
    BY <1>3 DEF IInv, Owning, InSlot
  <1>7. ToSet(mail) = {e} /\ ToSet(<<>>) = {} /\ Distinct(mail) /\ mail # <<>> /\ Head(mail) = e
    BY <1>2 DEF ToSet, Distinct
  <1>8. \A j \in Info \ {i} : sched_id_'[j] = sched_id_[j]
    BY DEF CreateActor, IInv, Types
  <1>9. \A t \in Sched, f \in Event : Called(t, f)' <=> Called(t, f)
    <2>1. CASE d = s
      BY <2>1 DEF CreateActor, Called
    <2>2. CASE d # s
      <3>1. PICK c : c = [op |-> "handover", info |-> i, dest |-> d]
        OBVIOUS
      <3>2. c.op # "send" /\ call[s].op # "send" /\ call' = [call EXCEPT ![s] = c]
        BY <1>3, <2>2, <3>1 DEF Idle, CreateActor
      <3> QED BY <3>2, SendsKept DEF IInv
    <2> QED BY <2>1, <2>2
  <1>10. e \notin sent
    <2>1. generation[i] \in Nat /\ e.to.gen = generation[i]
      BY <1>5 DEF IdOf, IInv, Types
    <2>2. ~(e.to.gen < generation[e.to.info])
      BY <1>5, <2>1
    <2> QED BY <1>3, <1>5, <2>2 DEF EventInv, SentInv
  <1>11. SentInv'
    <2>1. \A t : SentBy(t)' = SentBy(t)
      BY <1>3, <1>5 DEF SentBy
    <2>2. ASSUME NEW f \in sent'
          PROVE  /\ \/ f.to.gen < generation'[f.to.info]
                    \/ f.to = IdOf(f.to.info)' /\ f.to.info \in alive'
                 /\ IF f.kind = "start" THEN f = StartOf(f.to, Home[f.to.info])
                                        ELSE f.n <= Cardinality(SentBy(f.src))'
      <3>1. CASE f = e
        BY <1>4, <1>5, <3>1
      <3>2. CASE f \in sent
        BY <1>4, <1>5, <2>1, <3>2 DEF EventInv, SentInv
      <3> QED BY <1>3, <2>2, <3>1, <3>2
    <2> QED BY <2>2 DEF SentInv
  <1>12. Addressed'
    <2>1. ASSUME NEW j \in Info, NEW f \in ToSet(mailbox'[j]) PROVE f.to = IdOf(j)'
      <3>1. CASE j = i
        BY <1>3, <1>5, <1>7, <2>1, <3>1
      <3>2. CASE j # i
        BY <1>3, <1>5, <2>1, <3>2 DEF EventInv, Addressed
      <3> QED BY <3>1, <3>2
    <2>2. ASSUME NEW t \in Sched, NEW j \in Info, NEW f \in ToSet(pending_events'[t][j])
          PROVE  f.to = IdOf(j)' /\ j \in alive' /\ sched_id_'[j] = InTransit(t)
      <3>1. f.to = IdOf(j) /\ j \in alive /\ sched_id_[j] = InTransit(t)
        BY <1>4, <2>2 DEF EventInv, Addressed
      <3> QED BY <1>3, <1>4, <1>5, <1>8, <3>1
    <2>3. ASSUME NEW t \in Sched, NEW f \in Event, Called(t, f)', sched_id_'[f.to.info] = Owner(t)
          PROVE  IsAlive(f.to)'
      <3>1. Called(t, f) /\ f.to.info \in Info
        BY <1>9, <2>3 DEF Event, Id
      <3>2. CASE f.to.info = i
        <4>1. sched_id_'[i] = IF d = s THEN Owner(s) ELSE InTransit(d)
          BY DEF CreateActor, IInv, Types
        <4>2. t = s
          BY <2>3, <3>2, <4>1, Ids
        <4> QED BY <1>3, <3>1, <4>2 DEF Called, Idle
      <3>3. CASE f.to.info # i
        BY <1>4, <1>8, <2>3, <3>1, <3>3 DEF EventInv, Addressed, IsAlive
      <3> QED BY <3>2, <3>3
    <2>4. \A f \in dropped' : ~IsAlive(f.to)'
      BY <1>4 DEF EventInv, Addressed, IsAlive
    <2> QED BY <2>1, <2>2, <2>3, <2>4 DEF Addressed
  <1>13. Conserved'
    <2>1. PICK q \in Place : q = Spot("mailbox", NoSched)
      BY Spots
    <2>2. PICK p \in Place \union {Nowhere} : p = Nowhere
      OBVIOUS
    <2>3. p.kind = "nowhere" /\ q.kind = "mailbox" /\ q.at = NoSched
      BY <2>1, <2>2, Spots DEF Nowhere
    <2>4. Moves({e}, p, q)
      <3>1. \A t \in Sched, f \in Event : Posted(t, f)' <=> Posted(t, f)
        BY <1>4 DEF Posted
      <3>2. ASSUME NEW f \in Event
            PROVE  f \in ToSet(mailbox'[f.to.info]) <=> f \in ToSet(mailbox[f.to.info]) \/ f = e
        <4>1. f.to.info \in Info
          BY DEF Event, Id
        <4>2. CASE f.to.info = i
          BY <1>3, <1>6, <1>7, <4>2
        <4>3. CASE f.to.info # i
          BY <1>3, <1>5, <4>1, <4>3
        <4> QED BY <4>2, <4>3
      <3> QED BY <1>4, <1>9, <2>3, <3>1, <3>2 DEF Moves, Goes
    <2>5. Types /\ Conserved /\ {e} \in SUBSET Event /\ sent' = sent \union {e} /\ \A f \in {e} : f \notin sent
      BY <1>3, <1>10 DEF IInv, EventInv
    <2> QED BY <2>4, <2>5, MovesConserve
  <1>14. Unrepeated'
    <2>1. ASSUME NEW j \in Info PROVE Distinct(mailbox'[j])
      BY <1>3, <1>7, Unrepeats
    <2>2. \A t \in Sched, j \in Info : Distinct(pending_events'[t][j])
      BY <1>4, Unrepeats
    <2>3. \A t \in Sched : QueueOnce(t)'
      BY <1>4, Unrepeats DEF QueueOnce
    <2> QED BY <2>1, <2>2, <2>3 DEF Unrepeated, QueueOnce, Distinct
  <1>15. StartInv'
    <2>1. \A f \in handled' : StartOf(f.to, Home[f.to.info]) \in handled'
      BY <1>4 DEF EventInv, StartInv
    <2>2. ASSUME NEW j \in alive'
          PROVE  \/ StartOf(IdOf(j), Home[j])' \in handled'
                 \/ mailbox'[j] # <<>> /\ Head(mailbox'[j]) = StartOf(IdOf(j), Home[j])'
      <3>1. StartOf(IdOf(j), Home[j])' = StartOf(IdOf(j), Home[j])
        BY <1>5 DEF StartOf
      <3>2. CASE j = i
        BY <1>3, <1>5, <1>7, <3>1, <3>2
      <3>3. CASE j # i
        <4>1. j \in alive /\ j \in Info \ {i}
          BY <1>4, <2>2, <3>3 DEF IInv, Types
        <4> QED BY <1>3, <1>4, <3>1, <4>1 DEF EventInv, StartInv
      <3> QED BY <3>2, <3>3
    <2> QED BY <2>1, <2>2 DEF StartInv, StartOf
  <1>16. TornInv'
    <2>1. \A j \in Info : Down(j)' <=> Down(j)
      BY <1>4 DEF Down
    <2>2. torn \subseteq Id
      BY DEF IInv, Types
    <2> QED BY <1>4, <2>1, <2>2 DEF EventInv, TornInv, IsAlive, Id
  <1> QED BY <1>11, <1>12, <1>13, <1>14, <1>15, <1>16 DEF EventInv

-----------------------------------------------------------------------------
(* The initial state *)

LEMMA Single ==
  ASSUME NEW q, NEW e, q = <<e>>
  PROVE  ToSet(q) = {e} /\ Distinct(q) /\ q # <<>> /\ Head(q) = e
PROOF BY DEF ToSet, Distinct

LEMMA None ==
  ASSUME NEW q, q = <<>>
  PROVE  ToSet(q) = {} /\ Distinct(q)
PROOF BY DEF ToSet, Distinct

LEMMA InitEvents ==
  ASSUME ConstantsAssumption, Init
  PROVE  EventInv
PROOF
  <1>1. IInv
    BY InitOwning
  <1>2. ASSUME NEW i \in InitialActors
        PROVE  /\ i \in Info /\ FirstStart(i) \in Event /\ FirstStart(i) \in sent
               /\ mailbox[i] = <<FirstStart(i)>>
               /\ FirstStart(i) = StartOf(IdOf(i), Home[i]) /\ FirstStart(i).to = IdOf(i)
               /\ FirstStart(i).to.info = i /\ FirstStart(i).kind = "start"
               /\ ToSet(mailbox[i]) = {FirstStart(i)} /\ Distinct(mailbox[i])
    <2>1. i \in Info /\ FirstStart(i) \in sent
      BY DEF Init, ConstantsAssumption
    <2>2. mailbox[i] = <<FirstStart(i)>> /\ generation[i] = 0
      BY <2>1 DEF Init
    <2>3. FirstStart(i) \in Event
      BY <1>1, <2>1 DEF IInv, Types
    <2>4. ToSet(mailbox[i]) = {FirstStart(i)} /\ Distinct(mailbox[i])
      BY <2>2, Single
    <2> QED BY <2>1, <2>2, <2>3, <2>4 DEF FirstStart, StartOf, IdOf
  <1>3. \A e \in sent : \E i \in InitialActors : e = FirstStart(i)
    BY DEF Init
  <1>4. ASSUME NEW i \in Info, i \notin InitialActors PROVE ToSet(mailbox[i]) = {} /\ Distinct(mailbox[i])
    <2>1. mailbox[i] = <<>>
      BY <1>4 DEF Init
    <2> QED BY <2>1, None
  <1>5. /\ alive = InitialActors /\ handled = {} /\ dropped = {} /\ torn = {}
        /\ \A s \in Sched : inbound[s] = <<>> /\ call[s] = Idle
        /\ \A s \in Sched, i \in Info : pending_events[s][i] = <<>>
    BY DEF Init
  <1>6. \A s \in Sched, i \in Info : ToSet(pending_events[s][i]) = {} /\ Distinct(pending_events[s][i])
    BY <1>5, None
  <1>7. \A s \in Sched, e \in Event : ~Posted(s, e) /\ ~Called(s, e)
    BY <1>5 DEF Posted, Called, Idle
  <1>8. ASSUME NEW i \in Info, NEW e \in ToSet(mailbox[i])
        PROVE  i \in InitialActors /\ e = FirstStart(i)
    BY <1>2, <1>4, <1>8
  <1>9. SentInv
    <2>1. ASSUME NEW e \in sent
          PROVE  /\ e.to = IdOf(e.to.info) /\ e.to.info \in alive
                 /\ e.kind = "start" /\ e = StartOf(e.to, Home[e.to.info])
      <3>1. PICK i \in InitialActors : e = FirstStart(i)
        BY <1>3
      <3> QED BY <1>2, <1>5, <3>1
    <2> QED BY <2>1 DEF SentInv
  <1>10. Addressed
    <2>1. \A i \in Info : \A e \in ToSet(mailbox[i]) : e.to = IdOf(i)
      BY <1>2, <1>8
    <2>2. \A s \in Sched, i \in Info : ToSet(pending_events[s][i]) = {}
      BY <1>5, <1>6
    <2> QED BY <1>5, <1>7, <2>1, <2>2 DEF Addressed
  <1>11. Conserved
    <2>1. PICK q \in Place : q = Spot("mailbox", NoSched)
      BY Spots
    <2>2. q.kind = "mailbox" /\ q.at = NoSched
      BY <2>1, Spots
    <2>3. ASSUME NEW e \in Event, NEW p \in Place, Holds(p, e) PROVE p = q /\ e \in sent
      <3>1. e.to.info \in Info
        BY DEF Event, Id
      <3>2. p.kind = "mailbox" /\ e \in ToSet(mailbox[e.to.info])
        <4>1. p.kind # "inbound" \/ ~Posted(p.at, e)
          BY <1>7, Spots
        <4>2. p.kind # "call" \/ ~Called(p.at, e)
          BY <1>7, Spots
        <4>3. p.kind # "pending" \/ e \notin ToSet(pending_events[p.at][e.to.info])
          BY <1>5, <1>6, <3>1, Spots
        <4> QED BY <1>5, <2>3, <4>1, <4>2, <4>3 DEF Holds
      <3>3. p = q
        BY <2>1, <3>2, Spots
      <3> QED BY <1>2, <1>8, <3>1, <3>2, <3>3
    <2>4. ASSUME NEW e \in sent PROVE Holds(q, e)
      <3>1. PICK i \in InitialActors : e = FirstStart(i)
        BY <1>3
      <3>2. e \in ToSet(mailbox[e.to.info])
        BY <1>2, <3>1
      <3> QED BY <2>2, <3>2 DEF Holds
    <2> QED BY <2>3, <2>4 DEF Conserved
  <1>12. Unrepeated
    <2>1. \A i \in Info : Distinct(mailbox[i])
      BY <1>2, <1>4
    <2>2. \A s \in Sched : \A j \in DOMAIN inbound[s] : FALSE
      BY <1>5
    <2> QED BY <1>6, <2>1, <2>2 DEF Unrepeated
  <1>13. StartInv
    <2>1. ASSUME NEW i \in alive PROVE mailbox[i] # <<>> /\ Head(mailbox[i]) = StartOf(IdOf(i), Home[i])
      BY <1>2, <1>5
    <2> QED BY <1>5, <2>1 DEF StartInv
  <1>14. TornInv
    BY <1>5 DEF TornInv
  <1> QED BY <1>9, <1>10, <1>11, <1>12, <1>13, <1>14 DEF EventInv

-----------------------------------------------------------------------------
(* Every step *)

LEMMA StutterEvents ==
  ASSUME EventInv, UNCHANGED vars
  PROVE  EventInv'
PROOF
  <1>1. UNCHANGED <<slotVars, runVars, pending_events, inbound, stack, call, history, failed>>
    BY DEF vars
  <1>2. /\ UNCHANGED <<generation, sched_id_, alive, mailbox, pending_events, inbound, stack, call>>
        /\ UNCHANGED <<sent, handled, dropped, torn>>
    BY <1>1 DEF slotVars, runVars, history
  <1>3. SentInv'
    BY <1>2, SentKept DEF EventInv
  <1>4. Addressed'
    BY <1>2 DEF EventInv, Addressed, Called, IdOf, IsAlive
  <1>5. Conserved'
    BY <1>2 DEF EventInv, Conserved, Holds, Posted, Called
  <1>6. Unrepeated'
    BY <1>2 DEF EventInv, Unrepeated
  <1>7. StartInv'
    BY <1>2, StartKept DEF EventInv
  <1>8. TornInv'
    BY <1>2 DEF EventInv, TornInv, IsAlive, Down
  <1> QED BY <1>3, <1>4, <1>5, <1>6, <1>7, <1>8 DEF EventInv

LEMMA NextEvents ==
  ASSUME ConstantsAssumption, IInv, EventInv, [Next]_vars
  PROVE  EventInv'
PROOF
  <1>1. CASE UNCHANGED vars
    BY <1>1, StutterEvents
  <1>2. CASE Next
    <2>1. PICK s \in Sched : Proceed(s) \/ Receive(s) \/ HandlerCall(s)
      BY <1>2 DEF Next
    <2>2. CASE Proceed(s)
      BY <2>2, RunMailboxEvents, FlushMailboxEvents, RouteHereEvents, RouteToMigrantEvents, RouteAwayEvents,
         NextEventEvents, LeaveActorEvents, StopActorEvents, DestroyActorEvents, StartMigrateEvents,
         HandOverEvents DEF Proceed
    <2>3. CASE Receive(s)
      BY <2>3, ReceiveEventEvents, ReceiveActorEvents DEF Receive
    <2>4. CASE HandlerCall(s)
      BY <2>4, SendEvents, StopEvents, MigrateEvents, CreateActorEvents DEF HandlerCall
    <2> QED BY <2>1, <2>2, <2>3, <2>4
  <1> QED BY <1>1, <1>2

(* Mailboxes, pending_events_, queues and calls account for every event, and  *)
(* an actor torn down has no guard but that of do_stop_actor.                  *)
THEOREM EventsAccounted == SafeSpec => [](IInv /\ EventInv)
PROOF
  <1>1. Init => IInv /\ EventInv
    BY InitOwning, InitEvents, ConstantsAssumption
  <1>2. IInv /\ EventInv /\ [Next]_vars => (IInv /\ EventInv)'
    BY NextOwning, NextEvents, ConstantsAssumption
  <1> QED BY <1>1, <1>2, PTL DEF SafeSpec

-----------------------------------------------------------------------------
(* What the invariants say *)

LEMMA ListCounted ==
  ASSUME NEW S, NEW q \in Seq(S), Distinct(q)
  PROVE  IsFiniteSet(ToSet(q)) /\ Cardinality(ToSet(q)) = Len(q) /\ Len(q) \in Nat
PROOF
  <1>1. DOMAIN q = 1..Len(q) /\ Len(q) \in Nat
    BY Elements
  <1>2. IsFiniteSet(1..Len(q)) /\ Cardinality(1..Len(q)) = Len(q)
    BY <1>1, FS_Interval
  <1>3. q \in [1..Len(q) -> ToSet(q)] /\ \A x \in ToSet(q) : \E k \in 1..Len(q) : q[k] = x
    BY <1>1 DEF ToSet
  <1>4. q \in Surjection(1..Len(q), ToSet(q)) /\ q \in Injection(1..Len(q), ToSet(q))
    BY <1>1, <1>3 DEF Surjection, Injection, IsInjective, Distinct
  <1>5. IsFiniteSet(ToSet(q)) /\ Cardinality(ToSet(q)) = Cardinality(1..Len(q))
    BY <1>2, <1>4, FS_Surjection
  <1> QED BY <1>1, <1>2, <1>5

LEMMA OwnersOnce ==
  ASSUME IInv
  PROVE  OneOwner
PROOF
  <1>1. alive \subseteq Info
    BY DEF IInv, Types
  <1>2. ASSUME NEW i \in alive, NEW s \in Sched, i \in Listed(s) \union Running(s)
        PROVE  sched_id_[i] = Owner(s)
    BY <1>2 DEF IInv, Owning, ListedHere, Guarding, Running
  <1>3. ASSUME NEW i \in alive, NEW s \in Sched, s \in HandedOver(i)
        PROVE  /\ sched_id_[i] = InTransit(call[s].dest) /\ HandedOver(i) = {s}
               /\ \A t \in Sched : ArrivingAt(i, t) = {}
    <2>1. HandingOver(s) /\ call[s].op = "handover" /\ call[s].info = i
      BY <1>3 DEF IInv, Owning, HandedOver
    <2>2. sched_id_[i] = InTransit(call[s].dest)
      BY <2>1 DEF HandingOver
    <2>3. \A t \in Sched : call[t].op = "handover" /\ call[t].info = i => t = s
      BY <2>1 DEF HandingOver
    <2>4. \A t \in Sched : \A k \in DOMAIN inbound[t] : inbound[t][k].op = "actor" => inbound[t][k].info # i
      BY <2>1 DEF HandingOver
    <2>5. HandedOver(i) = {s}
      BY <2>1, <2>3 DEF HandedOver
    <2>6. \A t \in Sched : ArrivingAt(i, t) = {}
      BY <2>4 DEF ArrivingAt
    <2> QED BY <2>2, <2>5, <2>6
  <1>4. ASSUME NEW i \in alive, NEW s \in Sched, NEW k \in ArrivingAt(i, s)
        PROVE  sched_id_[i] = InTransit(s) /\ ArrivingAt(i, s) = {k}
    <2>1. Brought(s) /\ k \in DOMAIN inbound[s] /\ inbound[s][k].op = "actor" /\ inbound[s][k].info = i
      BY <1>4 DEF IInv, Owning, ArrivingAt
    <2>2. \A j \in DOMAIN inbound[s] : inbound[s][j] = inbound[s][k] => j = k
      BY <2>1 DEF Brought
    <2>3. ArrivingAt(i, s) = {k}
      BY <1>4, <2>2 DEF ArrivingAt
    <2> QED BY <2>1, <2>3 DEF Brought
  <1>5. ASSUME NEW i \in alive, sched_id_[i].migrating PROVE Travelling(i)
    <2>1. i \in Info /\ InSlot(i)
      BY <1>1 DEF IInv, Owning
    <2>2. \A s \in Sched : i \notin Listed(s) \union Running(s)
      BY <1>2, <1>5, Ids
    <2>3. sched_id_[i].dest \in Sched /\ \E s \in Sched : Hands(s, i) \/ Brings(s, i)
      BY <1>5, <2>1 DEF InSlot
    <2>4. PICK s \in Sched : Hands(s, i) \/ Brings(s, i)
      BY <2>3
    <2>5. \A t \in HandedOver(i) : t \in Sched /\ call[t].dest = sched_id_[i].dest
      BY <1>3, Ids DEF HandedOver
    <2>6. ASSUME NEW t \in Sched, NEW k \in ArrivingAt(i, t) PROVE t = sched_id_[i].dest
      BY <1>4, Ids
    <2>7. \A p \in Arriving(i) : \E t \in Sched : \E k \in ArrivingAt(i, t) : p = <<t, k>>
      BY DEF Arriving
    <2>8. \A p \in Arriving(i) : p[1] = sched_id_[i].dest
      BY <2>6, <2>7
    <2>9. CASE Hands(s, i)
      <3>1. s \in HandedOver(i)
        BY <2>9 DEF HandedOver, Hands
      <3>2. HandedOver(i) = {s} /\ Arriving(i) = {}
        BY <1>3, <2>7, <3>1
      <3>3. Cardinality(HandedOver(i)) = 1 /\ Cardinality(Arriving(i)) = 0
        BY <3>2, FS_EmptySet, FS_Singleton
      <3> QED BY <2>2, <2>3, <2>5, <2>8, <3>3 DEF Travelling
    <2>10. CASE Brings(s, i)
      <3>1. PICK k \in DOMAIN inbound[s] : inbound[s][k].op = "actor" /\ inbound[s][k].info = i
        BY <2>10 DEF Brings
      <3>2. inbound[s][k] = [op |-> "actor", info |-> inbound[s][k].info]
        BY <3>1, EntryOf DEF IInv
      <3>3. k \in ArrivingAt(i, s)
        BY <3>1, <3>2 DEF ArrivingAt
      <3>4. HandedOver(i) = {}
        <4>1. ASSUME NEW t \in HandedOver(i) PROVE FALSE
          <5>1. t \in Sched
            BY DEF HandedOver
          <5> QED BY <1>3, <3>3, <5>1
        <4> QED BY <4>1
      <3>5. s = sched_id_[i].dest /\ ArrivingAt(i, s) = {k}
        BY <1>4, <3>3, Ids
      <3>6. Arriving(i) = {<<s, k>>}
        <4>1. <<s, k>> \in Arriving(i)
          BY <3>3 DEF Arriving
        <4>2. \A p \in Arriving(i) : p = <<s, k>>
          BY <2>6, <2>7, <3>5
        <4> QED BY <4>1, <4>2
      <3>7. Cardinality(HandedOver(i)) = 0 /\ Cardinality(Arriving(i)) = 1
        BY <3>4, <3>6, FS_EmptySet, FS_Singleton
      <3> QED BY <2>2, <2>3, <2>5, <2>8, <3>7 DEF Travelling
    <2> QED BY <2>4, <2>9, <2>10
  <1>6. ASSUME NEW i \in alive, ~sched_id_[i].migrating PROVE Settled(i)
    <2>1. i \in Info /\ InSlot(i)
      BY <1>1 DEF IInv, Owning
    <2>2. sched_id_[i].dest \in Sched /\ \E s \in Sched : i \in Listed(s) \/ RunsOn(s, i)
      BY <1>6, <2>1 DEF InSlot
    <2>3. PICK s \in Sched : i \in Listed(s) \union Running(s)
      BY <2>2 DEF RunsOn, Running
    <2>4. s = sched_id_[i].dest
      BY <1>2, <2>3, Ids
    <2>5. \A t \in Sched \ {s} : i \notin Listed(t) \union Running(t)
      BY <1>2, <2>3, Ids
    <2>6. HandedOver(i) = {}
      <3>1. ASSUME NEW t \in HandedOver(i) PROVE FALSE
        <4>1. t \in Sched
          BY DEF HandedOver
        <4> QED BY <1>3, <1>6, <4>1, Ids
      <3> QED BY <3>1
    <2>7. Arriving(i) = {}
      <3>1. \A t \in Sched : ArrivingAt(i, t) = {}
        BY <1>4, <1>6, Ids
      <3> QED BY <3>1 DEF Arriving
    <2> QED BY <2>2, <2>3, <2>4, <2>5, <2>6, <2>7 DEF Settled
  <1>7. \A s \in Sched : actor_count[s] = Cardinality({i \in alive : sched_id_[i] = Owner(s)})
    BY DEF IInv, Owning, Counted, Owned
  <1> QED BY <1>5, <1>6, <1>7 DEF OneOwner

LEMMA MailOnLists ==
  ASSUME IInv, EventInv
  PROVE  MailIsListed
PROOF
  <1>1. ASSUME NEW s \in Sched
        PROVE  Len(ready[s]) + Len(batch[s]) = Cardinality(ToSet(ready[s]) \union ToSet(batch[s]))
    <2>1. /\ ready[s] \in Seq(Info) /\ batch[s] \in Seq(Info) /\ Distinct(ready[s]) /\ Distinct(batch[s])
          /\ ToSet(ready[s]) \intersect ToSet(batch[s]) = {}
      BY DEF IInv, Types, Owning, Listing
    <2>2. /\ IsFiniteSet(ToSet(ready[s])) /\ Cardinality(ToSet(ready[s])) = Len(ready[s]) /\ Len(ready[s]) \in Nat
          /\ IsFiniteSet(ToSet(batch[s])) /\ Cardinality(ToSet(batch[s])) = Len(batch[s]) /\ Len(batch[s]) \in Nat
      BY <2>1, ListCounted
    <2>3. Cardinality(ToSet(ready[s]) \union ToSet(batch[s])) =
            Cardinality(ToSet(ready[s])) + Cardinality(ToSet(batch[s])) - Cardinality(ToSet(ready[s]) \intersect ToSet(batch[s]))
      BY <2>2, FS_Union
    <2>4. Cardinality(ToSet(ready[s]) \intersect ToSet(batch[s])) = 0
      BY <2>1, FS_EmptySet
    <2> QED BY <2>2, <2>3, <2>4
  <1>2. \A s \in Sched : \A i \in Listed(s) : ~is_running[i] => (mailbox[i] = <<>> <=> i \in pending[s])
    BY DEF IInv, Owning, ListedHere
  <1>3. ASSUME NEW s \in Sched, NEW i \in Info, pending_events[s][i] # <<>>
        PROVE  i \in alive /\ sched_id_[i] = InTransit(s)
    <2>1. pending_events[s][i] \in Seq(Event)
      BY DEF IInv, Types
    <2>2. ToSet(pending_events[s][i]) # {}
      BY <1>3, <2>1, Elements
    <2>3. PICK e : e \in ToSet(pending_events[s][i])
      BY <2>2
    <2> QED BY <2>3 DEF EventInv, Addressed
  <1> QED BY <1>1, <1>2, <1>3 DEF MailIsListed

LEMMA AtOnce ==
  ASSUME NEW q, NEW e
  PROVE  /\ e \notin ToSet(q) => At(e, q) = {}
         /\ e \in ToSet(q) /\ Distinct(q) => \E k : At(e, q) = {k}
PROOF
  <1>1. ASSUME e \notin ToSet(q) PROVE At(e, q) = {}
    BY <1>1 DEF At, ToSet
  <1>2. ASSUME e \in ToSet(q), Distinct(q) PROVE \E k : At(e, q) = {k}
    <2>1. PICK k \in DOMAIN q : q[k] = e
      BY <1>2 DEF ToSet
    <2>2. At(e, q) = {k}
      BY <1>2, <2>1 DEF At, Distinct
    <2> QED BY <2>2
  <1> QED BY <1>1, <1>2

LEMMA PlacesOnThread ==
  ASSUME IInv, EventInv, NEW s \in Sched, NEW e \in Event
  PROVE  LET waits == e \in ToSet(pending_events[s][e.to.info])
         IN  /\ ~waits /\ ~Posted(s, e) /\ ~Called(s, e) => PlacesOn(s, e) = {}
             /\ waits /\ ~Posted(s, e) /\ ~Called(s, e) => \E x : PlacesOn(s, e) = {x}
             /\ ~waits /\ Posted(s, e) /\ ~Called(s, e) => \E x : PlacesOn(s, e) = {x}
             /\ ~waits /\ ~Posted(s, e) /\ Called(s, e) => \E x : PlacesOn(s, e) = {x}
PROOF
  <1> DEFINE waits == e \in ToSet(pending_events[s][e.to.info])
             P == {<<"pending", s, k>> : k \in At(e, pending_events[s][e.to.info])}
             I == {<<"inbound", s, k>> : k \in At([op |-> "event", event |-> e], inbound[s])}
             C == {<<"call", s>> : c \in {c \in {call[s]} : c.op = "send" /\ c.event = e}}
  <1>1. PlacesOn(s, e) = P \union I \union C
    BY DEF PlacesOn
  <1>2. (~waits => P = {}) /\ (waits => \E x : P = {x})
    <2>1. e.to.info \in Info
      BY DEF Event, Id
    <2>2. Distinct(pending_events[s][e.to.info])
      BY <2>1, Unrepeats
    <2>3. PICK q : q = pending_events[s][e.to.info]
      OBVIOUS
    <2>4. (~waits => At(e, q) = {}) /\ (waits => \E k : At(e, q) = {k})
      BY <2>2, <2>3, AtOnce
    <2>5. P = {<<"pending", s, k>> : k \in At(e, q)}
      BY <2>3
    <2>6. ASSUME waits PROVE \E x : P = {x}
      <3>1. PICK k : At(e, q) = {k}
        BY <2>4, <2>6
      <3>2. P = {<<"pending", s, k>>}
        BY <2>5, <3>1
      <3> QED BY <3>2
    <2>7. ~waits => P = {}
      BY <2>4, <2>5
    <2> QED BY <2>6, <2>7
  <1>3. (~Posted(s, e) => I = {}) /\ (Posted(s, e) => \E x : I = {x})
    <2>1. PICK x : x = [op |-> "event", event |-> e]
      OBVIOUS
    <2>2. I = {<<"inbound", s, k>> : k \in At(x, inbound[s])}
      BY <2>1
    <2>3. ASSUME ~Posted(s, e) PROVE At(x, inbound[s]) = {}
      <3>1. \A k \in DOMAIN inbound[s] : inbound[s][k] # x
        BY <2>1, <2>3 DEF Posted
      <3> QED BY <3>1 DEF At
    <2>4. ASSUME Posted(s, e) PROVE \E k : At(x, inbound[s]) = {k}
      <3>1. PICK k \in DOMAIN inbound[s] : inbound[s][k].op = "event" /\ inbound[s][k].event = e
        BY <2>4 DEF Posted
      <3>2. inbound[s][k] = x
        BY <2>1, <3>1, EntryOf DEF IInv
      <3>3. \A j \in DOMAIN inbound[s] : inbound[s][j] = x => j = k
        <4>1. QueueOnce(s)
          BY Unrepeats
        <4> QED BY <3>1, <3>2, <4>1 DEF QueueOnce
      <3>4. At(x, inbound[s]) = {k}
        BY <3>2, <3>3 DEF At
      <3> QED BY <3>4
    <2>5. ASSUME Posted(s, e) PROVE \E y : I = {y}
      <3>1. PICK k : At(x, inbound[s]) = {k}
        BY <2>4, <2>5
      <3>2. I = {<<"inbound", s, k>>}
        BY <2>2, <3>1
      <3> QED BY <3>2
    <2> QED BY <2>2, <2>3, <2>5
  <1>4. (~Called(s, e) => C = {}) /\ (Called(s, e) => \E x : C = {x})
    <2>1. (~Called(s, e) => C = {}) /\ (Called(s, e) => C = {<<"call", s>>})
      BY DEF Called
    <2> QED BY <2>1
  <1> HIDE DEF P, I, C, waits
  <1>5. /\ ~waits /\ ~Posted(s, e) /\ ~Called(s, e) => PlacesOn(s, e) = {}
        /\ waits /\ ~Posted(s, e) /\ ~Called(s, e) => \E x : PlacesOn(s, e) = {x}
        /\ ~waits /\ Posted(s, e) /\ ~Called(s, e) => \E x : PlacesOn(s, e) = {x}
        /\ ~waits /\ ~Posted(s, e) /\ Called(s, e) => \E x : PlacesOn(s, e) = {x}
    BY <1>1, <1>2, <1>3, <1>4
  <1> QED BY <1>5 DEF waits

LEMMA OnePlace ==
  ASSUME IInv, EventInv, NEW e \in sent
  PROVE  \E x : Places(e) = {x}
PROOF
  <1>1. e \in Event /\ e.to.info \in Info
    BY DEF IInv, Types, Event, Id
  <1> DEFINE H == {<<"handled">> : done \in {e} \intersect handled}
             D == {<<"dropped">> : done \in {e} \intersect dropped}
             M == {<<"mailbox", k>> : k \in At(e, mailbox[e.to.info])}
             T == UNION {PlacesOn(s, e) : s \in Sched}
  <1>2. Places(e) = H \union D \union M \union T
    BY DEF Places
  <1>3. (e \notin handled => H = {}) /\ (e \in handled => \E x : H = {x})
    <2>1. (e \notin handled => H = {}) /\ (e \in handled => H = {<<"handled">>})
      OBVIOUS
    <2> QED BY <2>1
  <1>4. (e \notin dropped => D = {}) /\ (e \in dropped => \E x : D = {x})
    <2>1. (e \notin dropped => D = {}) /\ (e \in dropped => D = {<<"dropped">>})
      OBVIOUS
    <2> QED BY <2>1
  <1>5. (e \notin ToSet(mailbox[e.to.info]) => M = {}) /\ (e \in ToSet(mailbox[e.to.info]) => \E x : M = {x})
    <2>1. PICK q : q = mailbox[e.to.info]
      OBVIOUS
    <2>2. Distinct(q)
      BY <1>1, <2>1, Unrepeats
    <2>3. (e \notin ToSet(q) => At(e, q) = {}) /\ (e \in ToSet(q) => \E k : At(e, q) = {k})
      BY <2>2, AtOnce
    <2>4. M = {<<"mailbox", k>> : k \in At(e, q)}
      BY <2>1
    <2>5. ASSUME e \in ToSet(q) PROVE \E x : M = {x}
      <3>1. PICK k : At(e, q) = {k}
        BY <2>3, <2>5
      <3>2. M = {<<"mailbox", k>>}
        BY <2>4, <3>1
      <3> QED BY <3>2
    <2>6. e \notin ToSet(q) => M = {}
      BY <2>3, <2>4
    <2> QED BY <2>1, <2>5, <2>6
  <1>6. \A x \in T : \E s \in Sched : x \in PlacesOn(s, e)
    OBVIOUS
  <1>7. \A s \in Sched : PlacesOn(s, e) \subseteq T
    OBVIOUS
  <1> HIDE DEF H, D, M, T
  <1>8. PICK p \in Place : Holds(p, e)
    BY DEF EventInv, Conserved
  <1>9. \A q \in Place : Holds(q, e) => q = p
    BY <1>1, <1>8, OnlyThere
  <1>10. \A s \in Sched :
           LET waits == e \in ToSet(pending_events[s][e.to.info])
           IN  /\ waits => p = Spot("pending", s)
               /\ Posted(s, e) => p = Spot("inbound", s)
               /\ Called(s, e) => p = Spot("call", s)
    BY <1>1, <1>9, Spots DEF Holds
  <1>11. /\ e \in handled => p = Spot("handled", NoSched)
         /\ e \in dropped => p = Spot("dropped", NoSched)
         /\ e \in ToSet(mailbox[e.to.info]) => p = Spot("mailbox", NoSched)
    BY <1>1, <1>9, Spots DEF Holds
  <1>12. CASE p.kind \in {"handled", "dropped", "mailbox"}
    <2>1. \A s \in Sched : p # Spot("pending", s) /\ p # Spot("inbound", s) /\ p # Spot("call", s)
      BY <1>12, Spots
    <2>2. \A s \in Sched : PlacesOn(s, e) = {}
      BY <1>1, <1>10, <2>1, PlacesOnThread
    <2>3. T = {}
      BY <1>6, <2>2
    <2>4. CASE p.kind = "handled"
      <3>1. e \in handled /\ e \notin dropped /\ e \notin ToSet(mailbox[e.to.info])
        BY <1>8, <1>11, <2>4, Spots DEF Holds
      <3> QED BY <1>2, <1>3, <1>4, <1>5, <2>3, <3>1
    <2>5. CASE p.kind = "dropped"
      <3>1. e \notin handled /\ e \in dropped /\ e \notin ToSet(mailbox[e.to.info])
        BY <1>8, <1>11, <2>5, Spots DEF Holds
      <3> QED BY <1>2, <1>3, <1>4, <1>5, <2>3, <3>1
    <2>6. CASE p.kind = "mailbox"
      <3>1. e \notin handled /\ e \notin dropped /\ e \in ToSet(mailbox[e.to.info])
        BY <1>8, <1>11, <2>6, Spots DEF Holds
      <3> QED BY <1>2, <1>3, <1>4, <1>5, <2>3, <3>1
    <2> QED BY <1>12, <2>4, <2>5, <2>6
  <1>13. CASE p.kind \in {"pending", "inbound", "call"} /\ p.at \in Sched
    <2>1. H = {} /\ D = {} /\ M = {}
      BY <1>3, <1>4, <1>5, <1>11, <1>13, Spots
    <2>2. PICK s \in Sched : s = p.at
      BY <1>13
    <2>3. ASSUME NEW t \in Sched, t # s PROVE PlacesOn(t, e) = {}
      <3>1. p # Spot("pending", t) /\ p # Spot("inbound", t) /\ p # Spot("call", t)
        BY <2>2, <2>3, Spots
      <3> QED BY <1>1, <1>10, <3>1, PlacesOnThread
    <2>4. \E x : PlacesOn(s, e) = {x}
      <3>1. CASE p.kind = "pending"
        <4>1. e \in ToSet(pending_events[s][e.to.info]) /\ ~Posted(s, e) /\ ~Called(s, e)
          BY <1>8, <1>10, <2>2, <3>1, Spots DEF Holds
        <4> QED BY <1>1, <4>1, PlacesOnThread
      <3>2. CASE p.kind = "inbound"
        <4>1. e \notin ToSet(pending_events[s][e.to.info]) /\ Posted(s, e) /\ ~Called(s, e)
          BY <1>8, <1>10, <2>2, <3>2, Spots DEF Holds
        <4> QED BY <1>1, <4>1, PlacesOnThread
      <3>3. CASE p.kind = "call"
        <4>1. e \notin ToSet(pending_events[s][e.to.info]) /\ ~Posted(s, e) /\ Called(s, e)
          BY <1>8, <1>10, <2>2, <3>3, Spots DEF Holds
        <4> QED BY <1>1, <4>1, PlacesOnThread
      <3> QED BY <1>13, <3>1, <3>2, <3>3
    <2>5. T = PlacesOn(s, e)
      BY <1>6, <1>7, <2>3
    <2> QED BY <1>2, <2>1, <2>4, <2>5
  <1> QED BY <1>12, <1>13, Spots

(* An actor torn down has a guard of do_stop_actor as long as it is there. *)
LEMMA TornAliveIsDown ==
  ASSUME IInv, EventInv, NEW id \in torn, IsAlive(id)
  PROVE  id.info \in Info /\ Down(id.info) /\ is_running[id.info]
PROOF
  <1>1. id \in Id /\ id.info \in Info /\ generation[id.info] \in 0..MaxGen
    BY DEF IInv, Types, Id
  <1>2. ~(id.gen < generation[id.info])
    BY <1>1 DEF IsAlive
  <1>3. Down(id.info)
    BY <1>2 DEF EventInv, TornInv
  <1>4. PICK s \in Sched : \E k \in DOMAIN stack[s] : stack[s][k].info = id.info
    BY <1>3 DEF Down
  <1>5. is_running[id.info]
    BY <1>4 DEF IInv, Owning, Guarding
  <1> QED BY <1>1, <1>3, <1>5

(* The handler that runs is not of an actor that was torn down. *)
LEMMA DoneIsNotTorn ==
  ASSUME IInv, EventInv, NEW s \in Sched, Done(s)
  PROVE  IdOf(Innermost(s).info) \notin torn
PROOF
  <1>1. stack[s] # <<>> /\ ~Innermost(s).down
    BY DEF Done, InHandler
  <1>2. PICK i : i = Innermost(s).info
    OBVIOUS
  <1>3. PICK n : n = Len(stack[s])
    OBVIOUS
  <1>4. /\ stack[s][n] = Innermost(s) /\ DOMAIN stack[s] = 1..n /\ n \in 1..n /\ n \in Nat
        /\ \A k \in 1..n - 1 : stack[s][k].info # i
        /\ \A t \in Sched \ {s} : ~RunsOn(t, i)
    <2>1. stack[s] \in Seq(EventGuard)
      BY DEF IInv, Types
    <2>2. Len(stack[s]) \in Nat
      BY <2>1
    <2> QED BY <1>1, <1>2, <1>3, <2>2, InnermostOwned
  <1>5. ~Down(i)
    <2>1. ASSUME NEW t \in Sched, NEW k \in DOMAIN stack[t], stack[t][k].info = i PROVE ~stack[t][k].down
      <3>1. t = s
        BY <1>4, <2>1 DEF RunsOn
      <3>2. k = n
        BY <1>4, <2>1, <3>1
      <3> QED BY <1>1, <1>4, <3>1, <3>2
    <2> QED BY <2>1 DEF Down
  <1>6. IsAlive(IdOf(i)) /\ IdOf(i).info = i
    BY DEF IsAlive, IdOf
  <1> QED BY <1>2, <1>5, <1>6, TornAliveIsDown

LEMMA FirstIsHeres ==
  ASSUME IInv, EventInv, NEW i \in Info, mailbox[i] # <<>>
  PROVE  Head(mailbox[i]).to = IdOf(i)
PROOF
  <1>1. mailbox[i] \in Seq(Event)
    BY DEF IInv, Types
  <1>2. Head(mailbox[i]) \in ToSet(mailbox[i])
    BY <1>1, Tailed
  <1> QED BY <1>2 DEF EventInv, Addressed

LEMMA HandledNotTorn ==
  ASSUME ConstantsAssumption, IInv, EventInv, NEW s \in Sched, Proceed(s) \/ Receive(s) \/ HandlerCall(s),
         NEW e \in handled', e \notin handled
  PROVE  e.to \notin torn
PROOF
  <1>1. CASE FlushMailbox(s)
    <2>1. PICK i : i = Head(batch[s])
      OBVIOUS
    <2>2. i \in Info
      <3>1. batch[s] \in Seq(Info) /\ batch[s] # <<>>
        BY <1>1 DEF FlushMailbox, IInv, Types
      <3> QED BY <2>1, <3>1, Tailed
    <2>3. mailbox[i] # <<>> /\ ~is_running[i] /\ e = Head(mailbox[i])
      BY <1>1, <2>1 DEF FlushMailbox, Enter
    <2>4. e.to = IdOf(i)
      BY <2>2, <2>3, FirstIsHeres
    <2>5. IsAlive(e.to) /\ e.to.info = i
      BY <2>4 DEF IsAlive, IdOf
    <2> QED BY <2>3, <2>5, TornAliveIsDown
  <1>2. CASE NextEvent(s)
    <2>1. PICK i : i = Innermost(s).info
      OBVIOUS
    <2>2. i \in Info /\ Done(s) /\ e = Head(mailbox[i]) /\ mailbox[i] # <<>>
      <3>1. Done(s) /\ Innermost(s).left > 0 /\ e = Head(mailbox[i])
        BY <1>2, <2>1 DEF NextEvent
      <3>2. i \in Info /\ Innermost(s).left \in Nat /\ Innermost(s).left <= Len(mailbox[i])
        BY <2>1, <3>1, InnermostOwned DEF Done, InHandler
      <3>3. mailbox[i] \in Seq(Event)
        BY <3>2 DEF IInv, Types
      <3>4. mailbox[i] # <<>>
        BY <3>1, <3>2, <3>3
      <3> QED BY <3>1, <3>2, <3>4
    <2>3. e.to = IdOf(i)
      BY <2>2, FirstIsHeres
    <2> QED BY <2>1, <2>2, <2>3, DoneIsNotTorn
  <1>3. CASE RouteHere(s)
    <2>1. PICK i : i = call[s].event.to.info
      OBVIOUS
    <2>2. /\ call[s].op = "send" /\ e = call[s].event /\ sched_id_[i] = Owner(s) /\ ~is_running[i]
      BY <1>3, <2>1 DEF RouteHere, Enter, CanRunNow
    <2>3. e \in Event /\ Called(s, e)
      <3>1. call[s] \in Call
        BY DEF IInv, Types
      <3>2. call[s].event \in Event
        BY <2>2, <3>1 DEF Call, Idle
      <3> QED BY <2>2, <3>2 DEF Called
    <2>4. IsAlive(e.to) /\ e.to.info = i
      BY <2>1, <2>2, <2>3 DEF EventInv, Addressed
    <2> QED BY <2>2, <2>4, TornAliveIsDown
  <1>4. CASE ~FlushMailbox(s) /\ ~NextEvent(s) /\ ~RouteHere(s)
    <2>1. CASE Proceed(s)
      BY <1>4, <2>1 DEF Proceed, RunMailbox, RouteToMigrant, RouteAway, LeaveActor, StopActor, DestroyActor,
                        StartMigrate, HandOver, history
    <2>2. CASE Receive(s)
      BY <2>2 DEF Receive, ReceiveEvent, ReceiveActor, history
    <2>3. CASE HandlerCall(s)
      BY <2>3 DEF HandlerCall, Send, Stop, Migrate, CreateActor, history
    <2> QED BY <2>1, <2>2, <2>3
  <1> QED BY <1>1, <1>2, <1>3, <1>4

-----------------------------------------------------------------------------
(* Theorems *)

(* Every variable has its type, and only events that were sent are handled or *)
(* dropped (Scheduler-decl.h, ActorInfo-decl.h).                               *)
THEOREM Typed == SafeSpec => []TypeOK
PROOF
  <1>1. ASSUME IInv, EventInv PROVE TypeOK
    <2>1. ASSUME NEW e \in handled PROVE e \in sent
      <3>1. PICK p \in Place : p = Spot("handled", NoSched)
        BY Spots
      <3>2. e \in Event /\ Holds(p, e)
        BY <1>1, <3>1, Spots DEF IInv, Types, Holds
      <3> QED BY <1>1, <3>2, OnlyThere
    <2>2. ASSUME NEW e \in dropped PROVE e \in sent
      <3>1. PICK p \in Place : p = Spot("dropped", NoSched)
        BY Spots
      <3>2. e \in Event /\ Holds(p, e)
        BY <1>1, <3>1, Spots DEF IInv, Types, Holds
      <3> QED BY <1>1, <3>2, OnlyThere
    <2> QED BY <1>1, <2>1, <2>2 DEF IInv, Types, TypeOK
  <1> QED BY <1>1, EventsAccounted, PTL

(* An actor belongs to one thread, or is in one place between two, and the     *)
(* lists of its thread hold it as its mailbox says (Scheduler.cpp:291-313,     *)
(* 440-470, 499-530; Scheduler.h:100-150).                                      *)
THEOREM OwnersHold == SafeSpec => []OwnersAndLists
PROOF
  <1>1. IInv /\ EventInv => OwnersAndLists
    BY OwnersOnce, MailOnLists DEF OwnersAndLists
  <1> QED BY <1>1, EventsAccounted, PTL

(* No event that send_impl takes is lost or duplicated in queues, mailboxes,   *)
(* pending_events_ and migrations, and none is discarded whose actor lives.     *)
THEOREM EventsKept == SafeSpec => []EventsConserved
PROOF
  <1>1. ASSUME IInv, EventInv PROVE EventsConserved
    <2>1. ASSUME NEW e \in sent PROVE Cardinality(Places(e)) = 1
      <3>1. PICK x : Places(e) = {x}
        BY <1>1, OnePlace
      <3> QED BY <3>1, FS_Singleton
    <2>2. \A e \in dropped : ~IsAlive(e.to)
      BY <1>1 DEF EventInv, Addressed
    <2> QED BY <2>1, <2>2 DEF EventsConserved
  <1> QED BY <1>1, EventsAccounted, PTL

(* An event reaches the actor it was sent to, never a later one in its slot,    *)
(* and Start comes first (register_actor_impl puts it in the empty mailbox).    *)
THEOREM OwnEventsHold == SafeSpec => []OwnEvents
PROOF
  <1>1. EventInv => OwnEvents
    BY DEF EventInv, StartInv, Addressed, OwnEvents, StartFirst, RightActor
  <1> QED BY <1>1, EventsAccounted, PTL

(* do_stop_actor enters tear_down of an actor once, and no event is handled     *)
(* after it.                                                                     *)
THEOREM TearDownIsLast == SafeSpec => TearDownLast
PROOF
  <1> DEFINE Step == /\ \A e \in handled' \ handled : e.to \notin torn
                     /\ \A s \in Sched : StopActor(s) => IdOf(Innermost(s).info) \notin torn
  <1>1. ASSUME IInv, EventInv, Next PROVE Step
    <2>1. \A e \in handled' \ handled : e.to \notin torn
      BY <1>1, HandledNotTorn, ConstantsAssumption DEF Next
    <2>2. \A s \in Sched : StopActor(s) => IdOf(Innermost(s).info) \notin torn
      BY <1>1, DoneIsNotTorn DEF StopActor
    <2> QED BY <2>1, <2>2
  <1>2. IInv /\ EventInv /\ [Next]_vars => [Step]_vars
    BY <1>1
  <1> QED BY <1>2, EventsAccounted, PTL DEF TearDownLast, SafeSpec

(* Of the CHECKs of the runtime only that of the key of pending_events_ can     *)
(* fail: no actor is entered while it runs, those on a run list have mail,      *)
(* and migrated, stopped and destroyed actors are where they should be.         *)
THEOREM OtherChecksHold == SafeSpec => [](failed \subseteq {"pending_key"})
PROOF
  <1>1. IInv => failed \subseteq {"pending_key"}
    BY DEF IInv, ChecksOk
  <1> QED BY <1>1, EventsAccounted, PTL

(* No actor in transit is in a slot that was used before. *)
FreshMigrants == \A i \in Info : sched_id_[i].migrating => generation[i] = 0

(* A routed event that finds an actor in transit finds its own if slots are new. *)
LEMMA MigrantIsAddressee ==
  ASSUME ConstantsAssumption, IInv, EventInv, FreshMigrants, NEW s \in Sched, RouteToMigrant(s)
  PROVE  failed' = failed
PROOF
  <1>1. call[s].op = "send" /\ call[s] \in Call
    BY DEF RouteToMigrant, IInv, Types
  <1>2. PICK e \in Event : e = call[s].event
    BY <1>1 DEF Call, Idle
  <1>3. PICK i \in Info : i = e.to.info
    BY DEF Event, Id
  <1>4. sched_id_[i] = InTransit(s)
    BY <1>2, <1>3 DEF RouteToMigrant
  <1>5. generation[i] = 0
    BY <1>4, Ids DEF FreshMigrants
  <1>6. e \in sent
    <2>1. PICK p \in Place : p = Spot("call", s)
      BY Spots
    <2>2. p.kind = "call" /\ p.at = s
      BY <2>1, Spots
    <2>3. Holds(p, e)
      BY <1>1, <1>2, <2>2 DEF Holds, Called
    <2> QED BY <2>3, OnlyThere
  <1>7. e.to.gen \in Nat
    <2>1. e.to.gen \in 0..MaxGen /\ MaxGen \in Nat
      BY DEF Event, Id, ConstantsAssumption
    <2> QED BY <2>1
  <1>8. e.to.gen < generation[e.to.info] \/ e.to = IdOf(e.to.info)
    BY <1>6 DEF EventInv, SentInv
  <1>9. e.to = IdOf(i)
    BY <1>3, <1>5, <1>7, <1>8
  <1>10. IsAlive(e.to)
    BY <1>9 DEF IsAlive, IdOf
  <1> QED BY <1>2, <1>10 DEF RouteToMigrant, Check

LEMMA KeyFailsThere ==
  ASSUME Next, "pending_key" \in failed'
  PROVE  \E s \in Sched : RouteToMigrant(s) /\ failed' # failed
PROOF
  <1>1. PICK s \in Sched : Proceed(s) \/ Receive(s) \/ HandlerCall(s)
    BY DEF Next
  <1>2. "pending_key" \notin failed /\ failed' # failed
    BY DEF Next
  <1>3. \A condition, name : Check(condition, name) => name = "pending_key"
    BY <1>2 DEF Check
  <1>4. ~RunMailbox(s) /\ ~RouteHere(s) /\ ~RouteAway(s) /\ ~NextEvent(s) /\ ~LeaveActor(s) /\ ~HandOver(s)
    BY <1>2 DEF RunMailbox, RouteHere, RouteAway, NextEvent, LeaveActor, HandOver
  <1>5. ~FlushMailbox(s) /\ ~StopActor(s) /\ ~DestroyActor(s) /\ ~StartMigrate(s)
    BY <1>3 DEF FlushMailbox, StopActor, DestroyActor, StartMigrate
  <1>6. ~ReceiveEvent(s) /\ ~ReceiveActor(s)
    BY <1>2, <1>3 DEF ReceiveEvent, ReceiveActor
  <1>7. ~HandlerCall(s)
    BY <1>2, <1>3 DEF HandlerCall, Send, Stop, Migrate, CreateActor
  <1> QED BY <1>1, <1>2, <1>4, <1>5, <1>6, <1>7 DEF Proceed, Receive

(* As long as no actor is in transit in a slot that was used before, no CHECK    *)
(* fails: send_to_scheduler finds the addressee that sched_id_ was read of, and  *)
(* does not index pending_events_ by a null ActorInfo (Scheduler.h:146).          *)
THEOREM ChecksHoldInNewSlots == SafeSpec /\ []FreshMigrants => []ChecksHold
PROOF
  <1>1. Init => ChecksHold
    BY DEF Init, ChecksHold
  <1>2. IInv /\ EventInv /\ IInv' /\ FreshMigrants /\ ChecksHold /\ [Next]_vars => ChecksHold'
    <2>1. SUFFICES ASSUME IInv, EventInv, IInv', FreshMigrants, ChecksHold, [Next]_vars PROVE ChecksHold'
      OBVIOUS
    <2>2. failed' \subseteq {"pending_key"}
      BY <2>1 DEF IInv, ChecksOk
    <2>3. CASE UNCHANGED vars
      BY <2>1, <2>3 DEF vars, ChecksHold
    <2>4. CASE Next
      <3>1. "pending_key" \notin failed'
        BY <2>1, <2>4, KeyFailsThere, MigrantIsAddressee, ConstantsAssumption
      <3> QED BY <2>2, <3>1 DEF ChecksHold
    <2> QED BY <2>1, <2>3, <2>4
  <1> QED BY <1>1, <1>2, EventsAccounted, PTL DEF SafeSpec
-----------------------------------------------------------------------------
(* Order, for any threads, slots, generations, messages and migrations: what    *)
(* one thread sends to an actor that has not migrated stays in order on its      *)
(* way, through queues, calls, pending_events_ and mailbox.                      *)

(* Wherever y is in q, x is before it.                                           *)
Before(q, x, y) == \A k \in DOMAIN q : q[k] = y => \E j \in DOMAIN q : j < k /\ q[j] = x

Post(e) == [op |-> "event", event |-> e]

(* e is for an actor that is there and was not told to migrate since the start. *)
Live(e) == e.kind = "msg" /\ IsAlive(e.to) /\ moves[e.to.info] = 0

Target(e) == sched_id_[e.to.info].dest

(* A guard with a destination is of an actor that called migrate().              *)
Stays == \A s \in Sched : \A k \in DOMAIN stack[s] : moves[stack[s][k].info] = 0 => stack[s][k].dest = NoSched

(* On its way such an event is with its sender or where the actor is going to be. *)
OnItsWay ==
  \A e \in sent, t \in Sched : Live(e) =>
    /\ Posted(t, e) => t = Target(e) /\ t # e.src
    /\ Called(t, e) => t = e.src \/ t = Target(e)

(* How far it is, for an actor in slot i that d owns or will own.                *)
Mailed(e, i)     == e \in handled \/ e \in ToSet(mailbox[i])
Reached(e, i, d) == Mailed(e, i) \/ e \in ToSet(pending_events[d][i])
Taken(e, i, d)   == Reached(e, i, d) \/ (e.src # d /\ Called(d, e))
Gone(e, i, d)    == Taken(e, i, d) \/ Posted(d, e)

(* f is at least as far as e, which was sent after it.                           *)
Precedes(f, e, i, d) ==
  /\ f \in handled \/ Before(mailbox[i], f, e)
  /\ Mailed(f, i) \/ Before(pending_events[d][i], f, e)
  /\ e.src # d /\ Called(d, e) => Reached(f, i, d)
  /\ Taken(f, i, d) \/ Before(inbound[d], Post(f), Post(e))
  /\ Gone(f, i, d)

After(f, e) == /\ f.kind = "msg" /\ e.kind = "msg" /\ f.src = e.src /\ f.to = e.to /\ f.n < e.n

Ordered ==
  \A e \in sent, f \in sent : After(f, e) /\ Live(e) => Precedes(f, e, e.to.info, Target(e))

OrderInv == Stays /\ OnItsWay /\ Ordered /\ InOrder

-----------------------------------------------------------------------------
(* Before *)

LEMMA NotIn ==
  ASSUME NEW q, NEW x, NEW y, y \notin ToSet(q)
  PROVE  Before(q, x, y)
PROOF BY DEF Before, ToSet

LEMMA BeforeIn ==
  ASSUME NEW q, NEW x, NEW y, Before(q, x, y), y \in ToSet(q)
  PROVE  x \in ToSet(q)
PROOF BY DEF Before, ToSet

LEMMA BeforeAppended ==
  ASSUME NEW S, NEW q \in Seq(S), NEW z \in S, NEW x, NEW y, Before(q, x, y), z = y => x \in ToSet(q)
  PROVE  Before(Append(q, z), x, y)
PROOF
  <1>1. PICK n : n = Len(q) + 1
    OBVIOUS
  <1>2. PICK r : r = Append(q, z)
    OBVIOUS
  <1>3. /\ r \in Seq(S) /\ Len(r) = n /\ Len(q) \in Nat /\ DOMAIN q = 1..Len(q) /\ DOMAIN r = 1..n
        /\ \A k \in 1..Len(q) : r[k] = q[k]
        /\ r[n] = z
    BY <1>1, <1>2, Appended, Elements
  <1>4. \A k \in DOMAIN q : k \in DOMAIN r /\ r[k] = q[k] /\ k < n
    BY <1>1, <1>3
  <1>5. \A k \in DOMAIN r : k \in DOMAIN q \/ k = n
    BY <1>1, <1>3
  <1>6. ASSUME NEW k \in DOMAIN r, r[k] = y PROVE \E j \in DOMAIN r : j < k /\ r[j] = x
    <2>1. CASE k \in DOMAIN q
      <3>1. PICK j \in DOMAIN q : j < k /\ q[j] = x
        BY <1>4, <1>6, <2>1 DEF Before
      <3> QED BY <1>4, <3>1
    <2>2. CASE k = n
      <3>1. PICK j \in DOMAIN q : q[j] = x
        BY <1>3, <1>6, <2>2 DEF ToSet
      <3> QED BY <1>4, <2>2, <3>1
    <2> QED BY <1>5, <2>1, <2>2
  <1> QED BY <1>2, <1>6 DEF Before

LEMMA BeforeTail ==
  ASSUME NEW S, NEW q \in Seq(S), q # <<>>, NEW x, NEW y, Before(q, x, y)
  PROVE  Head(q) # y /\ (Head(q) # x => Before(Tail(q), x, y))
PROOF
  <1>1. PICK r : r = Tail(q)
    OBVIOUS
  <1>2. /\ Head(q) = q[1] /\ Len(q) \in Nat \ {0}
        /\ DOMAIN q = 1..Len(q) /\ DOMAIN r = 1..Len(q) - 1
        /\ \A k \in 1..Len(q) - 1 : r[k] = q[k + 1]
    <2>1. r \in Seq(S) /\ Len(r) = Len(q) - 1 /\ Head(q) = q[1] /\ Len(q) \in Nat \ {0}
          /\ \A k \in 1..Len(q) - 1 : r[k] = q[k + 1]
      BY <1>1, Tailed
    <2> QED BY <2>1, Elements
  <1>3. 1 \in DOMAIN q /\ \A j \in DOMAIN q : ~(j < 1)
    BY <1>2
  <1>4. Head(q) # y
    BY <1>2, <1>3 DEF Before
  <1>5. ASSUME Head(q) # x, NEW k \in DOMAIN r, r[k] = y PROVE \E j \in DOMAIN r : j < k /\ r[j] = x
    <2>1. PICK m : m = k + 1
      OBVIOUS
    <2>2. m \in DOMAIN q /\ q[m] = y
      BY <1>2, <1>5, <2>1
    <2>3. PICK j \in DOMAIN q : j < m /\ q[j] = x
      BY <2>2 DEF Before
    <2>4. j # 1
      BY <1>2, <1>5, <2>3
    <2>5. PICK l : l = j - 1
      OBVIOUS
    <2>6. l \in DOMAIN r /\ l < k /\ r[l] = x
      <3>1. l \in 1..Len(q) - 1 /\ l < k /\ l + 1 = j
        BY <1>2, <2>1, <2>3, <2>4, <2>5
      <3>2. r[l] = q[j]
        BY <1>2, <3>1
      <3> QED BY <1>2, <2>3, <3>1, <3>2
    <2> QED BY <2>6
  <1> QED BY <1>1, <1>4, <1>5 DEF Before

LEMMA BeforeJoined ==
  ASSUME NEW S, NEW q \in Seq(S), NEW r \in Seq(S), NEW x, NEW y, Before(q, x, y),
         x \in ToSet(q) \/ Before(r, x, y)
  PROVE  Before(q \o r, x, y)
PROOF
  <1>1. PICK c : c = q \o r
    OBVIOUS
  <1>2. /\ Len(q) \in Nat /\ Len(r) \in Nat
        /\ DOMAIN q = 1..Len(q) /\ DOMAIN r = 1..Len(r) /\ DOMAIN c = 1..Len(q) + Len(r)
        /\ \A k \in 1..Len(q) + Len(r) : c[k] = IF k <= Len(q) THEN q[k] ELSE r[k - Len(q)]
    BY <1>1, ConcatProperties, LenProperties
  <1>3. \A k \in DOMAIN q : k \in DOMAIN c /\ c[k] = q[k]
    BY <1>2
  <1>4. \A k \in DOMAIN r : k + Len(q) \in DOMAIN c /\ c[k + Len(q)] = r[k]
    BY <1>2
  <1>5. \A k \in DOMAIN c : \/ k \in DOMAIN q
                            \/ /\ k - Len(q) \in DOMAIN r /\ c[k] = r[k - Len(q)] /\ \A j \in DOMAIN q : j < k
                               /\ \A j \in DOMAIN r : j < k - Len(q) => j + Len(q) < k
    BY <1>2
  <1>6. ASSUME NEW k \in DOMAIN c, c[k] = y PROVE \E j \in DOMAIN c : j < k /\ c[j] = x
    <2>1. CASE k \in DOMAIN q
      <3>1. PICK j \in DOMAIN q : j < k /\ q[j] = x
        BY <1>3, <1>6, <2>1 DEF Before
      <3> QED BY <1>3, <3>1
    <2>2. CASE k \notin DOMAIN q
      <3>1. PICK m \in DOMAIN r : m = k - Len(q) /\ r[m] = y
        BY <1>5, <1>6, <2>2
      <3>2. CASE x \in ToSet(q)
        <4>1. PICK j \in DOMAIN q : q[j] = x
          BY <3>2 DEF ToSet
        <4> QED BY <1>3, <1>5, <2>2, <4>1
      <3>3. CASE Before(r, x, y)
        <4>1. PICK j \in DOMAIN r : j < m /\ r[j] = x
          BY <3>1, <3>3 DEF Before
        <4>2. PICK l : l = j + Len(q)
          OBVIOUS
        <4>3. l \in DOMAIN c /\ c[l] = x /\ l < k
          BY <1>4, <1>5, <2>2, <3>1, <4>1, <4>2
        <4> QED BY <4>3
      <3> QED BY <3>2, <3>3
    <2> QED BY <2>1, <2>2
  <1> QED BY <1>1, <1>6 DEF Before

-----------------------------------------------------------------------------
(* Two events on their way *)

PairAt(f, e, i, d) ==
  /\ e \in sent /\ f \in sent /\ e \in Event /\ f \in Event /\ After(f, e)
  /\ i \in Info /\ i \in alive /\ d \in Sched
  /\ e.to = IdOf(i) /\ sched_id_[i].dest = d /\ moves[i] = 0
  /\ Precedes(f, e, i, d)

LEMMA PairOf ==
  ASSUME IInv, EventInv, OrderInv, NEW e \in sent, NEW f \in sent, After(f, e), Live(e)
  PROVE  /\ PairAt(f, e, e.to.info, Target(e)) /\ e \in Event /\ f \in Event
         /\ e.to.info \in Info /\ Target(e) \in Sched
PROOF
  <1>1. e \in Event /\ f \in Event /\ e.to \in Id /\ e.to.info \in Info
    BY DEF IInv, Types, Event, Id
  <1>2. e.to = IdOf(e.to.info)
    BY <1>1 DEF Live, IsAlive, IdOf, Id
  <1>3. e.to.gen = generation[e.to.info] /\ generation[e.to.info] \in 0..MaxGen
    BY <1>1 DEF Live, IsAlive, IInv, Types
  <1>4. ~(e.to.gen < generation[e.to.info])
    BY <1>3
  <1>5. e.to.info \in alive
    BY <1>4 DEF EventInv, SentInv
  <1>6. Target(e) \in Sched
    BY <1>1, <1>5 DEF IInv, Owning, InSlot, Target
  <1>7. Precedes(f, e, e.to.info, Target(e)) /\ moves[e.to.info] = 0
    BY DEF OrderInv, Ordered, Live
  <1> QED BY <1>1, <1>2, <1>5, <1>6, <1>7 DEF PairAt, Target

LEMMA PairFacts ==
  ASSUME IInv, NEW e, NEW f, NEW i, NEW d, PairAt(f, e, i, d)
  PROVE  /\ e # f /\ Post(e) # Post(f) /\ e.to.info = i /\ f.to.info = i /\ f.to = IdOf(i)
         /\ Live(e) /\ Live(f) /\ Target(e) = d /\ Target(f) = d
         /\ Post(e) \in Entry /\ Post(f) \in Entry
PROOF
  <1>1. e.n \in 0..MaxSends /\ f.n \in 0..MaxSends /\ f.n < e.n
    BY DEF PairAt, After, Event
  <1>2. e # f
    BY <1>1
  <1>3. Post(e) # Post(f) /\ Post(e) \in Entry /\ Post(f) \in Entry
    BY <1>2 DEF Post, Entry, PairAt
  <1>4. e.to = IdOf(i) /\ f.to = IdOf(i) /\ IdOf(i).info = i /\ IdOf(i).gen = generation[i]
    BY DEF PairAt, After, IdOf
  <1>5. Live(e) /\ Live(f)
    BY <1>4 DEF PairAt, After, Live, IsAlive
  <1>6. Target(e) = d /\ Target(f) = d
    BY <1>4 DEF PairAt, Target
  <1> QED BY <1>2, <1>3, <1>4, <1>5, <1>6

(* Nothing moves on the way to an actor that is there. *)
LEMMA OrderKept ==
  ASSUME IInv, EventInv, OrderInv, Stays',
         sent \subseteq sent', \A e \in sent' : e \in sent \/ e.kind # "msg",
         handled' = handled, dropped \subseteq dropped', pending_events' = pending_events,
         \A i \in Info : moves'[i] = 0 => moves[i] = 0,
         \A e \in sent : Live(e)' => /\ Live(e) /\ Target(e)' = Target(e)
                                     /\ mailbox'[e.to.info] = mailbox[e.to.info],
         \A t \in Sched, e \in Event : (Posted(t, e)' <=> Posted(t, e)) /\ (Called(t, e)' <=> Called(t, e)),
         \A t \in Sched : \A f, e \in Event :
           Before(inbound[t], Post(f), Post(e)) => Before(inbound'[t], Post(f), Post(e))
  PROVE  OrderInv'
PROOF
  <1>1. sent \subseteq Event
    BY DEF IInv, Types
  <1>2. ASSUME NEW e \in sent', Live(e)' PROVE e \in sent /\ Live(e) /\ Target(e)' = Target(e)
    <2>1. e.kind = "msg"
      BY <1>2 DEF Live
    <2> QED BY <1>2, <2>1
  <1>3. OnItsWay'
    <2>1. ASSUME NEW e \in sent', NEW t \in Sched, Live(e)'
          PROVE  /\ Posted(t, e)' => t = Target(e)' /\ t # e.src
                 /\ Called(t, e)' => t = e.src \/ t = Target(e)'
      <3>1. e \in sent /\ e \in Event /\ Live(e) /\ Target(e)' = Target(e)
        BY <1>1, <1>2, <2>1
      <3>2. (Posted(t, e)' <=> Posted(t, e)) /\ (Called(t, e)' <=> Called(t, e))
        BY <3>1
      <3> QED BY <3>1, <3>2 DEF OrderInv, OnItsWay
    <2> QED BY <2>1 DEF OnItsWay
  <1>4. Ordered'
    <2>1. ASSUME NEW e \in sent', NEW f \in sent', After(f, e), Live(e)'
          PROVE  Precedes(f, e, e.to.info, Target(e))'
      <3>1. e \in sent /\ f \in sent /\ Live(e) /\ Target(e)' = Target(e)
        BY <1>2, <2>1 DEF After
      <3>2. PICK i \in Info, d \in Sched : i = e.to.info /\ d = Target(e)
        BY <2>1, <3>1, PairOf
      <3>3. PairAt(f, e, i, d) /\ e \in Event /\ f \in Event
        BY <2>1, <3>1, <3>2, PairOf
      <3>4. mailbox'[i] = mailbox[i]
        BY <2>1, <3>1, <3>2
      <3>5. /\ (Called(d, e)' <=> Called(d, e)) /\ (Called(d, f)' <=> Called(d, f))
            /\ (Posted(d, f)' <=> Posted(d, f))
            /\ Before(inbound[d], Post(f), Post(e)) => Before(inbound'[d], Post(f), Post(e))
        BY <3>2, <3>3
      <3>6. Precedes(f, e, i, d)
        BY <3>3 DEF PairAt
      <3>7. Precedes(f, e, i, d)'
        BY <3>4, <3>5, <3>6 DEF Precedes, Gone, Taken, Reached, Mailed
      <3>8. e.to.info = i /\ Target(e)' = d
        BY <3>1, <3>2
      <3> QED BY <3>7, <3>8
    <2> QED BY <2>1 DEF Ordered
  <1>5. InOrder'
    <2>1. ASSUME NEW e \in handled', NEW f \in sent', After(f, e), moves'[e.to.info] = 0
          PROVE  f \in handled' \union dropped'
      <3>1. f \in sent /\ e \in handled /\ e.to.info \in Info
        BY <2>1 DEF After, IInv, Types, Event, Id
      <3> QED BY <2>1, <3>1 DEF OrderInv, InOrder, After
    <2> QED BY <2>1 DEF InOrder, After
  <1> QED BY <1>3, <1>4, <1>5 DEF OrderInv

-----------------------------------------------------------------------------
(* Destinations of guards *)

LEMMA StaysSame ==
  ASSUME Stays, stack' = stack, moves' = moves
  PROVE  Stays'
PROOF BY DEF Stays

LEMMA StaysPushed ==
  ASSUME Types, Stays, NEW s \in Sched, NEW g \in EventGuard, g.dest = NoSched,
         stack' = [stack EXCEPT ![s] = Append(@, g)], moves' = moves
  PROVE  Stays'
PROOF
  <1>1. /\ DOMAIN stack[s] = 1..Len(stack[s]) /\ Len(stack[s]) \in Nat
        /\ DOMAIN stack'[s] = 1..Len(stack[s]) + 1
        /\ \A k \in 1..Len(stack[s]) : stack'[s][k] = stack[s][k]
        /\ stack'[s][Len(stack[s]) + 1] = g
        /\ \A t \in Sched \ {s} : stack'[t] = stack[t]
    BY GuardPushed
  <1>2. \A k \in DOMAIN stack'[s] : (k \in DOMAIN stack[s] /\ stack'[s][k] = stack[s][k]) \/ stack'[s][k] = g
    BY <1>1
  <1>3. ASSUME NEW t \in Sched, NEW k \in DOMAIN stack'[t], moves'[stack'[t][k].info] = 0
        PROVE  stack'[t][k].dest = NoSched
    <2>1. CASE t = s
      BY <1>2, <1>3, <2>1 DEF Stays
    <2>2. CASE t # s
      <3>1. stack'[t] = stack[t]
        BY <1>1, <2>2
      <3> QED BY <1>3, <3>1 DEF Stays
    <2> QED BY <2>1, <2>2
  <1> QED BY <1>3 DEF Stays

LEMMA StaysPopped ==
  ASSUME Types, Stays, NEW s \in Sched, stack[s] # <<>>,
         stack' = [stack EXCEPT ![s] = Front(@)], moves' = moves
  PROVE  Stays'
PROOF
  <1>1. /\ DOMAIN stack[s] = 1..Len(stack[s]) /\ Len(stack[s]) \in Nat \ {0}
        /\ DOMAIN stack'[s] = 1..Len(stack[s]) - 1
        /\ \A k \in 1..Len(stack[s]) - 1 : stack'[s][k] = stack[s][k]
        /\ \A t \in Sched \ {s} : stack'[t] = stack[t]
    BY GuardPopped
  <1>2. \A k \in DOMAIN stack'[s] : k \in DOMAIN stack[s] /\ stack'[s][k] = stack[s][k]
    BY <1>1
  <1>3. ASSUME NEW t \in Sched, NEW k \in DOMAIN stack'[t], moves'[stack'[t][k].info] = 0
        PROVE  stack'[t][k].dest = NoSched
    <2>1. CASE t = s
      BY <1>2, <1>3, <2>1 DEF Stays
    <2>2. CASE t # s
      <3>1. stack'[t] = stack[t]
        BY <1>1, <2>2
      <3> QED BY <1>3, <3>1 DEF Stays
    <2> QED BY <2>1, <2>2
  <1> QED BY <1>3 DEF Stays

LEMMA StaysTop ==
  ASSUME Types, Stays, NEW s \in Sched, NEW g \in EventGuard, TopBecomes(s, g),
         moves'[g.info] = 0 => g.dest = NoSched, \A i \in Info : moves'[i] = 0 => moves[i] = 0
  PROVE  Stays'
PROOF
  <1>1. \A k \in DOMAIN stack'[s] : (k \in DOMAIN stack[s] /\ stack'[s][k] = stack[s][k]) \/ stack'[s][k] = g
    <2>1. \A k \in DOMAIN stack'[s] : (k \in DOMAIN stack[s] /\ k \in 1..Len(stack[s]) - 1) \/ k = Len(stack[s])
      BY DEF TopBecomes
    <2> QED BY <2>1, Zenon DEF TopBecomes
  <1>2. ASSUME NEW t \in Sched, NEW k \in DOMAIN stack[t], moves'[stack[t][k].info] = 0
        PROVE  stack[t][k].dest = NoSched
    <2>1. stack[t] \in Seq(EventGuard)
      BY DEF Types
    <2>2. stack[t][k] \in EventGuard
      BY <2>1, Elements
    <2>3. stack[t][k].info \in Info
      BY <2>2 DEF EventGuard
    <2> QED BY <1>2, <2>3 DEF Stays
  <1>3. ASSUME NEW t \in Sched, NEW k \in DOMAIN stack'[t], moves'[stack'[t][k].info] = 0
        PROVE  stack'[t][k].dest = NoSched
    <2>1. CASE t = s
      BY <1>1, <1>2, <1>3, <2>1
    <2>2. CASE t # s
      <3>1. stack'[t] = stack[t]
        BY <2>2 DEF TopBecomes
      <3> QED BY <1>2, <1>3, <3>1
    <2> QED BY <2>1, <2>2
  <1> QED BY <1>3 DEF Stays

-----------------------------------------------------------------------------
(* Steps of the lists, of the guards and of actors *)

(* Nothing that an order is about changes. *)
LEMMA OrderSame ==
  ASSUME IInv, EventInv, OrderInv, Stays', \A i \in Info : moves'[i] = 0 => moves[i] = 0,
         UNCHANGED <<generation, sched_id_, mailbox, pending_events, inbound, call, sent, handled>>,
         dropped \subseteq dropped'
  PROVE  OrderInv'
PROOF
  <1>1. ASSUME NEW e \in sent, Live(e)' PROVE Live(e) /\ Target(e)' = Target(e)
    <2>1. e.to.info \in Info
      BY DEF IInv, Types, Event, Id
    <2> QED BY <1>1, <2>1 DEF Live, IsAlive, Target
  <1>2. \A t \in Sched, e \in Event : (Posted(t, e)' <=> Posted(t, e)) /\ (Called(t, e)' <=> Called(t, e))
    BY DEF Posted, Called
  <1>3. \A t \in Sched : \A f, e \in Event :
          Before(inbound[t], Post(f), Post(e)) => Before(inbound'[t], Post(f), Post(e))
    OBVIOUS
  <1> QED BY <1>1, <1>2, <1>3, OrderKept

LEMMA RunMailboxOrder ==
  ASSUME IInv, EventInv, OrderInv, NEW s \in Sched, RunMailbox(s)
  PROVE  OrderInv'
PROOF
  <1>1. UNCHANGED <<generation, sched_id_, mailbox, pending_events, inbound, call, sent, handled, dropped, moves, stack>>
    BY DEF RunMailbox, slotVars, history
  <1>2. Stays'
    BY <1>1, StaysSame DEF OrderInv
  <1> QED BY <1>1, <1>2, OrderSame

LEMMA StopOrder ==
  ASSUME IInv, EventInv, OrderInv, NEW s \in Sched, Stop(s)
  PROVE  OrderInv'
PROOF
  <1>1. stack[s] # <<>>
    BY DEF Stop, InHandler
  <1>2. Innermost(s) \in EventGuard /\ Innermost(s) = stack[s][Len(stack[s])] /\ Len(stack[s]) \in DOMAIN stack[s]
    BY <1>1, InnermostOwned
  <1>3. PICK g : g = [Innermost(s) EXCEPT !.stop = TRUE]
    OBVIOUS
  <1>4. g \in EventGuard /\ g.info = Innermost(s).info /\ g.dest = Innermost(s).dest
    BY <1>2, <1>3 DEF EventGuard
  <1>5. stack' = [stack EXCEPT ![s][Len(stack[s])] = g]
    BY <1>2, <1>3 DEF Stop
  <1>6. UNCHANGED <<generation, sched_id_, mailbox, pending_events, inbound, call, sent, handled, dropped, moves>>
    BY DEF Stop, slotVars, runVars, history
  <1>7. TopBecomes(s, g)
    BY <1>1, <1>4, <1>5, TopChanged DEF IInv
  <1>8. Stays'
    <2>1. moves'[g.info] = 0 => g.dest = NoSched
      BY <1>2, <1>4, <1>6 DEF OrderInv, Stays
    <2> QED BY <1>4, <1>6, <1>7, <2>1, StaysTop DEF IInv, OrderInv
  <1> QED BY <1>6, <1>8, OrderSame

LEMMA MigrateOrder ==
  ASSUME ConstantsAssumption, IInv, EventInv, OrderInv, NEW s \in Sched, NEW d \in Destinations, Migrate(s, d)
  PROVE  OrderInv'
PROOF
  <1>1. stack[s] # <<>>
    BY DEF Migrate, InHandler
  <1>2. /\ Innermost(s) \in EventGuard /\ Innermost(s) = stack[s][Len(stack[s])] /\ Innermost(s).info \in Info
    BY <1>1, InnermostOwned
  <1>3. PICK g : g = [Innermost(s) EXCEPT !.dest = d]
    OBVIOUS
  <1>4. g \in EventGuard /\ g.info = Innermost(s).info
    BY <1>2, <1>3 DEF EventGuard, ConstantsAssumption
  <1>5. stack' = [stack EXCEPT ![s][Len(stack[s])] = g]
    BY <1>2, <1>3 DEF Migrate
  <1>6. /\ UNCHANGED <<generation, sched_id_, mailbox, pending_events, inbound, call, sent, handled, dropped>>
        /\ moves' = [moves EXCEPT ![g.info] = @ + 1]
    BY <1>4 DEF Migrate, slotVars, runVars
  <1>7. moves'[g.info] # 0 /\ \A i \in Info : moves'[i] = 0 => moves[i] = 0
    <2>1. moves \in [Info -> 0..MaxMoves] /\ MaxMoves \in Nat
      BY DEF IInv, Types, ConstantsAssumption
    <2>2. moves[g.info] \in Nat /\ moves'[g.info] = moves[g.info] + 1
      BY <1>2, <1>4, <1>6, <2>1
    <2>3. moves'[g.info] # 0
      BY <2>2
    <2> QED BY <1>6, <2>1, <2>3
  <1>8. TopBecomes(s, g)
    BY <1>1, <1>4, <1>5, TopChanged DEF IInv
  <1>9. Stays'
    BY <1>4, <1>7, <1>8, StaysTop DEF IInv, OrderInv
  <1> QED BY <1>6, <1>7, <1>9, OrderSame

LEMMA LeaveActorOrder ==
  ASSUME IInv, EventInv, OrderInv, NEW s \in Sched, LeaveActor(s)
  PROVE  OrderInv'
PROOF
  <1>1. /\ UNCHANGED <<generation, sched_id_, mailbox, pending_events, inbound, call, sent, handled, dropped, moves>>
        /\ stack[s] # <<>> /\ stack' = [stack EXCEPT ![s] = Front(@)]
    BY DEF LeaveActor, Done, InHandler, slotVars, history
  <1>2. Stays'
    BY <1>1, StaysPopped DEF IInv, OrderInv
  <1> QED BY <1>1, <1>2, OrderSame

LEMMA StopActorOrder ==
  ASSUME IInv, EventInv, OrderInv, NEW s \in Sched, StopActor(s)
  PROVE  OrderInv'
PROOF
  <1>1. InHandler(s)
    BY DEF StopActor, Done
  <1>2. PICK i \in Info : i = Innermost(s).info
    BY <1>1, DoneOf
  <1>3. stack[s] # <<>>
    BY <1>1, DoneOf
  <1>4. PICK g : g = DownGuard(i)
    OBVIOUS
  <1>5. g \in EventGuard /\ g.dest = NoSched
    BY <1>4 DEF DownGuard, Guard, EventGuard
  <1>6. /\ stack' = [stack EXCEPT ![s] = Append(Front(@), g)]
        /\ UNCHANGED <<generation, sched_id_, mailbox, pending_events, inbound, call, sent, handled, dropped, moves>>
    BY <1>2, <1>4 DEF StopActor, slotVars
  <1>7. TopBecomes(s, g)
    BY <1>3, <1>5, <1>6, TopReplaced DEF IInv
  <1>8. Stays'
    BY <1>5, <1>6, <1>7, StaysTop DEF IInv, OrderInv
  <1> QED BY <1>6, <1>8, OrderSame

(* Who is sent on had called migrate(). *)
LEMMA StartMigrateOrder ==
  ASSUME IInv, EventInv, OrderInv, NEW s \in Sched, StartMigrate(s)
  PROVE  OrderInv'
PROOF
  <1>1. InHandler(s) /\ Innermost(s).dest # NoSched
    BY DEF StartMigrate, Done
  <1>2. PICK i \in Info : i = Innermost(s).info
    BY <1>1, DoneOf
  <1>3. stack[s] # <<>> /\ call[s] = Idle /\ Innermost(s) = stack[s][Len(stack[s])]
    BY <1>1, DoneOf
  <1>4. PICK d : d = Innermost(s).dest
    OBVIOUS
  <1>5. /\ sched_id_' = [sched_id_ EXCEPT ![i] = InTransit(d)]
        /\ call' = [call EXCEPT ![s] = [op |-> "handover", info |-> i, dest |-> d]]
        /\ stack' = [stack EXCEPT ![s] = Front(@)]
        /\ UNCHANGED <<generation, sent, handled, dropped, mailbox, pending_events, inbound, moves>>
    BY <1>2, <1>4 DEF StartMigrate, history
  <1>6. Stays'
    BY <1>3, <1>5, StaysPopped DEF IInv, OrderInv
  <1>7. moves[i] # 0
    <2>1. Len(stack[s]) \in DOMAIN stack[s]
      BY <1>3, InnermostOwned
    <2> QED BY <1>1, <1>2, <1>3, <2>1 DEF OrderInv, Stays
  <1>8. \A j \in Info \ {i} : sched_id_'[j] = sched_id_[j]
    BY <1>5 DEF IInv, Types
  <1>9. ASSUME NEW e \in sent, Live(e)' PROVE Live(e) /\ Target(e)' = Target(e) /\ mailbox'[e.to.info] = mailbox[e.to.info]
    <2>1. e.to.info \in Info
      BY DEF IInv, Types, Event, Id
    <2>2. Live(e)
      BY <1>5, <1>9 DEF Live, IsAlive
    <2>3. e.to.info # i
      BY <1>7, <2>2 DEF Live
    <2> QED BY <1>5, <1>8, <2>1, <2>2, <2>3 DEF Target
  <1>10. PICK c : c = [op |-> "handover", info |-> i, dest |-> d]
    OBVIOUS
  <1>11. c.op # "send" /\ call[s].op # "send" /\ call' = [call EXCEPT ![s] = c]
    BY <1>3, <1>5, <1>10 DEF Idle
  <1>12. \A t \in Sched, e \in Event : Called(t, e)' <=> Called(t, e)
    BY <1>11, SendsKept DEF IInv
  <1>13. \A t \in Sched, e \in Event : (Posted(t, e)' <=> Posted(t, e)) /\ (Called(t, e)' <=> Called(t, e))
    BY <1>5, <1>12 DEF Posted
  <1>14. \A t \in Sched : \A f, e \in Event :
          Before(inbound[t], Post(f), Post(e)) => Before(inbound'[t], Post(f), Post(e))
    BY <1>5
  <1>15. /\ sent' = sent /\ handled' = handled /\ dropped' = dropped /\ pending_events' = pending_events
         /\ \A j \in Info : moves'[j] = 0 => moves[j] = 0
    BY <1>5
  <1> QED BY <1>6, <1>9, <1>13, <1>14, <1>15, OrderKept

LEMMA HandOverOrder ==
  ASSUME IInv, EventInv, OrderInv, NEW s \in Sched, HandOver(s)
  PROVE  OrderInv'
PROOF
  <1>1. call[s].op = "handover" /\ call[s] \in Call
    BY DEF HandOver, IInv, Types
  <1>2. call[s].info \in Info /\ call[s].dest \in Sched
    BY <1>1 DEF Call, Idle
  <1>3. PICK d \in Sched, i \in Info : d = call[s].dest /\ i = call[s].info
    BY <1>2
  <1>4. PICK x : x = [op |-> "actor", info |-> i]
    OBVIOUS
  <1>5. x \in Entry /\ x.op = "actor" /\ \A e : Post(e).op = "event"
    BY <1>4 DEF Entry, Post
  <1>6. /\ inbound' = [inbound EXCEPT ![d] = Append(@, x)]
        /\ call' = [call EXCEPT ![s] = Idle]
        /\ UNCHANGED <<generation, sched_id_, sent, handled, dropped, mailbox, pending_events, moves, stack>>
    BY <1>3, <1>4 DEF HandOver, slotVars, runVars, history
  <1>7. Stays'
    BY <1>6, StaysSame DEF OrderInv
  <1>8. \A t \in Sched, e \in Event : Posted(t, e)' <=> Posted(t, e) \/ (t = d /\ x.op = "event" /\ x.event = e)
    <2>1. \A t \in Sched : QueueOnce(t)
      BY QueuesOnce
    <2> QED BY <1>5, <1>6, <2>1, PostedPut DEF IInv
  <1>9. \A t \in Sched, e \in Event : Called(t, e)' <=> Called(t, e)
    <2>1. Idle.op # "send" /\ call[s].op # "send"
      BY <1>1 DEF Idle
    <2> QED BY <1>6, <2>1, SendsKept DEF IInv
  <1>10. \A t \in Sched, e \in Event : (Posted(t, e)' <=> Posted(t, e)) /\ (Called(t, e)' <=> Called(t, e))
    BY <1>5, <1>8, <1>9
  <1>11. ASSUME NEW t \in Sched, NEW f \in Event, NEW e \in Event, Before(inbound[t], Post(f), Post(e))
         PROVE  Before(inbound'[t], Post(f), Post(e))
    <2>1. CASE t = d
      <3>1. inbound[d] \in Seq(Entry) /\ inbound'[d] = Append(inbound[d], x)
        BY <1>6 DEF IInv, Types
      <3>2. x # Post(e)
        BY <1>5
      <3>3. Before(Append(inbound[d], x), Post(f), Post(e))
        BY <1>5, <1>11, <2>1, <3>1, <3>2, BeforeAppended
      <3> QED BY <2>1, <3>1, <3>3
    <2>2. CASE t # d
      <3>1. inbound'[t] = inbound[t]
        BY <1>6, <2>2 DEF IInv, Types
      <3> QED BY <1>11, <3>1
    <2> QED BY <2>1, <2>2
  <1>12. ASSUME NEW e \in sent, Live(e)' PROVE Live(e) /\ Target(e)' = Target(e) /\ mailbox'[e.to.info] = mailbox[e.to.info]
    BY <1>6, <1>12 DEF Live, IsAlive, Target
  <1>13. /\ sent' = sent /\ handled' = handled /\ dropped' = dropped /\ pending_events' = pending_events
         /\ \A j \in Info : moves'[j] = 0 => moves[j] = 0
    BY <1>6
  <1> QED BY <1>7, <1>10, <1>11, <1>12, <1>13, OrderKept

(* What was sent is for earlier actors in the slot. *)
LEMMA CreateActorOrder ==
  ASSUME ConstantsAssumption, IInv, EventInv, OrderInv, NEW s \in Sched, NEW i \in Info,
         NEW d \in Destinations \union {s}, CreateActor(s, i, d)
  PROVE  OrderInv'
PROOF
  <1>1. PICK x \in Event : x = StartOf(IdOf(i), s)
    BY SlotTaken
  <1>2. /\ call[s] = Idle /\ i \notin alive /\ sent' = sent \union {x}
        /\ \A j \in Info \ {i} : mailbox'[j] = mailbox[j]
    BY <1>1, SlotTaken
  <1>3. UNCHANGED <<generation, pending_events, inbound, stack, handled, dropped, moves>>
    BY DEF CreateActor
  <1>4. \A j \in Info \ {i} : sched_id_'[j] = sched_id_[j]
    BY DEF CreateActor, IInv, Types
  <1>5. Stays'
    BY <1>3, StaysSame DEF OrderInv
  <1>6. ASSUME NEW e \in sent, Live(e)' PROVE Live(e) /\ Target(e)' = Target(e) /\ mailbox'[e.to.info] = mailbox[e.to.info]
    <2>1. e.to.info \in Info /\ generation[e.to.info] \in 0..MaxGen
      BY DEF IInv, Types, Event, Id
    <2>2. Live(e)
      BY <1>3, <1>6 DEF Live, IsAlive
    <2>3. e.to.info # i
      <3>1. ~(e.to.gen < generation[e.to.info])
        BY <2>1, <2>2 DEF Live, IsAlive
      <3> QED BY <1>2, <3>1 DEF EventInv, SentInv
    <2> QED BY <1>2, <1>4, <2>1, <2>2, <2>3 DEF Target
  <1>7. \A t \in Sched, e \in Event : Called(t, e)' <=> Called(t, e)
    <2>1. CASE d = s
      BY <2>1 DEF CreateActor, Called
    <2>2. CASE d # s
      <3>1. PICK c : c = [op |-> "handover", info |-> i, dest |-> d]
        OBVIOUS
      <3>2. c.op # "send" /\ call[s].op # "send" /\ call' = [call EXCEPT ![s] = c]
        BY <1>2, <2>2, <3>1 DEF Idle, CreateActor
      <3> QED BY <3>2, SendsKept DEF IInv
    <2> QED BY <2>1, <2>2
  <1>8. \A t \in Sched, e \in Event : (Posted(t, e)' <=> Posted(t, e)) /\ (Called(t, e)' <=> Called(t, e))
    BY <1>3, <1>7 DEF Posted
  <1>9. \A t \in Sched : \A f, e \in Event :
          Before(inbound[t], Post(f), Post(e)) => Before(inbound'[t], Post(f), Post(e))
    BY <1>3
  <1>10. /\ sent \subseteq sent' /\ \A e \in sent' : e \in sent \/ e.kind # "msg"
         /\ handled' = handled /\ dropped' = dropped /\ pending_events' = pending_events
         /\ \A j \in Info : moves'[j] = 0 => moves[j] = 0
    BY <1>1, <1>2, <1>3 DEF StartOf
  <1> QED BY <1>5, <1>6, <1>8, <1>9, <1>10, OrderKept

(* The mail of the actor is dropped with it. *)
LEMMA DestroyActorOrder ==
  ASSUME ConstantsAssumption, IInv, EventInv, OrderInv, NEW s \in Sched, DestroyActor(s)
  PROVE  OrderInv'
PROOF
  <1>1. InHandler(s)
    BY DEF DestroyActor
  <1>2. PICK i \in Info : i = Innermost(s).info
    BY <1>1, DoneOf
  <1>3. stack[s] # <<>>
    BY <1>1, DoneOf
  <1>4. /\ dropped \subseteq dropped'
        /\ mailbox' = [mailbox EXCEPT ![i] = <<>>]
        /\ generation' = [generation EXCEPT ![i] = @ + 1]
        /\ sched_id_' = [sched_id_ EXCEPT ![i] = Owner(NoSched)]
        /\ stack' = [stack EXCEPT ![s] = Front(@)]
        /\ UNCHANGED <<pending_events, inbound, call, sent, handled, moves>>
    BY <1>2 DEF DestroyActor
  <1>5. /\ \A j \in Info \ {i} : mailbox'[j] = mailbox[j]
        /\ \A j \in Info \ {i} : sched_id_'[j] = sched_id_[j]
        /\ generation'[i] = generation[i] + 1 /\ \A j \in Info \ {i} : generation'[j] = generation[j]
        /\ generation \in [Info -> 0..MaxGen] /\ MaxGen \in Nat
    BY <1>4 DEF IInv, Types, ConstantsAssumption
  <1>6. Stays'
    BY <1>3, <1>4, StaysPopped DEF IInv, OrderInv
  <1>7. ASSUME NEW e \in sent, Live(e)' PROVE Live(e) /\ Target(e)' = Target(e) /\ mailbox'[e.to.info] = mailbox[e.to.info]
    <2>1. e \in Event /\ e.to \in Id /\ e.to.info \in Info
      BY DEF IInv, Types, Event, Id
    <2>2. e.to.info # i
      <3>1. SUFFICES ASSUME e.to.info = i PROVE FALSE
        OBVIOUS
      <3>2. e.to.gen = generation[i] + 1 /\ generation[i] \in Nat
        <4>1. generation'[e.to.info] = e.to.gen
          BY <1>7 DEF Live, IsAlive
        <4>2. generation[i] \in 0..MaxGen /\ MaxGen \in Nat
          BY <1>5
        <4>3. generation[i] \in Nat
          BY <4>2
        <4>4. generation'[i] = generation[i] + 1
          BY <1>5
        <4> QED BY <3>1, <4>1, <4>3, <4>4
      <3>3. e.to.gen < generation[i] \/ e.to.gen = generation[i]
        <4>1. e.to.gen < generation[e.to.info] \/ e.to = IdOf(e.to.info)
          BY DEF EventInv, SentInv
        <4>2. e.to = IdOf(e.to.info) => e.to.gen = generation[e.to.info]
          BY DEF IdOf
        <4> QED BY <3>1, <4>1, <4>2
      <3> QED BY <3>2, <3>3
    <2>3. Live(e)
      BY <1>4, <1>5, <1>7, <2>1, <2>2 DEF Live, IsAlive
    <2> QED BY <1>5, <2>1, <2>2, <2>3 DEF Target
  <1>8. \A t \in Sched, e \in Event : (Posted(t, e)' <=> Posted(t, e)) /\ (Called(t, e)' <=> Called(t, e))
    BY <1>4 DEF Posted, Called
  <1>9. \A t \in Sched : \A f, e \in Event :
          Before(inbound[t], Post(f), Post(e)) => Before(inbound'[t], Post(f), Post(e))
    BY <1>4
  <1>10. sent' = sent /\ \A j \in Info : moves'[j] = 0 => moves[j] = 0
    BY <1>4
  <1> QED BY <1>4, <1>6, <1>7, <1>8, <1>9, <1>10, OrderKept

-----------------------------------------------------------------------------
(* Steps that move events *)

LEMMA HandledSent ==
  ASSUME IInv, EventInv
  PROVE  handled \subseteq sent
PROOF
  <1>1. PICK p \in Place : p = Spot("handled", NoSched)
    BY Spots
  <1>2. p.kind = "handled"
    BY <1>1, Spots
  <1>3. \A e \in handled : e \in Event /\ Holds(p, e)
    BY <1>2 DEF Holds, IInv, Types
  <1> QED BY <1>3, OnlyThere

(* A step keeps the order if it does for any two events on their way. *)
LEMMA OrderByPairs ==
  ASSUME IInv, EventInv, OrderInv, Stays', OnItsWay',
         sent' = sent, generation' = generation, moves' = moves, dropped \subseteq dropped',
         handled \subseteq handled', handled' \subseteq sent',
         \A i \in Info : sched_id_'[i].dest = sched_id_[i].dest,
         \A e \in handled' : e \in handled \/ IsAlive(e.to),
         \A f \in Event, e \in Event, i \in Info, d \in Sched : PairAt(f, e, i, d) =>
           /\ Precedes(f, e, i, d)'
           /\ e \in handled' => e \in handled \/ f \in handled'
  PROVE  OrderInv'
PROOF
  <1>1. \A e \in sent : e \in Event /\ e.to.info \in Info
    BY DEF IInv, Types, Event, Id
  <1>2. Ordered'
    <2>1. ASSUME NEW e \in sent', NEW f \in sent', After(f, e), Live(e)'
          PROVE  Precedes(f, e, e.to.info, Target(e))'
      <3>1. e \in sent /\ f \in sent /\ Live(e) /\ Target(e)' = Target(e)
        BY <1>1, <2>1 DEF Live, IsAlive, Target
      <3>2. PICK i \in Info, d \in Sched : i = e.to.info /\ d = Target(e)
        BY <2>1, <3>1, PairOf
      <3>3. PairAt(f, e, i, d) /\ e \in Event /\ f \in Event
        BY <2>1, <3>1, <3>2, PairOf
      <3>4. Precedes(f, e, i, d)'
        BY <3>3
      <3> QED BY <3>1, <3>2, <3>4
    <2> QED BY <2>1 DEF Ordered
  <1>3. InOrder'
    <2>1. ASSUME NEW e \in handled', NEW f \in sent', After(f, e), moves'[e.to.info] = 0
          PROVE  f \in handled' \union dropped'
      <3>1. CASE e \in handled
        BY <2>1, <3>1 DEF OrderInv, InOrder, After
      <3>2. CASE e \notin handled
        <4>1. Live(e)
          BY <2>1, <3>2 DEF Live, After
        <4>2. e \in sent /\ f \in sent
          <5>1. handled' \subseteq sent' /\ sent' = sent
            OBVIOUS
          <5> QED BY <2>1, <5>1
        <4>3. PICK i \in Info, d \in Sched : i = e.to.info /\ d = Target(e)
          BY <2>1, <4>1, <4>2, PairOf
        <4>4. PairAt(f, e, i, d) /\ e \in Event /\ f \in Event
          BY <2>1, <4>1, <4>2, <4>3, PairOf
        <4> QED BY <2>1, <3>2, <4>4
      <3> QED BY <3>1, <3>2
    <2> QED BY <2>1 DEF InOrder, After
  <1> QED BY <1>2, <1>3 DEF OrderInv

(* Where the sender is, and its calls, do not matter if no new call begins. *)
LEMMA WayKept ==
  ASSUME IInv, OrderInv, sent' = sent, generation' = generation, moves' = moves,
         \A i \in Info : sched_id_'[i].dest = sched_id_[i].dest,
         \A t \in Sched, e \in Event : (Posted(t, e)' => Posted(t, e)) /\ (Called(t, e)' => Called(t, e))
  PROVE  OnItsWay'
PROOF
  <1>1. ASSUME NEW e \in sent', NEW t \in Sched, Live(e)'
        PROVE  /\ Posted(t, e)' => t = Target(e)' /\ t # e.src
               /\ Called(t, e)' => t = e.src \/ t = Target(e)'
    <2>1. e \in sent /\ e \in Event /\ e.to.info \in Info
      BY DEF IInv, Types, Event, Id
    <2>2. Live(e) /\ Target(e)' = Target(e)
      BY <1>1, <2>1 DEF Live, IsAlive, Target
    <2>3. (Posted(t, e)' => Posted(t, e)) /\ (Called(t, e)' => Called(t, e))
      BY <2>1
    <2> QED BY <2>1, <2>2, <2>3 DEF OrderInv, OnItsWay
  <1> QED BY <1>1 DEF OnItsWay

(* The first event of a mailbox is handled. *)
LEMMA FirstHandledOrder ==
  ASSUME IInv, EventInv, OrderInv, NEW i \in Info, i \in alive, mailbox[i] # <<>>, Stays',
         mailbox' = [mailbox EXCEPT ![i] = Tail(@)],
         handled' = handled \union {Head(mailbox[i])},
         UNCHANGED <<generation, sched_id_, sent, dropped, pending_events, inbound, call, moves>>
  PROVE  OrderInv'
PROOF
  <1>1. mailbox \in [Info -> Seq(Event)] /\ mailbox[i] \in Seq(Event)
    BY DEF IInv, Types
  <1>2. PICK x : x = Head(mailbox[i])
    OBVIOUS
  <1>3. PICK rest : rest = Tail(mailbox[i])
    OBVIOUS
  <1>4. /\ mailbox'[i] = rest /\ \A j \in Info \ {i} : mailbox'[j] = mailbox[j]
        /\ handled' = handled \union {x} /\ ToSet(mailbox[i]) = ToSet(rest) \union {x}
    BY <1>1, <1>2, <1>3, Tailed
  <1>5. x.to = IdOf(i) /\ x.to.info = i /\ IsAlive(x.to)
    BY <1>4 DEF EventInv, Addressed, IdOf, IsAlive
  <1>6. \A t \in Sched, e \in Event : (Posted(t, e)' <=> Posted(t, e)) /\ (Called(t, e)' <=> Called(t, e))
    BY DEF Posted, Called
  <1>7. OnItsWay'
    BY <1>6, WayKept
  <1>8. ASSUME NEW f \in Event, NEW e \in Event, NEW j \in Info, NEW d \in Sched, PairAt(f, e, j, d)
        PROVE  /\ Precedes(f, e, j, d)'
               /\ e \in handled' => e \in handled \/ f \in handled'
    <2>1. Precedes(f, e, j, d) /\ e.to.info = j
      BY <1>8, PairFacts DEF PairAt
    <2>2. Mailed(f, j) => Mailed(f, j)'
      BY <1>4 DEF Mailed
    <2>3. (Reached(f, j, d) => Reached(f, j, d)') /\ (Taken(f, j, d) => Taken(f, j, d)')
          /\ (Gone(f, j, d) => Gone(f, j, d)')
      BY <1>6, <2>2 DEF Reached, Taken, Gone
    <2>4. (f \in handled' \/ Before(mailbox'[j], f, e)) /\ (e \in handled' => e \in handled \/ f \in handled')
      <3>1. CASE j # i
        <4>1. e # x
          BY <1>5, <2>1, <3>1
        <4> QED BY <1>4, <2>1, <3>1, <4>1 DEF Precedes
      <3>2. CASE j = i /\ f \in handled
        BY <1>4, <3>2
      <3>3. CASE j = i /\ Before(mailbox[i], f, e)
        <4>1. x # e /\ (x # f => Before(rest, f, e))
          BY <1>1, <1>2, <1>3, <3>3, BeforeTail
        <4> QED BY <1>4, <3>3, <4>1
      <3> QED BY <2>1, <3>1, <3>2, <3>3 DEF Precedes
    <2>5. Precedes(f, e, j, d)'
      BY <1>6, <2>1, <2>2, <2>3, <2>4 DEF Precedes
    <2> QED BY <2>4, <2>5
  <1>9. \A e \in handled' : e \in handled \/ IsAlive(e.to)
    BY <1>4, <1>5
  <1>10. handled \subseteq handled' /\ dropped \subseteq dropped' /\ \A j \in Info : sched_id_'[j].dest = sched_id_[j].dest
    BY <1>4
  <1>11. handled' \subseteq sent'
    <2>1. x \in Event /\ x \in ToSet(mailbox[i])
      BY <1>1, <1>2, <1>4, Tailed
    <2>2. PICK p \in Place : p = Spot("mailbox", NoSched)
      BY Spots
    <2>3. Holds(p, x)
      <3>1. p.kind = "mailbox"
        BY <2>2, Spots
      <3> QED BY <1>5, <2>1, <3>1 DEF Holds
    <2>4. x \in sent
      BY <2>1, <2>3, OnlyThere
    <2> QED BY <1>4, <2>4, HandledSent
  <1> QED BY <1>7, <1>8, <1>9, <1>10, <1>11, OrderByPairs

LEMMA FlushMailboxOrder ==
  ASSUME ConstantsAssumption, IInv, EventInv, OrderInv, NEW s \in Sched, FlushMailbox(s)
  PROVE  OrderInv'
PROOF
  <1>1. PICK i : i = Head(batch[s])
    OBVIOUS
  <1>2. PICK n : n = Len(mailbox[i]) - 1
    OBVIOUS
  <1>3. /\ i \in Info /\ i \in alive /\ mailbox[i] # <<>> /\ mailbox[i] \in Seq(Event)
        /\ Enter(s, i, Head(mailbox[i]), n)
        /\ mailbox' = [mailbox EXCEPT ![i] = Tail(@)]
    BY <1>1, <1>2, FlushFinds
  <1>4. UNCHANGED <<generation, sched_id_, pending_events, inbound, call, sent, dropped, moves>>
    BY DEF FlushMailbox, slotVars
  <1>5. PICK g \in EventGuard : g = Guard(i, n)
    <2>1. Len(mailbox[i]) \in Nat \ {0}
      BY <1>3, Tailed
    <2>2. n \in Nat
      BY <1>2, <2>1
    <2> QED BY <1>3, <2>2 DEF Guard, EventGuard
  <1>6. stack' = [stack EXCEPT ![s] = Append(@, g)] /\ handled' = handled \union {Head(mailbox[i])}
        /\ g.dest = NoSched
    BY <1>3, <1>5 DEF Enter, Guard
  <1>7. Stays'
    BY <1>4, <1>6, StaysPushed DEF IInv, OrderInv
  <1> QED BY <1>3, <1>4, <1>6, <1>7, FirstHandledOrder

LEMMA NextEventOrder ==
  ASSUME ConstantsAssumption, IInv, EventInv, OrderInv, NEW s \in Sched, NextEvent(s)
  PROVE  OrderInv'
PROOF
  <1>1. InHandler(s)
    BY DEF NextEvent, Done
  <1>2. PICK i \in Info : i = Innermost(s).info
    BY <1>1, DoneOf
  <1>3. /\ stack[s] # <<>> /\ Innermost(s) \in EventGuard /\ Innermost(s) = stack[s][Len(stack[s])]
        /\ i \in alive /\ Innermost(s).left \in Nat /\ Innermost(s).left <= Len(mailbox[i])
        /\ mailbox[i] \in Seq(Event)
    BY <1>1, <1>2, DoneOf
  <1>4. PICK g : g = [Innermost(s) EXCEPT !.left = @ - 1]
    OBVIOUS
  <1>5. /\ Innermost(s).left > 0 /\ Innermost(s).dest = NoSched
        /\ stack' = [stack EXCEPT ![s][Len(stack[s])].left = @ - 1]
        /\ handled' = handled \union {Head(mailbox[i])}
        /\ mailbox' = [mailbox EXCEPT ![i] = Tail(@)]
    BY <1>2 DEF NextEvent
  <1>6. stack' = [stack EXCEPT ![s][Len(stack[s])] = g]
    BY <1>3, <1>4, <1>5
  <1>7. g \in EventGuard /\ g.info = Innermost(s).info /\ g.dest = NoSched
    <2>1. Innermost(s).left - 1 \in Nat
      BY <1>3, <1>5
    <2> QED BY <1>3, <1>4, <1>5, <2>1 DEF EventGuard
  <1>8. UNCHANGED <<generation, sched_id_, pending_events, inbound, call, sent, dropped, moves>>
    BY DEF NextEvent, slotVars
  <1>9. mailbox[i] # <<>>
    BY <1>3, <1>5
  <1>10. TopBecomes(s, g)
    BY <1>3, <1>6, <1>7, TopChanged DEF IInv
  <1>11. Stays'
    BY <1>7, <1>8, <1>10, StaysTop DEF IInv, OrderInv
  <1> QED BY <1>3, <1>5, <1>8, <1>9, <1>11, FirstHandledOrder

(* A call that may route an event has the ones sent before it behind: they are *)
(* with the actor, or wait for it.                                              *)
LEMMA RoutedAfter ==
  ASSUME IInv, EventInv, OrderInv, NEW f \in Event, NEW e \in Event, NEW i \in Info, NEW d \in Sched,
         PairAt(f, e, i, d), Called(d, e)
  PROVE  Reached(f, i, d)
PROOF
  <1>1. Precedes(f, e, i, d) /\ f.src = e.src /\ f \in sent /\ Live(f) /\ Target(f) = d
    BY PairFacts DEF PairAt, After
  <1>2. CASE e.src # d
    BY <1>1, <1>2 DEF Precedes
  <1>3. CASE e.src = d
    <2>1. ~Posted(d, f)
      BY <1>1, <1>3 DEF OrderInv, OnItsWay
    <2> QED BY <1>1, <1>3, <2>1 DEF Precedes, Gone, Taken
  <1> QED BY <1>2, <1>3

LEMMA RunNowOrder ==
  ASSUME ConstantsAssumption, IInv, EventInv, OrderInv, NEW s \in Sched, NEW x \in Event, NEW i \in Info,
         Routing(s, i, x), mailbox[i] = <<>>, RunNow(s, i, x)
  PROVE  OrderInv'
PROOF
  <1>1. /\ sched_id_[i] = Owner(s)
        /\ call[s].op = "send" /\ call' = [call EXCEPT ![s] = Idle]
        /\ UNCHANGED <<mailbox, generation, sched_id_, pending_events, inbound, sent, dropped, moves>>
    BY DEF RunNow, slotVars
  <1>2. Called(s, x) /\ x = call[s].event /\ i = x.to.info
    BY DEF Routing
  <1>3. x.to = IdOf(i) /\ IsAlive(x.to)
    BY <1>1, <1>2, CalledHere DEF IsAlive, IdOf
  <1>4. PICK g \in EventGuard : g = Guard(i, 0)
    BY DEF Guard, EventGuard
  <1>5. stack' = [stack EXCEPT ![s] = Append(@, g)] /\ handled' = handled \union {x} /\ g.dest = NoSched
    BY <1>4 DEF Enter, RunNow, Guard
  <1>6. Stays'
    BY <1>1, <1>5, StaysPushed DEF IInv, OrderInv
  <1>7. \A t \in Sched, f \in Event : Called(t, f)' <=> Called(t, f) /\ ~(t = s /\ f = x)
    BY <1>1, <1>2, SendEnds DEF IInv
  <1>8. \A t \in Sched, f \in Event : Posted(t, f)' <=> Posted(t, f)
    BY <1>1 DEF Posted
  <1>9. OnItsWay'
    BY <1>1, <1>7, <1>8, WayKept
  <1>10. ASSUME NEW f \in Event, NEW e \in Event, NEW j \in Info, NEW d \in Sched, PairAt(f, e, j, d)
         PROVE  /\ Precedes(f, e, j, d)'
                /\ e \in handled' => e \in handled \/ f \in handled'
    <2>1. Precedes(f, e, j, d) /\ e.to.info = j /\ f.to.info = j /\ sched_id_[j].dest = d
      BY <1>10, PairFacts DEF PairAt
    <2>2. Mailed(f, j) => Mailed(f, j)'
      BY <1>1, <1>5 DEF Mailed
    <2>3. Reached(f, j, d) => Reached(f, j, d)'
      BY <1>1, <2>2 DEF Reached
    <2>4. Taken(f, j, d) => Taken(f, j, d)'
      <3>1. f = x => Reached(f, j, d)'
        BY <1>5 DEF Reached, Mailed
      <3> QED BY <1>7, <2>3, <3>1 DEF Taken
    <2>5. Gone(f, j, d) => Gone(f, j, d)'
      BY <1>8, <2>4 DEF Gone
    <2>6. Called(d, e)' => Called(d, e)
      BY <1>7
    <2>7. Precedes(f, e, j, d)'
      BY <1>1, <1>5, <2>1, <2>2, <2>3, <2>4, <2>5, <2>6 DEF Precedes
    <2>8. ASSUME e \in handled', e \notin handled PROVE f \in handled'
      <3>1. e = x /\ j = i /\ d = s
        BY <1>1, <1>2, <1>5, <2>1, <2>8, Ids
      <3>2. Reached(f, i, s)
        BY <1>2, <1>10, <3>1, RoutedAfter
      <3>3. f \notin ToSet(pending_events[s][i])
        BY <1>1, Ids DEF EventInv, Addressed
      <3>4. f \notin ToSet(mailbox[i])
        BY None
      <3> QED BY <1>5, <3>2, <3>3, <3>4 DEF Reached, Mailed
    <2> QED BY <2>7, <2>8
  <1>11. \A e \in handled' : e \in handled \/ IsAlive(e.to)
    BY <1>3, <1>5
  <1>12. handled' \subseteq sent'
    <2>1. PICK p \in Place : p = Spot("call", s)
      BY Spots
    <2>2. Holds(p, x)
      <3>1. p.kind = "call" /\ p.at = s
        BY <2>1, Spots
      <3> QED BY <1>2, <3>1 DEF Holds
    <2>3. x \in sent
      BY <2>2, OnlyThere
    <2> QED BY <1>1, <1>5, <2>3, HandledSent
  <1>13. /\ handled \subseteq handled' /\ sent' = sent /\ dropped \subseteq dropped'
         /\ generation' = generation /\ moves' = moves /\ \A j \in Info : sched_id_'[j].dest = sched_id_[j].dest
    BY <1>1, <1>5
  <1> QED BY <1>6, <1>9, <1>10, <1>11, <1>12, <1>13, OrderByPairs

LEMMA PutInMailboxOrder ==
  ASSUME ConstantsAssumption, IInv, EventInv, OrderInv, NEW s \in Sched, NEW x \in Event, NEW i \in Info,
         Routing(s, i, x), PutInMailbox(s, i, x)
  PROVE  OrderInv'
PROOF
  <1>1. /\ sched_id_[i] = Owner(s)
        /\ call[s].op = "send" /\ call' = [call EXCEPT ![s] = Idle]
        /\ mailbox' = [mailbox EXCEPT ![i] = Append(@, x)]
        /\ UNCHANGED <<stack, handled, generation, sched_id_, pending_events, inbound, sent, dropped, moves>>
    BY DEF PutInMailbox, slotVars
  <1>2. Called(s, x) /\ x = call[s].event /\ i = x.to.info
    BY DEF Routing
  <1>3. mailbox \in [Info -> Seq(Event)] /\ mailbox[i] \in Seq(Event)
    BY DEF IInv, Types
  <1>4. PICK mail : mail = Append(mailbox[i], x)
    OBVIOUS
  <1>5. /\ mailbox'[i] = mail /\ \A j \in Info \ {i} : mailbox'[j] = mailbox[j]
        /\ ToSet(mail) = ToSet(mailbox[i]) \union {x}
    BY <1>1, <1>3, <1>4, Appended
  <1>6. Stays'
    BY <1>1, StaysSame DEF OrderInv
  <1>7. \A t \in Sched, f \in Event : Called(t, f)' <=> Called(t, f) /\ ~(t = s /\ f = x)
    BY <1>1, <1>2, SendEnds DEF IInv
  <1>8. \A t \in Sched, f \in Event : Posted(t, f)' <=> Posted(t, f)
    BY <1>1 DEF Posted
  <1>9. OnItsWay'
    BY <1>1, <1>7, <1>8, WayKept
  <1>10. ASSUME NEW f \in Event, NEW e \in Event, NEW j \in Info, NEW d \in Sched, PairAt(f, e, j, d)
         PROVE  /\ Precedes(f, e, j, d)'
                /\ e \in handled' => e \in handled \/ f \in handled'
    <2>1. Precedes(f, e, j, d) /\ e.to.info = j /\ f.to.info = j /\ sched_id_[j].dest = d
      BY <1>10, PairFacts DEF PairAt
    <2>2. Mailed(f, j) => Mailed(f, j)'
      BY <1>1, <1>5 DEF Mailed
    <2>3. Reached(f, j, d) => Reached(f, j, d)'
      BY <1>1, <2>2 DEF Reached
    <2>4. Taken(f, j, d) => Taken(f, j, d)'
      <3>1. f = x => Reached(f, j, d)'
        BY <1>2, <1>5, <2>1 DEF Reached, Mailed
      <3> QED BY <1>7, <2>3, <3>1 DEF Taken
    <2>5. Gone(f, j, d) => Gone(f, j, d)'
      BY <1>8, <2>4 DEF Gone
    <2>6. Called(d, e)' => Called(d, e)
      BY <1>7
    <2>7. f \in handled' \/ Before(mailbox'[j], f, e)
      <3>1. CASE j # i
        BY <1>1, <1>5, <2>1, <3>1 DEF Precedes
      <3>2. CASE j = i /\ f \in handled
        BY <1>1, <3>2
      <3>3. CASE j = i /\ f \notin handled
        <4>1. Before(mailbox[i], f, e)
          BY <2>1, <3>3 DEF Precedes
        <4>2. x = e => f \in ToSet(mailbox[i])
          <5>1. SUFFICES ASSUME x = e PROVE f \in ToSet(mailbox[i])
            OBVIOUS
          <5>2. d = s
            BY <1>1, <2>1, <3>3, Ids
          <5>3. Reached(f, i, s)
            BY <1>2, <1>10, <3>3, <5>1, <5>2, RoutedAfter
          <5>4. f \notin ToSet(pending_events[s][i])
            BY <1>1, Ids DEF EventInv, Addressed
          <5> QED BY <3>3, <5>3, <5>4 DEF Reached, Mailed
        <4>3. Before(mail, f, e)
          BY <1>3, <1>4, <4>1, <4>2, BeforeAppended
        <4> QED BY <1>5, <3>3, <4>3
      <3> QED BY <3>1, <3>2, <3>3
    <2>8. Precedes(f, e, j, d)'
      BY <1>1, <2>1, <2>2, <2>3, <2>4, <2>5, <2>6, <2>7 DEF Precedes
    <2> QED BY <1>1, <2>8
  <1>11. /\ handled \subseteq handled' /\ sent' = sent /\ dropped \subseteq dropped'
         /\ generation' = generation /\ moves' = moves /\ \A j \in Info : sched_id_'[j].dest = sched_id_[j].dest
         /\ \A e \in handled' : e \in handled \/ IsAlive(e.to)
    BY <1>1
  <1>12. handled' \subseteq sent'
    BY <1>1, HandledSent
  <1> QED BY <1>6, <1>9, <1>10, <1>11, <1>12, OrderByPairs

LEMMA RouteHereOrder ==
  ASSUME ConstantsAssumption, IInv, EventInv, OrderInv, NEW s \in Sched, RouteHere(s)
  PROVE  OrderInv'
PROOF
  <1>1. call[s].op = "send" /\ call' = [call EXCEPT ![s] = Idle]
    BY DEF RouteHere
  <1>2. PICK e \in Event : e = call[s].event
    BY <1>1, Routed
  <1>3. PICK i \in Info : i = e.to.info
    BY DEF Event, Id
  <1>4. Routing(s, i, e)
    BY <1>1, <1>2, <1>3 DEF Called, Routing
  <1>5. sched_id_[i] = Owner(s) /\ i \in alive
    BY <1>1, <1>2, <1>3, Routed DEF RouteHere
  <1>6. CASE call[s].immediate /\ CanRunNow(i)
    <2>1. RunNow(s, i, e) /\ mailbox[i] = <<>>
      BY <1>1, <1>2, <1>3, <1>5, <1>6 DEF RouteHere, CanRunNow, RunNow
    <2> QED BY <1>4, <2>1, RunNowOrder
  <1>7. CASE ~(call[s].immediate /\ CanRunNow(i))
    <2>1. PutInMailbox(s, i, e)
      BY <1>1, <1>2, <1>3, <1>5, <1>7 DEF RouteHere, PutInMailbox
    <2> QED BY <1>4, <2>1, PutInMailboxOrder
  <1> QED BY <1>6, <1>7

LEMMA WaitHereOrder ==
  ASSUME ConstantsAssumption, IInv, EventInv, OrderInv, NEW s \in Sched, NEW x \in Event, NEW i \in Info,
         Routing(s, i, x), WaitHere(s, i, x)
  PROVE  OrderInv'
PROOF
  <1>1. /\ sched_id_[i] = InTransit(s)
        /\ call[s].op = "send" /\ call' = [call EXCEPT ![s] = Idle]
        /\ pending_events' = [pending_events EXCEPT ![s][i] = Append(@, x)]
        /\ UNCHANGED <<stack, handled, generation, sched_id_, mailbox, inbound, sent, dropped, moves>>
    BY DEF WaitHere, slotVars, runVars, history
  <1>2. Called(s, x) /\ x = call[s].event /\ i = x.to.info
    BY DEF Routing
  <1>3. pending_events \in [Sched -> [Info -> Seq(Event)]] /\ pending_events[s][i] \in Seq(Event)
    BY DEF IInv, Types
  <1>4. PICK mail : mail = Append(pending_events[s][i], x)
    OBVIOUS
  <1>5. /\ pending_events'[s][i] = mail
        /\ \A t \in Sched, j \in Info : t # s \/ j # i => pending_events'[t][j] = pending_events[t][j]
        /\ ToSet(mail) = ToSet(pending_events[s][i]) \union {x}
    <2>1. ToSet(mail) = ToSet(pending_events[s][i]) \union {x}
      BY <1>3, <1>4, Appended
    <2> QED BY <1>1, <1>3, <1>4, <2>1
  <1>6. Stays'
    BY <1>1, StaysSame DEF OrderInv
  <1>7. \A t \in Sched, f \in Event : Called(t, f)' <=> Called(t, f) /\ ~(t = s /\ f = x)
    BY <1>1, <1>2, SendEnds DEF IInv
  <1>8. \A t \in Sched, f \in Event : Posted(t, f)' <=> Posted(t, f)
    BY <1>1 DEF Posted
  <1>9. OnItsWay'
    BY <1>1, <1>7, <1>8, WayKept
  <1>10. ASSUME NEW f \in Event, NEW e \in Event, NEW j \in Info, NEW d \in Sched, PairAt(f, e, j, d)
         PROVE  /\ Precedes(f, e, j, d)'
                /\ e \in handled' => e \in handled \/ f \in handled'
    <2>1. Precedes(f, e, j, d) /\ e.to.info = j /\ f.to.info = j /\ sched_id_[j].dest = d
      BY <1>10, PairFacts DEF PairAt
    <2>2. Mailed(f, j)' <=> Mailed(f, j)
      BY <1>1 DEF Mailed
    <2>3. Reached(f, j, d) => Reached(f, j, d)'
      <3>1. ToSet(pending_events[d][j]) \subseteq ToSet(pending_events'[d][j])
        BY <1>5
      <3> QED BY <2>2, <3>1 DEF Reached
    <2>4. Taken(f, j, d) => Taken(f, j, d)'
      <3>1. f = x /\ d = s => Reached(f, j, d)'
        BY <1>2, <1>5, <2>1 DEF Reached
      <3> QED BY <1>7, <2>3, <3>1 DEF Taken
    <2>5. Gone(f, j, d) => Gone(f, j, d)'
      BY <1>8, <2>4 DEF Gone
    <2>6. Called(d, e)' => Called(d, e)
      BY <1>7
    <2>7. Mailed(f, j)' \/ Before(pending_events'[d][j], f, e)
      <3>1. CASE d # s \/ j # i
        BY <1>5, <2>1, <2>2, <3>1 DEF Precedes
      <3>2. CASE Mailed(f, j)
        BY <2>2, <3>2
      <3>3. CASE d = s /\ j = i /\ ~Mailed(f, j)
        <4>1. Before(pending_events[s][i], f, e)
          BY <2>1, <3>3 DEF Precedes
        <4>2. x = e => f \in ToSet(pending_events[s][i])
          <5>1. SUFFICES ASSUME x = e PROVE f \in ToSet(pending_events[s][i])
            OBVIOUS
          <5>2. Reached(f, i, s)
            BY <1>2, <1>10, <3>3, <5>1, RoutedAfter
          <5> QED BY <3>3, <5>2 DEF Reached
        <4>3. Before(mail, f, e)
          BY <1>3, <1>4, <4>1, <4>2, BeforeAppended
        <4> QED BY <1>5, <3>3, <4>3
      <3> QED BY <3>1, <3>2, <3>3
    <2>8. f \in handled' \/ Before(mailbox'[j], f, e)
      BY <1>1, <2>1 DEF Precedes
    <2>9. Precedes(f, e, j, d)'
      BY <1>1, <2>1, <2>3, <2>4, <2>5, <2>6, <2>7, <2>8 DEF Precedes
    <2> QED BY <1>1, <2>9
  <1>11. /\ handled \subseteq handled' /\ sent' = sent /\ dropped \subseteq dropped'
         /\ generation' = generation /\ moves' = moves /\ \A j \in Info : sched_id_'[j].dest = sched_id_[j].dest
         /\ \A e \in handled' : e \in handled \/ IsAlive(e.to)
    BY <1>1
  <1>12. handled' \subseteq sent'
    BY <1>1, HandledSent
  <1> QED BY <1>6, <1>9, <1>10, <1>11, <1>12, OrderByPairs

LEMMA RouteToMigrantOrder ==
  ASSUME ConstantsAssumption, IInv, EventInv, OrderInv, NEW s \in Sched, RouteToMigrant(s)
  PROVE  OrderInv'
PROOF
  <1>1. call[s].op = "send" /\ call[s] \in Call
    BY DEF RouteToMigrant, IInv, Types
  <1>2. PICK e \in Event : e = call[s].event
    BY <1>1 DEF Call, Idle
  <1>3. PICK i \in Info : i = e.to.info
    BY DEF Event, Id
  <1>4. Routing(s, i, e)
    BY <1>1, <1>2, <1>3 DEF Called, Routing
  <1>5. CASE IsAlive(e.to)
    <2>1. WaitHere(s, i, e)
      BY <1>1, <1>2, <1>3, <1>5 DEF RouteToMigrant, WaitHere
    <2> QED BY <1>4, <2>1, WaitHereOrder
  <1>6. CASE ~IsAlive(e.to)
    <2>1. UNCHANGED <<generation, sched_id_, sent, handled, dropped, mailbox, pending_events, inbound,
                      call, moves, stack>>
      BY <1>2, <1>6 DEF RouteToMigrant, slotVars, runVars, history
    <2>2. Stays'
      BY <2>1, StaysSame DEF OrderInv
    <2> QED BY <2>1, <2>2, OrderSame
  <1> QED BY <1>5, <1>6

LEMMA RouteAwayOrder ==
  ASSUME ConstantsAssumption, IInv, EventInv, OrderInv, NEW s \in Sched, RouteAway(s)
  PROVE  OrderInv'
PROOF
  <1>1. /\ call[s].op = "send" /\ call[s] \in Call /\ call' = [call EXCEPT ![s] = Idle]
        /\ UNCHANGED <<mailbox, handled, generation, sched_id_, pending_events, sent, stack, moves>>
        /\ dropped \subseteq dropped'
    BY DEF RouteAway, IInv, Types, slotVars, runVars
  <1>2. PICK x \in Event : x = call[s].event
    BY <1>1 DEF Call, Idle
  <1>3. PICK i \in Info : i = x.to.info
    BY DEF Event, Id
  <1>4. PICK a : a = sched_id_[i].dest
    OBVIOUS
  <1>5. /\ a # s
        /\ a \in Sched => inbound' = [inbound EXCEPT ![a] = Append(@, Post(x))]
        /\ a \notin Sched => inbound' = inbound
    BY <1>2, <1>3, <1>4 DEF RouteAway, Post
  <1>6. Called(s, x)
    BY <1>1, <1>2 DEF Called
  <1>7. \A t \in Sched, f \in Event : Called(t, f)' <=> Called(t, f) /\ ~(t = s /\ f = x)
    BY <1>1, <1>2, SendEnds DEF IInv
  <1>8. Post(x) \in Entry /\ Post(x).op = "event" /\ Post(x).event = x
    BY DEF Post, Entry
  <1>9. PICK p \in Place : p = Spot("call", s)
    BY Spots
  <1>10. p.kind = "call" /\ p.at = s
    BY <1>9, Spots
  <1>11. Holds(p, x)
    BY <1>6, <1>10 DEF Holds
  <1>12. \A t \in Sched, f \in Event : Posted(t, f)' <=> Posted(t, f) \/ (t = a /\ f = x)
    <2>1. CASE a \in Sched
      <3>1. PICK q \in Place : q = Spot("inbound", a)
        BY <2>1, Spots
      <3>2. q.kind = "inbound" /\ q.at = a /\ q # p
        BY <1>10, <3>1, Spots
      <3>3. ~Posted(a, x)
        BY <1>11, <3>2, OnlyThere DEF Holds
      <3>4. \A t \in Sched : QueueOnce(t)
        BY QueuesOnce
      <3>5. Types /\ inbound' = [inbound EXCEPT ![a] = Append(@, Post(x))]
            /\ (Post(x).op = "event" => ~Posted(a, Post(x).event))
        BY <1>5, <1>8, <2>1, <3>3 DEF IInv
      <3>6. \A t \in Sched, f \in Event :
              Posted(t, f)' <=> Posted(t, f) \/ (t = a /\ Post(x).op = "event" /\ Post(x).event = f)
        BY <1>8, <2>1, <3>4, <3>5, PostedPut
      <3> QED BY <1>8, <3>6
    <2>2. CASE a \notin Sched
      BY <1>5, <2>2 DEF Posted
    <2> QED BY <2>1, <2>2
  <1>13. Stays'
    BY <1>1, StaysSame DEF OrderInv
  <1>14. OnItsWay'
    <2>1. ASSUME NEW e \in sent', NEW t \in Sched, Live(e)'
          PROVE  /\ Posted(t, e)' => t = Target(e)' /\ t # e.src
                 /\ Called(t, e)' => t = e.src \/ t = Target(e)'
      <3>1. e \in sent /\ e \in Event
        BY <1>1 DEF IInv, Types
      <3>2. Live(e) /\ Target(e)' = Target(e)
        BY <1>1, <2>1 DEF Live, IsAlive, Target
      <3>3. /\ Posted(t, e) => t = Target(e) /\ t # e.src
            /\ Called(t, e) => t = e.src \/ t = Target(e)
        BY <3>1, <3>2 DEF OrderInv, OnItsWay
      <3>4. t = a /\ e = x => t = Target(e) /\ t # e.src
        <4>1. SUFFICES ASSUME t = a, e = x PROVE t = Target(e) /\ t # e.src
          OBVIOUS
        <4>2. Target(e) = a
          BY <1>3, <1>4, <4>1 DEF Target
        <4>3. s = x.src \/ s = a
          BY <1>6, <3>1, <3>2, <4>1, <4>2 DEF OrderInv, OnItsWay
        <4> QED BY <1>5, <4>1, <4>2, <4>3
      <3> QED BY <1>7, <1>12, <3>1, <3>2, <3>3, <3>4
    <2> QED BY <2>1 DEF OnItsWay
  <1>15. ASSUME NEW f \in Event, NEW e \in Event, NEW j \in Info, NEW d \in Sched, PairAt(f, e, j, d)
         PROVE  /\ Precedes(f, e, j, d)'
                /\ e \in handled' => e \in handled \/ f \in handled'
    <2>1. Precedes(f, e, j, d) /\ e.to.info = j /\ f.to.info = j /\ sched_id_[j].dest = d
      BY <1>15, PairFacts DEF PairAt
    <2>2. (Called(d, e)' <=> Called(d, e)) /\ (Called(d, f)' <=> Called(d, f))
      BY <1>3, <1>4, <1>5, <1>7, <2>1
    <2>3. Posted(d, f) => Posted(d, f)'
      BY <1>12
    <2>4. (Mailed(f, j)' <=> Mailed(f, j)) /\ (Reached(f, j, d)' <=> Reached(f, j, d)) /\ (Taken(f, j, d)' <=> Taken(f, j, d))
      BY <1>1, <2>2 DEF Taken, Reached, Mailed
    <2>5. Gone(f, j, d) => Gone(f, j, d)'
      BY <2>3, <2>4 DEF Gone
    <2>6. Taken(f, j, d) \/ Before(inbound'[d], Post(f), Post(e))
      <3>1. CASE Taken(f, j, d)
        BY <3>1
      <3>2. CASE ~Taken(f, j, d) /\ d # a
        <4>1. inbound'[d] = inbound[d]
          BY <1>5, <3>2 DEF IInv, Types
        <4> QED BY <2>1, <3>2, <4>1 DEF Precedes
      <3>3. CASE ~Taken(f, j, d) /\ d = a
        <4>1. inbound[d] \in Seq(Entry) /\ inbound'[d] = Append(inbound[d], Post(x))
          BY <1>5, <3>3 DEF IInv, Types
        <4>2. Before(inbound[d], Post(f), Post(e)) /\ Posted(d, f)
          BY <2>1, <3>3 DEF Precedes, Gone
        <4>3. Post(f) \in ToSet(inbound[d])
          <5>1. PICK k \in DOMAIN inbound[d] : inbound[d][k].op = "event" /\ inbound[d][k].event = f
            BY <4>2 DEF Posted
          <5>2. inbound[d][k] = Post(f)
            BY <5>1, EntryOf DEF IInv, Post
          <5> QED BY <5>2 DEF ToSet
        <4>4. Before(Append(inbound[d], Post(x)), Post(f), Post(e))
          BY <1>8, <4>1, <4>2, <4>3, BeforeAppended
        <4> QED BY <4>1, <4>4
      <3> QED BY <3>1, <3>2, <3>3
    <2>7. Precedes(f, e, j, d)'
      BY <1>1, <2>1, <2>2, <2>4, <2>5, <2>6 DEF Precedes
    <2> QED BY <1>1, <2>7
  <1>16. /\ handled \subseteq handled' /\ sent' = sent /\ dropped \subseteq dropped'
         /\ generation' = generation /\ moves' = moves /\ \A j \in Info : sched_id_'[j].dest = sched_id_[j].dest
         /\ \A e \in handled' : e \in handled \/ IsAlive(e.to)
    BY <1>1
  <1>17. handled' \subseteq sent'
    BY <1>1, HandledSent
  <1> QED BY <1>13, <1>14, <1>15, <1>16, <1>17, OrderByPairs

(* What one has sent on is not behind what another has just called for. *)
LEMMA ReceiveEventOrder ==
  ASSUME ConstantsAssumption, IInv, EventInv, OrderInv, NEW s \in Sched, ReceiveEvent(s)
  PROVE  OrderInv'
PROOF
  <1>1. /\ UNCHANGED <<mailbox, handled, generation, sched_id_, pending_events, sent, stack, moves>>
        /\ call[s] = Idle /\ inbound[s] # <<>> /\ Head(inbound[s]).op = "event"
        /\ inbound' = [inbound EXCEPT ![s] = Tail(@)]
    BY DEF ReceiveEvent, Free, slotVars, runVars
  <1>2. PICK x \in Event : x = Head(inbound[s]).event
    <2>1. Head(inbound[s]) \in Entry
      BY <1>1, EntryTaken DEF IInv
    <2> QED BY <1>1, <2>1 DEF Entry
  <1>3. /\ IsAlive(x.to) => /\ call' = [call EXCEPT ![s] = [op |-> "send", event |-> x, immediate |-> TRUE]]
                            /\ dropped' = dropped
        /\ ~IsAlive(x.to) => call' = call /\ dropped' = dropped \union {x}
    BY <1>2 DEF ReceiveEvent
  <1>4. /\ \A t \in Sched, f \in Event : Posted(t, f)' <=> Posted(t, f) /\ ~(t = s /\ f = x)
        /\ Posted(s, x)
    <2>1. \A t \in Sched : QueueOnce(t)
      BY Unrepeats
    <2>2. /\ \A t \in Sched, f \in Event :
               Posted(t, f)' <=> Posted(t, f) /\ ~(t = s /\ Head(inbound[s]).op = "event" /\ Head(inbound[s]).event = f)
          /\ Posted(s, Head(inbound[s]).event)
      BY <1>1, <2>1, PostedTaken DEF IInv
    <2> QED BY <1>1, <1>2, <2>2
  <1>5. \A t \in Sched, f \in Event : Called(t, f)' <=> Called(t, f) \/ (t = s /\ f = x /\ IsAlive(x.to))
    <2>1. CASE IsAlive(x.to)
      <3>1. PICK b : b = TRUE
        OBVIOUS
      <3>2. call' = [call EXCEPT ![s] = [op |-> "send", event |-> x, immediate |-> b]]
        BY <1>3, <2>1, <3>1
      <3>3. Types /\ call[s] = Idle
        BY <1>1 DEF IInv
      <3>4. \A t \in Sched, f \in Event : Called(t, f)' <=> Called(t, f) \/ (t = s /\ f = x)
        BY <3>2, <3>3, SendBegins
      <3> QED BY <2>1, <3>4
    <2>2. CASE ~IsAlive(x.to)
      BY <1>3, <2>2 DEF Called
    <2> QED BY <2>1, <2>2
  <1>6. \A f : ~Called(s, f)
    BY <1>1 DEF Called, Idle
  <1>7. Head(inbound[s]) = Post(x) /\ inbound[s] \in Seq(Entry)
    <2>1. inbound[s] \in Seq(Entry)
      BY DEF IInv, Types
    <2>2. Head(inbound[s]) = inbound[s][1] /\ 1 \in DOMAIN inbound[s]
      BY <1>1, <2>1, Tailed, Elements
    <2> QED BY <1>1, <1>2, <2>1, <2>2, EntryOf DEF IInv, Post
  <1>8. Stays'
    BY <1>1, StaysSame DEF OrderInv
  <1>9. OnItsWay'
    <2>1. ASSUME NEW e \in sent', NEW t \in Sched, Live(e)'
          PROVE  /\ Posted(t, e)' => t = Target(e)' /\ t # e.src
                 /\ Called(t, e)' => t = e.src \/ t = Target(e)'
      <3>1. e \in sent /\ e \in Event
        BY <1>1 DEF IInv, Types
      <3>2. Live(e) /\ Target(e)' = Target(e)
        BY <1>1, <2>1 DEF Live, IsAlive, Target
      <3>3. /\ \A a \in Sched : Posted(a, e) => a = Target(e) /\ a # e.src
            /\ Called(t, e) => t = e.src \/ t = Target(e)
        BY <3>1, <3>2 DEF OrderInv, OnItsWay
      <3> QED BY <1>4, <1>5, <3>1, <3>2, <3>3
    <2> QED BY <2>1 DEF OnItsWay
  <1>10. ASSUME NEW f \in Event, NEW e \in Event, NEW j \in Info, NEW d \in Sched, PairAt(f, e, j, d)
         PROVE  /\ Precedes(f, e, j, d)'
                /\ e \in handled' => e \in handled \/ f \in handled'
    <2>1. /\ Precedes(f, e, j, d) /\ Live(e) /\ Live(f) /\ Target(e) = d /\ Target(f) = d
          /\ f \in sent /\ e \in sent /\ f.src = e.src
          /\ Post(e).event = e /\ Post(f).event = f /\ Post(x).event = x
      <3>1. Live(e) /\ Live(f) /\ Target(e) = d /\ Target(f) = d
        BY <1>10, PairFacts
      <3>2. Precedes(f, e, j, d) /\ f \in sent /\ e \in sent /\ f.src = e.src
        BY <1>10 DEF PairAt, After
      <3>3. Post(e).event = e /\ Post(f).event = f /\ Post(x).event = x
        BY DEF Post
      <3> QED BY <3>1, <3>2, <3>3
    <2>2. (Mailed(f, j)' <=> Mailed(f, j)) /\ (Reached(f, j, d)' <=> Reached(f, j, d))
      BY <1>1 DEF Reached, Mailed
    <2>3. f = x => s = d /\ f.src # d /\ IsAlive(x.to)
      BY <1>4, <2>1 DEF OrderInv, OnItsWay, Live
    <2>4. e = x => s = d
      BY <1>4, <2>1 DEF OrderInv, OnItsWay
    <2>5. Taken(f, j, d) => Taken(f, j, d)'
      BY <1>5, <2>2 DEF Taken
    <2>6. f = x => Taken(f, j, d)'
      BY <1>5, <2>3 DEF Taken
    <2>7. Gone(f, j, d) => Gone(f, j, d)'
      BY <1>4, <2>5, <2>6 DEF Gone
    <2>8. d = s /\ ~Taken(f, j, d) =>
            x # e /\ (x # f => Before(Tail(inbound[s]), Post(f), Post(e)))
      <3>1. SUFFICES ASSUME d = s, ~Taken(f, j, d)
                     PROVE  x # e /\ (x # f => Before(Tail(inbound[s]), Post(f), Post(e)))
        OBVIOUS
      <3>2. Before(inbound[s], Post(f), Post(e))
        BY <2>1, <3>1 DEF Precedes
      <3>3. Post(x) # Post(e) /\ (Post(x) # Post(f) => Before(Tail(inbound[s]), Post(f), Post(e)))
        BY <1>1, <1>7, <3>2, BeforeTail
      <3> QED BY <2>1, <3>3
    <2>9. Taken(f, j, d)' \/ Before(inbound'[d], Post(f), Post(e))
      <3>1. CASE d # s
        <4>1. inbound'[d] = inbound[d]
          BY <1>1, <3>1 DEF IInv, Types
        <4> QED BY <2>1, <2>5, <4>1 DEF Precedes
      <3>2. CASE d = s
        <4>1. inbound'[s] = Tail(inbound[s])
          BY <1>1 DEF IInv, Types
        <4> QED BY <2>5, <2>6, <2>8, <3>2, <4>1
      <3> QED BY <3>1, <3>2
    <2>10. e.src # d /\ Called(d, e)' => Reached(f, j, d)'
      <3>1. SUFFICES ASSUME e.src # d, Called(d, e)' PROVE Reached(f, j, d)
        BY <2>2
      <3>2. CASE Called(d, e)
        BY <2>1, <3>1, <3>2 DEF Precedes
      <3>3. CASE ~Called(d, e)
        <4>1. d = s /\ e = x
          BY <1>5, <3>1, <3>3
        <4>2. Taken(f, j, d)
          BY <2>8, <4>1
        <4> QED BY <1>6, <4>1, <4>2 DEF Taken
      <3> QED BY <3>2, <3>3
    <2>11. /\ f \in handled' \/ Before(mailbox'[j], f, e)
           /\ Mailed(f, j)' \/ Before(pending_events'[d][j], f, e)
      BY <1>1, <2>1, <2>2 DEF Precedes
    <2>12. Precedes(f, e, j, d)'
      BY <2>1, <2>7, <2>9, <2>10, <2>11 DEF Precedes
    <2> QED BY <1>1, <2>12
  <1>11. /\ handled \subseteq handled' /\ sent' = sent
         /\ generation' = generation /\ moves' = moves /\ \A j \in Info : sched_id_'[j].dest = sched_id_[j].dest
         /\ \A e \in handled' : e \in handled \/ IsAlive(e.to)
    BY <1>1
  <1>12. handled' \subseteq sent'
    BY <1>1, HandledSent
  <1>13. dropped \subseteq dropped'
    BY <1>3
  <1> QED BY <1>8, <1>9, <1>10, <1>11, <1>12, <1>13, OrderByPairs

(* The mail that came earlier goes before the mail that waited. *)
LEMMA ReceiveActorOrder ==
  ASSUME ConstantsAssumption, IInv, EventInv, OrderInv, NEW s \in Sched, ReceiveActor(s)
  PROVE  OrderInv'
PROOF
  <1>1. /\ inbound[s] # <<>> /\ Head(inbound[s]).op = "actor" /\ call[s] = Idle
        /\ inbound' = [inbound EXCEPT ![s] = Tail(@)]
    BY DEF ReceiveActor, Free
  <1>2. PICK i : i = Head(inbound[s]).info
    OBVIOUS
  <1>3. i \in Info /\ i \in alive /\ sched_id_[i] = InTransit(s)
    BY <1>1, <1>2, Arrived
  <1>4. PICK q \in Seq(Event), r \in Seq(Event) : q = mailbox[i] /\ r = pending_events[s][i]
    BY <1>3 DEF IInv, Types
  <1>5. PICK mail : mail = q \o r
    OBVIOUS
  <1>6. /\ sched_id_' = [sched_id_ EXCEPT ![i] = Owner(s)]
        /\ mailbox' = [mailbox EXCEPT ![i] = mail]
        /\ pending_events' = [pending_events EXCEPT ![s][i] = <<>>]
        /\ UNCHANGED <<generation, stack, call, sent, handled, dropped, moves>>
    BY <1>2, <1>4, <1>5 DEF ReceiveActor, MailOnArrival, history
  <1>7. /\ sched_id_'[i] = Owner(s) /\ \A j \in Info \ {i} : sched_id_'[j] = sched_id_[j]
        /\ mailbox'[i] = mail /\ \A j \in Info \ {i} : mailbox'[j] = mailbox[j]
        /\ pending_events'[s][i] = <<>>
        /\ \A t \in Sched, j \in Info : t # s \/ j # i => pending_events'[t][j] = pending_events[t][j]
    BY <1>3, <1>6 DEF IInv, Types
  <1>8. ToSet(mail) = ToSet(q) \union ToSet(r)
    <2>1. Distinct(q) /\ Distinct(r)
      BY <1>3, <1>4, Unrepeats
    <2>2. ToSet(q) \intersect ToSet(r) = {}
      <3>1. SUFFICES ASSUME NEW x \in ToSet(q), x \in ToSet(r) PROVE FALSE
        OBVIOUS
      <3>2. x \in Event /\ x.to.info = i
        <4>1. x \in Event
          BY <3>1, Elements
        <4>2. x.to = IdOf(i)
          BY <1>3, <1>4, <3>1 DEF EventInv, Addressed
        <4> QED BY <4>1, <4>2 DEF IdOf
      <3>3. PICK p \in Place : p = Spot("mailbox", NoSched)
        BY Spots
      <3>4. PICK o \in Place : o = Spot("pending", s)
        BY Spots
      <3>5. p.kind = "mailbox" /\ o.kind = "pending" /\ o.at = s
        BY <3>3, <3>4, Spots
      <3>6. Holds(p, x) /\ Holds(o, x)
        BY <1>4, <3>1, <3>2, <3>5 DEF Holds
      <3> QED BY <3>2, <3>5, <3>6, OnlyThere
    <2> QED BY <1>5, <2>1, <2>2, Joined
  <1>9. \A j \in Info : sched_id_'[j].dest = sched_id_[j].dest
    BY <1>3, <1>7, Ids
  <1>10. \A t \in Sched, f \in Event : (Posted(t, f)' <=> Posted(t, f)) /\ (Called(t, f)' <=> Called(t, f))
    <2>1. \A t \in Sched : QueueOnce(t)
      BY Unrepeats
    <2>2. \A t \in Sched, f \in Event :
            Posted(t, f)' <=> Posted(t, f) /\ ~(t = s /\ Head(inbound[s]).op = "event" /\ Head(inbound[s]).event = f)
      BY <1>1, <2>1, PostedTaken DEF IInv
    <2> QED BY <1>1, <1>6, <2>2 DEF Called
  <1>11. Stays'
    BY <1>6, StaysSame DEF OrderInv
  <1>12. OnItsWay'
    BY <1>6, <1>9, <1>10, WayKept
  <1>13. ASSUME NEW f \in Event, NEW e \in Event, NEW j \in Info, NEW d \in Sched, PairAt(f, e, j, d)
         PROVE  /\ Precedes(f, e, j, d)'
                /\ e \in handled' => e \in handled \/ f \in handled'
    <2>1. Precedes(f, e, j, d) /\ sched_id_[j].dest = d /\ (j = i => d = s)
      BY <1>3, <1>13, Ids DEF PairAt
    <2>2. Mailed(f, j) => Mailed(f, j)'
      <3>1. ToSet(mailbox[j]) \subseteq ToSet(mailbox'[j])
        BY <1>4, <1>7, <1>8
      <3> QED BY <1>6, <3>1 DEF Mailed
    <2>3. Reached(f, j, d) => Reached(f, j, d)'
      <3>1. CASE j = i
        BY <1>4, <1>6, <1>7, <1>8, <2>1, <3>1 DEF Reached, Mailed
      <3>2. CASE j # i
        BY <1>7, <2>2, <3>2 DEF Reached
      <3> QED BY <3>1, <3>2
    <2>4. Taken(f, j, d) => Taken(f, j, d)'
      BY <1>10, <2>3 DEF Taken
    <2>5. Gone(f, j, d) => Gone(f, j, d)'
      BY <1>10, <2>4 DEF Gone
    <2>6. f \in handled' \/ Before(mailbox'[j], f, e)
      <3>1. CASE j # i
        BY <1>6, <1>7, <2>1, <3>1 DEF Precedes
      <3>2. CASE j = i /\ f \in handled
        BY <1>6, <3>2
      <3>3. CASE j = i /\ f \notin handled
        <4>1. Before(q, f, e) /\ (f \in ToSet(q) \/ Before(r, f, e))
          BY <1>4, <2>1, <3>3 DEF Precedes, Mailed
        <4>2. Before(mail, f, e)
          BY <1>5, <4>1, BeforeJoined
        <4> QED BY <1>7, <3>3, <4>2
      <3> QED BY <3>1, <3>2, <3>3
    <2>7. Mailed(f, j)' \/ Before(pending_events'[d][j], f, e)
      <3>1. CASE j = i
        <4>1. pending_events'[d][j] = <<>>
          BY <1>7, <2>1, <3>1
        <4>2. e \notin ToSet(pending_events'[d][j])
          BY <4>1, None
        <4> QED BY <4>2, NotIn
      <3>2. CASE j # i
        BY <1>7, <2>1, <2>2, <3>2 DEF Precedes
      <3> QED BY <3>1, <3>2
    <2>8. Taken(f, j, d)' \/ Before(inbound'[d], Post(f), Post(e))
      <3>1. CASE Taken(f, j, d)
        BY <2>4, <3>1
      <3>2. CASE d # s /\ ~Taken(f, j, d)
        <4>1. inbound'[d] = inbound[d]
          BY <1>1, <3>2 DEF IInv, Types
        <4> QED BY <2>1, <3>2, <4>1 DEF Precedes
      <3>3. CASE d = s /\ ~Taken(f, j, d)
        <4>1. inbound'[s] = Tail(inbound[s]) /\ inbound[s] \in Seq(Entry)
          BY <1>1 DEF IInv, Types
        <4>2. Before(inbound[s], Post(f), Post(e))
          BY <2>1, <3>3 DEF Precedes
        <4>3. Head(inbound[s]) # Post(f)
          BY <1>1 DEF Post
        <4>4. Before(Tail(inbound[s]), Post(f), Post(e))
          BY <1>1, <4>1, <4>2, <4>3, BeforeTail
        <4> QED BY <3>3, <4>1, <4>4
      <3> QED BY <3>1, <3>2, <3>3
    <2>9. Called(d, e)' <=> Called(d, e)
      BY <1>10
    <2>10. Precedes(f, e, j, d)'
      BY <2>1, <2>3, <2>5, <2>6, <2>7, <2>8, <2>9 DEF Precedes
    <2> QED BY <1>6, <2>10
  <1>14. /\ handled \subseteq handled' /\ sent' = sent /\ dropped \subseteq dropped'
         /\ generation' = generation /\ moves' = moves
         /\ \A e \in handled' : e \in handled \/ IsAlive(e.to)
    BY <1>6
  <1>15. handled' \subseteq sent'
    BY <1>6, HandledSent
  <1> QED BY <1>9, <1>11, <1>12, <1>13, <1>14, <1>15, OrderByPairs

(* What the thread has sent to an actor that is there has left it. *)
LEMMA SentIsGone ==
  ASSUME IInv, EventInv, OrderInv, NEW f \in sent, NEW d \in Sched, Live(f), Target(f) = d,
         f.to = IdOf(f.to.info), ~Called(f.src, f)
  PROVE  Gone(f, f.to.info, d)
PROOF
  <1>1. f \in Event /\ f.to.info \in Info
    BY DEF IInv, Types, Event, Id
  <1>2. PICK p \in Place : Holds(p, f)
    BY DEF EventInv, Conserved
  <1>3. f \notin dropped
    BY DEF Live, EventInv, Addressed
  <1>4. CASE p.kind \in {"handled", "dropped", "mailbox"}
    BY <1>2, <1>3, <1>4 DEF Holds, Gone, Taken, Reached, Mailed
  <1>5. CASE p.kind \in {"pending", "inbound", "call"} /\ p.at \in Sched
    <2>1. PICK t \in Sched : t = p.at
      BY <1>5
    <2>2. f \in ToSet(pending_events[t][f.to.info]) => t = d
      <3>1. f \in ToSet(pending_events[t][f.to.info]) => sched_id_[f.to.info] = InTransit(t)
        BY <1>1 DEF EventInv, Addressed
      <3> QED BY <3>1, Ids DEF Target
    <2>3. Posted(t, f) => t = d
      BY DEF OrderInv, OnItsWay
    <2>4. Called(t, f) => t = d /\ f.src # d
      BY DEF OrderInv, OnItsWay
    <2> QED BY <1>2, <1>5, <2>1, <2>2, <2>3, <2>4 DEF Holds, Gone, Taken, Reached
  <1> QED BY <1>4, <1>5, Spots

LEMMA SendOrder ==
  ASSUME ConstantsAssumption, IInv, EventInv, OrderInv, NEW s \in Sched, NEW i \in Info,
         NEW immediate \in BOOLEAN, Send(s, i, immediate)
  PROVE  OrderInv'
PROOF
  <1>1. /\ UNCHANGED <<mailbox, handled, dropped, generation, sched_id_, alive, pending_events, inbound, stack, moves>>
        /\ call[s] = Idle /\ i \in alive
    BY DEF Send, InHandler, slotVars, runVars
  <1>2. PICK n : n = Cardinality(SentBy(s)) + 1
    OBVIOUS
  <1>3. PICK x : x = [kind |-> "msg", to |-> IdOf(i), src |-> s, n |-> n]
    OBVIOUS
  <1>4. SentBy(s) \subseteq sent /\ Cardinality(SentBy(s)) \in Nat
    <2>1. SentBy(s) \subseteq sent /\ IsFiniteSet(sent)
      BY DEF SentBy, IInv, Types
    <2> QED BY <2>1, FS_Subset, FS_CardinalityType
  <1>5. x \in Event
    <2>1. IdOf(i) \in Id
      BY DEF IdOf, Id, IInv, Types
    <2>2. n \in 0..MaxSends
      BY <1>2, <1>4 DEF Send, ConstantsAssumption
    <2> QED BY <1>3, <2>1, <2>2 DEF Event
  <1>6. /\ sent' = sent \union {x}
        /\ call' = [call EXCEPT ![s] = [op |-> "send", event |-> x, immediate |-> immediate]]
    BY <1>2, <1>3 DEF Send
  <1>7. x.kind = "msg" /\ x.src = s /\ x.to = IdOf(i) /\ x.n = n /\ x.to.info = i
    BY <1>3 DEF IdOf
  <1>8. x \notin sent
    <2>1. Types /\ SentInv /\ i \in alive /\ UNCHANGED <<generation, alive>>
          /\ x.kind = "msg" /\ x.src = s /\ x.to = IdOf(i) /\ x.n = Cardinality(SentBy(s)) + 1
          /\ sent' = sent \union {x}
      BY <1>1, <1>2, <1>6, <1>7 DEF EventInv, IInv
    <2> QED BY <1>5, <2>1, MessageSent
  <1>9. \A t \in Sched, f \in Event : Called(t, f)' <=> Called(t, f) \/ (t = s /\ f = x)
    <2>1. Types /\ call[s] = Idle
      BY <1>1 DEF IInv
    <2> QED BY <1>6, <2>1, SendBegins
  <1>10. \A t \in Sched, f \in Event : Posted(t, f)' <=> Posted(t, f)
    BY <1>1 DEF Posted
  <1>11. \A f : ~Called(s, f)
    BY <1>1 DEF Called, Idle
  <1>12. \A p \in Place : ~Holds(p, x)
    BY <1>5, <1>8, OnlyThere
  <1>13. /\ x \notin ToSet(mailbox[i])
         /\ \A t \in Sched : /\ x \notin ToSet(pending_events[t][i])
                             /\ ~Posted(t, x) /\ ~Called(t, x)
    <2>1. x \notin ToSet(mailbox[i])
      <3>1. PICK p \in Place : p = Spot("mailbox", NoSched)
        BY Spots
      <3>2. p.kind = "mailbox"
        BY <3>1, Spots
      <3> QED BY <1>7, <1>12, <3>2 DEF Holds
    <2>2. ASSUME NEW t \in Sched PROVE x \notin ToSet(pending_events[t][i]) /\ ~Posted(t, x) /\ ~Called(t, x)
      <3>1. PICK p \in Place, q \in Place, o \in Place :
              p = Spot("pending", t) /\ q = Spot("inbound", t) /\ o = Spot("call", t)
        BY Spots
      <3>2. p.kind = "pending" /\ p.at = t /\ q.kind = "inbound" /\ q.at = t /\ o.kind = "call" /\ o.at = t
        BY <3>1, Spots
      <3> QED BY <1>7, <1>12, <3>2 DEF Holds
    <2> QED BY <2>1, <2>2
  <1>14. Stays'
    BY <1>1, StaysSame DEF OrderInv
  <1>15. OnItsWay'
    <2>1. ASSUME NEW e \in sent', NEW t \in Sched, Live(e)'
          PROVE  /\ Posted(t, e)' => t = Target(e)' /\ t # e.src
                 /\ Called(t, e)' => t = e.src \/ t = Target(e)'
      <3>1. e \in Event /\ (e \in sent \/ e = x)
        BY <1>5, <1>6 DEF IInv, Types
      <3>2. Live(e) /\ Target(e)' = Target(e)
        BY <1>1, <2>1 DEF Live, IsAlive, Target
      <3>3. CASE e = x
        BY <1>7, <1>9, <1>10, <1>13, <3>1, <3>3
      <3>4. CASE e \in sent
        <4>1. e # x
          BY <1>8, <3>4
        <4>2. /\ Posted(t, e) => t = Target(e) /\ t # e.src
              /\ Called(t, e) => t = e.src \/ t = Target(e)
          BY <3>2, <3>4 DEF OrderInv, OnItsWay
        <4> QED BY <1>9, <1>10, <3>1, <3>2, <4>1, <4>2
      <3> QED BY <3>1, <3>3, <3>4
    <2> QED BY <2>1 DEF OnItsWay
  <1>16. ASSUME NEW f \in sent', NEW e \in sent, After(f, e), f = x PROVE FALSE
    <2>1. e.n <= Cardinality(SentBy(s))
      BY <1>7, <1>16 DEF After, EventInv, SentInv
    <2>2. n < e.n /\ e.n \in 0..MaxSends
      BY <1>7, <1>16 DEF After, IInv, Types, Event
    <2>3. e.n \in Nat
      BY <2>2 DEF ConstantsAssumption
    <2> QED BY <1>2, <1>4, <2>1, <2>2, <2>3
  <1>17. Ordered'
    <2>1. ASSUME NEW e \in sent', NEW f \in sent', After(f, e), Live(e)'
          PROVE  Precedes(f, e, e.to.info, Target(e))'
      <3>1. Live(e) /\ Target(e)' = Target(e) /\ e \in Event /\ f \in Event
        BY <1>1, <1>5, <1>6, <2>1 DEF Live, IsAlive, Target, IInv, Types
      <3>2. f # x
        <4>1. e = x => ~(f = x)
          BY <1>2, <1>4, <1>7, <2>1 DEF After
        <4> QED BY <1>6, <1>16, <2>1, <4>1
      <3>3. f \in sent
        BY <1>6, <2>1, <3>2
      <3>4. CASE e # x
        <4>1. e \in sent
          BY <1>6, <2>1, <3>4
        <4>2. PICK j \in Info, d \in Sched : j = e.to.info /\ d = Target(e)
          BY <2>1, <3>1, <3>3, <4>1, PairOf
        <4>3. Precedes(f, e, j, d)
          BY <2>1, <3>1, <3>3, <4>1, <4>2 DEF OrderInv, Ordered
        <4>4. (Called(d, e)' <=> Called(d, e)) /\ (Called(d, f)' <=> Called(d, f)) /\ (Posted(d, f)' <=> Posted(d, f))
          BY <1>9, <1>10, <3>1, <3>2, <3>4
        <4>5. Precedes(f, e, j, d)'
          BY <1>1, <4>3, <4>4 DEF Precedes, Gone, Taken, Reached, Mailed
        <4> QED BY <3>1, <4>2, <4>5
      <3>5. CASE e = x
        <4>1. PICK d : d = Target(e)
          OBVIOUS
        <4>2. e.to.info = i /\ f.to = IdOf(i) /\ f.to.info = i /\ f.src = s /\ f.kind = "msg"
          BY <1>7, <2>1, <3>5 DEF After
        <4>3. d \in Sched
          BY <1>1, <4>1, <4>2 DEF Target, IInv, Owning, InSlot
        <4>4. Live(f) /\ Target(f) = d
          BY <3>1, <4>1, <4>2, <1>7, <3>5 DEF Live, Target
        <4>5. Gone(f, i, d)
          BY <1>11, <3>3, <4>2, <4>3, <4>4, SentIsGone
        <4>6. Gone(f, i, d)'
          BY <1>1, <1>9, <1>10, <3>1, <4>3, <4>5 DEF Gone, Taken, Reached, Mailed
        <4>7. Before(mailbox'[i], f, e) /\ Before(pending_events'[d][i], f, e)
          BY <1>1, <1>13, <3>5, <4>3, NotIn
        <4>8. Before(inbound'[d], Post(f), Post(e))
          <5>1. Post(e) \notin ToSet(inbound[d])
            <6>1. SUFFICES ASSUME Post(e) \in ToSet(inbound[d]) PROVE FALSE
              OBVIOUS
            <6>2. PICK k \in DOMAIN inbound[d] : inbound[d][k] = Post(e)
              BY <6>1 DEF ToSet
            <6>3. Posted(d, e)
              BY <6>2 DEF Posted, Post
            <6> QED BY <1>13, <3>5, <4>3, <6>3
          <5> QED BY <1>1, <5>1, NotIn
        <4>9. ~(e.src # d /\ Called(d, e)')
          BY <1>5, <1>7, <1>9, <1>13, <3>5, <4>3
        <4>10. Precedes(f, e, i, d)'
          BY <4>6, <4>7, <4>8, <4>9 DEF Precedes
        <4> QED BY <3>1, <4>1, <4>2, <4>10
      <3> QED BY <3>4, <3>5
    <2> QED BY <2>1 DEF Ordered
  <1>18. InOrder'
    <2>1. ASSUME NEW e \in handled', NEW f \in sent', After(f, e), moves'[e.to.info] = 0
          PROVE  f \in handled' \union dropped'
      <3>1. e \in handled /\ e \in sent
        BY <1>1, HandledSent
      <3>2. f \in sent
        BY <1>6, <1>16, <2>1, <3>1
      <3> QED BY <1>1, <2>1, <3>1, <3>2 DEF OrderInv, InOrder, After
    <2> QED BY <2>1 DEF InOrder, After
  <1> QED BY <1>14, <1>15, <1>17, <1>18 DEF OrderInv

-----------------------------------------------------------------------------
(* Every step *)

LEMMA InitOrder ==
  ASSUME ConstantsAssumption, Init
  PROVE  OrderInv
PROOF
  <1>1. \A e \in sent : e.kind = "start"
    BY DEF Init, FirstStart, StartOf
  <1>2. handled = {} /\ \A s \in Sched : stack[s] = <<>>
    BY DEF Init
  <1>3. Stays
    BY <1>2, Elements DEF Stays
  <1>4. OnItsWay /\ Ordered
    BY <1>1 DEF OnItsWay, Ordered, Live
  <1>5. InOrder
    BY <1>2 DEF InOrder
  <1> QED BY <1>3, <1>4, <1>5 DEF OrderInv

LEMMA StutterOrder ==
  ASSUME IInv, EventInv, OrderInv, UNCHANGED vars
  PROVE  OrderInv'
PROOF
  <1>1. UNCHANGED <<slotVars, runVars, pending_events, inbound, stack, call, history, failed>>
    BY DEF vars
  <1>2. UNCHANGED <<generation, sched_id_, mailbox, pending_events, inbound, call, sent, handled, dropped, moves, stack>>
    BY <1>1 DEF slotVars, runVars, history
  <1>3. Stays'
    BY <1>2, StaysSame DEF OrderInv
  <1> QED BY <1>2, <1>3, OrderSame

LEMMA NextOrder ==
  ASSUME ConstantsAssumption, IInv, EventInv, OrderInv, [Next]_vars
  PROVE  OrderInv'
PROOF
  <1>1. CASE UNCHANGED vars
    BY <1>1, StutterOrder
  <1>2. CASE Next
    <2>1. PICK s \in Sched : Proceed(s) \/ Receive(s) \/ HandlerCall(s)
      BY <1>2 DEF Next
    <2>2. CASE Proceed(s)
      BY <2>2, RunMailboxOrder, FlushMailboxOrder, RouteHereOrder, RouteToMigrantOrder, RouteAwayOrder,
         NextEventOrder, LeaveActorOrder, StopActorOrder, DestroyActorOrder, StartMigrateOrder,
         HandOverOrder DEF Proceed
    <2>3. CASE Receive(s)
      BY <2>3, ReceiveEventOrder, ReceiveActorOrder DEF Receive
    <2>4. CASE HandlerCall(s)
      BY <2>4, SendOrder, StopOrder, MigrateOrder, CreateActorOrder DEF HandlerCall
    <2> QED BY <2>1, <2>2, <2>3, <2>4
  <1> QED BY <1>1, <1>2

(* An actor that has not migrated handles what one thread sends it in the order *)
(* sent, whether send_impl ran the handler at once, put the event in the         *)
(* mailbox, had it wait in pending_events_ or sent it through a queue; and so do  *)
(* all these places hold it on its way.                                           *)
THEOREM InOrderHolds == SafeSpec => []InOrder
PROOF
  <1>1. Init => OrderInv
    BY InitOrder, ConstantsAssumption
  <1>2. IInv /\ EventInv /\ OrderInv /\ [Next]_vars => OrderInv'
    BY NextOrder, ConstantsAssumption
  <1>3. OrderInv => InOrder
    BY DEF OrderInv
  <1>4. SafeSpec => [](IInv /\ EventInv)
    BY EventsAccounted
  <1> QED BY <1>1, <1>2, <1>3, <1>4, PTL DEF SafeSpec
================================================================================

------------------------------ MODULE Scheduler ------------------------------
(***************************************************************************)
(* The schedulers of the actor runtime and the actors they run: sending,   *)
(* mailboxes, EventGuards, migration, creation, stop and slot reuse, under  *)
(* the most general actors, whose handlers send to any actor, create, stop  *)
(* and migrate as they like.                                                *)
(*                                                                         *)
(* One scheduler is one thread.  What another thread can see of an          *)
(* ActorInfo is its generation and sched_id_, both read without a lock, so  *)
(* send_impl is two steps (check that the actor is alive, then read         *)
(* sched_id_ and act on it), and a migration is two (store sched_id_, then  *)
(* put the actor in the queue of its destination).  The rest of a step only  *)
(* touches what its own thread owns.  The inbound queue is the FIFO of      *)
(* FifoInbox, which MpscPollableQueue implements.                            *)
(***************************************************************************)
EXTENDS Naturals, FiniteSets, FiniteSetsExt, SequencesExt

CONSTANTS
  Sched,                    \* scheduler threads that know each other
  NoSched,                  \* sched_id_ of a cleared ActorInfo, (1 << 30) - 1
  Info,                     \* ActorInfo slots of the ObjectPools
  Home,                     \* scheduler whose ObjectPool a slot belongs to
  InitialActors,            \* slots of the actors that exist when the threads start
  Destinations,             \* schedulers that actors are created on or migrate to
  MaxGen,                   \* bound: generations of a slot
  MaxSends,                 \* bound: events sent by the handlers of each thread
  MaxMoves                  \* bound: calls of migrate() by the actors in one slot

ASSUME ConstantsAssumption ==
  /\ IsFiniteSet(Info)
  /\ NoSched \notin Sched
  /\ Home \in [Info -> Sched]
  /\ InitialActors \subseteq Info
  /\ Destinations \subseteq Sched
  /\ MaxGen \in Nat \ {0} /\ MaxSends \in Nat /\ MaxMoves \in Nat

VARIABLES
  (* the ActorInfo slots *)
  generation,               \* generation of the slot's Storage
  sched_id_,                \* owner or destination, and the migrating bit
  alive,                    \* slots out of the pool, with an actor_
  is_running,               \* slots between start_run and finish_run
  mailbox,                  \* events of mailbox_, oldest first
  (* the schedulers *)
  ready,                    \* ready_actors_list_, next to run first
  batch,                    \* actors_list of run_mailbox
  pending,                  \* pending_actors_list_
  pending_events,           \* events for actors migrating here, by slot
  inbound,                  \* inbound_queue_
  actor_count,
  stack,                    \* EventGuards on the thread's stack, innermost last
  call,                     \* what the thread is in the middle of
  (* history *)
  sent,                     \* events sent so far
  handled,                  \* events whose handler was entered
  dropped,                  \* events discarded without a handler
  torn,                     \* actors whose tear_down was entered
  moves,                    \* calls of migrate() by the actors in a slot
  failed                    \* CHECKs that failed: the process is gone

slotVars == <<generation, sched_id_, alive>>
runVars  == <<is_running, mailbox, ready, batch, pending, actor_count>>
history  == <<sent, handled, dropped, torn, moves>>
vars == <<slotVars, runVars, pending_events, inbound, stack, call, history, failed>>

Id == [info : Info, gen : 0..MaxGen]

Event == [kind : {"start", "msg"}, to : Id, src : Sched, n : 0..MaxSends]

IdOf(i) == [info |-> i, gen |-> generation[i]]

StartOf(id, s) == [kind |-> "start", to |-> id, src |-> s, n |-> 0]

SentBy(s) == {e \in sent : e.kind = "msg" /\ e.src = s}

Owner(d)     == [dest |-> d, migrating |-> FALSE]
InTransit(d) == [dest |-> d, migrating |-> TRUE]

Idle == [op |-> "none"]

(* Mutant: the generation of the slot is not compared. *)
IsAliveAnyGeneration(id) == id.info \in alive

(* ActorId::get_actor_info() finds the slot still in the same generation. *)
IsAlive(id) == generation[id.info] = id.gen

(* Mutant: flush_mailbox counts one event too few. *)
GuardOneShort(i, left) ==
  [info |-> i, left |-> left - 1, stop |-> FALSE, dest |-> NoSched, down |-> FALSE]

(* An EventGuard: the events left to flush, and its EventContext flags.  A  *)
(* guard of do_stop_actor runs the tear_down of the actor.                   *)
Guard(i, left) == [info |-> i, left |-> left, stop |-> FALSE, dest |-> NoSched, down |-> FALSE]
DownGuard(i)   == [Guard(i, 0) EXCEPT !.down = TRUE]

Innermost(s) == Last(stack[s])

(* A handler of the innermost actor has the thread. *)
InHandler(s) == call[s] = Idle /\ stack[s] # <<>>

(* The thread is between two actors. *)
Free(s) == call[s] = Idle /\ stack[s] = <<>>

Check(condition, name) == failed' = IF condition THEN failed ELSE failed \union {name}

(* ListNode::remove(): a node is in a list at most once. *)
Unlink(list, i) ==
  IF \E k \in DOMAIN list : list[k] = i
    THEN RemoveAt(list, CHOOSE k \in DOMAIN list : list[k] = i)
    ELSE list

(* Move the list node of i to the end of ready_actors_list_ ... *)
MoveToReady(s, i) ==
  /\ ready' = [ready EXCEPT ![s] = Append(Unlink(@, i), i)]
  /\ batch' = [batch EXCEPT ![s] = Unlink(@, i)]
  /\ pending' = [pending EXCEPT ![s] = @ \ {i}]

(* ... to pending_actors_list_, or to no list. *)
MoveToPending(s, i) ==
  /\ ready' = [ready EXCEPT ![s] = Unlink(@, i)]
  /\ batch' = [batch EXCEPT ![s] = Unlink(@, i)]
  /\ pending' = [pending EXCEPT ![s] = @ \union {i}]

(* Mutant: the node of an idle actor stays in pending_actors_list_. *)
UnlistReadyOnly(s, i) ==
  /\ ready' = [ready EXCEPT ![s] = Unlink(@, i)]
  /\ batch' = [batch EXCEPT ![s] = Unlink(@, i)]
  /\ UNCHANGED pending

Unlist(s, i) ==
  /\ ready' = [ready EXCEPT ![s] = Unlink(@, i)]
  /\ batch' = [batch EXCEPT ![s] = Unlink(@, i)]
  /\ pending' = [pending EXCEPT ![s] = @ \ {i}]

(* Mutants: ~EventGuard does not look at the mailbox. *)
RelistReady(s, i) == MoveToReady(s, i)
RelistPending(s, i) == MoveToPending(s, i)

(* ~EventGuard puts the node where the mailbox says. *)
Relist(s, i) == IF mailbox[i] = <<>> THEN MoveToPending(s, i) ELSE MoveToReady(s, i)

InitialAt(s) == {i \in InitialActors : Home[i] = s}

FirstStart(i) == StartOf([info |-> i, gen |-> 0], Home[i])

(* main() registered the actors on their schedulers; each got its Start. *)
Init ==
  /\ generation = [i \in Info |-> 0]
  /\ sched_id_ = [i \in Info |-> Owner(IF i \in InitialActors THEN Home[i] ELSE NoSched)]
  /\ alive = InitialActors
  /\ is_running = [i \in Info |-> FALSE]
  /\ mailbox = [i \in Info |-> IF i \in InitialActors THEN <<FirstStart(i)>> ELSE <<>>]
  /\ ready = [s \in Sched |-> SetToSeq(InitialAt(s))]
  /\ batch = [s \in Sched |-> <<>>]
  /\ pending = [s \in Sched |-> {}]
  /\ pending_events = [s \in Sched |-> [i \in Info |-> <<>>]]
  /\ inbound = [s \in Sched |-> <<>>]
  /\ actor_count = [s \in Sched |-> Cardinality(InitialAt(s))]
  /\ stack = [s \in Sched |-> <<>>]
  /\ call = [s \in Sched |-> Idle]
  /\ sent = {FirstStart(i) : i \in InitialActors}
  /\ handled = {}
  /\ dropped = {}
  /\ torn = {}
  /\ moves = [i \in Info |-> 0]
  /\ failed = {}

-----------------------------------------------------------------------------
(* The scheduler's loop *)

(* run_mailbox: take the whole ready list as this round's actors_list. *)
RunMailbox(s) ==
  /\ Free(s)
  /\ batch[s] = <<>>
  /\ ready[s] # <<>>
  /\ batch' = [batch EXCEPT ![s] = ready[s]]
  /\ ready' = [ready EXCEPT ![s] = <<>>]
  /\ UNCHANGED <<slotVars, is_running, mailbox, pending, actor_count, pending_events,
                 inbound, stack, call, history, failed>>

(* An EventGuard for i, and do_event of its first event e. *)
Enter(s, i, e, left) ==
  /\ is_running' = [is_running EXCEPT ![i] = TRUE]
  /\ stack' = [stack EXCEPT ![s] = Append(@, Guard(i, left))]
  /\ handled' = handled \union {e}

(* flush_mailbox of the next actor of the round: its guard and first event. *)
FlushMailbox(s) ==
  /\ Free(s)
  /\ batch[s] # <<>>
  /\ LET i == Head(batch[s]) IN
       /\ batch' = [batch EXCEPT ![s] = Tail(@)]
       /\ Check(mailbox[i] # <<>> /\ ~is_running[i], "flush_mailbox")
       /\ IF mailbox[i] = <<>> \/ is_running[i]
            THEN UNCHANGED <<is_running, mailbox, stack, handled>>
            ELSE /\ Enter(s, i, Head(mailbox[i]), Len(mailbox[i]) - 1)
                 /\ mailbox' = [mailbox EXCEPT ![i] = Tail(@)]
  /\ UNCHANGED <<slotVars, ready, pending, actor_count, pending_events, inbound, call,
                 sent, dropped, torn, moves>>

(* ServiceActor::loop takes an event: try_emit starts an Immediate send. *)
ReceiveEvent(s) ==
  /\ Free(s)
  /\ inbound[s] # <<>>
  /\ Head(inbound[s]).op = "event"
  /\ inbound' = [inbound EXCEPT ![s] = Tail(@)]
  /\ LET e == Head(inbound[s]).event IN
       IF IsAlive(e.to)
         THEN /\ call' = [call EXCEPT ![s] = [op |-> "send", event |-> e, immediate |-> TRUE]]
              /\ UNCHANGED dropped
         ELSE /\ dropped' = dropped \union {e}
              /\ UNCHANGED call
  /\ UNCHANGED <<slotVars, runVars, pending_events, stack, sent, handled, torn, moves, failed>>

(* Mutants: pending_events_ is left behind, or goes before the mailbox. *)
MailLeftBehind(s, i) == mailbox[i]
MailReversed(s, i) == pending_events[s][i] \o mailbox[i]

(* What came before the migration, then what waited for the actor here. *)
MailOnArrival(s, i) == mailbox[i] \o pending_events[s][i]

(* ServiceActor::loop takes a migrated actor: register_migrated_actor. *)
ReceiveActor(s) ==
  /\ Free(s)
  /\ inbound[s] # <<>>
  /\ Head(inbound[s]).op = "actor"
  /\ inbound' = [inbound EXCEPT ![s] = Tail(@)]
  /\ LET i == Head(inbound[s]).info
         mail == MailOnArrival(s, i) IN
       /\ Check(sched_id_[i] = InTransit(s), "register_migrated_actor")
       /\ actor_count' = [actor_count EXCEPT ![s] = @ + 1]
       /\ sched_id_' = [sched_id_ EXCEPT ![i] = Owner(s)]
       /\ mailbox' = [mailbox EXCEPT ![i] = mail]
       /\ pending_events' = [pending_events EXCEPT ![s][i] = <<>>]
       /\ IF mail = <<>> THEN MoveToPending(s, i) ELSE MoveToReady(s, i)
  /\ UNCHANGED <<generation, alive, is_running, stack, call, history>>

-----------------------------------------------------------------------------
(* Calls a handler makes *)

(* send_impl, first half: get_actor_info() finds the actor alive. *)
Send(s, i, immediate) ==
  /\ InHandler(s)
  /\ i \in alive
  /\ Cardinality(SentBy(s)) < MaxSends
  /\ LET e == [kind |-> "msg", to |-> IdOf(i), src |-> s, n |-> Cardinality(SentBy(s)) + 1] IN
       /\ sent' = sent \union {e}
       /\ call' = [call EXCEPT ![s] = [op |-> "send", event |-> e, immediate |-> immediate]]
  /\ UNCHANGED <<slotVars, runVars, pending_events, inbound, stack, handled, dropped, torn,
                 moves, failed>>

(* Mutant: an Immediate send runs before the mail that came earlier. *)
CanRunBeforeMail(i) == ~is_running[i]

(* An Immediate send may not overtake the mailbox, nor re-enter the actor. *)
CanRunNow(i) == ~is_running[i] /\ mailbox[i] = <<>>

(* send_impl, second half: sched_id_ is read, and the actor of this        *)
(* scheduler is run at once or gets the event in its mailbox.               *)
RouteHere(s) ==
  /\ call[s].op = "send"
  /\ call' = [call EXCEPT ![s] = Idle]
  /\ LET e == call[s].event
         i == e.to.info IN
       /\ sched_id_[i] = Owner(s)
       /\ IF call[s].immediate /\ CanRunNow(i)
            THEN /\ Enter(s, i, e, 0)
                 /\ UNCHANGED <<mailbox, ready, batch, pending>>
            ELSE /\ mailbox' = [mailbox EXCEPT ![i] = Append(@, e)]
                 /\ IF is_running[i] THEN UNCHANGED <<ready, batch, pending>>
                                     ELSE MoveToReady(s, i)
                 /\ UNCHANGED <<is_running, stack, handled>>
  /\ UNCHANGED <<slotVars, actor_count, pending_events, inbound, sent, dropped, torn, moves,
                 failed>>

(* The actor is on its way here: the event waits for it in pending_events_, *)
(* under the ActorInfo that a second get_actor_info() finds.                 *)
RouteToMigrant(s) ==
  /\ call[s].op = "send"
  /\ LET e == call[s].event
         i == e.to.info IN
       /\ sched_id_[i] = InTransit(s)
       /\ Check(IsAlive(e.to), "pending_key")
       /\ IF IsAlive(e.to)
            THEN /\ pending_events' = [pending_events EXCEPT ![s][i] = Append(@, e)]
                 /\ call' = [call EXCEPT ![s] = Idle]
            ELSE UNCHANGED <<pending_events, call>>
  /\ UNCHANGED <<slotVars, runVars, inbound, stack, history>>

(* The actor is, or will be, elsewhere: send_to_other_scheduler.  The       *)
(* scheduler of a cleared ActorInfo does not exist, and the event is lost.   *)
RouteAway(s) ==
  /\ call[s].op = "send"
  /\ call' = [call EXCEPT ![s] = Idle]
  /\ LET e == call[s].event
         d == sched_id_[e.to.info].dest IN
       /\ d # s
       /\ IF d \in Sched
            THEN /\ inbound' = [inbound EXCEPT ![d] = Append(@, [op |-> "event", event |-> e])]
                 /\ UNCHANGED dropped
            ELSE /\ dropped' = dropped \union {e}
                 /\ UNCHANGED inbound
  /\ UNCHANGED <<slotVars, runVars, pending_events, stack, sent, handled, torn, moves, failed>>

(* stop(): the guard stops the actor when its handler returns. *)
Stop(s) ==
  /\ InHandler(s)
  /\ ~Innermost(s).down /\ ~Innermost(s).stop
  /\ stack' = [stack EXCEPT ![s][Len(stack[s])].stop = TRUE]
  /\ UNCHANGED <<slotVars, runVars, pending_events, inbound, call, history, failed>>

(* migrate(): the guard sends the actor to scheduler d. *)
Migrate(s, d) ==
  /\ InHandler(s)
  /\ d # s
  /\ ~Innermost(s).down
  /\ moves[Innermost(s).info] < MaxMoves
  /\ moves' = [moves EXCEPT ![Innermost(s).info] = @ + 1]
  /\ stack' = [stack EXCEPT ![s][Len(stack[s])].dest = d]
  /\ UNCHANGED <<slotVars, runVars, pending_events, inbound, call, sent, handled, dropped,
                 torn, failed>>

(* register_actor_impl: a slot of this scheduler's pool, an actor with its *)
(* Start, and for another scheduler the first half of do_migrate_actor.     *)
CreateActor(s, i, d) ==
  /\ InHandler(s)
  /\ i \notin alive /\ Home[i] = s /\ generation[i] < MaxGen
  /\ LET start == StartOf(IdOf(i), s) IN
       /\ sent' = sent \union {start}
       /\ mailbox' = [mailbox EXCEPT ![i] = <<start>>]
  /\ alive' = alive \union {i}
  /\ Check(~is_running[i] /\ ~sched_id_[i].migrating, "init")
  /\ IF d = s
       THEN /\ sched_id_' = [sched_id_ EXCEPT ![i] = Owner(s)]
            /\ actor_count' = [actor_count EXCEPT ![s] = @ + 1]
            /\ MoveToReady(s, i)
            /\ UNCHANGED call
       ELSE /\ sched_id_' = [sched_id_ EXCEPT ![i] = InTransit(d)]
            /\ call' = [call EXCEPT ![s] = [op |-> "handover", info |-> i, dest |-> d]]
            /\ UNCHANGED <<actor_count, ready, batch, pending>>
  /\ UNCHANGED <<generation, is_running, pending_events, inbound, stack, handled, dropped, torn,
                 moves>>

-----------------------------------------------------------------------------
(* A handler returns *)

(* Mutant: do_stop_actor runs tear_down but does not destroy the actor. *)
DoneThoughDown(s) == InHandler(s)

Done(s) == InHandler(s) /\ ~Innermost(s).down

(* The flags are clear: flush_mailbox goes on with the next event. *)
NextEvent(s) ==
  /\ Done(s)
  /\ LET g == Innermost(s) IN
       /\ g.left > 0 /\ ~g.stop /\ g.dest = NoSched
       /\ stack' = [stack EXCEPT ![s][Len(stack[s])].left = @ - 1]
       /\ handled' = handled \union {Head(mailbox[g.info])}
       /\ mailbox' = [mailbox EXCEPT ![g.info] = Tail(@)]
  /\ UNCHANGED <<slotVars, is_running, ready, batch, pending, actor_count, pending_events,
                 inbound, call, sent, dropped, torn, moves, failed>>

(* ~EventGuard with no flag set. *)
LeaveActor(s) ==
  /\ Done(s)
  /\ LET g == Innermost(s) IN
       /\ g.left = 0 /\ ~g.stop /\ g.dest = NoSched
       /\ is_running' = [is_running EXCEPT ![g.info] = FALSE]
       /\ Relist(s, g.info)
  /\ stack' = [stack EXCEPT ![s] = Front(@)]
  /\ UNCHANGED <<slotVars, mailbox, actor_count, pending_events, inbound, call, history, failed>>

(* ~EventGuard with Stop, which wins over Migrate: do_stop_actor enters a   *)
(* guard of its own and the actor's tear_down.                               *)
StopActor(s) ==
  /\ Done(s)
  /\ LET g == Innermost(s) IN
       /\ g.stop
       /\ Check(sched_id_[g.info] = Owner(s), "do_stop_actor")
       /\ Relist(s, g.info)
       /\ torn' = torn \union {IdOf(g.info)}
       /\ stack' = [stack EXCEPT ![s] = Append(Front(@), DownGuard(g.info))]
  /\ UNCHANGED <<slotVars, is_running, mailbox, actor_count, pending_events, inbound, call,
                 sent, handled, dropped, moves>>

(* ~EventGuard with Migrate: start_migrate_actor publishes the destination. *)
StartMigrate(s) ==
  /\ Done(s)
  /\ LET g == Innermost(s) IN
       /\ ~g.stop /\ g.dest # NoSched
       /\ is_running' = [is_running EXCEPT ![g.info] = FALSE]
       /\ actor_count' = [actor_count EXCEPT ![s] = @ - 1]
       /\ Check(actor_count[s] > 0, "start_migrate_actor")
       /\ sched_id_' = [sched_id_ EXCEPT ![g.info] = InTransit(g.dest)]
       /\ Unlist(s, g.info)
       /\ call' = [call EXCEPT ![s] = [op |-> "handover", info |-> g.info, dest |-> g.dest]]
  /\ stack' = [stack EXCEPT ![s] = Front(@)]
  /\ UNCHANGED <<generation, alive, mailbox, pending_events, inbound, history>>

(* do_migrate_actor, second half: the actor goes to the destination's queue. *)
HandOver(s) ==
  /\ call[s].op = "handover"
  /\ inbound' = [inbound EXCEPT ![call[s].dest] = Append(@, [op |-> "actor", info |-> call[s].info])]
  /\ call' = [call EXCEPT ![s] = Idle]
  /\ UNCHANGED <<slotVars, runVars, pending_events, stack, history, failed>>

(* tear_down returned: the actor is deleted with what its mailbox holds,    *)
(* and its slot returns to the pool in the next generation.                  *)
DestroyActor(s) ==
  /\ InHandler(s)
  /\ Innermost(s).down
  /\ LET i == Innermost(s).info IN
       /\ dropped' = dropped \union ToSet(mailbox[i])
       /\ mailbox' = [mailbox EXCEPT ![i] = <<>>]
       /\ is_running' = [is_running EXCEPT ![i] = FALSE]
       /\ Unlist(s, i)
       /\ actor_count' = [actor_count EXCEPT ![s] = @ - 1]
       /\ Check(actor_count[s] > 0 /\ sched_id_[i] = Owner(s), "destroy_actor")
       /\ generation' = [generation EXCEPT ![i] = @ + 1]
       /\ sched_id_' = [sched_id_ EXCEPT ![i] = Owner(NoSched)]
       /\ alive' = alive \ {i}
  /\ stack' = [stack EXCEPT ![s] = Front(@)]
  /\ UNCHANGED <<pending_events, inbound, call, sent, handled, torn, moves>>

-----------------------------------------------------------------------------
(* What the thread does by itself, and what handlers may make it do. *)
Proceed(s) == \/ RunMailbox(s) \/ FlushMailbox(s)
              \/ RouteHere(s) \/ RouteToMigrant(s) \/ RouteAway(s)
              \/ NextEvent(s) \/ LeaveActor(s) \/ StopActor(s) \/ DestroyActor(s)
              \/ StartMigrate(s) \/ HandOver(s)

Receive(s) == ReceiveEvent(s) \/ ReceiveActor(s)

HandlerCall(s) ==
  \/ \E i \in Info, immediate \in BOOLEAN : Send(s, i, immediate)
  \/ Stop(s)
  \/ \E d \in Destinations : Migrate(s, d)
  \/ \E i \in Info, d \in Destinations \union {s} : CreateActor(s, i, d)

(* A failed CHECK ends the process. *)
Next == /\ failed = {}
        /\ \E s \in Sched : Proceed(s) \/ Receive(s) \/ HandlerCall(s)

(* Handlers return and threads run.  ServiceActor::loop gets its turn       *)
(* whenever the queue has something, which NoLostWakeup of                  *)
(* MpscPollableQueue and its place in the ready list provide.                *)
Fairness == \A s \in Sched : WF_vars(Proceed(s)) /\ WF_vars(Receive(s))

SafeSpec == Init /\ [][Next]_vars

Spec == SafeSpec /\ Fairness

-----------------------------------------------------------------------------
(* Properties *)

Entry == [op : {"event"}, event : Event] \union [op : {"actor"}, info : Info]

EventGuard == [info : Info, left : Nat, stop : BOOLEAN, dest : Sched \union {NoSched},
               down : BOOLEAN]

Call == {Idle} \union [op : {"send"}, event : Event, immediate : BOOLEAN]
               \union [op : {"handover"}, info : Info, dest : Sched]

(* Every variable has its type (Scheduler-decl.h, ActorInfo-decl.h). *)
TypeOK ==
  /\ generation \in [Info -> 0..MaxGen]
  /\ sched_id_ \in [Info -> [dest : Sched \union {NoSched}, migrating : BOOLEAN]]
  /\ alive \subseteq Info
  /\ is_running \in [Info -> BOOLEAN]
  /\ mailbox \in [Info -> Seq(Event)]
  /\ ready \in [Sched -> Seq(Info)] /\ batch \in [Sched -> Seq(Info)]
  /\ pending \in [Sched -> SUBSET Info]
  /\ pending_events \in [Sched -> [Info -> Seq(Event)]]
  /\ inbound \in [Sched -> Seq(Entry)]
  /\ actor_count \in [Sched -> Nat]
  /\ stack \in [Sched -> Seq(EventGuard)]
  /\ call \in [Sched -> Call]
  /\ sent \subseteq Event /\ handled \subseteq sent /\ dropped \subseteq sent
  /\ torn \subseteq Id
  /\ moves \in [Info -> 0..MaxMoves]

(* The CHECKs of the runtime: no actor is entered while it runs             *)
(* (ActorInfo.h:176), an actor on a run list has mail (Scheduler.cpp:499),  *)
(* a migrated actor arrives where it was sent (Scheduler.cpp:307), an actor *)
(* is stopped by its owner (Scheduler.cpp:395), counts do not go below 0    *)
(* (Scheduler.cpp:448, Scheduler.h:140), and pending_events_ gets no null   *)
(* key (FlatHashTable.h:311).                                                *)
ChecksHold == failed = {}

Listed(s)  == ToSet(ready[s]) \union ToSet(batch[s]) \union pending[s]
Running(s) == {stack[s][k].info : k \in DOMAIN stack[s]}

(* Where a migrating actor is between its two schedulers. *)
HandedOver(i) == {s \in Sched : call[s].op = "handover" /\ call[s].info = i}
ArrivingAt(i, s) == {k \in DOMAIN inbound[s] : inbound[s][k] = [op |-> "actor", info |-> i]}
Arriving(i)   == UNION {{<<s, k>> : k \in ArrivingAt(i, s)} : s \in Sched}

(* An actor belongs to one thread: it is listed or running only where its   *)
(* sched_id_ says, or in transit, off every list and in one place on its    *)
(* way to the destination that sched_id_ names; actor_count_ counts the      *)
(* actors a thread owns.                                                      *)
Settled(i) ==
  LET d == sched_id_[i].dest IN
    /\ d \in Sched
    /\ i \in Listed(d) \union Running(d)
    /\ \A s \in Sched \ {d} : i \notin Listed(s) \union Running(s)
    /\ HandedOver(i) = {} /\ Arriving(i) = {}

Travelling(i) ==
  LET d == sched_id_[i].dest IN
    /\ d \in Sched
    /\ \A s \in Sched : i \notin Listed(s) \union Running(s)
    /\ Cardinality(HandedOver(i)) + Cardinality(Arriving(i)) = 1
    /\ \A s \in HandedOver(i) : call[s].dest = d
    /\ \A a \in Arriving(i) : a[1] = d

OneOwner ==
  /\ \A i \in alive : IF sched_id_[i].migrating THEN Travelling(i) ELSE Settled(i)
  /\ \A s \in Sched : actor_count[s] = Cardinality({i \in alive : sched_id_[i] = Owner(s)})

(* No mail is forgotten: the run lists hold exactly the idle actors with    *)
(* mail, each once, and pending_events_ has events only for actors on their *)
(* way to this scheduler.                                                    *)
MailIsListed ==
  \A s \in Sched :
    /\ Len(ready[s]) + Len(batch[s]) = Cardinality(ToSet(ready[s]) \union ToSet(batch[s]))
    /\ \A i \in Listed(s) : ~is_running[i] => (mailbox[i] = <<>> <=> i \in pending[s])
    /\ \A i \in Info : pending_events[s][i] # <<>> => i \in alive /\ sched_id_[i] = InTransit(s)

(* An actor is where its one owner will find it whenever it has mail. *)
OwnersAndLists == OneOwner /\ MailIsListed

At(e, q) == {k \in DOMAIN q : q[k] = e}

PlacesOn(s, e) ==
  {<<"pending", s, k>> : k \in At(e, pending_events[s][e.to.info])}
    \union {<<"inbound", s, k>> : k \in At([op |-> "event", event |-> e], inbound[s])}
    \union {<<"call", s>> : c \in {c \in {call[s]} : c.op = "send" /\ c.event = e}}

(* Wherever an event is: done with, in its actor's mailbox, or on a thread  *)
(* that waits for the actor, is to route the event, or has it in its queue.  *)
Places(e) ==
  {<<"handled">> : done \in {e} \intersect handled}
    \union {<<"dropped">> : done \in {e} \intersect dropped}
    \union {<<"mailbox", k>> : k \in At(e, mailbox[e.to.info])}
    \union UNION {PlacesOn(s, e) : s \in Sched}

(* An event is never lost or duplicated on its way through queues,          *)
(* mailboxes and migrations, and it is discarded only when its addressee    *)
(* is dead.                                                                  *)
EventsConserved ==
  /\ \A e \in sent : Cardinality(Places(e)) = 1
  /\ \A e \in dropped : ~IsAlive(e.to)

(* An event reaches the actor it was sent to, never a later actor in the    *)
(* same slot: what a mailbox or pending_events_ holds is addressed to the   *)
(* actor that is there now.                                                  *)
RightActor ==
  \A i \in Info :
    /\ \A e \in ToSet(mailbox[i]) : e.to = IdOf(i)
    /\ \A s \in Sched : \A e \in ToSet(pending_events[s][i]) : e.to = IdOf(i)

(* Start is the first event an actor handles, wherever it was created. *)
StartFirst == \A e \in handled : StartOf(e.to, Home[e.to.info]) \in handled

(* An actor handles its own events only, and Start before the others. *)
OwnEvents == StartFirst /\ RightActor

(* tear_down is the last: it is entered once, and no event of the actor is  *)
(* handled after it, though the actor may still get mail while it runs.      *)
TearDownLast ==
  [][ /\ \A e \in handled' \ handled : e.to \notin torn
      /\ \A s \in Sched : StopActor(s) => IdOf(Innermost(s).info) \notin torn ]_vars

(* Events from one thread to an actor that has not migrated are handled in  *)
(* the order sent, whether they went through a mailbox, a queue, or ran at   *)
(* once.                                                                      *)
InOrder ==
  \A e \in handled, f \in sent :
    (e.kind = "msg" /\ f.kind = "msg" /\ f.src = e.src /\ f.to = e.to /\ f.n < e.n /\ moves[e.to.info] = 0)
      => f \in handled \union dropped

(* Once the handlers stop sending, every event has been handled, or its     *)
(* addressee is dead: no mailbox, queue or pending_events_ keeps mail.       *)
AllDelivered == <>[](sent = handled \union dropped)

(* flat_hash_map refuses an empty key (FlatHashTable.h:311), so an event is *)
(* put in pending_events_ under an actor, not under a null pointer.          *)
PendingKeyNotNull == "pending_key" \notin failed
==============================================================================

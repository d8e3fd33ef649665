------------------------ MODULE ConcurrentScheduler ------------------------
(***************************************************************************)
(* The life of a ConcurrentScheduler from start() to the end of finish():   *)
(* the threads' loops and their polls, on_finish() and its wakeups, the     *)
(* join, and the destruction of the schedulers with the actors they have.   *)
(*                                                                         *)
(* An actor is where the module Scheduler says, with less detail: on a list  *)
(* of one scheduler, or in the inbound queue of the scheduler it migrates   *)
(* to.  Handlers do as they like, those of tear_down too.  A poll returns    *)
(* when the inbound queue has something (NoLostWakeup), and may return       *)
(* without (its 10 seconds passed, or a socket is ready).                    *)
(***************************************************************************)
EXTENDS Naturals, FiniteSets

CONSTANTS
  Sched,                    \* the schedulers, a thread each
  Main,                     \* the one whose thread calls run_main() and finish()
  NoSched,                  \* no scheduler
  Slot,                     \* ActorInfo slots of the ObjectPools
  Home,                     \* scheduler whose pool a slot belongs to
  InitialActors,            \* slots of the actors created before start()
  MaxMoves,                 \* bound: migrations
  MaxBirths                 \* bound: actors created by handlers

ASSUME ConstantsAssumption ==
  /\ Main \in Sched
  /\ NoSched \notin Sched
  /\ Home \in [Slot -> Sched]
  /\ InitialActors \subseteq Slot
  /\ MaxMoves \in Nat /\ MaxBirths \in Nat

VARIABLES
  phase,                    \* where the main thread is: run_main(), or finish()
  is_finished_,
  thread,                   \* where each thread's loop is
  yield_flag_,              \* schedulers told to skip their poll
  to_wake,                  \* schedulers that a thread's on_finish() has yet to wake
  finishers,                \* bound: threads that called finish()
  wakeups,                  \* empty events in the inbound queue
  arriving,                 \* migrated actors in the inbound queue
  actors,                   \* actors on the lists of a scheduler
  clearing,                 \* scheduler whose clear() is running
  cleared,                  \* schedulers destroyed
  pools,                    \* ObjectPools that exist
  moves, births,
  failed                    \* pools that were not empty when deleted

loopVars  == <<is_finished_, thread, yield_flag_, to_wake, finishers, wakeups>>
actorVars == <<arriving, actors, moves, births>>
endVars   == <<phase, clearing, cleared, pools, failed>>
vars == <<loopVars, actorVars, endVars>>

Place == {"test", "events", "poll", "late", "ended"}

InUse == UNION {actors[s] \union arriving[s] : s \in Sched}

Init ==
  /\ phase = "run"
  /\ is_finished_ = FALSE
  /\ thread = [s \in Sched |-> "test"]
  /\ yield_flag_ = {}
  /\ to_wake = [s \in Sched |-> {}]
  /\ finishers = {}
  /\ wakeups = [s \in Sched |-> 0]
  /\ arriving = [s \in Sched |-> {}]
  /\ actors = [s \in Sched |-> {i \in InitialActors : Home[i] = s}]
  /\ clearing = NoSched
  /\ cleared = {}
  /\ pools = Sched
  /\ moves = 0
  /\ births = 0
  /\ failed = {}

-----------------------------------------------------------------------------
(* The threads' loop: while (!is_finished()) run() *)

Test(s) ==
  /\ thread[s] = "test"
  /\ thread' = [thread EXCEPT ![s] = IF is_finished_ THEN "ended" ELSE "events"]
  /\ UNCHANGED <<is_finished_, yield_flag_, to_wake, finishers, wakeups, actorVars, endVars>>

(* run_events() is running handlers, none of which is inside on_finish(). *)
Handling(s) == thread[s] \in {"events", "late"} /\ to_wake[s] = {}

(* The first run_events() returned: poll, or not if yield_flag_ is set. *)
EndEvents(s) ==
  /\ Handling(s) /\ thread[s] = "events"
  /\ thread' = [thread EXCEPT ![s] = IF s \in yield_flag_ THEN "test" ELSE "poll"]
  /\ yield_flag_' = yield_flag_ \ {s}
  /\ UNCHANGED <<is_finished_, to_wake, finishers, wakeups, actorVars, endVars>>

(* The second one returned: run() is over. *)
EndRun(s) ==
  /\ Handling(s) /\ thread[s] = "late"
  /\ thread' = [thread EXCEPT ![s] = "test"]
  /\ yield_flag_' = yield_flag_ \ {s}
  /\ UNCHANGED <<is_finished_, to_wake, finishers, wakeups, actorVars, endVars>>

PollReturns(s) ==
  /\ thread[s] = "poll"
  /\ thread' = [thread EXCEPT ![s] = "late"]
  /\ UNCHANGED <<is_finished_, yield_flag_, to_wake, finishers, wakeups, actorVars, endVars>>

PollSignalled(s) == (wakeups[s] > 0 \/ arriving[s] # {}) /\ PollReturns(s)

(* ServiceActor::loop with an empty event, and with a migrated actor. *)
ReceiveWakeup(s) ==
  /\ Handling(s)
  /\ wakeups[s] > 0
  /\ wakeups' = [wakeups EXCEPT ![s] = @ - 1]
  /\ yield_flag_' = yield_flag_ \union {s}
  /\ UNCHANGED <<is_finished_, thread, to_wake, finishers, actorVars, endVars>>

ReceiveActor(s, i) ==
  /\ Handling(s)
  /\ i \in arriving[s]
  /\ arriving' = [arriving EXCEPT ![s] = @ \ {i}]
  /\ actors' = [actors EXCEPT ![s] = @ \union {i}]
  /\ UNCHANGED <<loopVars, moves, births, endVars>>

-----------------------------------------------------------------------------
(* Handlers *)

(* register_actor_impl: on this scheduler, or into the queue of another. *)
Register(s, i, d) ==
  /\ i \notin InUse /\ Home[i] = s
  /\ births < MaxBirths
  /\ births' = births + 1
  /\ IF d = s
       THEN actors' = [actors EXCEPT ![s] = @ \union {i}] /\ UNCHANGED arriving
       ELSE arriving' = [arriving EXCEPT ![d] = @ \union {i}] /\ UNCHANGED actors

CreateActor(s, i, d) ==
  /\ Handling(s)
  /\ Register(s, i, d)
  /\ UNCHANGED <<loopVars, moves, endVars>>

MigrateActor(s, i, d) ==
  /\ Handling(s)
  /\ i \in actors[s] /\ d # s
  /\ moves < MaxMoves
  /\ moves' = moves + 1
  /\ actors' = [actors EXCEPT ![s] = @ \ {i}]
  /\ arriving' = [arriving EXCEPT ![d] = @ \union {i}]
  /\ UNCHANGED <<loopVars, births, endVars>>

StopActor(s, i) ==
  /\ Handling(s)
  /\ i \in actors[s]
  /\ actors' = [actors EXCEPT ![s] = @ \ {i}]
  /\ UNCHANGED <<loopVars, arriving, moves, births, endVars>>

(* Scheduler::finish() calls on_finish(): is_finished_ is stored, then each *)
(* scheduler is woken; yield_flag_ is this thread's own.                     *)
CallFinish(s) ==
  /\ Handling(s)
  /\ s \notin finishers
  /\ finishers' = finishers \union {s}
  /\ is_finished_' = TRUE
  /\ to_wake' = [to_wake EXCEPT ![s] = Sched]
  /\ yield_flag_' = yield_flag_ \union {s}
  /\ UNCHANGED <<thread, wakeups, actorVars, endVars>>

(* Mutant: on_finish() wakes one scheduler only. *)
WakeNextOnly(s, d) ==
  /\ d \in to_wake[s]
  /\ to_wake' = [to_wake EXCEPT ![s] = {}]
  /\ wakeups' = [wakeups EXCEPT ![d] = @ + 1]
  /\ UNCHANGED <<is_finished_, thread, yield_flag_, finishers, actorVars, endVars>>

WakeNext(s, d) ==
  /\ d \in to_wake[s]
  /\ to_wake' = [to_wake EXCEPT ![s] = @ \ {d}]
  /\ wakeups' = [wakeups EXCEPT ![d] = @ + 1]
  /\ UNCHANGED <<is_finished_, thread, yield_flag_, finishers, actorVars, endVars>>

-----------------------------------------------------------------------------
(* ConcurrentScheduler::finish(), on the main thread *)

(* main() calls finish() although nobody finished: on_finish() first. *)
FinishUnasked ==
  /\ phase = "run"
  /\ thread[Main] = "test"
  /\ ~is_finished_
  /\ is_finished_' = TRUE
  /\ to_wake' = [to_wake EXCEPT ![Main] = Sched]
  /\ thread' = [thread EXCEPT ![Main] = "ended"]
  /\ UNCHANGED <<yield_flag_, finishers, wakeups, actorVars, endVars>>

(* Mutant: the threads are not joined. *)
Detach ==
  /\ phase = "run"
  /\ thread[Main] = "ended" /\ to_wake[Main] = {}
  /\ phase' = "clear"
  /\ UNCHANGED <<loopVars, actorVars, clearing, cleared, pools, failed>>

Join ==
  /\ phase = "run"
  /\ \A s \in Sched : thread[s] = "ended" /\ to_wake[s] = {}
  /\ phase' = "clear"
  /\ UNCHANGED <<loopVars, actorVars, clearing, cleared, pools, failed>>

(* ~Scheduler calls clear(), one scheduler after the other. *)
Clear(s) ==
  /\ phase = "clear"
  /\ clearing = NoSched
  /\ s \notin cleared
  /\ clearing' = s
  /\ UNCHANGED <<loopVars, actorVars, phase, cleared, pools, failed>>

(* do_stop_actor of a listed actor ... *)
ClearActor(i) ==
  /\ clearing # NoSched
  /\ i \in actors[clearing]
  /\ actors' = [actors EXCEPT ![clearing] = @ \ {i}]
  /\ UNCHANGED <<loopVars, arriving, moves, births, endVars>>

(* ... whose tear_down may create actors. *)
CreateInTearDown(i, d) ==
  /\ clearing # NoSched
  /\ actors[clearing] # {}
  /\ Register(clearing, i, d)
  /\ UNCHANGED <<loopVars, moves, endVars>>

(* Mutant: the pool is deleted with its scheduler. *)
ClearedWithPool ==
  /\ clearing # NoSched
  /\ actors[clearing] = {}
  /\ cleared' = cleared \union {clearing}
  /\ pools' = pools \ {clearing}
  /\ clearing' = NoSched
  /\ UNCHANGED <<loopVars, actorVars, phase, failed>>

(* Mutant: clear() goes through its lists once, before any tear_down. *)
ClearedTooEarly ==
  /\ clearing # NoSched
  /\ cleared' = cleared \union {clearing}
  /\ clearing' = NoSched
  /\ UNCHANGED <<loopVars, actorVars, phase, pools, failed>>

(* The lists are empty; the pool is left to register_at_finish(). *)
Cleared ==
  /\ clearing # NoSched
  /\ actors[clearing] = {}
  /\ cleared' = cleared \union {clearing}
  /\ clearing' = NoSched
  /\ UNCHANGED <<loopVars, actorVars, phase, pools, failed>>

(* at_finish_ deletes the pools, which want their slots back. *)
AtFinish ==
  /\ phase = "clear"
  /\ clearing = NoSched /\ cleared = Sched
  /\ phase' = "finished"
  /\ pools' = {}
  /\ failed' = {Home[i] : i \in InUse}
  /\ UNCHANGED <<loopVars, actorVars, clearing, cleared>>

-----------------------------------------------------------------------------
Loop(s) == \/ Test(s) \/ EndEvents(s) \/ EndRun(s) \/ PollSignalled(s)
           \/ \E d \in Sched : WakeNext(s, d)

Finish == \/ Join \/ Cleared \/ AtFinish
          \/ \E s \in Sched : Clear(s)
          \/ \E i \in Slot : ClearActor(i)

Handler(s) == \/ CallFinish(s)
              \/ \E i \in Slot : ReceiveActor(s, i) \/ StopActor(s, i)
              \/ \E i \in Slot, d \in Sched : CreateActor(s, i, d) \/ MigrateActor(s, i, d)

Next == \/ \E s \in Sched : Loop(s) \/ ReceiveWakeup(s) \/ PollReturns(s) \/ Handler(s)
        \/ \E i \in Slot, d \in Sched : CreateInTearDown(i, d)
        \/ FinishUnasked \/ Finish

(* Threads run, handlers return, and main() goes on.  The 10 seconds of a   *)
(* poll are not counted on, nor does anybody have to call finish().          *)
Fairness == WF_vars(Finish) /\ \A s \in Sched : WF_vars(Loop(s))

SafeSpec == Init /\ [][Next]_vars

Spec == SafeSpec /\ Fairness

-----------------------------------------------------------------------------
(* Properties *)

(* Every variable has its type (ConcurrentScheduler.h). *)
TypeOK ==
  /\ phase \in {"run", "clear", "finished"}
  /\ is_finished_ \in BOOLEAN
  /\ thread \in [Sched -> Place]
  /\ yield_flag_ \subseteq Sched /\ finishers \subseteq Sched
  /\ to_wake \in [Sched -> SUBSET Sched]
  /\ wakeups \in [Sched -> Nat]
  /\ arriving \in [Sched -> SUBSET Slot] /\ actors \in [Sched -> SUBSET Slot]
  /\ clearing \in Sched \union {NoSched}
  /\ cleared \subseteq Sched /\ pools \subseteq Sched /\ failed \subseteq Sched
  /\ moves \in 0..MaxMoves /\ births \in 0..MaxBirths

(* schedulers_ is destroyed by a main thread that is alone: no other thread *)
(* runs actors or is still inside on_finish(), which walks through           *)
(* schedulers_.                                                               *)
AloneInClear == phase # "run" => \A s \in Sched : thread[s] = "ended" /\ to_wake[s] = {}

(* An actor goes back to the pool it came from, wherever it migrated: no    *)
(* pool is deleted while an actor on some scheduler's list has a slot of it. *)
PoolOutlivesActors == \A s \in Sched : \A i \in actors[s] : Home[i] \in pools

(* A destroyed scheduler has no actor on its lists, whatever its tear_downs *)
(* create: all those that reached it were torn down.                         *)
ClearedIsEmpty == \A s \in cleared : actors[s] = {}

(* What finish() destroys is no longer needed: neither a pool by an actor nor  *)
(* a scheduler by one that was created or arrived while it was cleared.       *)
DestroyedInOrder == PoolOutlivesActors /\ ClearedIsEmpty

(* When somebody finishes, the threads end, though they may be anywhere     *)
(* between their test and their poll, and finish() completes.                *)
FinishCompletes == is_finished_ ~> phase = "finished"

(* ObjectPool.h:191: a pool is deleted when all its slots are back. *)
PoolsEmptyAtFinish == failed = {}
==============================================================================

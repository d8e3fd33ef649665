-------------------------------- MODULE Timers --------------------------------
(***************************************************************************)
(* Timers of the actors of one scheduler: its heap of deadlines and loop     *)
(* (run_mailbox, run_timeout, run_poll), a MultiTimeout and a Timeout.       *)
(*                                                                         *)
(* The two timer actors are called directly, not by messages, by the         *)
(* handlers of the program's other actors (the clients).  A client runs      *)
(* between two actors of a round of run_mailbox, in the poll, and in the     *)
(* callbacks of the timers.  A timer actor gets a Timeout event from         *)
(* run_timeout: it is handled at once, or waits behind the Start and the     *)
(* Yield that an actor still has in its mailbox when it is new.              *)
(***************************************************************************)
EXTENDS KHeap, FiniteSetsExt

CONSTANTS
  TimerKey,                 \* keys of the MultiTimeout
  MaxTime,                  \* bound: the last deadline
  Delays,                   \* delays the clients ask for
  MaxCalls                  \* bound: calls the clients make

ASSUME TimersAssumption == MaxTime \in Nat /\ MaxCalls \in Nat /\ Delays \subseteq Nat

VARIABLES
  (* the scheduler *)
  clock,                    \* Time::now()
  timeout_queue_,           \* deadlines of the actors
  mail,                     \* mailbox_ of the timer actors, <<"none">> before register_actor
  ready_actors_list_,
  actors_list,              \* actors that this round of run_mailbox has not run yet
  phase,                    \* "mailbox", "timeout" or "poll"
  expiry,                   \* what run_timeout compares deadlines with
  wake,                     \* when the poll times out
  in_guard,                 \* the timer actor in its EventGuard, or "nobody"
  events,                   \* its mail that flush_mailbox has and has not handled
  (* the two timer actors *)
  items_,                   \* keys set in the MultiTimeout
  key_queue_,               \* its timeout_queue_
  callback_,                \* the Timeout has its callback
  callbacks,                \* callbacks under way, innermost first
  (* bound and history *)
  calls,                    \* calls made
  failures                  \* CHECKs that failed: the process is gone

multiVars   == <<items_, key_queue_>>
actorVars   == <<mail, ready_actors_list_>>
loopVars    == <<actors_list, phase, expiry, in_guard, events>>
timersVars  == <<clock, timeout_queue_, actorVars, loopVars, wake, multiVars, callback_,
                 callbacks, calls, failures>>

Never == MaxTime + 2

TimersInit ==
  /\ clock = 0
  /\ timeout_queue_ = <<>>
  /\ mail = [a \in {"multi", "single"} |-> <<"none">>]
  /\ ready_actors_list_ = <<>>
  /\ actors_list = <<>>
  /\ phase = "mailbox"
  /\ expiry = 0
  /\ wake = Never
  /\ in_guard = "nobody"
  /\ events = [done |-> 0, left |-> 0]
  /\ items_ = {}
  /\ key_queue_ = <<>>
  /\ callback_ = FALSE
  /\ callbacks = <<>>
  /\ calls = 0
  /\ failures = {}

Made(a) == mail[a] # <<"none">>

Must(condition, name) == failures' = IF condition THEN failures ELSE failures \union {name}

(* set_actor_timeout_at *)
WithTimeout(heap, a, t) == IF InHeap(heap, a) THEN Fix(heap, t, a) ELSE Insert(heap, t, a)

-----------------------------------------------------------------------------
(* The clients *)

(* A client has the thread and makes a call; in the poll, an event woke it. *)
ClientCalls ==
  /\ failures = {}
  /\ callbacks # <<>> \/ (in_guard = "nobody" /\ phase \in {"mailbox", "poll"})
  /\ wake' = IF phase = "poll" THEN clock ELSE wake
  /\ UNCHANGED <<clock, loopVars>>

(* register_actor: a new actor has a Start to handle. *)
Register(a) ==
  /\ ClientCalls
  /\ ~Made(a)
  /\ mail' = [mail EXCEPT ![a] = <<"Start">>]
  /\ ready_actors_list_' = Append(ready_actors_list_, a)
  /\ UNCHANGED <<timeout_queue_, multiVars, callback_, callbacks, calls, failures>>

CallsOn(a) ==
  /\ ClientCalls
  /\ Made(a)
  /\ calls < MaxCalls
  /\ calls' = calls + 1
  /\ UNCHANGED actorVars

(* MultiTimeout::update_timeout after the items changed, with the heap of   *)
(* the scheduler.  The Timeout that a flush is handling is still in the      *)
(* mailbox.                                                                  *)
UpdateTimeout(heap) ==
  IF items_' # {}
    THEN /\ timeout_queue_' = WithTimeout(heap, "multi", TopKey(key_queue_'))
         /\ UNCHANGED failures
    ELSE IF InHeap(heap, "multi")
           THEN timeout_queue_' = Erase(heap, "multi") /\ UNCHANGED failures
           ELSE timeout_queue_' = heap /\ Must("Timeout" \in ToSet(mail["multi"]), "pending")

(* Mutant: the timer is not looked at when the first key moves back. *)
UpdateIfTop(k, wasTop) ==
  IF IsTop(key_queue_', k)
    THEN UpdateTimeout(timeout_queue_)
    ELSE UNCHANGED <<timeout_queue_, failures>>

(* set_timeout_at and cancel_timeout look whether the first key changed. *)
UpdateIfMoved(k, wasTop) ==
  IF wasTop \/ IsTop(key_queue_', k)
    THEN UpdateTimeout(timeout_queue_)
    ELSE UNCHANGED <<timeout_queue_, failures>>

(* MultiTimeout::set_timeout_at *)
SetKey(k, t) ==
  /\ CallsOn("multi")
  /\ items_' = items_ \union {k}
  /\ key_queue_' = IF InHeap(key_queue_, k) THEN Fix(key_queue_, t, k)
                                            ELSE Insert(key_queue_, t, k)
  /\ UpdateIfMoved(k, IsTop(key_queue_, k))
  /\ UNCHANGED <<callback_, callbacks>>

(* MultiTimeout::add_timeout_at does nothing to a key that is set. *)
AddKey(k, t) ==
  /\ k \notin items_
  /\ SetKey(k, t)

(* MultiTimeout::cancel_timeout *)
CancelKey(k) ==
  /\ CallsOn("multi")
  /\ k \in items_
  /\ items_' = items_ \ {k}
  /\ key_queue_' = Erase(key_queue_, k)
  /\ UpdateIfMoved(k, IsTop(key_queue_, k))
  /\ UNCHANGED <<callback_, callbacks>>

(* A heap after n pops ... *)
AfterPops(queue) ==
  LET after[n \in 0..Len(queue)] == IF n = 0 THEN queue ELSE WithoutTop(after[n - 1])
  IN after

(* ... and how many get_expired_keys makes: until no deadline is before t.  *)
ExpiredCount(queue, t) ==
  Min({n \in 0..Len(queue) : n = Len(queue) \/ TopKey(AfterPops(queue)[n]) >= t})

Expired(queue, t) == [i \in 1..ExpiredCount(queue, t) |-> AfterPops(queue)[i - 1][1].node]

Unexpired(queue, t) == AfterPops(queue)[ExpiredCount(queue, t)]

TakeExpired(t) ==
  /\ key_queue_' = Unexpired(key_queue_, t)
  /\ items_' = items_ \ ToSet(Expired(key_queue_, t))
  /\ callbacks' = Expired(key_queue_, t) \o callbacks

(* MultiTimeout::run_all: the callbacks of all keys, on the caller's stack. *)
RunAll ==
  /\ CallsOn("multi")
  /\ key_queue_ # <<>>
  /\ TakeExpired(Never)
  /\ UpdateTimeout(timeout_queue_)
  /\ UNCHANGED callback_

(* Timeout: set_callback, then set_timeout_at. *)
SetSingle(t) ==
  /\ CallsOn("single")
  /\ callback_' = TRUE
  /\ timeout_queue_' = WithTimeout(timeout_queue_, "single", t)
  /\ UNCHANGED <<multiVars, callbacks, failures>>

(* Timeout::cancel_timeout *)
CancelSingle ==
  /\ CallsOn("single")
  /\ InHeap(timeout_queue_, "single")
  /\ timeout_queue_' = Erase(timeout_queue_, "single")
  /\ callback_' = FALSE
  /\ UNCHANGED <<multiVars, callbacks, failures>>

(* A callback returns. *)
CallbackReturns ==
  /\ failures = {}
  /\ callbacks # <<>>
  /\ callbacks' = Tail(callbacks)
  /\ UNCHANGED <<clock, timeout_queue_, actorVars, loopVars, wake, multiVars, callback_,
                 calls, failures>>

-----------------------------------------------------------------------------
(* The scheduler's loop *)

SchedulerRuns ==
  /\ failures = {}
  /\ callbacks = <<>>
  /\ UNCHANGED <<clock, calls>>

FirstOfRound ==
  /\ phase' = "mailbox"
  /\ actors_list' = ready_actors_list_
  /\ ready_actors_list_' = <<>>

(* flush_mailbox of the next actor: an EventGuard, and the mail it has now. *)
RunActor ==
  /\ SchedulerRuns
  /\ phase = "mailbox" /\ in_guard = "nobody" /\ actors_list # <<>>
  /\ in_guard' = Head(actors_list)
  /\ actors_list' = Tail(actors_list)
  /\ events' = [done |-> 0, left |-> Len(mail[Head(actors_list)])]
  /\ UNCHANGED <<timeout_queue_, actorVars, phase, expiry, wake, multiVars, callback_,
                 callbacks, failures>>

(* MultiTimeout::timeout_expired *)
MultiExpired(heap) ==
  /\ TakeExpired(clock)
  /\ IF items_' # {}
       THEN UpdateTimeout(heap)
       ELSE timeout_queue_' = heap /\ UNCHANGED failures
  /\ UNCHANGED callback_

(* Timeout's two CHECKs, the second where the first holds: set again and then *)
(* cancelled while the event waits, the Timeout has no callback.             *)
SingleExpired(heap) ==
  /\ failures' = failures \union
       (IF InHeap(heap, "single") THEN {"!has_timeout"}
        ELSE IF ~callback_ THEN {"callback_"} ELSE {})
  /\ callback_' = FALSE
  /\ callbacks' = <<"single">>
  /\ timeout_queue_' = heap
  /\ UNCHANGED multiVars

TimeoutExpired(a, heap) == IF a = "multi" THEN MultiExpired(heap) ELSE SingleExpired(heap)

(* do_event of the next event.  The start_up of an Actor yields. *)
DoEvent ==
  /\ SchedulerRuns
  /\ in_guard # "nobody" /\ events.left > 0
  /\ events' = [done |-> events.done + 1, left |-> events.left - 1]
  /\ LET event == mail[in_guard][events.done + 1] IN
       /\ mail' = IF event = "Start" THEN [mail EXCEPT ![in_guard] = Append(@, "Yield")] ELSE mail
       /\ IF event = "Timeout"
            THEN TimeoutExpired(in_guard, timeout_queue_)
            ELSE UNCHANGED <<timeout_queue_, multiVars, callback_, callbacks, failures>>
  /\ UNCHANGED <<ready_actors_list_, actors_list, phase, expiry, wake, in_guard>>

(* ~EventGuard, after flush_mailbox erased what it handled. *)
LeaveActor ==
  /\ SchedulerRuns
  /\ in_guard # "nobody" /\ events.left = 0
  /\ in_guard' = "nobody"
  /\ events' = [done |-> 0, left |-> 0]
  /\ LET rest == SubSeq(mail[in_guard], events.done + 1, Len(mail[in_guard])) IN
       /\ mail' = [mail EXCEPT ![in_guard] = rest]
       /\ ready_actors_list_' = IF rest = <<>> THEN ready_actors_list_
                                               ELSE Append(ready_actors_list_, in_guard)
  /\ UNCHANGED <<timeout_queue_, actors_list, phase, expiry, wake, multiVars, callback_,
                 callbacks, failures>>

(* run_timeout reads the clock once. *)
RunTimeout ==
  /\ SchedulerRuns
  /\ phase = "mailbox" /\ in_guard = "nobody" /\ actors_list = <<>>
  /\ phase' = "timeout"
  /\ expiry' = clock
  /\ UNCHANGED <<timeout_queue_, actorVars, actors_list, in_guard, events, wake, multiVars,
                 callback_, callbacks, failures>>

Due == timeout_queue_ # <<>> /\ TopKey(timeout_queue_) < expiry

PopTimer(a) ==
  /\ SchedulerRuns
  /\ phase = "timeout" /\ in_guard = "nobody"
  /\ Due /\ a = timeout_queue_[1].node
  /\ UNCHANGED <<actors_list, phase, expiry, events, wake>>

(* An Immediate send runs an actor that has no mail ... *)
CanRun(a) == mail[a] = <<>>

(* ... whose timer is out of the heap by then ... *)
ExpireNow ==
  \E a \in DOMAIN mail :
    /\ PopTimer(a)
    /\ CanRun(a)
    /\ in_guard' = a
    /\ UNCHANGED actorVars
    /\ TimeoutExpired(a, WithoutTop(timeout_queue_))

(* ... or puts the event in the mailbox. *)
ExpireLater ==
  \E a \in DOMAIN mail :
    /\ PopTimer(a)
    /\ ~CanRun(a)
    /\ timeout_queue_' = WithoutTop(timeout_queue_)
    /\ mail' = [mail EXCEPT ![a] = Append(@, "Timeout")]
    /\ ready_actors_list_' = Append(SelectSeq(ready_actors_list_, LAMBDA b : b # a), a)
    /\ UNCHANGED <<in_guard, multiVars, callback_, callbacks, failures>>

(* Mutant: run_poll sleeps its longest whatever the timers say. *)
LongestSleep == IF ready_actors_list_ # <<>> THEN clock ELSE Never

(* Scheduler::get_timeout *)
GetTimeout ==
  IF ready_actors_list_ # <<>> THEN clock
  ELSE IF timeout_queue_ = <<>> THEN Never
  ELSE TopKey(timeout_queue_)

TimersHandled ==
  /\ SchedulerRuns
  /\ phase = "timeout" /\ in_guard = "nobody" /\ ~Due
  /\ UNCHANGED <<timeout_queue_, mail, expiry, in_guard, events, multiVars, callback_,
                 callbacks, failures>>

(* run_events goes on with the ready actors if its time is not over ... *)
RunReady ==
  /\ TimersHandled
  /\ ready_actors_list_ # <<>>
  /\ FirstOfRound
  /\ UNCHANGED wake

(* ... and then comes the poll. *)
RunPoll ==
  /\ TimersHandled
  /\ phase' = "poll"
  /\ wake' = GetTimeout
  /\ UNCHANGED <<ready_actors_list_, actors_list>>

(* The poll timed out, or handled an event. *)
PollReturns ==
  /\ SchedulerRuns
  /\ phase = "poll"
  /\ clock >= wake
  /\ FirstOfRound
  /\ UNCHANGED <<timeout_queue_, mail, expiry, in_guard, events, wake, multiVars, callback_,
                 callbacks, failures>>

Tick ==
  /\ clock <= MaxTime
  /\ clock' = clock + 1
  /\ UNCHANGED <<timeout_queue_, actorVars, loopVars, wake, multiVars, callback_, callbacks,
                 calls, failures>>

-----------------------------------------------------------------------------
Deadlines == {clock + d : d \in Delays} \intersect 0..MaxTime

Client ==
  \/ \E a \in DOMAIN mail : Register(a)
  \/ \E k \in TimerKey : CancelKey(k) \/ \E t \in Deadlines : SetKey(k, t) \/ AddKey(k, t)
  \/ RunAll
  \/ \E t \in Deadlines : SetSingle(t)
  \/ CancelSingle

RunScheduler ==
  \/ RunActor \/ DoEvent \/ LeaveActor
  \/ RunTimeout \/ ExpireNow \/ ExpireLater
  \/ RunReady \/ RunPoll \/ PollReturns

TimersNext == Client \/ CallbackReturns \/ RunScheduler \/ Tick

(* The thread keeps in_guard, callbacks return, and time passes. *)
TimersFairness ==
  WF_timersVars(RunScheduler) /\ WF_timersVars(CallbackReturns) /\ WF_timersVars(Tick)

TimersSpec == TimersInit /\ [][TimersNext]_timersVars /\ TimersFairness

-----------------------------------------------------------------------------
(* MultiTimeout's own timer: while a key is set, the scheduler's heap has    *)
(* the MultiTimeout at the earliest deadline of its keys, or a Timeout event  *)
(* is still to be handled, which puts it there.  So update_timeout never      *)
(* fails its check that a Timeout is pending when the last key goes and the   *)
(* heap does not have the actor.                                             *)
KeysAreWatched ==
  /\ "pending" \notin failures
  /\ items_ = {key_queue_[p].node : p \in DOMAIN key_queue_}
  /\ items_ # {} =>
       IF InHeap(timeout_queue_, "multi")
         THEN timeout_queue_[PosOf(timeout_queue_, "multi")].key
                = Min({key_queue_[p].key : p \in DOMAIN key_queue_})
         ELSE LET handled == IF in_guard = "multi" THEN events.done ELSE 0
              IN \E p \in handled + 1..Len(mail["multi"]) : mail["multi"][p] = "Timeout"

(* Every key that is set stops being set: the poll wakes in time, and the    *)
(* Timeout reaches the actor, however the clients call.                       *)
KeysExpire ==
  \A k \in TimerKey : k \in items_ ~> (k \notin items_ \/ failures # {})

(* timeout_expired of a Timeout runs when its timer is not set.  Timeout.h   *)
(* checks it; run_timeout took the timer out of the heap, but a client may    *)
(* set it again while the Timeout event waits in the mailbox.                 *)
NotSetAgain == "!has_timeout" \notin failures
=============================================================================

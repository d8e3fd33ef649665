------------------------------- MODULE Promises -------------------------------
(***************************************************************************)
(* MultiPromiseActorSafe: promises that are added to it are answered with   *)
(* one result when every promise that was asked of it is answered.  The      *)
(* actor lives from the first get_promise to the end of its tear_down, which *)
(* runs the callbacks of the added promises, and may then live again.        *)
(* A callback is client code: while the actor is "down" it may use the same  *)
(* object, or destroy it.                                                     *)
(***************************************************************************)
EXTENDS Integers, Sequences, FiniteSets, SequencesExt

CONSTANTS
  MaxAdded,                 \* bound: promises added
  MaxAsked                  \* bound: promises asked for

Added == 1..MaxAdded
Asked == 1..MaxAsked

VARIABLES
  actor,                    \* "empty", "alive", or "down": in tear_down
  has_handle,               \* the client has the MultiPromiseActorSafe
  promises_,                \* added promises that wait for a result
  futures_,                 \* asked promises whose answers are counted
  received_results_,
  ignore_errors_,
  raw_events,               \* Raw events in the actor's mailbox
  future,                   \* FutureActors: "None", "Waiting", "Coming" (the answer is in a
                            \* queue), "Ready", "Gone"
  deaf,                     \* futures whose event_ names an actor that is gone
  copy,                     \* promises_copy and result of the tear_down that runs
  outcome,                  \* what the client answered to an asked promise
  answers,                  \* what an added promise got
  joint,                    \* <<p, f>>: p waited for f
  late                      \* promises asked for in a tear_down

roundVars == <<actor, promises_, futures_, received_results_, raw_events, copy>>
promiseVars ==
  <<roundVars, has_handle, ignore_errors_, future, deaf, outcome, answers, joint, late>>

NoCopy == [promises |-> <<>>, result |-> "none"]

PromisesInit ==
  /\ actor = "empty" /\ has_handle = TRUE
  /\ promises_ = <<>> /\ futures_ = <<>> /\ received_results_ = 0
  /\ ignore_errors_ \in BOOLEAN
  /\ raw_events = 0
  /\ future = [f \in Asked |-> "None"]
  /\ deaf = {}
  /\ copy = NoCopy
  /\ outcome = [f \in Asked |-> "none"]
  /\ answers = [p \in Added |-> <<>>]
  /\ joint = {} /\ late = {}

-----------------------------------------------------------------------------
(* The client, in handlers and in callbacks *)

AddPromise(p) ==
  /\ has_handle
  /\ answers[p] = <<>> /\ p \notin ToSet(promises_) \union ToSet(copy.promises)
  /\ \A q \in Added : q < p => answers[q] # <<>> \/ q \in ToSet(promises_) \union ToSet(copy.promises)
  /\ promises_' = Append(promises_, p)
  /\ joint' = joint \union ({p} \X ToSet(futures_))
  /\ UNCHANGED <<actor, futures_, received_results_, raw_events, copy,
                 has_handle, ignore_errors_, future, deaf, outcome, answers, late>>

(* The CHECK asks of the client that something waits for the result.  *)
GetPromise(f) ==
  /\ has_handle
  /\ promises_ # <<>>
  /\ future[f] = "None" /\ \A g \in Asked : g < f => future[g] # "None"
  /\ actor' = IF actor = "empty" THEN "alive" ELSE actor
  /\ future' = [future EXCEPT ![f] = "Waiting"]
  /\ futures_' = Append(futures_, f)
  /\ joint' = joint \union (ToSet(promises_) \X {f})
  /\ late' = IF actor = "down" THEN late \union {f} ELSE late
  /\ UNCHANGED <<promises_, received_results_, raw_events, copy,
                 has_handle, ignore_errors_, deaf, outcome, answers>>

(* FutureActor::set_result: try_emit_later of its event. *)
EmitLater(f) == raw_events' = IF actor = "empty" \/ f \in deaf THEN raw_events ELSE raw_events + 1

(* The answer: a value, an error, or the promise is dropped, which hangs up   *)
(* the future.  It reaches the FutureActor at once, or through a queue.       *)
Answer(f) ==
  /\ future[f] \in {"Waiting", "Gone"} /\ outcome[f] = "none"
  /\ \E o \in {"ok", "error"} : outcome' = [outcome EXCEPT ![f] = o]
  /\ \/ future[f] = "Waiting" /\ future' = [future EXCEPT ![f] = "Ready"] /\ EmitLater(f)
     \/ future[f] = "Waiting" /\ future' = [future EXCEPT ![f] = "Coming"] /\ UNCHANGED raw_events
     \/ future[f] = "Gone" /\ UNCHANGED <<future, raw_events>>
  /\ UNCHANGED <<actor, promises_, futures_, received_results_, copy,
                 has_handle, ignore_errors_, deaf, answers, joint, late>>

(* Promises and futures are destroyed with the object: each promise that is   *)
(* left is told "Lost promise".                                                *)
Lost ==
  /\ answers' = [p \in Added |-> IF p \in ToSet(promises_) THEN Append(answers[p], "error")
                                 ELSE answers[p]]
  /\ promises_' = <<>>
  /\ future' = [f \in Asked |-> IF f \in ToSet(futures_) THEN "Gone" ELSE future[f]]
  /\ futures_' = <<>>

(* ~MultiPromiseActorSafe: an actor that lives goes to the scheduler. *)
DropHandle ==
  /\ has_handle
  /\ has_handle' = FALSE
  /\ IF actor = "empty" THEN Lost
     ELSE UNCHANGED <<answers, promises_, future, futures_>>
  /\ UNCHANGED <<actor, received_results_, raw_events, copy,
                 ignore_errors_, deaf, outcome, joint, late>>

-----------------------------------------------------------------------------
(* The scheduler *)

(* FutureActor's set_value, set_error or hangup, out of its mailbox. *)
FutureRuns(f) ==
  /\ actor # "down"
  /\ future[f] = "Coming"
  /\ future' = [future EXCEPT ![f] = "Ready"]
  /\ EmitLater(f)
  /\ UNCHANGED <<actor, promises_, futures_, received_results_, copy,
                 has_handle, ignore_errors_, deaf, outcome, answers, joint, late>>

ResultOf(fs) ==
  IF ~ignore_errors_ /\ \E f \in ToSet(fs) : outcome[f] = "error" THEN "error" ELSE "ok"

(* Mutant: the answers of this round count for the next. *)
RoundOverKeepingCount ==
  /\ copy' = [promises |-> promises_, result |-> ResultOf(futures_)]
  /\ promises_' = <<>> /\ futures_' = <<>>
  /\ received_results_' = received_results_ + 1

(* tear_down clears the object before it sends out the result. *)
RoundOver ==
  /\ copy' = [promises |-> promises_, result |-> ResultOf(futures_)]
  /\ promises_' = <<>> /\ futures_' = <<>>
  /\ received_results_' = 0

RawEvent ==
  /\ actor = "alive" /\ raw_events > 0
  /\ raw_events' = raw_events - 1
  /\ IF received_results_ + 1 = Len(futures_)
       THEN actor' = "down" /\ RoundOver
       ELSE /\ received_results_' = received_results_ + 1
            /\ UNCHANGED <<actor, promises_, futures_, copy>>
  /\ UNCHANGED <<has_handle, ignore_errors_, future, deaf, outcome, answers, joint, late>>

(* One set_result of tear_down, which runs the callback. *)
SetResult ==
  /\ actor = "down" /\ copy.promises # <<>>
  /\ answers' = [answers EXCEPT ![Head(copy.promises)] = Append(@, copy.result)]
  /\ copy' = [copy EXCEPT !.promises = Tail(@)]
  /\ UNCHANGED <<actor, promises_, futures_, received_results_, raw_events,
                 has_handle, ignore_errors_, future, deaf, outcome, joint, late>>

(* After tear_down: the actor's id dies with its mailbox, and the object too  *)
(* if the scheduler owns it.                                                  *)
Stopped ==
  /\ actor = "down" /\ copy.promises = <<>>
  /\ actor' = "empty"
  /\ copy' = NoCopy
  /\ raw_events' = 0
  /\ deaf' = {f \in Asked : future[f] # "None"}
  /\ IF has_handle THEN UNCHANGED <<answers, promises_, future, futures_>> ELSE Lost
  /\ UNCHANGED <<received_results_, has_handle, ignore_errors_, outcome, joint, late>>

PromisesNext ==
  \/ \E p \in Added : AddPromise(p)
  \/ \E f \in Asked : GetPromise(f) \/ Answer(f) \/ FutureRuns(f)
  \/ DropHandle
  \/ RawEvent \/ SetResult \/ Stopped

PromisesSpec == PromisesInit /\ [][PromisesNext]_promiseVars

-----------------------------------------------------------------------------
(* Properties *)

WaitedFor(p) == {f \in Asked : <<p, f>> \in joint}

AllAnswered(p) == WaitedFor(p) # {} /\ \A f \in WaitedFor(p) : outcome[f] # "none"

(* What the promise must be told then. *)
Verdict(p) ==
  IF ~ignore_errors_ /\ \E f \in WaitedFor(p) : outcome[f] = "error" THEN "error" ELSE "ok"

(* An added promise is told one result, that of all the promises it waited    *)
(* for and not before their answers; an error else only if nothing was asked   *)
(* for and the object is gone.  And it is told: when the answers are there, an *)
(* event is on its way, or tear_down runs.  Only a promise that is asked for   *)
(* in a callback of tear_down is excepted: its event goes to the actor that    *)
(* stops, and everybody who waits for it waits until the object is destroyed.  *)
PromisesKept ==
  \A p \in Added : WaitedFor(p) \cap late = {} =>
    /\ answers[p] # <<>> =>
         answers[p] = <<IF WaitedFor(p) = {} THEN "error" ELSE Verdict(p)>>
           /\ (WaitedFor(p) # {} => AllAnswered(p))
    /\ AllAnswered(p) /\ answers[p] = <<>> =>
         actor = "down" \/ raw_events > 0 \/ \E f \in WaitedFor(p) : future[f] = "Coming"
=============================================================================

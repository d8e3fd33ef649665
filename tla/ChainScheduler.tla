---------------------------- MODULE ChainScheduler ----------------------------
(***************************************************************************)
(* ChainScheduler: tasks that belong to chains.  A task starts when, in each *)
(* of its chains, the task before it has been started since the last failure *)
(* in that chain, and fewer than Limit tasks of the chain are active.        *)
(*                                                                         *)
(* The whole scheduler is one record, `cs`, so that the calls, which start   *)
(* tasks recursively, are functions from record to record; an action is a    *)
(* call of the client.                                                        *)
(***************************************************************************)
EXTENDS Integers, Sequences, FiniteSets, SequencesExt

CONSTANTS
  Chain,                    \* chain ids
  Limit,                    \* active tasks in a chain (10)
  MaxTasks,                 \* bound: tasks created
  MaxResets                 \* bound: failures and pauses

VARIABLES
  cs,                       \* the scheduler
  given,                    \* tasks start_next_task returned and the client has in hand
  created,                  \* ids given out
  resets                    \* failures so far

chainVars == <<cs, given, created, resets>>

(* tasks_: state, chains in the order given, the generation of each ChainNode. *)
NoTask == [state |-> "None", chains |-> <<>>, generation |-> [c \in Chain |-> 0]]

EmptyChain == [order |-> <<>>, active_tasks |-> 0, generation |-> 1]

TaskId == 1..MaxTasks

ChainInit ==
  /\ cs = [tasks |-> [t \in TaskId |-> NoTask],
           chains |-> [c \in Chain |-> EmptyChain],
           limited |-> [c \in Chain |-> 0],
           pending |-> <<>>,
           to_start |-> <<>>,
           failed |-> {}]
  /\ given = {}
  /\ created = 0
  /\ resets = 0

(* Op(x), where TLC evaluates x once. *)
Then(x, Op(_)) == CHOOSE r \in {Op(v) : v \in {x}} : TRUE

Exists(s, t)  == s.tasks[t].state # "None"
ChainsOf(s, t) == ToSet(s.tasks[t].chains)

Index(s, c, t) == CHOOSE i \in DOMAIN s.chains[c].order : s.chains[c].order[i] = t
HasParent(s, c, t) == Index(s, c, t) > 1
ParentOf(s, c, t)  == s.chains[c].order[Index(s, c, t) - 1]
HasChild(s, c, t)  == Index(s, c, t) < Len(s.chains[c].order)
ChildOf(s, c, t)   == s.chains[c].order[Index(s, c, t) + 1]

-----------------------------------------------------------------------------
(* Starting *)

AwaitsParent(s, c, t) ==
  HasParent(s, c, t) /\ s.tasks[ParentOf(s, c, t)].generation[c] # s.chains[c].generation

AtLimit(s, c) == s.chains[c].active_tasks >= Limit

(* The first of its chains in which the task has to wait, or none.  *)
Blocking(s, t) ==
  SelectSeq(s.tasks[t].chains, LAMBDA c : AwaitsParent(s, c, t) \/ AtLimit(s, c))

Activated(s, t) ==
  [s EXCEPT
     !.chains = [c \in Chain |-> IF c \in ChainsOf(s, t)
                                   THEN [@[c] EXCEPT !.active_tasks = @ + 1] ELSE @[c]],
     !.tasks[t] = [@ EXCEPT
        !.state = "Active",
        !.generation = [c \in Chain |-> IF c \in ChainsOf(s, t)
                                          THEN s.chains[c].generation ELSE @[c]]],
     !.pending = Append(@, t)]

RECURSIVE TryStart(_, _), TryStartChildren(_, _, _), TryAll(_, _)

(* try_start_task *)
TryStart(s, t) ==
  IF ~Exists(s, t) THEN [s EXCEPT !.failed = @ \union {"try_start_task"}]
  ELSE IF s.tasks[t].state # "Pending" THEN s
  ELSE IF Blocking(s, t) = <<>> THEN
    Then(Activated(s, t), LAMBDA x : TryStartChildren(x, t, s.tasks[t].chains))
  ELSE LET c == Head(Blocking(s, t))
       IN  IF AwaitsParent(s, c, t) THEN s ELSE [s EXCEPT !.limited[c] = t]

(* for_each_child of do_start_task *)
TryStartChildren(s, t, chains) ==
  IF chains = <<>> THEN s
  ELSE LET c == Head(chains)
       IN  Then(IF HasChild(s, c, t) THEN TryStart(s, ChildOf(s, c, t)) ELSE s,
                LAMBDA x : TryStartChildren(x, t, Tail(chains)))

(* flush_try_start_task *)
TryAll(s, tasks) ==
  IF tasks = <<>> THEN s
  ELSE Then(TryStart(s, Head(tasks)), LAMBDA x : TryAll(x, Tail(tasks)))

Flush(s) == Then([s EXCEPT !.to_start = <<>>], LAMBDA x : TryAll(x, s.to_start))

-----------------------------------------------------------------------------
(* inactivate_task *)

Later(s, t) == [s EXCEPT !.to_start = Append(@, t)]

(* Mutant: the task that waited for the limit is not tried again. *)
ForgetLimited(s, c, t) == [s EXCEPT !.limited[c] = 0]

RetryLimited(s, c, t) ==
  LET waiting == s.limited[c]
      free    == [s EXCEPT !.limited[c] = 0]
  IN  IF waiting \in {0, t} THEN free ELSE Later(free, waiting)

RetryFirst(s, c, t) ==
  LET first == Head(s.chains[c].order)
  IN  IF s.chains[c].order = <<>> \/ first = t THEN s ELSE Later(s, first)

NewerOf(a, b) == IF a > b THEN a ELSE b

Released(s, c, t, is_failure) ==
  [s EXCEPT !.chains[c] = [@ EXCEPT
     !.active_tasks = @ - 1,
     !.generation = IF is_failure THEN NewerOf(@, s.tasks[t].generation[c] + 1) ELSE @]]

RECURSIVE InactivateIn(_, _, _, _, _)
InactivateIn(s, t, chains, was_active, is_failure) ==
  IF chains = <<>> THEN s
  ELSE LET c == Head(chains)
           r == IF was_active THEN Released(s, c, t, is_failure) ELSE s
       IN  Then(RetryFirst(RetryLimited(r, c, t), c, t),
                LAMBDA x : InactivateIn(x, t, Tail(chains), was_active, is_failure))

Inactivate(s, t, is_failure) ==
  Then([s EXCEPT !.tasks[t].state = "Pending"],
       LAMBDA x : InactivateIn(x, t, s.tasks[t].chains, s.tasks[t].state = "Active", is_failure))

-----------------------------------------------------------------------------
(* The client's calls *)

Registered(s, t, chains) ==
  [s EXCEPT
     !.tasks[t] = [NoTask EXCEPT !.state = "Pending", !.chains = chains],
     !.chains = [c \in Chain |-> IF c \in ToSet(chains)
                                   THEN [@[c] EXCEPT !.order = Append(@, t)] ELSE @[c]]]

ChainLists == {q \in BoundedSeq(Chain, Cardinality(Chain)) : IsInjective(q)}

CreateTask ==
  /\ created < MaxTasks
  /\ created' = created + 1
  /\ \E chains \in ChainLists :
       cs' = Then(Registered(cs, created + 1, chains),
                  LAMBDA x : TryStart(x, created + 1))
  /\ UNCHANGED <<given, resets>>

StartNextTask ==
  /\ cs.pending # <<>>
  /\ LET t == Head(cs.pending)
     IN  /\ given' = given \union {t}
         /\ cs' = [cs EXCEPT !.pending = Tail(@),
                             !.failed = IF Exists(cs, t) THEN @ ELSE @ \union {"start_next_task"}]
  /\ UNCHANGED <<created, resets>>

(* Leaves its chains, which go when they are empty. *)
Removed(s, t) ==
  LET Left(c) == SelectSeq(s.chains[c].order, LAMBDA x : x # t)
  IN  [s EXCEPT
         !.chains = [c \in Chain |-> IF c \notin ChainsOf(s, t) THEN @[c]
                                     ELSE IF Left(c) = <<>> THEN EmptyChain
                                     ELSE [@[c] EXCEPT !.order = Left(c)]],
         !.tasks[t] = NoTask]

LaterChildren(s, t) ==
  LET with_child == SelectSeq(s.tasks[t].chains, LAMBDA c : HasChild(s, c, t))
  IN  [s EXCEPT !.to_start = @ \o [i \in DOMAIN with_child |-> ChildOf(s, with_child[i], t)]]

Finish(s, t) ==
  Then(Inactivate(s, t, FALSE), LAMBDA x : Then(Removed(LaterChildren(x, t), t), Flush))

FinishTask(t) ==
  /\ t \in given
  /\ cs' = Finish(cs, t)
  /\ given' = given \ {t}
  /\ UNCHANGED <<created, resets>>

(* The task failed, or is resumed after a pause. *)
ResetTask(t) ==
  /\ \/ t \in given /\ resets < MaxResets /\ resets' = resets + 1
     \/ cs.tasks[t].state = "Paused" /\ UNCHANGED resets
  /\ cs' = Then(Inactivate(cs, t, TRUE), LAMBDA x : Then(Later(x, t), Flush))
  /\ given' = given \ {t}
  /\ UNCHANGED created

PauseTask(t) ==
  /\ t \in given
  /\ resets < MaxResets
  /\ resets' = resets + 1
  /\ cs' = Then(Inactivate(cs, t, TRUE),
                LAMBDA x : Then([x EXCEPT !.tasks[t].state = "Paused"], Flush))
  /\ given' = given \ {t}
  /\ UNCHANGED created

ChainNext ==
  /\ cs.failed = {}
  /\ \/ CreateTask \/ StartNextTask
     \/ \E t \in TaskId : FinishTask(t) \/ ResetTask(t) \/ PauseTask(t)

ChainSpec == ChainInit /\ [][ChainNext]_chainVars

-----------------------------------------------------------------------------
(* Properties *)

(* No CHECK fails (a task id that waits somewhere is always that of a living  *)
(* task), the count that is held against the limit is right, and the limit   *)
(* holds.                                                                     *)
ChainsConsistent ==
  /\ cs.failed = {}
  /\ cs.to_start = <<>>
  /\ \A c \in Chain :
       /\ cs.chains[c].active_tasks =
            Cardinality({t \in ToSet(cs.chains[c].order) : cs.tasks[t].state = "Active"})
       /\ cs.chains[c].active_tasks <= Limit

(* Nobody waits for ever: a task that could start has been started, and while *)
(* there are tasks, the client has one to take, to finish or to resume.        *)
NoTaskForgotten ==
  /\ \A t \in TaskId : cs.tasks[t].state = "Pending" => Blocking(cs, t) # <<>>
  /\ (\E t \in TaskId : Exists(cs, t)) =>
       \/ cs.pending # <<>>
       \/ given # {}
       \/ \E t \in TaskId : cs.tasks[t].state = "Paused"

(* The counts and limits are right after any calls, and no task is left behind. *)
ChainsRight == ChainsConsistent /\ NoTaskForgotten
=============================================================================

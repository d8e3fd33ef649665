------------------------------- MODULE MCLibrary -------------------------------
(***************************************************************************)
(* TLC instance of the parts the programs are built with, most of them waited *)
(* for by something: in a behaviour one of them, chosen at the start, is used, *)
(* and the others stay as they are.                                          *)
(***************************************************************************)
EXTENDS MpmcWaiter, EpochReclamation, StealingQueue, ChainScheduler, Timers, Promises

VARIABLE part

libraryVars ==
  <<waiterVars, ebmrVars, stealVars, chainVars, timersVars, promiseVars, part>>

LibraryInit ==
  /\ WaiterInit /\ EpochInit /\ StealInit /\ ChainInit /\ TimersInit /\ PromisesInit
  /\ part \in {"waiter", "epochs", "stealing", "tasks", "timers", "promises"}
  /\ part # "promises" => ~ignore_errors_

LibraryNext ==
  /\ UNCHANGED part
  /\ \/ /\ part = "waiter" /\ WaiterNext
        /\ UNCHANGED <<ebmrVars, stealVars, chainVars, timersVars, promiseVars>>
     \/ /\ part = "epochs" /\ EpochNext
        /\ UNCHANGED <<waiterVars, stealVars, chainVars, timersVars, promiseVars>>
     \/ /\ part = "stealing" /\ StealNext
        /\ UNCHANGED <<waiterVars, ebmrVars, chainVars, timersVars, promiseVars>>
     \/ /\ part = "tasks" /\ ChainNext
        /\ UNCHANGED <<waiterVars, ebmrVars, stealVars, timersVars, promiseVars>>
     \/ /\ part = "timers" /\ TimersNext
        /\ UNCHANGED <<waiterVars, ebmrVars, stealVars, chainVars, promiseVars>>
     \/ /\ part = "promises" /\ PromisesNext
        /\ UNCHANGED <<waiterVars, ebmrVars, stealVars, chainVars, timersVars>>

(* The fairness of WaiterSpec, EpochSpec and TimersSpec, for the part in use. *)
LibraryFairness ==
  /\ \A t \in Thread : WF_waiterVars(part = "waiter" /\ failed = {} /\ Notify(t))
  /\ \A w \in Worker :
       WF_waiterVars(part = "waiter" /\ failed = {}
                       /\ (TryPop(w) \/ Worked(w) \/ Wait(w) \/ StopWait(w)))
  /\ \A t \in Reader : /\ WF_ebmrVars(part = "epochs" /\ Proceed(t))
                       /\ WF_ebmrVars(part = "epochs" /\ RetireSync(t))
  /\ WF_timersVars(part = "timers" /\ RunScheduler)
  /\ WF_timersVars(part = "timers" /\ CallbackReturns)
  /\ WF_timersVars(part = "timers" /\ Tick)

LibrarySpec == LibraryInit /\ [][LibraryNext]_libraryVars /\ LibraryFairness
==============================================================================

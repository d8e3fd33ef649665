------------------------------ MODULE FifoInbox ------------------------------
(***************************************************************************)
(* What a scheduler expects of its inbound queue: many threads put events, *)
(* one thread gets each of them once, in the order in which they were put, *)
(* and an event that was put is got in the end, whatever the writers do    *)
(* afterwards.  No lock, no eventfd, no sleeping reader.                    *)
(***************************************************************************)
EXTENDS Sequences

CONSTANT Item               \* the events that may be put

VARIABLES
  queue,                    \* events put and not yet got, oldest first
  got                       \* events got so far, oldest first

vars == <<queue, got>>

Init == queue = <<>> /\ got = <<>>

Put(e) == /\ queue' = Append(queue, e)
          /\ UNCHANGED got

Get == /\ queue # <<>>
       /\ queue' = Tail(queue)
       /\ got' = Append(got, Head(queue))

Next == Get \/ \E e \in Item : Put(e)

SafeSpec == Init /\ [][Next]_vars

Spec == SafeSpec /\ WF_vars(Get)
==============================================================================

-------------------------- MODULE MpscPollableQueue --------------------------
(***************************************************************************)
(* MpscPollableQueue<EventFull>, the inbound queue of one Scheduler, with  *)
(* everything that wakes its reader: the eventfd, the edge-triggered epoll *)
(* item, the to_write_ word of the PollFlagsSet, and the ServiceActor that *)
(* reads the queue when a Yield reaches its mailbox.                        *)
(*                                                                         *)
(* Writers are the threads of the other schedulers; the reader is the      *)
(* scheduler's own thread.  One action is what happens between two points  *)
(* where another thread can act: writer_put takes the lock, pushes, reads  *)
(* wait_event_fd_ and unlocks in one step, and signals the eventfd in a    *)
(* later one; reader_wait_nonblock keeps lock_ while it acquires the       *)
(* eventfd, but a writer that has left the lock does not need it to signal. *)
(***************************************************************************)
EXTENDS Naturals, Sequences

CONSTANTS
  Writer,                   \* threads that put events
  MaxPuts                   \* bound: events put by each writer

ASSUME MaxPutsAssumption == MaxPuts \in Nat

VARIABLES
  lock_,                    \* TRUE while the reader holds it between two steps
  writer_vector_,           \* events put since the last swap
  reader_vector_,           \* events from reader_pos_ on
  wait_event_fd_,           \* the reader asked for a signal
  event_fd_,                \* counter of the eventfd
  epoll_ready,              \* the eventfd is on epoll's ready list
  to_write_,                \* Read bit written by the poll and not yet flushed
  yields,                   \* Yield events in the ServiceActor's mailbox
  reader,                   \* where the reader's thread is
  signalling,               \* writers between unlock and event_fd_.release()
  sent,                     \* events put so far by each writer
  got                       \* events the ServiceActor took, oldest first

queueVars == <<lock_, writer_vector_, reader_vector_, wait_event_fd_>>
pollVars  == <<event_fd_, epoll_ready, to_write_>>
vars == <<queueVars, pollVars, yields, reader, signalling, sent, got>>

Item == [writer : Writer, n : 1..MaxPuts]

(* The reader's thread is outside the ServiceActor ("scheduler"), about to *)
(* take lock_ in the first or second round of reader_wait_nonblock, inside *)
(* event_fd_.acquire(), or handing out the events it swapped in.            *)
ReaderPlace == {"scheduler", "round0", "sync", "read", "round1", "drain"}

Init ==
  /\ lock_ = FALSE
  /\ writer_vector_ = <<>>
  /\ reader_vector_ = <<>>
  /\ wait_event_fd_ = FALSE
  /\ event_fd_ = 0
  /\ epoll_ready = FALSE
  /\ to_write_ = FALSE
  /\ yields = 1                     \* start_up() ends with yield()
  /\ reader = "scheduler"
  /\ signalling = {}
  /\ sent = [w \in Writer |-> 0]
  /\ got = <<>>

-----------------------------------------------------------------------------
(* Writers *)

(* Mutant: wait_event_fd_ is not cleared, so every later writer signals too. *)
WriterPutKeepingFlag(w) ==
  /\ w \notin signalling
  /\ sent[w] < MaxPuts
  /\ ~lock_
  /\ sent' = [sent EXCEPT ![w] = @ + 1]
  /\ writer_vector_' = Append(writer_vector_, [writer |-> w, n |-> sent[w] + 1])
  /\ signalling' = IF wait_event_fd_ THEN signalling \union {w} ELSE signalling
  /\ UNCHANGED <<lock_, wait_event_fd_, reader_vector_, pollVars, yields, reader, got>>

(* writer_put: under the lock, push and decide whether to signal. *)
WriterPut(w) ==
  /\ w \notin signalling
  /\ sent[w] < MaxPuts
  /\ ~lock_
  /\ sent' = [sent EXCEPT ![w] = @ + 1]
  /\ writer_vector_' = Append(writer_vector_, [writer |-> w, n |-> sent[w] + 1])
  /\ wait_event_fd_' = FALSE
  /\ signalling' = IF wait_event_fd_ THEN signalling \union {w} ELSE signalling
  /\ UNCHANGED <<lock_, reader_vector_, pollVars, yields, reader, got>>

(* event_fd_.release(), after the unlock.  Every write to an eventfd puts  *)
(* an edge-triggered item on the ready list, whatever the counter was.      *)
EventFdRelease(w) ==
  /\ w \in signalling
  /\ signalling' = signalling \ {w}
  /\ event_fd_' = event_fd_ + 1
  /\ epoll_ready' = TRUE
  /\ UNCHANGED <<queueVars, to_write_, yields, reader, sent, got>>

-----------------------------------------------------------------------------
(* The reader's thread *)

(* ServiceActor::loop() handles one Yield and calls reader_wait_nonblock. *)
ServiceLoop ==
  /\ reader = "scheduler"
  /\ yields > 0
  /\ yields' = yields - 1
  /\ reader' = IF reader_vector_ # <<>> THEN "drain" ELSE "round0"
  /\ UNCHANGED <<queueVars, pollVars, signalling, sent, got>>

(* Mutant: the vectors are copied, not swapped. *)
CopyIn ==
  /\ reader \in {"round0", "round1"}
  /\ writer_vector_ # <<>>
  /\ reader_vector_' = writer_vector_
  /\ reader' = "drain"
  /\ UNCHANGED <<lock_, writer_vector_, wait_event_fd_, pollVars, yields, signalling, sent, got>>

(* writer_vector_ has events: swap it in and return its size. *)
SwapIn ==
  /\ reader \in {"round0", "round1"}
  /\ writer_vector_ # <<>>
  /\ reader_vector_' = writer_vector_
  /\ writer_vector_' = <<>>
  /\ reader' = "drain"
  /\ UNCHANGED <<lock_, wait_event_fd_, pollVars, yields, signalling, sent, got>>

(* First round, nothing to read: enter acquire() with the lock held. *)
LockForAcquire ==
  /\ reader = "round0"
  /\ writer_vector_ = <<>>
  /\ lock_' = TRUE
  /\ reader' = "sync"
  /\ UNCHANGED <<writer_vector_, reader_vector_, wait_event_fd_, pollVars,
                 yields, signalling, sent, got>>

(* acquire(): sync_with_poll() flushes to_write_ into the local flags. *)
AcquireSync ==
  /\ reader = "sync"
  /\ to_write_' = FALSE
  /\ reader' = "read"
  /\ UNCHANGED <<queueVars, event_fd_, epoll_ready, yields, signalling, sent, got>>

(* acquire(): read() takes the whole counter, or fails with EAGAIN; then    *)
(* the local Read flag is cleared and the guard unlocks.                     *)
AcquireRead ==
  /\ reader = "read"
  /\ event_fd_' = 0
  /\ lock_' = FALSE
  /\ reader' = "round1"
  /\ UNCHANGED <<writer_vector_, reader_vector_, wait_event_fd_, epoll_ready,
                 to_write_, yields, signalling, sent, got>>

(* Mutant: the second look at writer_vector_ is left out. *)
AskWithoutLooking ==
  /\ reader = "round1"
  /\ wait_event_fd_' = TRUE
  /\ reader' = "scheduler"
  /\ UNCHANGED <<lock_, writer_vector_, reader_vector_, pollVars, yields,
                 signalling, sent, got>>

(* Second round, still nothing: ask for a signal and return 0. *)
AskForSignal ==
  /\ reader = "round1"
  /\ writer_vector_ = <<>>
  /\ wait_event_fd_' = TRUE
  /\ reader' = "scheduler"
  /\ UNCHANGED <<lock_, writer_vector_, reader_vector_, pollVars, yields,
                 signalling, sent, got>>

(* reader_get_unsafe() for one event; after the last, loop() yields again. *)
Deliver ==
  /\ reader = "drain"
  /\ got' = Append(got, Head(reader_vector_))
  /\ reader_vector_' = Tail(reader_vector_)
  /\ IF Tail(reader_vector_) = <<>>
       THEN yields' = yields + 1 /\ reader' = "scheduler"
       ELSE UNCHANGED <<yields, reader>>
  /\ UNCHANGED <<lock_, writer_vector_, wait_event_fd_, pollVars, signalling, sent>>

(* Scheduler::run_poll: epoll_wait takes the item off the ready list and    *)
(* reports it if the eventfd is readable.  write_flags tells a bit that was *)
(* already pending from a new one, and only a new one notifies the observer. *)
PollRun ==
  /\ reader = "scheduler"
  /\ epoll_ready
  /\ epoll_ready' = FALSE
  /\ IF event_fd_ > 0
       THEN /\ to_write_' = TRUE
            /\ yields' = IF to_write_ THEN yields ELSE yields + 1
       ELSE UNCHANGED <<to_write_, yields>>
  /\ UNCHANGED <<queueVars, event_fd_, reader, signalling, sent, got>>

-----------------------------------------------------------------------------
ReaderStep == \/ ServiceLoop \/ SwapIn \/ LockForAcquire \/ AcquireSync
              \/ AcquireRead \/ AskForSignal \/ Deliver

Next == \/ \E w \in Writer : WriterPut(w) \/ EventFdRelease(w)
        \/ ReaderStep
        \/ PollRun

(* Both threads run: the reader's goes on with what it has begun and comes  *)
(* back to the poll; a writer that unlocked goes on to its release().  No   *)
(* writer has to put anything, and the 10 s timeout of run() helps nobody:  *)
(* without a Yield the ServiceActor does not look at the queue.              *)
Fairness == /\ WF_vars(ReaderStep)
            /\ WF_vars(PollRun)
            /\ \A w \in Writer : WF_vars(EventFdRelease(w))

SafeSpec == Init /\ [][Next]_vars

Spec == SafeSpec /\ Fairness

-----------------------------------------------------------------------------
(* Properties *)

(* State of the queue (MpscPollableQueue.h:101-106), its eventfd and its    *)
(* reader: every variable has its type.                                      *)
TypeOK ==
  /\ lock_ \in BOOLEAN
  /\ writer_vector_ \in Seq(Item)
  /\ reader_vector_ \in Seq(Item)
  /\ wait_event_fd_ \in BOOLEAN
  /\ event_fd_ \in Nat
  /\ epoll_ready \in BOOLEAN
  /\ to_write_ \in BOOLEAN
  /\ yields \in Nat
  /\ reader \in ReaderPlace
  /\ signalling \subseteq Writer
  /\ sent \in [Writer -> 0..MaxPuts]
  /\ got \in Seq(Item)

(* A signal is on its way to the sleeping reader: a writer has yet to call  *)
(* release(), or epoll will report the eventfd as a new edge.                *)
SignalComing == \/ signalling # {}
                \/ epoll_ready /\ event_fd_ > 0 /\ ~to_write_

(* No lost wakeup: when the ServiceActor has no Yield and its thread is     *)
(* about to block in epoll_wait, an event in writer_vector_ has a signal    *)
(* coming, although release() is called after the unlock and acquire() may  *)
(* run between the put and the signal.                                       *)
NoLostWakeup ==
  (reader = "scheduler" /\ yields = 0 /\ writer_vector_ # <<>>) => SignalComing

(* wait_event_fd_ is handed over, not shared: writer_put clears it under    *)
(* the lock, so one writer at a time signals, and it signals a reader that  *)
(* sleeps with an empty eventfd.  Hence acquire() never swallows the signal *)
(* of a later event, and the counter never needs to exceed 1.                *)
SingleWakeup ==
  /\ \A v, w \in signalling : v = w
  /\ signalling # {} => /\ reader = "scheduler" /\ yields = 0
                       /\ event_fd_ = 0 /\ ~to_write_

(* The queue is the FIFO inbox the schedulers rely on: lock, two vectors,   *)
(* eventfd and epoll neither lose, duplicate nor reorder an event, and every *)
(* event is delivered under the fairness of the threads.                     *)
Inbox == INSTANCE FifoInbox WITH queue <- reader_vector_ \o writer_vector_

ImplementsInbox == Inbox!Spec
==============================================================================

# PXC-Core: the verification project

PXC-Core is a C++ proxy server. `src/Bootstrap.cpp` starts one
`ConcurrentScheduler` and a `Server` actor that listens on a TCP port; an
`InboundConnection` actor serves each accepted socket. The actors run on an actor
runtime (`src/pxcactor`, derived from tdactor) over a utility library
(`src/pxcutils`, derived from tdutils); `src/pxcnet` is the proxy's own code.

Modules, configurations and proofs are listed below after the inventory. Every
definition that models code has its lines in `PROJECT.json`, under `map`.

## The system

| part | state | operations | interacts with |
|---|---|---|---|
| Scheduler (`actor/impl/Scheduler.*`), one per thread | `ready_actors_list_`, `pending_actors_list_`, `pending_events_`, `timeout_queue_`, `actor_count_`, the chain of EventGuards | `run` = `run_mailbox`, `run_timeout`, `run_poll`; `send`, `register_actor_impl`, `stop_actor`, `migrate_actor`, `register_migrated_actor` | other schedulers by their inbound queues; any thread reads `sched_id_` and the generation of any actor |
| ActorInfo and its slot (`ActorInfo.h`, `ObjectPool.h`) | mailbox, `sched_id_` with the migrating bit, `is_running_`, generation | `init`, `start_run`, `finish_run`, `start_migrate`, `finish_migrate`, `clear` | the scheduler that owns it, and its home pool |
| inbound queue (`MpscPollableQueue.h`, `EventFdLinux.cpp`) | two vectors, `wait_event_fd_`, the eventfd, its epoll item and flags | `writer_put`, `reader_wait_nonblock`, `reader_get_unsafe` | writer threads, and the ServiceActor of the reader |
| ConcurrentScheduler | the schedulers, the threads, `is_finished_`, `at_finish_` | `start`, `run_main`, `finish`, `on_finish` | the schedulers |
| timeouts (`timeout_queue_`, `Timeout.h`, `MultiTimeout.*`, `Heap.h`) | a heap of deadlines | set, cancel, `run_timeout` | mailboxes, migration |
| promises (`Promise.h`, `MultiPromise.*`, `PromiseFuture.h`) | outstanding promises, future state | set, error, destructor, `hangup` | actors |
| sockets and polling (`Epoll.cpp`, `PollFlags.cpp`, `SocketFd.cpp`, `ServerSocketFd.cpp`) | edge-triggered flags, to be flushed and local | `subscribe`, `run`, `sync_with_poll`, `read`, `write`, `accept` | the kernel, and the actor that observes the fd |
| proxy (`TcpListener.cpp`, `InboundConnection.cpp`, `Bootstrap.cpp`) | the sockets, the write buffer | `start_up`, `loop`, `tear_down`, `hangup` | the runtime and the sockets |
| lock-free queues (`MpmcQueue.h`, `MpmcWaiter.h`, `StealingQueue.h`, `MpscLinkQueue.h`) | atomics; parked threads | push, pop, steal; notify, wait | threads |
| reclamation and concurrent tables (`HazardPointers.h`, `EpochBasedMemoryReclamation.h`, `ConcurrentHashTable.h`) | what each thread protects, what it retired; a table of atomics and its migration | protect, retire; lock, retire_sync; insert, find | threads |
| shared values (`SharedObjectPool.h`, `AtomicRead.h`) | reference counts and a stack of free objects; a value under a version | alloc, copy, reset; lock, read | threads |
| task ordering (`ChainScheduler.h`, `OrderedEventsProcessor.h`, `FloodControl*.h`) | chains of tasks; early events; times of the last events | create, start, finish, reset, pause; add; add_event, try_start | their callers |
| containers (`Heap.h`, `FlatHashTable.h` and others) | an array | insert, erase, fix, resize | their callers |
| buffers (`buffer.h`) | a chain of reference-counted nodes | append, sync_with_writer, read | the writer's and the reader's threads |
| byte flows (`ByteFlow.h`, `AesCtrByteFlow.h`, `GzipByteFlow.cpp`) | flags, `need_size_` and a buffer per flow | `wakeup`, `close_input`, `loop`, `finish` | the next flow, by nested calls |
| logs, text, crypto, data formats, files, addresses | sequential | | |

Hard behaviours and what makes each part correct:

- *Inbound queue.* The wakeup is signalled after the lock is released and consumed
  through an edge-triggered item whose edge can be dropped. Correct: no event
  waits while its reader sleeps; events come out once and in order.
- *Scheduler.* A sender reads the addressee's state without a lock, in two reads,
  while the addressee stops, is reused, or migrates. Correct: one thread owns an
  actor; no event is lost, duplicated, or given to another actor; Start comes
  first and `tear_down` last; nothing re-enters a running actor; each thread's
  events are handled in order unless the actor migrates; mail is delivered.
- *ConcurrentScheduler.* Actors in transit when the threads end; a finish that
  races the poll. Correct: all threads end, and every actor is torn down.
- *Timeouts.* A cancelled timeout may already be in the mailbox, and migration
  cancels. Correct: a timer fires once, not before its time, not after a cancel.
- *Promises.* Answers come in any order, by value, error or loss, also while
  callbacks run. Correct: every promise is answered once, with one result, when all
  that was asked for has come in.
- *Lock-free queues.* Threads stop between any two accesses. Correct: each value
  comes out once and in order; work never waits while every worker sleeps.
- *Reclamation.* Correct: nothing is deleted that a thread still uses, and what is
  retired is deleted in the end.
- *Task ordering, heap, table.* Long sequences of legal calls. Correct: tasks run in
  the order of their chains and within the limit; the heap and the table agree with
  a map, whatever was erased before.
- *Shared values.* Correct: an object is free once, and only when nobody points to it; a
  copy is one value, however writes meet it.
- *Early events, flood control.* Correct: events are handled in order and once; limits
  are neither passed nor kept longer than they say.
- *Buffers, byte flows.* Correct: the reader sees the writer's bytes, all of them, and no
  node is freed under either; the sink gets all that was given, and is told so once.
- *Sockets and proxy.* Flags arrive as edges and are cleared when the system call
  would block. Correct: bytes and connections that arrived are taken in the end;
  a closed connection ends its actor.

The hazards, one by one and with the line where each bites, are in `PROJECT.json`.

## The modules

### The actor runtime

**`FifoInbox`** is the abstract specification of a scheduler's inbound queue: put
appends, get removes the oldest, and what was put is got.

**`MpscPollableQueue`** is the real one: `lock_`, `writer_vector_`,
`reader_vector_` (from `reader_pos_` on), `wait_event_fd_`, the eventfd's counter,
its place on epoll's ready list, the Read bit of `to_write_`, and the Yields in
the ServiceActor's mailbox. A writer has two steps, `WriterPut` (the critical
section) and `EventFdRelease` (after the unlock). The reader's thread is in
`reader_wait_nonblock` (`SwapIn`, `LockForAcquire`, `AcquireSync`, `AcquireRead`,
`AskForSignal`), hands events out (`Deliver`), or is in the scheduler, where it
polls (`PollRun`) or runs the ServiceActor (`ServiceLoop`). The local Read flag of
the fd is not kept: nothing reads it between its flush and its clear.

**`Scheduler`** is the runtime: every scheduler thread and every actor slot. Its
actors are the most general ones: a handler may send to any living actor at any
time (Immediate or Later), create actors here or elsewhere, stop or migrate. The
steps are those at which another thread can interfere: `send_impl` is `Send` (the
alive check) and then one of `RouteHere`, `RouteToMigrant`, `RouteAway` (the read
of `sched_id_` and what follows); a migration is `StartMigrate` (or
`CreateActor` for another scheduler) and `HandOver`. EventGuards nest on a
`stack`, so an Immediate send runs a handler inside another. `~EventGuard` is
`LeaveActor`, `StopActor` or `StartMigrate`, by the flags the handler left;
`StopActor` enters `tear_down` and `DestroyActor` leaves it. A failed `CHECK`
adds its name to `failed` and ends the process. The inbound queue is the
FIFO of `FifoInbox`. Yield and Hangup are messages that handlers send; the
default `hangup()` is a handler that stops.

**`ConcurrentScheduler`** is the life of the whole runtime from `start()` to the end
of `finish()`, at a coarser grain: a thread is at the test of `is_finished()`, in its
first `run_events`, in its poll, in the second `run_events`, or has ended; an actor is
on a scheduler's lists or in the inbound queue of its destination. Handlers call
`finish()` (`CallFinish`, then one `WakeNext` per scheduler), migrate, stop and create
actors until their thread ends. The main thread joins (`Join`), destroys the
schedulers (`Clear`, `ClearActor`, whose `tear_down` may create actors, `Cleared`) and
deletes the pools (`AtFinish`). A poll may return at any time, and must return
when the inbound queue has something, which is `NoLostWakeup` of the queue.

**`Timers`** is one scheduler's heap of deadlines and its loop (`FirstOfRound`,
`RunActor`, `RunTimeout`, `ExpireNow` or `ExpireLater`, `GetTimeout`, `RunPoll`), with a
`MultiTimeout` (its keys, its own heap, and the deadline it keeps in the scheduler's)
and a `Timeout`. Handlers of other actors call `set_timeout`, `add_timeout`, `cancel`
and `run_all` directly: between two actors of a round, in the poll, and in the
callbacks of expired keys. A timer actor that still has its Start and Yield gets the
Timeout event in its mailbox. It uses **`KHeap`**, the array operations of the heap
(`insert`, `fix`, `erase`, `pop`); **`KHeapCalls`** makes every sequence of legal calls
on one heap.

**`Promises`** is `MultiPromiseActorSafe`: promises are added, others are asked of it
and given to clients who answer them with a value, an error, or by losing them;
each answer goes through a `FutureActor` and an event to the actor; `tear_down` runs
the callbacks of the added promises, which may add and ask again or destroy the
object.

### The proxy

**`Connections`** is the proxy on its one scheduler (`N = 0` in `Bootstrap.cpp`): the
listener, the connections, `Epoll` with `PollFlagsSet`, and the kernel and peers as
the environment. Each system call is a step, so peers act between any two. `PollRun`
is `Epoll::run`; `BeginLoop` a Yield that calls `loop()`, which begins with
`sync_with_poll`; then `Accept`, `AcceptWouldBlock`, `AcceptFails`, `Accepted`,
`StopListening` are the listener's loop, and `ReadChunk` to `LoopCloses` the
connection's `read_loop`, `write_loop` and close. Data is counted in chunks of what
one `read` takes; each read, an empty one too, appends a reply, as `read_loop` does.

### The concurrent library

**`MpmcQueue`** is the queue with its blocks and `HazardPointers`, one step for each
access to an atomic: `ProtectLoad`, `ProtectStore`, `ProtectCheck` are
`HazardPointers::protect`; `ClaimWrite` to `SwingWrite` are `push`; `ReadWritePos` to
`SwingRead` are `try_pop`; `Retire` and `Scan` (one hazard pointer at a time) delete
nodes, whose addresses are then used again. A thread whose node was deleted under it
stops the model: what it does next is undefined.

**`ConcurrentHashMap`** is the open-addressed table: `Probe` and `UseValue` are
`with_value` with the lambda of `insert` or `find`, `LockToMigrate`, `TakeTask`,
`TakeCell`, `PutCell`, `LockAfterMigrate` and `Woken` the migration of a full table by
all the threads that meet it, a chunk of cells at a time. A table is named by its size,
which tells the tables apart: each is twice as large as the one before. A probe gives up
after `ProbeLimit` cells, full or not: then an insert starts a migration, a find says that
the key is missing, and a thread that moves a value ends the process (`MigrationOverflow`,
the `LOG_CHECK` of `run_task`).

**`MpmcWaiter`** is the sleepy waiter: workers that try to pop, `wait` and `stop_wait`,
and producers (and workers) that push and `notify`. Its steps are accesses to the
packed `state_`, here `searching_count` and `parked_count`, and critical sections of
`sleepers_mutex_`; a failed CHECK goes to `failed`.

**`EpochReclamation`** is `EpochBasedMemoryReclamation`: threads `Lock`, `Use`, `Replace`
(and retire) and `Unlock`; `StepCheck` looks at one thread's epoch, `Advance` is the
compare-exchange of the global one, `Advanced` and `Locked` rotate the three bags;
`RetireSync` to `RetireIdle` are the destructor of a `Locker`.

**`StealingQueue`** is the ring buffer of each owner with its overflow into the global
queue and the thieves: every access to `head_` or `tail_`, and the copy of cells that
an owner may be writing, is a step.

**`ChainBuffer`** is `ChainBufferWriter` and `ChainBufferReader` in two threads: nodes
with reference counts, appends in place, new nodes, slices, the reader's two iterators
and `sync_with_writer`, which reads `has_writer_` before it looks at the end.

### The sequential library

**`ChainScheduler`** is `create_task`, `start_next_task`, `finish_task`, `reset_task` and
`pause_task`, with the tasks they start recursively, as functions on one record.
**`FlatHashTable`** is `emplace`, `erase` with its backward shift, also round the end
of the array, `remove_if`, `reserve`, `clear`, the growth and the shrinking, and the
begin bucket.

### The utilities

**`ObjectPool`** is where actor slots live. `GetStorage`, `LoadHead` and `SwingHead` are
`get_storage`; `EndGeneration`, `ClearData`, `LinkStorage` and `PushStorage` are
`release` in any thread; `ReadWeak` and `CheckWeak` the use of a `WeakPtr`.

**`SharedObjectPool`** is `alloc`, the pointers' copies, moves and `reset` (`Reset`,
`DestroyData`, then `LoadNext` and `PushRaw` of its `MpscLinkQueue`), with the reader's
`add` in `Add`.

**`AtomicRead`** is the value under a version; a write and a copy take a step per word.

**`ByteFlow`** is a source, flows and a sink, whose nested calls are the stack `calls`:
`CloseInput`, `Wakeup`, `LeaveLoop` are the base class, `AesLoop`, `GzipWaits` and
`GzipRun` one turn of a flow's loop. zlib takes some input and gives some of the output
it holds at each `run`, and says "stream end" where it must.

**`OrderedEvents`** is `add`, with the array and its cutting; **`FloodControl`** is
`FloodControlStrict` with any times of the events and `FloodControlGlobal` with the two
steps of `try_start`.

### Instances and proofs

`MCScheduler`, `MCConcurrentScheduler`, `MCConnections`, `MCMpmcQueue`,
`MCConcurrentHashMap` and `MCTimers` give the constants for TLC.
Four instances choose at the start of a behaviour: `MCSchedulerSafe`, whether actors
migrate or slots are reused (`slots_are_reused`: both at once would be too many
states, and end in the first finding); `MCHazardPointers`, which of the two structures
with hazard pointers is used (`structure`); `MCLibrary`, which part of the library
(`part`); and `MCUtilities`, the inbound queue, which of the utilities, or the heap, the
hash table or the buffer (`used`). The parts do not share state, so a run checks each as
if alone.

The proofs are in `Scheduler_proofs` (ownership), `SchedulerEvents_proofs` (where events
are, and their order), which extends it; in
`Actors_proofs` (`ConcurrentScheduler`, `Promises`), `Connections_proofs`, `MpmcQueue_proofs` and
`ConcurrentHashMap_proofs`; in
`Library_proofs` (`MpmcWaiter`, `EpochReclamation`, `StealingQueue`, `ChainBuffer`,
`KHeapCalls`, `Timers`); and in `Utilities_proofs` (`AtomicRead`, `FloodControl`,
`MpscPollableQueue`, `ObjectPool`, `OrderedEvents`, `SharedObjectPool`).

Operators whose comment begins with "Mutant" are variants with a plausible bug;
no specification uses them. Each property fails when the variant `PROJECT.json`
names for it replaces the definition after it.

## The runs

| run | question | bounds |
|---|---|---|
| `utilities` | inbound queue: are wakeups kept, is one signal in flight, does it implement `FifoInbox` with its liveness; pools, copies, byte flows, early events, flood control, heap, hash table and buffer, each with its own question | queue: 2 writers, 3 puts each: a put in each of the reader's places and another after the signal it raced; the others below |
| `runtime_safe` | ownership, lists, conservation, Start and tear_down, the CHECKs, and the right actor in a slot | 2 threads, 3 slots (one free, with room for a creation here or there), 1 message per thread; 1 move per slot, or 2 generations |
| `runtime_live` | are a thread's events handled in order, and is everything delivered | 2 actors, 2 messages per thread, 1 move, fair threads |
| `slot_reuse_race` | is `pending_events_` ever given a null key | 3 slots, 2 generations, creation on the other scheduler |
| `connections` | is any connection, data or reply left behind by edges; is data read before Close; is every peer answered | 2 peers, one sending 2 chunks and one none; a send buffer of 1 chunk |
| `shutdown` | do the threads end, is the main thread alone when it destroys, do pools outlive actors | 2 threads, 2 slots, 1 migration, 1 creation |
| `pools_at_finish` | are all slots back when the pools are deleted | as `shutdown` |
| `hazard_pointers` | `MpmcQueue`: nothing lost, first in first out, "empty" is true, consumers protected; `ConcurrentHashMap`: every call on a key agrees, no table used after its deletion, what an overflow takes | queue: 3 threads (1 or 2 producers), nodes of 1 slot, 4 addresses; map: 2 threads, 3 calls of 3 keys, or 4 inserts of 4 keys that collide, of which the first two are over before the others; tables of up to 8 cells, 2 cells per probe |
| `mpmc_reclaim` | is a node ever deleted under a thread, producers included | as `hazard_pointers` |
| `find_mark` | does `find` ever return the mark of a moved cell | 3 threads, 2 keys, 3 calls, 2 tables |
| `library` | the waiter, epochs, stealing, chains, timers and promises, each with its own question | below |
| `timeout_rearmed` | can `timeout_expired` find the timer set again | 2 keys, 1 tick, 3 calls |

Named bounds and why they are enough:

- `MaxPuts` (events per writer), `MaxGen` (generations of a slot), `MaxSends`
  (messages per thread), `MaxMoves` (migrations of the actors in a slot). One message
  per thread already meets a migrating, stopping or dying addressee at each of its
  steps, two threads give two senders, and Start events add one for each actor. Order
  needs two messages. The ABA of slots needs two generations.
- `MaxData` and `SendBuffer`: a peer whose second chunk comes while the first is
  handled, and a buffer that one reply fills; the other peer's connection competes for
  the accept loop, resets and shuts down.
- `MaxMoves`, `MaxBirths` and one `finish()` per thread (`finishers`) in `shutdown`:
  an actor away from its home and one created late.
- `Node`, `ThreadsN`, `BlockSize` and `Workloads`: with one slot per node each push
  links a node, so that every race of linking, swinging and retiring occurs, and
  four addresses are used again.
- `MapKey`, `Fillers`, `MaxOps`, `MaxTable`, `MinProbes` and `ChunkSize` (300 and 100 in the code): the
  first tables, of one and two cells, fill, so that migrations follow each other, and a
  chunk of one cell gives each but the first several tasks. The keys 9, 17 and 25 collide
  in every table of up to 8 cells, and 10 is their neighbour: with probes of two cells a
  third key finds none in a table of four or eight, which is not full, so that an insert
  migrates, and a value that is moved may overflow. A migration from a table of 8 cells is
  left out (`MaxTable`); the proof has no such limit on keys, probes or tables.
- `MaxItems` 3 for three workers and a producer: a worker that is woken while another
  falls asleep, and work that is left for it.
- `ThreadCount` 2, `MaxLocks`, `MaxObjects`, `Skip` (30 in the code): a thread that is
  locked for longer than the other needs to go through the bags; the proof covers the
  rest.
- `N` 2 cells per ring (256 in the code) and `MaxValues` 4: overflow, wrap-around and a
  steal against each.
- `MaxTasks` 3, `MaxResets` 2, `Limit` 2 with two chains: every order of finishing,
  failing and pausing tasks that share chains.
- `MaxTime`, `Delays`, `MaxCalls`: deadlines now and later, and calls before, in and
  after the expiry.
- `HeapNode` and `HeapKey`: 6 nodes make three levels of a binary heap, with equal keys.
- `Capacity`, `MaxNodes`, `MaxBytes`: buffers that fill, and a chain longer than the two
  iterators are apart.
- `MaxAdded`, `MaxAsked`: an added promise that waits for several, and a second round in
  a callback.
- `TableKeys` 6 with `Hashes`, keys that meet in the last bucket and go round: arrays of
  8 and 16 buckets, grown and shrunk.
- `MaxStorages` 2, `MaxCreated` 3 and 3 threads: storages used again while one thread
  pops and two push or read. `MaxRaws`, `MaxPtrs` 3 and `MaxAllocs` 4: three batches in
  the queue, and the last pointer dropped anywhere.
- `MaxWrites` 3 and two words: a copy that meets the end of one write and the beginning
  of the next.
- `Pipelines`, `MaxFlowBytes` 3 and `MaxOutput` 3: flows alone and in chains, with one to
  three chunks; more output than a gzip flow may give.
- `MaxEvents` 8: the array is cut from 6 on. `FirstSeqNo` is where it starts.
- `LimitSets`, `MaxFloodTime` and `MaxFloodEvents` 6: one limit, and two of which either is
  reached first. `MaxActive` 1 for three `Starter`s.

`CHECK_DEADLOCK FALSE` everywhere: a scheduler with nothing to do sleeps, threads end,
and clients need not call.

### What the violations show

- `slot_reuse_race`: between the two reads of `send_impl` the addressee may die and its
  slot be taken by an actor on its way to this scheduler, and `pending_events_[nullptr]`
  fails the hash table's CHECK. Without creation elsewhere and migration, reuse is
  harmless (`runtime_safe`).
- `pools_at_finish`: an actor on its way to a thread that has already seen
  `is_finished()` stays in the inbound queue. `clear()` only stops listed actors, so its
  `tear_down` never runs, and the pool it came from is deleted without its slot,
  against the assertion of `~ObjectPool`.
- `mpmc_reclaim`: a consumer retires the node that it left while `write_pos_` still
  points to it; a producer protects the node through `write_pos_` after its hazard
  pointer was scanned and before the node is deleted. Consumers are safe
  (`ConsumersProtected`).
- `find_mark`: `find` keeps what it loaded from a moved cell in its argument, and returns
  it when the key is not in the next table. No insert or later find disagrees
  (`MapAgrees`).
- `timeout_rearmed`: a Timeout event that waits in the mailbox of a new `Timeout` is not
  taken back when the timer is set again before it is handled, and
  `CHECK(!has_timeout())` fails. If it is set again and then cancelled, the next line fails,
  `CHECK(callback_ != Callback())`; the model has that failure too (`SingleExpired`).

`SinkIsRight` asks for all bytes only of gzip flows. When two chunks are appended and
the source is closed without a wakeup between, `AesCtrByteFlow::loop` encrypts the first
chunk and finishes with OK (`AesCtrByteFlow.h:32-42`), so that its sink has a beginning
of the input. Users that wake the source for each chunk do not meet this.

`InOrder` is conditioned on `moves = 0`: after a migration, an event that went
through the old owner's inbound queue may come after a later one sent directly.
`PromisesKept` excepts a promise that is asked for in a callback of `tear_down`: its
event goes to the actor that is about to die (`MultiPromise.cpp:19`), and whoever waits
for it waits until the object is destroyed. Nothing in the repository does so.

## Fairness

`MpscPollableQueue`: weak fairness of the reader's thread, of its poll, and of a
writer that has left the lock; no writer has to put. The operating system runs the
threads, and `Scheduler::run` is a loop of mailbox and poll. `Scheduler`: weak
fairness of what a thread does by itself (run lists, returning from handlers,
routing, handing over) and of the ServiceActor's turn, which the queue's
refinement and its place in the ready list provide; no handler has to send.
`ConcurrentScheduler`: weak fairness of each thread's own steps, a poll that was
signalled among them, and of the main thread in `finish()`; nobody has to finish, and
the 10 seconds of a poll are not relied upon. `Connections`: weak fairness of the poll,
of each waiting observer's turn and of a `loop()` that has begun; the peers need do
nothing, and no `accept` has to fail.

(The queue's fairness holds in `utilities` while the queue is in use.) In `library`: the
waiter's threads go on with the notify, pop, wait or stop_wait that
they began, and nobody has to push; the threads of the epochs go on with what they
began and, as the code's Lockers are destroyed in the end, call `retire_sync`; the
scheduler of `Timers` runs, callbacks return, and time goes on.

## What is proved

The proofs hold for every value of the constants that the `ASSUME` of the module
allows. None of the invariants is inductive by itself; each proof module states the
strengthening and why it holds.

### The runtime

`Scheduler`'s theorems hold for any finite set of actor slots, any schedulers, and any
bounds on generations, messages and migrations. Three inductive invariants build on each
other.

`OwnershipHolds` proves `IInv` (`Scheduler_proofs`): `OneOwner` alone says nothing of a step
that moves an actor, so `IInv` says who may change what. An actor that runs has exactly
one `EventGuard`, on the stack of the thread that owns it (`Guarding`); whoever is on a run
list is owned by that thread and on the list its mailbox calls for (`Listing`,
`ListedHere`); an actor in transit has exactly one carrier, the call of `do_migrate_actor`
that hands it over or an entry of the inbound queue of its destination (`HandingOver`,
`Brought`); a slot in the pool is as `clear()` leaves it (`InSlot`); `actor_count_` counts
what the thread owns (`Counted`). A `CHECK` that fails ends the process, so that `ChecksOk`
(only `pending_key` may fail) is part of the induction.

`EventsAccounted` adds `EventInv` (`SchedulerEvents_proofs`): every sent event is in exactly
one of the places `handled`, `dropped`, a mailbox, a thread's `pending_events_`, an inbound
queue or a call of `send_impl` (`Conserved`), and once in it (`Unrepeated`). The proof moves
events between places (`MovedConserves`); each action is one such move. `Addressed` is what
the two reads of `send_impl` are about: mail is for the generation that is in the slot, a
pending list for an actor on its way here, and a call that finds its own scheduler in
`sched_id_` has found its addressee alive. `StartInv` keeps Start at the head of the first
mailbox, `TornInv` keeps a torn actor under the guard of `do_stop_actor`. From the two
invariants: `Typed`, `OwnersHold`, `EventsKept`, `OwnEventsHold`, `TearDownIsLast`,
`OtherChecksHold`.

`ChecksHold` itself is not an invariant for every value of the constants: `slot_reuse_race`
shows how `pending_events_` gets a null key. `OtherChecksHold` is what holds always, and
`ChecksHoldInNewSlots` says what the failure needs: as long as no actor is in transit in a
slot that was used before (`FreshMigrants`: programs that do not reuse slots, and those whose
later actors are created at home and do not migrate), no CHECK fails.

`InOrderHolds` (the end of `SchedulerEvents_proofs`): `InOrder` speaks of handled events only, and what
could break it is on its way. `OrderInv` says that events for an actor that was not told
to migrate are where they have to be (`OnItsWay`), and that of two from the same sender
the first is at least as far as the second: handled, or before it in the mailbox, or in
the mailbox when the second is pending, and so on down to the inbound queue (`Precedes`,
`Ordered`). An actor may be created for another scheduler, so that the pending list is a
place on the way even without a migration.

`Utilities_proofs`, for `MpscPollableQueue` with every set of writers and number of puts:
`TypeCorrect`, `WakeupsKept`, `OneSignal`, and `InboxRefinement` (the queue implements
the safety part of `FifoInbox`). `IInv` adds that there is exactly one wakeup, like a
token: with the reader (it runs, or has a Yield), in `wait_event_fd_` (the next writer
takes it), with a writer that will signal, or in the eventfd with an edge to come.
Each action passes the token on or keeps it, which is `TokenStep`; the lost wakeup
would be a state without it.

`Actors_proofs`, for any number of threads, actors, migrations and
creations: `TypeCorrect`, `AloneAfterJoin`, `PoolsLast` and `ClearedForGood`, and from the
last two `NothingOutlived`. `IInv` adds
the order of the end (`EndInOrder`): pools exist until the phase is finished, which
needs every scheduler cleared; nothing is cleared while threads run; the scheduler
being cleared is not among the cleared. Without it a `tear_down` could fill the list
of a destroyed scheduler.

It also proves `PromisesAreKept`, for any number of promises and futures. The code counts
answers and does not know whose they are. `CountsRight` says what the count means:
`received_results_` and the events that are queued are together the futures in `futures_`
that are ready and were heard, so the count reaches the length of the list exactly when
none is missing. `WaitsRight` says for whom: a promise in `promises_` waits for exactly the
futures in `futures_`, and those in the copy that `tear_down` made have all their answers
and the right result. What a promise waits for is fixed when its round ends
(`PlacesOfPromises`), and only a future asked for in a callback of `tear_down`, which is
late, can stay unheard.

### The proxy

`Connections_proofs`, for any number of peers, any data they send and any send buffer:
`TypeCorrect`, `DataReadBeforeClose` and `NothingIsLeft`. For the second, `IInv` follows
Close from the poll to the loop: it is announced together with Read (`Announced`), a
local Close means that Read is still set or all is read (`Noticed`), `write_loop` comes
after Read was taken away (`ReadFirst`). For the third, `EdgeInv` says where each
reason to wake up is: on epoll's list, in `to_write_` with a Yield owed (`Owed`), or in
the local flags of a loop that runs (`Told`, `Handled`), or, for a full send buffer,
with the kernel (`Full`).

### The concurrent library and the utilities

`MpmcQueue_proofs`, for any threads, nodes, block size and pushes: `ConsumersAreProtected` and
`EndsStayAllocated`. A consumer is safe because the node it published is compared with
the scan of every retiring thread, which is a statement about the past; `HazardInv`
makes it one about states. Nodes are unlinked (their maker's own, `New`), linked (on from
`read_pos_`, a list that never leads back, `List`) or retired (by one thread, once, and with
a next node, `Left`). `write_pos_` is at the last node, or at the one before, and then a
producer that linked the last protects it and is about to swing it (`WritePos`): a linked
node does not leave the list under `write_pos_` unless it is so protected. `Protected`: no
scan that is at a node has passed the hazard pointer of a consumer that uses it
(`Unpassed`), nor of the producer that has to swing `write_pos_` from it. When the scan
reaches its end, no such thread is left, and the node may go. Producers that only use a
node have no such protection (`mpmc_reclaim`); a state in which one of them holds a
deleted node is the last of a behaviour of the model, since what the code does then is
undefined, and the theorem is about the behaviours up to there.

On top of `HazardInv` the same module proves `ValuesInOrder` (`FirstInFirstOut`) and
`EmptyMeansEmpty` (`EmptyIsTrue`). `ValuesInv` says where the values are: one whose push has
found it a slot (`Done`) is popped or in exactly one slot of a used node (`OnePlace`); a slot
claimed for reading is taken or in the hands of the one consumer that claimed it
(`ReadClaims`), so a retired node, all of whose slots were claimed, takes no value with it;
a slot claimed for writing belongs to one producer and has no value in it (`WriteClaims`).
`OrderInv` says how they lie. Order along the list needs no recursion: n leads to m
(`Leads`) when m is in every set with n that is closed under `next`, which is how the model
says which nodes are ahead of `read_pos_` too. `WriteOrder`: `read_pos_` leads to every linked
node, and every linked node with a value leads to `write_pos_`, unless its producer still
has to swing `write_pos_` to it. `Behind`: if u was pushed before v began and u waits in
an unclaimed slot, v is not popped, and lies behind u; and the node and the slot at which
v's producer is are behind u already. This is what fetch-and-add on `write_pos` and the
reading of `write_pos_` at the start of every round keep, however long a producer sleeps
in between. A consumer pops from `read_pos_` only, or from a retired node, so nothing it
takes is behind a value that waits. `SeenEmpty`: once a consumer has compared the two
counters of its node, no value that was pushed before its call waits there. When it then
finds no next node, its node is the only one of the queue.

`ConcurrentHashMap_proofs`, for any threads and calls, any keys (any number of them may
collide), any least number of cells a probe passes, and any size of tables and of tasks:
`MapIsOneMap` (`MapAgrees`). `MapInv` says where the value of a key is (`Holds`): in the
current table, in the hands of the thread that moves it (`UnderWay`), or in the next table.
The first excludes the others, because whatever has left a cell has put the mark there
(`MovedKey`), and a mark is never replaced; the others exclude each other, because a cell
belongs to one task of one thread until its value has arrived (`TaskInv`, `NextInv`). So a
key holds one value (`HoldsOnce`), each result is the value its key holds (`ResultsHold`),
and every step keeps what is held. A cell is marked exactly when it is behind `pos` and no
thread has it still to move: the last thread out of a migration, which found no task left,
leaves a table of marks only, and what is held is in the next. `KeysPlaced`: the cells a
probe passes before a key are taken by other keys, so a probe finds a key wherever it is,
and never puts it in two cells. A moved value may find no cell (`MigrationOverflow`): no
invariant rules that out, since enough keys may collide. What holds is `OverflowInv`: the
keys of the next table are other keys of the old one, which has half the cells, so the
probe did not pass all cells of the next table, hence passed `MinProbes` of them at least,
and by counting (`OverflowTakesKeys`) the old table has more keys than that. A map of at most 300
keys never overflows. `HazardsInv` is the use of hazard pointers: a
table in use is published and was current after that; retired tables are older than the
current one; so a scan that deletes a table has seen every pointer to it.

`Library_proofs`, for `MpmcWaiter` with any workers, producers and work: `CountsAreRight` (no
CHECK fails, and `state_` counts exactly the searching and the listed workers) and
`NoWakeupLost`. `WaiterInv` says which worker is where in `wait` and `notify` (`InPlace`,
`LockHeld`, `Told`), that the list has no worker twice, that the counts are those of the
slots (`Counted`), and that somebody is awake or about to be.

The same module, for `EpochReclamation` with any threads, locks and replacements:
`NobodyUsesRetired`. `EpochInv` says of an object that a locked thread uses and another
retired (`Kept`): while it is in the bag before last, the global epoch is at most one ahead,
and when it is in the last, the epoch cannot advance until the thread unlocks
(`MayAdvance`); so the bag is not gone through.

The same module, for `StealingQueue` with any owners, size of the queues and values:
`ValuesOnce`. `StealInv` has three parts. `Window`: a queue with what its owner is copying
to it spans less than `N` indices, also when the owner read its `head_` long ago, so no two
of its values share a cell. `Thieving`: while the victim's `head_` is where the thief found
it, what the thief copied is still there; `head_` only grows, so the compare-exchange
succeeds exactly then, and cells that the victim has written over meanwhile are not used.
`ValuesInv`: no two places (`HoldsAt`) nor pushes have the same value, all have fresh ones,
and none is missing. That the counts add up (`EachOnce`) follows by counting each of the
disjoint sets by its values.

The same module, for `ChainBuffer` with any size of buffers, any number of nodes and of
bytes: `BufferIsWhole` (`StreamIsWhole`). `BufferInv` gives each node the number of bytes
before it (`Streamed`), so that an iterator stands in the stream where it stands in its
node (`IterAt`), and says which nodes have a writer (`WriterAt`). An iterator that saw a
node without one has seen all of the node when it decides (`Deciding`): `has_writer_` never
comes back, and the end of the buffer was read after it. `RefsRight` counts the pointers to
a node. Dropping the last one drops `next_` too, and so on: the nodes that lose a pointer
(`Losing`, the smallest set closed under that) are neighbours of which each but the first
lost the pointer of the one before (`LosingIs`). The next node is held before the old one
is dropped, so it is never among those that go.

The same module, for `KHeapCalls` with any arity, nodes and keys: `HeapStaysRight`
(`HeapIsRight`). `HeapInv` says that the array is a heap of exactly the nodes in it, each with
the key it was last given. `FixUp` and `FixDown` move the items of one path of the tree
(`HeapPath`) by one place: `KHeap` says by a recursive function which positions the moved item
comes past, and the path is known from its last or first position by a greatest or least
counterexample. A path shifted by one place is a permutation, so no item is lost
(`SameItems`). Before `FixUp`, at most the moved item is less than its parent (`LowAt`); before
`FixDown`, the item may be wrong in both directions (`HoleAt`), and what is below it is not
less than what was above it. That is why an erasure in the middle goes down and then up:
after `FixDown` only `LowAt` is left.

The same module, for `Timers` with any keys, deadlines and calls: `KeysStayWatched`
(`KeysAreWatched`). `HeapsRight` says that both heaps are heaps and that `items_` are the nodes
of the MultiTimeout's. `WatchRight`: while a key is set, the scheduler's heap has the actor at
the first deadline of its keys, if it has it, and otherwise a Timeout event waits in the
mailbox behind what was handled (`TimeoutWaits`). `update_timeout` is called when the first
key changed, and a call that leaves another key first leaves the first deadline too
(`TopKept`). `timeout_expired` uses up the event, and calls `update_timeout` unless no key is
left. So when the last key goes and the heap does not have the actor, the event is there, and
the CHECK of `update_timeout` holds. `get_expired_keys` is reached through its first pops, by
the least number of them after which the keys and the heap would not agree (`PopsAre`).

`Utilities_proofs`, for `AtomicRead` with any readers, words and writes: `CopiesAreWhole`.
`ReadInv` says that a word holds the last finished write or, if it was written already,
the one that is on, and that the words copied under an unchanged version are of the write
it counts. The model takes the accesses as sequentially consistent; `memcpy` beside a
writer is a race in C++, and x86 keeps the order of its loads and stores.

The same module, for `FloodControl` with any limits, times, threads: `FloodIsControlled`.
For `FloodControlGlobal`, `GuardInv` adds that a thread with a guard found the count below
the limit when it added itself, by counting. For `FloodControlStrict`, `StrictInv` names the
time when a limit has room again: `FitsAt`, which the event `count_` from the end decides
(`RoomIs`). A limit's `pos_` has passed only events that are too old or have `count_` others
behind them (`Passed`), the events kept are the last ones (`LastEvents`), and
`without_update_` more events fill no limit. So an event without an update cannot move
`wakeup_at_`: its limits fit another one now (`PassedFits`). After an update
`limit.pos_ + limit.count_` is not below the number of events (the CHECK in `update`), and
it is the event at `pos_` that decides.

The same module, for `ObjectPool` with any threads, storages and objects:
`StoragesInOnePlace` and `AliveReadsValid`. `PoolInv` gives the free list by its storages
from the end to the head (`FreeList`): a push adds at the head and a take removes there, so
that the rest of the list stays what it was. The list has no tags, and `SwingHead` only
compares `head_`. It is right because only the creator takes: a storage that it saw at the
head is still in the list, and while it is, nobody writes its `next` (`CallsRight`), so
what the creator read of `next` is right whenever the compare-exchange succeeds. For a
`WeakPtr`, `WeakInv` says that the generation of a storage without owner is ahead of
every `WeakPtr` to it, because `destroy_data` ends the generation before it clears the
data. `Listed` follows `next` from `head_` by a recursive function; that it finds the list
(`ListedIs`) is shown by the least number of steps after which it would not, since the
library's induction cannot be instantiated.

The same module, for `OrderedEvents` with any first number and any number of events:
`EventsHandledInOrder`. `OrderedInv` says for every position of the array which number it
stands for and when it is flagged (`ArrayRight`); a step is followed through the three ways
the array changes: flags taken away, `offset_` moved with nothing waiting, the front cut.
The recursive function of `Stop` is again reached by a least counterexample.

The same module, for `SharedObjectPool` with any threads, objects, pointers and calls of
`alloc`: `PoolIsRight` (`PoolCountsRight`). `SharedPoolInv` says that `ref_cnt_` is the number
of a raw's pointers (`Counted`), and that a raw has pointers and its data, or is dropped by
exactly one thread, or is free (`RawsPlaced`). The free ones are those of two lists that
share no node, the stack of `free_queue_` and what the reader has left (`FreeNodes`), with
the reader's `tail_` at the last. A push links a raw that nobody else has, so it does not
matter how often the head changes meanwhile, nor that the same head may come back: its
`next_` is the head that the compare-exchange finds. `pop_all` turns the stack round behind the
reader's list (`AllPopped`); were `tail_` not the last node there, raws would be lost.
`Chained` follows the links by a recursive function, reached as `Listed` is.

### Assumptions

`ConstantsAssumption` of `Scheduler` takes the slots as finite (`IsFiniteSet(Info)`), which
`actor_count_` needs. `MpmcQueueAssumption` takes `NoNode`, the null pointer, as no node's
address, and blocks with at least one slot; thread ids are `1..ThreadsN` as in
`threads_`. `MapAssumption` takes the threads as finite, which `migrate_cnt_` needs, and keys
that are numbers above 0, the mark of a free cell; there may be infinitely many. `FloodAssumption` takes durations
as `int32` that are not negative, and counts above 0: with 0, `update` reads behind the
last event. `SharedPoolAssumption` takes the threads
as finite, which `ref_cnt_` needs. `ObjectPoolAssumption` takes "list", which stands for no owner, as no thread.
The others say that bounds are numbers and that null values are none of the
things they stand beside.

The types of the queue, the proxy and the shutdown are proved (`TypeCorrect`), so the runs
do not check them again.

### Only model-checked

- `ByteFlow`, within the bounds above;
- `ChainScheduler` and `FlatHashTable`, whose recursive operators keep them out of the
  prover's reach, and `NotSetAgain`, which the code violates;
- all liveness (`ImplementsInbox`'s half, `AllDelivered`, `PeersAnswered`,
  `FinishCompletes`, `WorkIsTaken`, `RetireSyncEnds`, `KeysExpire`): fairness and ENABLED
  are out of the prover's reach too.

## What is left

1. `FloodControlFast`, `SignalSlot`, `TsList`, `AsyncFileLog`'s thread and `BufferedFd`.
2. Timers of actors that migrate: `start_migrate` cancels the timer (`Scheduler.cpp:455`) and
   nothing sets it again at the destination.
3. Sockets at shutdown: an `InboundConnection` that `clear()` destroys without `tear_down`
   is still subscribed, and `~PollableFdInfo` finds its lock taken (`PollableFd.h:128`).
4. Events that own actors or promises: `mailbox_.clear()` (`ActorInfo.h:91`) runs their
   destructors, which send to the actor that is being cleared.

## Not modelled

Most of the repository's lines are JSON, TL, HTTP, text, Unicode, big numbers and
cryptography, and wrappers of system calls for files, addresses and UDP: functions of
bytes, or calls of libraries and the kernel, without state that persists between calls
or threads that meet. A model of them would say again what they compute. The
remaining containers and logging are sequential and short. `src/pxcnet`'s own `Epoll`, `Socket` and
`PollFlags` are not called. Windows, macOS and Emscripten variants are left out. Within
the runtime: contexts, log tags, link tokens, names. Details are under `components` in
`PROJECT.json`.

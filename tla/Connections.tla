---------------------------- MODULE Connections ----------------------------
(***************************************************************************)
(* The proxy on its one scheduler: the TcpListener, the Server that turns  *)
(* an accepted socket into an InboundConnection, the edge-triggered epoll   *)
(* that wakes them, and the peers, who connect, send, read, shut down and   *)
(* reset whenever they like, between any two system calls of the proxy.     *)
(*                                                                         *)
(* A chunk is what one read() takes (up to 1024 bytes) or the reply that    *)
(* read_loop appends to write_buf_ after it.                                 *)
(***************************************************************************)
EXTENDS Naturals, FiniteSets, FiniteSetsExt

CONSTANTS
  Conn,                     \* connections of peers
  Listening,                \* the listening socket
  NoFd,                     \* no file descriptor
  MaxData,                  \* bound: chunks a peer sends, for each connection
  SendBuffer                \* chunks that fit in a socket's send buffer

ASSUME ConstantsAssumption ==
  /\ Listening \notin Conn
  /\ NoFd \notin Conn \union {Listening}
  /\ MaxData \in [Conn -> Nat]
  /\ SendBuffer \in Nat \ {0}

Fd == Conn \union {Listening}

VARIABLES
  (* the kernel and the peers *)
  arrived,                  \* chunks each peer sent
  unread,                   \* chunks in the receive buffer
  unsent,                   \* chunks in the send buffer
  nospace,                  \* sockets whose send buffer was found full
  fin,                      \* peers that shut down their sending side
  reset,                    \* connections reset by their peer
  epoll_ready,              \* descriptors on epoll's ready list
  (* PollableFdInfo *)
  to_write_,                \* flags written by the poll and not yet flushed
  flags_,                   \* local flags
  (* the actors *)
  listener,                 \* the TcpListener and its server_fd_
  stage,                    \* how far a connection came
  yields,                   \* Yield events in the mailbox of a descriptor's observer
  write_buf_,               \* replies from write_pos_ on
  running,                  \* descriptor whose loop() has the thread
  step                      \* where that loop is

peerVars  == <<arrived, unread, unsent, nospace, fin, reset>>
flagVars  == <<to_write_, flags_>>
actorVars == <<listener, stage, yields, write_buf_, running, step>>
vars == <<peerVars, epoll_ready, flagVars, actorVars>>

Flag  == {"Read", "Write", "Close", "Error"}
Stage == {"none", "backlog", "created", "open", "closed", "refused"}

In(s) == {c \in Conn : stage[c] = s}

Init ==
  /\ arrived = [c \in Conn |-> 0]
  /\ unread = [c \in Conn |-> 0]
  /\ unsent = [c \in Conn |-> 0]
  /\ nospace = {}
  /\ fin = {}
  /\ reset = {}
  /\ epoll_ready = {}
  /\ to_write_ = [f \in Fd |-> {}]
  /\ flags_ = [f \in Fd |-> {}]
  /\ listener = "unopened"
  /\ stage = [c \in Conn |-> "none"]
  /\ yields = [f \in Fd |-> 0]
  /\ write_buf_ = [c \in Conn |-> 0]
  /\ running = NoFd
  /\ step = "none"

-----------------------------------------------------------------------------
(* The kernel *)

Given(flag, condition) == IF condition THEN {flag} ELSE {}

(* What epoll reports of f: EPOLLIN, EPOLLOUT, EPOLLRDHUP or EPOLLHUP, and  *)
(* EPOLLERR.  A listening socket is only ever readable.                      *)
Conditions(f) ==
  IF f = Listening THEN Given("Read", In("backlog") # {})
  ELSE Given("Read", unread[f] > 0 \/ f \in fin \union reset)
         \union Given("Write", unsent[f] < SendBuffer \/ f \in reset)
         \union Given("Close", f \in fin \union reset)
         \union Given("Error", f \in reset)

Subscribed == In("open") \union Given(Listening, listener = "listening")

Wake(f) == epoll_ready' = epoll_ready \union ({f} \intersect Subscribed)

(* A connection the peer can still use. *)
Alive(c) == stage[c] \in {"backlog", "created", "open"} /\ c \notin reset

Connect(c) ==
  /\ stage[c] = "none"
  /\ listener = "listening"
  /\ stage' = [stage EXCEPT ![c] = "backlog"]
  /\ Wake(Listening)
  /\ UNCHANGED <<peerVars, flagVars, listener, yields, write_buf_, running, step>>

SendData(c) ==
  /\ Alive(c) /\ c \notin fin
  /\ arrived[c] < MaxData[c]
  /\ arrived' = [arrived EXCEPT ![c] = @ + 1]
  /\ unread' = [unread EXCEPT ![c] = @ + 1]
  /\ Wake(c)
  /\ UNCHANGED <<unsent, nospace, fin, reset, flagVars, actorVars>>

ShutDown(c) ==
  /\ Alive(c) /\ c \notin fin
  /\ fin' = fin \union {c}
  /\ Wake(c)
  /\ UNCHANGED <<arrived, unread, unsent, nospace, reset, flagVars, actorVars>>

Reset(c) ==
  /\ Alive(c)
  /\ reset' = reset \union {c}
  /\ Wake(c)
  /\ UNCHANGED <<arrived, unread, unsent, nospace, fin, flagVars, actorVars>>

(* The peer takes a reply.  Only a writer that found no space is woken. *)
TakeReply(c) ==
  /\ Alive(c)
  /\ unsent[c] > 0
  /\ unsent' = [unsent EXCEPT ![c] = @ - 1]
  /\ nospace' = nospace \ {c}
  /\ IF c \in nospace THEN Wake(c) ELSE UNCHANGED epoll_ready
  /\ UNCHANGED <<arrived, unread, fin, reset, flagVars, actorVars>>

Peer == \E c \in Conn : \/ Connect(c) \/ SendData(c) \/ ShutDown(c)
                        \/ Reset(c) \/ TakeReply(c)

-----------------------------------------------------------------------------
(* Polling *)

(* Epoll::run takes the ready list; write_flags yields the observer of a    *)
(* descriptor with a flag that was not already pending.  Polling a full     *)
(* send buffer asks the kernel for a wakeup.                                 *)
PollRun ==
  /\ running = NoFd
  /\ epoll_ready # {}
  /\ epoll_ready' = {}
  /\ to_write_' = [f \in Fd |-> IF f \in epoll_ready THEN to_write_[f] \union Conditions(f)
                                                     ELSE to_write_[f]]
  /\ yields' = [f \in Fd |-> IF f \in epoll_ready /\ ~(Conditions(f) \subseteq to_write_[f])
                               THEN yields[f] + 1 ELSE yields[f]]
  /\ nospace' = nospace \union {c \in epoll_ready \intersect Conn : "Write" \notin Conditions(c)}
  /\ UNCHANGED <<arrived, unread, unsent, fin, reset, flags_, listener, stage, write_buf_,
                 running, step>>

(* Mutant: Close hides the data that came before it. *)
FlushHidingRead(local, written) ==
  IF written = {} THEN local
  ELSE LET f == local \union written IN IF "Close" \in f THEN f \ {"Read", "Write"} ELSE f

(* PollFlagsSet::flush *)
Flush(local, written) ==
  IF written = {} THEN local
  ELSE LET f == local \union written IN IF "Close" \in f THEN f \ {"Write"} ELSE f

(* A Yield calls loop(), which begins with sync_with_poll(). *)
BeginLoop(f) ==
  /\ running = NoFd
  /\ yields[f] > 0
  /\ yields' = [yields EXCEPT ![f] = @ - 1]
  /\ flags_' = [flags_ EXCEPT ![f] = Flush(@, to_write_[f])]
  /\ to_write_' = [to_write_ EXCEPT ![f] = {}]
  /\ running' = f
  /\ step' = IF f = Listening THEN "accept" ELSE "read"
  /\ UNCHANGED <<peerVars, epoll_ready, listener, stage, write_buf_>>

EndLoop == running' = NoFd /\ step' = "none"

(* unsubscribe, close, and the death of the observer. *)
Forget(f) ==
  /\ epoll_ready' = epoll_ready \ {f}
  /\ to_write_' = [to_write_ EXCEPT ![f] = {}]
  /\ flags_' = [flags_ EXCEPT ![f] = {}]
  /\ yields' = [yields EXCEPT ![f] = 0]

-----------------------------------------------------------------------------
(* TcpListener *)

(* start_up(), or loop() 5 seconds after an open that failed: until open    *)
(* succeeds nothing changes.                                                 *)
Open ==
  /\ running = NoFd
  /\ listener = "unopened"
  /\ listener' = "listening"
  /\ UNCHANGED <<peerVars, epoll_ready, flagVars, stage, yields, write_buf_, running, step>>

Accepting == running = Listening /\ step = "accept"

(* accept() returns a socket: the Server creates an InboundConnection. *)
Accept(c) ==
  /\ Accepting
  /\ "Read" \in flags_[Listening]
  /\ stage[c] = "backlog"
  /\ stage' = [stage EXCEPT ![c] = "created"]
  /\ UNCHANGED <<peerVars, epoll_ready, flagVars, listener, yields, write_buf_, running, step>>

AcceptWouldBlock ==
  /\ Accepting
  /\ "Read" \in flags_[Listening]
  /\ In("backlog") = {}
  /\ flags_' = [flags_ EXCEPT ![Listening] = @ \ {"Read"}]
  /\ UNCHANGED <<peerVars, epoll_ready, to_write_, actorVars>>

(* Too many open files, a connection aborted, or another error: Close. *)
AcceptFails ==
  /\ Accepting
  /\ "Read" \in flags_[Listening]
  /\ flags_' = [flags_ EXCEPT ![Listening] = (@ \ {"Read"}) \union {"Close"}]
  /\ UNCHANGED <<peerVars, epoll_ready, to_write_, actorVars>>

(* Mutant: one accept for each Yield. *)
AcceptedOne ==
  /\ Accepting
  /\ "Close" \notin flags_[Listening]
  /\ EndLoop
  /\ UNCHANGED <<peerVars, epoll_ready, flagVars, listener, stage, yields, write_buf_>>

Accepted ==
  /\ Accepting
  /\ "Read" \notin flags_[Listening]
  /\ "Close" \notin flags_[Listening]
  /\ EndLoop
  /\ UNCHANGED <<peerVars, epoll_ready, flagVars, listener, stage, yields, write_buf_>>

(* stop() and tear_down(): peers that were waiting are refused. *)
StopListening ==
  /\ Accepting
  /\ "Read" \notin flags_[Listening]
  /\ "Close" \in flags_[Listening]
  /\ listener' = "stopped"
  /\ stage' = [c \in Conn |-> IF stage[c] = "backlog" THEN "refused" ELSE stage[c]]
  /\ Forget(Listening)
  /\ EndLoop
  /\ UNCHANGED <<peerVars, write_buf_>>

-----------------------------------------------------------------------------
(* InboundConnection *)

(* Its Start: EPOLL_CTL_ADD finds a descriptor ready that already is. *)
StartUp(c) ==
  /\ running = NoFd
  /\ stage[c] = "created"
  /\ stage' = [stage EXCEPT ![c] = "open"]
  /\ epoll_ready' = epoll_ready \union Given(c, Conditions(c) # {})
  /\ UNCHANGED <<peerVars, flagVars, listener, yields, write_buf_, running, step>>

Reading(c) == running = c /\ step = "read" /\ c \in Conn
Writing(c) == running = c /\ step = "write" /\ c \in Conn

CanRead(c)  == flags_[c] \intersect {"Read", "Error"} # {}
CanWrite(c) == "Write" \in flags_[c] /\ write_buf_[c] > 0

(* loop() got an error from do_loop(): unsubscribe and stop. *)
Close(c) ==
  /\ stage' = [stage EXCEPT ![c] = "closed"]
  /\ write_buf_' = [write_buf_ EXCEPT ![c] = 0]
  /\ Forget(c)
  /\ EndLoop
  /\ UNCHANGED <<peerVars, listener>>

(* read() takes a chunk, and read_loop appends its reply. *)
ReadChunk(c) ==
  /\ Reading(c) /\ CanRead(c)
  /\ ~("Error" \in flags_[c] /\ c \in reset)
  /\ unread[c] > 0
  /\ unread' = [unread EXCEPT ![c] = @ - 1]
  /\ flags_' = [flags_ EXCEPT ![c] = @ \ {"Error"}]
  /\ write_buf_' = [write_buf_ EXCEPT ![c] = @ + 1]
  /\ UNCHANGED <<arrived, unsent, nospace, fin, reset, epoll_ready, to_write_, listener,
                 stage, yields, running, step>>

(* read() returns 0, because the peer shut down or because it would block;  *)
(* read_loop appends a reply all the same.                                   *)
ReadNothing(c) ==
  /\ Reading(c) /\ CanRead(c)
  /\ unread[c] = 0
  /\ c \notin reset
  /\ flags_' = [flags_ EXCEPT ![c] = (@ \ {"Read", "Error"}) \union Given("Close", c \in fin)]
  /\ write_buf_' = [write_buf_ EXCEPT ![c] = @ + 1]
  /\ UNCHANGED <<peerVars, epoll_ready, to_write_, listener, stage, yields, running, step>>

(* get_pending_error() or read() returns an error. *)
ReadFails(c) ==
  /\ Reading(c) /\ CanRead(c)
  /\ c \in reset
  /\ "Error" \in flags_[c] \/ unread[c] = 0
  /\ Close(c)

ReadDone(c) ==
  /\ Reading(c) /\ ~CanRead(c)
  /\ step' = "write"
  /\ UNCHANGED <<peerVars, epoll_ready, flagVars, listener, stage, yields, write_buf_, running>>

(* write() takes what fits. *)
Write(c) ==
  /\ Writing(c) /\ CanWrite(c)
  /\ c \notin reset
  /\ unsent[c] < SendBuffer
  /\ LET written == Min({write_buf_[c], SendBuffer - unsent[c]}) IN
       /\ unsent' = [unsent EXCEPT ![c] = @ + written]
       /\ write_buf_' = [write_buf_ EXCEPT ![c] = @ - written]
  /\ UNCHANGED <<arrived, unread, nospace, fin, reset, epoll_ready, flagVars, listener, stage,
                 yields, running, step>>

WriteWouldBlock(c) ==
  /\ Writing(c) /\ CanWrite(c)
  /\ c \notin reset
  /\ unsent[c] = SendBuffer
  /\ nospace' = nospace \union {c}
  /\ flags_' = [flags_ EXCEPT ![c] = @ \ {"Write"}]
  /\ UNCHANGED <<arrived, unread, unsent, fin, reset, epoll_ready, to_write_, actorVars>>

WriteFails(c) ==
  /\ Writing(c) /\ CanWrite(c)
  /\ c \in reset
  /\ Close(c)

LoopDone(c) ==
  /\ Writing(c) /\ ~CanWrite(c)
  /\ "Close" \notin flags_[c]
  /\ EndLoop
  /\ UNCHANGED <<peerVars, epoll_ready, flagVars, listener, stage, yields, write_buf_>>

(* Mutant: a connection closes only with nothing left to write. *)
LoopClosesWhenWritten(c) ==
  /\ Writing(c) /\ ~CanWrite(c)
  /\ "Close" \in flags_[c]
  /\ IF write_buf_[c] = 0 THEN Close(c)
     ELSE /\ EndLoop
          /\ UNCHANGED <<peerVars, epoll_ready, flagVars, listener, stage, yields, write_buf_>>

LoopCloses(c) ==
  /\ Writing(c) /\ ~CanWrite(c)
  /\ "Close" \in flags_[c]
  /\ Close(c)

-----------------------------------------------------------------------------
Listener == Accepted \/ AcceptWouldBlock \/ StopListening \/ \E c \in Conn : Accept(c)

Connection(c) == \/ StartUp(c) \/ ReadChunk(c) \/ ReadNothing(c) \/ ReadFails(c)
                 \/ ReadDone(c) \/ Write(c) \/ WriteWouldBlock(c) \/ WriteFails(c)
                 \/ LoopDone(c) \/ LoopCloses(c)

Thread == \/ PollRun \/ Listener
          \/ \E f \in Fd : BeginLoop(f)
          \/ \E c \in Conn : Connection(c)

Next == Peer \/ Open \/ Thread \/ AcceptFails

(* The scheduler's thread runs: it goes on with a loop() it has begun, gives *)
(* every waiting actor its turn, and polls.  Peers need do nothing.          *)
Fairness == /\ WF_vars(PollRun) /\ WF_vars(Listener)
            /\ \A f \in Fd : WF_vars(BeginLoop(f))
            /\ \A c \in Conn : WF_vars(Connection(c))

SafeSpec == Init /\ [][Next]_vars

Spec == SafeSpec /\ Fairness

-----------------------------------------------------------------------------
(* Properties *)

(* Every variable has its type (PollFlags.h, InboundConnection.h). *)
TypeOK ==
  /\ arrived \in [Conn -> Nat] /\ unread \in [Conn -> Nat]
  /\ \A c \in Conn : unread[c] <= arrived[c] /\ arrived[c] <= MaxData[c]
  /\ unsent \in [Conn -> 0..SendBuffer]
  /\ nospace \subseteq Conn /\ fin \subseteq Conn /\ reset \subseteq Conn
  /\ epoll_ready \subseteq Fd
  /\ to_write_ \in [Fd -> SUBSET Flag] /\ flags_ \in [Fd -> SUBSET Flag]
  /\ listener \in {"unopened", "listening", "stopped"}
  /\ stage \in [Conn -> Stage]
  /\ yields \in [Fd -> Nat]
  /\ write_buf_ \in [Conn -> Nat]
  /\ running \in Fd \union {NoFd}
  /\ step \in {"none", "accept", "read", "write"}

(* f's observer is idle, and neither its mailbox nor epoll will wake it. *)
Asleep(f) == f \in Subscribed /\ running # f /\ yields[f] = 0 /\ f \notin epoll_ready

(* Nothing is left behind by edge-triggered flags: a listener asleep has no *)
(* peer in its backlog; a connection asleep has read all that arrived, has  *)
(* seen the end of its peer, and keeps replies only while the send buffer   *)
(* is full and the kernel was asked for a wakeup.                            *)
NothingLeftBehind ==
  /\ Asleep(Listening) => In("backlog") = {}
  /\ \A c \in Conn : Asleep(c) =>
       /\ unread[c] = 0 /\ c \notin fin \union reset
       /\ write_buf_[c] > 0 => unsent[c] > 0 /\ c \in nospace

(* Close is acted on after the data that came before it: a connection that  *)
(* was not reset has read everything its peer sent when it closes, although *)
(* Close and Read may arrive in one report.                                  *)
ReadBeforeClose ==
  \A c \in In("closed") : c \notin reset => c \in fin /\ unread[c] = 0

(* Peers are answered: a peer in the backlog is accepted, or refused by a   *)
(* listener that stopped, and a connection whose peer is gone is closed.    *)
PeersAnswered ==
  \A c \in Conn :
    /\ stage[c] = "backlog" ~> stage[c] # "backlog"
    /\ (stage[c] \in {"created", "open"} /\ c \in fin \union reset) ~> stage[c] = "closed"
==============================================================================

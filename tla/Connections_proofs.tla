-------------------------- MODULE Connections_proofs --------------------------
(***************************************************************************)
(* Safety of Connections for any number of peers, any data they send and any *)
(* send buffer.                                                             *)
(***************************************************************************)
EXTENDS Connections, TLAPS

(* Flags the poll has written: an end is announced together with something   *)
(* to read.                                                                   *)
Announced(c) == "Close" \in to_write_[c] => c \in fin /\ "Read" \in to_write_[c]

(* Local flags: after the end, the Read flag is kept until all is read.  *)
Noticed(c) == "Close" \in flags_[c] => c \in fin /\ ("Read" \in flags_[c] \/ unread[c] = 0)

(* write_loop comes after a read_loop that took the Read flag away. *)
ReadFirst(c) == running = c /\ step = "write" => "Read" \notin flags_[c]

ClosedRead(c) == stage[c] = "closed" => c \in fin /\ unread[c] = 0

Orderly(c) == Announced(c) /\ Noticed(c) /\ ReadFirst(c) /\ ClosedRead(c)

IInv == TypeOK /\ \A c \in Conn : c \notin reset => Orderly(c)

USE DEF Fd

(* What write() takes is what there is, or what fits. *)
LEMMA MinOfTwo ==
  ASSUME NEW a \in Nat, NEW b \in Nat
  PROVE  /\ Min({a, b}) \in Nat
         /\ Min({a, b}) <= a /\ Min({a, b}) <= b
PROOF
  <1>1. \E x \in {a, b} : \A y \in {a, b} : x <= y
    <2>1. CASE a <= b
      BY <2>1, SMT
    <2>2. CASE b <= a
      BY <2>2, SMT
    <2> QED BY <2>1, <2>2, SMT
  <1>2. /\ Min({a, b}) \in {a, b}
        /\ \A y \in {a, b} : Min({a, b}) <= y
    BY <1>1 DEF Min
  <1> QED BY <1>2, SMT

(* Epoll reports flags, and the end of a peer as readable. *)
LEMMA ConditionsOfConn ==
  ASSUME NEW c \in Conn
  PROVE  /\ Conditions(c) \subseteq Flag
         /\ "Close" \in Conditions(c) => c \in fin \union reset /\ "Read" \in Conditions(c)
PROOF BY ConstantsAssumption, SMT DEF Conditions, Given, Flag

LEMMA ConditionsOfAny ==
  ASSUME NEW f \in Fd
  PROVE  Conditions(f) \subseteq Flag
PROOF BY ConstantsAssumption, SMT DEF Conditions, Given, Flag

-----------------------------------------------------------------------------

LEMMA InvInit == Init => IInv
PROOF BY ConstantsAssumption, SMT
      DEF Init, IInv, TypeOK, Orderly, Announced, Noticed, ReadFirst, ClosedRead, Stage, Flag

(* The peers and the kernel. *)
LEMMA PeerStep == IInv /\ Peer => IInv'
PROOF
  <1> SUFFICES ASSUME IInv, NEW p \in Conn,
                      Connect(p) \/ SendData(p) \/ ShutDown(p) \/ Reset(p) \/ TakeReply(p)
               PROVE  IInv'
    BY DEF Peer
  <1> USE DEF IInv
  <1>1. CASE Connect(p)
    BY <1>1, ConstantsAssumption, SMT
       DEF Connect, Wake, Subscribed, In, Given, TypeOK, Orderly, Announced, Noticed, ReadFirst,
           ClosedRead, Stage, peerVars, flagVars
  <1>2. CASE SendData(p)
    <2>1. /\ arrived' = [arrived EXCEPT ![p] = @ + 1] /\ arrived[p] < MaxData[p]
          /\ unread' = [unread EXCEPT ![p] = @ + 1]
          /\ p \notin fin /\ stage[p] # "closed"
          /\ epoll_ready' = epoll_ready \union ({p} \intersect Subscribed)
          /\ UNCHANGED <<unsent, nospace, fin, reset, flagVars, actorVars>>
      BY <1>2, SMT DEF SendData, Alive, Wake
    <2>2. TypeOK'
      <3>1. MaxData \in [Conn -> Nat] /\ arrived \in [Conn -> Nat] /\ unread \in [Conn -> Nat]
        BY ConstantsAssumption DEF TypeOK
      <3>2. \A c \in Conn : unread'[c] <= arrived'[c] /\ arrived'[c] <= MaxData[c]
        BY <2>1, <3>1, SMT DEF TypeOK
      <3>3. arrived' \in [Conn -> Nat] /\ unread' \in [Conn -> Nat] /\ epoll_ready' \subseteq Fd
        BY <2>1, <3>1, SMT DEF TypeOK
      <3> QED BY <2>1, <3>2, <3>3, SMT DEF TypeOK, flagVars, actorVars
    <2>3. ASSUME NEW c \in Conn, c \notin reset, Orderly(c)
          PROVE  Orderly(c)'
      BY <2>1, <2>3, SMT
         DEF TypeOK, Orderly, Announced, Noticed, ReadFirst, ClosedRead, flagVars, actorVars
    <2> QED BY <2>1, <2>2, <2>3
  <1>3. CASE ShutDown(p)
    BY <1>3, ConstantsAssumption, SMT
       DEF ShutDown, Alive, Wake, Subscribed, In, Given, TypeOK, Orderly, Announced, Noticed,
           ReadFirst, ClosedRead, flagVars, actorVars
  <1>4. CASE Reset(p)
    BY <1>4, ConstantsAssumption, SMT
       DEF Reset, Alive, Wake, Subscribed, In, Given, TypeOK, Orderly, Announced, Noticed,
           ReadFirst, ClosedRead, flagVars, actorVars
  <1>5. CASE TakeReply(p)
    BY <1>5, ConstantsAssumption, SMT
       DEF TakeReply, Alive, Wake, Subscribed, In, Given, TypeOK, Orderly, Announced, Noticed,
           ReadFirst, ClosedRead, flagVars, actorVars
  <1> QED BY <1>1, <1>2, <1>3, <1>4, <1>5

(* The poll writes flags, and a Yield has the observer flush them. *)
LEMMA PollStep == IInv /\ PollRun => IInv'
PROOF
  <1> SUFFICES ASSUME IInv, PollRun
               PROVE  IInv'
    OBVIOUS
  <1> USE DEF IInv
  <1>1. to_write_' \in [Fd -> SUBSET Flag] /\ yields' \in [Fd -> Nat]
    BY ConditionsOfAny, SMT DEF PollRun, TypeOK
  <1>2. TypeOK'
    BY <1>1, SMT DEF PollRun, TypeOK, Stage
  <1>3. ASSUME NEW c \in Conn, c \notin reset, Announced(c)
        PROVE  Announced(c)'
    BY <1>3, ConditionsOfConn, SMT DEF PollRun, Announced
  <1>4. ASSUME NEW c \in Conn, c \notin reset', Orderly(c)
        PROVE  Orderly(c)'
    BY <1>3, <1>4, ConstantsAssumption, SMT DEF PollRun, Orderly, Noticed, ReadFirst, ClosedRead
  <1> QED BY <1>2, <1>4, SMT DEF PollRun

LEMMA BeginLoopStep ==
  ASSUME NEW f \in Fd, IInv, BeginLoop(f)
  PROVE  IInv'
PROOF
  <1> USE DEF IInv
  <1>1. Flush(flags_[f], to_write_[f]) \in SUBSET Flag
    BY SMT DEF Flush, TypeOK
  <1>2. TypeOK'
    BY <1>1, ConstantsAssumption, SMT DEF BeginLoop, TypeOK, peerVars, Stage
  <1>3. ASSUME NEW c \in Conn, c \notin reset, Announced(c), Noticed(c)
        PROVE  Noticed(c)'
    BY <1>3, SMT DEF BeginLoop, Flush, TypeOK, Announced, Noticed, peerVars
  <1>4. ASSUME NEW c \in Conn, c \notin reset', Orderly(c)
        PROVE  Orderly(c)'
    BY <1>3, <1>4, ConstantsAssumption, SMT
       DEF BeginLoop, TypeOK, Orderly, Announced, ReadFirst, ClosedRead, peerVars
  <1> QED BY <1>2, <1>4, SMT DEF BeginLoop, peerVars

(* TcpListener: its flags are not those of a connection. *)
LEMMA ListenerStep == IInv /\ (Open \/ Listener \/ AcceptFails) => IInv'
PROOF
  <1> SUFFICES ASSUME IInv, Open \/ Listener \/ AcceptFails
               PROVE  IInv'
    OBVIOUS
  <1> USE ConstantsAssumption DEF IInv, TypeOK, Orderly, Announced, Noticed, ReadFirst, ClosedRead
  <1>1. CASE Open
    BY <1>1, SMT DEF Open, peerVars, flagVars
  <1>2. CASE Accepted
    BY <1>2, SMT DEF Accepted, Accepting, EndLoop, peerVars, flagVars
  <1>3. CASE AcceptWouldBlock
    BY <1>3, SMT DEF AcceptWouldBlock, Accepting, peerVars, actorVars
  <1>4. CASE StopListening
    BY <1>4, SMT DEF StopListening, Accepting, Forget, EndLoop, peerVars, Stage
  <1>5. CASE \E c \in Conn : Accept(c)
    BY <1>5, SMT DEF Accept, Accepting, peerVars, flagVars, Stage
  <1>6. CASE AcceptFails
    BY <1>6, SMT DEF AcceptFails, Accepting, Flag, peerVars, actorVars
  <1> QED BY <1>1, <1>2, <1>3, <1>4, <1>5, <1>6 DEF Listener

(* A connection that was not reset closes after read_loop, with nothing left. *)
LEMMA CloseStep ==
  ASSUME NEW c \in Conn, IInv, Close(c), c \notin reset => c \in fin /\ unread[c] = 0
  PROVE  IInv'
PROOF BY ConstantsAssumption, SMT
      DEF IInv, TypeOK, Orderly, Announced, Noticed, ReadFirst, ClosedRead, Close, Forget, EndLoop,
          peerVars, Stage

LEMMA ConnectionStep ==
  ASSUME NEW c \in Conn, IInv, Connection(c)
  PROVE  IInv'
PROOF
  <1> USE ConstantsAssumption DEF IInv, TypeOK, Orderly, Announced, Noticed, ReadFirst, ClosedRead
  <1>1. CASE StartUp(c)
    BY <1>1, SMT DEF StartUp, Given, peerVars, flagVars, Stage
  <1>2. CASE ReadChunk(c)
    BY <1>2, SMT DEF ReadChunk, Reading, CanRead
  <1>3. CASE ReadNothing(c)
    BY <1>3, SMT DEF ReadNothing, Reading, CanRead, Given, Flag, peerVars
  <1>4. CASE ReadFails(c)
    BY <1>4, CloseStep DEF ReadFails
  <1>5. CASE ReadDone(c)
    BY <1>5, SMT DEF ReadDone, Reading, CanRead, peerVars, flagVars
  <1>6. CASE Write(c)
    <2> DEFINE written == Min({write_buf_[c], SendBuffer - unsent[c]})
    <2>1. SendBuffer - unsent[c] \in Nat /\ write_buf_[c] \in Nat /\ unsent[c] \in 0..SendBuffer
      BY <1>6, SMT DEF Write
    <2>2. written \in Nat /\ written <= write_buf_[c] /\ written <= SendBuffer - unsent[c]
      BY <2>1, MinOfTwo
    <2>3. /\ unsent' = [unsent EXCEPT ![c] = @ + written]
          /\ write_buf_' = [write_buf_ EXCEPT ![c] = @ - written]
          /\ UNCHANGED <<arrived, unread, nospace, fin, reset, epoll_ready, flagVars, listener,
                         stage, yields, running, step>>
      BY <1>6 DEF Write
    <2> HIDE DEF written
    <2> QED BY <2>1, <2>2, <2>3, SMT DEF flagVars
  <1>7. CASE WriteWouldBlock(c)
    BY <1>7, SMT DEF WriteWouldBlock, Writing, peerVars, actorVars
  <1>8. CASE WriteFails(c)
    BY <1>8, CloseStep DEF WriteFails
  <1>9. CASE LoopDone(c)
    BY <1>9, SMT DEF LoopDone, Writing, EndLoop, peerVars, flagVars
  <1>10. CASE LoopCloses(c)
    <2>1. c \notin reset => c \in fin /\ unread[c] = 0
      BY <1>10, SMT DEF LoopCloses, Writing
    <2> QED BY <1>10, <2>1, CloseStep DEF LoopCloses
  <1> QED BY <1>1, <1>2, <1>3, <1>4, <1>5, <1>6, <1>7, <1>8, <1>9, <1>10 DEF Connection

LEMMA InvNext == IInv /\ [Next]_vars => IInv'
PROOF
  <1> SUFFICES ASSUME IInv, [Next]_vars
               PROVE  IInv'
    OBVIOUS
  <1>1. CASE Peer
    BY <1>1, PeerStep
  <1>2. CASE Open \/ Listener \/ AcceptFails
    BY <1>2, ListenerStep
  <1>3. CASE PollRun
    BY <1>3, PollStep
  <1>4. CASE \E f \in Fd : BeginLoop(f)
    BY <1>4, BeginLoopStep
  <1>5. CASE \E c \in Conn : Connection(c)
    BY <1>5, ConnectionStep
  <1>6. CASE UNCHANGED vars
    BY <1>6, SMT
       DEF vars, peerVars, flagVars, actorVars, IInv, TypeOK, Orderly, Announced, Noticed,
           ReadFirst, ClosedRead
  <1> QED BY <1>1, <1>2, <1>3, <1>4, <1>5, <1>6 DEF Next, Thread

LEMMA Invariance == SafeSpec => []IInv
PROOF BY InvInit, InvNext, PTL DEF SafeSpec

(* Counts of chunks, flags and mailboxes stay what they should be: no buffer *)
(* has a negative size or more than fits, whatever write() took.             *)
THEOREM TypeCorrect == SafeSpec => []TypeOK
PROOF
  <1>1. IInv => TypeOK
    BY DEF IInv
  <1> QED BY <1>1, Invariance, PTL

(* A connection that was not reset closes only after it has read everything  *)
(* that came before its peer's end (InboundConnection's loop).                *)
THEOREM DataReadBeforeClose == SafeSpec => []ReadBeforeClose
PROOF
  <1>1. IInv => ReadBeforeClose
    BY DEF IInv, ReadBeforeClose, In, Orderly, ClosedRead
  <1> QED BY <1>1, Invariance, PTL

-----------------------------------------------------------------------------
(* Edges: whatever an observer has to do, some flag of it or epoll will tell. *)

Seen(flag, f) == f \in epoll_ready \/ flag \in to_write_[f] \/ flag \in flags_[f]

Owed(f) == to_write_[f] # {} => yields[f] > 0

(* A connection that is not open has no flags, and before that no replies. *)
Fresh(c) ==
  /\ stage[c] # "open" =>
       /\ flags_[c] = {} /\ to_write_[c] = {} /\ yields[c] = 0
       /\ running # c
  /\ stage[c] \in {"none", "backlog", "created"} => unsent[c] = 0

(* What a loop() that is over has left of the local flags. *)
Handled(c) ==
  /\ running # c \/ step = "write" => "Read" \notin flags_[c] /\ "Error" \notin flags_[c]
  /\ running # c => "Close" \notin flags_[c] /\ ("Write" \in flags_[c] => write_buf_[c] = 0)

Full(c) == c \in nospace => unsent[c] = SendBuffer

Told(c) ==
  stage[c] = "open" =>
    /\ unread[c] > 0 => Seen("Read", c)
    /\ c \in fin \union reset => Seen("Close", c)
    /\ Seen("Write", c) \/ Seen("Close", c) \/ c \in nospace

ListenerHandled ==
  running # Listening => "Read" \notin flags_[Listening] /\ "Close" \notin flags_[Listening]

ListenerTold ==
  listener = "listening" /\ In("backlog") # {} =>
    Seen("Read", Listening) \/ "Close" \in flags_[Listening]

Unopened == listener = "unopened" => \A c \in Conn : stage[c] = "none"

ConnInv(c) == Owed(c) /\ Fresh(c) /\ Handled(c) /\ Full(c) /\ Told(c)

ListenerInv == Owed(Listening) /\ ListenerHandled /\ ListenerTold /\ Unopened

EdgeInv ==
  /\ TypeOK
  /\ epoll_ready \subseteq Subscribed
  /\ \A c \in Conn : ConnInv(c)
  /\ ListenerInv

LEMMA EdgeInit == Init => EdgeInv
PROOF
  <1> SUFFICES ASSUME Init
               PROVE  EdgeInv
    OBVIOUS
  <1>1. TypeOK
    BY InvInit DEF IInv
  <1>2. \A c \in Conn : ConnInv(c)
    BY ConstantsAssumption, SMT DEF Init, ConnInv, Owed, Fresh, Handled, Full, Told
  <1>3. ListenerInv
    BY ConstantsAssumption, SMT
       DEF Init, ListenerInv, Owed, ListenerHandled, ListenerTold, Unopened
  <1> QED BY <1>1, <1>2, <1>3, SMT DEF EdgeInv, Init

LEMMA EdgePeer ==
  ASSUME NEW p \in Conn, EdgeInv, TypeOK',
         Connect(p) \/ SendData(p) \/ ShutDown(p) \/ Reset(p) \/ TakeReply(p)
  PROVE  EdgeInv'
PROOF
  <1>1. /\ UNCHANGED <<to_write_, flags_, yields, write_buf_, running, step, listener>>
        /\ \A f \in Fd : f \in epoll_ready => f \in epoll_ready'
        /\ \A c \in Conn : c # p =>
             /\ stage'[c] = stage[c] /\ unread'[c] = unread[c] /\ unsent'[c] = unsent[c]
             /\ c \in fin' <=> c \in fin
             /\ c \in reset' <=> c \in reset
             /\ c \in nospace' <=> c \in nospace
    BY ConstantsAssumption, SMT
       DEF EdgeInv, TypeOK, Connect, SendData, ShutDown, Reset, TakeReply, Wake, peerVars,
           flagVars, actorVars
  <1>2. \A c \in Conn : c # p => ConnInv(c)'
    BY <1>1, SMT DEF EdgeInv, ConnInv, Owed, Fresh, Handled, Full, Told, Seen
  <1>3. ConnInv(p)'
    <2>1. CASE Connect(p)
      BY <2>1, <1>1, SMT
         DEF EdgeInv, TypeOK, ConnInv, Owed, Fresh, Handled, Full, Told, Seen, Connect, peerVars,
             flagVars
    <2>2. CASE SendData(p)
      BY <2>2, <1>1, SMT
         DEF EdgeInv, TypeOK, ConnInv, Owed, Fresh, Handled, Full, Told, Seen, SendData, Wake,
             Subscribed, In, flagVars, actorVars
    <2>3. CASE ShutDown(p)
      BY <2>3, <1>1, SMT
         DEF EdgeInv, TypeOK, ConnInv, Owed, Fresh, Handled, Full, Told, Seen, ShutDown, Wake,
             Subscribed, In, flagVars, actorVars
    <2>4. CASE Reset(p)
      BY <2>4, <1>1, SMT
         DEF EdgeInv, TypeOK, ConnInv, Owed, Fresh, Handled, Full, Told, Seen, Reset, Wake,
             Subscribed, In, flagVars, actorVars
    <2>5. CASE TakeReply(p)
      BY <2>5, <1>1, SMT
         DEF EdgeInv, TypeOK, ConnInv, Owed, Fresh, Handled, Full, Told, Seen, TakeReply, Wake,
             Subscribed, In, flagVars, actorVars
    <2> QED BY <2>1, <2>2, <2>3, <2>4, <2>5
  <1>4. ListenerInv'
    <2>1. CASE Connect(p)
      BY <2>1, <1>1, SMT
         DEF EdgeInv, ListenerInv, Owed, ListenerHandled, ListenerTold, Seen, Unopened, Connect,
             Wake, Subscribed, Given
    <2>2. CASE ~Connect(p)
      <3>1. UNCHANGED stage
        BY <2>2 DEF SendData, ShutDown, Reset, TakeReply, actorVars
      <3> QED
        BY <1>1, <3>1, SMT
           DEF EdgeInv, ListenerInv, Owed, ListenerHandled, ListenerTold, Seen, Unopened, In
    <2> QED BY <2>1, <2>2
  <1>5. (epoll_ready \subseteq Subscribed)'
    <2>1. epoll_ready' \subseteq epoll_ready \union Subscribed
      BY SMT DEF Connect, SendData, ShutDown, Reset, TakeReply, Wake
    <2>2. Subscribed \subseteq Subscribed'
      <3>1. \A c \in Conn : stage[c] = "open" => stage'[c] = "open"
        BY <1>1, SMT DEF Connect, SendData, ShutDown, Reset, TakeReply, actorVars
      <3> QED BY <1>1, <3>1, SMT DEF Subscribed, In, Given
    <2> QED BY <2>1, <2>2, SMT DEF EdgeInv
  <1> QED BY <1>2, <1>3, <1>4, <1>5, SMT DEF EdgeInv

(* A poll turns what epoll has to tell into flags, and a Yield for them. *)
LEMMA EdgePoll ==
  ASSUME EdgeInv, TypeOK', PollRun
  PROVE  EdgeInv'
PROOF
  <1>1. ASSUME NEW f \in Fd, Owed(f)
        PROVE  Owed(f)'
    BY <1>1, SMT DEF EdgeInv, TypeOK, PollRun, Owed
  <1>2. ASSUME NEW c \in Conn, ConnInv(c)
        PROVE  ConnInv(c)'
    <2>1. c # Listening /\ c \in Fd
      BY ConstantsAssumption
    <2>2. UNCHANGED <<unread, unsent, fin, reset, flags_, listener, stage, write_buf_, running,
                      step>>
      BY DEF PollRun
    <2>3. /\ c \in epoll_ready => to_write_'[c] = to_write_[c] \union Conditions(c)
          /\ c \notin epoll_ready => to_write_'[c] = to_write_[c] /\ yields'[c] = yields[c]
          /\ nospace' = nospace \union {p \in epoll_ready \intersect Conn : "Write" \notin Conditions(p)}
      BY <2>1, SMT DEF PollRun
    <2>4. Fresh(c)'
      <3>1. stage[c] # "open" => c \notin epoll_ready
        BY <2>1, SMT DEF EdgeInv, Subscribed, In, Given
      <3> QED BY <1>2, <2>2, <2>3, <3>1, SMT DEF ConnInv, Fresh
    <2>5. Handled(c)'
      BY <1>2, <2>2, SMT DEF ConnInv, Handled
    <2>6. Full(c)'
      <3>1. "Write" \notin Conditions(c) => unsent[c] >= SendBuffer
        BY <2>1, ConstantsAssumption, SMT DEF Conditions, Given, EdgeInv, TypeOK
      <3>2. unsent[c] \in 0..SendBuffer /\ SendBuffer \in Nat
        BY ConstantsAssumption, SMT DEF EdgeInv, TypeOK
      <3> QED BY <1>2, <2>2, <2>3, <3>1, <3>2, SMT DEF ConnInv, Full
    <2>7. Told(c)'
      <3>1. /\ unread[c] > 0 => "Read" \in Conditions(c)
            /\ c \in fin \union reset => "Close" \in Conditions(c)
        BY <2>1, SMT DEF Conditions, Given
      <3> QED BY <1>2, <2>2, <2>3, <3>1, SMT DEF ConnInv, Told, Seen
    <2> QED BY <1>1, <1>2, <2>1, <2>4, <2>5, <2>6, <2>7 DEF ConnInv
  <1>3. ListenerInv'
    <2>1. Listening \in Fd
      OBVIOUS
    <2>2. ListenerHandled'
      BY SMT DEF EdgeInv, ListenerInv, ListenerHandled, PollRun
    <2>3. ListenerTold'
      BY <2>1, SMT DEF EdgeInv, ListenerInv, ListenerTold, PollRun, Seen, Conditions, Given, In
    <2>4. Unopened'
      BY SMT DEF EdgeInv, ListenerInv, Unopened, PollRun
    <2> QED BY <1>1, <2>1, <2>2, <2>3, <2>4, SMT DEF EdgeInv, ListenerInv
  <1> QED BY <1>2, <1>3, SMT DEF EdgeInv, PollRun

(* The loop begins with all the flags that were written. *)
LEMMA EdgeBeginLoop ==
  ASSUME NEW f \in Fd, EdgeInv, TypeOK', BeginLoop(f)
  PROVE  EdgeInv'
PROOF
  <1>1. /\ running = NoFd /\ running' = f /\ NoFd \notin Fd
        /\ to_write_'[f] = {} /\ flags_'[f] = Flush(flags_[f], to_write_[f])
        /\ \A g \in Fd : g # f => /\ to_write_'[g] = to_write_[g]
                                  /\ flags_'[g] = flags_[g] /\ yields'[g] = yields[g]
        /\ UNCHANGED <<peerVars, epoll_ready, listener, stage, write_buf_>>
    BY ConstantsAssumption, SMT DEF BeginLoop, EdgeInv, TypeOK
  <1>2. step' = IF f = Listening THEN "accept" ELSE "read"
    BY DEF BeginLoop
  <1>3. /\ "Read" \in flags_[f] \union to_write_[f] => "Read" \in flags_'[f]
        /\ "Close" \in flags_[f] \union to_write_[f] => "Close" \in flags_'[f]
        /\ "Write" \in flags_[f] \union to_write_[f] => {"Write", "Close"} \intersect flags_'[f] # {}
    BY <1>1, SMT DEF Flush
  <1>4. \A g \in Fd : Owed(g) => Owed(g)'
    BY <1>1, SMT DEF Owed
  <1>5. ASSUME NEW c \in Conn, ConnInv(c)
        PROVE  ConnInv(c)'
    <2>1. c \in Fd /\ c # Listening
      BY ConstantsAssumption
    <2>2. Fresh(c)'
      <3>1. c = f => yields[c] > 0
        BY DEF BeginLoop
      <3> QED BY <1>1, <1>5, <2>1, <3>1, SMT DEF ConnInv, Fresh, peerVars, EdgeInv, TypeOK
    <2>3. Handled(c)'
      BY <1>1, <1>2, <1>5, <2>1, SMT DEF ConnInv, Handled
    <2>4. Full(c)'
      BY <1>1, <1>5, SMT DEF ConnInv, Full, peerVars
    <2>5. Told(c)'
      BY <1>1, <1>3, <1>5, <2>1, SMT DEF ConnInv, Told, Seen, peerVars
    <2> QED BY <1>4, <1>5, <2>1, <2>2, <2>3, <2>4, <2>5 DEF ConnInv
  <1>6. ListenerInv'
    <2>1. ListenerHandled'
      BY <1>1, SMT DEF EdgeInv, ListenerInv, ListenerHandled
    <2>2. ListenerTold'
      BY <1>1, <1>3, SMT DEF EdgeInv, ListenerInv, ListenerTold, Seen, In
    <2>3. Unopened'
      BY <1>1, SMT DEF EdgeInv, ListenerInv, Unopened
    <2> QED BY <1>4, <2>1, <2>2, <2>3, SMT DEF EdgeInv, ListenerInv
  <1>7. (epoll_ready \subseteq Subscribed)'
    BY <1>1, SMT DEF EdgeInv, Subscribed, In, Given
  <1> QED BY <1>5, <1>6, <1>7 DEF EdgeInv

(* The listener gives its Read flag up only when nobody waits. *)
LEMMA EdgeListener ==
  ASSUME EdgeInv, TypeOK', Open \/ Listener \/ AcceptFails
  PROVE  EdgeInv'
PROOF
  <1> USE ConstantsAssumption
  <1> DEFINE Same(c) == /\ to_write_'[c] = to_write_[c] /\ flags_'[c] = flags_[c]
                        /\ yields'[c] = yields[c]
                        /\ c \in epoll_ready' <=> c \in epoll_ready
                        /\ running' = c <=> running = c
                        /\ stage'[c] = "open" <=> stage[c] = "open"
                        /\ stage'[c] \in {"none", "backlog", "created"}
                             => stage[c] \in {"none", "backlog", "created"}
                        /\ running = c => step' = step
  <1>1. /\ UNCHANGED <<peerVars, write_buf_>>
        /\ \A c \in Conn : Same(c)
    <2>1. CASE Open
      BY <2>1, SMT DEF Open, flagVars
    <2>2. CASE Accepted
      BY <2>2, SMT DEF Accepted, Accepting, EndLoop, flagVars
    <2>3. CASE AcceptWouldBlock
      BY <2>3, SMT DEF AcceptWouldBlock, actorVars, EdgeInv, TypeOK
    <2>4. CASE StopListening
      BY <2>4, SMT DEF StopListening, Accepting, Forget, EndLoop, EdgeInv, TypeOK
    <2>5. CASE \E c \in Conn : Accept(c)
      BY <2>5, SMT DEF Accept, flagVars, EdgeInv, TypeOK
    <2>6. CASE AcceptFails
      BY <2>6, SMT DEF AcceptFails, actorVars, EdgeInv, TypeOK
    <2> QED BY <2>1, <2>2, <2>3, <2>4, <2>5, <2>6 DEF Listener
  <1>2. ASSUME NEW c \in Conn, ConnInv(c), Same(c)
        PROVE  ConnInv(c)'
    <2>1. Owed(c)' /\ Full(c)'
      BY <1>1, <1>2, SMT DEF ConnInv, Owed, Full, peerVars
    <2>2. Fresh(c)' /\ Handled(c)'
      BY <1>1, <1>2, SMT DEF ConnInv, Fresh, Handled, peerVars
    <2>3. Told(c)'
      BY <1>1, <1>2, SMT DEF ConnInv, Told, Seen, peerVars
    <2> QED BY <2>1, <2>2, <2>3 DEF ConnInv
  <1>3. ListenerInv' /\ (epoll_ready \subseteq Subscribed)'
    <2> USE DEF EdgeInv, ListenerInv, Owed, ListenerHandled, ListenerTold, Seen, Unopened
    <2>1. CASE Open
      BY <2>1, SMT DEF Open, flagVars, In, Subscribed, Given
    <2>2. CASE Accepted
      BY <2>2, SMT DEF Accepted, Accepting, EndLoop, flagVars, In, Subscribed, Given
    <2>3. CASE AcceptWouldBlock
      BY <2>3, SMT DEF AcceptWouldBlock, Accepting, actorVars, In, Subscribed, Given, TypeOK
    <2>4. CASE StopListening
      BY <2>4, SMT DEF StopListening, Accepting, Forget, EndLoop, In, Subscribed, Given, TypeOK
    <2>5. CASE \E c \in Conn : Accept(c)
      BY <2>5, SMT DEF Accept, Accepting, flagVars, In, Subscribed, Given, TypeOK
    <2>6. CASE AcceptFails
      BY <2>6, SMT DEF AcceptFails, Accepting, actorVars, In, Subscribed, Given, TypeOK
    <2> QED BY <2>1, <2>2, <2>3, <2>4, <2>5, <2>6 DEF Listener
  <1> HIDE DEF Same
  <1> QED BY <1>1, <1>2, <1>3 DEF EdgeInv

(* A connection's own step leaves the others and the listener alone. *)
LEMMA EdgeOthers ==
  ASSUME NEW c \in Conn, EdgeInv, TypeOK', ConnInv(c)',
         running = c \/ running' = running,
         c \in epoll_ready' => c \in Subscribed',
         running' \in {c, NoFd} \/ running' = running,
         UNCHANGED listener,
         running = c \/ UNCHANGED step,
         stage[c] \in {"created", "open"}, stage'[c] \in {"open", "closed"},
         \A g \in Fd : g # c =>
           /\ to_write_'[g] = to_write_[g] /\ flags_'[g] = flags_[g] /\ yields'[g] = yields[g]
           /\ g \in epoll_ready' <=> g \in epoll_ready,
         \A p \in Conn : p # c =>
           /\ stage'[p] = stage[p] /\ unread'[p] = unread[p] /\ unsent'[p] = unsent[p]
           /\ write_buf_'[p] = write_buf_[p]
           /\ p \in fin' <=> p \in fin
           /\ p \in reset' <=> p \in reset
           /\ p \in nospace' <=> p \in nospace
  PROVE  EdgeInv'
PROOF
  <1> USE ConstantsAssumption
  <1>1. ASSUME NEW p \in Conn, p # c
        PROVE  ConnInv(p)'
    <2>1. ConnInv(p)
      BY DEF EdgeInv
    <2>2. Owed(p)' /\ Full(p)'
      BY <1>1, <2>1, SMT DEF ConnInv, Owed, Full
    <2>3. Fresh(p)' /\ Handled(p)'
      BY <1>1, <2>1, SMT DEF ConnInv, Fresh, Handled
    <2>4. Told(p)'
      BY <1>1, <2>1, SMT DEF ConnInv, Told, Seen
    <2> QED BY <2>2, <2>3, <2>4 DEF ConnInv
  <1>2. ListenerInv'
    <2>1. In("backlog")' = In("backlog")
      BY SMT DEF In
    <2> QED
      BY <2>1, SMT
         DEF EdgeInv, ListenerInv, Owed, ListenerHandled, ListenerTold, Seen, Unopened
  <1>3. (epoll_ready \subseteq Subscribed)'
    BY SMT DEF EdgeInv, TypeOK, Subscribed, In, Given
  <1> QED BY <1>1, <1>2, <1>3 DEF EdgeInv

LEMMA EdgeClose ==
  ASSUME NEW c \in Conn, EdgeInv, TypeOK', running = c, stage[c] = "open", Close(c)
  PROVE  EdgeInv'
PROOF
  <1> USE ConstantsAssumption
  <1>1. ConnInv(c)
    BY DEF EdgeInv
  <1>2. ConnInv(c)'
    BY <1>1, SMT
       DEF ConnInv, Owed, Fresh, Handled, Full, Told, Close, Forget, EndLoop, peerVars, EdgeInv,
           TypeOK
  <1> QED BY <1>2, EdgeOthers, SMT DEF Close, Forget, EndLoop, peerVars, EdgeInv, TypeOK

LEMMA EdgeConnection ==
  ASSUME NEW c \in Conn, EdgeInv, TypeOK', Connection(c)
  PROVE  EdgeInv'
PROOF
  <1> USE ConstantsAssumption
  <1>1. ConnInv(c) /\ TypeOK
    BY DEF EdgeInv
  <1>2. running = c => stage[c] = "open"
    BY <1>1, SMT DEF ConnInv, Fresh
  <1>3. CASE StartUp(c)
    <2>1. c \in epoll_ready'
      <3>1. "Write" \in Conditions(c)
        BY <1>1, <1>3, SMT DEF StartUp, ConnInv, Fresh, Conditions, Given
      <3> QED BY <1>3, <3>1, SMT DEF StartUp, Given
    <2>2. ConnInv(c)'
      BY <1>1, <1>3, <2>1, SMT
         DEF StartUp, ConnInv, Owed, Fresh, Handled, Full, Told, Seen, TypeOK, peerVars, flagVars
    <2> QED
      BY <1>3, <2>1, <2>2, EdgeOthers, SMT
         DEF StartUp, Given, TypeOK, Subscribed, In, EdgeInv, peerVars, flagVars
  <1>4. CASE ReadChunk(c)
    <2>1. ConnInv(c)'
      BY <1>1, <1>2, <1>4, SMT
         DEF ReadChunk, Reading, CanRead, ConnInv, Owed, Fresh, Handled, Full, Told, Seen, TypeOK
    <2> QED
      BY <1>2, <1>4, <2>1, EdgeOthers, SMT
         DEF ReadChunk, Reading, TypeOK, Subscribed, In, EdgeInv
  <1>5. CASE ReadNothing(c)
    <2>1. ConnInv(c)'
      BY <1>1, <1>2, <1>5, SMT
         DEF ReadNothing, Reading, CanRead, Given, ConnInv, Owed, Fresh, Handled, Full, Told, Seen,
             TypeOK, peerVars
    <2> QED
      BY <1>2, <1>5, <2>1, EdgeOthers, SMT
         DEF ReadNothing, Reading, TypeOK, Subscribed, In, EdgeInv, peerVars
  <1>6. CASE ReadFails(c)
    BY <1>2, <1>6, EdgeClose DEF ReadFails, Reading
  <1>7. CASE ReadDone(c)
    <2>1. ConnInv(c)'
      BY <1>1, <1>2, <1>7, SMT
         DEF ReadDone, Reading, CanRead, ConnInv, Owed, Fresh, Handled, Full, Told, Seen, TypeOK,
             peerVars, flagVars
    <2> QED
      BY <1>2, <1>7, <2>1, EdgeOthers, SMT
         DEF ReadDone, Reading, TypeOK, Subscribed, In, EdgeInv, peerVars, flagVars
  <1>8. CASE Write(c)
    <2> DEFINE written == Min({write_buf_[c], SendBuffer - unsent[c]})
    <2>1. SendBuffer - unsent[c] \in Nat /\ write_buf_[c] \in Nat /\ unsent[c] \in 0..SendBuffer
      BY <1>1, SMT DEF TypeOK
    <2>2. written \in Nat /\ written <= write_buf_[c] /\ written <= SendBuffer - unsent[c]
      BY <2>1, MinOfTwo
    <2>3. /\ unsent' = [unsent EXCEPT ![c] = @ + written]
          /\ write_buf_' = [write_buf_ EXCEPT ![c] = @ - written]
          /\ unsent[c] < SendBuffer
          /\ UNCHANGED <<arrived, unread, nospace, fin, reset, epoll_ready, flagVars, listener,
                         stage, yields, running, step>>
          /\ running = c
      BY <1>8 DEF Write, Writing
    <2> HIDE DEF written
    <2>4. ConnInv(c)'
      BY <1>1, <1>2, <2>1, <2>2, <2>3, SMT
         DEF ConnInv, Owed, Fresh, Handled, Full, Told, Seen, TypeOK, flagVars
    <2> QED
      BY <1>2, <2>3, <2>4, EdgeOthers, SMT DEF TypeOK, Subscribed, In, EdgeInv, flagVars
  <1>9. CASE WriteWouldBlock(c)
    <2>1. ConnInv(c)'
      BY <1>1, <1>2, <1>9, SMT
         DEF WriteWouldBlock, Writing, CanWrite, ConnInv, Owed, Fresh, Handled, Full, Told, Seen,
             TypeOK, actorVars
    <2> QED
      BY <1>2, <1>9, <2>1, EdgeOthers, SMT
         DEF WriteWouldBlock, Writing, TypeOK, Subscribed, In, EdgeInv, actorVars
  <1>10. CASE WriteFails(c)
    BY <1>2, <1>10, EdgeClose DEF WriteFails, Writing
  <1>11. CASE LoopDone(c)
    <2>1. write_buf_[c] \in Nat
      BY <1>1 DEF TypeOK
    <2>2. ConnInv(c)'
      BY <1>1, <1>2, <1>11, <2>1, SMT
         DEF LoopDone, Writing, CanWrite, EndLoop, ConnInv, Owed, Fresh, Handled, Full, Told, Seen,
             TypeOK, peerVars, flagVars
    <2> QED
      BY <1>2, <1>11, <2>2, EdgeOthers, SMT
         DEF LoopDone, Writing, EndLoop, TypeOK, Subscribed, In, EdgeInv, peerVars, flagVars
  <1>12. CASE LoopCloses(c)
    BY <1>2, <1>12, EdgeClose DEF LoopCloses, Writing
  <1> QED
    BY <1>3, <1>4, <1>5, <1>6, <1>7, <1>8, <1>9, <1>10, <1>11, <1>12 DEF Connection

LEMMA EdgeNext == IInv /\ EdgeInv /\ [Next]_vars => EdgeInv'
PROOF
  <1> SUFFICES ASSUME IInv, EdgeInv, [Next]_vars
               PROVE  EdgeInv'
    OBVIOUS
  <1>1. TypeOK'
    BY InvNext DEF IInv
  <1>2. CASE Peer
    BY <1>1, <1>2, EdgePeer DEF Peer
  <1>3. CASE Open \/ Listener \/ AcceptFails
    BY <1>1, <1>3, EdgeListener
  <1>4. CASE PollRun
    BY <1>1, <1>4, EdgePoll
  <1>5. CASE \E f \in Fd : BeginLoop(f)
    BY <1>1, <1>5, EdgeBeginLoop
  <1>6. CASE \E c \in Conn : Connection(c)
    BY <1>1, <1>6, EdgeConnection
  <1>7. CASE UNCHANGED vars
    BY <1>1, <1>7, SMT
       DEF vars, peerVars, flagVars, actorVars, EdgeInv, ConnInv, ListenerInv, Owed, Fresh,
           Handled, Full, Told, Seen, ListenerHandled, ListenerTold, Unopened, Subscribed, In, Given
  <1> QED BY <1>2, <1>3, <1>4, <1>5, <1>6, <1>7 DEF Next, Thread

(* A connection asleep has nothing to read, nothing to notice, and replies   *)
(* only while the send buffer is full and the kernel was asked for a wakeup. *)
LEMMA EdgesSuffice == EdgeInv => NothingLeftBehind
PROOF
  <1> SUFFICES ASSUME EdgeInv
               PROVE  NothingLeftBehind
    OBVIOUS
  <1> USE ConstantsAssumption
  <1>1. ASSUME Asleep(Listening)
        PROVE  In("backlog") = {}
    <2>1. listener = "listening"
      BY <1>1, SMT DEF Asleep, Subscribed, In, Given
    <2> QED
      BY <1>1, <2>1, SMT
         DEF Asleep, EdgeInv, ListenerInv, Owed, ListenerHandled, ListenerTold, Seen, TypeOK
  <1>2. ASSUME NEW c \in Conn, Asleep(c)
        PROVE  /\ unread[c] = 0 /\ c \notin fin \union reset
               /\ write_buf_[c] > 0 => unsent[c] > 0 /\ c \in nospace
    <2>1. stage[c] = "open" /\ to_write_[c] = {} /\ running # c /\ c \notin epoll_ready
      BY <1>2, SMT DEF Asleep, Subscribed, In, Given, EdgeInv, ConnInv, Owed, TypeOK
    <2>2. unread[c] \in Nat
      BY DEF EdgeInv, TypeOK
    <2> QED BY <2>1, <2>2, SMT DEF EdgeInv, ConnInv, Handled, Full, Told, Seen
  <1> QED BY <1>1, <1>2 DEF NothingLeftBehind

(* Edge-triggered flags leave nothing behind, however system calls of the    *)
(* proxy and steps of its peers interleave.                                  *)
THEOREM NothingIsLeft == SafeSpec => []NothingLeftBehind
PROOF
  <1>1. Init => IInv /\ EdgeInv
    BY InvInit, EdgeInit
  <1>2. IInv /\ EdgeInv /\ [Next]_vars => IInv' /\ EdgeInv'
    BY InvNext, EdgeNext
  <1> QED BY <1>1, <1>2, EdgesSuffice, PTL DEF SafeSpec
==============================================================================

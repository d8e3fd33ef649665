------------------------------- MODULE ByteFlow -------------------------------
(***************************************************************************)
(* Byte flows: a source, a chain of flows and a sink, each with a buffer in  *)
(* front of it.  wakeup and close_input go down the chain as nested calls,    *)
(* which the stack calls holds; each turn of a flow's loop is a step.  The    *)
(* flows are AesCtrByteFlow and GzipByteFlow, encoding or decoding.          *)
(***************************************************************************)
EXTENDS Integers, Sequences, SequencesExt

CONSTANTS
  Pipelines,                \* the chains of flows: "aes", "encode", "decode"
  MaxFlowBytes,             \* bound: bytes given to the source
  MaxOutput                 \* max_output_size_ of the GzipByteFlows

ASSUME ByteFlowAssumption == MaxFlowBytes \in Nat /\ MaxOutput \in Nat

VARIABLES
  pipeline,
  flow,                     \* flow[f]: the fields of flow f
  gzip,                     \* gzip[f]: gzip_ of flow f
  input,                    \* input[f]: input_ of flow f, or of the sink: chunks of bytes
  sink,                     \* active_ and status_ of the sink
  calls,                    \* the calls under way, the innermost last
  source                    \* what its user has done

byteFlowVars == <<pipeline, flow, gzip, input, sink, calls, source>>

Flow   == 1..Len(pipeline)
SinkAt == Len(pipeline) + 1

(* The end of a compressed stream; the other bytes are their numbers. *)
EndMark == 0
Garbage == MaxFlowBytes + 1

ByteFlowInit ==
  /\ pipeline \in Pipelines
  /\ flow = [f \in Flow |-> [stop_flag_ |-> FALSE, is_input_active_ |-> TRUE,
                             waiting_flag_ |-> FALSE, need_size_ |-> 0]]
  /\ gzip = [f \in Flow |-> [left |-> 0, held |-> <<>>, ended |-> FALSE, closed |-> FALSE,
                             total |-> 0]]
  /\ input = [f \in 1..SinkAt |-> <<>>]
  /\ sink = [active_ |-> TRUE, status |-> "none"]
  /\ calls = <<>>
  /\ source = [given |-> 0, ended |-> FALSE, woken |-> FALSE, closed |-> "no"]

Bytes(f)     == FlattenSeq(input[f])
ReadSize(f)  == Len(Bytes(f))

Top       == Last(calls)
Calling(at) == calls # <<>> /\ Top.at = at
Return    == Front(calls)
Call(f, at, status) == [flow |-> f, at |-> at, status |-> status]

(* finish: the next part is told, once; parent_ is nullptr from then on. *)
Finished(f, fs) == [fs EXCEPT ![f].stop_flag_ = TRUE, ![f].need_size_ = 0]
TellParent(f, status) ==
  IF flow[f].stop_flag_ THEN <<>> ELSE <<Call(f + 1, "close", status)>>

(* The first n bytes of the first chunk are read. *)
ConfirmRead(chunks, n) ==
  LET rest == SubSeq(Head(chunks), n + 1, Len(Head(chunks)))
  IN IF rest = <<>> THEN Tail(chunks) ELSE <<rest>> \o Tail(chunks)

-----------------------------------------------------------------------------
(* The user of the source *)

Quiet == calls = <<>>

(* A slice of n bytes is appended to the buffer: it gets a chunk of its own or *)
(* fits in the last one.                                                     *)
AppendInput(n) ==
  /\ Quiet /\ source.closed = "no" /\ ~source.ended
  /\ source.given + n <= MaxFlowBytes
  /\ LET slice == [i \in 1..n |-> source.given + i] IN
       \/ input' = [input EXCEPT ![1] = Append(@, slice)]
       \/ /\ input[1] # <<>>
          /\ input' = [input EXCEPT ![1] = Append(Front(@), Last(@) \o slice)]
  /\ source' = [source EXCEPT !.given = @ + n, !.woken = FALSE]
  /\ UNCHANGED <<pipeline, flow, gzip, sink, calls>>

(* The end of a compressed stream, and perhaps a byte behind it. *)
AppendEnd(rest) ==
  /\ Quiet /\ source.closed = "no" /\ pipeline[1] = "decode" /\ ~source.ended
  /\ input' = [input EXCEPT ![1] = Append(@, <<EndMark>> \o rest)]
  /\ source' = [source EXCEPT !.ended = TRUE, !.woken = FALSE]
  /\ UNCHANGED <<pipeline, flow, gzip, sink, calls>>

WakeupSource ==
  /\ Quiet /\ source.closed = "no"
  /\ calls' = <<Call(1, "wakeup", "ok")>>
  /\ source' = [source EXCEPT !.woken = TRUE]
  /\ UNCHANGED <<pipeline, flow, gzip, input, sink>>

CloseSource(status) ==
  /\ Quiet /\ source.closed = "no"
  /\ source' = [source EXCEPT !.closed = status]
  /\ calls' = <<Call(1, "close", status)>>
  /\ UNCHANGED <<pipeline, flow, gzip, input, sink>>

-----------------------------------------------------------------------------
(* ByteFlowBaseCommon *)

AtFlow(at) == Calling(at) /\ Top.flow \in Flow

CloseInput ==
  /\ AtFlow("close")
  /\ LET f == Top.flow IN
       IF Top.status = "error"
         THEN /\ flow' = Finished(f, flow)
              /\ calls' = Return \o TellParent(f, "error")
         ELSE /\ flow' = [flow EXCEPT ![f].is_input_active_ = FALSE]
              /\ calls' = Append(Return, Call(f, "wakeup", "ok"))
  /\ UNCHANGED <<pipeline, gzip, input, sink, source>>

(* Nothing is done by a flow that has stopped; one that waits for the end of   *)
(* its input finishes at it; the others go through their loop.               *)
Wakeup ==
  /\ AtFlow("wakeup")
  /\ LET f == Top.flow IN
       CASE flow[f].stop_flag_ ->
              /\ calls' = Return
              /\ UNCHANGED flow
         [] ~flow[f].stop_flag_ /\ flow[f].waiting_flag_ ->
              IF flow[f].is_input_active_
                THEN /\ calls' = Return
                     /\ UNCHANGED flow
                ELSE /\ calls' = Return \o TellParent(f, "ok")
                     /\ flow' = Finished(f, flow)
         [] OTHER ->
              /\ calls' = Append(Return, Call(f, "loop", "ok"))
              /\ UNCHANGED flow
  /\ UNCHANGED <<pipeline, gzip, input, sink, source>>

(* can_read, as no one sets watermarks; can_write is then always true. *)
CanRead(f) == ~flow[f].is_input_active_ \/ ReadSize(f) >= flow[f].need_size_

(* The loop is left, and on_output_updated wakes the parent. *)
LeaveLoop ==
  /\ AtFlow("loop")
  /\ LET f == Top.flow IN
       /\ flow[f].stop_flag_ \/ ~CanRead(f)
       /\ calls' = IF flow[f].stop_flag_ THEN Return
                   ELSE Append(Return, Call(f + 1, "wakeup", "ok"))
  /\ UNCHANGED <<pipeline, flow, gzip, input, sink, source>>

InLoop(kinds) ==
  /\ AtFlow("loop")
  /\ ~flow[Top.flow].stop_flag_ /\ CanRead(Top.flow)
  /\ pipeline[Top.flow] \in kinds

(* Mutant: one byte more. *)
NeedTwoMore(f, ins) == Len(FlattenSeq(ins[f])) + 2

(* What a turn of the loop that returned false leaves as need_size_. *)
NeedMore(f, ins) == Len(FlattenSeq(ins[f])) + 1

-----------------------------------------------------------------------------
(* AesCtrByteFlow::loop: the first chunk is encrypted in place. *)

AesLoop ==
  /\ InLoop({"aes"})
  /\ LET f     == Top.flow
         ready == input[f] # <<>>
         ins   == IF ready THEN [input EXCEPT ![f] = Tail(@),
                                              ![f + 1] = Append(@, Head(input[f]))]
                  ELSE input
         over  == ~flow[f].is_input_active_
         fs    == [flow EXCEPT ![f].need_size_ = IF ready THEN 0 ELSE NeedMore(f, ins)] IN
       /\ input' = ins
       /\ flow' = IF over THEN Finished(f, fs) ELSE fs
       /\ calls' = IF over THEN calls \o TellParent(f, "ok") ELSE calls
  /\ UNCHANGED <<pipeline, gzip, sink, source>>

-----------------------------------------------------------------------------
(* GzipByteFlow::loop *)

(* There is nothing to run with. *)
GzipWaits ==
  /\ InLoop({"encode", "decode"})
  /\ LET f == Top.flow IN
       /\ gzip[f].left = 0 /\ input[f] = <<>> /\ flow[f].is_input_active_
       /\ flow' = [flow EXCEPT ![f].need_size_ = NeedMore(f, input)]
  /\ UNCHANGED <<pipeline, gzip, input, sink, calls, source>>

(* Mutant: that the source is closed is taken for the end of the input. *)
SuppliedToTheEnd(f) ==
  IF gzip[f].left > 0 \/ input[f] = <<>> THEN [gzip[f] EXCEPT !.closed = gzip[f].left = 0]
  ELSE [gzip[f] EXCEPT !.left = Len(Head(input[f])), !.closed = ~flow[f].is_input_active_]

(* gzip_ before run: without input it gets the first chunk, or is told that    *)
(* there is no more.                                                         *)
Supplied(f) ==
  IF gzip[f].left > 0 THEN gzip[f]
  ELSE IF input[f] # <<>> THEN [gzip[f] EXCEPT !.left = Len(Head(input[f]))]
  ELSE [gzip[f] EXCEPT !.closed = TRUE]

(* deflate and inflate (zlib) with g take k of the bytes left and give m of     *)
(* those they hold.  deflate ends when it is closed and has taken and given    *)
(* all; inflate ends at the mark, with all given, and takes nothing behind it. *)
Taken(f, k) == IF k = 0 THEN <<>> ELSE SubSeq(Head(input[f]), 1, k)

AtMark(f, k) == pipeline[f] = "decode" /\ k > 0 /\ Last(Taken(f, k)) = EndMark

ZlibTakes(f, g, k) ==
  /\ k <= g.left
  /\ pipeline[f] = "decode" => \A i \in 1..(k - 1) : Taken(f, k)[i] # EndMark

Flushes(f, g, k) == pipeline[f] = "encode" /\ g.closed /\ k = g.left

Held(f, g, k) ==
  g.held \o (IF pipeline[f] = "encode" THEN Taken(f, k)
             ELSE SelectSeq(Taken(f, k), LAMBDA b : b # EndMark))
         \o (IF Flushes(f, g, k) /\ ~g.ended THEN <<EndMark>> ELSE <<>>)

(* The output of a turn is a chunk; what was taken of the input is confirmed. *)
GzipRun(k, m) ==
  /\ InLoop({"encode", "decode"})
  /\ LET f     == Top.flow
         g     == Supplied(f)
         held  == Held(f, g, k)
         done  == m = Len(held) /\ (Flushes(f, g, k) \/ AtMark(f, k))
         stuck == k = 0 /\ m = 0 /\ ~done                \* Z_BUF_ERROR
         limit == m > 0 /\ g.total + m > MaxOutput
         ins   == IF limit THEN input
                  ELSE [input EXCEPT
                          ![f] = IF k = 0 THEN @ ELSE ConfirmRead(@, k),
                          ![f + 1] = IF m = 0 THEN @ ELSE Append(@, SubSeq(held, 1, m))]
         fs    == [flow EXCEPT
                     ![f].need_size_ = IF limit \/ stuck \/ done THEN NeedMore(f, ins) ELSE 0,
                     ![f].waiting_flag_ = done /\ ~limit]
         finish == limit \/ stuck \/ (done /\ ~flow[f].is_input_active_) IN
       /\ gzip[f].left > 0 \/ input[f] # <<>> \/ ~flow[f].is_input_active_
       /\ ZlibTakes(f, g, k) /\ m <= Len(held)
       /\ AtMark(f, k) => done
       /\ stuck => g.left = 0 /\ held = <<>>
       /\ gzip' = [gzip EXCEPT ![f] = [g EXCEPT
                     !.left = @ - k, !.held = SubSeq(held, m + 1, Len(held)),
                     !.ended = Flushes(f, g, k), !.total = @ + m]]
       /\ input' = ins
       /\ flow' = IF finish THEN Finished(f, fs) ELSE fs
       /\ calls' = IF finish
                     THEN calls \o TellParent(f, IF limit \/ stuck THEN "error" ELSE "ok")
                   ELSE calls
  /\ UNCHANGED <<pipeline, sink, source>>

-----------------------------------------------------------------------------
(* ByteFlowSink: it is told to close once (CHECK(active_)). *)

SinkWakeup ==
  /\ Calling("wakeup") /\ Top.flow = SinkAt
  /\ calls' = Return
  /\ UNCHANGED <<pipeline, flow, gzip, input, sink, source>>

SinkClose ==
  /\ Calling("close") /\ Top.flow = SinkAt
  /\ sink' = [active_ |-> FALSE, status |-> IF sink.active_ THEN Top.status ELSE "failed"]
  /\ calls' = Return
  /\ UNCHANGED <<pipeline, flow, gzip, input, source>>

ByteFlowNext ==
  \/ \E n \in 1..MaxFlowBytes : AppendInput(n)
  \/ \E rest \in {<<>>, <<Garbage>>} : AppendEnd(rest)
  \/ WakeupSource \/ \E status \in {"ok", "error"} : CloseSource(status)
  \/ CloseInput \/ Wakeup \/ LeaveLoop
  \/ AesLoop \/ GzipWaits \/ \E k, m \in 0..(MaxFlowBytes + 1) : GzipRun(k, m)
  \/ SinkWakeup \/ SinkClose

ByteFlowSpec == ByteFlowInit /\ [][ByteFlowNext]_byteFlowVars

-----------------------------------------------------------------------------
Given == [i \in 1..source.given |-> i]

(* Past the marks, the sink has a beginning of what was given. *)
AtSink == SelectSeq(Bytes(SinkAt), LAMBDA b : b # EndMark)

(* When the source was closed and the calls have returned, the sink is ready,  *)
(* told so once; and what it has is a beginning of the input, all of it when  *)
(* only GzipByteFlows were on the way and the status is OK.  (AesCtrByteFlow  *)
(* finishes with OK after the first chunk it reads from a closed input.)     *)
SinkIsRight ==
  /\ sink.status # "failed"
  /\ Quiet /\ source.closed # "no" => ~sink.active_
  /\ IsPrefix(AtSink, Given)
  /\ sink.status = "ok" =>
       /\ source.closed = "ok"
       /\ (\A f \in Flow : pipeline[f] # "aes") => AtSink = Given

(* A wakeup leaves nothing unread in front of a flow that can go on: no flow    *)
(* waits for more than it lacks.                                             *)
NothingWaits ==
  Quiet /\ source.woken =>
    \A f \in Flow : flow[f].stop_flag_ \/ flow[f].waiting_flag_ \/ input[f] = <<>>

(* What the source was given gets to the sink, without another wakeup.        *)
FlowsAreRight == SinkIsRight /\ NothingWaits
=============================================================================

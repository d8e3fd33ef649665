------------------------------ MODULE ChainBuffer ------------------------------
(***************************************************************************)
(* ChainBufferWriter and ChainBufferReader, in two threads: a stream of      *)
(* bytes through a chain of reference-counted nodes.  The writer appends to  *)
(* the buffer of the last node and hangs a new one behind it; the reader      *)
(* follows with two iterators, end_ as far as it can see and begin_ where it *)
(* has read to.                                                              *)
(*                                                                         *)
(* A step is an access to what both threads use: the end_ of a buffer, and    *)
(* has_writer_, next_ and ref_cnt_ of a node.  Byte i of the stream is i.     *)
(***************************************************************************)
EXTENDS Integers, Sequences

CONSTANTS
  Capacity,                 \* bytes of a new buffer
  MaxNodes,                 \* bound: nodes made
  MaxBytes                  \* bound: bytes written

ASSUME BufferAssumption == Capacity \in Nat \ {0} /\ MaxNodes \in Nat \ {0} /\ MaxBytes \in Nat

VARIABLES
  nodes,                    \* the ChainBufferNodes, in the order they were made
  tail_node,                \* the writer's node, 0 when the writer is gone
  writing,                  \* what the writer is doing: "idle", "linked" or "unset"
  iter,                     \* the iterators begin_ and end_
  reading,                  \* what the reader is doing, or "gone"
  written,                  \* bytes written
  taken                     \* bytes read, in order

bufferVars == <<nodes, tail_node, writing, iter, reading, written, taken>>

NullNode == 0

(* A node: its buffer with the bytes confirmed, whether slice_ is to be       *)
(* extended to them, and what its holders see.                               *)
NewNode(bytes, sync) ==
  [bytes |-> bytes, sync_flag_ |-> sync, next_ |-> NullNode, ref_cnt_ |-> 1,
   has_writer_ |-> TRUE, deleted |-> FALSE]

(* load_head: reader_ is a copy of slice_, which of a buffer that is being    *)
(* written ends where it began.                                              *)
Loaded(ns, n, offset) ==
  [head_ |-> n, buffer |-> n, from |-> 0,
   to |-> IF ns[n].sync_flag_ THEN 0 ELSE Len(ns[n].bytes), offset_ |-> offset]

BufferInit ==
  /\ nodes = <<[NewNode(<<>>, TRUE) EXCEPT !.ref_cnt_ = 3]>>
  /\ tail_node = 1
  /\ writing = "idle"
  /\ iter = [i \in {"begin_", "end_"} |-> Loaded(nodes, 1, 0)]
  /\ reading = [op |-> "none"]
  /\ written = 0
  /\ taken = <<>>

(* A ReaderPtr is copied. *)
Shared(ns, n) == IF n = NullNode THEN ns ELSE [ns EXCEPT ![n].ref_cnt_ = @ + 1]

(* What loses a pointer with n: n, and what is next to a node that goes.     *)
Losing(ns, n) ==
  {m \in DOMAIN ns :
     \A S \in SUBSET DOMAIN ns :
       n \in S /\ (\A x \in S : ns[x].ref_cnt_ = 1 /\ ns[x].next_ # NullNode => ns[x].next_ \in S)
         => m \in S}

(* A pointer is dropped: the last one deletes the node and drops next_.      *)
Unshared(ns, n) ==
  IF n = NullNode THEN ns
  ELSE LET losing == Losing(ns, n)
       IN [m \in DOMAIN ns |->
             IF m \in losing
               THEN [ns[m] EXCEPT !.ref_cnt_ = @ - 1, !.deleted = ns[m].ref_cnt_ = 1]
               ELSE ns[m]]

-----------------------------------------------------------------------------
(* The writer *)

WriterIdle == tail_node # NullNode /\ writing = "idle"

Fresh(n) == [i \in 1..n |-> written + i]

(* prepare_append_inplace; a node of a given slice has no writer_. *)
Room == IF nodes[tail_node].sync_flag_ THEN Capacity - Len(nodes[tail_node].bytes) ELSE 0

(* append in place and confirm_append *)
AppendInPlace(n) ==
  /\ WriterIdle
  /\ n <= Room /\ written + n <= MaxBytes
  /\ nodes' = [nodes EXCEPT ![tail_node].bytes = @ \o Fresh(n)]
  /\ written' = written + n
  /\ UNCHANGED <<tail_node, writing, iter, reading, taken>>

(* A new node, held by new_tail and by the next_ of the old one. *)
LinkNode(node) ==
  /\ WriterIdle
  /\ Len(nodes) < MaxNodes
  /\ LET new == Len(nodes) + 1 IN
       nodes' = Shared(Append([nodes EXCEPT ![tail_node].next_ = new], node), new)
  /\ writing' = "linked"
  /\ UNCHANGED <<tail_node, iter, reading, taken>>

(* prepare_append_alloc *)
AppendAlloc == LinkNode(NewNode(<<>>, TRUE)) /\ UNCHANGED written

(* append(BufferSlice) of a slice too large for the room that is left *)
AppendSlice(n) ==
  /\ WriterIdle /\ n > Room /\ written + n <= MaxBytes
  /\ LinkNode(NewNode(Fresh(n), FALSE))
  /\ written' = written + n

(* tail_ is replaced, or destroyed: has_writer_ goes first, then the pointer. *)
LeaveTail ==
  /\ tail_node # NullNode
  /\ writing \in {"linked", "idle"}
  /\ writing' = IF writing = "linked" THEN "unset" ELSE "closing"
  /\ nodes' = [nodes EXCEPT ![tail_node].has_writer_ = FALSE]
  /\ UNCHANGED <<tail_node, iter, reading, written, taken>>

DropTail ==
  /\ writing \in {"unset", "closing"}
  /\ nodes' = Unshared(nodes, tail_node)
  /\ tail_node' = IF writing = "unset" THEN nodes[tail_node].next_ ELSE NullNode
  /\ writing' = "idle"
  /\ UNCHANGED <<iter, reading, written, taken>>

-----------------------------------------------------------------------------
(* The reader *)

Unread == iter["end_"].offset_ - iter["begin_"].offset_

ReaderIdle == reading.op = "none"

(* sync_with_writer moves end_ as far as it goes; a read uses begin_. *)
StartReading(i) ==
  /\ ReaderIdle
  /\ reading' = [op |-> "look", it |-> i]
  /\ UNCHANGED <<nodes, tail_node, writing, iter, written, taken>>

ReadyBytes(i) == iter[i].to - iter[i].from

(* confirm_read of n bytes *)
Confirm(i, n) == iter' = [iter EXCEPT ![i].from = @ + n, ![i].offset_ = @ + n]

(* prepare_read has bytes: end_ takes all of them and looks for more, and     *)
(* begin_ takes some of those before end_.                                   *)
TakeBytes ==
  /\ reading.op = "look" /\ ReadyBytes(reading.it) > 0 /\ iter[reading.it].head_ # NullNode
  /\ LET i == reading.it
         bytes == nodes[iter[i].buffer].bytes IN
       IF i = "end_"
         THEN /\ Confirm(i, ReadyBytes(i))
              /\ UNCHANGED <<reading, taken>>
         ELSE \E n \in {m \in 0..ReadyBytes(i) : m <= Unread} :
                /\ Confirm(i, n)
                /\ taken' = taken \o SubSeq(bytes, iter[i].from + 1, iter[i].from + n)
                /\ reading' = [op |-> "none"]
  /\ UNCHANGED <<nodes, tail_node, writing, written>>

NothingToRead ==
  /\ reading.op = "look" /\ iter[reading.it].head_ = NullNode
  /\ reading' = [op |-> "none"]
  /\ UNCHANGED <<nodes, tail_node, writing, iter, written, taken>>

(* It has none: has_writer_ is read before the end of the buffer ... *)
LoadHasWriter ==
  /\ reading.op = "look" /\ ReadyBytes(reading.it) = 0 /\ iter[reading.it].head_ # NullNode
  /\ reading' = [op |-> "sync", it |-> reading.it,
                 has_writer |-> nodes[iter[reading.it].head_].has_writer_]
  /\ UNCHANGED <<nodes, tail_node, writing, iter, written, taken>>

(* Mutant: it is read again when the end of the buffer is known. *)
WriterSeenLate == nodes[iter[reading.it].head_].has_writer_

(* ... so that a node without a writer was seen to its end. *)
WriterSeen == reading.has_writer

(* The end of the buffer as it is now. *)
SyncWithWriter ==
  /\ reading.op = "sync"
  /\ LET it == iter[reading.it]
         end == IF nodes[it.head_].sync_flag_ THEN Len(nodes[it.head_].bytes) ELSE it.to IN
       /\ iter' = [iter EXCEPT ![reading.it].to = end]
       /\ reading' = [reading EXCEPT !.op = IF end > it.from THEN "look" ELSE "decide"]
  /\ UNCHANGED <<nodes, tail_node, writing, written, taken>>

(* head_ = clone(next_): the next node is held before the old one is dropped. *)
Moved(ns, old, next) == Unshared(Shared(ns, next), old)

Decide ==
  /\ reading.op = "decide"
  /\ LET i == reading.it
         old == iter[i].head_
         next == nodes[old].next_ IN
       IF WriterSeen
         THEN /\ reading' = [op |-> "none"]
              /\ UNCHANGED <<nodes, iter>>
         ELSE /\ nodes' = Moved(nodes, old, next)
              /\ iter' = IF next = NullNode
                           THEN [iter EXCEPT ![i].head_ = NullNode]
                           ELSE [iter EXCEPT ![i] = Loaded(nodes, next, @.offset_)]
              /\ reading' = [op |-> "look", it |-> i]
  /\ UNCHANGED <<tail_node, writing, written, taken>>

(* The reader is destroyed. *)
DestroyReader ==
  /\ ReaderIdle
  /\ nodes' = Unshared(Unshared(nodes, iter["end_"].head_), iter["begin_"].head_)
  /\ iter' = [i \in DOMAIN iter |-> [iter[i] EXCEPT !.head_ = NullNode]]
  /\ reading' = [op |-> "gone"]
  /\ UNCHANGED <<tail_node, writing, written, taken>>

BufferNext ==
  \/ \E n \in 1..MaxBytes : AppendInPlace(n) \/ AppendSlice(n)
  \/ AppendAlloc \/ LeaveTail \/ DropTail
  \/ \E i \in DOMAIN iter : StartReading(i)
  \/ TakeBytes \/ NothingToRead \/ LoadHasWriter \/ SyncWithWriter \/ Decide
  \/ DestroyReader

BufferSpec == BufferInit /\ [][BufferNext]_bufferVars

-----------------------------------------------------------------------------
(* The reader gets the bytes in order, and what it may read was written. *)
InStreamOrder ==
  /\ taken = [i \in 1..Len(taken) |-> i]
  /\ iter["begin_"].offset_ = Len(taken)
  /\ iter["begin_"].offset_ <= iter["end_"].offset_
  /\ iter["end_"].offset_ <= written

(* end_ has run out of nodes only when the writer is gone and all was seen. *)
EndIsTrue ==
  reading.op # "gone" /\ iter["end_"].head_ = NullNode
    => /\ tail_node = NullNode \/ writing = "closing"
       /\ iter["end_"].offset_ = written

(* ref_cnt_ counts the pointers to a node, and a node nobody points to is     *)
(* deleted.                                                                  *)
Pointers(n) ==
  (IF tail_node = n THEN 1 ELSE 0)
  + (IF \E m \in DOMAIN nodes : ~nodes[m].deleted /\ nodes[m].next_ = n THEN 1 ELSE 0)
  + (IF iter["begin_"].head_ = n THEN 1 ELSE 0)
  + (IF iter["end_"].head_ = n THEN 1 ELSE 0)

(* The new node of a LinkNode is held by new_tail, not yet by tail_. *)
PointersCounted ==
  \A n \in DOMAIN nodes :
    /\ nodes[n].ref_cnt_ = Pointers(n)
         + (IF writing \in {"linked", "unset"} /\ n = Len(nodes) THEN 1 ELSE 0)
    /\ nodes[n].deleted <=> nodes[n].ref_cnt_ = 0

(* A byte stream through a ChainBuffer is whole, however the writer's steps   *)
(* fall between the reader's: no byte is skipped when the reader leaves a     *)
(* node, the end is the end, and no node is used after it is deleted or kept. *)
StreamIsWhole == InStreamOrder /\ EndIsTrue /\ PointersCounted
=============================================================================

---------------------------- MODULE OrderedEvents ----------------------------
(***************************************************************************)
(* OrderedEventsProcessor: data come with sequence numbers in any order and  *)
(* a function gets them in order; what came too early waits in an array that *)
(* starts at offset_ and is cut when its used part has grown.                *)
(***************************************************************************)
EXTENDS Integers, Sequences

CONSTANTS
  FirstSeqNo,               \* the offset it starts with
  MaxEvents                 \* bound: sequence numbers

ASSUME OrderedEventsAssumption == FirstSeqNo \in Nat /\ MaxEvents \in Nat

VARIABLES
  offset_,
  begin_,
  end_,
  data_array_,              \* position i + 1 is for number offset_ + i: data and flag
  added,                    \* the data of the numbers added, by number
  handled                   \* the numbers and data the function was called with

orderedVars == <<offset_, begin_, end_, data_array_, added, handled>>

SeqNo == FirstSeqNo..(FirstSeqNo + MaxEvents - 1)

NoEvent == [data |-> 0, flag |-> FALSE]

OrderedEventsInit ==
  /\ offset_ = FirstSeqNo /\ begin_ = FirstSeqNo /\ end_ = FirstSeqNo
  /\ data_array_ = <<>>
  /\ added = [n \in {} |-> 0]
  /\ handled = <<>>

At(n) == n - offset_ + 1

Waits(n) == n < end_ /\ data_array_[At(n)].flag

(* The first number from n on that does not wait. *)
Stop(n) ==
  LET run[i \in Nat] == IF Waits(i) THEN run[i + 1] ELSE i IN run[n]

(* try_compactify: the used part is cut when it is long. *)
LongPart(begin_pos, size) == begin_pos > 5 /\ begin_pos * 2 > size

(* Mutant: one element too few is cut. *)
CompactedShort(array, begin, offset) ==
  IF LongPart(begin - offset, Len(array))
    THEN [array |-> SubSeq(array, begin - offset, Len(array)), offset |-> begin]
    ELSE [array |-> array, offset |-> offset]

Compacted(array, begin, offset) ==
  IF LongPart(begin - offset, Len(array))
    THEN [array |-> SubSeq(array, begin - offset + 1, Len(array)), offset |-> begin]
    ELSE [array |-> array, offset |-> offset]

(* add with the next number: it is handled, and those that waited for it. *)
AddNext(n, data) ==
  /\ n = begin_
  /\ LET stop  == Stop(n + 1)
         array == [i \in DOMAIN data_array_ |->
                     IF i \in At(n + 1)..At(stop - 1) THEN [data_array_[i] EXCEPT !.flag = FALSE]
                     ELSE data_array_[i]]
         end   == IF stop > end_ THEN stop ELSE end_
         cut   == Compacted(array, stop, IF stop = end THEN stop ELSE offset_) IN
       /\ handled' = handled \o <<[n |-> n, data |-> data]>>
                       \o [i \in 1..(stop - n - 1) |->
                             [n |-> n + i, data |-> data_array_[At(n + i)].data]]
       /\ begin_' = stop
       /\ end_' = end
       /\ data_array_' = cut.array
       /\ offset_' = cut.offset

(* add with a later one: it waits in the array. *)
AddLater(n, data) ==
  /\ n > begin_
  /\ data_array_' = [i \in 1..(IF At(n) > Len(data_array_) THEN At(n) ELSE Len(data_array_)) |->
                       IF i = At(n) THEN [data |-> data, flag |-> TRUE]
                       ELSE IF i <= Len(data_array_) THEN data_array_[i] ELSE NoEvent]
  /\ end_' = IF end_ < n + 1 THEN n + 1 ELSE end_
  /\ UNCHANGED <<offset_, begin_, handled>>

(* A number is added once; its data tell what had been handled when it came. *)
AddEvent(n) ==
  /\ n \notin DOMAIN added
  /\ LET data == Len(handled) + 1 IN
       /\ AddNext(n, data) \/ AddLater(n, data)
       /\ added' = [m \in DOMAIN added \union {n} |-> IF m = n THEN data ELSE added[m]]

OrderedEventsNext == \E n \in SeqNo : AddEvent(n)

OrderedEventsSpec == OrderedEventsInit /\ [][OrderedEventsNext]_orderedVars

-----------------------------------------------------------------------------
(* max_finished_seq_no and max_unfinished_seq_no *)
HandledUpTo == begin_ - 1
WaitingUpTo == end_ - 1

(* The function was called for every number up to the first gap, once, in order *)
(* and with its data; the others wait with theirs; the array is where the     *)
(* numbers say it is, however it was cut.                                    *)
HandledInOrder ==
  /\ handled = [i \in 1..(begin_ - FirstSeqNo) |->
                  [n |-> FirstSeqNo + i - 1, data |-> added[FirstSeqNo + i - 1]]]
  /\ begin_ \notin DOMAIN added
  /\ \A n \in DOMAIN added : n < begin_ \/ (Waits(n) /\ data_array_[At(n)].data = added[n])
  /\ \A n \in SeqNo : n >= begin_ /\ n \notin DOMAIN added /\ At(n) <= Len(data_array_)
                        => ~data_array_[At(n)].flag
  /\ WaitingUpTo = IF \E n \in DOMAIN added : n > HandledUpTo
                     THEN CHOOSE n \in DOMAIN added : \A m \in DOMAIN added : m <= n
                     ELSE HandledUpTo
=============================================================================

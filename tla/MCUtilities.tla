------------------------------ MODULE MCUtilities ------------------------------
(***************************************************************************)
(* TLC instance of the utilities that are used each by itself, the inbound    *)
(* queue first: in a behaviour one of them, chosen at the start, is used.     *)
(***************************************************************************)
EXTENDS MpscPollableQueue, ObjectPool, SharedObjectPool, AtomicRead, ByteFlow, OrderedEvents,
        FloodControl, KHeapCalls, FlatHashTable, ChainBuffer

VARIABLE used

(* One flow of each kind, and chains in which one depends on the other. *)
SomePipelines == {<<"aes">>, <<"decode">>, <<"encode", "decode">>, <<"aes", "encode">>}

(* One limit, and two of which now the one and now the other is reached. *)
SomeLimits ==
  {<<[duration |-> 2, count |-> 2]>>,
   <<[duration |-> 1, count |-> 1], [duration |-> 3, count |-> 2]>>,
   <<[duration |-> 1, count |-> 2], [duration |-> 3, count |-> 3]>>}

(* Keys that meet in one bucket, at the end of the array and round it. *)
TwoHashes == {<<6, 6, 7, 7, 14, 0>>, <<7, 15, 7, 8, 23, 6>>}

pooledVars == <<poolVars, sharedPoolVars, atomicReadVars>>

streamVars == <<byteFlowVars, orderedVars, floodVars, bufferVars>>

containerVars == <<heapVars, tableVars>>

utilityVars == <<vars, pooledVars, streamVars, containerVars, used>>

UtilitiesInit ==
  /\ Init /\ ObjectPoolInit /\ SharedPoolInit /\ AtomicReadInit /\ ByteFlowInit
  /\ OrderedEventsInit /\ FloodInit /\ BufferInit /\ HeapInit /\ TableInit
  /\ used \in {"inbound", "storages", "shared", "copies", "flows", "ordered", "strict", "guards",
              "buffer", "heap", "table"}
  /\ used # "flows" => pipeline = <<"aes">>
  /\ used # "strict" => Len(limits_) = 1
  /\ used # "table" => HashT = <<6, 6, 7, 7, 14, 0>>

UtilitiesNext ==
  /\ UNCHANGED used
  /\ \/ /\ used = "inbound" /\ Next
        /\ UNCHANGED <<pooledVars, streamVars, containerVars>>
     \/ /\ used = "storages" /\ ObjectPoolNext
        /\ UNCHANGED <<vars, sharedPoolVars, atomicReadVars, streamVars, containerVars>>
     \/ /\ used = "shared" /\ SharedPoolNext
        /\ UNCHANGED <<vars, poolVars, atomicReadVars, streamVars, containerVars>>
     \/ /\ used = "copies" /\ AtomicReadNext
        /\ UNCHANGED <<vars, poolVars, sharedPoolVars, streamVars, containerVars>>
     \/ /\ used = "flows" /\ ByteFlowNext
        /\ UNCHANGED <<vars, pooledVars, orderedVars, floodVars, bufferVars, containerVars>>
     \/ /\ used = "ordered" /\ OrderedEventsNext
        /\ UNCHANGED <<vars, pooledVars, byteFlowVars, floodVars, bufferVars, containerVars>>
     \/ /\ used = "strict" /\ StrictNext
        /\ UNCHANGED <<vars, pooledVars, byteFlowVars, orderedVars, bufferVars, containerVars>>
     \/ /\ used = "guards" /\ GlobalNext
        /\ UNCHANGED <<vars, pooledVars, byteFlowVars, orderedVars, bufferVars, containerVars>>
     \/ /\ used = "buffer" /\ BufferNext
        /\ UNCHANGED <<vars, pooledVars, byteFlowVars, orderedVars, floodVars, containerVars>>
     \/ /\ used = "heap" /\ HeapNext
        /\ UNCHANGED <<vars, pooledVars, streamVars, tableVars>>
     \/ /\ used = "table" /\ TableNext
        /\ UNCHANGED <<vars, pooledVars, streamVars, heapVars>>

(* The fairness of the inbound queue, while it is the one in use. *)
UtilitiesFairness ==
  /\ WF_vars(used = "inbound" /\ ReaderStep)
  /\ WF_vars(used = "inbound" /\ PollRun)
  /\ \A w \in Writer : WF_vars(used = "inbound" /\ EventFdRelease(w))

UtilitiesSpec == UtilitiesInit /\ [][UtilitiesNext]_utilityVars /\ UtilitiesFairness
==============================================================================

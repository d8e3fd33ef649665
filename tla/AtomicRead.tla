------------------------------ MODULE AtomicRead ------------------------------
(***************************************************************************)
(* AtomicRead: a value of several words that one thread writes in place      *)
(* while others copy it; a version that is odd during a write tells a reader *)
(* to copy again.  The words are written and copied one at a time.            *)
(***************************************************************************)
EXTENDS Integers

CONSTANTS
  Copier,                   \* threads that call read
  Word,                     \* words of the value
  MaxWrites                 \* bound: writes

ASSUME AtomicReadAssumption == MaxWrites \in Nat

VARIABLES
  version,
  value,                    \* value[w]: the number of the write that set w
  write,                    \* [busy, left]: is it locked, and the words to be written
  copy                      \* copy[t]: the call of t

atomicReadVars == <<version, value, write, copy>>

NotCopying == [op |-> "none"]

AtomicReadInit ==
  /\ version = 0
  /\ value = [w \in Word |-> 0]
  /\ write = [busy |-> FALSE, left |-> {}]
  /\ copy = [t \in Copier |-> NotCopying]

(* do_lock, and do_unlock when the Write is destroyed.  Write n sets every word *)
(* to n; there is one writer (CHECK(is_locked)).                             *)
WritesDone == version \div 2

DoLock ==
  /\ ~write.busy /\ WritesDone < MaxWrites
  /\ version' = version + 1
  /\ write' = [busy |-> TRUE, left |-> Word]
  /\ UNCHANGED <<value, copy>>

WriteWord(w) ==
  /\ write.busy /\ w \in write.left
  /\ value' = [value EXCEPT ![w] = WritesDone + 1]
  /\ write' = [write EXCEPT !.left = @ \ {w}]
  /\ UNCHANGED <<version, copy>>

DoUnlock ==
  /\ write.busy /\ write.left = {}
  /\ version' = version + 1
  /\ write' = [write EXCEPT !.busy = FALSE]
  /\ UNCHANGED <<value, copy>>

-----------------------------------------------------------------------------
(* read *)

Read(t) ==
  /\ copy[t].op = "none"
  /\ copy' = [copy EXCEPT ![t] = [op |-> "before", since |-> WritesDone]]
  /\ UNCHANGED <<version, value, write>>

VersionBefore(t) ==
  /\ copy[t].op = "before"
  /\ copy' = [copy EXCEPT ![t] =
                IF version % 2 = 0
                  THEN [op |-> "copy", since |-> @.since, version_before |-> version,
                        left |-> Word, dest |-> [w \in {} |-> 0]]
                  ELSE @]
  /\ UNCHANGED <<version, value, write>>

CopyWord(t, w) ==
  /\ copy[t].op = "copy" /\ w \in copy[t].left
  /\ copy' = [copy EXCEPT ![t] =
                [op |-> "copy", since |-> @.since, version_before |-> @.version_before,
                 left |-> @.left \ {w},
                 dest |-> [x \in DOMAIN @.dest \union {w} |->
                             IF x = w THEN value[w] ELSE @.dest[x]]]]
  /\ UNCHANGED <<version, value, write>>

(* Mutant: that no write is on is taken for no write having been on. *)
EvenVersion(t) == version % 2 = 0

SameVersion(t) == copy[t].version_before = version

VersionAfter(t) ==
  /\ copy[t].op = "copy" /\ copy[t].left = {}
  /\ copy' = [copy EXCEPT ![t] =
                IF SameVersion(t)
                  THEN [op |-> "done", since |-> @.since, dest |-> @.dest]
                  ELSE [op |-> "before", since |-> @.since]]
  /\ UNCHANGED <<version, value, write>>

CopyUsed(t) ==
  /\ copy[t].op = "done"
  /\ copy' = [copy EXCEPT ![t] = NotCopying]
  /\ UNCHANGED <<version, value, write>>

AtomicReadNext ==
  \/ DoLock \/ DoUnlock \/ \E w \in Word : WriteWord(w)
  \/ \E t \in Copier :
       \/ Read(t) \/ VersionBefore(t) \/ VersionAfter(t) \/ CopyUsed(t)
       \/ \E w \in Word : CopyWord(t, w)

AtomicReadSpec == AtomicReadInit /\ [][AtomicReadNext]_atomicReadVars

-----------------------------------------------------------------------------
(* What read gives is one value the writer left, and none from before the call *)
(* or from a write that is still on.                                         *)
CopyIsWhole ==
  \A t \in Copier :
    copy[t].op = "done" =>
      \E n \in copy[t].since..WritesDone : \A w \in Word : copy[t].dest[w] = n
=============================================================================

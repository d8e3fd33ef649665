----------------------------- MODULE FloodControl -----------------------------
(***************************************************************************)
(* Flood control.  FloodControlStrict keeps the times of the last events and *)
(* says when the next one fits into every limit "no more than count in each  *)
(* duration"; FloodControlGlobal counts, in many threads, what is under way.  *)
(***************************************************************************)
EXTENDS Integers, Sequences, FiniteSets

CONSTANTS
  LimitSets,                \* sequences of limits [duration, count]
  MaxFloodTime,             \* bound: the clock
  MaxFloodEvents,           \* bound: events
  Starter,                  \* threads that call try_start
  MaxActive                 \* limit_ of the FloodControlGlobal

(* The largest int32.  With a count of 0, update reads behind the last event. *)
MaxDuration == 2147483647

ASSUME FloodAssumption ==
  /\ MaxFloodTime \in Nat /\ MaxFloodEvents \in Nat /\ MaxActive \in Nat
  /\ IsFiniteSet(Starter)
  /\ LimitSets \subseteq Seq([duration : 0..MaxDuration, count : Nat \ {0}])

VARIABLES
  limits_,                  \* the limits with their pos_
  events_,                  \* times of the events kept
  without_update_,          \* events that need no update, or Unlimited
  wakeup_at_,
  now,
  past,                     \* all events since clear_events
  active_count_,
  starter                   \* starter[t]: what t does

strictVars == <<limits_, events_, without_update_, wakeup_at_, now, past>>
globalVars == <<active_count_, starter>>
floodVars  == <<strictVars, globalVars>>

(* numeric_limits<size_t>::max() *)
Unlimited == 1000000

FloodInit ==
  /\ \E ls \in LimitSets :
       limits_ = [l \in DOMAIN ls |-> [duration_ |-> ls[l].duration, count_ |-> ls[l].count,
                                       pos_ |-> 0]]
  /\ events_ = <<>>
  /\ without_update_ = 0
  /\ wakeup_at_ = 0
  /\ now = 0
  /\ past = <<>>
  /\ active_count_ = 0
  /\ starter = [t \in Starter |-> "none"]

-----------------------------------------------------------------------------
(* FloodControlStrict.  Positions count from 0. *)

Least(S) == CHOOSE x \in S : \A y \in S : x <= y
Most(S)  == CHOOSE x \in S : \A y \in S : x >= y

(* Events so old that limit l counts them no more; those at its edge count.    *)
Outdated(l, time) == time < now - l.duration_

(* Where the events that limit l counts begin. *)
NewPos(l, events) ==
  LET last == IF l.count_ < Len(events) - l.pos_ THEN Len(events) - l.count_ ELSE l.pos_
  IN Least({p \in last..Len(events) : p = Len(events) \/ ~Outdated(l, events[p + 1])})

(* update: the limits that are used up say when there is room again. *)
UpdatedPos(events) == [i \in DOMAIN limits_ |-> NewPos(limits_[i], events)]

Full(i, pos, events) == limits_[i].count_ + pos[i] <= Len(events)

RoomAt(i, pos, events) == events[pos[i] + 1] + limits_[i].duration_

(* Mutant: the event that fills the limit is counted too. *)
SpareAndOne(i, pos, events) == limits_[i].count_ + pos[i] - Len(events)

(* Events for which limit i has room without any becoming too old. *)
Spare(i, pos, events) == limits_[i].count_ + pos[i] - Len(events) - 1

Update(events) ==
  LET pos  == UpdatedPos(events)
      full == {i \in DOMAIN limits_ : Full(i, pos, events)}
      min_pos == Least({Len(events)} \union {pos[i] : i \in DOMAIN limits_})
      cut  == IF min_pos * 2 > Len(events) THEN min_pos ELSE 0 IN
  /\ wakeup_at_' = Most({wakeup_at_} \union {RoomAt(i, pos, events) : i \in full})
  /\ without_update_' =
       IF full # {} THEN 0
       ELSE Least({Unlimited} \union {Spare(i, pos, events) : i \in DOMAIN limits_})
  /\ limits_' = [i \in DOMAIN limits_ |-> [limits_[i] EXCEPT !.pos_ = pos[i] - cut]]
  /\ events_' = SubSeq(events, cut + 1, Len(events))

FloodAddEvent ==
  /\ Len(past) < MaxFloodEvents
  /\ past' = Append(past, now)
  /\ IF without_update_ > 0
       THEN /\ events_' = Append(events_, now)
            /\ without_update_' = without_update_ - 1
            /\ UNCHANGED <<limits_, wakeup_at_>>
       ELSE Update(Append(events_, now))
  /\ UNCHANGED <<now, globalVars>>

ClearEvents ==
  /\ events_' = <<>>
  /\ limits_' = [i \in DOMAIN limits_ |-> [limits_[i] EXCEPT !.pos_ = 0]]
  /\ without_update_' = 0
  /\ wakeup_at_' = 0
  /\ past' = <<>>
  /\ UNCHANGED <<now, globalVars>>

FloodTick ==
  /\ now < MaxFloodTime
  /\ now' = now + 1
  /\ UNCHANGED <<limits_, events_, without_update_, wakeup_at_, past, globalVars>>

-----------------------------------------------------------------------------
(* FloodControlGlobal *)

Starts(t, from, to, count) ==
  /\ starter[t] = from
  /\ starter' = [starter EXCEPT ![t] = to]
  /\ active_count_' = count
  /\ UNCHANGED strictVars

(* Mutant: one more. *)
TryStartOneMore(t) ==
  Starts(t, "none", IF active_count_ > MaxActive THEN "refused" ELSE "active",
         active_count_ + 1)

(* try_start counts itself first, and takes that back when it is too many. *)
TryStart(t) ==
  Starts(t, "none", IF active_count_ >= MaxActive THEN "refused" ELSE "active",
         active_count_ + 1)

Refuse(t) == Starts(t, "refused", "none", active_count_ - 1)

(* The Guard is destroyed. *)
FinishGuard(t) == Starts(t, "active", "none", active_count_ - 1)

StrictNext == FloodAddEvent \/ ClearEvents \/ FloodTick
GlobalNext == \E t \in Starter : TryStart(t) \/ Refuse(t) \/ FinishGuard(t)

FloodNext == StrictNext \/ GlobalNext

FloodSpec == FloodInit /\ [][FloodNext]_floodVars

-----------------------------------------------------------------------------
(* "no more than count in each duration": an event at time t would be one too   *)
(* many for a limit with count events in the duration before t.               *)
Fits(t) ==
  \A i \in DOMAIN limits_ :
    Cardinality({e \in DOMAIN past : past[e] > t - limits_[i].duration_}) < limits_[i].count_

(* get_wakeup_at is the first time an event fits, although most events are     *)
(* added without an update and old ones are forgotten.                       *)
WakeupIsRight ==
  \A t \in now..(MaxFloodTime + 3) : t >= wakeup_at_ <=> Fits(t)

(* No more guards than the limit, whatever the threads that were refused have   *)
(* still to take back; no count is lost or kept.                             *)
GuardsCounted ==
  /\ Cardinality({t \in Starter : starter[t] = "active"}) <= MaxActive
  /\ active_count_ = Cardinality({t \in Starter : starter[t] # "none"})

(* Both flood controls keep to their limits, and no closer. *)
FloodControlled == WakeupIsRight /\ GuardsCounted
=============================================================================

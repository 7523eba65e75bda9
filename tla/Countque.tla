------------------------------- MODULE Countque -------------------------------
(***************************************************************************)
(* The sliding window counter of countque.c: cq_tic counts an event, and   *)
(* what it and cq_count return are the events of the last tic_max_cnt      *)
(* periods of tic_per_sec seconds each.  Time is what time(NULL) says: it  *)
(* may stand still, jump ahead or go back between two calls.               *)
(*                                                                         *)
(* A tick is the record of one period.  The list of ticks is a sequence    *)
(* from cqi->first to cqi->last.  Both calls end in cq_adjust, whose loop  *)
(* is one step for each tick that it takes off.                            *)
(***************************************************************************)
EXTENDS Integers, Sequences, FiniteSets, FiniteSetsExt, SequencesExt

CONSTANTS tic_per_sec,  \* length of a period in seconds
          tic_max_cnt,  \* periods of the window
          MaxTime,      \* bound: the clock's last second
          MaxCalls      \* bound: calls in the life of a counter

ASSUME PeriodAssumption == tic_per_sec \in Nat \ {0} /\ tic_max_cnt \in Nat
ASSUME BoundAssumption == MaxTime \in Nat /\ MaxCalls \in Nat

VARIABLES
  pc,         \* "idle", or "adjust": a call is in cq_adjust
  base_time,  \* the period of the call, then of the last one
  ticks,      \* the list: [time, count]
  count,      \* countque_t.count, which is what a call returns in the end
  calls       \* history: the calls so far, [time, event]: the period, and if it was cq_tic

vars == <<pc, base_time, ticks, count, calls>>

\* Mutant of get_base_time_by_time: the time is not rounded.
get_base_time_exact(term, t) == t

get_base_time_by_time(term, t) == t - (t % term)

\* Mutant of get_ttl_time: the window is a period longer.
get_ttl_time_long(time) == time - tic_per_sec * (tic_max_cnt + 1)

get_ttl_time(time) == time - tic_per_sec * tic_max_cnt

\* Mutant of Ticked: the period of the last tick is not looked at.
TickedLast(time) ==
  IF ticks # <<>>
    THEN [ticks EXCEPT ![Len(ticks)].count = @ + 1]
    ELSE <<[time |-> time, count |-> 1]>>

\* The list with one more event: the last tick counts it if it is of the same period.
Ticked(time) ==
  IF ticks # <<>> /\ ticks[Len(ticks)].time = time
    THEN [ticks EXCEPT ![Len(ticks)].count = @ + 1]
    ELSE Append(ticks, [time |-> time, count |-> 1])

-----------------------------------------------------------------------------
\* cq_init
Init ==
  /\ pc = "idle"
  /\ base_time = 0
  /\ ticks = <<>>
  /\ count = 0
  /\ calls = <<>>

\* A call at time t.
Call(t, event) ==
  /\ pc = "idle"
  /\ Len(calls) < MaxCalls
  /\ pc' = "adjust"
  /\ base_time' = get_base_time_by_time(tic_per_sec, t)
  /\ calls' = Append(calls, [time |-> base_time', event |-> event])

\* cq_tic, cq_tic_time at time t, up to cq_adjust.
Tic(t) ==
  /\ Call(t, TRUE)
  /\ ticks' = Ticked(base_time')
  /\ count' = count + 1

\* cq_count at time t, up to cq_adjust.
Count(t) ==
  /\ Call(t, FALSE)
  /\ UNCHANGED <<ticks, count>>

\* The first tick is there and has expired.
Expired == ticks # <<>> /\ Head(ticks).time <= get_ttl_time(base_time)

\* A turn of the loop of cq_adjust.
Expire ==
  /\ pc = "adjust"
  /\ Expired
  /\ ticks' = Tail(ticks)
  /\ count' = count - Head(ticks).count
  /\ UNCHANGED <<pc, base_time, calls>>

\* The loop stops at the first tick that has not expired; the call returns count.
Return ==
  /\ pc = "adjust"
  /\ ~ Expired
  /\ pc' = "idle"
  /\ UNCHANGED <<base_time, ticks, count, calls>>

\* cq_free, and cq_init of another counter.
Renew ==
  /\ pc = "idle"
  /\ calls # <<>>
  /\ base_time' = 0
  /\ ticks' = <<>>
  /\ count' = 0
  /\ calls' = <<>>
  /\ UNCHANGED pc

Next ==
  \/ \E t \in 0 .. MaxTime : Tic(t) \/ Count(t)
  \/ Expire
  \/ Return
  \/ Renew

Spec == Init /\ [][Next]_vars

-----------------------------------------------------------------------------
(* Properties. *)

\* The seconds with which a period begins.
Periods == {t \in 0 .. MaxTime : \E n \in 0 .. MaxTime : t = tic_per_sec * n}

TypeOK ==
  /\ pc \in {"idle", "adjust"}
  /\ base_time \in Periods
  /\ ticks \in Seq([time : Periods, count : Nat \ {0}])
  /\ count \in Nat
  /\ calls \in Seq([time : Periods, event : BOOLEAN])

\* The window of a call at time t: the last tic_max_cnt periods.
InWindow(period, t) == period > t - tic_per_sec * tic_max_cnt

Events(S) == Cardinality({i \in S : calls[i].event})

\* The event of call i had not expired at any call since.
Fresh(i) == \A j \in i .. Len(calls) : InWindow(calls[i].time, calls[j].time)

\* Whatever the clock does, what a call returns is the number of events from the oldest on
\* that was within the window at every call since: a tick that a clock ahead of its time has
\* left keeps those behind it, and what a jump ahead has expired does not come back
\* (countque.c:34-50, countque.c:78-111).
SurvivorsCounted ==
  LET fresh == {i \in DOMAIN calls : calls[i].event /\ Fresh(i)}
  IN  pc = "idle" => count = IF fresh = {} THEN 0 ELSE Events(Min(fresh) .. Len(calls))

Steady == \A i, j \in DOMAIN calls : i < j => calls[i].time <= calls[j].time

\* While the clock does not go back, a call returns exactly the events of the last
\* tic_max_cnt periods, and no more ticks are kept than that (countque.c:16, countque.c:38).
WindowExact ==
  (pc = "idle" /\ calls # <<>> /\ Steady) =>
    /\ count = Events({i \in DOMAIN calls : InWindow(calls[i].time, calls[Len(calls)].time)})
    /\ Len(ticks) <= tic_max_cnt
=============================================================================

---------------------------- MODULE CountqueProofs ----------------------------
(***************************************************************************)
(* Proofs about module Countque, for windows and periods of any length,    *)
(* any number of calls and a clock that goes forward and back as it likes. *)
(***************************************************************************)
EXTENDS Countque, FiniteSetTheorems, FunctionTheorems, SequenceTheorems,
        WellFoundedInduction, TLAPS

USE PeriodAssumption, BoundAssumption

-----------------------------------------------------------------------------
(* The inductive invariant. *)

\* What the call j made of the window: ticks up to this time expired.
Ttl(j) == get_ttl_time(calls[j].time)

\* The calls of which cq_adjust is over.
Adjusted == IF pc = "adjust" THEN Len(calls) - 1 ELSE Len(calls)

\* c cuts the calls into those that count no more, up to c[0], and one stretch for each tick,
\* which begins with an event and whose events are those that the tick counts.
Divided(c) ==
  /\ c[Len(ticks)] = Len(calls)
  /\ count = Events((c[0] + 1) .. Len(calls))
  /\ \A k \in 1 .. Len(ticks) :
       /\ c[k - 1] < c[k]
       /\ calls[c[k - 1] + 1].event
       /\ ticks[k].count = Events((c[k - 1] + 1) .. c[k])
       /\ \A i \in (c[k - 1] + 1) .. c[k] : calls[i].event => calls[i].time = ticks[k].time

\* What counts no more had expired at some call.
Gone(c) == \A i \in 1 .. c[0] : calls[i].event => ~ Fresh(i)

\* A tick that had expired at a call and is still there stands behind one that had not, unless
\* the loop has just taken that one off: then it goes, too.
Kept(c) ==
  \A k \in 1 .. Len(ticks) : \A j \in (c[k - 1] + 1) .. Adjusted :
    ticks[k].time <= Ttl(j) =>
      \/ \E l \in 1 .. (k - 1) : Ttl(j) < ticks[l].time
      \/ pc = "adjust" /\ Ttl(j) < get_ttl_time(base_time)

Cuts == [0 .. Len(ticks) -> 0 .. Len(calls)]
TicksInv == \E c \in Cuts : Divided(c) /\ Gone(c) /\ Kept(c)

\* Two ticks in a row are of different periods.
TicksDiffer == \A k \in 1 .. (Len(ticks) - 1) : ticks[k].time # ticks[k + 1].time

\* The period of the last call.
CallInv ==
  /\ calls # <<>> => base_time = calls[Len(calls)].time
  /\ pc = "adjust" => calls # <<>>

IInv == TypeOK /\ CallInv /\ TicksDiffer /\ TicksInv

-----------------------------------------------------------------------------
(* Counting the events of some calls. *)

EventsOf(q, S) == Cardinality({i \in S : q[i].event})

LEMMA EventsType ==
  ASSUME NEW q, NEW a \in Int, NEW b \in Int
  PROVE  IsFiniteSet({i \in a .. b : q[i].event}) /\ EventsOf(q, a .. b) \in Nat
<1>1. IsFiniteSet(a .. b)
  BY FS_Interval
<1>2. {i \in a .. b : q[i].event} \subseteq a .. b
  OBVIOUS
<1>3. IsFiniteSet({i \in a .. b : q[i].event})
  BY <1>1, <1>2, FS_Subset
<1> QED
  BY <1>3, FS_CardinalityType DEF EventsOf

\* Two stretches have as many events as the one that they make.
LEMMA EventsSplit ==
  ASSUME NEW q, NEW a \in Nat, NEW b \in Nat, NEW d \in Nat, a <= b, b <= d
  PROVE  EventsOf(q, (a + 1) .. b) + EventsOf(q, (b + 1) .. d) = EventsOf(q, (a + 1) .. d)
<1> DEFINE A == {i \in (a + 1) .. b : q[i].event}
           B == {i \in (b + 1) .. d : q[i].event}
           D == {i \in (a + 1) .. d : q[i].event}
<1>1. IsFiniteSet(A) /\ IsFiniteSet(B) /\ IsFiniteSet(D)
  <2>1. a + 1 \in Int /\ b + 1 \in Int /\ b \in Int /\ d \in Int
    OBVIOUS
  <2> QED
    BY <2>1, EventsType
<1>2. A \cup B = D
  OBVIOUS
<1>3. A \cap B = {}
  OBVIOUS
<1> HIDE DEF A, B, D
<1>4. Cardinality(A \cap B) = 0
  BY <1>3, FS_EmptySet
<1>5. Cardinality(A \cup B) = Cardinality(A) + Cardinality(B) - Cardinality(A \cap B)
  BY <1>1, FS_Union
<1>6. Cardinality(A) \in Nat /\ Cardinality(B) \in Nat
  BY <1>1, FS_CardinalityType
<1>7. Cardinality(D) = Cardinality(A) + Cardinality(B)
  <2>1. Cardinality(D) = Cardinality(A) + Cardinality(B) - 0
    BY <1>2, <1>4, <1>5
  <2> QED
    BY <1>6, <2>1
<1> QED
  BY <1>7 DEF EventsOf, A, B, D

LEMMA EventsNone ==
  ASSUME NEW q, NEW a \in Int, NEW b \in Int, b < a
  PROVE  EventsOf(q, a .. b) = 0
<1>1. {i \in a .. b : q[i].event} = {}
  OBVIOUS
<1> QED
  BY <1>1, FS_EmptySet DEF EventsOf

\* One call more.
LEMMA EventsLast ==
  ASSUME NEW q, NEW a \in Nat, NEW d \in Nat, a <= d, q[d + 1].event \in BOOLEAN
  PROVE  EventsOf(q, (a + 1) .. (d + 1)) =
           EventsOf(q, (a + 1) .. d) + (IF q[d + 1].event THEN 1 ELSE 0)
<1>1. EventsOf(q, (a + 1) .. d) + EventsOf(q, (d + 1) .. (d + 1)) = EventsOf(q, (a + 1) .. (d + 1))
  <2>1. PICK e \in Nat : e = d + 1
    OBVIOUS
  <2>2. d <= e
    BY <2>1
  <2>3. EventsOf(q, (a + 1) .. d) + EventsOf(q, (d + 1) .. e) = EventsOf(q, (a + 1) .. e)
    BY <2>2, EventsSplit
  <2> QED
    BY <2>1, <2>3
<1>2. EventsOf(q, (d + 1) .. (d + 1)) = IF q[d + 1].event THEN 1 ELSE 0
  <2>1. CASE q[d + 1].event
    <3>1. {i \in (d + 1) .. (d + 1) : q[i].event} = {d + 1}
      BY <2>1
    <3> QED
      BY <2>1, <3>1, FS_Singleton DEF EventsOf
  <2>2. CASE ~ q[d + 1].event
    <3>1. {i \in (d + 1) .. (d + 1) : q[i].event} = {}
      BY <2>2
    <3> QED
      BY <2>2, <3>1, FS_EmptySet DEF EventsOf
  <2> QED
    BY <2>1, <2>2
<1> QED
  BY <1>1, <1>2

\* The count looks at the calls of the stretch only.
LEMMA EventsSame ==
  ASSUME NEW q, NEW r, NEW S, \A i \in S : q[i] = r[i]
  PROVE  EventsOf(q, S) = EventsOf(r, S)
<1>1. {i \in S : q[i].event} = {i \in S : r[i].event}
  OBVIOUS
<1> QED
  BY <1>1 DEF EventsOf

-----------------------------------------------------------------------------
(* Times. *)

LEMMA Window ==
  /\ \A t \in Nat : get_ttl_time(t) \in Int
  /\ \A p, t \in Nat : InWindow(p, t) <=> get_ttl_time(t) < p
  /\ \A t, u \in Nat : t <= u => get_ttl_time(t) <= get_ttl_time(u)
<1>1. PICK w \in Nat : w = tic_per_sec * tic_max_cnt
  OBVIOUS
<1> QED
  BY <1>1 DEF get_ttl_time, InWindow

\* The time of a call is rounded to its period.
LEMMA Rounded ==
  ASSUME NEW t \in 0 .. MaxTime
  PROVE  get_base_time_by_time(tic_per_sec, t) \in Periods
<1> DEFINE n == t \div tic_per_sec
           b == get_base_time_by_time(tic_per_sec, t)
<1>1. n \in Nat /\ t = tic_per_sec * n + (t % tic_per_sec) /\ t % tic_per_sec \in Nat
  <2>1. t \in Int /\ 0 <= t /\ tic_per_sec \in Int /\ tic_per_sec > 0
    OBVIOUS
  <2>2. n \in Int /\ t % tic_per_sec \in Int /\ 0 <= t % tic_per_sec
    BY <2>1
  <2>3. t = tic_per_sec * n + (t % tic_per_sec)
    BY <2>1
  <2>4. n >= 0
    BY <2>1
  <2> QED
    BY <2>2, <2>3, <2>4
<1>2. b = tic_per_sec * n
  BY <1>1 DEF get_base_time_by_time
<1>3. n <= tic_per_sec * n
  BY <1>1
<1>4. b \in 0 .. MaxTime /\ n \in 0 .. MaxTime
  BY <1>1, <1>2, <1>3
<1> QED
  BY <1>2, <1>4 DEF Periods

\* What TypeOK says of the lists.
LEMMA Typed ==
  ASSUME TypeOK
  PROVE  /\ Len(ticks) \in Nat /\ Len(calls) \in Nat
         /\ DOMAIN calls = 1 .. Len(calls)
         /\ \A k \in 1 .. Len(ticks) : ticks[k].time \in Nat /\ ticks[k].time \in Periods
                                       /\ ticks[k].count \in Nat \ {0}
         /\ \A i \in 1 .. Len(calls) : /\ calls[i].time \in Nat /\ calls[i].time \in Periods
                                       /\ calls[i].event \in BOOLEAN
                                       /\ Ttl(i) \in Int
         /\ base_time \in Nat /\ count \in Nat
         /\ get_ttl_time(base_time) \in Int
<1>1. ticks \in Seq([time : Periods, count : Nat \ {0}]) /\ calls \in Seq([time : Periods, event : BOOLEAN])
      /\ base_time \in Periods /\ count \in Nat
  BY DEF TypeOK
<1>2. Len(ticks) \in Nat /\ Len(calls) \in Nat /\ DOMAIN calls = 1 .. Len(calls)
  BY <1>1
<1>3. \A k \in 1 .. Len(ticks) : ticks[k] \in [time : Periods, count : Nat \ {0}]
  BY <1>1, ElementOfSeq
<1>4. \A i \in 1 .. Len(calls) : calls[i] \in [time : Periods, event : BOOLEAN]
  BY <1>1, ElementOfSeq
<1>5. \A p \in Periods : p \in Nat
  BY DEF Periods
<1>6. \A i \in 1 .. Len(calls) : Ttl(i) \in Int
  BY <1>4, <1>5, Window DEF Ttl
<1> QED
  BY <1>1, <1>2, <1>3, <1>4, <1>5, <1>6, Window

-----------------------------------------------------------------------------
(* The steps: a call up to cq_adjust. *)

\* What a call adds to the history, and what it leaves alone.
LEMMA CallFacts ==
  ASSUME TypeOK, NEW t \in 0 .. MaxTime, NEW e \in BOOLEAN, Call(t, e)
  PROVE  /\ Len(calls') = Len(calls) + 1
         /\ \A i \in 1 .. Len(calls) : calls'[i] = calls[i]
         /\ calls'[Len(calls) + 1].time = base_time'
         /\ calls'[Len(calls) + 1].event = e
         /\ calls' \in Seq([time : Periods, event : BOOLEAN])
         /\ base_time' \in Periods
         /\ pc = "idle" /\ pc' = "adjust"
         /\ Adjusted = Len(calls) /\ Adjusted' = Len(calls)
<1>1. base_time' \in Periods
  BY Rounded DEF Call
<1>2. PICK x \in [time : Periods, event : BOOLEAN] : x = [time |-> base_time', event |-> e]
  BY <1>1
<1>3. calls' = Append(calls, x) /\ calls \in Seq([time : Periods, event : BOOLEAN])
  BY <1>2 DEF Call, TypeOK
<1>4. /\ Len(calls') = Len(calls) + 1
      /\ \A i \in 1 .. Len(calls) : calls'[i] = calls[i]
      /\ calls'[Len(calls) + 1] = x
      /\ calls' \in Seq([time : Periods, event : BOOLEAN])
  BY <1>3, AppendProperties
<1>5. pc = "idle" /\ pc' = "adjust"
  BY DEF Call
<1>6. Len(calls') - 1 = Len(calls)
  BY <1>3, <1>4
<1>7. Adjusted = Len(calls) /\ Adjusted' = Len(calls)
  BY <1>5, <1>6 DEF Adjusted
<1> QED
  BY <1>1, <1>2, <1>4, <1>5, <1>7

\* What it means for the events counted and for the window.
LEMMA CallEvents ==
  ASSUME TypeOK, NEW t \in 0 .. MaxTime, NEW e \in BOOLEAN, Call(t, e)
  PROVE  /\ \A j \in 1 .. Len(calls) : Ttl(j)' = Ttl(j)
         /\ \A a \in 0 .. Len(calls) : \A b \in 0 .. Len(calls) :
              Events((a + 1) .. b)' = Events((a + 1) .. b)
         /\ \A a \in 0 .. Len(calls) :
              Events((a + 1) .. Len(calls))' = Events((a + 1) .. Len(calls)) + (IF e THEN 1 ELSE 0)
         /\ \A i \in 1 .. Len(calls) : Fresh(i)' => Fresh(i)
<1>1. PICK q, r : q = calls /\ r = calls'
  OBVIOUS
<1>2. PICK m \in Nat : m = Len(calls)
  BY Typed
<1>3. /\ Len(r) = m + 1
      /\ \A i \in 1 .. m : r[i] = q[i]
      /\ r[m + 1].event = e
  BY <1>1, <1>2, CallFacts
<1>4. \A j \in 1 .. m : Ttl(j)' = Ttl(j)
  BY <1>1, <1>3 DEF Ttl
<1>5. ASSUME NEW a \in 0 .. m, NEW b \in 0 .. m
      PROVE  EventsOf(r, (a + 1) .. b) = EventsOf(q, (a + 1) .. b)
  <2>1. \A i \in (a + 1) .. b : r[i] = q[i]
    BY <1>3
  <2> QED
    BY <2>1, EventsSame
<1>6. ASSUME NEW a \in 0 .. m
      PROVE  EventsOf(r, (a + 1) .. (m + 1)) = EventsOf(q, (a + 1) .. m) + (IF e THEN 1 ELSE 0)
  <2>1. EventsOf(r, (a + 1) .. (m + 1)) = EventsOf(r, (a + 1) .. m) + (IF r[m + 1].event THEN 1 ELSE 0)
    BY <1>3, EventsLast
  <2>2. EventsOf(r, (a + 1) .. m) = EventsOf(q, (a + 1) .. m)
    BY <1>5
  <2> QED
    BY <1>3, <2>1, <2>2
<1>7. ASSUME NEW i \in 1 .. m, Fresh(i)' PROVE Fresh(i)
  <2>1. \A j \in i .. (m + 1) : InWindow(r[i].time, r[j].time)
    BY <1>1, <1>3, <1>7 DEF Fresh
  <2>2. \A j \in i .. m : InWindow(q[i].time, q[j].time)
    BY <1>3, <2>1
  <2> QED
    BY <1>1, <1>2, <2>2 DEF Fresh
<1>8. \A S : Events(S) = EventsOf(q, S) /\ Events(S)' = EventsOf(r, S)
  BY <1>1 DEF Events, EventsOf
<1>9. \A a \in 0 .. Len(calls) : \A b \in 0 .. Len(calls) :
        Events((a + 1) .. b)' = Events((a + 1) .. b)
  BY <1>2, <1>5, <1>8
<1>10. \A a \in 0 .. Len(calls) :
         Events((a + 1) .. Len(calls))' = Events((a + 1) .. Len(calls)) + (IF e THEN 1 ELSE 0)
  <2>1. ASSUME NEW a \in 0 .. Len(calls)
        PROVE  Events((a + 1) .. Len(calls))' = Events((a + 1) .. Len(calls)) + (IF e THEN 1 ELSE 0)
    <3>0. a \in 0 .. m
      BY <1>2
    <3>1. EventsOf(r, (a + 1) .. (m + 1)) = EventsOf(q, (a + 1) .. m) + (IF e THEN 1 ELSE 0)
      BY <1>6, <3>0
    <3>2. Events((a + 1) .. Len(calls))' = EventsOf(r, (a + 1) .. (m + 1))
      BY <1>1, <1>3, <1>8
    <3>3. Events((a + 1) .. m) = EventsOf(q, (a + 1) .. m)
      BY <1>8
    <3> QED
      BY <1>2, <3>1, <3>2, <3>3
  <2> QED
    BY <2>1
<1>11. /\ \A j \in 1 .. Len(calls) : Ttl(j)' = Ttl(j)
       /\ \A i \in 1 .. Len(calls) : Fresh(i)' => Fresh(i)
  BY <1>2, <1>4, <1>7
<1> QED
  BY <1>9, <1>10, <1>11

\* The call belongs to the last stretch: its tick counts it, or there is nothing to count.
LEMMA Stretched ==
  ASSUME TypeOK, TicksInv, NEW t \in 0 .. MaxTime, NEW e \in BOOLEAN, Call(t, e),
         NEW x \in Nat, x = (IF e THEN 1 ELSE 0),
         Len(ticks') = Len(ticks),
         \A k \in 1 .. Len(ticks) : /\ ticks'[k].time = ticks[k].time
                                    /\ k < Len(ticks) => ticks'[k].count = ticks[k].count
                                    /\ k = Len(ticks) => ticks'[k].count = ticks[k].count + x,
         count' = count + x,
         e => Len(ticks) > 0 /\ ticks[Len(ticks)].time = base_time'
  PROVE  TicksInv'
<1>1. PICK c \in Cuts : Divided(c) /\ Gone(c) /\ Kept(c)
  BY DEF TicksInv
<1>2. PICK n \in Nat, m \in Nat : n = Len(ticks) /\ m = Len(calls)
  BY Typed
<1>3. c \in [0 .. n -> 0 .. m] /\ c[n] = m
  BY <1>1, <1>2 DEF Cuts, Divided
<1>4. PICK d : d = [c EXCEPT ![n] = m + 1]
  OBVIOUS
<1>5. /\ d \in [0 .. n -> 0 .. (m + 1)]
      /\ d[n] = m + 1
      /\ \A k \in 0 .. n : k < n => d[k] = c[k]
      /\ \A k \in 1 .. n : d[k - 1] = c[k - 1]
  <2>1. \A k \in 0 .. n : d[k] = IF k = n THEN m + 1 ELSE c[k]
    BY <1>3, <1>4
  <2>2. d = [k \in 0 .. n |-> IF k = n THEN m + 1 ELSE c[k]]
    BY <1>3, <1>4
  <2>3. \A k \in 0 .. n : (IF k = n THEN m + 1 ELSE c[k]) \in 0 .. (m + 1)
    BY <1>3
  <2>4. d \in [0 .. n -> 0 .. (m + 1)]
    BY <2>2, <2>3
  <2> QED
    BY <2>1, <2>4
<1>6. /\ Len(calls') = m + 1 /\ Len(ticks') = n
      /\ \A i \in 1 .. m : calls'[i] = calls[i]
      /\ calls'[m + 1].time = base_time' /\ calls'[m + 1].event = e
      /\ Adjusted = m /\ Adjusted' = m
      /\ pc = "idle" /\ pc' = "adjust"
  BY <1>2, CallFacts
<1>7. /\ \A j \in 1 .. m : Ttl(j)' = Ttl(j)
      /\ \A a \in 0 .. m : \A b \in 0 .. m : Events((a + 1) .. b)' = Events((a + 1) .. b)
      /\ \A a \in 0 .. m : Events((a + 1) .. Len(calls))' = Events((a + 1) .. m) + x
      /\ \A i \in 1 .. m : Fresh(i)' => Fresh(i)
  BY <1>2, CallEvents
<1> HIDE DEF Ttl, Events, Fresh, Adjusted
<1>8. Divided(d)'
  <2>1. d[Len(ticks')] = Len(calls')
    BY <1>5, <1>6
  <2>2. (count = Events((d[0] + 1) .. Len(calls)))'
    <3>1. CASE n = 0
      <4>1. count = Events((m + 1) .. m) /\ d[0] = m + 1 /\ ~ e /\ x = 0
        BY <1>1, <1>2, <1>3, <1>5, <3>1 DEF Divided
      <4>2. Events((m + 1) .. m) = 0
        <5>1. EventsOf(calls, (m + 1) .. m) = 0
          BY EventsNone
        <5> QED
          BY <5>1 DEF Events, EventsOf
      <4>3. EventsOf(calls', (m + 2) .. (m + 1)) = 0
        <5>1. PICK q : q = calls'
          OBVIOUS
        <5>2. EventsOf(q, (m + 2) .. (m + 1)) = 0
          BY EventsNone
        <5> QED
          BY <5>1, <5>2
      <4>4. Events((m + 2) .. (m + 1))' = 0
        BY <4>3 DEF Events, EventsOf
      <4>5. count' = 0
        BY <4>1, <4>2
      <4> QED
        BY <1>6, <4>1, <4>4, <4>5
    <3>2. CASE n # 0
      <4>1. d[0] = c[0] /\ c[0] \in 0 .. m
        BY <1>3, <1>5, <3>2
      <4>2. Events((c[0] + 1) .. Len(calls))' = Events((c[0] + 1) .. m) + x
        BY <1>7, <4>1
      <4>3. count = Events((c[0] + 1) .. m)
        BY <1>1, <1>2 DEF Divided
      <4> QED
        BY <4>1, <4>2, <4>3
    <3> QED
      BY <3>1, <3>2
  <2>3. ASSUME NEW k \in 1 .. n
        PROVE  /\ d[k - 1] < d[k]
               /\ calls'[d[k - 1] + 1].event
               /\ ticks'[k].count = Events((d[k - 1] + 1) .. d[k])'
               /\ \A i \in (d[k - 1] + 1) .. d[k] : calls'[i].event => calls'[i].time = ticks'[k].time
    <3>1. /\ c[k - 1] < c[k] /\ c[k - 1] \in 0 .. m /\ c[k] \in 0 .. m
          /\ calls[c[k - 1] + 1].event
          /\ ticks[k].count = Events((c[k - 1] + 1) .. c[k])
          /\ \A i \in (c[k - 1] + 1) .. c[k] : calls[i].event => calls[i].time = ticks[k].time
      <4>1. k - 1 \in 0 .. n /\ k \in 0 .. n
        OBVIOUS
      <4>2. c[k - 1] \in 0 .. m /\ c[k] \in 0 .. m
        BY <1>3, <4>1
      <4> QED
        BY <1>1, <1>2, <4>2 DEF Divided
    <3>2. d[k - 1] = c[k - 1]
      BY <1>5
    <3>3. calls'[d[k - 1] + 1].event
      BY <1>6, <3>1, <3>2
    <3>4. CASE k < n
      <4>1. d[k] = c[k] /\ ticks'[k].count = ticks[k].count /\ ticks'[k].time = ticks[k].time
        BY <1>2, <1>5, <3>4
      <4>2. Events((c[k - 1] + 1) .. c[k])' = Events((c[k - 1] + 1) .. c[k])
        BY <1>7, <3>1
      <4>3. \A i \in (c[k - 1] + 1) .. c[k] : calls'[i] = calls[i]
        BY <1>6, <3>1
      <4> QED
        BY <3>1, <3>2, <3>3, <4>1, <4>2, <4>3
    <3>5. CASE k = n
      <4>1. c[k] = m /\ d[k] = m + 1 /\ ticks'[k].time = ticks[k].time /\ ticks'[k].count = ticks[k].count + x
        BY <1>2, <1>3, <1>5, <3>5
      <4>2. Events((c[k - 1] + 1) .. Len(calls))' = Events((c[k - 1] + 1) .. m) + x
        BY <1>7, <3>1
      <4>3. Events((d[k - 1] + 1) .. d[k])' = Events((c[k - 1] + 1) .. m) + x
        BY <1>6, <3>2, <4>1, <4>2
      <4>4. \A i \in (c[k - 1] + 1) .. (m + 1) : calls'[i].event => calls'[i].time = ticks'[k].time
        <5>1. ASSUME NEW i \in (c[k - 1] + 1) .. (m + 1), calls'[i].event
              PROVE  calls'[i].time = ticks'[k].time
          <6>1. CASE i = m + 1
            BY <1>2, <1>6, <3>5, <4>1, <5>1, <6>1
          <6>2. CASE i # m + 1
            <7>1. i \in 1 .. m /\ i \in (c[k - 1] + 1) .. c[k]
              BY <3>1, <4>1, <6>2
            <7> QED
              BY <1>6, <3>1, <4>1, <5>1, <7>1
          <6> QED
            BY <6>1, <6>2
        <5> QED
          BY <5>1
      <4> QED
        BY <3>1, <3>2, <3>3, <4>1, <4>3, <4>4
    <3> QED
      BY <3>4, <3>5
  <2> QED
    BY <1>6, <2>1, <2>2, <2>3 DEF Divided
<1>9. Gone(d)'
  <2>1. ASSUME NEW i \in 1 .. d[0], calls'[i].event PROVE ~ Fresh(i)'
    <3>1. CASE n = 0
      <4>1. c[0] = m /\ d[0] = m + 1 /\ ~ e
        BY <1>2, <1>3, <1>5, <3>1
      <4>2. i # m + 1 /\ i \in 1 .. m
        BY <1>6, <2>1, <4>1
      <4> QED
        BY <1>1, <1>6, <1>7, <2>1, <4>1, <4>2 DEF Gone
    <3>2. CASE n # 0
      <4>1. d[0] = c[0] /\ c[0] \in 0 .. m
        BY <1>3, <1>5, <3>2
      <4>2. i \in 1 .. m
        BY <4>1
      <4> QED
        BY <1>1, <1>6, <1>7, <2>1, <4>1, <4>2 DEF Gone
    <3> QED
      BY <3>1, <3>2
  <2> QED
    BY <2>1 DEF Gone
<1>10. Kept(d)'
  <2>1. ASSUME NEW k \in 1 .. n, NEW j \in (d[k - 1] + 1) .. m, ticks'[k].time <= Ttl(j)'
        PROVE  \E l \in 1 .. (k - 1) : Ttl(j)' < ticks'[l].time
    <3>1. d[k - 1] = c[k - 1] /\ c[k - 1] \in 0 .. m
      BY <1>3, <1>5
    <3>2. j \in 1 .. m /\ j \in (c[k - 1] + 1) .. Adjusted
      BY <1>6, <3>1
    <3>3. Ttl(j)' = Ttl(j) /\ ticks'[k].time = ticks[k].time
      BY <1>2, <1>7, <3>2
    <3>4. PICK l \in 1 .. (k - 1) : Ttl(j) < ticks[l].time
      BY <1>1, <1>2, <1>6, <2>1, <3>2, <3>3 DEF Kept
    <3>5. ticks'[l].time = ticks[l].time
      BY <1>2
    <3> QED
      BY <3>3, <3>4, <3>5
  <2> QED
    BY <1>6, <2>1 DEF Kept
<1>11. d \in Cuts'
  BY <1>5, <1>6 DEF Cuts
<1> QED
  BY <1>8, <1>9, <1>10, <1>11 DEF TicksInv

\* A tick of its own for a new period.
LEMMA Appended ==
  ASSUME TypeOK, TicksInv, NEW t \in 0 .. MaxTime, Call(t, TRUE),
         Len(ticks') = Len(ticks) + 1,
         \A k \in 1 .. Len(ticks) : ticks'[k] = ticks[k],
         ticks'[Len(ticks) + 1].time = base_time', ticks'[Len(ticks) + 1].count = 1,
         count' = count + 1
  PROVE  TicksInv'
<1>1. PICK c \in Cuts : Divided(c) /\ Gone(c) /\ Kept(c)
  BY DEF TicksInv
<1>2. PICK n \in Nat, m \in Nat : n = Len(ticks) /\ m = Len(calls)
  BY Typed
<1>3. c \in [0 .. n -> 0 .. m] /\ c[n] = m
  BY <1>1, <1>2 DEF Cuts, Divided
<1>4. PICK d : d = [k \in 0 .. (n + 1) |-> IF k = n + 1 THEN m + 1 ELSE c[k]]
  OBVIOUS
<1>5. /\ d \in [0 .. (n + 1) -> 0 .. (m + 1)]
      /\ d[n + 1] = m + 1
      /\ \A k \in 0 .. n : d[k] = c[k]
      /\ \A k \in 1 .. (n + 1) : d[k - 1] = c[k - 1]
  <2>1. \A k \in 0 .. (n + 1) : d[k] = IF k = n + 1 THEN m + 1 ELSE c[k]
    BY <1>4
  <2>2. \A k \in 0 .. (n + 1) : (IF k = n + 1 THEN m + 1 ELSE c[k]) \in 0 .. (m + 1)
    BY <1>3
  <2>3. d \in [0 .. (n + 1) -> 0 .. (m + 1)]
    BY <1>4, <2>2
  <2> QED
    BY <2>1, <2>3
<1>6. /\ Len(calls') = m + 1 /\ Len(ticks') = n + 1
      /\ \A i \in 1 .. m : calls'[i] = calls[i]
      /\ calls'[m + 1].time = base_time' /\ calls'[m + 1].event = TRUE
      /\ Adjusted = m /\ Adjusted' = m
      /\ pc = "idle" /\ pc' = "adjust"
  BY <1>2, CallFacts
<1>7. /\ \A j \in 1 .. m : Ttl(j)' = Ttl(j)
      /\ \A a \in 0 .. m : \A b \in 0 .. m : Events((a + 1) .. b)' = Events((a + 1) .. b)
      /\ \A a \in 0 .. m : Events((a + 1) .. Len(calls))' = Events((a + 1) .. m) + 1
      /\ \A i \in 1 .. m : Fresh(i)' => Fresh(i)
  <2>1. 1 = (IF TRUE THEN 1 ELSE 0)
    OBVIOUS
  <2> QED
    BY <1>2, <2>1, CallEvents
<1> HIDE DEF Ttl, Events, Fresh, Adjusted
<1>8. Divided(d)'
  <2>1. d[Len(ticks')] = Len(calls')
    BY <1>5, <1>6
  <2>2. (count = Events((d[0] + 1) .. Len(calls)))'
    <3>1. d[0] = c[0] /\ c[0] \in 0 .. m
      BY <1>3, <1>5
    <3>2. Events((c[0] + 1) .. Len(calls))' = Events((c[0] + 1) .. m) + 1
      BY <1>7, <3>1
    <3>3. count = Events((c[0] + 1) .. m)
      BY <1>1, <1>2 DEF Divided
    <3> QED
      BY <3>1, <3>2, <3>3
  <2>3. ASSUME NEW k \in 1 .. (n + 1)
        PROVE  /\ d[k - 1] < d[k]
               /\ calls'[d[k - 1] + 1].event
               /\ ticks'[k].count = Events((d[k - 1] + 1) .. d[k])'
               /\ \A i \in (d[k - 1] + 1) .. d[k] : calls'[i].event => calls'[i].time = ticks'[k].time
    <3>1. CASE k \in 1 .. n
      <4>1. k - 1 \in 0 .. n /\ k \in 0 .. n
        BY <3>1
      <4>2. c[k - 1] \in 0 .. m /\ c[k] \in 0 .. m
        BY <1>3, <4>1
      <4>3. /\ c[k - 1] < c[k]
            /\ calls[c[k - 1] + 1].event
            /\ ticks[k].count = Events((c[k - 1] + 1) .. c[k])
            /\ \A i \in (c[k - 1] + 1) .. c[k] : calls[i].event => calls[i].time = ticks[k].time
        BY <1>1, <1>2, <3>1 DEF Divided
      <4>4. d[k - 1] = c[k - 1] /\ d[k] = c[k] /\ ticks'[k] = ticks[k]
        BY <1>2, <1>5, <3>1, <4>1
      <4>5. Events((c[k - 1] + 1) .. c[k])' = Events((c[k - 1] + 1) .. c[k])
        BY <1>7, <4>2
      <4>6. \A i \in (c[k - 1] + 1) .. c[k] : calls'[i] = calls[i]
        BY <1>6, <4>2
      <4>7. calls'[c[k - 1] + 1] = calls[c[k - 1] + 1]
        BY <1>6, <4>2, <4>3
      <4> QED
        BY <4>3, <4>4, <4>5, <4>6, <4>7
    <3>2. CASE k = n + 1
      <4>1. d[k - 1] = m /\ d[k] = m + 1
        BY <1>3, <1>5, <3>2
      <4>2. ticks'[k].time = base_time' /\ ticks'[k].count = 1
        BY <1>2, <3>2
      <4>3. Events((m + 1) .. Len(calls))' = Events((m + 1) .. m) + 1
        BY <1>7
      <4>4. Events((m + 1) .. m) = 0
        <5>1. EventsOf(calls, (m + 1) .. m) = 0
          BY EventsNone
        <5> QED
          BY <5>1 DEF Events, EventsOf
      <4>5. Events((m + 1) .. (m + 1))' = 1
        BY <1>6, <4>3, <4>4
      <4>6. \A i \in (m + 1) .. (m + 1) : calls'[i].time = base_time'
        BY <1>6
      <4> QED
        BY <1>6, <4>1, <4>2, <4>5, <4>6
    <3> QED
      BY <3>1, <3>2
  <2> QED
    BY <1>6, <2>1, <2>2, <2>3 DEF Divided
<1>9. Gone(d)'
  <2>1. d[0] = c[0] /\ c[0] \in 0 .. m
    BY <1>3, <1>5
  <2>2. ASSUME NEW i \in 1 .. d[0], calls'[i].event PROVE ~ Fresh(i)'
    <3>1. i \in 1 .. m
      BY <2>1
    <3> QED
      BY <1>1, <1>6, <1>7, <2>1, <2>2, <3>1 DEF Gone
  <2> QED
    BY <2>2 DEF Gone
<1>10. Kept(d)'
  <2>1. ASSUME NEW k \in 1 .. (n + 1), NEW j \in (d[k - 1] + 1) .. m, ticks'[k].time <= Ttl(j)'
        PROVE  \E l \in 1 .. (k - 1) : Ttl(j)' < ticks'[l].time
    <3>1. d[k - 1] = c[k - 1] /\ c[k - 1] \in 0 .. m
      BY <1>3, <1>5
    <3>2. j \in 1 .. m /\ j \in (c[k - 1] + 1) .. Adjusted
      BY <1>6, <3>1
    <3>3. k # n + 1
      BY <1>3, <3>1, <3>2
    <3>4. k \in 1 .. n
      BY <3>3
    <3>5. Ttl(j)' = Ttl(j) /\ ticks'[k] = ticks[k]
      BY <1>2, <1>7, <3>2, <3>4
    <3>6. PICK l \in 1 .. (k - 1) : Ttl(j) < ticks[l].time
      BY <1>1, <1>2, <1>6, <2>1, <3>2, <3>4, <3>5 DEF Kept
    <3>7. ticks'[l] = ticks[l]
      BY <1>2
    <3> QED
      BY <3>5, <3>6, <3>7
  <2> QED
    BY <1>6, <2>1 DEF Kept
<1>11. d \in Cuts'
  BY <1>5, <1>6 DEF Cuts
<1> QED
  BY <1>8, <1>9, <1>10, <1>11 DEF TicksInv

-----------------------------------------------------------------------------
(* The steps: cq_adjust. *)

\* In cq_adjust the last call is the one that is being adjusted.
LEMMA Adjusting ==
  ASSUME TypeOK, CallInv, pc = "adjust"
  PROVE  /\ Len(calls) \in 1 .. Len(calls)
         /\ Adjusted = Len(calls) - 1
         /\ base_time = calls[Len(calls)].time
         /\ Ttl(Len(calls)) = get_ttl_time(base_time)
<1>1. calls # <<>> /\ Len(calls) \in Nat /\ calls \in Seq([time : Periods, event : BOOLEAN])
  BY Typed DEF CallInv, TypeOK
<1>2. Len(calls) # 0
  BY <1>1, EmptySeq
<1>3. base_time = calls[Len(calls)].time
  BY <1>1 DEF CallInv
<1> QED
  BY <1>1, <1>2, <1>3 DEF Adjusted, Ttl

\* What the first tick counts has expired.
LEMMA Shortened ==
  ASSUME TypeOK, CallInv, TicksInv, Expire
  PROVE  TicksInv'
<1>1. PICK c \in Cuts : Divided(c) /\ Gone(c) /\ Kept(c)
  BY DEF TicksInv
<1>2. PICK n \in Nat, m \in Nat : n = Len(ticks) /\ m = Len(calls)
  BY Typed
<1>3. ticks \in Seq([time : Periods, count : Nat \ {0}]) /\ ticks # <<>>
  BY DEF TypeOK, Expire, Expired
<1>4. /\ n > 0 /\ Len(ticks') = n - 1
      /\ \A k \in 1 .. (n - 1) : ticks'[k] = ticks[k + 1]
      /\ Head(ticks) = ticks[1]
  BY <1>2, <1>3, EmptySeq, HeadTailProperties DEF Expire
<1>5. /\ pc = "adjust" /\ pc' = "adjust"
      /\ base_time' = base_time /\ calls' = calls
      /\ count' = count - ticks[1].count
      /\ ticks[1].time <= get_ttl_time(base_time)
  BY <1>4 DEF Expire, Expired
<1>6. /\ m > 0 /\ Adjusted = m - 1 /\ Adjusted' = m - 1
      /\ base_time = calls[m].time
  <2>1. m > 0 /\ Adjusted = m - 1 /\ base_time = calls[m].time
    BY <1>2, <1>5, Adjusting
  <2> QED
    BY <1>2, <1>5, <2>1 DEF Adjusted
<1>7. /\ c \in [0 .. n -> 0 .. m] /\ c[n] = m
      /\ count = Events((c[0] + 1) .. m)
      /\ \A k \in 0 .. n : c[k] \in 0 .. m
  BY <1>1, <1>2 DEF Cuts, Divided
<1>8. PICK d : d = [k \in 0 .. (n - 1) |-> c[k + 1]]
  OBVIOUS
<1>9. /\ d \in [0 .. (n - 1) -> 0 .. m]
      /\ d[n - 1] = m /\ d[0] = c[1]
      /\ \A k \in 1 .. (n - 1) : d[k - 1] = c[k] /\ d[k] = c[k + 1]
  <2>1. \A k \in 0 .. (n - 1) : d[k] = c[k + 1] /\ c[k + 1] \in 0 .. m
    BY <1>7, <1>8
  <2>2. d \in [0 .. (n - 1) -> 0 .. m]
    BY <1>8, <2>1
  <2>3. n - 1 \in 0 .. (n - 1) /\ 0 \in 0 .. (n - 1) /\ n - 1 + 1 = n
    BY <1>4
  <2>4. d[n - 1] = m /\ d[0] = c[1]
    BY <1>7, <2>1, <2>3
  <2>5. ASSUME NEW k \in 1 .. (n - 1) PROVE d[k - 1] = c[k] /\ d[k] = c[k + 1]
    <3>1. k - 1 \in 0 .. (n - 1) /\ k \in 0 .. (n - 1) /\ k - 1 + 1 = k
      OBVIOUS
    <3> QED
      BY <2>1, <3>1
  <2> QED
    BY <2>2, <2>4, <2>5
<1>10. /\ \A j : Ttl(j)' = Ttl(j)
       /\ \A i : Fresh(i)' <=> Fresh(i)
  BY <1>5 DEF Ttl, Fresh
<1>11. \A a \in Int : \A b \in Int : Events(a .. b)' = Events(a .. b)
  BY <1>5 DEF Events
<1>12. /\ c[0] < c[1] /\ ticks[1].count = Events((c[0] + 1) .. c[1])
       /\ \A i \in (c[0] + 1) .. c[1] : calls[i].event => calls[i].time = ticks[1].time
  <2>1. 1 \in 1 .. Len(ticks) /\ 1 - 1 = 0
    BY <1>2, <1>4
  <2> QED
    BY <1>1, <2>1 DEF Divided
<1>13. Divided(d)'
  <2>1. Events((c[0] + 1) .. c[1]) + Events((c[1] + 1) .. m) = Events((c[0] + 1) .. m)
    <3>1. c[0] \in Nat /\ c[1] \in Nat /\ c[0] <= c[1] /\ c[1] <= m
      BY <1>4, <1>7, <1>12
    <3>2. EventsOf(calls, (c[0] + 1) .. c[1]) + EventsOf(calls, (c[1] + 1) .. m)
            = EventsOf(calls, (c[0] + 1) .. m)
      BY <3>1, EventsSplit
    <3> QED
      BY <3>2 DEF Events, EventsOf
  <2>2. Events((c[1] + 1) .. m) \in Nat /\ Events((c[0] + 1) .. c[1]) \in Nat
    <3>1. PICK x, y, z \in Int : x = c[0] + 1 /\ y = c[1] + 1 /\ z = c[1]
      BY <1>4, <1>7
    <3>2. \A f, g \in Int : EventsOf(calls, f .. g) \in Nat
      BY EventsType
    <3>3. EventsOf(calls, y .. m) \in Nat /\ EventsOf(calls, x .. z) \in Nat
      BY <3>2
    <3> QED
      BY <3>1, <3>3 DEF Events, EventsOf
  <2>3. count' = Events((c[1] + 1) .. m)
    BY <1>5, <1>7, <1>12, <2>1, <2>2
  <2>4. count' = Events((d[0] + 1) .. Len(calls))'
    BY <1>2, <1>4, <1>5, <1>7, <1>9, <1>11, <2>3
  <2>5. ASSUME NEW k \in 1 .. (n - 1)
        PROVE  /\ d[k - 1] < d[k]
               /\ calls'[d[k - 1] + 1].event
               /\ ticks'[k].count = Events((d[k - 1] + 1) .. d[k])'
               /\ \A i \in (d[k - 1] + 1) .. d[k] : calls'[i].event => calls'[i].time = ticks'[k].time
    <3>1. PICK h \in 1 .. n : h = k + 1 /\ h - 1 = k
      OBVIOUS
    <3>2. /\ c[h - 1] < c[h]
          /\ calls[c[h - 1] + 1].event
          /\ ticks[h].count = Events((c[h - 1] + 1) .. c[h])
          /\ \A i \in (c[h - 1] + 1) .. c[h] : calls[i].event => calls[i].time = ticks[h].time
      BY <1>1, <1>2 DEF Divided
    <3>3. d[k - 1] = c[h - 1] /\ d[k] = c[h] /\ ticks'[k] = ticks[h]
      BY <1>4, <1>9, <3>1
    <3>4. c[h - 1] + 1 \in Int /\ c[h] \in Int
      BY <1>7
    <3>5. Events((c[h - 1] + 1) .. c[h])' = Events((c[h - 1] + 1) .. c[h])
      BY <1>11, <3>4
    <3> QED
      BY <1>5, <3>2, <3>3, <3>5
  <2>6. d[Len(ticks')] = Len(calls')
    BY <1>2, <1>4, <1>5, <1>9
  <2> QED
    BY <1>4, <2>4, <2>5, <2>6 DEF Divided
<1>14. Gone(d)'
  <2>1. ASSUME NEW i \in 1 .. c[1], calls[i].event PROVE ~ Fresh(i)
    <3>1. CASE i <= c[0]
      BY <1>1, <1>4, <1>7, <2>1, <3>1 DEF Gone
    <3>2. CASE i > c[0]
      <4>1. i \in (c[0] + 1) .. c[1] /\ m \in i .. m
        BY <1>4, <1>7, <3>2
      <4>2. calls[i].time <= get_ttl_time(calls[m].time)
        BY <1>5, <1>6, <1>12, <2>1, <4>1
      <4>3. calls[i].time \in Nat /\ calls[m].time \in Nat /\ get_ttl_time(calls[m].time) \in Int
        BY <1>2, <1>4, <1>6, <1>7, <4>1, Typed
      <4>4. ~ InWindow(calls[i].time, calls[m].time)
        BY <4>2, <4>3, Window
      <4> QED
        BY <1>2, <4>1, <4>4 DEF Fresh
    <3> QED
      BY <1>4, <1>7, <3>1, <3>2
  <2> QED
    BY <1>5, <1>9, <1>10, <2>1 DEF Gone
<1>15. Kept(d)'
  <2>1. ASSUME NEW k \in 1 .. (n - 1), NEW j \in (d[k - 1] + 1) .. (m - 1), ticks'[k].time <= Ttl(j)
        PROVE  \/ \E l \in 1 .. (k - 1) : Ttl(j) < ticks'[l].time
               \/ Ttl(j) < get_ttl_time(base_time)
    <3>1. PICK h \in 1 .. n : h = k + 1 /\ h - 1 = k
      OBVIOUS
    <3>2. d[k - 1] = c[h - 1] /\ ticks'[k] = ticks[h]
      BY <1>4, <1>9, <3>1
    <3>3. c[h - 1] \in 0 .. m
      BY <1>7
    <3>4. j \in 1 .. m /\ Ttl(j) \in Int
      BY <1>2, <3>2, <3>3, Typed
    <3>5. \/ \E l \in 1 .. (h - 1) : Ttl(j) < ticks[l].time
          \/ Ttl(j) < get_ttl_time(base_time)
      BY <1>1, <1>2, <1>6, <2>1, <3>2 DEF Kept
    <3>6. CASE Ttl(j) < get_ttl_time(base_time)
      BY <3>6
    <3>7. ASSUME NEW l \in 1 .. (h - 1), Ttl(j) < ticks[l].time
          PROVE  \/ \E z \in 1 .. (k - 1) : Ttl(j) < ticks'[z].time
                 \/ Ttl(j) < get_ttl_time(base_time)
      <4>1. CASE l = 1
        <5>1. ticks[1].time \in Nat /\ get_ttl_time(base_time) \in Int
          BY <1>2, <1>4, Typed
        <5> QED
          BY <1>5, <3>4, <3>7, <4>1, <5>1
      <4>2. CASE l # 1
        <5>1. PICK z \in 1 .. (k - 1) : z = l - 1 /\ z + 1 = l
          BY <3>1, <4>2
        <5>2. ticks'[z] = ticks[l]
          BY <1>4, <5>1
        <5> QED
          BY <3>7, <5>2
      <4> QED
        BY <4>1, <4>2
    <3> QED
      BY <3>5, <3>6, <3>7
  <2>2. get_ttl_time(base_time)' = get_ttl_time(base_time)
    BY <1>5 DEF get_ttl_time
  <2> QED
    BY <1>4, <1>5, <1>6, <1>10, <2>1, <2>2 DEF Kept
<1>16. d \in Cuts'
  BY <1>2, <1>4, <1>5, <1>9 DEF Cuts
<1> QED
  BY <1>13, <1>14, <1>15, <1>16 DEF TicksInv

\* At the end of the loop the first tick stands for every one behind it.
LEMMA Returned ==
  ASSUME TypeOK, CallInv, TicksInv, Return
  PROVE  TicksInv'
<1>1. PICK c \in Cuts : Divided(c) /\ Gone(c) /\ Kept(c)
  BY DEF TicksInv
<1>2. PICK n \in Nat, m \in Nat : n = Len(ticks) /\ m = Len(calls)
  BY Typed
<1>3. /\ pc = "adjust" /\ pc' = "idle"
      /\ base_time' = base_time /\ ticks' = ticks /\ count' = count /\ calls' = calls
  BY DEF Return
<1>4. /\ m \in 1 .. m /\ Adjusted = m - 1 /\ Adjusted' = m
      /\ Ttl(m) = get_ttl_time(base_time)
  <2>1. m \in 1 .. m /\ Adjusted = m - 1 /\ Ttl(m) = get_ttl_time(base_time)
    BY <1>2, <1>3, Adjusting
  <2> QED
    BY <1>2, <1>3, <2>1 DEF Adjusted
<1>5. \A k \in 0 .. n : c[k] \in 0 .. m
  BY <1>2 DEF Cuts
<1>6. ASSUME NEW k \in 1 .. n, NEW j \in (c[k - 1] + 1) .. m, ticks[k].time <= Ttl(j)
      PROVE  \E l \in 1 .. (k - 1) : Ttl(j) < ticks[l].time
  <2>1. c[k - 1] \in 0 .. m
    BY <1>5
  <2>2. j \in 1 .. m
    BY <2>1
  <2>3. /\ Ttl(j) \in Int /\ get_ttl_time(base_time) \in Int
        /\ ticks[k].time \in Nat /\ ticks[1].time \in Nat
    BY <1>2, <2>2, Typed
  <2>4. get_ttl_time(base_time) < ticks[1].time
    <3>1. ticks # <<>> /\ Head(ticks) = ticks[1]
      <4>1. ticks \in Seq([time : Periods, count : Nat \ {0}]) /\ Len(ticks) # 0
        BY <1>2 DEF TypeOK
      <4>2. ticks # <<>>
        BY <4>1, EmptySeq
      <4> QED
        BY <4>1, <4>2, HeadTailProperties
    <3>2. ~ ticks[1].time <= get_ttl_time(base_time)
      BY <3>1 DEF Return, Expired
    <3> QED
      BY <2>3, <3>2
  <2>5. CASE Ttl(j) <= get_ttl_time(base_time)
    <3>1. Ttl(j) < ticks[1].time
      BY <2>3, <2>4, <2>5
    <3>2. k # 1
      BY <1>6, <2>3, <3>1
    <3>3. 1 \in 1 .. (k - 1)
      BY <3>2
    <3> QED
      BY <3>1, <3>3
  <2>6. CASE ~ Ttl(j) <= get_ttl_time(base_time)
    <3>1. j # m /\ j \in (c[k - 1] + 1) .. Adjusted
      <4>1. j # m
        BY <1>4, <2>3, <2>6
      <4> QED
        BY <1>4, <2>1, <4>1
    <3>2. ~ Ttl(j) < get_ttl_time(base_time)
      BY <2>3, <2>6
    <3> QED
      BY <1>1, <1>2, <1>6, <3>1, <3>2 DEF Kept
  <2> QED
    BY <2>5, <2>6
<1>7. \A j : Ttl(j)' = Ttl(j)
  BY <1>3 DEF Ttl
<1>8. Kept(c)'
  BY <1>2, <1>3, <1>4, <1>6, <1>7 DEF Kept
<1>9. Divided(c)' /\ Gone(c)' /\ c \in Cuts'
  BY <1>1, <1>3 DEF Divided, Gone, Cuts, Events, Fresh
<1> QED
  BY <1>8, <1>9 DEF TicksInv

-----------------------------------------------------------------------------
(* The invariant. *)

\* A counter without calls.
LEMMA Empty ==
  /\ calls = <<>> /\ ticks = <<>> /\ count = 0 /\ base_time = 0 /\ pc = "idle" => IInv
<1> SUFFICES ASSUME calls = <<>>, ticks = <<>>, count = 0, base_time = 0, pc = "idle"
             PROVE  IInv
  OBVIOUS
<1>1. 0 \in Periods
  <2>1. 0 \in 0 .. MaxTime /\ 0 = tic_per_sec * 0
    OBVIOUS
  <2> QED
    BY <2>1 DEF Periods
<1>2. TypeOK
  BY <1>1, EmptySeq DEF TypeOK
<1>3. CallInv
  BY DEF CallInv
<1>4. Len(ticks) = 0 /\ Len(calls) = 0
  OBVIOUS
<1>5. TicksDiffer
  BY <1>4 DEF TicksDiffer
<1>6. TicksInv
  <2>1. PICK c : c = [k \in 0 .. 0 |-> 0]
    OBVIOUS
  <2>2. c \in [0 .. 0 -> 0 .. 0] /\ c[0] = 0
    BY <2>1
  <2>3. Events((0 + 1) .. 0) = 0
    <3>1. EventsOf(calls, 1 .. 0) = 0
      BY EventsNone
    <3> QED
      BY <3>1 DEF Events, EventsOf
  <2>4. Divided(c)
    BY <1>4, <2>2, <2>3 DEF Divided
  <2>5. Gone(c)
    BY <2>2 DEF Gone
  <2>6. Kept(c)
    BY <1>4 DEF Kept
  <2> QED
    BY <1>4, <2>2, <2>4, <2>5, <2>6 DEF TicksInv, Cuts
<1> QED
  BY <1>2, <1>3, <1>5, <1>6 DEF IInv

\* count is a number of events.
LEMMA Counts ==
  ASSUME TicksInv, Len(calls) \in Nat, Len(ticks) \in Nat
  PROVE  count \in Nat
<1>1. PICK c \in Cuts : Divided(c)
  BY DEF TicksInv
<1>2. c[0] \in 0 .. Len(calls)
  BY DEF Cuts
<1>3. PICK a, b \in Int : a = c[0] + 1 /\ b = Len(calls)
  BY <1>2
<1>4. \A f, g \in Int : EventsOf(calls, f .. g) \in Nat
  BY EventsType
<1>5. EventsOf(calls, a .. b) \in Nat
  BY <1>4
<1> QED
  BY <1>1, <1>3, <1>5 DEF Divided, Events, EventsOf

LEMMA CallStep ==
  ASSUME TypeOK, NEW t \in 0 .. MaxTime, NEW e \in BOOLEAN, Call(t, e)
  PROVE  CallInv'
<1>1. Len(calls) \in Nat /\ Len(calls') = Len(calls) + 1 /\ calls'[Len(calls) + 1].time = base_time'
  BY Typed, CallFacts
<1>2. calls' # <<>>
  BY <1>1
<1> QED
  BY <1>1, <1>2 DEF CallInv

LEMMA CountStep ==
  ASSUME IInv, NEW t \in 0 .. MaxTime, Count(t)
  PROVE  IInv'
<1>1. TypeOK /\ TicksInv /\ TicksDiffer /\ Call(t, FALSE) /\ ticks' = ticks /\ count' = count
  BY DEF IInv, Count
<1>2. CallInv'
  BY <1>1, CallStep
<1>3. TypeOK'
  <2>1. calls' \in Seq([time : Periods, event : BOOLEAN]) /\ base_time' \in Periods /\ pc' = "adjust"
    BY <1>1, CallFacts
  <2> QED
    BY <1>1, <2>1 DEF TypeOK
<1>4. TicksDiffer'
  BY <1>1 DEF TicksDiffer
<1>5. TicksInv'
  <2>1. \A k \in 1 .. Len(ticks) : ticks[k].count = ticks[k].count + 0
    BY <1>1, Typed
  <2>2. count = count + 0
    BY <1>1, Typed
  <2> QED
    BY <1>1, <2>1, <2>2, Stretched
<1> QED
  BY <1>2, <1>3, <1>4, <1>5 DEF IInv

LEMMA TicStep ==
  ASSUME IInv, NEW t \in 0 .. MaxTime, Tic(t)
  PROVE  IInv'
<1>1. TypeOK /\ TicksInv /\ TicksDiffer /\ Call(t, TRUE) /\ ticks' = Ticked(base_time') /\ count' = count + 1
  BY DEF IInv, Tic
<1>2. CallInv'
  BY <1>1, CallStep
<1>3. calls' \in Seq([time : Periods, event : BOOLEAN]) /\ base_time' \in Periods /\ pc' = "adjust"
  BY <1>1, CallFacts
<1>4. PICK n \in Nat : n = Len(ticks)
  BY <1>1, Typed
<1>5. PICK T, v : T = [time : Periods, count : Nat \ {0}] /\ v = base_time'
  OBVIOUS
<1>6. ticks \in Seq(T) /\ \A k \in 1 .. n : ticks[k] \in T
  <2>1. ticks \in Seq(T)
    BY <1>1, <1>5 DEF TypeOK
  <2>2. \A k \in 1 .. Len(ticks) : ticks[k] \in T
    BY <2>1, ElementOfSeq
  <2> QED
    BY <1>4, <2>1, <2>2
<1>7. (ticks # <<>>) <=> n # 0
  BY <1>4, <1>6, EmptySeq
<1>8. CASE n # 0 /\ ticks[n].time = v
  <2>1. n \in 1 .. n
    BY <1>8
  <2>2. ticks' = [ticks EXCEPT ![n].count = @ + 1]
    BY <1>1, <1>4, <1>5, <1>7, <1>8 DEF Ticked
  <2>3. PICK x \in T : x = [ticks[n] EXCEPT !.count = @ + 1]
    <3>1. ticks[n] \in [time : Periods, count : Nat \ {0}]
      BY <1>5, <1>6, <2>1
    <3>2. [ticks[n] EXCEPT !.count = @ + 1] \in [time : Periods, count : Nat \ {0}]
      BY <3>1
    <3> QED
      BY <1>5, <3>2
  <2>4. ticks' = [ticks EXCEPT ![n] = x]
    BY <2>2, <2>3
  <2>5. /\ ticks' \in Seq(T) /\ Len(ticks') = n
        /\ \A k \in 1 .. n : ticks'[k] = IF k = n THEN x ELSE ticks[k]
    BY <1>4, <1>6, <2>1, <2>4, ExceptSeq
  <2>6. x.time = ticks[n].time /\ x.count = ticks[n].count + 1
    BY <1>5, <1>6, <2>1, <2>3
  <2>7. \A k \in 1 .. n : ticks'[k].time = ticks[k].time
    BY <2>5, <2>6
  <2>8. TicksDiffer'
    BY <1>1, <1>4, <2>5, <2>7 DEF TicksDiffer
  <2>9. /\ \A k \in 1 .. n : k < n => ticks'[k].count = ticks[k].count
        /\ \A k \in 1 .. n : k = n => ticks'[k].count = ticks[k].count + 1
    BY <2>5, <2>6
  <2>10. TicksInv'
    <3>1. 1 = (IF TRUE THEN 1 ELSE 0) /\ 1 \in Nat
      OBVIOUS
    <3>2. Len(ticks') = Len(ticks) /\ Len(ticks) > 0 /\ ticks[Len(ticks)].time = base_time'
      BY <1>4, <1>5, <1>8, <2>5
    <3>3. \A k \in 1 .. Len(ticks) :
            /\ ticks'[k].time = ticks[k].time
            /\ k < Len(ticks) => ticks'[k].count = ticks[k].count
            /\ k = Len(ticks) => ticks'[k].count = ticks[k].count + 1
      BY <1>4, <2>7, <2>9
    <3> QED
      BY <1>1, <3>1, <3>2, <3>3, Stretched
  <2>11. count' \in Nat
    BY <1>1, Typed
  <2>12. TypeOK'
    BY <1>3, <1>5, <2>5, <2>11 DEF TypeOK
  <2> QED
    BY <1>2, <2>8, <2>10, <2>12 DEF IInv
<1>9. CASE ~ (n # 0 /\ ticks[n].time = v)
  <2>1. PICK x : x = [time |-> v, count |-> 1]
    OBVIOUS
  <2>2. x \in T
    BY <1>3, <1>4, <1>5, <2>1
  <2>3. ticks' = Append(ticks, x)
    BY <1>1, <1>4, <1>5, <1>7, <1>9, <2>1 DEF Ticked
  <2>4. /\ ticks' \in Seq(T) /\ Len(ticks') = n + 1 /\ ticks'[n + 1] = x
        /\ \A k \in 1 .. n : ticks'[k] = ticks[k]
    BY <1>4, <1>6, <2>2, <2>3, AppendProperties
  <2>5. TicksDiffer'
    <3>1. ASSUME NEW k \in 1 .. n PROVE ticks'[k].time # ticks'[k + 1].time
      <4>1. CASE k < n
        <5>1. k \in 1 .. (n - 1) /\ k + 1 \in 1 .. n
          BY <4>1
        <5> QED
          BY <1>1, <1>4, <2>4, <5>1 DEF TicksDiffer
      <4>2. CASE k = n
        BY <1>4, <1>9, <2>1, <2>4, <4>2
      <4> QED
        BY <4>1, <4>2
    <3> QED
      BY <2>4, <3>1 DEF TicksDiffer
  <2>6. TicksInv'
    <3>1. /\ Len(ticks') = Len(ticks) + 1
          /\ \A k \in 1 .. Len(ticks) : ticks'[k] = ticks[k]
          /\ ticks'[Len(ticks) + 1].time = base_time' /\ ticks'[Len(ticks) + 1].count = 1
      BY <1>4, <1>5, <2>1, <2>4
    <3> QED
      BY <1>1, <3>1, Appended
  <2>7. count' \in Nat
    BY <1>1, Typed
  <2>8. TypeOK'
    BY <1>3, <1>5, <2>4, <2>7 DEF TypeOK
  <2> QED
    BY <1>2, <2>5, <2>6, <2>8 DEF IInv
<1> QED
  BY <1>8, <1>9

LEMMA ExpireStep ==
  ASSUME IInv, Expire
  PROVE  IInv'
<1>1. TypeOK /\ CallInv /\ TicksInv /\ TicksDiffer
  BY DEF IInv
<1>2. /\ pc' = pc /\ base_time' = base_time /\ calls' = calls
      /\ ticks' = Tail(ticks) /\ ticks # <<>>
  BY DEF Expire, Expired
<1>3. PICK n \in Nat : n = Len(ticks)
  BY <1>1, Typed
<1>4. /\ ticks' \in Seq([time : Periods, count : Nat \ {0}])
      /\ Len(ticks') = n - 1 /\ n - 1 \in Nat
      /\ \A k \in 1 .. (n - 1) : ticks'[k] = ticks[k + 1]
  <2>1. ticks \in Seq([time : Periods, count : Nat \ {0}]) /\ n # 0
    BY <1>1, <1>2, <1>3, EmptySeq DEF TypeOK
  <2> QED
    BY <1>2, <1>3, <2>1, HeadTailProperties
<1>5. TicksInv'
  BY <1>1, Shortened
<1>6. TypeOK'
  <2>1. Len(calls') \in Nat
    BY <1>1, <1>2, Typed
  <2>2. count' \in Nat
    <3>1. (TicksInv /\ Len(calls) \in Nat /\ Len(ticks) \in Nat => count \in Nat)'
      BY Counts, PTL
    <3> QED
      BY <1>4, <1>5, <2>1, <3>1
  <2> QED
    BY <1>1, <1>2, <1>4, <2>2 DEF TypeOK
<1>7. CallInv'
  BY <1>1, <1>2 DEF CallInv
<1>8. TicksDiffer'
  <2>1. ASSUME NEW k \in 1 .. (n - 1 - 1) PROVE ticks'[k].time # ticks'[k + 1].time
    <3>1. PICK h : h = k + 1
      OBVIOUS
    <3>2. h \in 1 .. (n - 1) /\ k \in 1 .. (n - 1)
      BY <3>1
    <3>3. ticks'[k] = ticks[h] /\ ticks'[h] = ticks[h + 1]
      BY <1>4, <3>1, <3>2
    <3> QED
      BY <1>1, <1>3, <3>1, <3>2, <3>3 DEF TicksDiffer
  <2> QED
    BY <1>4, <2>1 DEF TicksDiffer
<1> QED
  BY <1>5, <1>6, <1>7, <1>8 DEF IInv

LEMMA ReturnStep ==
  ASSUME IInv, Return
  PROVE  IInv'
<1>1. TypeOK /\ CallInv /\ TicksInv /\ TicksDiffer
  BY DEF IInv
<1>2. pc' = "idle" /\ UNCHANGED <<base_time, ticks, count, calls>>
  BY DEF Return
<1>3. TicksInv'
  BY <1>1, Returned
<1>4. TypeOK' /\ CallInv' /\ TicksDiffer'
  BY <1>1, <1>2 DEF TypeOK, CallInv, TicksDiffer
<1> QED
  BY <1>3, <1>4 DEF IInv

LEMMA RenewStep ==
  ASSUME Renew
  PROVE  IInv'
<1>1. (/\ calls = <<>> /\ ticks = <<>> /\ count = 0 /\ base_time = 0 /\ pc = "idle" => IInv)'
  BY Empty, PTL
<1> QED
  BY <1>1 DEF Renew

\* The invariant of the counter, whatever the length of the window and of a period and the
\* order of the clock's times (countque.c).
THEOREM Invariant == Spec => []IInv
<1>1. Init => IInv
  BY Empty DEF Init
<1>2. IInv /\ [Next]_vars => IInv'
  <2> SUFFICES ASSUME IInv, [Next]_vars PROVE IInv'
    OBVIOUS
  <2>1. CASE UNCHANGED vars
    <3>1. pc' = pc /\ base_time' = base_time /\ ticks' = ticks /\ count' = count /\ calls' = calls
      BY <2>1 DEF vars
    <3>2. \A c : (Divided(c)' <=> Divided(c)) /\ (Gone(c)' <=> Gone(c)) /\ (Kept(c)' <=> Kept(c))
      BY <3>1 DEF Divided, Gone, Kept, Events, Fresh, Ttl, Adjusted, get_ttl_time
    <3>3. Cuts' = Cuts
      BY <3>1 DEF Cuts
    <3> QED
      BY <3>1, <3>2, <3>3 DEF IInv, TypeOK, CallInv, TicksDiffer, TicksInv
  <2>2. CASE \E t \in 0 .. MaxTime : Tic(t)
    BY <2>2, TicStep
  <2>3. CASE \E t \in 0 .. MaxTime : Count(t)
    BY <2>3, CountStep
  <2>4. CASE Expire
    BY <2>4, ExpireStep
  <2>5. CASE Return
    BY <2>5, ReturnStep
  <2>6. CASE Renew
    BY <2>6, RenewStep
  <2> QED
    BY <2>1, <2>2, <2>3, <2>4, <2>5, <2>6 DEF Next
<1> QED
  BY <1>1, <1>2, PTL DEF Spec

\* The clock's seconds are rounded to periods and no tick is kept for nothing: each counts
\* an event (countque.c:4-7, countque.c:80-104).
THEOREM TypeCorrect == Spec => []TypeOK
<1>1. IInv => TypeOK
  BY DEF IInv
<1> QED
  BY <1>1, Invariant, PTL

-----------------------------------------------------------------------------
(* What a call returns. *)

\* Between two calls the events that count are those after c[0], and the first of them has
\* not expired at any call since.
LEMMA Survivors ==
  ASSUME IInv, pc = "idle", NEW c \in Cuts, Divided(c), Gone(c), Kept(c)
  PROVE  /\ c[0] \in 0 .. Len(calls)
         /\ count = Events((c[0] + 1) .. Len(calls))
         /\ Len(ticks) = 0 => c[0] = Len(calls)
         /\ Len(ticks) > 0 =>
              /\ c[0] < Len(calls)
              /\ calls[c[0] + 1].event /\ Fresh(c[0] + 1)
              /\ calls[c[0] + 1].time = ticks[1].time
<1>1. TypeOK
  BY DEF IInv
<1>2. PICK n \in Nat, m \in Nat : n = Len(ticks) /\ m = Len(calls)
  BY <1>1, Typed
<1>3. \A k \in 0 .. n : c[k] \in 0 .. m
  BY <1>2 DEF Cuts
<1>4. c[0] \in 0 .. m /\ c[n] = m /\ count = Events((c[0] + 1) .. m)
  BY <1>2, <1>3 DEF Divided
<1>5. ASSUME n > 0
      PROVE  /\ c[0] < m
             /\ calls[c[0] + 1].event /\ Fresh(c[0] + 1)
             /\ calls[c[0] + 1].time = ticks[1].time
  <2>1. 1 \in 1 .. n /\ 1 - 1 = 0 /\ c[1] \in 0 .. m
    BY <1>3, <1>5
  <2>2. /\ c[0] < c[1] /\ calls[c[0] + 1].event
        /\ \A i \in (c[0] + 1) .. c[1] : calls[i].event => calls[i].time = ticks[1].time
    BY <1>2, <2>1 DEF Divided
  <2>3. c[0] + 1 \in (c[0] + 1) .. c[1] /\ c[0] + 1 \in 1 .. m
    BY <1>4, <2>1, <2>2
  <2>4. calls[c[0] + 1].time = ticks[1].time
    BY <2>2, <2>3
  <2>5. ASSUME NEW j \in (c[0] + 1) .. m PROVE InWindow(calls[c[0] + 1].time, calls[j].time)
    <3>1. j \in 1 .. m
      BY <1>4
    <3>2. Adjusted = m
      BY <1>2 DEF Adjusted
    <3>3. ticks[1].time <= Ttl(j) => \E l \in 1 .. (1 - 1) : Ttl(j) < ticks[l].time
      BY <1>2, <2>1, <3>2 DEF Kept
    <3>4. ~ ticks[1].time <= Ttl(j)
      BY <3>3
    <3>5. ticks[1].time \in Nat /\ Ttl(j) \in Int /\ calls[j].time \in Nat
      BY <1>1, <1>2, <2>1, <3>1, Typed
    <3>6. get_ttl_time(calls[j].time) < ticks[1].time
      BY <3>4, <3>5 DEF Ttl
    <3> QED
      BY <2>4, <3>5, <3>6, Window
  <2>6. Fresh(c[0] + 1)
    BY <1>2, <2>5 DEF Fresh
  <2> QED
    BY <1>4, <2>1, <2>2, <2>4, <2>6
<1> QED
  BY <1>2, <1>4, <1>5

\* What a call returns is the number of events from the oldest survivor on
\* (countque.c:34-50, countque.c:78-111).
THEOREM SurvivorsAreCounted == Spec => []SurvivorsCounted
<1>1. IInv => SurvivorsCounted
  <2> DEFINE fresh == {i \in DOMAIN calls : calls[i].event /\ Fresh(i)}
  <2> SUFFICES ASSUME IInv, pc = "idle"
               PROVE  count = IF fresh = {} THEN 0 ELSE Events(Min(fresh) .. Len(calls))
    BY DEF SurvivorsCounted
  <2>1. TypeOK
    BY DEF IInv
  <2>2. PICK n \in Nat, m \in Nat : n = Len(ticks) /\ m = Len(calls)
    BY <2>1, Typed
  <2>3. DOMAIN calls = 1 .. m
    BY <2>1, <2>2, Typed
  <2>4. PICK c \in Cuts : Divided(c) /\ Gone(c) /\ Kept(c)
    BY DEF IInv, TicksInv
  <2>5. /\ c[0] \in 0 .. m
        /\ count = Events((c[0] + 1) .. m)
        /\ n = 0 => c[0] = m
        /\ n > 0 => c[0] < m /\ calls[c[0] + 1].event /\ Fresh(c[0] + 1)
    BY <2>2, <2>4, Survivors
  <2>6. \A i \in fresh : i \in 1 .. m /\ i \notin 1 .. c[0]
    BY <2>3, <2>4 DEF Gone
  <2>7. CASE n = 0
    <3>1. fresh = {}
      BY <2>5, <2>6, <2>7
    <3>2. EventsOf(calls, (m + 1) .. m) = 0
      BY EventsNone
    <3>3. count = 0
      BY <2>5, <2>7, <3>2 DEF Events, EventsOf
    <3> QED
      BY <3>1, <3>3
  <2>8. CASE n # 0
    <3>1. PICK i : i = c[0] + 1
      OBVIOUS
    <3>2. i \in 1 .. m /\ i \in fresh
      BY <2>3, <2>5, <2>8, <3>1
    <3>3. \A x \in fresh : i <= x /\ x \in Nat
      BY <2>5, <2>6, <3>1
    <3> HIDE DEF fresh
    <3>4. \A x \in fresh : (\A y \in fresh : x <= y) => x = i
      <4>1. ASSUME NEW x \in fresh, \A y \in fresh : x <= y PROVE x = i
        <5>1. i <= x /\ x <= i /\ x \in Nat /\ i \in Nat
          BY <3>2, <3>3, <4>1
        <5> QED
          BY <5>1
      <4> QED
        BY <4>1
    <3>5. Min(fresh) = i
      BY <3>2, <3>3, <3>4 DEF Min
    <3> QED
      BY <2>2, <2>5, <3>1, <3>2, <3>5
  <2> QED
    BY <2>7, <2>8
<1> QED
  BY <1>1, Invariant, PTL

-----------------------------------------------------------------------------
(* A list of periods that grow: how far they reach. *)

\* Every set of numbers has a least one.
LEMMA Least ==
  ASSUME NEW T \in SUBSET Nat, T # {}
  PROVE  \E n \in T : \A m \in T : n <= m
<1> DEFINE R == OpToRel(<, Nat)
<1>1. IsWellFoundedOn(R, Nat)
  BY NatLessThanWellFounded
<1>2. \A x, y \in Nat : <<y, x>> \in R <=> y < x
  BY DEF OpToRel
<1> HIDE DEF R
<1>3. PICK n \in T : \A m \in T : ~ (<<m, n>> \in R)
  BY <1>1, WFMin
<1>4. \A m \in T : n <= m
  <2>1. ASSUME NEW m \in T PROVE n <= m
    <3>1. ~ m < n /\ m \in Nat /\ n \in Nat
      BY <1>2, <1>3
    <3> QED
      BY <3>1
  <2> QED
    BY <2>1
<1> QED
  BY <1>4

\* Steps of at least p in each of n - 1 places are (n - 1) * p together.
LEMMA Spread ==
  ASSUME NEW n \in Nat, NEW p \in Nat, NEW f,
         \A k \in 1 .. n : f[k] \in Nat,
         \A k \in 1 .. (n - 1) : f[k] + p <= f[k + 1]
  PROVE  \A k \in 1 .. n : f[1] + (k - 1) * p <= f[k]
<1> DEFINE T == {k \in 1 .. n : ~ f[1] + (k - 1) * p <= f[k]}
<1>1. SUFFICES ASSUME T # {} PROVE FALSE
  OBVIOUS
<1>2. PICK k \in T : \A h \in T : k <= h
  <2>1. T \in SUBSET Nat
    OBVIOUS
  <2> HIDE DEF T
  <2> QED
    BY <1>1, <2>1, Least
<1>3. k \in 1 .. n /\ ~ f[1] + (k - 1) * p <= f[k]
  OBVIOUS
<1>4. k # 1
  <2>1. ASSUME k = 1 PROVE FALSE
    <3>1. f[1] \in Nat /\ (k - 1) * p = 0
      BY <1>3, <2>1
    <3> QED
      BY <1>3, <2>1, <3>1
  <2> QED
    BY <2>1
<1>5. PICK h \in 1 .. (n - 1) : h = k - 1 /\ h + 1 = k
  BY <1>3, <1>4
<1>6. h \notin T /\ h \in 1 .. n
  BY <1>2, <1>3, <1>5
<1>7. f[1] + (h - 1) * p <= f[h]
  BY <1>6
<1>8. f[h] + p <= f[k]
  BY <1>5
<1>9. (k - 1) * p = (h - 1) * p + p
  BY <1>5
<1>10. f[1] \in Nat /\ f[h] \in Nat /\ f[k] \in Nat
  BY <1>3, <1>6
<1>11. PICK u \in Int : u = (h - 1) * p
  OBVIOUS
<1>12. f[1] + (u + p) <= f[k]
  BY <1>7, <1>8, <1>10, <1>11
<1> QED
  BY <1>3, <1>9, <1>11, <1>12

\* Two periods are the length of one apart, or more.
LEMMA Apart ==
  ASSUME NEW a \in Periods, NEW b \in Periods, a < b
  PROVE  a + tic_per_sec <= b
<1>1. PICK x \in Nat : a = tic_per_sec * x
  BY DEF Periods
<1>2. PICK y \in Nat : b = tic_per_sec * y
  BY DEF Periods
<1>3. x < y
  <2>1. SUFFICES ASSUME y <= x PROVE FALSE
    BY <1>1, <1>2
  <2>2. tic_per_sec * y <= tic_per_sec * x
    BY <1>1, <1>2, <2>1
  <2> QED
    BY <1>1, <1>2, <2>2
<1>4. PICK d \in Nat : y = x + 1 + d
  <2>1. y - x - 1 \in Nat /\ y = x + 1 + (y - x - 1)
    BY <1>1, <1>2, <1>3
  <2> QED
    BY <2>1
<1>5. b = tic_per_sec * x + tic_per_sec + tic_per_sec * d
  BY <1>1, <1>2, <1>4
<1>6. PICK u \in Nat : u = tic_per_sec * d
  BY <1>4
<1>7. PICK v \in Nat : v = tic_per_sec * x
  BY <1>1
<1> QED
  BY <1>1, <1>5, <1>6, <1>7

\* While the clock does not go back, the ticks are of periods that grow.
LEMMA TicksGrow ==
  ASSUME IInv, Steady
  PROVE  /\ \A k \in 1 .. (Len(ticks) - 1) : ticks[k].time + tic_per_sec <= ticks[k + 1].time
         /\ Len(ticks) > 0 => ticks[Len(ticks)].time <= calls[Len(calls)].time
<1>1. TypeOK
  BY DEF IInv
<1>2. PICK n \in Nat, m \in Nat : n = Len(ticks) /\ m = Len(calls)
  BY <1>1, Typed
<1>3. PICK c \in Cuts : Divided(c)
  BY DEF IInv, TicksInv
<1>4. \A k \in 0 .. n : c[k] \in 0 .. m
  BY <1>2 DEF Cuts
<1>5. \A i, j \in 1 .. m : i <= j => calls[i].time <= calls[j].time
  <2>1. ASSUME NEW i \in 1 .. m, NEW j \in 1 .. m, i <= j
        PROVE  calls[i].time <= calls[j].time
    <3>1. calls[i].time \in Nat /\ DOMAIN calls = 1 .. m
      BY <1>1, <1>2, Typed
    <3>2. CASE i = j
      BY <3>1, <3>2
    <3>3. CASE i < j
      BY <3>1, <3>3 DEF Steady
    <3> QED
      BY <2>1, <3>2, <3>3
  <2> QED
    BY <2>1
<1>6. ASSUME NEW k \in 1 .. n
      PROVE  /\ c[k - 1] + 1 \in 1 .. m
             /\ c[k - 1] < c[k] /\ c[k] \in 0 .. m
             /\ calls[c[k - 1] + 1].time = ticks[k].time
  <2>1. c[k - 1] \in 0 .. m /\ c[k] \in 0 .. m
    BY <1>4
  <2>2. /\ c[k - 1] < c[k] /\ calls[c[k - 1] + 1].event
        /\ \A i \in (c[k - 1] + 1) .. c[k] : calls[i].event => calls[i].time = ticks[k].time
    BY <1>2, <1>3 DEF Divided
  <2>3. c[k - 1] + 1 \in (c[k - 1] + 1) .. c[k] /\ c[k - 1] + 1 \in 1 .. m
    BY <2>1, <2>2
  <2> QED
    BY <2>1, <2>2, <2>3
<1>7. ASSUME NEW k \in 1 .. (n - 1)
      PROVE  ticks[k].time + tic_per_sec <= ticks[k + 1].time
  <2>1. PICK h \in 1 .. n : h = k + 1 /\ h - 1 = k /\ k \in 1 .. n
    OBVIOUS
  <2>2. /\ c[k - 1] + 1 \in 1 .. m /\ c[k - 1] < c[k] /\ c[k] \in 0 .. m
        /\ calls[c[k - 1] + 1].time = ticks[k].time
    BY <1>6, <2>1
  <2>3. /\ c[h - 1] + 1 \in 1 .. m
        /\ calls[c[h - 1] + 1].time = ticks[h].time
    BY <1>6
  <2>4. PICK i \in 1 .. m, j \in 1 .. m : i = c[k - 1] + 1 /\ j = c[k] + 1
    BY <2>1, <2>2, <2>3
  <2>5. c[k - 1] \in 0 .. m
    BY <1>4, <2>1
  <2>6. i <= j
    BY <2>2, <2>4, <2>5
  <2>7. ticks[k].time <= ticks[h].time
    BY <1>5, <2>1, <2>2, <2>3, <2>4, <2>6
  <2>8. ticks[k].time # ticks[h].time
    BY <1>2, <2>1 DEF IInv, TicksDiffer
  <2>9. /\ ticks[k].time \in Periods /\ ticks[h].time \in Periods
        /\ ticks[k].time \in Nat /\ ticks[h].time \in Nat
    BY <1>1, <1>2, <2>1, Typed
  <2>10. ticks[k].time < ticks[h].time
    BY <2>7, <2>8, <2>9
  <2> QED
    BY <2>1, <2>9, <2>10, Apart
<1>8. ASSUME n > 0 PROVE ticks[n].time <= calls[m].time
  <2>1. PICK i \in 1 .. m : i = c[n - 1] + 1 /\ calls[i].time = ticks[n].time
    BY <1>6, <1>8
  <2>2. i <= m /\ m \in 1 .. m
    OBVIOUS
  <2> QED
    BY <1>5, <2>1, <2>2
<1> QED
  BY <1>2, <1>7, <1>8

\* While the clock does not go back, a call returns the events of the last tic_max_cnt
\* periods, and there are no more ticks than periods (countque.c:16, countque.c:38).
THEOREM WindowIsExact == Spec => []WindowExact
<1>1. IInv => WindowExact
  <2> SUFFICES ASSUME IInv, pc = "idle", calls # <<>>, Steady
               PROVE  /\ count = Events({i \in DOMAIN calls :
                                   InWindow(calls[i].time, calls[Len(calls)].time)})
                      /\ Len(ticks) <= tic_max_cnt
    BY DEF WindowExact
  <2>1. TypeOK
    BY DEF IInv
  <2>2. PICK n \in Nat, m \in Nat : n = Len(ticks) /\ m = Len(calls)
    BY <2>1, Typed
  <2>3. DOMAIN calls = 1 .. m /\ m \in 1 .. m
    <3>1. m # 0
      BY <2>1, <2>2, EmptySeq DEF TypeOK
    <3> QED
      BY <2>1, <2>2, <3>1, Typed
  <2>4. PICK c \in Cuts : Divided(c) /\ Gone(c) /\ Kept(c)
    BY DEF IInv, TicksInv
  <2>5. /\ c[0] \in 0 .. m
        /\ count = Events((c[0] + 1) .. m)
        /\ n = 0 => c[0] = m
        /\ n > 0 => /\ c[0] < m /\ calls[c[0] + 1].event /\ Fresh(c[0] + 1)
                    /\ calls[c[0] + 1].time = ticks[1].time
    BY <2>2, <2>4, Survivors
  <2>6. \A i \in 1 .. m : calls[i].time \in Nat /\ get_ttl_time(calls[i].time) \in Int
    BY <2>1, <2>2, Typed, Window
  <2>7. \A i, j \in 1 .. m : i < j => calls[i].time <= calls[j].time
    BY <2>3 DEF Steady
  <2>8. ASSUME n > 0
        PROVE  get_ttl_time(calls[m].time) < ticks[1].time /\ ticks[1].time \in Nat
    <3>1. PICK i \in 1 .. m : i = c[0] + 1
      BY <2>5, <2>8
    <3>2. InWindow(calls[i].time, calls[m].time) /\ calls[i].time = ticks[1].time
      BY <2>2, <2>5, <2>8, <3>1 DEF Fresh
    <3> QED
      BY <2>3, <2>6, <3>2, Window
  <2>9. ASSUME NEW i \in 1 .. m, calls[i].event
        PROVE  InWindow(calls[i].time, calls[m].time) <=> i > c[0]
    <3>1. CASE i <= c[0]
      <4>1. ~ Fresh(i)
        BY <2>4, <2>5, <2>9, <3>1 DEF Gone
      <4>2. PICK j \in i .. m : ~ InWindow(calls[i].time, calls[j].time)
        BY <2>2, <4>1 DEF Fresh
      <4>3. j \in 1 .. m /\ calls[j].time <= calls[m].time
        BY <2>3, <2>6, <2>7
      <4>4. get_ttl_time(calls[j].time) <= get_ttl_time(calls[m].time)
        BY <2>3, <2>6, <4>3, Window
      <4>5. ~ get_ttl_time(calls[j].time) < calls[i].time
        BY <2>6, <4>2, <4>3, Window
      <4>6. ~ get_ttl_time(calls[m].time) < calls[i].time
        BY <2>3, <2>6, <4>3, <4>4, <4>5
      <4>7. ~ InWindow(calls[i].time, calls[m].time)
        BY <2>3, <2>6, <4>6, Window
      <4> QED
        BY <2>5, <3>1, <4>7
    <3>2. CASE i > c[0]
      <4>1. n > 0
        BY <2>5, <3>2
      <4>2. PICK h \in 1 .. m : h = c[0] + 1 /\ h <= i /\ calls[h].time = ticks[1].time
        BY <2>5, <3>2, <4>1
      <4>3. calls[h].time <= calls[i].time
        BY <2>6, <2>7, <4>2
      <4>4. get_ttl_time(calls[m].time) < calls[i].time
        BY <2>3, <2>6, <2>8, <4>1, <4>2, <4>3
      <4>5. InWindow(calls[i].time, calls[m].time)
        BY <2>3, <2>6, <4>4, Window
      <4> QED
        BY <3>2, <4>5
    <3> QED
      BY <2>5, <3>1, <3>2
  <2>10. count = Events({i \in 1 .. m : InWindow(calls[i].time, calls[m].time)})
    <3> DEFINE W == {i \in 1 .. m : InWindow(calls[i].time, calls[m].time)}
    <3>1. \A i \in 1 .. m : i > c[0] <=> i \in (c[0] + 1) .. m
      BY <2>5
    <3>2. (c[0] + 1) .. m \subseteq 1 .. m
      BY <2>5
    <3>3. {i \in W : calls[i].event} = {i \in (c[0] + 1) .. m : calls[i].event}
      <4> HIDE DEF InWindow
      <4> QED
        BY <2>9, <3>1, <3>2
    <3> QED
      BY <2>5, <3>3 DEF Events
  <2>11. n <= tic_max_cnt
    <3>1. CASE n = 0
      BY <3>1
    <3>2. CASE n # 0
      <4>1. PICK f : f = [k \in 1 .. n |-> ticks[k].time]
        OBVIOUS
      <4>2. \A k \in 1 .. n : f[k] = ticks[k].time /\ f[k] \in Nat
        BY <2>1, <2>2, <4>1, Typed
      <4>3. \A k \in 1 .. (n - 1) : f[k] + tic_per_sec <= f[k + 1]
        <5>1. ASSUME NEW k \in 1 .. (n - 1) PROVE f[k] + tic_per_sec <= f[k + 1]
          <6>1. k \in 1 .. n /\ k + 1 \in 1 .. n
            OBVIOUS
          <6>2. ticks[k].time + tic_per_sec <= ticks[k + 1].time
            BY <2>2, TicksGrow
          <6> QED
            BY <4>2, <6>1, <6>2
        <5> QED
          BY <5>1
      <4>4. n \in 1 .. n /\ 1 \in 1 .. n
        BY <3>2
      <4>5. f[1] + (n - 1) * tic_per_sec <= f[n]
        BY <4>2, <4>3, <4>4, Spread
      <4>6. f[n] <= calls[m].time
        BY <2>2, <3>2, <4>2, <4>4, TicksGrow
      <4>7. calls[m].time - tic_per_sec * tic_max_cnt < f[1]
        BY <2>8, <3>2, <4>2, <4>4 DEF get_ttl_time
      <4>8. PICK w \in Nat : w = tic_per_sec * tic_max_cnt
        OBVIOUS
      <4>9. PICK u \in Nat : u = (n - 1) * tic_per_sec
        BY <3>2
      <4>10. u < w
        <5>1. f[1] \in Nat /\ f[n] \in Nat /\ calls[m].time \in Nat
          BY <2>3, <2>6, <4>2, <4>4
        <5>2. f[1] + u <= f[n] /\ calls[m].time - w < f[1]
          BY <4>5, <4>7, <4>8, <4>9
        <5> QED
          BY <4>6, <5>1, <5>2
      <4>11. SUFFICES ASSUME tic_max_cnt <= n - 1 PROVE FALSE
        OBVIOUS
      <4>12. PICK d \in Nat : n - 1 = tic_max_cnt + d
        <5>1. n - 1 - tic_max_cnt \in Nat /\ n - 1 = tic_max_cnt + (n - 1 - tic_max_cnt)
          BY <4>11
        <5> QED
          BY <5>1
      <4>13. u = w + d * tic_per_sec
        BY <4>8, <4>9, <4>12
      <4>14. d * tic_per_sec \in Nat
        OBVIOUS
      <4> QED
        BY <4>10, <4>13, <4>14
    <3> QED
      BY <3>1, <3>2
  <2> QED
    BY <2>2, <2>3, <2>10, <2>11
<1> QED
  BY <1>1, Invariant, PTL
=============================================================================

---------------------------- MODULE KetamaProofs ----------------------------
(***************************************************************************)
(* Proofs about module Ketama: for every choice of the weights, of the     *)
(* number of nodes, of the share and of what MD5 returns, the ring is      *)
(* sorted and not empty when keys are looked up, and a lookup finds the    *)
(* node that the ring says.                                                *)
(***************************************************************************)
EXTENDS Ketama, SequenceTheorems, TLAPS

\* Names for parts of actions; the proofs see through them.
USE DEF Within, Above

USE WeightsAssumption, MaxServersAssumption, ShareAssumption, PerHashAssumption,
    PrecisionAssumption, PointModAssumption

\* A node whose weight is average or more: there always is one, and it has points.
Heavy(j) == servers[j] * numservers >= memory

\* What holds while the ring is built, and the ring that is ready.
RingInv ==
  /\ numservers <= MaxServers
  /\ numservers = 0 => memory = 0
  /\ numservers > 0 => \E j \in 1 .. numservers : Heavy(j)
  /\ (\E j \in 1 .. filled : Heavy(j)) => continuum # <<>> \/ left > 0
  /\ left > 0 => filled > 0
  /\ pc = "add" => filled = 0 /\ left = 0 /\ continuum = <<>>
  /\ pc # "add" => numservers > 0
  /\ pc \in {"ready", "search"} => filled = numservers /\ left = 0
  /\ InOrder(continuum)

\* Where the search is: all points before lowp are before the key, and those behind
\* highp are not.
SearchInv ==
  /\ pc # "search" => lowp = 0 /\ highp = 0
  /\ pc # "ready" => answer = {}
  /\ pc = "search" =>
       /\ lowp <= highp
       /\ lowp > 0 => continuum[lowp].point < key
       /\ highp < numpoints => continuum[highp + 1].point >= key

\* s[i] is the weight of the first i nodes.  The points that the nodes worked off have, and
\* those that the last of them still gets, are at most the share of their weight, rounded up
\* as far as can be.
Upper == Share * PerHash * numservers * (Precision + 1)

Room(s) ==
  /\ s[0] = 0
  /\ \A i \in 1 .. numservers : s[i] = s[i - 1] + servers[i]
  /\ s[numservers] = memory
  /\ (numpoints + left) * memory * Precision <= Upper * s[filled]

RoomInv ==
  /\ numservers > 0 => memory > 0
  /\ \E s \in [0 .. numservers -> 0 .. memory] : Room(s)

IInv == TypeOK /\ RingInv /\ RoomInv /\ SearchInv /\ LookupRight

-----------------------------------------------------------------------------
(* Lemmas. *)

\* What TypeOK says of the data of the ring and of the search.
LEMMA Typed ==
  ASSUME TypeOK
  PROVE  /\ servers \in Seq(Nat \ {0})
         /\ numservers \in Nat
         /\ memory \in Nat
         /\ numpoints \in Nat
         /\ \A i \in 1 .. numpoints : /\ continuum[i].point \in Nat
                                      /\ continuum[i].ordinal \in 0 .. (numservers - 1)
         /\ key \in Nat
         /\ lowp \in Nat
         /\ highp \in Nat
  <1>1. servers \in Seq(Weights) /\ continuum \in Seq([point : Points, ordinal : 0 .. (numservers - 1)])
    BY DEF TypeOK
  <1>2. servers \in Seq(Nat \ {0})
    BY <1>1, SeqMonotonic
  <1>3. \A i \in 1 .. numpoints : continuum[i] \in [point : Points, ordinal : 0 .. (numservers - 1)]
    BY <1>1, ElementOfSeq DEF numpoints
  <1> QED
    BY <1>1, <1>2, <1>3, SMTT(30) DEF TypeOK, numservers, numpoints, Points

\* The first point that is not before h owns it.
LEMMA OwnerAt ==
  ASSUME TypeOK, InOrder(continuum), NEW h \in Nat, NEW i \in 1 .. numpoints,
         continuum[i].point >= h,
         i > 1 => continuum[i - 1].point < h
  PROVE  Owner(h) = continuum[i].ordinal
  <1> DEFINE later == {j \in DOMAIN continuum : continuum[j].point >= h}
  <1>1. DOMAIN continuum = 1 .. numpoints /\ numpoints \in Nat
    BY DEF TypeOK, numpoints
  <1>2. i \in later
    BY <1>1
  <1>3. ASSUME NEW j \in later, j < i
        PROVE  FALSE
    <2>1. i - 1 \in DOMAIN continuum /\ j \in DOMAIN continuum /\ j <= i - 1
      BY <1>1, <1>3
    <2>2. continuum[j].point <= continuum[i - 1].point
      <3>1. CASE j = i - 1
        BY <3>1, <2>1, <1>1, Typed
      <3>2. CASE j < i - 1
        BY <3>2, <2>1 DEF InOrder
      <3> QED
        BY <3>1, <3>2, <2>1, <1>1
    <2>3. continuum[j].point >= h /\ continuum[i - 1].point < h
      BY <1>1, <1>3
    <2> QED
      BY <2>1, <2>2, <2>3, <1>1, Typed
  <1>4. \A j \in later : i <= j
    BY <1>1, <1>3
  <1>5. (CHOOSE k \in later : \A j \in later : k <= j) = i
    <2>1. \A k \in later : (\A j \in later : k <= j) => k = i
      BY <1>1, <1>2, <1>4
    <2> QED
      BY <1>2, <1>4, <2>1
  <1> QED
    BY <1>2, <1>5 DEF Owner

\* A hash behind all points belongs to the first one.
LEMMA OwnerBehind ==
  ASSUME TypeOK, InOrder(continuum), NEW h \in Nat, numpoints > 0,
         continuum[numpoints].point < h
  PROVE  Owner(h) = continuum[1].ordinal
  <1>1. DOMAIN continuum = 1 .. numpoints /\ numpoints \in Nat
    BY DEF TypeOK, numpoints
  <1>2. ASSUME NEW j \in DOMAIN continuum
        PROVE  ~ continuum[j].point >= h
    <2>1. continuum[j].point <= continuum[numpoints].point
      <3>1. CASE j = numpoints
        BY <3>1, <1>1, Typed
      <3>2. CASE j < numpoints
        BY <3>2, <1>1 DEF InOrder
      <3> QED
        BY <3>1, <3>2, <1>1
    <2> QED
      BY <2>1, <1>1, Typed
  <1>3. {j \in DOMAIN continuum : continuum[j].point >= h} = {}
    BY <1>2
  <1> QED
    BY <1>3 DEF Owner

\* One more node: if it is lighter than a node of average weight, that one still is of
\* average weight or more; otherwise the new one is.
LEMMA HeavyKept ==
  ASSUME NEW s \in Nat, NEW w \in Nat, NEW n \in Nat, NEW m \in Nat, s * n >= m
  PROVE  s * (n + 1) >= m + w \/ w * (n + 1) >= m + w
  <1>1. CASE w <= s
    <2>1. s * (n + 1) = s * n + s
      OBVIOUS
    <2> QED
      BY <1>1, <2>1
  <1>2. CASE w > s
    <2>1. w * (n + 1) = w * n + w
      OBVIOUS
    <2>2. w * n >= s * n
      BY <1>2
    <2>3. w * n \in Nat /\ s * n \in Nat
      OBVIOUS
    <2> QED
      BY <2>1, <2>2, <2>3
  <1> QED
    BY <1>1, <1>2

\* A node of average weight or more makes at least one hash.
LEMMA HeavyHashes ==
  ASSUME TypeOK, NEW j \in 1 .. numservers, Heavy(j), NEW ks \in Hashes(servers[j])
  PROVE  ks \in Nat \ {0}
  <1> DEFINE w == servers[j]
             a == w * numservers
  <1>1. w \in Nat \ {0} /\ numservers \in Nat /\ memory \in Nat
    BY Typed, ElementOfSeq DEF numservers
  <1>2. a \in Nat \ {0} /\ a >= memory
    BY <1>1 DEF Heavy
  <1>3. w * Share * numservers * (Precision - 1) = Share * a * (Precision - 1)
    BY <1>1
  <1>4. Share * a * (Precision - 1) >= 2 * a * (Precision - 1)
    <2>1. Share * a >= 2 * a /\ Share * a \in Nat /\ 2 * a \in Nat /\ Precision - 1 \in Nat
      BY <1>2
    <2> HIDE DEF a
    <2> QED
      BY <2>1
  <1>5. ks \in Nat
    BY <1>1 DEF Hashes
  <1>6. ASSUME ks = 0
        PROVE  FALSE
    <2>1. (ks + 1) * memory * Precision = memory * Precision
      BY <1>6, <1>1
    <2>2. Share * a * (Precision - 1) < memory * Precision
      <3> HIDE DEF w, a
      <3> QED
        BY <1>3, <2>1 DEF Hashes, w
    <2>3. memory * Precision <= a * Precision
      BY <1>1, <1>2
    <2>4. a * Precision <= 2 * a * (Precision - 1)
      <3>1. a * Precision + a * (Precision - 2) = 2 * a * (Precision - 1)
        BY <1>2
      <3>2. a * (Precision - 2) \in Nat /\ a * Precision \in Nat
        BY <1>2
      <3> QED
        BY <3>1, <3>2
    <2>5. /\ Share * a * (Precision - 1) \in Nat /\ 2 * a * (Precision - 1) \in Nat
          /\ memory * Precision \in Nat /\ a * Precision \in Nat
      BY <1>1, <1>2
    <2> HIDE DEF a
    <2> QED
      BY <1>4, <2>2, <2>3, <2>4, <2>5
  <1> QED
    BY <1>5, <1>6

\* A ring that is ready has a point.
LEMMA NotEmpty ==
  ASSUME TypeOK, RingInv, pc \in {"ready", "search"}
  PROVE  numpoints \in Nat \ {0}
  <1>1. PICK j \in 1 .. numservers : Heavy(j)
    BY Typed DEF RingInv
  <1>2. continuum # <<>>
    BY <1>1 DEF RingInv
  <1> QED
    BY <1>2, EmptySeq DEF TypeOK, numpoints

\* The middle is between the ends.
LEMMA Middle ==
  ASSUME TypeOK, SearchInv, pc = "search"
  PROVE  /\ midp \in Nat
         /\ lowp <= midp
         /\ midp <= highp
         /\ highp <= numpoints
  BY Typed DEF TypeOK, SearchInv, midp

\* Less than the whole weight makes less than the whole ring.
LEMMA WholeShare ==
  ASSUME NEW p \in Nat, NEW c \in Nat, NEW m \in Nat \ {0}, NEW x \in 0 .. m, p * m <= c * x
  PROVE  p <= c
  <1>1. x \in Nat /\ x <= m
    OBVIOUS
  <1>2. c * x <= c * m
    BY <1>1
  <1>3. ASSUME p > c
        PROVE  FALSE
    <2>1. p * m >= (c + 1) * m
      BY <1>3
    <2>2. (c + 1) * m = c * m + m
      OBVIOUS
    <2>3. p * m \in Nat /\ c * m \in Nat /\ c * x \in Nat
      BY <1>1
    <2> QED
      BY <1>2, <2>1, <2>2, <2>3
  <1> QED
    BY <1>3

\* What rounding adds to all shares is less than one point.
LEMMA RoundedShare ==
  ASSUME NEW p \in Nat, NEW c \in Nat, c < Precision, p * Precision <= c * (Precision + 1)
  PROVE  p <= c
  <1>1. c * (Precision + 1) < (c + 1) * Precision
    OBVIOUS
  <1>2. ASSUME p > c
        PROVE  FALSE
    <2>1. p * Precision >= (c + 1) * Precision
      BY <1>2
    <2>2. p * Precision \in Nat /\ (c + 1) * Precision \in Nat /\ c * (Precision + 1) \in Nat
      OBVIOUS
    <2> QED
      BY <1>1, <2>1, <2>2
  <1> QED
    BY <1>2

\* The points of one more node are at most its share, rounded up.
LEMMA NodeShare ==
  ASSUME TypeOK, NEW w \in Nat, NEW ks \in Hashes(w), NEW p \in Nat, NEW x \in Nat,
         p * memory * Precision <= Upper * x
  PROVE  (p + PerHash * ks) * memory * Precision <= Upper * (x + w)
  <1>1. memory \in Nat /\ numservers \in Nat /\ ks \in Nat
    BY Typed DEF Hashes
  <1> DEFINE a == ks * memory * Precision
             b == w * Share * numservers * (Precision + 1)
  <1>2. a <= b
    BY DEF Hashes
  <1>3. a \in Nat /\ b \in Nat /\ Upper \in Nat
    BY <1>1 DEF Upper
  <1>4. PerHash * a <= PerHash * b
    BY <1>2, <1>3
  <1>5. PerHash * b = Upper * w
    BY <1>1 DEF Upper
  <1>6. (p + PerHash * ks) * memory * Precision = p * memory * Precision + PerHash * a
    BY <1>1
  <1>7. Upper * (x + w) = Upper * x + Upper * w
    BY <1>3
  <1>8. /\ p * memory * Precision \in Nat /\ PerHash * a \in Nat
        /\ Upper * x \in Nat /\ Upper * w \in Nat
    BY <1>1, <1>3
  <1> HIDE DEF a, b
  <1> QED
    BY <1>4, <1>5, <1>6, <1>7, <1>8

\* A ring with one more entry.
LEMMA Inserted ==
  ASSUME NEW S, NEW ring \in Seq(S), NEW i \in 1 .. (Len(ring) + 1), NEW e \in S
  PROVE  /\ InsertAt(ring, i, e) \in Seq(S)
         /\ InsertAt(ring, i, e) # <<>>
         /\ Len(InsertAt(ring, i, e)) = Len(ring) + 1
  <1> DEFINE low  == SubSeq(ring, 1, i - 1)
             high == SubSeq(ring, i, Len(ring))
  <1>1. Len(ring) \in Nat /\ i \in Int
    BY LenProperties
  <1>2. \A j \in 1 .. (i - 1) : ring[j] \in S
    BY <1>1, ElementOfSeq
  <1>3. \A j \in i .. Len(ring) : ring[j] \in S
    BY <1>1, ElementOfSeq
  <1>4. /\ low \in Seq(S) /\ high \in Seq(S)
        /\ Len(low) = i - 1 /\ Len(high) = Len(ring) - i + 1
    BY <1>1, <1>2, <1>3, SubSeqProperties
  <1>5. <<e>> \in Seq(S) /\ Len(<<e>>) = 1
    OBVIOUS
  <1> HIDE DEF low, high
  <1>6. low \o <<e>> \in Seq(S) /\ Len(low \o <<e>>) = Len(low) + 1
    BY <1>4, <1>5, ConcatProperties
  <1>7. (low \o <<e>>) \o high \in Seq(S) /\ Len((low \o <<e>>) \o high) = Len(low) + 1 + Len(high)
    BY <1>4, <1>6, ConcatProperties
  <1>8. Len(low) \in Nat /\ Len(high) \in Nat
    BY <1>4, LenProperties
  <1>9. (low \o <<e>>) \o high # <<>>
    BY <1>7, <1>8, EmptySeq
  <1>10. Len((low \o <<e>>) \o high) = Len(ring) + 1
    BY <1>1, <1>4, <1>7
  <1> QED
    BY <1>7, <1>9, <1>10 DEF InsertAt, low, high

-----------------------------------------------------------------------------
(* Every step preserves the invariant. *)

\* The search and the answer stay within the ring; every other variable keeps its type.
LEMMA TypeStep == IInv /\ [Next]_vars => TypeOK'
  <1> SUFFICES ASSUME IInv, [Next]_vars
               PROVE  TypeOK'
    OBVIOUS
  <1>0. TypeOK /\ RingInv /\ SearchInv
    BY DEF IInv
  <1>1. ASSUME NEW w \in Weights, AddServer(w)
        PROVE  TypeOK'
    <2>1. servers' \in Seq(Weights) /\ Len(servers') = numservers + 1
      BY <1>0, <1>1 DEF TypeOK, AddServer, numservers
    <2>2. continuum = <<>> /\ filled = 0 /\ left = 0
      BY <1>0, <1>1 DEF RingInv, AddServer
    <2>3. memory' \in Nat /\ maxservers' \in Nat /\ Len(servers') <= maxservers'
      BY <1>0, <1>1, <2>1, Typed DEF TypeOK, AddServer, Grown
    <2>4. answer' \in SUBSET (0 .. (Len(servers') - 1))
      BY <1>0, <1>1, <2>1, Typed DEF TypeOK, AddServer, searchVars
    <2> QED
      BY <1>0, <1>1, <2>1, <2>2, <2>3, <2>4 DEF TypeOK, AddServer, searchVars, numservers, numpoints
  <1>2. CASE CreateContinuum
    BY <1>0, <1>2 DEF TypeOK, CreateContinuum, ringVars, searchVars, numservers, numpoints
  <1>3. CASE NextNode
    <2>1. left' \in Nat
      BY <1>3 DEF NextNode, Hashes
    <2>2. filled' \in 0 .. numservers
      BY <1>0, <1>3, Typed, SMTT(30) DEF TypeOK, NextNode
    <2> QED
      BY <1>0, <1>3, <2>1, <2>2 DEF TypeOK, NextNode, searchVars, numservers, numpoints
  <1>4. CASE AddPoint
    <2> DEFINE Entry == [point : Points, ordinal : 0 .. (numservers - 1)]
    <2>1. PICK p \in Points : continuum' \in Placed([point |-> p, ordinal |-> filled - 1])
      BY <1>4 DEF AddPoint
    <2>2. [point |-> p, ordinal |-> filled - 1] \in Entry
      BY <1>0, <1>4, Typed DEF TypeOK, RingInv, AddPoint
    <2>3. continuum \in Seq(Entry)
      BY <1>0 DEF TypeOK
    <2>4. PICK i \in 1 .. (Len(continuum) + 1) :
            continuum' = InsertAt(continuum, i, [point |-> p, ordinal |-> filled - 1])
      BY <2>1 DEF Placed, numpoints
    <2>5. continuum' \in Seq(Entry)
      BY <2>2, <2>3, <2>4, Inserted
    <2>6. pc = "fill" /\ lowp = 0 /\ highp = 0
      BY <1>0, <1>4 DEF SearchInv, AddPoint
    <2>7. left' \in Nat
      BY <1>0, <1>4 DEF TypeOK, AddPoint
    <2>8. Len(continuum') \in Nat
      BY <2>5, LenProperties
    <2> HIDE DEF Entry
    <2> QED
      BY <1>0, <1>4, <2>5, <2>6, <2>7, <2>8 DEF Entry,  TypeOK, AddPoint, searchVars, numservers, numpoints
  <1>5. CASE FinishContinuum
    BY <1>0, <1>5 DEF TypeOK, FinishContinuum, ringVars, searchVars, numservers, numpoints
  <1>6. CASE BeginSearch
    BY <1>0, <1>6, Typed DEF TypeOK, BeginSearch, ringVars, numservers, numpoints
  <1>7. ASSUME NEW i \in 0 .. (numpoints - 1), Return(i)
        PROVE  TypeOK'
    <2>1. continuum[i + 1].ordinal \in 0 .. (numservers - 1)
      BY <1>0, Typed
    <2> QED
      BY <1>0, <1>7, <2>1, Typed DEF TypeOK, Return, ringVars, numservers, numpoints
  <1>8. CASE Wrap
    <2>1. 0 \in 0 .. (numpoints - 1)
      BY <1>0, <1>8, NotEmpty DEF Wrap
    <2> QED
      BY <1>7, <1>8, <2>1 DEF Wrap
  <1>9. CASE Hit
    <2>1. midp \in 0 .. (numpoints - 1)
      BY <1>0, <1>9, Middle, Typed DEF Hit
    <2> QED
      BY <1>7, <1>9, <2>1 DEF Hit
  <1>10. CASE Narrow
    <2>1. 0 \in 0 .. (numpoints - 1)
      BY <1>0, <1>10, NotEmpty DEF Narrow
    <2>2. CASE Return(0)
      BY <1>7, <2>1, <2>2
    <2>3. CASE ~ Return(0)
      <3>1. lowp' \in 0 .. numpoints /\ highp' \in 0 .. numpoints
        BY <1>0, <1>10, <2>3, Middle, Typed, SMTT(30) DEF Narrow, TypeOK
      <3> QED
        BY <1>0, <1>10, <2>3, <3>1 DEF TypeOK, Narrow, ringVars, numservers, numpoints
    <2> QED
      BY <2>2, <2>3
  <1>11. CASE UNCHANGED vars
    BY <1>0, <1>11 DEF TypeOK, vars, ringVars, searchVars, numservers, numpoints
  <1> QED
    BY <1>1, <1>2, <1>3, <1>4, <1>5, <1>6, <1>8, <1>9, <1>10, <1>11 DEF Next, SearchStep

\* The ring stays sorted, and has a point when it is ready.
LEMMA RingStep == IInv /\ [Next]_vars => RingInv'
  <1> SUFFICES ASSUME IInv, [Next]_vars
               PROVE  RingInv'
    OBVIOUS
  <1>0. TypeOK /\ RingInv
    BY DEF IInv
  <1>1. ASSUME NEW w \in Weights, AddServer(w)
        PROVE  RingInv'
    <2>1. /\ Len(servers') = numservers + 1
          /\ \A j \in 1 .. numservers : servers'[j] = servers[j]
          /\ servers'[numservers + 1] = w
          /\ numservers \in Nat /\ memory \in Nat /\ w \in Nat
          /\ memory' = memory + w
      BY <1>0, <1>1, Typed DEF TypeOK, AddServer, numservers
    <2>2. \E j \in 1 .. (numservers + 1) : servers'[j] * (numservers + 1) >= memory + w
      <3>1. CASE numservers = 0
        <4>1. memory = 0
          BY <1>0, <3>1 DEF RingInv
        <4>2. servers'[1] = w /\ w * 1 = w
          BY <2>1, <3>1
        <4> QED
          BY <2>1, <3>1, <4>1, <4>2
      <3>2. CASE numservers > 0
        <4>1. PICK j \in 1 .. numservers : servers[j] * numservers >= memory
          BY <1>0, <3>2 DEF RingInv, Heavy
        <4>2. servers[j] \in Nat
          BY Typed, ElementOfSeq, <1>0 DEF numservers
        <4>3. servers[j] * (numservers + 1) >= memory + w \/ w * (numservers + 1) >= memory + w
          BY <2>1, <4>1, <4>2, HeavyKept
        <4>4. servers'[j] = servers[j] /\ j \in 1 .. (numservers + 1)
              /\ numservers + 1 \in 1 .. (numservers + 1)
          BY <2>1, <4>1
        <4> QED
          BY <2>1, <4>3, <4>4
      <3> QED
        BY <2>1, <3>1, <3>2
    <2>3. \E j \in 1 .. numservers' : Heavy(j)'
      BY <2>1, <2>2 DEF Heavy, numservers
    <2>4. pc' = "add" /\ filled' = 0 /\ left' = 0 /\ continuum' = <<>> /\ InOrder(continuum')
      BY <1>0, <1>1 DEF RingInv, AddServer
    <2>5. numservers' <= MaxServers
      BY <1>1, <2>1 DEF AddServer, numservers
    <2> QED
      BY <2>1, <2>3, <2>4, <2>5 DEF RingInv, numservers
  <1>2. CASE CreateContinuum
    BY <1>0, <1>2 DEF RingInv, CreateContinuum, ringVars, Heavy, numservers, InOrder
  <1>3. CASE NextNode
    <2>1. \A j : Heavy(j)' = Heavy(j)
      BY <1>3 DEF NextNode, Heavy, numservers
    <2>2. ASSUME NEW j \in 1 .. filled', Heavy(j)
          PROVE  continuum # <<>> \/ left' > 0
      <3>1. CASE j \in 1 .. filled
        BY <1>0, <1>3, <2>2, <3>1 DEF RingInv, NextNode
      <3>2. CASE j = filled + 1
        <4>1. PICK ks \in Hashes(servers[j]) : left' = PerHash * ks
          BY <1>3, <3>2 DEF NextNode
        <4>2. j \in 1 .. numservers
          BY <1>0, <1>3, <3>2, Typed DEF TypeOK, NextNode
        <4>3. ks \in Nat \ {0}
          BY <1>0, <2>2, <4>1, <4>2, HeavyHashes
        <4> QED
          BY <4>1, <4>3
      <3> QED
        BY <1>0, <1>3, <3>1, <3>2 DEF TypeOK, NextNode
    <2>3. filled' > 0
      BY <1>0, <1>3, Typed DEF TypeOK, NextNode
    <2>4. pc' = "fill" /\ numservers' = numservers /\ memory' = memory /\ continuum' = continuum
          /\ numservers > 0
      BY <1>0, <1>3 DEF RingInv, NextNode, numservers
    <2>5. \E j \in 1 .. numservers : Heavy(j)
      BY <1>0, <2>4 DEF RingInv
    <2> QED
      BY <1>0, <2>1, <2>2, <2>3, <2>4, <2>5 DEF RingInv, InOrder
  <1>4. CASE AddPoint
    <2>1. PICK p \in Points : continuum' \in Placed([point |-> p, ordinal |-> filled - 1])
      BY <1>4 DEF AddPoint
    <2> DEFINE entry == [point |-> p, ordinal |-> filled - 1]
    <2>2. PICK i \in 1 .. (Len(continuum) + 1) : continuum' = InsertAt(continuum, i, entry)
      BY <2>1 DEF Placed, numpoints
    <2>3. InOrder(continuum')
      BY <2>1 DEF Placed
    <2>4. continuum' # <<>>
      <3>1. entry \in [point : Points, ordinal : 0 .. (numservers - 1)]
        BY <1>0, <1>4, Typed DEF TypeOK, RingInv, AddPoint
      <3>2. continuum \in Seq([point : Points, ordinal : 0 .. (numservers - 1)])
        BY <1>0 DEF TypeOK
      <3> HIDE DEF entry
      <3> QED
        BY <2>2, <3>1, <3>2, Inserted
    <2>5. \A j : Heavy(j)' = Heavy(j)
      BY <1>4 DEF AddPoint, Heavy, numservers
    <2>6. pc' = "fill" /\ pc = "fill" /\ numservers' = numservers /\ memory' = memory
          /\ filled' = filled /\ filled > 0
      BY <1>0, <1>4 DEF RingInv, AddPoint, numservers
    <2> QED
      BY <1>0, <2>3, <2>4, <2>5, <2>6 DEF RingInv
  <1>5. CASE FinishContinuum
    BY <1>0, <1>5 DEF RingInv, FinishContinuum, ringVars, Heavy, numservers, InOrder
  <1>6. ASSUME UNCHANGED ringVars, pc \in {"ready", "search"}, pc' \in {"ready", "search"}
        PROVE  RingInv'
    BY <1>0, <1>6 DEF RingInv, ringVars, Heavy, numservers, InOrder
  <1>7. CASE BeginSearch
    BY <1>6, <1>7 DEF BeginSearch
  <1>8. CASE SearchStep
    BY <1>6, <1>8 DEF SearchStep, Wrap, Hit, Narrow, Return, ringVars
  <1>9. CASE UNCHANGED vars
    BY <1>0, <1>9 DEF RingInv, vars, ringVars, Heavy, numservers, InOrder
  <1> QED
    BY <1>1, <1>2, <1>3, <1>4, <1>5, <1>7, <1>8, <1>9 DEF Next

\* The ring never gets more points than the weight of the nodes worked off stands for.
LEMMA RoomStep == IInv /\ [Next]_vars => RoomInv'
  <1> SUFFICES ASSUME IInv, [Next]_vars
               PROVE  RoomInv'
    OBVIOUS
  <1>0. TypeOK /\ RingInv /\ RoomInv
    BY DEF IInv
  <1>1. PICK s \in [0 .. numservers -> 0 .. memory] : Room(s)
    BY <1>0 DEF RoomInv
  <1>2. numservers \in Nat /\ memory \in Nat /\ numpoints \in Nat /\ left \in Nat
        /\ filled \in 0 .. numservers
    BY <1>0, Typed DEF TypeOK
  <1>3. ASSUME NEW w \in Weights, AddServer(w)
        PROVE  RoomInv'
    <2> DEFINE n == numservers + 1
    <2>0. PICK r : r = [i \in 0 .. n |-> IF i = n THEN memory + w ELSE s[i]]
      OBVIOUS
    <2>1. /\ numservers' = n /\ memory' = memory + w /\ w \in Nat \ {0}
          /\ \A i \in 1 .. numservers : servers'[i] = servers[i]
          /\ servers'[n] = w
      BY <1>0, <1>2, <1>3 DEF TypeOK, AddServer, numservers
    <2>2. numpoints' = 0 /\ left' = 0 /\ filled' = 0
      BY <1>0, <1>3 DEF RingInv, AddServer, numpoints
    <2>3. \A i \in 0 .. numservers : r[i] = s[i] /\ s[i] \in 0 .. memory
      BY <1>2, <2>0
    <2>4. r[n] = memory + w
      BY <1>2, <2>0
    <2>5. r \in [0 .. n -> 0 .. memory']
      <3>1. ASSUME NEW i \in 0 .. n
            PROVE  r[i] \in 0 .. memory'
        <4>1. CASE i = n
          BY <1>2, <2>1, <2>4, <4>1
        <4>2. CASE i \in 0 .. numservers
          BY <1>2, <2>1, <2>3, <4>2
        <4> QED
          BY <1>2, <4>1, <4>2
      <3> QED
        BY <2>0, <3>1
    <2>6. r[0] = 0 /\ r[numservers] = memory
      BY <1>1, <1>2, <2>3 DEF Room
    <2>7. ASSUME NEW i \in 1 .. n
          PROVE  r[i] = r[i - 1] + servers'[i]
      <3>1. CASE i = n
        BY <1>2, <2>1, <2>4, <2>6, <3>1
      <3>2. CASE i \in 1 .. numservers
        <4>1. i - 1 \in 0 .. numservers /\ i \in 0 .. numservers
          BY <1>2, <3>2
        <4>2. s[i] = s[i - 1] + servers[i]
          BY <1>1, <3>2 DEF Room
        <4> QED
          BY <2>1, <2>3, <3>2, <4>1, <4>2
      <3> QED
        BY <1>2, <3>1, <3>2
    <2>8. (numpoints' + left') * memory' * Precision <= Upper' * r[filled']
      <3>1. (numpoints' + left') * memory' * Precision = 0
        BY <1>2, <2>1, <2>2
      <3>2. Upper' \in Nat
        BY <1>2, <2>1 DEF Upper
      <3>3. Upper' * r[filled'] = 0
        <4>1. \A u \in Nat : u * 0 = 0
          OBVIOUS
        <4>2. r[filled'] = 0
          BY <2>2, <2>6
        <4> QED
          BY <3>2, <4>1, <4>2
      <3> QED
        BY <3>1, <3>3
    <2>9. Room(r)'
      BY <2>1, <2>4, <2>6, <2>7, <2>8 DEF Room
    <2>10. memory' > 0
      BY <1>2, <2>1
    <2>11. r \in [0 .. numservers' -> 0 .. memory']
      BY <2>1, <2>5
    <2> QED
      BY <2>9, <2>10, <2>11 DEF RoomInv
  <1>4. CASE NextNode
    <2>1. PICK ks \in Hashes(servers[filled + 1]) : left' = PerHash * ks
      BY <1>4 DEF NextNode
    <2>2. /\ left = 0 /\ filled < numservers /\ filled' = filled + 1 /\ servers' = servers
          /\ numservers' = numservers /\ memory' = memory /\ numpoints' = numpoints
      BY <1>4 DEF NextNode, numservers, numpoints
    <2>3. filled + 1 \in 1 .. numservers /\ filled + 1 - 1 = filled
      BY <1>2, <2>2
    <2>4. s[filled + 1] = s[filled] + servers[filled + 1]
      <3>1. \A i \in 1 .. numservers : s[i] = s[i - 1] + servers[i]
        BY <1>1 DEF Room
      <3>2. PICK i \in 1 .. numservers : i = filled + 1
        BY <2>3
      <3>3. s[i] = s[i - 1] + servers[i]
        BY <3>1
      <3>4. i - 1 = filled
        BY <1>2, <3>2
      <3> QED
        BY <3>2, <3>3, <3>4
    <2>5. servers[filled + 1] \in Nat /\ s[filled] \in Nat
      <3>1. servers \in Seq(Nat \ {0}) /\ filled + 1 \in 1 .. Len(servers)
        BY <1>0, <2>3, Typed DEF numservers
      <3>2. servers[filled + 1] \in Nat
        BY <3>1, ElementOfSeq
      <3>3. s[filled] \in 0 .. memory
        BY <1>1, <1>2
      <3> QED
        BY <3>2, <3>3
    <2>6. numpoints * memory * Precision <= Upper * s[filled]
      BY <1>1, <1>2, <2>2 DEF Room
    <2>7. (numpoints + PerHash * ks) * memory * Precision
            <= Upper * (s[filled] + servers[filled + 1])
      BY <1>0, <1>2, <2>5, <2>6, NodeShare
    <2>8. Room(s)'
      BY <1>1, <2>1, <2>2, <2>4, <2>7 DEF Room, Upper
    <2> QED
      BY <1>0, <1>1, <2>2, <2>8 DEF RoomInv
  <1>5. CASE AddPoint
    <2>1. PICK p \in Points : continuum' \in Placed([point |-> p, ordinal |-> filled - 1])
      BY <1>5 DEF AddPoint
    <2> DEFINE entry == [point |-> p, ordinal |-> filled - 1]
               Entry == [point : Points, ordinal : 0 .. (numservers - 1)]
    <2>2. PICK i \in 1 .. (Len(continuum) + 1) : continuum' = InsertAt(continuum, i, entry)
      BY <2>1 DEF Placed, numpoints
    <2>3. entry \in Entry
      BY <1>0, <1>5, Typed DEF TypeOK, RingInv, AddPoint
    <2>4. continuum \in Seq(Entry)
      BY <1>0 DEF TypeOK
    <2> HIDE DEF entry, Entry
    <2>5. numpoints' = numpoints + 1
      BY <2>2, <2>3, <2>4, Inserted DEF numpoints
    <2>6. /\ left > 0 /\ left' = left - 1 /\ filled' = filled /\ servers' = servers
          /\ numservers' = numservers /\ memory' = memory
      BY <1>5 DEF AddPoint, numservers
    <2>7. numpoints' + left' = numpoints + left
      BY <1>2, <2>5, <2>6
    <2>8. Room(s)'
      BY <1>1, <2>6, <2>7 DEF Room, Upper
    <2> QED
      BY <1>0, <1>1, <2>6, <2>8 DEF RoomInv
  <1>6. ASSUME UNCHANGED ringVars
        PROVE  RoomInv'
    BY <1>0, <1>6 DEF RoomInv, Room, Upper, ringVars, numservers, numpoints
  <1>7. CASE CreateContinuum \/ FinishContinuum \/ BeginSearch
    BY <1>6, <1>7 DEF CreateContinuum, FinishContinuum, BeginSearch
  <1>8. CASE SearchStep
    BY <1>6, <1>8 DEF SearchStep, Wrap, Hit, Narrow, Return, ringVars
  <1>9. CASE UNCHANGED vars
    BY <1>6, <1>9 DEF vars
  <1> QED
    BY <1>3, <1>4, <1>5, <1>7, <1>8, <1>9 DEF Next

\* The search closes in on the owner of the key.
LEMMA SearchInvStep == IInv /\ [Next]_vars => SearchInv'
  <1> SUFFICES ASSUME IInv, [Next]_vars
               PROVE  SearchInv'
    OBVIOUS
  <1>0. TypeOK /\ RingInv /\ SearchInv
    BY DEF IInv
  <1>1. ASSUME pc \notin {"ready", "search"}, pc' # "search", UNCHANGED searchVars
        PROVE  SearchInv'
    BY <1>0, <1>1 DEF SearchInv, searchVars
  <1>2. CASE \E w \in Weights : AddServer(w)
    BY <1>1, <1>2 DEF AddServer
  <1>3. CASE CreateContinuum \/ NextNode \/ AddPoint \/ FinishContinuum
    BY <1>1, <1>3 DEF CreateContinuum, NextNode, AddPoint, FinishContinuum
  <1>4. CASE BeginSearch
    BY <1>0, <1>4, Typed DEF SearchInv, BeginSearch, ringVars, numpoints
  <1>5. ASSUME NEW i, Return(i)
        PROVE  SearchInv'
    BY <1>5 DEF SearchInv, Return
  <1>6. CASE Wrap \/ Hit
    BY <1>5, <1>6 DEF Wrap, Hit
  <1>7. CASE Narrow
    <2>1. CASE Return(0)
      BY <1>5, <2>1
    <2>2. CASE ~ Return(0)
      <3> DEFINE right == PointAt(midp) < key
      <3>1. /\ pc' = "search" /\ answer' = {} /\ key' = key /\ continuum' = continuum
            /\ lowp' = IF right THEN midp + 1 ELSE lowp
            /\ highp' = IF right THEN highp ELSE midp - 1
            /\ lowp' <= highp'
        BY <1>0, <1>7, <2>2, Typed DEF Narrow, SearchInv, ringVars, midp
      <3>2. midp \in Nat /\ midp < numpoints /\ numpoints \in Nat /\ lowp \in Nat /\ highp \in Nat
        BY <1>0, <1>7, Middle, Typed DEF Narrow
      <3>3. continuum[midp + 1].point \in Nat /\ key \in Nat
        BY <1>0, <3>2, Typed
      <3>4. CASE right
        BY <1>0, <3>1, <3>2, <3>4 DEF SearchInv, PointAt, numpoints
      <3>5. CASE ~ right
        <4>1. key <= PointUpTo(midp)
          <5>1. ~ key > PointUpTo(midp)
            BY <1>7, <3>3, <3>5 DEF Narrow, PointAt
          <5>2. PointUpTo(midp) \in Nat
            BY <1>0, <3>2, Typed DEF PointUpTo, PointAt
          <5> QED
            BY <3>3, <5>1, <5>2
        <4>2. midp > 0
          BY <3>1, <3>2, <3>5
        <4>3. continuum[midp].point >= key
          BY <3>2, <3>3, <4>1, <4>2 DEF PointUpTo, PointAt
        <4> QED
          BY <1>0, <3>1, <3>2, <3>5, <4>3 DEF SearchInv, numpoints
      <3> QED
        BY <3>4, <3>5
    <2> QED
      BY <2>1, <2>2
  <1>8. CASE UNCHANGED vars
    BY <1>0, <1>8 DEF SearchInv, vars, ringVars, searchVars, numpoints
  <1> QED
    BY <1>2, <1>3, <1>4, <1>6, <1>7, <1>8 DEF Next, SearchStep

\* What a lookup returns is the owner of its key.
LEMMA LookupRightStep == IInv /\ [Next]_vars => LookupRight'
  <1> SUFFICES ASSUME IInv, [Next]_vars
               PROVE  LookupRight'
    OBVIOUS
  <1>0. TypeOK /\ RingInv /\ SearchInv /\ LookupRight
    BY DEF IInv
  <1>1. ASSUME UNCHANGED <<continuum, key, answer>>
        PROVE  LookupRight'
    BY <1>0, <1>1 DEF LookupRight, Owner
  <1>2. ASSUME answer' = {}
        PROVE  LookupRight'
    BY <1>2 DEF LookupRight
  <1>3. ASSUME NEW i, Return(i), Owner(key) = continuum[i + 1].ordinal
        PROVE  LookupRight'
    BY <1>3 DEF LookupRight, Return, ringVars, Owner
  <1>4. CASE \E w \in Weights : AddServer(w)
    BY <1>1, <1>4 DEF AddServer, searchVars
  <1>5. CASE CreateContinuum \/ NextNode \/ FinishContinuum
    BY <1>1, <1>5 DEF CreateContinuum, NextNode, FinishContinuum, ringVars, searchVars
  <1>6. CASE AddPoint
    BY <1>0, <1>2, <1>6 DEF AddPoint, SearchInv, searchVars
  <1>7. CASE BeginSearch
    BY <1>2, <1>7 DEF BeginSearch
  <1>8. CASE Wrap
    <2>1. numpoints \in Nat \ {0} /\ numpoints = highp /\ numpoints = midp
      BY <1>0, <1>8, NotEmpty, Middle DEF Wrap, TypeOK
    <2>2. lowp = numpoints
      BY <1>0, <2>1, <1>8, Typed DEF Wrap, midp, SearchInv
    <2>3. Owner(key) = continuum[1].ordinal
      BY <1>0, <1>8, <2>1, <2>2, OwnerBehind, Typed DEF Wrap, SearchInv, RingInv
    <2> QED
      BY <1>3, <1>8, <2>3 DEF Wrap
  <1>9. CASE Hit
    <2>1. midp \in Nat /\ midp + 1 \in 1 .. numpoints
      BY <1>0, <1>9, Middle, Typed DEF Hit
    <2>2. continuum[midp + 1].point >= key
      BY <1>0, <1>9, <2>1, Typed DEF Hit, PointAt
    <2>3. midp + 1 > 1 => continuum[midp].point < key
      BY <1>0, <1>9, <2>1, Typed DEF Hit, PointUpTo, PointAt
    <2>4. Owner(key) = continuum[midp + 1].ordinal
      <3>1. midp + 1 - 1 = midp
        BY <2>1
      <3> QED
        BY <1>0, <2>1, <2>2, <2>3, <3>1, OwnerAt, Typed, SMTT(30) DEF RingInv
    <2> QED
      BY <1>3, <1>9, <2>4 DEF Hit
  <1>10. CASE Narrow
    <2>1. CASE Return(0)
      <3>1. /\ pc = "search"
            /\ midp # numpoints
            /\ ~ (key <= PointAt(midp) /\ key > PointUpTo(midp))
        BY <1>10 DEF Narrow
      <3>2. midp \in Nat /\ midp < numpoints /\ numpoints \in Nat /\ lowp \in Nat /\ highp \in Nat
            /\ lowp <= midp /\ midp <= highp
        BY <1>0, <3>1, Middle, Typed
      <3>3. continuum[midp + 1].point \in Nat /\ key \in Nat /\ continuum[1].point \in Nat
        BY <1>0, <3>2, Typed
      <3>4. (IF PointAt(midp) < key THEN midp + 1 ELSE lowp)
              > (IF PointAt(midp) < key THEN highp ELSE midp - 1)
        BY <1>10, <2>1, <3>1 DEF Narrow, Return
      <3>5. CASE PointAt(midp) < key
        <4>1. highp = midp
          BY <3>2, <3>4, <3>5
        <4>2. continuum[highp + 1].point >= key
          BY <1>0, <3>1, <3>2, <4>1 DEF SearchInv
        <4> QED
          BY <3>3, <3>5, <4>1, <4>2 DEF PointAt
      <3>6. CASE ~ PointAt(midp) < key
        <4>1. lowp = midp
          BY <3>2, <3>4, <3>6
        <4>2. ~ key > PointUpTo(midp)
          BY <3>1, <3>3, <3>6 DEF PointAt
        <4>3. midp = 0
          <5>1. ASSUME midp > 0
                PROVE  FALSE
            <6>1. continuum[midp].point < key
              BY <1>0, <3>1, <4>1, <5>1 DEF SearchInv
            <6>2. PointUpTo(midp) = continuum[midp].point /\ continuum[midp].point \in Nat
              BY <1>0, <3>2, <5>1, Typed DEF PointUpTo, PointAt
            <6> QED
              BY <3>3, <4>2, <6>1, <6>2
          <5> QED
            BY <3>2, <5>1
        <4>4. continuum[1].point >= key /\ 1 \in 1 .. numpoints
          BY <3>2, <3>3, <3>6, <4>3 DEF PointAt
        <4>5. Owner(key) = continuum[1].ordinal
          BY <1>0, <3>3, <4>4, OwnerAt DEF RingInv
        <4> QED
          BY <1>3, <2>1, <4>5
      <3> QED
        BY <3>5, <3>6
    <2>2. CASE ~ Return(0)
      BY <1>1, <1>10, <2>2 DEF Narrow, ringVars
    <2> QED
      BY <2>1, <2>2
  <1>11. CASE UNCHANGED vars
    BY <1>1, <1>11 DEF vars, ringVars, searchVars
  <1> QED
    BY <1>4, <1>5, <1>6, <1>7, <1>8, <1>9, <1>10, <1>11 DEF Next, SearchStep

-----------------------------------------------------------------------------
(* The invariant. *)

\* The program starts without nodes and without a ring.
LEMMA InitInv == Init => IInv
  <1> SUFFICES ASSUME Init
               PROVE  IInv
    OBVIOUS
  <1>1. servers = <<>> /\ continuum = <<>> /\ Len(<<>>) = 0
    BY DEF Init
  <1>2. TypeOK
    BY <1>1 DEF Init, TypeOK, Points, numservers, numpoints
  <1>3. RingInv
    BY <1>1 DEF Init, RingInv, InOrder, numservers
  <1>4. SearchInv /\ LookupRight
    BY DEF Init, SearchInv, LookupRight
  <1>5. RoomInv
    <2>1. /\ numservers = 0 /\ numpoints = 0 /\ memory = 0 /\ left = 0 /\ filled = 0
      BY <1>1 DEF Init, numservers, numpoints
    <2>2. [i \in 0 .. 0 |-> 0] \in [0 .. numservers -> 0 .. memory]
      BY <2>1
    <2>3. Room([i \in 0 .. 0 |-> 0])
      BY <2>1 DEF Room, Upper
    <2> QED
      BY <2>1, <2>2, <2>3 DEF RoomInv
  <1> QED
    BY <1>2, <1>3, <1>4, <1>5 DEF IInv

\* The conjunction of the invariants is inductive.
LEMMA NextInv == IInv /\ [Next]_vars => IInv'
  BY TypeStep, RingStep, RoomStep, SearchInvStep, LookupRightStep DEF IInv

\* The conjunction holds in every reachable state (ketama.c:74-179, ketama.c:186-244).
THEOREM Invariant == SafeSpec => []IInv
  BY InitInv, NextInv, PTL DEF SafeSpec

\* Every variable keeps its type; above all the binary search never leaves the ring
\* (ketama.c:155-161) and no node is written behind the array (ketama.c:76, ketama.c:88).
THEOREM TypeCorrect == SafeSpec => []TypeOK
  <1>1. IInv => TypeOK
    BY DEF IInv
  <1> QED
    BY <1>1, Invariant, PTL

\* A lookup returns the node that owns the key, in a ring of any size with any
\* collisions (ketama.c:153-178).
THEOREM LookupsFindOwner == SafeSpec => []LookupRight
  <1>1. IInv => LookupRight
    BY DEF IInv
  <1> QED
    BY <1>1, Invariant, PTL

\* However the weights are distributed and their shares are rounded, up or down, no point is
\* written behind the 160 places of each node (ketama.c:196, ketama.c:203-233).
THEOREM RingWithinMemory == SafeSpec => []RingFits
  <1>1. IInv => RingFits
    <2> SUFFICES ASSUME IInv
                 PROVE  RingFits
      OBVIOUS
    <2>1. TypeOK /\ RingInv /\ RoomInv
      BY DEF IInv
    <2>2. PICK s \in [0 .. numservers -> 0 .. memory] : Room(s)
      BY <2>1 DEF RoomInv
    <2>3. numservers \in Nat /\ memory \in Nat /\ numpoints \in Nat /\ left \in Nat
          /\ filled \in 0 .. numservers
      BY <2>1, Typed DEF TypeOK
    <2>4. CASE numservers = 0
      BY <2>1, <2>3, <2>4 DEF RingInv, RingFits, numpoints
    <2>5. CASE numservers > 0
      <3>1. memory \in Nat \ {0} /\ s[filled] \in 0 .. memory
        BY <2>1, <2>2, <2>3, <2>5 DEF RoomInv
      <3> DEFINE p == numpoints + left
                 c == Share * PerHash * numservers
                 x == s[filled]
      <3>2. /\ p \in Nat /\ c \in Nat /\ p * Precision \in Nat /\ c * (Precision + 1) \in Nat
            /\ p * Precision * memory = p * memory * Precision
        BY <2>3
      <3>3. p * memory * Precision <= c * (Precision + 1) * x
        BY <2>2 DEF Room, Upper
      <3>4. c < Precision
        <4>1. numservers <= MaxServers
          BY <2>1 DEF RingInv
        <4>2. Share * PerHash \in Nat /\ c = (Share * PerHash) * numservers
          OBVIOUS
        <4>3. (Share * PerHash) * numservers <= (Share * PerHash) * MaxServers
          BY <2>3, <4>1, <4>2
        <4>4. (Share * PerHash) * MaxServers = MaxServers * Share * PerHash
          OBVIOUS
        <4>5. (Share * PerHash) * MaxServers \in Nat /\ MaxServers * Share * PerHash < Precision
          OBVIOUS
        <4> HIDE DEF c
        <4> QED
          BY <3>2, <4>2, <4>3, <4>4, <4>5
      <3> HIDE DEF p, c, x
      <3>5. p * Precision <= c * (Precision + 1)
        <4>1. x \in 0 .. memory
          BY <3>1 DEF x
        <4>2. p * Precision * memory <= c * (Precision + 1) * x
          BY <3>2, <3>3
        <4>3. PICK q \in Nat, d \in Nat : q = p * Precision /\ d = c * (Precision + 1)
          BY <3>2
        <4>4. q * memory <= d * x
          BY <4>2, <4>3
        <4>5. q <= d
          BY <3>1, <4>1, <4>4, WholeShare
        <4> QED
          BY <4>3, <4>5
      <3>6. p <= c
        BY <3>2, <3>4, <3>5, RoundedShare
      <3>7. p = numpoints + left /\ c = Share * PerHash * numservers
        BY DEF p, c
      <3> QED
        BY <2>3, <3>2, <3>6, <3>7 DEF RingFits
    <2> QED
      BY <2>3, <2>4, <2>5
  <1> QED
    BY <1>1, Invariant, PTL

\* However the weights are distributed and rounded, keys are looked up in a ring that
\* has a point (ketama.c:158, ketama.c:176 read the first one without asking).
THEOREM RingNotEmpty == SafeSpec => [](pc \in {"ready", "search"} => continuum # <<>>)
  <1>1. IInv => (pc \in {"ready", "search"} => continuum # <<>>)
    <2> SUFFICES ASSUME IInv, pc \in {"ready", "search"}
                 PROVE  continuum # <<>>
      OBVIOUS
    <2>1. numpoints \in Nat \ {0}
      BY NotEmpty DEF IInv
    <2> QED
      BY <2>1 DEF numpoints
  <1> QED
    BY <1>1, Invariant, PTL
=============================================================================

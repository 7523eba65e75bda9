---------------------------- MODULE RequestsProofs ----------------------------
(***************************************************************************)
(* Proof that what a worker of module Session makes of a client's lines is *)
(* what the protocol says, however the lines are cut into reads.           *)
(***************************************************************************)
EXTENDS SessionProofs, WellFoundedInduction

-----------------------------------------------------------------------------
(* The inductive invariant. *)

\* The entries of the log L are the answers to the requests that begin at the lines b[1],
\* b[2], ... of s; the next one begins at b[Len(L) + 1].
Cut(s, L, b) ==
  /\ b \in [1 .. (Len(L) + 1) -> 1 .. (Len(s) + 1)]
  /\ b[1] = 1
  /\ \A j \in 1 .. Len(L) :
       /\ ~ Unanswered(s, b[j])
       /\ L[j] = Answer(s, b[j])
       /\ b[j + 1] = Following(s, b[j])

\* The message m is made of the lines of s from p on.
MadeOf(s, m, p) ==
  IF m.stat = "more"
    THEN /\ p <= Len(s)
         /\ IsCommand(s[p]) /\ m.name = s[p].name /\ m.count = ParamCount(s[p])
         /\ Len(m.params) = Len(s) - p
         /\ \A j \in 1 .. Len(m.params) : IsParam(s[p + j]) /\ m.params[j] = s[p + j].head
    ELSE p = Len(s) + 1

\* The log L answers every request of s that has an answer, and as long as the worker goes on
\* with the client, m is what there is of the next one.
Understood(s, L, m, on) ==
  \E b \in [1 .. (Len(L) + 1) -> 1 .. (Len(s) + 1)] :
    /\ Cut(s, L, b)
    /\ Unanswered(s, b[Len(L) + 1])
    /\ on => MadeOf(s, m, b[Len(L) + 1])

\* The lines that were taken.
Read(c) == SubSeq(sent[c], 1, taken[c])

RequestsInv ==
  \A c \in Clients : Understood(Read(c), log[c], msg[c], alive /\ open[c])

-----------------------------------------------------------------------------
(* Numbers. *)

\* Every set of numbers has a least one.
LEMMA Least ==
  ASSUME NEW T \in SUBSET Nat, T # {}
  PROVE  \E n \in T : \A m \in T : n <= m
<1> DEFINE R == OpToRel(<, Nat)
<1>1. IsWellFoundedOn(R, Nat)
  BY NatLessThanWellFounded
<1>2. \A x, y \in Nat : <<y, x>> \in R <=> y < x
  BY DEF OpToRel
<1> HIDE DEF R
<1>3. PICK n \in T : \A m \in T : ~ (<<m, n>> \in R)
  BY <1>1, WFMin
<1>4. \A m \in T : n <= m
  <2>1. ASSUME NEW m \in T PROVE n <= m
    <3>1. ~ m < n /\ m \in Nat /\ n \in Nat
      BY <1>2, <1>3
    <3> QED
      BY <3>1
  <2> QED
    BY <2>1
<1> QED
  BY <1>4

LEMMA LeastIsMin ==
  ASSUME NEW T \in SUBSET Nat, T # {}
  PROVE  Min(T) \in T /\ \A m \in T : Min(T) <= m
<1>1. \E n \in T : \A m \in T : n <= m
  BY Least
<1> QED
  BY <1>1 DEF Min

LEMMA MinIs ==
  ASSUME NEW T \in SUBSET Nat, NEW n \in T, \A m \in T : n <= m
  PROVE  Min(T) = n
<1>1. Min(T) \in T /\ \A m \in T : Min(T) <= m
  BY LeastIsMin
<1>2. Min(T) <= n /\ n <= Min(T) /\ Min(T) \in Nat /\ n \in Nat
  BY <1>1
<1> QED
  BY <1>2

-----------------------------------------------------------------------------
(* The requests in a sequence of lines. *)

\* How many parameters a line announces.
LEMMA Announces ==
  ASSUME NEW l \in Lines, IsCommand(l)
  PROVE  ParamCount(l) \in Nat /\ l.name \in Names
<1>1. l.head = "command"
  BY DEF IsCommand
<1>2. l.args \in Seq(Int) /\ Len(l.args) <= 1
  BY <1>1, LinesAssumption
<1>3. Announced(l) \in Nat
  <2>1. CASE l.args = <<>>
    BY <2>1 DEF Announced
  <2>2. CASE l.args # <<>>
    <3>1. l.args[1] \in Int
      BY <1>2, <2>2
    <3> QED
      BY <2>2, <3>1, ModAssumption DEF Announced
  <2> QED
    BY <2>1, <2>2
<1>4. ParamCount(l) \in Nat
  BY <1>3, ModAssumption DEF ParamCount
<1> QED
  BY <1>1, <1>4 DEF Names

\* A request that has an answer ends within the lines.
LEMMA FollowsLater ==
  ASSUME NEW s \in Seq(Lines), NEW i \in 1 .. (Len(s) + 1), ~ Unanswered(s, i)
  PROVE  /\ i \in 1 .. Len(s)
         /\ Following(s, i) \in (i + 1) .. (Len(s) + 1)
<1>1. PICK n \in Nat : n = Len(s)
  OBVIOUS
<1>2. i \in 1 .. n
  BY <1>1 DEF Unanswered
<1>3. s[i] \in Lines
  BY <1>1, <1>2
<1>4. CASE ~ IsCommand(s[i])
  BY <1>1, <1>2, <1>4 DEF Following
<1>5. CASE IsCommand(s[i]) /\ Broken(s, i) # {}
  <2>1. Broken(s, i) \in SUBSET Nat /\ \A j \in Broken(s, i) : i + 1 <= j /\ j <= n
    <3>1. LastLine(s, i) \in Int
      BY <1>2, <1>3, <1>5, Announces DEF LastLine
    <3> QED
      BY <1>1, <1>2, <3>1 DEF Broken
  <2>2. Min(Broken(s, i)) \in Broken(s, i)
    BY <1>5, <2>1, LeastIsMin
  <2>3. Min(Broken(s, i)) \in Nat /\ i + 1 <= Min(Broken(s, i)) /\ Min(Broken(s, i)) <= n
    BY <2>1, <2>2
  <2> QED
    BY <1>1, <1>2, <1>5, <2>3 DEF Following
<1>6. CASE IsCommand(s[i]) /\ Broken(s, i) = {}
  <2>1. ~ LastLine(s, i) > n
    BY <1>1, <1>6 DEF Unanswered
  <2>2. ParamCount(s[i]) \in Nat
    BY <1>3, <1>6, Announces
  <2>3. LastLine(s, i) \in Nat /\ i <= LastLine(s, i)
    BY <1>2, <2>2 DEF LastLine
  <2> QED
    BY <1>1, <1>2, <1>6, <2>1, <2>3 DEF Following
<1> QED
  BY <1>4, <1>5, <1>6

\* There is a function that the recursive definition of RequestLog defines.
ResultAt(s, f, i) == IF Unanswered(s, i) THEN <<>> ELSE <<Answer(s, i)>> \o f[Following(s, i)]

LEMMA ResultExists ==
  ASSUME NEW s \in Seq(Lines)
  PROVE  \E f : f = [i \in 1 .. (Len(s) + 1) |-> ResultAt(s, f, i)]
<1>1. PICK n \in Nat : n = Len(s) + 1
  OBVIOUS
<1> DEFINE From(k) == (n - k) .. n
           Has(k) == \E f : f = [i \in From(k) |-> ResultAt(s, f, i)]
           T == {k \in 0 .. (n - 1) : ~ Has(k)}
<1>2. T = {}
  <2>1. SUFFICES ASSUME T # {} PROVE FALSE
    OBVIOUS
  <2>2. PICK k \in T : \A h \in T : k <= h
    <3>1. T \in SUBSET Nat
      OBVIOUS
    <3> HIDE DEF T
    <3> QED
      BY <2>1, <3>1, Least
  <2>3. k \in 0 .. (n - 1) /\ ~ Has(k)
    OBVIOUS
  <2>4. CASE k = 0
    <3>1. PICK f : f = [i \in From(0) |-> <<>>]
      OBVIOUS
    <3>2. \A i \in From(0) : ResultAt(s, f, i) = <<>>
      <4>1. \A i \in From(0) : i = Len(s) + 1 /\ i > Len(s)
        BY <1>1
      <4> QED
        BY <4>1 DEF ResultAt, Unanswered
    <3>3. f = [i \in From(0) |-> ResultAt(s, f, i)]
      <4> HIDE DEF From
      <4> QED
        BY <3>1, <3>2
    <3> QED
      BY <2>3, <2>4, <3>3
  <2>5. CASE k # 0
    <3>1. PICK h \in 0 .. (n - 1) : h = k - 1 /\ k = h + 1
      BY <2>3, <2>5
    <3>2. Has(h)
      <4>1. h \notin T
        <5>1. ~ k <= h
          BY <2>3, <3>1
        <5> HIDE DEF T
        <5> QED
          BY <2>2, <5>1
      <4> QED
        BY <4>1
    <3>3. PICK f : f = [i \in From(h) |-> ResultAt(s, f, i)]
      BY <3>2
    <3>4. PICK x \in 1 .. n : x = n - k
      BY <2>3
    <3>5. PICK g : g = [i \in From(k) |-> IF i = x THEN ResultAt(s, f, x) ELSE f[i]]
      OBVIOUS
    <3>6. \A i \in From(k) : i = x \/ i \in From(h)
      BY <3>1, <3>4
    <3>7. \A i \in From(h) : i \in From(k) /\ i # x /\ i \in 1 .. n
      BY <3>1, <3>4, <2>3
    <3>8. \A i \in From(h) : g[i] = f[i]
      <4> HIDE DEF From
      <4> QED
        BY <3>5, <3>7
    <3>9. ASSUME NEW i \in From(k), ~ Unanswered(s, i)
          PROVE  Following(s, i) \in From(h)
      <4>1. i \in 1 .. (Len(s) + 1)
        BY <1>1, <3>4, <3>6, <3>7
      <4>2. Following(s, i) \in (i + 1) .. n
        BY <1>1, <3>9, <4>1, FollowsLater
      <4>3. i >= n - k
        OBVIOUS
      <4> QED
        BY <3>1, <4>2, <4>3, <2>3
    <3>10. \A i \in From(k) : ResultAt(s, g, i) = ResultAt(s, f, i)
      <4> HIDE DEF From
      <4> QED
        BY <3>8, <3>9 DEF ResultAt
    <3>11. \A i \in From(k) : g[i] = ResultAt(s, f, i)
      <4> HIDE DEF From
      <4>1. \A i \in From(h) : f[i] = ResultAt(s, f, i)
        BY <3>3
      <4> QED
        BY <3>5, <3>6, <4>1
    <3>12. g = [i \in From(k) |-> ResultAt(s, g, i)]
      <4> HIDE DEF From
      <4> QED
        BY <3>5, <3>10, <3>11
    <3> QED
      BY <2>3, <3>12
  <2> QED
    BY <2>4, <2>5
<1>3. n - 1 \in 0 .. (n - 1) /\ From(n - 1) = 1 .. n
  BY <1>1
<1>4. Has(n - 1)
  <2> HIDE DEF Has
  <2> QED
    BY <1>2, <1>3
<1> QED
  BY <1>1, <1>3, <1>4

LEMMA LogIsResult ==
  ASSUME NEW s \in Seq(Lines)
  PROVE  \E f : /\ f = [i \in 1 .. (Len(s) + 1) |-> ResultAt(s, f, i)]
               /\ RequestLog(s) = f[1]
<1> DEFINE F == CHOOSE f : f = [i \in 1 .. (Len(s) + 1) |-> ResultAt(s, f, i)]
<1>1. F = [i \in 1 .. (Len(s) + 1) |-> ResultAt(s, F, i)]
  BY ResultExists
<1>2. RequestLog(s) = F[1]
  BY DEF RequestLog, ResultAt
<1> QED
  BY <1>1, <1>2

\* A log that is cut out of the lines, with nothing to answer behind it, is the one that the
\* protocol says.
LEMMA CutIsLog ==
  ASSUME NEW s \in Seq(Lines), NEW T, NEW L \in Seq(T), NEW b, Cut(s, L, b),
         Unanswered(s, b[Len(L) + 1])
  PROVE  L = RequestLog(s)
<1>1. PICK n \in Nat, N \in Nat : n = Len(L) /\ N = Len(s)
  OBVIOUS
<1>2. PICK f : /\ f = [i \in 1 .. (N + 1) |-> ResultAt(s, f, i)]
               /\ RequestLog(s) = f[1]
  BY <1>1, LogIsResult
<1>3. /\ \A j \in 1 .. (n + 1) : b[j] \in 1 .. (N + 1)
      /\ b[1] = 1
      /\ \A j \in 1 .. n : ~ Unanswered(s, b[j]) /\ L[j] = Answer(s, b[j]) /\ b[j + 1] = Following(s, b[j])
  BY <1>1 DEF Cut
<1> DEFINE Right(x) == f[b[n + 1 - x]] = SubSeq(L, n + 1 - x, n)
           W == {x \in 0 .. n : ~ Right(x)}
<1>4. W = {}
  <2>1. SUFFICES ASSUME W # {} PROVE FALSE
    OBVIOUS
  <2>2. PICK x \in W : \A y \in W : x <= y
    <3>1. W \in SUBSET Nat
      OBVIOUS
    <3> HIDE DEF W
    <3> QED
      BY <2>1, <3>1, Least
  <2>3. x \in 0 .. n /\ ~ Right(x)
    OBVIOUS
  <2>4. PICK k \in 1 .. (n + 1) : k = n + 1 - x
    BY <2>3
  <2>5. f[b[k]] = ResultAt(s, f, b[k])
    BY <1>2, <1>3
  <2>6. CASE x = 0
    <3>1. k = n + 1 /\ Unanswered(s, b[k])
      BY <1>1, <2>4, <2>6
    <3>2. f[b[k]] = <<>>
      BY <2>5, <3>1 DEF ResultAt
    <3>3. SubSeq(L, k, n) = <<>>
      BY <1>1, <3>1, SubSeqEmpty
    <3> QED
      BY <2>3, <2>4, <3>2, <3>3
  <2>7. CASE x # 0
    <3>1. PICK y \in 0 .. n : y = x - 1
      BY <2>3, <2>7
    <3>2. Right(y)
      <4>1. ~ x <= y
        BY <2>3, <3>1
      <4>2. y \notin W
        <5> HIDE DEF W
        <5> QED
          BY <2>2, <4>1
      <4> QED
        BY <4>2
    <3>3. k \in 1 .. n /\ k + 1 = n + 1 - y
      BY <2>3, <2>4, <2>7, <3>1
    <3>4. f[b[k + 1]] = SubSeq(L, k + 1, n)
      BY <3>2, <3>3
    <3>5. f[b[k]] = <<L[k]>> \o f[b[k + 1]]
      BY <1>3, <2>5, <3>3 DEF ResultAt
    <3>6. SubSeq(L, k, n) = <<L[k]>> \o SubSeq(L, k + 1, n)
      <4>1. n \in k .. n /\ n \in k .. Len(L) /\ k \in 1 .. Len(L)
        BY <1>1, <3>3
      <4> QED
        BY <1>1, <4>1, SubSeqRecursiveFirst
    <3> QED
      BY <2>3, <2>4, <3>4, <3>5, <3>6
  <2> QED
    BY <2>6, <2>7
<1>5. Right(n)
  <2>1. n \in 0 .. n
    OBVIOUS
  <2> QED
    BY <1>4, <2>1
<1>6. n + 1 - n = 1
  OBVIOUS
<1>7. SubSeq(L, 1, n) = L
  BY <1>1, SubSeqFull
<1> QED
  BY <1>2, <1>3, <1>5, <1>6, <1>7

-----------------------------------------------------------------------------
(* One line more. *)

LEMMA OneLineMore ==
  ASSUME NEW s \in Seq(Lines), NEW l \in Lines
  PROVE  LET t == Append(s, l)
         IN  /\ t \in Seq(Lines) /\ Len(t) = Len(s) + 1
             /\ t[Len(s) + 1] = l
             /\ \A i \in 1 .. Len(s) : t[i] = s[i] /\ LastLine(t, i) = LastLine(s, i)
  BY AppendProperties DEF LastLine

\* A request that has its answer keeps it.
LEMMA AnswerStays ==
  ASSUME NEW s \in Seq(Lines), NEW l \in Lines, NEW i \in 1 .. (Len(s) + 1), ~ Unanswered(s, i)
  PROVE  LET t == Append(s, l)
         IN  ~ Unanswered(t, i) /\ Answer(t, i) = Answer(s, i) /\ Following(t, i) = Following(s, i)
<1>1. PICK n \in Nat, t \in Seq(Lines) : n = Len(s) /\ t = Append(s, l)
  <2>1. Append(s, l) \in Seq(Lines) /\ Len(s) \in Nat
    OBVIOUS
  <2> QED
    BY <2>1
<1>2. /\ Len(t) = n + 1 /\ t[n + 1] = l
      /\ \A j \in 1 .. n : t[j] = s[j] /\ LastLine(t, j) = LastLine(s, j)
  BY <1>1, OneLineMore
<1>3. i \in 1 .. n /\ s[i] \in Lines /\ t[i] = s[i] /\ LastLine(t, i) = LastLine(s, i)
  BY <1>1, <1>2, FollowsLater
<1>4. ~ i > Len(t)
  BY <1>2, <1>3
<1>5. CASE ~ IsCommand(s[i])
  BY <1>1, <1>3, <1>4, <1>5 DEF Unanswered, Answer, Following
<1>6. CASE IsCommand(s[i])
  <2>1. PICK e \in Nat : e = LastLine(s, i)
    BY <1>3, <1>6, Announces DEF LastLine
  <2>2. Broken(s, i) = {j \in (i + 1) .. e : j <= n /\ ~ IsParam(s[j])}
    BY <1>1, <2>1 DEF Broken
  <2>3. Broken(t, i) = {j \in (i + 1) .. e : j <= n + 1 /\ ~ IsParam(t[j])}
    BY <1>2, <1>3, <2>1 DEF Broken
  <2>4. \A j \in Nat : j \in Broken(s, i) <=> j \in Broken(t, i) /\ j <= n
    <3>1. ASSUME NEW j \in Nat, j \in (i + 1) .. e, j <= n PROVE t[j] = s[j]
      BY <1>2, <1>3, <3>1
    <3> QED
      BY <2>2, <2>3, <3>1
  <2>5. Broken(s, i) \in SUBSET Nat /\ Broken(t, i) \in SUBSET Nat
    BY <1>3, <2>2, <2>3
  <2>6. CASE Broken(s, i) # {}
    <3>1. PICK k \in Nat : k = Min(Broken(s, i)) /\ k \in Broken(s, i) /\ \A j \in Broken(s, i) : k <= j
      BY <2>5, <2>6, LeastIsMin
    <3>2. k \in Broken(t, i) /\ k <= n
      BY <2>4, <3>1
    <3>3. \A j \in Broken(t, i) : k <= j
      <4>1. ASSUME NEW j \in Broken(t, i) PROVE k <= j
        <5>1. j \in Nat
          BY <2>5
        <5>2. CASE j <= n
          BY <2>4, <3>1, <5>1, <5>2
        <5>3. CASE ~ j <= n
          BY <3>2, <5>1, <5>3
        <5> QED
          BY <5>2, <5>3
      <4> QED
        BY <4>1
    <3>4. Min(Broken(t, i)) = k
      BY <2>5, <3>2, <3>3, MinIs
    <3>5. Broken(t, i) # {}
      BY <3>2
    <3> HIDE DEF Broken
    <3> QED
      BY <1>1, <1>3, <1>4, <1>6, <2>6, <3>1, <3>4, <3>5 DEF Unanswered, Answer, Following
  <2>7. CASE Broken(s, i) = {}
    <3>1. e <= n /\ ~ Crashes(RequestAt(s, i))
      BY <1>1, <1>6, <2>1, <2>7 DEF Unanswered
    <3>2. Broken(t, i) = {}
      <4>1. \A j \in Broken(t, i) : j \in Nat /\ j <= n
        BY <1>3, <2>3, <3>1
      <4> QED
        BY <2>4, <2>7, <4>1
    <3>3. RequestAt(t, i) = RequestAt(s, i)
      <4>1. PICK q \in Nat : q = ParamCount(s[i]) /\ e = i + q
        BY <1>3, <1>6, <2>1, Announces DEF LastLine
      <4>2. \A j \in 1 .. q : t[i + j] = s[i + j]
        BY <1>2, <1>3, <3>1, <4>1
      <4> QED
        BY <1>3, <4>1, <4>2 DEF RequestAt
    <3>4. ~ LastLine(t, i) > Len(t)
      BY <1>2, <1>3, <2>1, <3>1
    <3> HIDE DEF Broken
    <3> QED
      BY <1>1, <1>3, <1>4, <1>6, <2>7, <3>1, <3>2, <3>3, <3>4 DEF Unanswered, Answer, Following
  <2> QED
    BY <2>6, <2>7
<1> QED
  BY <1>5, <1>6

\* What was cut out of the lines stays cut out, if there are more lines.
LEMMA CutStays ==
  ASSUME NEW s \in Seq(Lines), NEW l \in Lines, NEW T, NEW L \in Seq(T), NEW b, Cut(s, L, b)
  PROVE  Cut(Append(s, l), L, b)
<1>1. PICK t \in Seq(Lines) : t = Append(s, l) /\ Len(t) = Len(s) + 1
  BY OneLineMore
<1>2. /\ b \in [1 .. (Len(L) + 1) -> 1 .. (Len(s) + 1)]
      /\ b[1] = 1
      /\ \A j \in 1 .. Len(L) : ~ Unanswered(s, b[j]) /\ L[j] = Answer(s, b[j]) /\ b[j + 1] = Following(s, b[j])
  BY DEF Cut
<1>3. b \in [1 .. (Len(L) + 1) -> 1 .. (Len(t) + 1)]
  <2>1. \A x \in 1 .. (Len(s) + 1) : x \in 1 .. (Len(t) + 1)
    BY <1>1
  <2> QED
    BY <1>2, <2>1
<1>4. ASSUME NEW j \in 1 .. Len(L)
      PROVE  ~ Unanswered(t, b[j]) /\ L[j] = Answer(t, b[j]) /\ b[j + 1] = Following(t, b[j])
  <2>1. b[j] \in 1 .. (Len(s) + 1)
    <3>1. j \in 1 .. (Len(L) + 1)
      OBVIOUS
    <3> QED
      BY <1>2, <3>1
  <2> QED
    BY <1>1, <1>2, <2>1, AnswerStays
<1> QED
  BY <1>1, <1>2, <1>3, <1>4 DEF Cut

\* The line that answers the last request makes the log longer.
LEMMA CutGrows ==
  ASSUME NEW t \in Seq(Lines), NEW T, NEW L \in Seq(T), NEW r \in T, NEW b, Cut(t, L, b),
         ~ Unanswered(t, b[Len(L) + 1]),
         r = Answer(t, b[Len(L) + 1]),
         Following(t, b[Len(L) + 1]) = Len(t) + 1
  PROVE  \E d : /\ Cut(t, Append(L, r), d)
               /\ d[Len(Append(L, r)) + 1] = Len(t) + 1
<1>1. PICK n \in Nat : n = Len(L)
  OBVIOUS
<1>2. PICK M \in Seq(T) : M = Append(L, r)
  BY AppendProperties
<1>3. /\ Len(M) = n + 1 /\ M[n + 1] = r
      /\ \A j \in 1 .. n : M[j] = L[j]
  BY <1>1, <1>2, AppendProperties
<1>4. /\ b \in [1 .. (n + 1) -> 1 .. (Len(t) + 1)]
      /\ b[1] = 1
      /\ \A j \in 1 .. n : ~ Unanswered(t, b[j]) /\ L[j] = Answer(t, b[j]) /\ b[j + 1] = Following(t, b[j])
  BY <1>1 DEF Cut
<1>5. PICK d : d = [j \in 1 .. (n + 2) |-> IF j = n + 2 THEN Len(t) + 1 ELSE b[j]]
  OBVIOUS
<1>6. /\ \A j \in 1 .. (n + 1) : d[j] = b[j]
      /\ d[n + 2] = Len(t) + 1
      /\ d \in [1 .. (n + 2) -> 1 .. (Len(t) + 1)]
  <2>1. \A j \in 1 .. (n + 2) : (IF j = n + 2 THEN Len(t) + 1 ELSE b[j]) \in 1 .. (Len(t) + 1)
    BY <1>4
  <2> QED
    BY <1>5, <2>1
<1>7. ASSUME NEW j \in 1 .. (n + 1)
      PROVE  ~ Unanswered(t, d[j]) /\ M[j] = Answer(t, d[j]) /\ d[j + 1] = Following(t, d[j])
  <2>1. CASE j \in 1 .. n
    <3>1. d[j] = b[j] /\ d[j + 1] = b[j + 1]
      BY <1>6, <2>1
    <3> QED
      BY <1>3, <1>4, <2>1, <3>1
  <2>2. CASE j = n + 1
    <3>1. d[j] = b[n + 1] /\ d[j + 1] = Len(t) + 1
      BY <1>6, <2>2
    <3> QED
      BY <1>1, <1>3, <2>2, <3>1
  <2> QED
    BY <2>1, <2>2
<1>8. d[1] = 1
  BY <1>4, <1>6
<1>9. n + 1 + 1 = n + 2
  OBVIOUS
<1>10. Cut(t, M, d)
  BY <1>3, <1>6, <1>7, <1>8, <1>9 DEF Cut
<1> QED
  BY <1>2, <1>3, <1>6, <1>9, <1>10

-----------------------------------------------------------------------------
(* What the worker makes of one line more. *)

\* The request under construction, with line l.
LEMMA RequestGrows ==
  ASSUME NEW s \in Seq(Lines), NEW l \in Lines,
         NEW m \in Messages, Waits(m), m # NoMsg,
         NEW p \in 1 .. (Len(s) + 1), MadeOf(s, m, p)
  PROVE  LET t == Append(s, l)
             d == Decoded(m, l)
         IN  /\ ~ Decodes(m, l) =>
                   /\ ~ Unanswered(t, p) /\ Following(t, p) = Len(t) + 1
                   /\ Answer(t, p) = IF m.stat = "none" THEN "ERROR format" ELSE "ERROR parameter"
             /\ Decodes(m, l) /\ d.stat = "more" =>
                   Unanswered(t, p) /\ MadeOf(t, d, p)
             /\ Decodes(m, l) /\ d.stat = "done" /\ Crashes(d) => Unanswered(t, p)
             /\ Decodes(m, l) /\ d.stat = "done" /\ ~ Crashes(d) =>
                   /\ ~ Unanswered(t, p) /\ Following(t, p) = Len(t) + 1
                   /\ Answer(t, p) = Outcome(d)
<1>1. PICK n \in Nat : n = Len(s)
  OBVIOUS
<1>2. PICK t \in Seq(Lines) : t = Append(s, l)
  <2>1. Append(s, l) \in Seq(Lines)
    OBVIOUS
  <2> QED
    BY <2>1
<1>3. /\ Len(t) = n + 1 /\ t[n + 1] = l
      /\ \A j \in 1 .. n : t[j] = s[j] /\ LastLine(t, j) = LastLine(s, j)
  BY <1>1, <1>2, OneLineMore
<1>4. PICK d : d = Decoded(m, l)
  OBVIOUS
<1> DEFINE Goal == /\ ~ Decodes(m, l) =>
                        /\ ~ Unanswered(t, p) /\ Following(t, p) = Len(t) + 1
                        /\ Answer(t, p) = IF m.stat = "none" THEN "ERROR format" ELSE "ERROR parameter"
                   /\ Decodes(m, l) /\ d.stat = "more" =>
                        Unanswered(t, p) /\ MadeOf(t, d, p)
                   /\ Decodes(m, l) /\ d.stat = "done" /\ Crashes(d) => Unanswered(t, p)
                   /\ Decodes(m, l) /\ d.stat = "done" /\ ~ Crashes(d) =>
                        /\ ~ Unanswered(t, p) /\ Following(t, p) = Len(t) + 1
                        /\ Answer(t, p) = Outcome(d)
\* A command's request, with its parameters and its last line.
<1>5. ASSUME IsCommand(t[p]), NEW e \in Nat, e = LastLine(t, p), p <= n + 1,
             Broken(t, p) = {}, e <= n + 1 => e = n + 1,
             d.name = t[p].name, d.params \in Seq({"str", "kv"}),
             e = n + 1 <=> d.stat = "done",
             e = n + 1 => /\ Len(d.params) = ParamCount(t[p])
                          /\ \A j \in 1 .. Len(d.params) : d.params[j] = t[p + j].head
      PROVE  /\ d.stat # "done" => Unanswered(t, p)
             /\ d.stat = "done" /\ Crashes(d) => Unanswered(t, p)
             /\ d.stat = "done" /\ ~ Crashes(d) =>
                  /\ ~ Unanswered(t, p) /\ Following(t, p) = Len(t) + 1
                  /\ Answer(t, p) = Outcome(d)
  <2>1. CASE d.stat # "done"
    <3>1. LastLine(t, p) > Len(t)
      BY <1>3, <1>5, <2>1
    <3> QED
      BY <1>5, <2>1, <3>1 DEF Unanswered
  <2>2. CASE d.stat = "done"
    <3>1. PICK q \in Nat : q = Len(d.params) /\ q = ParamCount(t[p])
      BY <1>5, <2>2
    <3>2. RequestAt(t, p) = [name |-> t[p].name, params |-> [j \in 1 .. q |-> t[p + j].head]]
      BY <3>1 DEF RequestAt
    <3>3. d.params = [j \in 1 .. q |-> d.params[j]]
      <4>1. d.params \in [1 .. q -> {"str", "kv"}]
        BY <1>5, <3>1, LenProperties
      <4> QED
        BY <4>1
    <3>4. \A j \in 1 .. q : d.params[j] = t[p + j].head
      BY <1>5, <2>2, <3>1
    <3>5. d.params = [j \in 1 .. q |-> t[p + j].head]
      BY <3>3, <3>4
    <3>6. RequestAt(t, p).name = d.name /\ RequestAt(t, p).params = d.params
      BY <1>5, <3>2, <3>5
    <3>7. (Crashes(RequestAt(t, p)) <=> Crashes(d)) /\ Outcome(RequestAt(t, p)) = Outcome(d)
      BY <3>6 DEF Crashes, Outcome
    <3>8. ~ p > Len(t) /\ ~ LastLine(t, p) > Len(t) /\ LastLine(t, p) + 1 = Len(t) + 1
      BY <1>3, <1>5, <2>2
    <3> HIDE DEF Broken
    <3> QED
      BY <1>5, <2>2, <3>7, <3>8 DEF Unanswered, Following, Answer
  <2> QED
    BY <2>1, <2>2
<1>6. CASE m = EmptyMsg
  <2>1. m.stat = "none" /\ p = n + 1 /\ t[p] = l
    BY <1>1, <1>3, <1>6, MessageFacts DEF MadeOf
  <2>2. CASE ~ IsCommand(l)
    <3>1. ~ Decodes(m, l)
      BY <2>1, <2>2 DEF Decodes
    <3>2. ~ Unanswered(t, p) /\ Following(t, p) = Len(t) + 1 /\ Answer(t, p) = "ERROR format"
      <4>1. ~ p > Len(t) /\ p + 1 = Len(t) + 1 /\ ~ IsCommand(t[p])
        BY <1>3, <2>1, <2>2
      <4> HIDE DEF Broken
      <4> QED
        BY <4>1 DEF Unanswered, Following, Answer
    <3> QED
      BY <1>2, <1>4, <2>1, <3>1, <3>2
  <2>3. CASE IsCommand(l)
    <3>1. Decodes(m, l)
      BY <2>1, <2>3 DEF Decodes
    <3>2. PICK q \in Nat : q = ParamCount(l)
      BY <2>3, Announces
    <3>3. d = [stat |-> IF q > 0 THEN "more" ELSE "done",
               name |-> l.name, count |-> q, params |-> <<>>]
      BY <1>4, <2>1, <3>2 DEF Decoded
    <3>4. /\ d.stat = (IF q > 0 THEN "more" ELSE "done") /\ d.name = l.name /\ d.count = q
          /\ d.params = <<>> /\ d.params \in Seq({"str", "kv"}) /\ Len(d.params) = 0
      BY <3>3
    <3>5. PICK e \in Nat : e = LastLine(t, p) /\ e = n + 1 + q
      BY <2>1, <3>2 DEF LastLine
    <3>6. Broken(t, p) = {}
      BY <1>3, <2>1 DEF Broken
    <3>7. e = n + 1 <=> d.stat = "done"
      BY <3>2, <3>4, <3>5
    <3>8. e = n + 1 => Len(d.params) = ParamCount(t[p])
      BY <2>1, <3>2, <3>4, <3>5
    <3>9. \A j \in 1 .. Len(d.params) : d.params[j] = t[p + j].head
      BY <3>4
    <3>10. /\ d.stat # "done" => Unanswered(t, p)
           /\ d.stat = "done" /\ Crashes(d) => Unanswered(t, p)
           /\ d.stat = "done" /\ ~ Crashes(d) =>
                /\ ~ Unanswered(t, p) /\ Following(t, p) = Len(t) + 1
                /\ Answer(t, p) = Outcome(d)
      BY <1>5, <2>1, <2>3, <3>4, <3>5, <3>6, <3>7, <3>8, <3>9
    <3>11. d.stat = "more" => MadeOf(t, d, p)
      <4>1. p <= Len(t) /\ Len(d.params) = Len(t) - p
        BY <1>3, <2>1, <3>4
      <4> QED
        BY <2>1, <2>3, <3>2, <3>4, <3>9, <4>1 DEF MadeOf
    <3> QED
      BY <1>2, <1>4, <3>1, <3>10, <3>11
  <2> QED
    BY <2>2, <2>3
<1>7. CASE m.stat = "more" /\ Len(m.params) < m.count
  <2>1. /\ p <= n /\ IsCommand(s[p]) /\ m.name = s[p].name /\ m.count = ParamCount(s[p])
        /\ Len(m.params) = n - p
        /\ \A j \in 1 .. Len(m.params) : IsParam(s[p + j]) /\ m.params[j] = s[p + j].head
    BY <1>1, <1>7 DEF MadeOf
  <2>2. p \in 1 .. n /\ t[p] = s[p] /\ s[p] \in Lines /\ IsCommand(t[p])
    BY <1>1, <1>3, <2>1
  <2>3. PICK q \in Nat : q = ParamCount(s[p])
    BY <2>1, <2>2, Announces
  <2>4. PICK e \in Nat : e = LastLine(t, p) /\ e = p + q
    BY <2>2, <2>3 DEF LastLine
  <2>5. n + 1 <= e
    BY <1>7, <2>1, <2>2, <2>3, <2>4
  <2>6. \A j \in (p + 1) .. n : IsParam(t[j])
    <3>1. ASSUME NEW j \in (p + 1) .. n PROVE IsParam(t[j])
      <4>1. PICK i \in 1 .. (n - p) : i = j - p /\ j = p + i
        BY <2>2
      <4>2. j \in 1 .. n
        BY <2>2
      <4> QED
        BY <1>3, <2>1, <4>1, <4>2
    <3> QED
      BY <3>1
  <2>7. Broken(t, p) = {j \in (p + 1) .. e : j <= n + 1 /\ ~ IsParam(t[j])}
    BY <1>3, <2>4 DEF Broken
  <2>8. CASE ~ IsParam(l)
    <3>1. ~ Decodes(m, l) /\ m.stat # "none"
      BY <1>7, <2>8 DEF Decodes
    <3>2. n + 1 \in Broken(t, p)
      BY <1>3, <2>2, <2>5, <2>7, <2>8
    <3>3. \A j \in Broken(t, p) : j \in Nat /\ n + 1 <= j
      BY <2>2, <2>6, <2>7
    <3>4. Min(Broken(t, p)) = n + 1
      <4>1. Broken(t, p) \in SUBSET Nat
        BY <3>3
      <4> QED
        BY <3>2, <3>3, <4>1, MinIs
    <3>5. ~ Unanswered(t, p) /\ Following(t, p) = Len(t) + 1 /\ Answer(t, p) = "ERROR parameter"
      <4>1. ~ p > Len(t) /\ Broken(t, p) # {}
        BY <1>3, <2>2, <3>2
      <4> HIDE DEF Broken
      <4> QED
        BY <1>3, <2>2, <3>4, <4>1 DEF Unanswered, Following, Answer
    <3> QED
      BY <1>2, <1>4, <3>1, <3>5
  <2>9. CASE IsParam(l)
    <3>1. Decodes(m, l)
      BY <1>7, <2>9 DEF Decodes
    <3>2. m.params \in Seq({"str", "kv"}) /\ l.head \in {"str", "kv"} /\ m.count = q
      BY <2>1, <2>3, <2>9 DEF Messages, IsParam
    <3>3. /\ d.name = m.name /\ d.count = q
          /\ d.params = Append(m.params, l.head)
          /\ d.stat = (IF Len(m.params) + 1 >= q THEN "done" ELSE "more")
      <4>1. m.stat # "none" /\ m = [stat |-> m.stat, name |-> m.name, count |-> m.count, params |-> m.params]
        BY <1>7 DEF Messages
      <4>2. d = [stat |-> IF Len(m.params) + 1 >= m.count THEN "done" ELSE "more",
                 name |-> m.name, count |-> m.count, params |-> Append(m.params, l.head)]
        BY <1>4, <4>1 DEF Decoded, Complete
      <4> QED
        BY <3>2, <4>2
    <3>4. /\ d.params \in Seq({"str", "kv"})
          /\ Len(d.params) = n + 1 - p
          /\ d.params[n + 1 - p] = l.head
          /\ \A j \in 1 .. (n - p) : d.params[j] = m.params[j]
      <4>1. /\ d.params \in Seq({"str", "kv"})
            /\ Len(d.params) = Len(m.params) + 1
            /\ d.params[Len(m.params) + 1] = l.head
            /\ \A j \in 1 .. Len(m.params) : d.params[j] = m.params[j]
        BY <3>2, <3>3, AppendProperties
      <4>2. Len(m.params) + 1 = n + 1 - p
        BY <2>1, <2>2
      <4> QED
        BY <2>1, <4>1, <4>2
    <3>5. \A j \in 1 .. (n + 1 - p) : IsParam(t[p + j]) /\ d.params[j] = t[p + j].head
      <4>1. ASSUME NEW j \in 1 .. (n + 1 - p)
            PROVE  IsParam(t[p + j]) /\ d.params[j] = t[p + j].head
        <5>1. CASE j = n + 1 - p
          <6>1. p + j = n + 1
            BY <2>2, <5>1
          <6> QED
            BY <1>3, <2>9, <3>4, <5>1, <6>1
        <5>2. CASE j # n + 1 - p
          <6>1. j \in 1 .. (n - p) /\ p + j \in 1 .. n
            BY <2>2, <5>2
          <6> QED
            BY <1>3, <2>1, <3>4, <6>1
        <5> QED
          BY <5>1, <5>2
      <4> QED
        BY <4>1
    <3>6. Broken(t, p) = {}
      <4>1. \A j \in (p + 1) .. e : j <= n + 1 => IsParam(t[j])
        <5>1. ASSUME NEW j \in (p + 1) .. e, j <= n + 1 PROVE IsParam(t[j])
          <6>1. CASE j = n + 1
            BY <1>3, <2>9, <6>1
          <6>2. CASE j # n + 1
            <7>1. j \in (p + 1) .. n
              BY <2>2, <5>1, <6>2
            <7> QED
              BY <2>6, <7>1
          <6> QED
            BY <6>1, <6>2
        <5> QED
          BY <5>1
      <4> QED
        BY <2>7, <4>1
    <3>7. e = n + 1 <=> d.stat = "done"
      BY <2>1, <2>2, <2>4, <2>5, <3>3
    <3>8. e = n + 1 => Len(d.params) = ParamCount(t[p])
      BY <2>2, <2>3, <2>4, <3>4
    <3>9. \A j \in 1 .. Len(d.params) : d.params[j] = t[p + j].head
      BY <3>4, <3>5
    <3>10. /\ d.stat # "done" => Unanswered(t, p)
           /\ d.stat = "done" /\ Crashes(d) => Unanswered(t, p)
           /\ d.stat = "done" /\ ~ Crashes(d) =>
                /\ ~ Unanswered(t, p) /\ Following(t, p) = Len(t) + 1
                /\ Answer(t, p) = Outcome(d)
      <4>1. p <= n + 1 /\ (e <= n + 1 => e = n + 1)
        BY <2>2, <2>5
      <4>2. d.name = t[p].name
        BY <2>1, <2>2, <3>3
      <4> QED
        BY <1>5, <2>2, <2>4, <3>4, <3>6, <3>7, <3>8, <3>9, <4>1, <4>2
    <3>11. d.stat = "more" => MadeOf(t, d, p)
      <4>1. p <= Len(t) /\ Len(d.params) = Len(t) - p /\ d.name = t[p].name /\ d.count = ParamCount(t[p])
        BY <1>3, <2>1, <2>2, <2>3, <3>3, <3>4
      <4> QED
        BY <2>2, <3>4, <3>5, <4>1 DEF MadeOf
    <3> QED
      BY <1>2, <1>4, <3>1, <3>10, <3>11
  <2> QED
    BY <2>8, <2>9
<1> QED
  BY <1>6, <1>7 DEF Waits

\* The message and the log go on saying what the protocol says.
LEMMA LineUnderstood ==
  ASSUME NEW s \in Seq(Lines), NEW l \in Lines, NEW L \in Seq(Results),
         NEW m \in Messages, Waits(m), m # NoMsg, Understood(s, L, m, TRUE)
  PROVE  LET t == Append(s, l)
             d == Decoded(m, l)
         IN  /\ ~ Decodes(m, l) =>
                   Understood(t, Append(L, IF m.stat = "none" THEN "ERROR format" ELSE "ERROR parameter"),
                              EmptyMsg, TRUE)
             /\ Decodes(m, l) /\ d.stat = "more" => Understood(t, L, d, TRUE)
             /\ Decodes(m, l) /\ d.stat = "done" /\ Crashes(d) => Understood(t, L, d, FALSE)
             /\ Decodes(m, l) /\ d.stat = "done" /\ ~ Crashes(d) =>
                   /\ Understood(t, Append(L, Outcome(d)), EmptyMsg, TRUE)
                   /\ Understood(t, Append(L, Outcome(d)), d, TRUE)
<1>1. PICK b \in [1 .. (Len(L) + 1) -> 1 .. (Len(s) + 1)] :
        Cut(s, L, b) /\ Unanswered(s, b[Len(L) + 1]) /\ MadeOf(s, m, b[Len(L) + 1])
  BY DEF Understood
<1>2. PICK t \in Seq(Lines) : t = Append(s, l) /\ Len(t) = Len(s) + 1
  BY OneLineMore
<1>3. PICK d : d = Decoded(m, l)
  OBVIOUS
<1>4. PICK p \in 1 .. (Len(s) + 1) : p = b[Len(L) + 1]
  <2>1. Len(L) + 1 \in 1 .. (Len(L) + 1)
    OBVIOUS
  <2> QED
    BY <2>1
<1>5. /\ ~ Decodes(m, l) =>
            /\ ~ Unanswered(t, p) /\ Following(t, p) = Len(t) + 1
            /\ Answer(t, p) = IF m.stat = "none" THEN "ERROR format" ELSE "ERROR parameter"
      /\ Decodes(m, l) /\ d.stat = "more" =>
            Unanswered(t, p) /\ MadeOf(t, d, p)
      /\ Decodes(m, l) /\ d.stat = "done" /\ Crashes(d) => Unanswered(t, p)
      /\ Decodes(m, l) /\ d.stat = "done" /\ ~ Crashes(d) =>
            /\ ~ Unanswered(t, p) /\ Following(t, p) = Len(t) + 1
            /\ Answer(t, p) = Outcome(d)
  <2>1. MadeOf(s, m, p)
    BY <1>1, <1>4
  <2>2. /\ ~ Decodes(m, l) =>
              /\ ~ Unanswered(Append(s, l), p) /\ Following(Append(s, l), p) = Len(Append(s, l)) + 1
              /\ Answer(Append(s, l), p) = IF m.stat = "none" THEN "ERROR format" ELSE "ERROR parameter"
        /\ Decodes(m, l) /\ Decoded(m, l).stat = "more" =>
              Unanswered(Append(s, l), p) /\ MadeOf(Append(s, l), Decoded(m, l), p)
        /\ Decodes(m, l) /\ Decoded(m, l).stat = "done" /\ Crashes(Decoded(m, l)) => Unanswered(Append(s, l), p)
        /\ Decodes(m, l) /\ Decoded(m, l).stat = "done" /\ ~ Crashes(Decoded(m, l)) =>
              /\ ~ Unanswered(Append(s, l), p) /\ Following(Append(s, l), p) = Len(Append(s, l)) + 1
              /\ Answer(Append(s, l), p) = Outcome(Decoded(m, l))
    BY <2>1, RequestGrows
  <2> QED
    BY <1>2, <1>3, <2>2
<1>6. Cut(t, L, b)
  BY <1>1, <1>2, CutStays
\* The request has its answer, and nothing comes behind it.
<1>7. ASSUME NEW r \in Results, NEW k, k.stat # "more",
             ~ Unanswered(t, p), Following(t, p) = Len(t) + 1, Answer(t, p) = r
      PROVE  Understood(t, Append(L, r), k, TRUE)
  <2>1. PICK M \in Seq(Results) : M = Append(L, r)
    BY AppendProperties
  <2>2. PICK c : Cut(t, M, c) /\ c[Len(M) + 1] = Len(t) + 1
    BY <1>4, <1>6, <1>7, <2>1, CutGrows
  <2>3. c \in [1 .. (Len(M) + 1) -> 1 .. (Len(t) + 1)]
    BY <2>2 DEF Cut
  <2>4. Unanswered(t, c[Len(M) + 1])
    <3>1. Len(t) + 1 > Len(t)
      BY <1>2
    <3> QED
      BY <2>2, <3>1 DEF Unanswered
  <2>5. MadeOf(t, k, c[Len(M) + 1])
    BY <1>7, <2>2 DEF MadeOf
  <2> QED
    BY <2>1, <2>2, <2>3, <2>4, <2>5 DEF Understood
\* The request has none yet.
<1>8. ASSUME NEW k, NEW on \in BOOLEAN, Unanswered(t, p), on => MadeOf(t, k, p)
      PROVE  Understood(t, L, k, on)
  <2>1. b \in [1 .. (Len(L) + 1) -> 1 .. (Len(t) + 1)]
    BY <1>6 DEF Cut
  <2> QED
    BY <1>4, <1>6, <1>8, <2>1 DEF Understood
<1>9. EmptyMsg.stat # "more"
  BY MessageFacts
<1>10. Outcome(d) \in Results
  BY OutcomeKinds
<1>11. "ERROR format" \in Results /\ "ERROR parameter" \in Results
  BY DEF Results, BadLine
<1>12. ~ Decodes(m, l) =>
         Understood(t, Append(L, IF m.stat = "none" THEN "ERROR format" ELSE "ERROR parameter"), EmptyMsg, TRUE)
  <2>1. PICK r \in Results : r = IF m.stat = "none" THEN "ERROR format" ELSE "ERROR parameter"
    BY <1>11
  <2> HIDE DEF Understood
  <2> QED
    BY <1>5, <1>7, <1>9, <2>1
<1>13. Decodes(m, l) /\ d.stat = "more" => Understood(t, L, d, TRUE)
  BY <1>5, <1>8
<1>14. Decodes(m, l) /\ d.stat = "done" /\ Crashes(d) => Understood(t, L, d, FALSE)
  BY <1>5, <1>8
<1>15. Decodes(m, l) /\ d.stat = "done" /\ ~ Crashes(d) =>
         Understood(t, Append(L, Outcome(d)), EmptyMsg, TRUE) /\ Understood(t, Append(L, Outcome(d)), d, TRUE)
  BY <1>5, <1>7, <1>9, <1>10
<1> QED
  BY <1>2, <1>3, <1>12, <1>13, <1>14, <1>15

-----------------------------------------------------------------------------
(* The steps. *)

\* A crash and a disconnection only end what is said of the message.
LEMMA UnderstoodLess ==
  ASSUME NEW s, NEW L, NEW m, NEW on, NEW off, off => on, Understood(s, L, m, on)
  PROVE  Understood(s, L, m, off)
  BY DEF Understood

\* The first n of a sequence of lines.
LEMMA Front ==
  ASSUME NEW q \in Seq(Lines), NEW n \in Nat, n <= Len(q)
  PROVE  /\ SubSeq(q, 1, n) \in Seq(Lines) /\ Len(SubSeq(q, 1, n)) = n
         /\ \A i \in 1 .. n : SubSeq(q, 1, n)[i] = q[i]
<1>1. \A i \in 1 .. n : q[i] \in Lines
  OBVIOUS
<1>2. /\ SubSeq(q, 1, n) \in Seq(Lines)
      /\ Len(SubSeq(q, 1, n)) = IF 1 <= n THEN n - 1 + 1 ELSE 0
      /\ \A i \in 1 .. (n - 1 + 1) : SubSeq(q, 1, n)[i] = q[1 + i - 1]
  BY <1>1, SubSeqProperties
<1> QED
  BY <1>2

LEMMA ReadType ==
  ASSUME TypeOK, NEW c \in Clients
  PROVE  /\ Read(c) \in Seq(Lines)
         /\ Len(Read(c)) = taken[c] /\ taken[c] \in Nat /\ taken[c] <= Len(sent[c])
         /\ \A i \in 1 .. taken[c] : Read(c)[i] = sent[c][i]
<1>1. /\ sent[c] \in Seq(Lines) /\ taken[c] \in Nat /\ moved[c] \in Nat /\ Len(sent[c]) \in Nat
      /\ 2 * taken[c] <= moved[c] /\ moved[c] <= 2 * Len(sent[c])
  BY DEF TypeOK
<1>2. taken[c] <= Len(sent[c])
  BY <1>1
<1> QED
  BY <1>1, <1>2, Front DEF Read

\* The same in the next state.
LEMMA ReadTypeNext ==
  ASSUME TypeOK', NEW c \in Clients
  PROVE  /\ Read(c)' \in Seq(Lines)
         /\ Len(Read(c)') = taken'[c]
         /\ \A i \in 1 .. taken'[c] : Read(c)'[i] = sent'[c][i]
<1>1. /\ sent'[c] \in Seq(Lines) /\ taken'[c] \in Nat /\ moved'[c] \in Nat /\ Len(sent'[c]) \in Nat
      /\ 2 * taken'[c] <= moved'[c] /\ moved'[c] <= 2 * Len(sent'[c])
  BY DEF TypeOK
<1>2. PICK q, n : q = sent'[c] /\ n = taken'[c]
  OBVIOUS
<1>3. q \in Seq(Lines) /\ n \in Nat /\ n <= Len(q)
  BY <1>1, <1>2
<1>4. /\ SubSeq(q, 1, n) \in Seq(Lines) /\ Len(SubSeq(q, 1, n)) = n
      /\ \A i \in 1 .. n : SubSeq(q, 1, n)[i] = q[i]
  BY <1>3, Front
<1>5. Read(c)' = SubSeq(q, 1, n)
  BY <1>2 DEF Read
<1> QED
  BY <1>2, <1>4, <1>5

LEMMA ReadSame ==
  ASSUME NEW c \in Clients, sent'[c] = sent[c], taken'[c] = taken[c]
  PROVE  Read(c)' = Read(c)
  BY DEF Read

\* Lines that are sent are not read yet.
LEMMA ReadSent ==
  ASSUME TypeOK, TypeOK', NEW c \in Clients, taken' = taken,
         \A i \in 1 .. Len(sent[c]) : sent'[c][i] = sent[c][i]
  PROVE  Read(c)' = Read(c)
<1>1. /\ Read(c) \in Seq(Lines) /\ Len(Read(c)) = taken[c] /\ taken[c] \in Nat
      /\ \A i \in 1 .. taken[c] : Read(c)[i] = sent[c][i]
  BY ReadType
<1>2. /\ Read(c)' \in Seq(Lines) /\ Len(Read(c)') = taken'[c]
      /\ \A i \in 1 .. taken'[c] : Read(c)'[i] = sent'[c][i]
  BY ReadTypeNext
<1>3. taken[c] <= Len(sent[c]) /\ Len(sent[c]) \in Nat
  <2>1. /\ sent[c] \in Seq(Lines) /\ taken[c] \in Nat /\ moved[c] \in Nat /\ Len(sent[c]) \in Nat
        /\ 2 * taken[c] <= moved[c] /\ moved[c] <= 2 * Len(sent[c])
    BY DEF TypeOK
  <2> QED
    BY <2>1
<1>4. \A i \in 1 .. taken[c] : Read(c)'[i] = Read(c)[i]
  BY <1>1, <1>2, <1>3
<1>5. PICK q, r : q = Read(c) /\ r = Read(c)'
  OBVIOUS
<1>6. q \in Seq(Lines) /\ r \in Seq(Lines) /\ Len(q) = Len(r) /\ \A i \in 1 .. Len(q) : q[i] = r[i]
  BY <1>1, <1>2, <1>4, <1>5
<1>7. q = r
  BY <1>6, SeqEqual
<1> QED
  BY <1>5, <1>7

\* evbuffer_readln takes the next line.
LEMMA ReadMore ==
  ASSUME TypeOK, TypeOK', NEW c \in Clients, LineReady(c),
         taken' = [taken EXCEPT ![c] = @ + 1], sent' = sent
  PROVE  NextLine(c) \in Lines /\ Read(c)' = Append(Read(c), NextLine(c))
<1>1. /\ Read(c) \in Seq(Lines) /\ Len(Read(c)) = taken[c] /\ taken[c] \in Nat
      /\ \A i \in 1 .. taken[c] : Read(c)[i] = sent[c][i]
  BY ReadType
<1>2. /\ Read(c)' \in Seq(Lines) /\ Len(Read(c)') = taken'[c]
      /\ \A i \in 1 .. taken'[c] : Read(c)'[i] = sent'[c][i]
  BY ReadTypeNext
<1>3. taken'[c] = taken[c] + 1
  BY DEF TypeOK
<1>4. PICK l \in Lines : l = NextLine(c)
  BY NextLineSent
<1>5. PICK q, r, n : q = Read(c) /\ r = Read(c)' /\ n = taken[c]
  OBVIOUS
<1>6. /\ n \in Nat /\ q \in Seq(Lines) /\ r \in Seq(Lines) /\ Len(q) = n /\ Len(r) = n + 1
      /\ \A i \in 1 .. n : r[i] = q[i]
      /\ r[n + 1] = l
  <2>1. \A i \in 1 .. (n + 1) : r[i] = sent[c][i]
    BY <1>2, <1>3, <1>5
  <2>2. n \in Nat /\ n + 1 \in 1 .. (n + 1)
    BY <1>1, <1>5
  <2>3. r[n + 1] = l
    BY <1>4, <1>5, <2>1, <2>2 DEF NextLine
  <2> QED
    BY <1>1, <1>2, <1>3, <1>5, <2>1, <2>2, <2>3
<1>7. PICK t \in Seq(Lines) : t = Append(q, l) /\ Len(t) = n + 1 /\ t[n + 1] = l /\ \A i \in 1 .. n : t[i] = q[i]
  BY <1>6, AppendProperties
<1>8. \A i \in 1 .. Len(r) : r[i] = t[i]
  <2>1. \A i \in 1 .. (n + 1) : i = n + 1 \/ i \in 1 .. n
    BY <1>6
  <2> QED
    BY <1>6, <1>7, <2>1
<1>9. r = t
  BY <1>6, <1>7, <1>8, SeqEqual
<1> QED
  BY <1>4, <1>5, <1>7, <1>9

\* What is said of one client.
Known(c) == Understood(Read(c), log[c], msg[c], alive /\ open[c])

\* A client whose lines, log and message stay as they are.
LEMMA KnownStill ==
  ASSUME NEW c \in Clients, Known(c), Read(c)' = Read(c), log'[c] = log[c],
         (alive /\ open[c])' => alive /\ open[c],
         (alive /\ open[c])' => msg'[c] = msg[c]
  PROVE  Known(c)'
<1>1. PICK s, L, m, k, on, off :
        /\ s = Read(c) /\ L = log[c] /\ m = msg[c] /\ k = msg'[c]
        /\ on = (alive /\ open[c]) /\ off = (alive' /\ open'[c])
  OBVIOUS
<1>2. Understood(s, L, m, on)
  BY <1>1 DEF Known
<1>3. Understood(s, L, k, off)
  BY <1>1, <1>2 DEF Understood
<1> QED
  BY <1>1, <1>3 DEF Known

\* A worker at a line works on a client that is there, with a message that waits for it.
LEMMA AtLine ==
  ASSUME IInv, alive, NEW w \in Workers, NEW c \in Clients, wpc[w] = "lines", c \in serving[w],
         Known(c)
  PROVE  /\ open[c] /\ msg[c] \in Messages /\ Waits(msg[c]) /\ msg[c] # NoMsg
         /\ log[c] \in Seq(Results) /\ Read(c) \in Seq(Lines)
         /\ Understood(Read(c), log[c], msg[c], TRUE)
<1>1. TypeOK /\ ServingInv /\ MessagesInv
  BY DEF IInv
<1>2. open[c]
  BY <1>1 DEF ServingInv
<1>3. msg[c] \in Messages /\ Waits(msg[c]) /\ msg[c] # NoMsg
  BY <1>1, AtLines
<1>4. log[c] \in Seq(Results) /\ Read(c) \in Seq(Lines)
  BY <1>1, ReadType DEF TypeOK
<1>5. Understood(Read(c), log[c], msg[c], TRUE)
  BY <1>2 DEF Known, Understood
<1> QED
  BY <1>2, <1>3, <1>4, <1>5

\* The three kinds of lines.
LEMMA LineKeeps ==
  ASSUME IInv, TypeOK', NEW w \in Workers, NEW c \in Clients, Known(c),
         RejectLine(w, c) \/ TakeLine(w, c) \/ CompleteLine(w, c)
  PROVE  Known(c)'
<1>1. /\ alive /\ wpc[w] = "lines" /\ c \in serving[w] /\ LineReady(c)
      /\ taken' = [taken EXCEPT ![c] = @ + 1] /\ sent' = sent /\ open' = open
  BY DEF RejectLine, TakeLine, CompleteLine
<1>2. TypeOK
  BY DEF IInv
<1>3. /\ open[c] /\ msg[c] \in Messages /\ Waits(msg[c]) /\ msg[c] # NoMsg
      /\ log[c] \in Seq(Results) /\ Read(c) \in Seq(Lines)
      /\ Understood(Read(c), log[c], msg[c], TRUE)
  BY <1>1, AtLine
<1>4. NextLine(c) \in Lines /\ Read(c)' = Append(Read(c), NextLine(c))
  BY <1>1, <1>2, ReadMore
<1>5. PICK s, l, L, m, t, d :
        /\ s = Read(c) /\ l = NextLine(c) /\ L = log[c] /\ m = msg[c]
        /\ t = Append(s, l) /\ d = Decoded(m, l)
  OBVIOUS
<1>6. /\ ~ Decodes(m, l) =>
            Understood(t, Append(L, IF m.stat = "none" THEN "ERROR format" ELSE "ERROR parameter"),
                       EmptyMsg, TRUE)
      /\ Decodes(m, l) /\ d.stat = "more" => Understood(t, L, d, TRUE)
      /\ Decodes(m, l) /\ d.stat = "done" /\ Crashes(d) => Understood(t, L, d, FALSE)
      /\ Decodes(m, l) /\ d.stat = "done" /\ ~ Crashes(d) =>
            /\ Understood(t, Append(L, Outcome(d)), EmptyMsg, TRUE)
            /\ Understood(t, Append(L, Outcome(d)), d, TRUE)
  <2>1. /\ s \in Seq(Lines) /\ l \in Lines /\ L \in Seq(Results) /\ m \in Messages
        /\ Waits(m) /\ m # NoMsg /\ Understood(s, L, m, TRUE)
    BY <1>3, <1>4, <1>5
  <2> QED
    BY <1>5, <2>1, LineUnderstood
<1>7. log \in [Clients -> Seq(Results)] /\ msg \in [Clients -> Messages]
  BY <1>2 DEF TypeOK
<1>8. Read(c)' = t
  BY <1>4, <1>5
\* What the log and the message become.
<1>9. ASSUME NEW M, NEW k, NEW on, log'[c] = M, msg'[c] = k, alive' => on, Understood(t, M, k, on)
      PROVE  Known(c)'
  <2>1. PICK off : off = (alive' /\ open'[c])
    OBVIOUS
  <2>2. Understood(t, M, k, off)
    BY <1>9, <2>1 DEF Understood
  <2> QED
    BY <1>8, <1>9, <2>1, <2>2 DEF Known
<1>10. CASE RejectLine(w, c)
  <2>1. /\ ~ Decodes(m, l)
        /\ log'[c] = Append(L, IF m.stat = "none" THEN "ERROR format" ELSE "ERROR parameter")
        /\ msg'[c] = EmptyMsg
    BY <1>5, <1>7, <1>10 DEF RejectLine, Clean
  <2> HIDE DEF Known
  <2> QED
    BY <1>6, <1>9, <2>1
<1>11. CASE TakeLine(w, c)
  <2>1. Decodes(m, l) /\ d.stat = "more" /\ log'[c] = L /\ msg'[c] = d
    BY <1>5, <1>7, <1>11 DEF TakeLine
  <2> HIDE DEF Known
  <2> QED
    BY <1>6, <1>9, <2>1
<1>12. CASE CompleteLine(w, c)
  <2>1. Decodes(m, l) /\ d.stat = "done"
    BY <1>5, <1>12 DEF CompleteLine
  <2>2. \/ Crashes(d) /\ alive' = FALSE /\ msg' = [msg EXCEPT ![c] = d] /\ log' = log
        \/ ~ Crashes(d) /\ msg' = [msg EXCEPT ![c] = EmptyMsg] /\ log' = [log EXCEPT ![c] = Append(@, Outcome(d))]
        \/ ~ Crashes(d) /\ msg' = [msg EXCEPT ![c] = d] /\ log' = [log EXCEPT ![c] = Append(@, Outcome(d))]
    BY <1>5, <1>12 DEF CompleteLine, Clean
  <2>3. \/ Crashes(d) /\ alive' = FALSE /\ msg'[c] = d /\ log'[c] = L
        \/ ~ Crashes(d) /\ msg'[c] = EmptyMsg /\ log'[c] = Append(L, Outcome(d))
        \/ ~ Crashes(d) /\ msg'[c] = d /\ log'[c] = Append(L, Outcome(d))
    BY <1>5, <1>7, <2>2
  <2> HIDE DEF Known
  <2> QED
    BY <1>6, <1>9, <2>1, <2>3
<1> QED
  BY <1>10, <1>11, <1>12

\* The steps that take no line.
LEMMA OtherKeeps ==
  ASSUME IInv, NEW w \in Workers, NEW c \in Clients, Known(c),
         BeginRead(w, c) \/ Release(w, c) \/ StoreServerOk(w, c) \/ EndRead(w, c)
  PROVE  Known(c)'
<1>1. TypeOK /\ ServingInv
  BY DEF IInv
<1>2. sent' = sent /\ taken' = taken /\ log' = log /\ alive' = alive
  BY DEF BeginRead, Release, StoreServerOk, EndRead, bufferVars
<1>3. Read(c)' = Read(c)
  BY <1>2, ReadSame
<1>4. msg \in [Clients -> Messages] /\ open \in [Clients -> BOOLEAN]
  BY <1>1 DEF TypeOK
<1>5. CASE Release(w, c)
  <2>1. ~ open'[c]
    BY <1>4, <1>5 DEF Release
  <2> QED
    BY <1>2, <1>3, <2>1, KnownStill
<1>6. CASE EndRead(w, c)
  <2>1. open' = open /\ msg' = msg
    BY <1>6 DEF EndRead
  <2> QED
    BY <1>2, <1>3, <2>1, KnownStill
\* The message is empty where it was not one that waits for parameters.
<1>7. ASSUME msg[c].stat # "more", msg'[c].stat # "more", open' = open
      PROVE  Known(c)'
  <2>1. PICK s, L, m, k, on :
          /\ s = Read(c) /\ L = log[c] /\ m = msg[c] /\ k = msg'[c] /\ on = (alive /\ open[c])
    OBVIOUS
  <2>2. Understood(s, L, m, on)
    BY <2>1 DEF Known
  <2>3. Understood(s, L, k, on)
    BY <1>7, <2>1, <2>2 DEF Understood, MadeOf
  <2> QED
    BY <1>2, <1>3, <1>7, <2>1, <2>3 DEF Known
<1>8. CASE BeginRead(w, c)
  <2>1. open' = open /\ msg'[c] = IF msg[c] = NoMsg THEN EmptyMsg ELSE msg[c]
    BY <1>4, <1>8 DEF BeginRead
  <2>2. CASE msg[c] = NoMsg
    BY <1>7, <2>1, <2>2, MessageFacts
  <2>3. CASE msg[c] # NoMsg
    BY <1>2, <1>3, <2>1, <2>3, KnownStill
  <2> QED
    BY <2>2, <2>3
<1>9. CASE StoreServerOk(w, c)
  <2>1. open' = open /\ msg'[c] = EmptyMsg /\ wpc[w] = "store" /\ c \in serving[w]
    BY <1>4, <1>9 DEF StoreServerOk, Clean
  <2>2. msg[c].stat = "done"
    BY <1>1, <2>1 DEF ServingInv
  <2> QED
    BY <1>7, <2>1, <2>2, MessageFacts
<1> QED
  BY <1>5, <1>6, <1>8, <1>9

LEMMA RequestsStep ==
  ASSUME IInv, RequestsInv, [Next]_vars
  PROVE  RequestsInv'
<1>1. TypeOK /\ ServingInv /\ TypeOK'
  <2>1. IInv'
    BY NextInv
  <2> QED
    BY <2>1 DEF IInv
<1>2. \A c \in Clients : Known(c)
  BY DEF RequestsInv, Known
<1> SUFFICES ASSUME NEW d \in Clients PROVE Known(d)'
  BY DEF RequestsInv, Known
<1>3. /\ log \in [Clients -> Seq(Results)] /\ msg \in [Clients -> Messages]
      /\ taken \in [Clients -> Nat] /\ sent \in [Clients -> Seq(Lines)]
  BY <1>1 DEF TypeOK
<1>4. ASSUME UNCHANGED <<alive, open, sent, taken, msg, log>>
      PROVE  Known(d)'
  <2>1. Read(d)' = Read(d)
    BY <1>4, ReadSame
  <2> QED
    BY <1>2, <1>4, <2>1, KnownStill
<1>5. ASSUME NEW w \in Workers, NEW c \in Clients, Step(w, c)
      PROVE  Known(d)'
  <2>1. CASE d = c
    <3>1. CASE RejectLine(w, c) \/ TakeLine(w, c) \/ CompleteLine(w, c)
      BY <1>1, <1>2, <2>1, <3>1, LineKeeps
    <3>2. CASE BeginRead(w, c) \/ Release(w, c) \/ StoreServerOk(w, c) \/ EndRead(w, c)
      BY <1>2, <2>1, <3>2, OtherKeeps
    <3> QED
      BY <1>5, <3>1, <3>2 DEF Step
  <2>2. CASE d # c
    <3>1. alive /\ msg'[d] = msg[d] /\ open'[d] = open[d]
      BY <1>1, <1>5, <2>2, StepFrame
    <3>2. sent' = sent /\ taken'[d] = taken[d]
      <4>1. sent' = sent /\ (taken' = taken \/ taken' = [taken EXCEPT ![c] = @ + 1])
        BY <1>5 DEF Step, BeginRead, Release, RejectLine, TakeLine, CompleteLine, StoreServerOk,
                    EndRead, bufferVars
      <4> QED
        BY <1>3, <2>2, <4>1
    <3>3. log'[d] = log[d]
      <4>1. log' = log \/ \E x : log' = [log EXCEPT ![c] = x]
        BY <1>5 DEF Step, BeginRead, Release, RejectLine, TakeLine, CompleteLine, StoreServerOk,
                    EndRead
      <4> QED
        BY <1>3, <2>2, <4>1
    <3>4. Read(d)' = Read(d)
      BY <3>2, ReadSame
    <3> QED
      BY <1>2, <3>1, <3>3, <3>4, KnownStill
  <2> QED
    BY <2>1, <2>2
<1>6. ASSUME NEW c \in Clients, NEW l \in Lines, Send(c, l)
      PROVE  Known(d)'
  <2>1. /\ sent' = [sent EXCEPT ![c] = Append(@, l)] /\ taken' = taken
        /\ alive' = alive /\ open' = open /\ msg' = msg /\ log' = log
    BY <1>6 DEF Send
  <2>2. \A i \in 1 .. Len(sent[d]) : sent'[d][i] = sent[d][i]
    <3>1. CASE d = c
      <4>1. sent'[d] = Append(sent[d], l) /\ sent[d] \in Seq(Lines)
        BY <1>3, <2>1, <3>1
      <4> QED
        BY <4>1, AppendProperties
    <3>2. CASE d # c
      BY <1>3, <2>1, <3>2
    <3> QED
      BY <3>1, <3>2
  <2>3. Read(d)' = Read(d)
    BY <1>1, <2>1, <2>2, ReadSent
  <2> QED
    BY <1>2, <2>1, <2>3, KnownStill
<1>7. ASSUME NEW w \in Workers, LoadServerOk(w)
      PROVE  Known(d)'
  BY <1>4, <1>7 DEF LoadServerOk, bufferVars
<1>8. CASE UNCHANGED vars
  BY <1>4, <1>8 DEF vars, bufferVars
<1> QED
  BY <1>5, <1>6, <1>7, <1>8, NextSteps

\* Before anything is sent there is nothing to say.
LEMMA RequestsInit ==
  ASSUME Init, TypeOK
  PROVE  RequestsInv
<1> SUFFICES ASSUME NEW c \in Clients PROVE Understood(Read(c), log[c], msg[c], alive /\ open[c])
  BY DEF RequestsInv
<1>1. log[c] = <<>> /\ msg[c] = NoMsg /\ taken[c] = 0
  BY DEF Init
<1>2. Read(c) \in Seq(Lines) /\ Len(Read(c)) = 0
  BY <1>1, ReadType
<1>3. PICK s, L, on : s = Read(c) /\ L = log[c] /\ on = (alive /\ open[c])
  OBVIOUS
<1>4. Len(s) = 0 /\ Len(L) = 0
  BY <1>1, <1>2, <1>3
<1>5. PICK b : b = [j \in 1 .. (Len(L) + 1) |-> 1]
  OBVIOUS
<1>6. /\ b \in [1 .. (Len(L) + 1) -> 1 .. (Len(s) + 1)]
      /\ b[1] = 1 /\ b[Len(L) + 1] = 1
  BY <1>4, <1>5
<1>7. Cut(s, L, b)
  BY <1>4, <1>6 DEF Cut
<1>8. Unanswered(s, b[Len(L) + 1])
  BY <1>4, <1>6 DEF Unanswered
<1>9. MadeOf(s, NoMsg, b[Len(L) + 1])
  BY <1>4, <1>6, MessageFacts DEF MadeOf
<1>10. Understood(s, L, NoMsg, on)
  BY <1>6, <1>7, <1>8, <1>9 DEF Understood
<1> QED
  BY <1>1, <1>3, <1>10

\* However the network cuts the bytes into reads and whatever went wrong before, the server
\* sees in a client's lines the requests that the protocol says (server.c:252-299,
\* decoder.c:5-95).
THEOREM RequestsSeenAsSent == Spec => []RequestsAsSent
<1>1. Init => RequestsInv
  BY InitInv, RequestsInit DEF IInv
<1>2. IInv /\ RequestsInv /\ [Next]_vars => RequestsInv'
  BY RequestsStep
<1>3. IInv /\ RequestsInv => RequestsAsSent
  <2> SUFFICES ASSUME IInv, RequestsInv, NEW c \in Clients
               PROVE  log[c] = RequestLog(Read(c))
    BY DEF RequestsAsSent, Read
  <2>1. TypeOK
    BY DEF IInv
  <2>2. Read(c) \in Seq(Lines) /\ log[c] \in Seq(Results)
    BY <2>1, ReadType DEF TypeOK
  <2>3. PICK s, L, m, on : s = Read(c) /\ L = log[c] /\ m = msg[c] /\ on = (alive /\ open[c])
    OBVIOUS
  <2>4. Understood(s, L, m, on)
    BY <2>3 DEF RequestsInv
  <2>5. PICK b : Cut(s, L, b) /\ Unanswered(s, b[Len(L) + 1])
    BY <2>4 DEF Understood
  <2>6. L = RequestLog(s)
    BY <2>2, <2>3, <2>5, CutIsLog
  <2> QED
    BY <2>3, <2>6
<1> QED
  BY <1>1, <1>2, <1>3, Invariant, PTL DEF Spec
===============================================================================

--------------------------- MODULE RepliesProofs ---------------------------
(***************************************************************************)
(* Proofs about module Replies, for any numbers of clients and workers,    *)
(* any lines, socket buffers of any size.  The workers' part of it is that *)
(* of module Session, whose invariants are proved in SessionProofs.        *)
(***************************************************************************)
EXTENDS Replies, SessionProofs

\* As in SessionProofs.
USE DEF OneMore, Complete, LineReady, NextLine

-----------------------------------------------------------------------------
(* The replies as they are built. *)

\* The replies there are: none, and those of one, two and three lines.
LEMMA LinesOfKinds ==
  ASSUME NEW r
  PROVE  \/ LinesOf(r) = <<>>
         \/ LinesOf(r) = <<Command("PONG", <<>>)>>
         \/ LinesOf(r) = <<Command("NODE", <<1>>), Str>>
         \/ LinesOf(r) = <<Command("ERROR", <<2>>), Str, Str>>
  BY DEF LinesOf, ErrorLines

\* A reply begins as an empty message, which holds its message object.
LEMMA StartedFacts ==
  Started.m = EmptyMsg /\ Started.objects = Freed(EmptyMsg)
<1>1. Freed(EmptyMsg) \in [Kinds -> Nat]
  BY FreedAt, MessageFacts
<1>2. [Nothing EXCEPT !["msg"] = 1] \in [Kinds -> Nat]
  BY DEF Nothing
<1>3. \A k \in Kinds : [Nothing EXCEPT !["msg"] = 1][k] = Freed(EmptyMsg)[k]
  BY FreedEmpty DEF Nothing
<1> QED
  BY <1>1, <1>2, <1>3 DEF Started

\* A command line without parameters makes a message that is done, one with parameters a
\* message that waits for them.
LEMMA CommandBuilt ==
  ASSUME NEW name \in Names, NEW n \in 0 .. 2,
         NEW l, l = Command(name, IF n = 0 THEN <<>> ELSE <<n>>)
  PROVE  LET b == With(Started, l)
         IN  /\ b.m \in Messages /\ b.objects = Freed(b.m)
             /\ b.m.name = name /\ b.m.count = n /\ b.m.params = <<>>
             /\ b.m.stat = IF n = 0 THEN "done" ELSE "more"
<1> DEFINE d == Decoded(EmptyMsg, l)
<1>1. l.head = "command" /\ l.name = name /\ l.args \in Seq(Int) /\ Len(l.args) <= 1
  BY DEF Command
<1>2. d \in Messages /\ Freed(d) = Sum(Freed(EmptyMsg), Allocated(EmptyMsg, l))
  BY <1>1, CommandDecoded
<1>3. ParamCount(l) = n
  <2>1. Announced(l) = n
    BY WidthAssumption, ModAssumption DEF Announced, Command
  <2> QED
    BY <2>1, WidthAssumption, ModAssumption DEF ParamCount
<1>4. EmptyMsg.stat = "none"
  BY MessageFacts
<1>5. d.name = name /\ d.count = n /\ d.params = <<>> /\ d.stat = IF n = 0 THEN "done" ELSE "more"
  BY <1>1, <1>3, <1>4 DEF Decoded
<1>6. With(Started, l) = [m |-> d, objects |-> Sum(Freed(EmptyMsg), Allocated(EmptyMsg, l))]
  BY StartedFacts DEF With
<1> QED
  BY <1>2, <1>5, <1>6

\* A parameter line that is announced is added.
LEMMA ParamBuilt ==
  ASSUME NEW b, b.m \in Messages, b.objects = Freed(b.m), b.m.stat = "more",
         Len(b.m.params) < b.m.count
  PROVE  LET e == With(b, Str)
         IN  /\ e.m \in Messages /\ e.objects = Freed(e.m)
             /\ e.m.name = b.m.name /\ e.m.count = b.m.count
             /\ Len(e.m.params) = Len(b.m.params) + 1
             /\ Len(e.m.params) = b.m.count => e.m.stat = "done"
             /\ Len(e.m.params) < b.m.count => e.m.stat = "more"
<1> DEFINE d == Decoded(b.m, Str)
<1>1. IsParam(Str)
  BY DEF IsParam, Str
<1>2. d \in Messages /\ Freed(d) = Sum(Freed(b.m), Allocated(b.m, Str))
  BY <1>1, ParamDecoded
<1>3. b.m.params \in Seq({"str", "kv"}) /\ b.m.count \in Nat
  BY ModAssumption DEF Messages
<1>4. /\ d.name = b.m.name /\ d.count = b.m.count /\ d.params = Append(b.m.params, "str")
      /\ d.stat = IF Len(b.m.params) + 1 >= b.m.count THEN "done" ELSE "more"
  BY DEF Decoded, Messages, Str
<1>5. Len(d.params) = Len(b.m.params) + 1
  BY <1>3, <1>4
<1>6. /\ Len(d.params) = b.m.count => d.stat = "done"
      /\ Len(d.params) < b.m.count => d.stat = "more"
  BY <1>3, <1>4, <1>5
<1>7. With(b, Str) = [m |-> d, objects |-> Sum(b.objects, Allocated(b.m, Str))]
  BY DEF With
<1> QED
  BY <1>2, <1>4, <1>5, <1>6, <1>7

\* A reply is a whole message of as many lines as its list of lines; what it holds is what
\* msg_free gives back.
LEMMA ReplyBuilt ==
  ASSUME NEW r, LinesOf(r) # <<>>
  PROVE  LET b == Build(LinesOf(r))
         IN  /\ b.m \in Messages /\ b.objects = Freed(b.m)
             /\ b.m.name \in {"PONG", "NODE", "ERROR"}
             /\ b.m.stat = "done"
             /\ LineCount(b.m) = Len(LinesOf(r))
<1>0. "PONG" \in Names /\ "NODE" \in Names /\ "ERROR" \in Names
  BY DEF Names
<1>1. CASE LinesOf(r) = <<Command("PONG", <<>>)>>
  <2> DEFINE a == With(Started, Command("PONG", <<>>))
  <2>1. a.m \in Messages /\ a.objects = Freed(a.m) /\ a.m.name = "PONG"
        /\ a.m.params = <<>> /\ a.m.stat = "done"
    BY <1>0, CommandBuilt
  <2>2. Build(LinesOf(r)) = a
    BY <1>1 DEF Build
  <2> HIDE DEF a
  <2> QED
    BY <1>1, <2>1, <2>2 DEF LineCount
<1>2. CASE LinesOf(r) = <<Command("NODE", <<1>>), Str>>
  <2> DEFINE a == With(Started, Command("NODE", <<1>>))
             b == With(a, Str)
  <2>1. a.m \in Messages /\ a.objects = Freed(a.m) /\ a.m.name = "NODE"
        /\ a.m.count = 1 /\ Len(a.m.params) = 0 /\ a.m.stat = "more"
    BY <1>0, CommandBuilt
  <2> HIDE DEF a
  <2>2. b.m \in Messages /\ b.objects = Freed(b.m) /\ b.m.name = "NODE"
        /\ Len(b.m.params) = 1 /\ b.m.stat = "done"
    <3>1. a.m \in Messages /\ a.objects = Freed(a.m) /\ a.m.stat = "more"
          /\ Len(a.m.params) < a.m.count
      BY <2>1
    <3>2. /\ Len(b.m.params) = Len(a.m.params) + 1
          /\ b.m.name = a.m.name /\ b.m.count = a.m.count
      BY <3>1, ParamBuilt
    <3>3. Len(b.m.params) = 1 /\ b.m.name = "NODE"
      BY <2>1, <3>2
    <3>4. b.m.stat = "done"
      BY <2>1, <3>1, <3>3, ParamBuilt
    <3> QED
      BY <3>1, <3>3, <3>4, ParamBuilt
  <2>3. Build(LinesOf(r)) = b
    BY <1>2 DEF Build, a
  <2> HIDE DEF b
  <2>4. Len(LinesOf(r)) = 2
    BY <1>2
  <2>5. LineCount(b.m) = 2
    BY <2>2 DEF LineCount
  <2> QED
    BY <2>2, <2>3, <2>4, <2>5
<1>3. CASE LinesOf(r) = <<Command("ERROR", <<2>>), Str, Str>>
  <2> DEFINE a == With(Started, Command("ERROR", <<2>>))
             b == With(a, Str)
             e == With(b, Str)
  <2>1. a.m \in Messages /\ a.objects = Freed(a.m) /\ a.m.name = "ERROR"
        /\ a.m.count = 2 /\ Len(a.m.params) = 0 /\ a.m.stat = "more"
    BY <1>0, CommandBuilt
  <2> HIDE DEF a
  <2>2. b.m \in Messages /\ b.objects = Freed(b.m) /\ b.m.name = "ERROR"
        /\ b.m.count = 2 /\ Len(b.m.params) = 1 /\ b.m.stat = "more"
    <3>1. a.m \in Messages /\ a.objects = Freed(a.m) /\ a.m.stat = "more"
          /\ Len(a.m.params) < a.m.count
      BY <2>1
    <3>2. /\ Len(b.m.params) = Len(a.m.params) + 1
          /\ b.m.name = a.m.name /\ b.m.count = a.m.count
      BY <3>1, ParamBuilt
    <3>3. Len(b.m.params) = 1 /\ b.m.name = "ERROR" /\ b.m.count = 2
      BY <2>1, <3>2
    <3>4. b.m.stat = "more"
      BY <2>1, <3>1, <3>3, ParamBuilt
    <3> QED
      BY <3>1, <3>3, <3>4, ParamBuilt
  <2> HIDE DEF b
  <2>3. e.m \in Messages /\ e.objects = Freed(e.m) /\ e.m.name = "ERROR"
        /\ Len(e.m.params) = 2 /\ e.m.stat = "done"
    <3>1. Len(b.m.params) < b.m.count
      BY <2>2
    <3>2. /\ Len(e.m.params) = Len(b.m.params) + 1
          /\ e.m.name = b.m.name /\ e.m.count = b.m.count
      BY <2>2, <3>1, ParamBuilt
    <3>3. Len(e.m.params) = 2 /\ e.m.name = "ERROR" /\ e.m.count = 2
      BY <2>2, <3>2
    <3>4. e.m.stat = "done"
      BY <2>2, <3>1, <3>3, ParamBuilt
    <3> QED
      BY <2>2, <3>1, <3>3, <3>4, ParamBuilt
  <2>4. Build(LinesOf(r)) = e
    BY <1>3 DEF Build, a, b
  <2> HIDE DEF e
  <2>5. Len(LinesOf(r)) = 3
    BY <1>3
  <2>6. LineCount(e.m) = 3
    BY <2>3 DEF LineCount
  <2> QED
    BY <2>3, <2>4, <2>5, <2>6
<1> QED
  BY <1>1, <1>2, <1>3, LinesOfKinds

-----------------------------------------------------------------------------
(* The stream of one client. *)

\* How many lines the reply to the last request has.
LastLines(l) == Len(LinesOf(l[Len(l)]))

\* Stream s of a client with log l; j is the line of the last reply that comes next, or 0
\* when that reply is over; cut says that some write did not take all.
Sound(s, l, cut, j) ==
  /\ \A i, k \in DOMAIN s : i < k => Before(s[i], s[k])
  /\ \A i \in 2 .. Len(s) : Follows(s[i - 1], s[i])
  /\ \A i \in DOMAIN s : s[i][1] <= Len(l)
  /\ j # 0 =>
       /\ Len(l) > 0 /\ j <= LastLines(l)
       /\ \A i \in DOMAIN s : s[i][1] < Len(l) \/ s[i][2] < j
       /\ j > 1 => Len(s) > 0 /\ s[Len(s)][1] = Len(l) /\ s[Len(s)][2] = j - 1
  /\ ~ cut => Range(s) = {p \in AllHalves(l) : j = 0 \/ p[1] < Len(l) \/ p[2] < j}

\* The half lines of the replies, one by one.
LEMMA HalvesAt ==
  ASSUME NEW l, NEW p
  PROVE  p \in AllHalves(l) <=>
           \E i \in DOMAIN l : \E j \in 1 .. Len(LinesOf(l[i])) : \E h \in {1, 2} : p = <<i, j, h>>
  BY DEF AllHalves

\* A reply has at most three lines.
LEMMA LinesNumber ==
  ASSUME NEW r
  PROVE  Len(LinesOf(r)) \in 0 .. 3 /\ (Len(LinesOf(r)) = 0 <=> LinesOf(r) = <<>>)
<1>1. CASE LinesOf(r) = <<>>
  BY <1>1
<1>2. CASE LinesOf(r) = <<Command("PONG", <<>>)>>
  BY <1>2
<1>3. CASE LinesOf(r) = <<Command("NODE", <<1>>), Str>>
  BY <1>3
<1>4. CASE LinesOf(r) = <<Command("ERROR", <<2>>), Str, Str>>
  BY <1>4
<1> QED
  BY <1>1, <1>2, <1>3, <1>4, LinesOfKinds

\* A half line of the replies is of a line that the log calls for.
LEMMA HalvesType ==
  ASSUME NEW l \in Seq(Results), NEW p \in AllHalves(l)
  PROVE  /\ p \in Halfs /\ p[1] \in 1 .. Len(l)
         /\ p[2] \in 1 .. Len(LinesOf(l[p[1]])) /\ p[3] \in {1, 2}
<1>1. PICK i \in DOMAIN l : p \in {i} \X (1 .. Len(LinesOf(l[i]))) \X {1, 2}
  BY DEF AllHalves
<1>2. PICK j \in 1 .. Len(LinesOf(l[i])), h \in {1, 2} : p = <<i, j, h>>
  BY <1>1
<1>3. Len(LinesOf(l[i])) \in Nat
  BY LinesNumber
<1> QED
  BY <1>2, <1>3 DEF Halfs

\* A request adds the half lines of its own reply.
LEMMA NewHalves ==
  ASSUME NEW l \in Seq(Results), NEW r \in Results
  PROVE  /\ AllHalves(l) \subseteq AllHalves(Append(l, r))
         /\ \A p \in AllHalves(Append(l, r)) \ AllHalves(l) :
              p[1] = Len(l) + 1 /\ p[2] \in 1 .. Len(LinesOf(r))
<1> DEFINE m == Append(l, r)
<1>1. /\ DOMAIN l = 1 .. Len(l) /\ DOMAIN m = 1 .. (Len(l) + 1)
      /\ \A i \in 1 .. Len(l) : m[i] = l[i]
      /\ m[Len(l) + 1] = r
  OBVIOUS
<1>2. \A p \in AllHalves(l) : p \in AllHalves(m)
  BY <1>1 DEF AllHalves
<1>3. ASSUME NEW p \in AllHalves(m), p \notin AllHalves(l)
      PROVE  p[1] = Len(l) + 1 /\ p[2] \in 1 .. Len(LinesOf(r))
  <2>1. PICK i \in DOMAIN m : p \in {i} \X (1 .. Len(LinesOf(m[i]))) \X {1, 2}
    BY DEF AllHalves
  <2>2. i \notin 1 .. Len(l)
    BY <1>1, <1>3, <2>1 DEF AllHalves
  <2>3. i = Len(l) + 1
    BY <1>1, <2>2
  <2> QED
    BY <1>1, <2>1, <2>3
<1> QED
  BY <1>2, <1>3

\* A request that has no reply leaves a stream sound, one that has a reply leaves it sound
\* with the first line of that reply to come.
LEMMA SoundReply ==
  ASSUME NEW s \in Seq(Halfs), NEW l \in Seq(Results), NEW cut \in BOOLEAN, NEW r \in Results,
         Sound(s, l, cut, 0)
  PROVE  Sound(s, Append(l, r), cut, IF LinesOf(r) = <<>> THEN 0 ELSE 1)
<1> DEFINE m == Append(l, r)
           j == IF LinesOf(r) = <<>> THEN 0 ELSE 1
<1>1. m \in Seq(Results) /\ Len(m) = Len(l) + 1 /\ m[Len(m)] = r
  OBVIOUS
<1>2. /\ \A i, k \in DOMAIN s : i < k => Before(s[i], s[k])
      /\ \A i \in 2 .. Len(s) : Follows(s[i - 1], s[i])
      /\ \A i \in DOMAIN s : s[i][1] <= Len(l)
      /\ ~ cut => Range(s) = AllHalves(l)
  BY DEF Sound
<1>3. \A i \in DOMAIN s : s[i] \in Halfs
  OBVIOUS
<1>4. \A i \in DOMAIN s : s[i][1] < Len(m)
  BY <1>1, <1>2, <1>3 DEF Halfs
<1>5. j # 0 => LastLines(m) >= 1
  BY <1>1, LinesNumber DEF LastLines
<1>6. AllHalves(l) = {p \in AllHalves(m) : j = 0 \/ p[1] < Len(m) \/ p[2] < j}
  <2>1. ASSUME NEW p \in AllHalves(l)
        PROVE  p \in AllHalves(m) /\ p[1] < Len(m)
    BY <1>1, NewHalves, HalvesType
  <2>2. ASSUME NEW p \in AllHalves(m), p \notin AllHalves(l)
        PROVE  j # 0 /\ ~ p[1] < Len(m) /\ ~ p[2] < j
    <3>1. p[1] = Len(l) + 1 /\ p[2] \in 1 .. Len(LinesOf(r))
      BY <2>2, NewHalves
    <3>2. Len(LinesOf(r)) \in Nat /\ (LinesOf(r) = <<>> => Len(LinesOf(r)) = 0)
      BY LinesNumber
    <3> QED
      BY <1>1, <3>1, <3>2
  <2> QED
    BY <2>1, <2>2
<1> HIDE DEF m, j
<1>7. j \in {0, 1}
  BY DEF j
<1>8. Sound(s, m, cut, j)
  <2>1. \A i \in DOMAIN s : s[i][1] <= Len(m)
    BY <1>1, <1>2, <1>3 DEF Halfs
  <2>2. j # 0 => /\ Len(m) > 0 /\ j <= LastLines(m)
                 /\ \A i \in DOMAIN s : s[i][1] < Len(m) \/ s[i][2] < j
                 /\ ~ j > 1
    BY <1>1, <1>4, <1>5, <1>7
  <2>3. ~ cut => Range(s) = {p \in AllHalves(m) : j = 0 \/ p[1] < Len(m) \/ p[2] < j}
    BY <1>2, <1>6
  <2> QED
    BY <1>2, <2>1, <2>2, <2>3 DEF Sound
<1> QED
  BY <1>8 DEF m, j

\* What a write of line j that took n halves puts into the stream, and the line that
\* comes next.
Written(l, j, n) == [h \in 1 .. n |-> <<Len(l), j, h>>]
NextOf(l, j, n) == IF n = 0 \/ j = LastLines(l) THEN 0 ELSE j + 1

\* A write of the line that is due leaves a stream sound, with the next line to come.
LEMMA SoundWrite ==
  ASSUME NEW s \in Seq(Halfs), NEW l \in Seq(Results), NEW cut \in BOOLEAN,
         NEW j \in Nat \ {0}, NEW n \in 0 .. 2, Sound(s, l, cut, j)
  PROVE  /\ s \o Written(l, j, n) \in Seq(Halfs)
         /\ Sound(s \o Written(l, j, n), l, cut \/ n < 2, NextOf(l, j, n))
<1> DEFINE t == s \o Written(l, j, n)
           k == NextOf(l, j, n)
           last == Len(s)
<1>1. Written(l, j, n) \in Seq(Halfs) /\ Len(Written(l, j, n)) = n
      /\ \A h \in 1 .. n : Written(l, j, n)[h] = <<Len(l), j, h>>
  BY DEF Written, Halfs
<1>2. /\ t \in Seq(Halfs) /\ Len(t) = last + n /\ DOMAIN t = 1 .. (last + n)
      /\ \A i \in 1 .. last : t[i] = s[i]
      /\ \A h \in 1 .. n : t[last + h] = <<Len(l), j, h>>
  BY <1>1
<1> HIDE DEF t
<1>3. /\ \A a, b \in DOMAIN s : a < b => Before(s[a], s[b])
      /\ \A i \in 2 .. last : Follows(s[i - 1], s[i])
      /\ \A i \in DOMAIN s : s[i][1] <= Len(l)
      /\ Len(l) > 0 /\ j <= LastLines(l)
      /\ \A i \in DOMAIN s : s[i][1] < Len(l) \/ s[i][2] < j
      /\ j > 1 => last > 0 /\ s[last][1] = Len(l) /\ s[last][2] = j - 1
      /\ ~ cut => Range(s) = {p \in AllHalves(l) : p[1] < Len(l) \/ p[2] < j}
  BY DEF Sound
<1>4. last \in Nat /\ Len(l) \in Nat /\ DOMAIN s = 1 .. last
  OBVIOUS
<1>5. \A i \in 1 .. last : s[i] \in Halfs /\ s[i][1] \in Nat /\ s[i][2] \in Nat \ {0}
  BY <1>4 DEF Halfs
\* A half line of the new part, and where it stands.
<1>6. \A i \in (last + 1) .. (last + n) :
        /\ i - last \in 1 .. n
        /\ t[i][1] = Len(l) /\ t[i][2] = j /\ t[i][3] = i - last
        /\ t[i] = <<Len(l), j, i - last>>
  <2> SUFFICES ASSUME NEW i \in (last + 1) .. (last + n)
               PROVE  i - last \in 1 .. n /\ t[i] = <<Len(l), j, i - last>>
    OBVIOUS
  <2>1. i - last \in 1 .. n /\ last + (i - last) = i
    BY <1>4
  <2> QED
    BY <1>2, <2>1
<1>7. \A a, b \in DOMAIN t : a < b => Before(t[a], t[b])
  <2> SUFFICES ASSUME NEW a \in DOMAIN t, NEW b \in DOMAIN t, a < b
               PROVE  Before(t[a], t[b])
    OBVIOUS
  <2>1. CASE b \in 1 .. last
    <3>1. a \in 1 .. last
      BY <1>2, <1>4, <2>1
    <3>2. Before(s[a], s[b])
      BY <1>3, <1>4, <2>1, <3>1
    <3>3. t[a] = s[a] /\ t[b] = s[b]
      BY <1>2, <2>1, <3>1
    <3> QED
      BY <3>2, <3>3
  <2>2. CASE a \in 1 .. last /\ b \notin 1 .. last
    <3>1. b \in (last + 1) .. (last + n)
      BY <1>2, <1>4, <2>2
    <3>2. t[b][1] = Len(l) /\ t[b][2] = j
      BY <1>6, <3>1
    <3>3. t[a] = s[a] /\ (s[a][1] < Len(l) \/ (s[a][1] = Len(l) /\ s[a][2] < j))
      BY <1>2, <1>3, <1>4, <1>5, <2>2
    <3> QED
      BY <3>2, <3>3 DEF Before
  <2>3. CASE a \notin 1 .. last /\ b \notin 1 .. last
    <3>1. a \in (last + 1) .. (last + n) /\ b \in (last + 1) .. (last + n)
      BY <1>2, <1>4, <2>3
    <3>2. /\ t[a][1] = Len(l) /\ t[a][2] = j /\ t[a][3] = a - last
          /\ t[b][1] = Len(l) /\ t[b][2] = j /\ t[b][3] = b - last
      BY <1>6, <3>1
    <3>3. a - last < b - last
      BY <1>4, <3>1
    <3> QED
      BY <3>2, <3>3 DEF Before
  <2> QED
    BY <1>2, <1>4, <2>1, <2>2, <2>3
<1>8. \A i \in 2 .. Len(t) : Follows(t[i - 1], t[i])
  <2> SUFFICES ASSUME NEW i \in 2 .. Len(t)
               PROVE  Follows(t[i - 1], t[i])
    OBVIOUS
  <2>1. CASE i <= last
    <3>1. i \in 1 .. last /\ i - 1 \in 1 .. last /\ i \in 2 .. last
      BY <1>4, <2>1
    <3> QED
      BY <1>2, <1>3, <3>1
  <2>2. CASE i = last + 1
    <3>1. last \in 1 .. last /\ i - 1 = last /\ 1 \in 1 .. n /\ i \in (last + 1) .. (last + n)
      BY <1>2, <1>4, <2>2
    <3>2. t[i] = <<Len(l), j, 1>> /\ t[i - 1] = s[last]
      BY <1>2, <2>2, <3>1
    <3>3. CASE j > 1
      <4>1. s[last][1] = Len(l) /\ s[last][2] + 1 = j
        BY <1>3, <3>3
      <4> QED
        BY <3>2, <4>1 DEF Follows
    <3>4. CASE j = 1
      <4>1. s[last][1] < Len(l)
        BY <1>3, <1>4, <1>5, <3>1, <3>4
      <4> QED
        BY <3>2, <3>4, <4>1 DEF Follows
    <3> QED
      BY <3>3, <3>4
  <2>3. CASE i > last + 1
    <3>1. n = 2 /\ i = last + 2 /\ i - 1 = last + 1
      BY <1>2, <1>4, <2>3
    <3>2. t[i - 1] = <<Len(l), j, 1>> /\ t[i] = <<Len(l), j, 2>>
      BY <1>2, <3>1
    <3> QED
      BY <3>2 DEF Follows
  <2> QED
    BY <1>2, <1>4, <2>1, <2>2, <2>3
<1>9. \A i \in DOMAIN t : t[i][1] < Len(l) \/ (t[i][1] = Len(l) /\ t[i][2] <= j)
  <2> SUFFICES ASSUME NEW i \in DOMAIN t
               PROVE  t[i][1] < Len(l) \/ (t[i][1] = Len(l) /\ t[i][2] <= j)
    OBVIOUS
  <2>1. CASE i \in 1 .. last
    BY <1>2, <1>3, <1>4, <1>5, <2>1
  <2>2. CASE i \in (last + 1) .. (last + n)
    BY <1>6, <2>2
  <2> QED
    BY <1>2, <1>4, <2>1, <2>2
<1>10. ~ cut /\ n = 2 => Range(t) = {p \in AllHalves(l) : k = 0 \/ p[1] < Len(l) \/ p[2] < k}
  <2> SUFFICES ASSUME ~ cut, n = 2, NEW p
               PROVE  p \in Range(t) <=>
                        p \in AllHalves(l) /\ (k = 0 \/ p[1] < Len(l) \/ p[2] < k)
    BY DEF Range
  <2> DEFINE new == p = <<Len(l), j, 1>> \/ p = <<Len(l), j, 2>>
  <2>1. p \in Range(t) <=> p \in Range(s) \/ new
    <3>1. DOMAIN t = (1 .. last) \cup {last + 1, last + 2}
      BY <1>2, <1>4, SMTT(30)
    <3>2. t[last + 1] = <<Len(l), j, 1>> /\ t[last + 2] = <<Len(l), j, 2>>
      BY <1>2
    <3>3. \A i \in 1 .. last : t[i] = s[i]
      BY <1>2
    <3>4. /\ p \in Range(t) <=> \E i \in DOMAIN t : p = t[i]
          /\ p \in Range(s) <=> \E i \in 1 .. last : p = s[i]
      BY <1>4 DEF Range
    <3> QED
      BY <3>1, <3>2, <3>3, <3>4
  <2>2. p \in Range(s) <=> p \in AllHalves(l) /\ (p[1] < Len(l) \/ p[2] < j)
    BY <1>3
  <2>3. LastLines(l) = Len(LinesOf(l[Len(l)])) /\ LastLines(l) \in Nat
    BY LinesNumber DEF LastLines
  <2>4. new => p \in AllHalves(l)
    <3>1. Len(l) \in DOMAIN l /\ j \in 1 .. LastLines(l)
      BY <1>3, <1>4, <2>3
    <3> QED
      BY <2>3, <3>1, HalvesAt
  <2>5. new => (k = 0 \/ p[2] < k)
    BY <2>3 DEF NextOf
  <2>6. ASSUME p \in AllHalves(l), k = 0 \/ p[1] < Len(l) \/ p[2] < k
        PROVE  p[1] < Len(l) \/ p[2] < j \/ new
    <3>1. /\ p \in Halfs /\ p[1] \in 1 .. Len(l)
          /\ p[2] \in 1 .. Len(LinesOf(l[p[1]])) /\ p[3] \in {1, 2}
      BY <2>6, HalvesType
    <3>2. p = <<p[1], p[2], p[3]>>
      BY <3>1 DEF Halfs
    <3>3. CASE p[1] < Len(l)
      BY <3>3
    <3>4. CASE p[1] = Len(l)
      <4>1. p[2] \in Nat /\ p[2] <= LastLines(l)
        BY <2>3, <3>1, <3>4
      <4>2. p[2] <= j
        BY <2>3, <2>6, <3>4, <4>1 DEF NextOf
      <4> QED
        BY <3>1, <3>2, <3>4, <4>1, <4>2
    <3> QED
      BY <1>4, <3>1, <3>3, <3>4
  <2>7. p \in AllHalves(l) => p[1] \in Nat /\ p[2] \in Nat
    BY HalvesType DEF Halfs
  <2>8. p[2] \in Nat /\ p[2] < j => k = 0 \/ p[2] < k
    BY <2>3 DEF NextOf
  <2> QED
    BY <2>1, <2>2, <2>4, <2>5, <2>6, <2>7, <2>8
<1>11. Sound(t, l, cut \/ n < 2, k)
  <2>1. \A i \in DOMAIN t : t[i][1] <= Len(l)
    BY <1>4, <1>9, <1>2 DEF Halfs
  <2>2. k # 0 => /\ Len(l) > 0 /\ k <= LastLines(l)
                 /\ \A i \in DOMAIN t : t[i][1] < Len(l) \/ t[i][2] < k
                 /\ k > 1 => Len(t) > 0 /\ t[Len(t)][1] = Len(l) /\ t[Len(t)][2] = k - 1
    <3> SUFFICES ASSUME k # 0
                 PROVE  /\ k <= LastLines(l)
                        /\ \A i \in DOMAIN t : t[i][2] <= j => t[i][2] < k
                        /\ Len(t) > 0 /\ t[Len(t)][1] = Len(l) /\ t[Len(t)][2] = k - 1
      BY <1>3, <1>9
    <3>1. k = j + 1 /\ n \in 1 .. 2 /\ j # LastLines(l)
      BY DEF NextOf
    <3>2. LastLines(l) \in Nat
      BY LinesNumber DEF LastLines
    <3>3. k <= LastLines(l)
      BY <1>3, <3>1, <3>2
    <3>4. Len(t) \in (last + 1) .. (last + n) /\ Len(t) > 0
      BY <1>2, <1>4, <3>1
    <3>5. t[Len(t)][1] = Len(l) /\ t[Len(t)][2] = k - 1
      BY <1>6, <3>1, <3>4
    <3>6. \A i \in DOMAIN t : t[i][2] \in Nat
      BY <1>2 DEF Halfs
    <3> QED
      BY <3>1, <3>3, <3>4, <3>5, <3>6
  <2>3. ~ (cut \/ n < 2) => ~ cut /\ n = 2
    OBVIOUS
  <2> HIDE DEF k
  <2> QED
    BY <1>7, <1>8, <1>10, <2>1, <2>2, <2>3 DEF Sound
<1> QED
  BY <1>2, <1>11 DEF t

-----------------------------------------------------------------------------
(* The inductive invariant. *)

\* The line that client c's stream goes on with, or 0.
NextLineOf(c) == IF c \in serving[home[c]] THEN rline[home[c]] ELSE 0

\* A reply is whole, holds what msg_free gives back, and answers the last request of the
\* client that the worker serves, in as many lines as it has.
AnswersInv ==
  \A w \in Workers :
    /\ borrowed[w] = Freed(rmsg[w])
    /\ Replying(w) =>
         /\ rmsg[w].stat = "done"
         /\ wpc[w] # "dispatch"
         /\ \A c \in serving[w] : Len(log[c]) > 0 /\ LineCount(rmsg[w]) = LastLines(log[c])

StreamsInv == \A c \in Clients : Sound(stream[c], log[c], short[c], NextLineOf(c))

RInv == /\ IInv /\ RepliesTypeOK /\ AnswersInv /\ StreamsInv

\* Nothing is replied to at the start.
LEMMA RepliesInitInv == InitReplies => RInv
<1> SUFFICES ASSUME InitReplies PROVE RInv
  OBVIOUS
<1>1. IInv
  BY InitInv DEF InitReplies
<1>2. RepliesTypeOK
  <2>1. NoMsg \in Messages /\ NoMsg.name = "" /\ LineCount(NoMsg) = 1
    <3>1. NoMsg.name = "" /\ NoMsg.params = <<>>
      BY DEF NoMsg
    <3>2. LineCount(NoMsg) = 1
      <4>1. Len(NoMsg.params) = 0
        BY <3>1, EmptySeq
      <4> QED
        BY <4>1 DEF LineCount
    <3> QED
      BY <3>1, <3>2, MessageFacts
  <2>2. rmsg \in [Workers -> Messages] /\ rline \in [Workers -> Nat]
        /\ \A w \in Workers : rmsg[w] = NoMsg /\ rline[w] = 0
    BY <2>1 DEF InitReplies
  <2>3. borrowed \in [Workers -> [Kinds -> Nat]] /\ room \in [Clients -> 0 .. Room]
    BY RoomAssumption DEF InitReplies, Nothing
  <2>4. /\ reset \in [Clients -> BOOLEAN] /\ short \in [Clients -> BOOLEAN]
        /\ stream \in [Clients -> Seq(Halfs)]
    BY DEF InitReplies
  <2>5. \A w \in Workers : /\ rmsg[w].name \in {"", "PONG", "NODE", "ERROR"}
                           /\ rline[w] \in 0 .. LineCount(rmsg[w])
                           /\ rline[w] # 0 => Replying(w)
    <3>1. \A w \in Workers : LineCount(rmsg[w]) = 1 /\ rmsg[w].name = "" /\ rline[w] = 0
      BY <2>1, <2>2
    <3>2. ASSUME NEW w \in Workers PROVE rline[w] \in 0 .. LineCount(rmsg[w])
      <4>1. LineCount(rmsg[w]) = 1 /\ rline[w] = 0
        BY <3>1
      <4> QED
        BY <4>1
    <3> QED
      BY <3>1, <3>2
  <2> QED
    BY <2>2, <2>3, <2>4, <2>5 DEF RepliesTypeOK
<1>3. AnswersInv
  <2>1. \A k \in Kinds : Freed(NoMsg)[k] = 0
    BY FreedEmpty
  <2>2. Freed(NoMsg) = Nothing
    BY DEF Freed, NoMsg
  <2> QED
    BY <2>2 DEF InitReplies, AnswersInv, Replying
<1>4. StreamsInv
  <2> SUFFICES ASSUME NEW c \in Clients
               PROVE  Sound(stream[c], log[c], short[c], NextLineOf(c))
    BY DEF StreamsInv
  <2>1. stream[c] = <<>> /\ log[c] = <<>> /\ NextLineOf(c) = 0
    BY HomeAssumption DEF InitReplies, Init, NextLineOf
  <2>2. AllHalves(<<>>) = {} /\ Range(<<>>) = {}
    BY DEF AllHalves, Range
  <2>3. Sound(<<>>, <<>>, short[c], 0)
    BY <2>2 DEF Sound
  <2> QED
    BY <2>1, <2>3
<1> QED
  BY <1>1, <1>2, <1>3, <1>4 DEF RInv

-----------------------------------------------------------------------------
(* The steps. *)

\* The workers and clients go on as in module Session.
LEMMA SessionStep ==
  ASSUME [NextReplies]_allVars
  PROVE  [Next]_vars
<1>1. CASE \E c \in Clients, l \in Lines : SendLine(c, l)
  BY <1>1 DEF SendLine, Next
<1>2. CASE \E c \in Clients : Receive(c) \/ Reset(c)
  BY <1>2 DEF Receive, Reset
<1>3. CASE \E w \in Workers, c \in Clients : ReadEvent(w, c) \/ ReleaseEvent(w, c)
  BY <1>3 DEF ReadEvent, ReleaseEvent, Next
<1>4. CASE \E w \in Workers : Work(w)
  BY <1>4 DEF Work, Handle, WriteLine, FinishReply, Next
<1>5. CASE UNCHANGED allVars
  BY <1>5 DEF allVars
<1> QED
  BY <1>1, <1>2, <1>3, <1>4, <1>5 DEF NextReplies

\* What a step of the handler of client c means for the replies: nothing, the end of the
\* handler, a request that is not answered, or a reply.
Handled(w, c) ==
  /\ serving[w] = {c} /\ home[c] = w /\ ~ Replying(w)
  /\ UNCHANGED socketVars
  /\ \A v \in Workers \ {w} : wpc'[v] = wpc[v] /\ serving'[v] = serving[v]
  /\ \/ /\ log' = log /\ serving'[w] \in {{c}, {}}
        /\ UNCHANGED replyVars
     \/ \E r \in Results :
          /\ log' = [log EXCEPT ![c] = Append(@, r)]
          /\ serving'[w] = {c} /\ wpc'[w] # "dispatch"
          /\ \/ LinesOf(r) = <<>> /\ UNCHANGED replyVars
             \/ /\ LinesOf(r) # <<>>
                /\ rmsg' = [rmsg EXCEPT ![w] = Build(LinesOf(r)).m]
                /\ rline' = [rline EXCEPT ![w] = 1]
                /\ borrowed' = [borrowed EXCEPT ![w] = Build(LinesOf(r)).objects]

\* A step of a read handler is for the client that its worker serves; it may add a result to
\* that client's log, and then the worker is still in the handler.
LEMMA HandlerKinds ==
  ASSUME TypeOK, ServingInv, MessagesInv, NEW w \in Workers, Handler(w)
  PROVE  \E c \in Clients :
           /\ serving[w] = {c} /\ home[c] = w
           /\ \A v \in Workers \ {w} : wpc'[v] = wpc[v] /\ serving'[v] = serving[v]
           /\ \/ log' = log /\ serving'[w] \in {{c}, {}}
              \/ /\ \E r \in Results : log' = [log EXCEPT ![c] = Append(@, r)]
                 /\ serving'[w] = {c} /\ wpc'[w] # "dispatch"
<1>1. CASE LoadServerOk(w)
  <2>1. wpc[w] # "dispatch" /\ log' = log /\ serving' = serving
        /\ \A v \in Workers \ {w} : wpc'[v] = wpc[v]
    BY <1>1 DEF LoadServerOk, TypeOK
  <2>2. PICK c \in Clients : serving[w] = {c}
    BY <2>1 DEF ServingInv
  <2> QED
    BY <2>1, <2>2 DEF ServingInv
<1>2. ASSUME NEW c \in Clients,
             \/ RejectLine(w, c) \/ TakeLine(w, c) \/ CompleteLine(w, c)
             \/ StoreServerOk(w, c) \/ EndRead(w, c)
      PROVE  /\ serving[w] = {c} /\ home[c] = w
             /\ \A v \in Workers \ {w} : wpc'[v] = wpc[v] /\ serving'[v] = serving[v]
             /\ \/ log' = log /\ serving'[w] \in {{c}, {}}
                \/ /\ \E r \in Results : log' = [log EXCEPT ![c] = Append(@, r)]
                   /\ serving'[w] = {c} /\ wpc'[w] # "dispatch"
  <2>1. Step(w, c)
    BY <1>2 DEF Step
  <2>2. home[c] = w /\ \A v \in Workers \ {w} : wpc'[v] = wpc[v] /\ serving'[v] = serving[v]
    BY <2>1, StepFrame
  <2>3. c \in serving[w] /\ wpc[w] # "dispatch"
    BY <1>2 DEF RejectLine, TakeLine, CompleteLine, StoreServerOk, EndRead
  <2>4. serving[w] = {c}
    BY <2>3 DEF ServingInv
  <2>5. CASE RejectLine(w, c) \/ CompleteLine(w, c)
    <3>1. serving' = serving /\ wpc'[w] # "dispatch"
      <4>1. serving' = serving /\ wpc[w] = "lines" /\ (wpc' = wpc \/ wpc' = [wpc EXCEPT ![w] = "load"])
        BY <2>5 DEF RejectLine, CompleteLine, threadVars
      <4> QED
        BY <4>1 DEF TypeOK
    <3>2. Rejected(c) \/ Executed(c)
      BY <2>1, <2>5, CountingSteps
    <3>3. log' = log \/ \E r \in Results : log' = [log EXCEPT ![c] = Append(@, r)]
      <4>1. BadLine \subseteq Results /\ Failed \subseteq Results
        BY DEF Results
      <4> QED
        BY <3>2, <4>1 DEF Rejected, Executed
    <3> QED
      BY <2>2, <2>4, <3>1, <3>3
  <2>6. CASE TakeLine(w, c) \/ StoreServerOk(w, c)
    <3>1. log' = log /\ serving' = serving
      BY <2>6 DEF TakeLine, StoreServerOk, threadVars
    <3> QED
      BY <2>2, <2>4, <3>1
  <2>7. CASE EndRead(w, c)
    <3>1. log' = log /\ serving'[w] = {}
      BY <2>7 DEF EndRead, TypeOK
    <3> QED
      BY <2>2, <2>4, <3>1
  <2> QED
    BY <1>2, <2>5, <2>6, <2>7
<1> QED
  BY <1>1, <1>2 DEF Handler

\* The same with the reply that the step begins: a result without one leaves the replies
\* alone, another begins a whole message with its first line to come.
LEMMA HandleKinds ==
  ASSUME IInv, NEW w \in Workers, Handle(w)
  PROVE  \E c \in Clients : Handled(w, c)
<1>1. TypeOK /\ ServingInv /\ MessagesInv /\ log \in [Clients -> Seq(Results)]
  BY DEF IInv, TypeOK
<1>2. PICK c \in Clients :
        /\ serving[w] = {c} /\ home[c] = w
        /\ \A v \in Workers \ {w} : wpc'[v] = wpc[v] /\ serving'[v] = serving[v]
        /\ \/ log' = log /\ serving'[w] \in {{c}, {}}
           \/ /\ \E r \in Results : log' = [log EXCEPT ![c] = Append(@, r)]
              /\ serving'[w] = {c} /\ wpc'[w] # "dispatch"
  BY <1>1, HandlerKinds DEF Handle
<1>3. ~ Replying(w) /\ Reply(w, c) /\ UNCHANGED socketVars
  BY <1>2 DEF Handle
<1>4. CASE log' = log /\ serving'[w] \in {{c}, {}}
  <2>1. UNCHANGED replyVars
    BY <1>3, <1>4 DEF Reply
  <2> QED
    BY <1>2, <1>3, <1>4, <2>1 DEF Handled
<1>5. ASSUME NEW r \in Results, log' = [log EXCEPT ![c] = Append(@, r)],
             serving'[w] = {c}, wpc'[w] # "dispatch"
      PROVE  Handled(w, c)
  <2> DEFINE b == Build(LinesOf(r))
  <2>1. log'[c] # log[c] /\ log'[c][Len(log'[c])] = r
    <3>1. log[c] \in Seq(Results) /\ log'[c] = Append(log[c], r)
      BY <1>1, <1>5
    <3> QED
      BY <3>1
  <2>2. IF LinesOf(r) = <<>>
          THEN UNCHANGED replyVars
          ELSE /\ rmsg' = [rmsg EXCEPT ![w] = b.m]
               /\ rline' = [rline EXCEPT ![w] = IF b.m.stat = "done" THEN 1 ELSE 0]
               /\ borrowed' = [borrowed EXCEPT ![w] = b.objects]
    BY <1>3, <2>1 DEF Reply
  <2>3. LinesOf(r) # <<>> => b.m.stat = "done"
    BY ReplyBuilt
  <2> HIDE DEF b
  <2>4. LinesOf(r) # <<>> => rline' = [rline EXCEPT ![w] = 1]
    BY <2>2, <2>3
  <2>5. \/ LinesOf(r) = <<>> /\ UNCHANGED replyVars
        \/ /\ LinesOf(r) # <<>>
           /\ rmsg' = [rmsg EXCEPT ![w] = b.m]
           /\ rline' = [rline EXCEPT ![w] = 1]
           /\ borrowed' = [borrowed EXCEPT ![w] = b.objects]
    BY <2>2, <2>4
  <2> QED
    BY <1>2, <1>3, <1>5, <2>5 DEF Handled, b
<1> QED
  BY <1>2, <1>4, <1>5

\* A worker that begins, goes on with or ends its handler, with the reply to it.
LEMMA HandleStep ==
  ASSUME RInv, IInv', NEW w \in Workers, Handle(w)
  PROVE  RepliesTypeOK' /\ AnswersInv' /\ StreamsInv'
<1>1. PICK c \in Clients : Handled(w, c)
  BY HandleKinds DEF RInv
<1>2. /\ rmsg \in [Workers -> Messages] /\ rline \in [Workers -> Nat]
      /\ borrowed \in [Workers -> [Kinds -> Nat]]
      /\ \A v \in Workers : /\ rmsg[v].name \in {"", "PONG", "NODE", "ERROR"}
                            /\ rline[v] \in 0 .. LineCount(rmsg[v])
                            /\ rline[v] # 0 => Replying(v)
  BY DEF RInv, RepliesTypeOK
<1>3. /\ serving \in [Workers -> SUBSET Clients] /\ log \in [Clients -> Seq(Results)]
      /\ \A v \in Workers : \A d \in serving[v] : home[d] = v
      /\ serving' \in [Workers -> SUBSET Clients]
  <2>1. serving \in [Workers -> SUBSET Clients] /\ log \in [Clients -> Seq(Results)]
    <3>1. TypeOK
      BY DEF RInv, IInv
    <3> QED
      BY <3>1 DEF TypeOK
  <2>2. \A v \in Workers : \A d \in serving[v] : home[d] = v
    <3>1. ServingInv
      BY DEF RInv, IInv
    <3> QED
      BY <3>1 DEF ServingInv
  <2>3. serving' \in [Workers -> SUBSET Clients]
    <3>1. TypeOK'
      BY DEF IInv
    <3> QED
      BY <3>1 DEF TypeOK
  <2> QED
    BY <2>1, <2>2, <2>3
<1>4. /\ room' \in [Clients -> 0 .. Room] /\ reset' \in [Clients -> BOOLEAN]
      /\ short' \in [Clients -> BOOLEAN] /\ stream' \in [Clients -> Seq(Halfs)]
      /\ stream' = stream /\ short' = short
  BY <1>1 DEF RInv, RepliesTypeOK, Handled, socketVars
<1>5. /\ serving[w] = {c} /\ home[c] = w /\ ~ Replying(w) /\ rline[w] = 0
      /\ \A v \in Workers \ {w} : wpc'[v] = wpc[v] /\ serving'[v] = serving[v]
      /\ serving'[w] \subseteq {c}
  BY <1>1, <1>2 DEF Handled
<1>6. Sound(stream[c], log[c], short[c], 0)
  <2>1. NextLineOf(c) = 0
    BY <1>5 DEF NextLineOf
  <2> QED
    BY <2>1 DEF RInv, StreamsInv
\* Another client is served by another worker, or by none.
<1>7. ASSUME NEW d \in Clients \ {c}, log'[d] = log[d], \A v \in Workers \ {w} : rline'[v] = rline[v]
      PROVE  Sound(stream'[d], log'[d], short'[d], NextLineOf(d)')
  <2>1. NextLineOf(d)' = NextLineOf(d)
    BY <1>5, <1>7, HomeAssumption DEF NextLineOf
  <2> QED
    BY <1>4, <1>7, <2>1 DEF RInv, StreamsInv
\* Another worker goes on with its reply.
<1>8. ASSUME NEW v \in Workers \ {w}, \A d \in Clients \ {c} : log'[d] = log[d],
             rmsg'[v] = rmsg[v], borrowed'[v] = borrowed[v]
      PROVE  /\ borrowed'[v] = Freed(rmsg'[v])
             /\ Replying(v)' =>
                  /\ rmsg'[v].stat = "done" /\ wpc'[v] # "dispatch"
                  /\ \A d \in serving'[v] : Len(log'[d]) > 0 /\ LineCount(rmsg'[v]) = LastLines(log'[d])
  <2>1. \A d \in serving[v] : log'[d] = log[d]
    BY <1>3, <1>5, <1>8
  <2> QED
    BY <1>5, <1>8, <2>1 DEF RInv, AnswersInv, Replying
<1>9. CASE UNCHANGED replyVars
  <2>1. rmsg' = rmsg /\ rline' = rline /\ borrowed' = borrowed
    BY <1>9 DEF replyVars
  <2>2. RepliesTypeOK'
    BY <1>2, <1>4, <2>1 DEF RepliesTypeOK, Replying
  <2>3. \A d \in Clients \ {c} : log'[d] = log[d]
    BY <1>1, <1>3 DEF Handled
  <2>4. AnswersInv'
    <3>1. borrowed'[w] = Freed(rmsg'[w]) /\ ~ Replying(w)'
      BY <1>5, <2>1 DEF RInv, AnswersInv, Replying
    <3> QED
      BY <1>8, <2>1, <2>3, <3>1 DEF AnswersInv
  <2>5. Sound(stream'[c], log'[c], short'[c], NextLineOf(c)')
    <3>1. NextLineOf(c)' = 0
      BY <1>5, <2>1 DEF NextLineOf
    <3>2. CASE log' = log
      BY <1>4, <1>6, <3>1, <3>2
    <3>3. ASSUME NEW r \in Results, log' = [log EXCEPT ![c] = Append(@, r)], LinesOf(r) = <<>>
          PROVE  Sound(stream'[c], log'[c], short'[c], 0)
      <4>1. log[c] \in Seq(Results) /\ stream[c] \in Seq(Halfs) /\ short[c] \in BOOLEAN
        BY <1>3, <1>4
      <4>2. Sound(stream[c], Append(log[c], r), short[c], 0)
        BY <1>6, <3>3, <4>1, SoundReply
      <4>3. log'[c] = Append(log[c], r)
        BY <1>3, <3>3
      <4> QED
        BY <1>4, <4>2, <4>3
    <3>5. ASSUME NEW r \in Results, LinesOf(r) # <<>>,
                 rmsg' = [rmsg EXCEPT ![w] = Build(LinesOf(r)).m]
          PROVE  FALSE
      <4>1. Build(LinesOf(r)).m.stat = "done"
        BY <3>5, ReplyBuilt
      <4>2. rmsg'[w] = NoMsg /\ rmsg'[w] = Build(LinesOf(r)).m
        BY <1>2, <1>5, <2>1, <3>5 DEF Replying
      <4> QED
        BY <4>1, <4>2, MessageFacts
    <3> QED
      BY <1>1, <3>1, <3>2, <3>3, <3>5 DEF Handled
  <2>6. StreamsInv'
    BY <1>7, <2>1, <2>3, <2>5 DEF StreamsInv
  <2> QED
    BY <2>2, <2>4, <2>6
<1>10. ASSUME NEW r \in Results, log' = [log EXCEPT ![c] = Append(@, r)],
              serving'[w] = {c}, wpc'[w] # "dispatch", LinesOf(r) # <<>>,
              rmsg' = [rmsg EXCEPT ![w] = Build(LinesOf(r)).m],
              rline' = [rline EXCEPT ![w] = 1],
              borrowed' = [borrowed EXCEPT ![w] = Build(LinesOf(r)).objects]
       PROVE  RepliesTypeOK' /\ AnswersInv' /\ StreamsInv'
  <2> DEFINE b == Build(LinesOf(r))
  <2>1. /\ b.m \in Messages /\ b.objects = Freed(b.m)
        /\ b.m.name \in {"PONG", "NODE", "ERROR"}
        /\ b.m.stat = "done"
        /\ LineCount(b.m) = Len(LinesOf(r))
    BY <1>10, ReplyBuilt
  <2>2. b.m # NoMsg
    BY <2>1, MessageFacts
  <2>3. b.objects \in [Kinds -> Nat]
    BY <2>1, FreedAt
  <2>4. Len(LinesOf(r)) \in 1 .. 3
    BY <1>10, LinesNumber
  <2> HIDE DEF b
  <2>5. /\ rmsg'[w] = b.m /\ rline'[w] = 1 /\ borrowed'[w] = b.objects
        /\ \A v \in Workers \ {w} :
             rmsg'[v] = rmsg[v] /\ rline'[v] = rline[v] /\ borrowed'[v] = borrowed[v]
    BY <1>2, <1>10 DEF b
  <2>6. log'[c] = Append(log[c], r) /\ \A d \in Clients \ {c} : log'[d] = log[d]
    BY <1>3, <1>10
  <2>7. Len(log'[c]) > 0 /\ LastLines(log'[c]) = Len(LinesOf(r))
    <3>1. log[c] \in Seq(Results)
      BY <1>3
    <3>2. Len(log'[c]) = Len(log[c]) + 1 /\ log'[c][Len(log'[c])] = r
      BY <2>6, <3>1
    <3> QED
      BY <3>1, <3>2 DEF LastLines
  <2>8. RepliesTypeOK'
    <3>1. /\ rmsg' \in [Workers -> Messages] /\ rline' \in [Workers -> Nat]
          /\ borrowed' \in [Workers -> [Kinds -> Nat]]
      BY <1>2, <1>10, <2>1, <2>3 DEF b
    <3>2. /\ rmsg'[w].name \in {"", "PONG", "NODE", "ERROR"}
          /\ rline'[w] \in 0 .. LineCount(rmsg'[w])
          /\ rline'[w] # 0 => Replying(w)'
      <4>1. LineCount(rmsg'[w]) \in 1 .. 3
        BY <2>1, <2>4, <2>5
      <4>2. rline'[w] \in 0 .. LineCount(rmsg'[w])
        BY <2>5, <4>1
      <4> QED
        BY <2>1, <2>2, <2>5, <4>2 DEF Replying
    <3>3. \A v \in Workers : /\ rmsg'[v].name \in {"", "PONG", "NODE", "ERROR"}
                             /\ rline'[v] \in 0 .. LineCount(rmsg'[v])
                             /\ rline'[v] # 0 => Replying(v)'
      BY <1>2, <2>5, <3>2 DEF Replying
    <3> QED
      BY <1>4, <3>1, <3>3 DEF RepliesTypeOK
  <2>9. AnswersInv'
    <3>1. /\ borrowed'[w] = Freed(rmsg'[w])
          /\ rmsg'[w].stat = "done" /\ wpc'[w] # "dispatch"
          /\ \A d \in serving'[w] : Len(log'[d]) > 0 /\ LineCount(rmsg'[w]) = LastLines(log'[d])
      BY <1>10, <2>1, <2>5, <2>7
    <3> QED
      BY <1>8, <2>5, <2>6, <3>1 DEF AnswersInv
  <2>10. Sound(stream'[c], log'[c], short'[c], NextLineOf(c)')
    <3>1. NextLineOf(c)' = 1
      BY <1>5, <1>10, <2>5 DEF NextLineOf
    <3>2. log[c] \in Seq(Results) /\ stream[c] \in Seq(Halfs) /\ short[c] \in BOOLEAN
      BY <1>3, <1>4
    <3>3. Sound(stream[c], Append(log[c], r), short[c], 1)
      BY <1>6, <1>10, <3>2, SoundReply
    <3> QED
      BY <1>4, <2>6, <3>1, <3>3
  <2>11. StreamsInv'
    BY <1>7, <2>5, <2>6, <2>10 DEF StreamsInv
  <2> QED
    BY <2>8, <2>9, <2>11
<1> QED
  BY <1>1, <1>9, <1>10 DEF Handled

\* A write of a line to a client.
LEMMA WriteStep ==
  ASSUME RInv, NEW w \in Workers, NEW c \in Clients, WriteLine(w, c)
  PROVE  RepliesTypeOK' /\ AnswersInv' /\ StreamsInv'
<1> DEFINE n == Taken(c)
           j == rline[w]
           k == NextWritten(rmsg[w], j, n)
<1>1. /\ c \in serving[w] /\ j # 0 /\ UNCHANGED <<vars, rmsg, borrowed, reset>>
      /\ stream' = [stream EXCEPT ![c] = @ \o [h \in 1 .. n |-> <<Len(log[c]), j, h>>]]
      /\ room' = [room EXCEPT ![c] = @ - n]
      /\ short' = [short EXCEPT ![c] = @ \/ n < 2]
      /\ rline' = [rline EXCEPT ![w] = k]
  BY DEF WriteLine
<1>2. UNCHANGED <<serving, log, wpc, rmsg, borrowed, reset>>
  BY <1>1 DEF vars, threadVars
<1>3. /\ rmsg \in [Workers -> Messages] /\ rline \in [Workers -> Nat]
      /\ borrowed \in [Workers -> [Kinds -> Nat]]
      /\ room \in [Clients -> 0 .. Room] /\ reset \in [Clients -> BOOLEAN]
      /\ short \in [Clients -> BOOLEAN] /\ stream \in [Clients -> Seq(Halfs)]
  BY DEF RInv, RepliesTypeOK
<1>4. \A v \in Workers : /\ rmsg[v].name \in {"", "PONG", "NODE", "ERROR"}
                         /\ rline[v] \in 0 .. LineCount(rmsg[v])
                         /\ rline[v] # 0 => Replying(v)
  BY DEF RInv, RepliesTypeOK
<1>5. serving[w] = {c} /\ home[c] = w /\ log[c] \in Seq(Results)
  <2>1. log[c] \in Seq(Results) /\ ServingInv
    BY DEF RInv, IInv, TypeOK
  <2> QED
    BY <1>1, <2>1 DEF ServingInv
<1>6. Replying(w) /\ LineCount(rmsg[w]) = LastLines(log[c])
  BY <1>1, <1>4 DEF RInv, AnswersInv
<1>7. LastLines(log[c]) \in Nat
  BY LinesNumber DEF LastLines
<1>8. n \in 0 .. 2 /\ room[c] - n \in 0 .. Room
  <2>1. room[c] \in 0 .. Room
    BY <1>3
  <2>2. Min({2, room[c]}) = IF room[c] < 2 THEN room[c] ELSE 2
    BY <2>1 DEF Min
  <2> QED
    BY <2>1, <2>2, RoomAssumption DEF Taken
<1>9. j \in Nat \ {0} /\ j <= LineCount(rmsg[w])
  <2>1. j \in 0 .. LineCount(rmsg[w]) /\ LineCount(rmsg[w]) \in Nat
    BY <1>4, <1>6, <1>7
  <2> QED
    BY <1>1, <2>1
<1>10. k = NextOf(log[c], j, n) /\ k \in 0 .. LineCount(rmsg[w])
  BY <1>6, <1>7, <1>8, <1>9 DEF NextWritten, NextOf
<1>11. NextLineOf(c) = j /\ NextLineOf(c)' = k
  BY <1>1, <1>2, <1>3, <1>5 DEF NextLineOf
<1> HIDE DEF n, j, k
<1>12. /\ stream[c] \o Written(log[c], j, n) \in Seq(Halfs)
       /\ Sound(stream[c] \o Written(log[c], j, n), log[c], short[c] \/ n < 2, NextOf(log[c], j, n))
  <2>1. Sound(stream[c], log[c], short[c], j)
    BY <1>11 DEF RInv, StreamsInv
  <2>2. stream[c] \in Seq(Halfs) /\ short[c] \in BOOLEAN
    BY <1>3
  <2> QED
    BY <1>5, <1>8, <1>9, <2>1, <2>2, SoundWrite
<1>13. /\ stream'[c] = stream[c] \o Written(log[c], j, n)
       /\ short'[c] = (short[c] \/ n < 2)
       /\ \A d \in Clients \ {c} : stream'[d] = stream[d] /\ short'[d] = short[d]
  BY <1>1, <1>3 DEF Written
<1>14. RepliesTypeOK'
  <2>1. stream' \in [Clients -> Seq(Halfs)]
    BY <1>1, <1>3, <1>12, <1>13
  <2>2. room' \in [Clients -> 0 .. Room] /\ reset' \in [Clients -> BOOLEAN]
        /\ short' \in [Clients -> BOOLEAN]
    BY <1>1, <1>2, <1>3, <1>8
  <2>3. rline' \in [Workers -> Nat]
    BY <1>1, <1>3, <1>6, <1>7, <1>10
  <2>4. \A v \in Workers : /\ rmsg'[v].name \in {"", "PONG", "NODE", "ERROR"}
                           /\ rline'[v] \in 0 .. LineCount(rmsg'[v])
                           /\ rline'[v] # 0 => Replying(v)'
    BY <1>1, <1>2, <1>3, <1>4, <1>6, <1>10 DEF Replying
  <2> QED
    BY <1>2, <1>3, <2>1, <2>2, <2>3, <2>4 DEF RepliesTypeOK
<1>15. AnswersInv'
  BY <1>2 DEF RInv, AnswersInv, Replying
<1>16. StreamsInv'
  <2> SUFFICES ASSUME NEW d \in Clients
               PROVE  Sound(stream'[d], log'[d], short'[d], NextLineOf(d)')
    BY DEF StreamsInv
  <2>1. CASE d = c
    BY <1>2, <1>10, <1>11, <1>12, <1>13, <2>1
  <2>2. CASE d # c
    <3>1. NextLineOf(d)' = NextLineOf(d)
      BY <1>1, <1>2, <1>3, <1>5, <2>2, HomeAssumption DEF NextLineOf
    <3>2. Sound(stream[d], log[d], short[d], NextLineOf(d))
      BY DEF RInv, StreamsInv
    <3>3. stream'[d] = stream[d] /\ short'[d] = short[d]
      BY <1>13, <2>2
    <3> QED
      BY <1>2, <3>1, <3>2, <3>3
  <2> QED
    BY <2>1, <2>2
<1> QED
  BY <1>14, <1>15, <1>16

\* The end of a reply.
LEMMA FinishStep ==
  ASSUME RInv, NEW w \in Workers, FinishReply(w)
  PROVE  RepliesTypeOK' /\ AnswersInv' /\ StreamsInv'
<1>1. /\ Replying(w) /\ rline[w] = 0
      /\ rmsg' = [rmsg EXCEPT ![w] = NoMsg]
      /\ borrowed' = [borrowed EXCEPT ![w] = Minus(@, Freed(rmsg[w]))]
      /\ UNCHANGED <<serving, log, wpc, rline, room, reset, stream, short>>
  BY DEF FinishReply, GivenBack, vars, threadVars, socketVars
<1>2. /\ rmsg \in [Workers -> Messages] /\ rline \in [Workers -> Nat]
      /\ borrowed \in [Workers -> [Kinds -> Nat]]
      /\ \A v \in Workers : borrowed[v] = Freed(rmsg[v])
  BY DEF RInv, RepliesTypeOK, AnswersInv
<1>3. \A v \in Workers : /\ rmsg[v].name \in {"", "PONG", "NODE", "ERROR"}
                         /\ rline[v] \in 0 .. LineCount(rmsg[v])
                         /\ rline[v] # 0 => Replying(v)
  BY DEF RInv, RepliesTypeOK
<1>4. NoMsg \in Messages /\ NoMsg.name = "" /\ NoMsg.params = <<>>
  BY MessageFacts DEF NoMsg
<1>5. LineCount(NoMsg) = 1
  <2>1. Len(NoMsg.params) = 0
    BY <1>4, EmptySeq
  <2> QED
    BY <2>1 DEF LineCount
<1>6. borrowed'[w] = Nothing /\ Freed(NoMsg) = Nothing /\ Nothing \in [Kinds -> Nat]
  <2>1. Freed(rmsg[w]) \in [Kinds -> Nat]
    BY <1>2, FreedAt
  <2>2. borrowed'[w] = Minus(Freed(rmsg[w]), Freed(rmsg[w]))
    BY <1>1, <1>2
  <2>3. Minus(Freed(rmsg[w]), Freed(rmsg[w])) = Nothing
    BY <2>1 DEF Minus, Nothing
  <2> QED
    BY <2>2, <2>3 DEF Freed, NoMsg, Nothing
<1>7. RepliesTypeOK'
  <2>1. rmsg' \in [Workers -> Messages] /\ borrowed' \in [Workers -> [Kinds -> Nat]]
    BY <1>1, <1>2, <1>4, <1>6
  <2>2. \A v \in Workers : /\ rmsg'[v].name \in {"", "PONG", "NODE", "ERROR"}
                           /\ rline'[v] \in 0 .. LineCount(rmsg'[v])
                           /\ rline'[v] # 0 => Replying(v)'
    <3> SUFFICES ASSUME NEW v \in Workers
                 PROVE  /\ rmsg'[v].name \in {"", "PONG", "NODE", "ERROR"}
                        /\ rline'[v] \in 0 .. LineCount(rmsg'[v])
                        /\ rline'[v] # 0 => Replying(v)'
      OBVIOUS
    <3>1. CASE v = w
      <4>1. rmsg'[v] = NoMsg /\ rline'[v] = 0
        BY <1>1, <1>2, <3>1
      <4>2. LineCount(rmsg'[v]) = 1
        BY <1>5, <4>1
      <4>3. rline'[v] \in 0 .. LineCount(rmsg'[v])
        BY <4>1, <4>2
      <4> QED
        BY <1>4, <4>1, <4>3
    <3>2. CASE v # w
      <4>1. rmsg'[v] = rmsg[v] /\ rline'[v] = rline[v]
        BY <1>1, <1>2, <3>2
      <4> QED
        BY <1>3, <4>1 DEF Replying
    <3> QED
      BY <3>1, <3>2
  <2> QED
    BY <1>1, <2>1, <2>2 DEF RInv, RepliesTypeOK
<1>8. AnswersInv'
  <2> SUFFICES ASSUME NEW v \in Workers
               PROVE  /\ borrowed'[v] = Freed(rmsg'[v])
                      /\ Replying(v)' =>
                           /\ rmsg'[v].stat = "done" /\ wpc'[v] # "dispatch"
                           /\ \A c \in serving'[v] :
                                Len(log'[c]) > 0 /\ LineCount(rmsg'[v]) = LastLines(log'[c])
    BY DEF AnswersInv
  <2>1. CASE v = w
    BY <1>1, <1>2, <1>6, <2>1 DEF Replying
  <2>2. CASE v # w
    <3>1. rmsg'[v] = rmsg[v] /\ borrowed'[v] = borrowed[v]
      BY <1>1, <1>2, <2>2
    <3> QED
      BY <1>1, <3>1 DEF RInv, AnswersInv, Replying
  <2> QED
    BY <2>1, <2>2
<1>9. StreamsInv'
  BY <1>1 DEF RInv, StreamsInv, NextLineOf
<1> QED
  BY <1>7, <1>8, <1>9

\* Everything else: what clients and their sockets do, and the events that workers wait for.
LEMMA OtherStep ==
  ASSUME RInv,
         \/ \E c \in Clients, l \in Lines : SendLine(c, l)
         \/ \E c \in Clients : Receive(c) \/ Reset(c)
         \/ \E w \in Workers, c \in Clients : ReadEvent(w, c) \/ ReleaseEvent(w, c)
         \/ UNCHANGED allVars
  PROVE  RepliesTypeOK' /\ AnswersInv' /\ StreamsInv'
<1>1. /\ UNCHANGED <<rmsg, rline, borrowed, stream, short, log>>
      /\ room' \in [Clients -> 0 .. Room] /\ reset' \in [Clients -> BOOLEAN]
  <2>1. room \in [Clients -> 0 .. Room] /\ reset \in [Clients -> BOOLEAN]
    BY DEF RInv, RepliesTypeOK
  <2>2. ASSUME NEW c \in Clients, Receive(c)
        PROVE  room' \in [Clients -> 0 .. Room] /\ reset' \in [Clients -> BOOLEAN]
    <3>1. PICK n \in (room[c] + 1) .. Room : room' = [room EXCEPT ![c] = n]
      BY <2>2 DEF Receive
    <3>2. n \in 0 .. Room /\ reset' = reset
      BY <2>1, <2>2, <3>1, RoomAssumption DEF Receive
    <3> QED
      BY <2>1, <3>1, <3>2
  <2> QED
    BY <2>1, <2>2 DEF SendLine, Send, Receive, Reset, ReadEvent, BeginRead, ReleaseEvent, Release,
                      replyVars, socketVars, allVars, vars
<1>2. RepliesTypeOK'
  BY <1>1 DEF RInv, RepliesTypeOK, Replying
\* A worker that begins a handler was in none, so that no reply is under way.
<1>3. \A v \in Workers :
        (wpc'[v] = wpc[v] /\ serving'[v] = serving[v]) \/ ~ Replying(v)
  <2>1. ASSUME NEW w \in Workers, NEW c \in Clients, BeginRead(w, c), NEW v \in Workers
        PROVE  (wpc'[v] = wpc[v] /\ serving'[v] = serving[v]) \/ ~ Replying(v)
    BY <2>1 DEF BeginRead, RInv, IInv, TypeOK, AnswersInv
  <2> QED
    BY <2>1 DEF SendLine, Send, Receive, Reset, ReadEvent, ReleaseEvent, Release, allVars, vars,
                threadVars
<1>4. AnswersInv'
  BY <1>1, <1>3 DEF RInv, AnswersInv, Replying
<1>5. StreamsInv'
  <2> SUFFICES ASSUME NEW c \in Clients
               PROVE  Sound(stream'[c], log'[c], short'[c], NextLineOf(c)')
    BY DEF StreamsInv
  <2>1. NextLineOf(c)' = NextLineOf(c)
    <3>1. home[c] \in Workers
      BY HomeAssumption
    <3>2. ~ Replying(home[c]) => rline[home[c]] = 0 /\ rline'[home[c]] = 0
      BY <1>1, <3>1 DEF RInv, RepliesTypeOK
    <3> QED
      BY <1>1, <1>3, <3>1, <3>2 DEF NextLineOf
  <2> QED
    BY <1>1, <2>1 DEF RInv, StreamsInv
<1> QED
  BY <1>2, <1>4, <1>5

\* Every step keeps the invariant.
LEMMA RepliesNextInv ==
  ASSUME RInv, [NextReplies]_allVars
  PROVE  RInv'
<1>1. IInv'
  BY SessionStep, NextInv DEF RInv
<1>2. ASSUME NEW w \in Workers, Work(w)
      PROVE  RepliesTypeOK' /\ AnswersInv' /\ StreamsInv'
  BY <1>1, <1>2, HandleStep, WriteStep, FinishStep DEF Work
<1>3. RepliesTypeOK' /\ AnswersInv' /\ StreamsInv'
  BY <1>2, OtherStep DEF NextReplies
<1> QED
  BY <1>1, <1>3 DEF RInv

-----------------------------------------------------------------------------
(* The theorems. *)

\* The inductive invariant: each reply is whole and answers the last request of the client
\* served, and each stream is that of the lines written so far (response.c:8-41).
THEOREM RepliesInvariant == SpecReplies => []RInv
<1>1. InitReplies => RInv
  BY RepliesInitInv
<1>2. RInv /\ [NextReplies]_allVars => RInv'
  BY RepliesNextInv
<1> QED
  BY <1>1, <1>2, PTL DEF SpecReplies

\* The types of the replies, the sockets and the streams; a reply's line is one of its lines.
THEOREM RepliesTypeCorrect == SpecReplies => []RepliesTypeOK
<1>1. RInv => RepliesTypeOK
  BY DEF RInv
<1> QED
  BY <1>1, RepliesInvariant, PTL

\* Whatever way a reply ends, all objects that it took are given back (response.c:60).
THEOREM RepliesReturnObjects == SpecReplies => []BorrowedReturned
<1>1. RInv => BorrowedReturned
  BY DEF RInv, AnswersInv, BorrowedReturned
<1> QED
  BY <1>1, RepliesInvariant, PTL

\* A client never gets a line of a reply without a part of the line before
\* (response.c:24-36).
THEOREM RepliesWithoutHoles == SpecReplies => []NoHoles
<1>1. RInv => NoHoles
  BY DEF RInv, StreamsInv, Sound, NoHoles
<1> QED
  BY <1>1, RepliesInvariant, PTL

\* A client whose socket took every write has the replies to all its requests, once each and
\* in order (response.c:15-40, response.c:43-97).
THEOREM RepliesWhole == SpecReplies => []RepliesArrive
<1>1. RInv => RepliesArrive
  <2> SUFFICES ASSUME RInv, NEW c \in Clients
               PROVE  /\ (~ short[c] /\ ~ \E w \in Workers : c \in serving[w]) =>
                           Range(stream[c]) = AllHalves(log[c])
                      /\ \A i, k \in DOMAIN stream[c] : i < k => Before(stream[c][i], stream[c][k])
    BY DEF RepliesArrive
  <2>1. Sound(stream[c], log[c], short[c], NextLineOf(c))
    BY DEF RInv, StreamsInv
  <2>2. (~ \E w \in Workers : c \in serving[w]) => NextLineOf(c) = 0
    BY HomeAssumption DEF NextLineOf
  <2> QED
    BY <2>1, <2>2 DEF Sound
<1> QED
  BY <1>1, RepliesInvariant, PTL
=============================================================================

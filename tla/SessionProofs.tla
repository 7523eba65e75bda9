--------------------------- MODULE SessionProofs ---------------------------
(***************************************************************************)
(* Proofs about module Session, for any numbers of clients and workers,    *)
(* any lines and any widths of the integers.                               *)
(***************************************************************************)
EXTENDS Session, FiniteSetTheorems, SequenceTheorems, TLAPS

\* Names for parts of actions; the proofs see through them.
USE DEF OneMore, Complete, LineReady, NextLine

-----------------------------------------------------------------------------
(* Counting in sequences. *)

At(s, R) == {i \in DOMAIN s : s[i] \in R}

LEMMA AtFinite ==
  ASSUME NEW T, NEW s \in Seq(T), NEW R
  PROVE  IsFiniteSet(At(s, R)) /\ Cardinality(At(s, R)) \in Nat
<1>1. IsFiniteSet(1 .. Len(s))
  BY FS_Interval
<1>2. At(s, R) \in SUBSET (1 .. Len(s))
  BY DEF At
<1> QED
  BY <1>1, <1>2, FS_Subset, FS_CardinalityType

\* How often an element of R occurs in a sequence grows by one when such an element is
\* appended, and not otherwise.
LEMMA Occurrences ==
  ASSUME NEW T, NEW s \in Seq(T), NEW x \in T, NEW R
  PROVE  Cardinality(At(Append(s, x), R)) =
           IF x \in R THEN Cardinality(At(s, R)) + 1 ELSE Cardinality(At(s, R))
<1> DEFINE t == Append(s, x)
           last == Len(s) + 1
<1>1. IsFiniteSet(At(s, R)) /\ Cardinality(At(s, R)) \in Nat
  BY AtFinite
<1>2. /\ DOMAIN t = 1 .. last
      /\ \A i \in 1 .. Len(s) : t[i] = s[i]
      /\ t[last] = x
  OBVIOUS
<1>3. last \notin At(s, R)
  BY DEF At
<1>4. CASE x \in R
  <2>1. At(t, R) = At(s, R) \cup {last}
    BY <1>2, <1>4 DEF At
  <2>2. Cardinality(At(t, R)) = Cardinality(At(s, R)) + 1
    BY <1>1, <1>3, <2>1, FS_AddElement
  <2> QED
    BY <1>1, <1>4, <2>2
<1>5. CASE x \notin R
  <2>1. At(t, R) = At(s, R)
    BY <1>2, <1>5 DEF At
  <2> QED
    BY <1>1, <1>5, <2>1
<1> QED
  BY <1>4, <1>5

\* What an entry adds to the counts of a log.
LEMMA LogGrows ==
  ASSUME NEW s \in Seq(Results), NEW r \in Results
  PROVE  /\ Errors(s) \in Nat /\ Failures(s) \in Nat
         /\ Errors(Append(s, r)) = IF r \in BadLine THEN Errors(s) + 1 ELSE Errors(s)
         /\ Failures(Append(s, r)) = IF r \in Failed THEN Failures(s) + 1 ELSE Failures(s)
<1>1. \A q : Errors(q) = Cardinality(At(q, BadLine)) /\ Failures(q) = Cardinality(At(q, Failed))
  BY DEF At, Errors, Failures
<1> QED
  BY <1>1, AtFinite, Occurrences

LEMMA LogEmpty == Errors(<<>>) = 0 /\ Failures(<<>>) = 0
<1>1. \A R : At(<<>>, R) = {}
  BY DEF At
<1> QED
  BY <1>1, FS_EmptySet DEF Errors, Failures, At

-----------------------------------------------------------------------------
(* Sums over clients. *)

Below(C, n) == UNION {{c} \X (1 .. n[c]) : c \in C}

LEMMA SumType ==
  ASSUME NEW C, IsFiniteSet(C), NEW n, \A c \in C : n[c] \in Nat
  PROVE  IsFiniteSet(Below(C, n)) /\ SumOver(C, n) \in Nat
<1> DEFINE F == [c \in C |-> {c} \X (1 .. n[c])]
           T == {F[c] : c \in C}
<1>1. IsFiniteSet(T)
  <2>1. F \in Surjection(C, T)
    <3>1. F \in [C -> T]
      OBVIOUS
    <3>2. \A X \in T : \E c \in C : F[c] = X
      OBVIOUS
    <3> QED
      BY <3>1, <3>2 DEF Surjection
  <2> QED
    BY <2>1, FS_Surjection
<1>2. \A X \in T : IsFiniteSet(X)
  <2>1. ASSUME NEW c \in C
        PROVE  IsFiniteSet({c} \X (1 .. n[c]))
    <3>1. IsFiniteSet({c})
      BY FS_Singleton
    <3>2. 1 \in Int /\ n[c] \in Int
      OBVIOUS
    <3>3. IsFiniteSet(1 .. n[c])
      BY <3>2, FS_Interval
    <3> QED
      BY <3>1, <3>3, FS_Product
  <2> QED
    BY <2>1
<1>3. Below(C, n) = UNION T
  BY DEF Below
<1>4. IsFiniteSet(Below(C, n))
  BY <1>1, <1>2, <1>3, FS_UNION
<1> QED
  BY <1>4, FS_CardinalityType DEF SumOver, Below

LEMMA SumZero ==
  ASSUME NEW C, NEW n, \A c \in C : n[c] = 0
  PROVE  SumOver(C, n) = 0
<1>1. Below(C, n) = {}
  BY DEF Below
<1> QED
  BY <1>1, FS_EmptySet DEF SumOver, Below

\* The sum depends on the clients of C only.
LEMMA SumSame ==
  ASSUME NEW C, NEW n, NEW m, \A c \in C : m[c] = n[c]
  PROVE  SumOver(C, m) = SumOver(C, n)
<1>1. Below(C, m) = Below(C, n)
  BY DEF Below
<1> QED
  BY <1>1 DEF SumOver, Below

\* One more at a client of C is one more in the sum.
LEMMA SumMore ==
  ASSUME NEW C, IsFiniteSet(C), NEW n, NEW m, NEW d \in C,
         \A c \in C : n[c] \in Nat,
         \A c \in C : m[c] = IF c = d THEN n[c] + 1 ELSE n[c]
  PROVE  SumOver(C, m) = SumOver(C, n) + 1
<1> DEFINE p == <<d, n[d] + 1>>
<1>1. p \notin Below(C, n)
  BY DEF Below
<1>2. Below(C, m) = Below(C, n) \cup {p}
  <2>1. ASSUME NEW q PROVE q \in Below(C, m) <=> \E c \in C : \E i \in 1 .. m[c] : q = <<c, i>>
    BY DEF Below
  <2>2. ASSUME NEW q PROVE q \in Below(C, n) <=> \E c \in C : \E i \in 1 .. n[c] : q = <<c, i>>
    BY DEF Below
  <2>3. ASSUME NEW c \in C, NEW i PROVE i \in 1 .. m[c] <=> i \in 1 .. n[c] \/ (c = d /\ i = n[d] + 1)
    OBVIOUS
  <2> QED
    BY <2>1, <2>2, <2>3
<1>3. IsFiniteSet(Below(C, n)) /\ SumOver(C, n) = Cardinality(Below(C, n))
  BY SumType DEF SumOver, Below
<1>4. Cardinality(Below(C, m)) = Cardinality(Below(C, n)) + 1
  BY <1>1, <1>2, <1>3, FS_AddElement
<1> QED
  BY <1>3, <1>4 DEF SumOver, Below

-----------------------------------------------------------------------------
(* Messages, and the objects they are made of. *)

\* No message, none of its lines there yet, or fewer parameters than announced.
Waits(m) == m = NoMsg \/ m = EmptyMsg \/ (m.stat = "more" /\ Len(m.params) < m.count)

LEMMA MessageFacts ==
  /\ NoMsg \in Messages /\ NoMsg.stat = "absent"
  /\ EmptyMsg \in Messages /\ EmptyMsg.stat = "none"
<1>1. <<>> \in Seq({"str", "kv"})
  OBVIOUS
<1>2. 0 \in 0 .. (ParamMod - 1)
  BY ModAssumption
<1> QED
  BY <1>1, <1>2 DEF NoMsg, EmptyMsg, Messages, Names

LEMMA CountType ==
  ASSUME NEW m \in Messages, NEW kind
  PROVE  Count(m, kind) \in Nat
<1>1. m.params \in Seq({"str", "kv"})
  BY DEF Messages
<1>2. {i \in DOMAIN m.params : m.params[i] = kind} = At(m.params, {kind})
  BY DEF At
<1> QED
  BY <1>1, <1>2, AtFinite DEF Count

\* What msg_clean and msg_free give back, kind by kind.
HasCmd(m) == IF m.stat \in {"more", "done"} THEN 1 ELSE 0

LEMMA CleanedAt ==
  ASSUME NEW m \in Messages
  PROVE  /\ Cleaned(m) \in [Kinds -> Nat]
         /\ Cleaned(m)["msg"] = 0
         /\ Cleaned(m)["cmd"] = HasCmd(m)
         /\ Cleaned(m)["str"] = HasCmd(m) + Count(m, "str") + 2 * Count(m, "kv")
         /\ Cleaned(m)["param"] = Len(m.params)
         /\ Cleaned(m)["kv"] = Count(m, "kv")
         /\ Cleaned(m)["line"] = HasCmd(m) + Len(m.params)
<1> DEFINE n == Count(m, "str")
           o == Count(m, "kv")
           p == Len(m.params)
<1>1. n \in Nat /\ o \in Nat /\ p \in Nat /\ HasCmd(m) \in Nat
  BY CountType DEF Messages, HasCmd
<1> HIDE DEF n, o, p
<1>2. Cleaned(m) =
        [k \in Kinds |-> IF k = "cmd" THEN HasCmd(m)
                         ELSE IF k = "str" THEN HasCmd(m) + n + 2 * o
                         ELSE IF k = "param" THEN p
                         ELSE IF k = "kv" THEN o
                         ELSE IF k = "line" THEN HasCmd(m) + p ELSE 0]
  BY DEF Cleaned, HasCmd, Nothing, Kinds, n, o, p
<1>3. \A k \in Kinds : Cleaned(m)[k] \in Nat
  BY <1>1, <1>2
<1>4. Cleaned(m) \in [Kinds -> Nat]
  BY <1>2, <1>3
<1>5. /\ Cleaned(m)["msg"] = 0 /\ Cleaned(m)["cmd"] = HasCmd(m)
      /\ Cleaned(m)["str"] = HasCmd(m) + n + 2 * o /\ Cleaned(m)["param"] = p
      /\ Cleaned(m)["kv"] = o /\ Cleaned(m)["line"] = HasCmd(m) + p
  BY <1>2 DEF Kinds
<1> QED
  BY <1>4, <1>5 DEF n, o, p

LEMMA FreedAt ==
  ASSUME NEW m \in Messages
  PROVE  /\ Freed(m) \in [Kinds -> Nat]
         /\ m.stat = "absent" => \A k \in Kinds : Freed(m)[k] = 0
         /\ m.stat # "absent" =>
              /\ Freed(m)["msg"] = 1
              /\ \A k \in Kinds \ {"msg"} : Freed(m)[k] = Cleaned(m)[k]
<1>1. CASE m.stat = "absent"
  BY <1>1 DEF Freed, Nothing
<1>2. CASE m.stat # "absent"
  <2>1. Cleaned(m) \in [Kinds -> Nat]
    BY CleanedAt
  <2>2. Freed(m) = [Cleaned(m) EXCEPT !["msg"] = 1]
    BY <1>2 DEF Freed
  <2> QED
    BY <1>2, <2>1, <2>2 DEF Kinds
<1> QED
  BY <1>1, <1>2

\* The empty message holds itself and nothing else.
LEMMA FreedEmpty ==
  /\ \A k \in Kinds : Freed(NoMsg)[k] = 0
  /\ Freed(EmptyMsg)["msg"] = 1
  /\ \A k \in Kinds \ {"msg"} : Freed(EmptyMsg)[k] = 0
<1>1. \A kind : Count(EmptyMsg, kind) = 0
  BY FS_EmptySet DEF Count, EmptyMsg
<1> QED
  <2>1. \A k \in Kinds : Freed(NoMsg)[k] = 0
    BY MessageFacts, FreedAt
  <2>2. EmptyMsg.params = <<>> /\ EmptyMsg.stat = "none"
    BY DEF EmptyMsg
  <2>4. HasCmd(EmptyMsg) = 0 /\ Len(EmptyMsg.params) = 0
    BY <2>2 DEF HasCmd
  <2>3. \A k \in Kinds : Cleaned(EmptyMsg)[k] = 0
    BY <1>1, <2>4, MessageFacts, CleanedAt DEF Kinds
  <2> QED
    BY <2>1, <2>2, <2>3, MessageFacts, FreedAt

\* A command line makes a message that is whole when it announces no parameter.
LEMMA CommandDecoded ==
  ASSUME NEW l, l.name \in Names, l.args \in Seq(Int), Len(l.args) <= 1
  PROVE  LET d == Decoded(EmptyMsg, l)
         IN  /\ d \in Messages
             /\ d.stat \in {"more", "done"}
             /\ d.stat = "more" => Len(d.params) < d.count
             /\ Freed(d) = Sum(Freed(EmptyMsg), Allocated(EmptyMsg, l))
<1> DEFINE d == Decoded(EmptyMsg, l)
<1>1. ParamCount(l) \in 0 .. (ParamMod - 1)
  <2>1. Announced(l) \in Nat
    BY ModAssumption DEF Announced
  <2> QED
    BY <2>1, ModAssumption DEF ParamCount
<1>2. d = [stat |-> IF ParamCount(l) > 0 THEN "more" ELSE "done",
           name |-> l.name, count |-> ParamCount(l), params |-> <<>>]
  BY MessageFacts DEF Decoded
<1>3. /\ d \in Messages /\ d.stat \in {"more", "done"}
      /\ d.params = <<>> /\ d.count = ParamCount(l)
  BY <1>1, <1>2 DEF Messages
<1>4. d.stat = "more" => Len(d.params) < d.count
  BY <1>1, <1>2
<1>5. \A kind : Count(d, kind) = 0
  BY <1>3, FS_EmptySet DEF Count
<1>6. Freed(d) = Sum(Freed(EmptyMsg), Allocated(EmptyMsg, l))
  <2>1. /\ Freed(d) \in [Kinds -> Nat]
        /\ Freed(d)["msg"] = 1 /\ Freed(d)["cmd"] = 1 /\ Freed(d)["str"] = 1
        /\ Freed(d)["param"] = 0 /\ Freed(d)["kv"] = 0 /\ Freed(d)["line"] = 1
    <3>1. d.stat # "absent"
      BY <1>3
    <3>2. \A k \in Kinds \ {"msg"} : Freed(d)[k] = Cleaned(d)[k]
      BY <1>3, <3>1, FreedAt
    <3>3. /\ Cleaned(d)["cmd"] = 1 /\ Cleaned(d)["str"] = 1 /\ Cleaned(d)["line"] = 1
          /\ Cleaned(d)["param"] = 0 /\ Cleaned(d)["kv"] = 0
      <4>1. HasCmd(d) = 1 /\ Len(d.params) = 0
        BY <1>2, <1>3 DEF HasCmd
      <4> QED
        BY <1>3, <1>5, <4>1, CleanedAt, SMTT(30)
    <3> QED
      BY <1>3, <3>1, <3>2, <3>3, FreedAt DEF Kinds
  <2>2. LET a == Allocated(EmptyMsg, l)
        IN  /\ a \in [Kinds -> Nat]
            /\ a["msg"] = 0 /\ a["cmd"] = 1 /\ a["str"] = 1
            /\ a["param"] = 0 /\ a["kv"] = 0 /\ a["line"] = 1
    BY MessageFacts DEF Allocated, Nothing, Kinds
  <2> QED
    BY <2>1, <2>2, FreedEmpty DEF Sum, Kinds
<1> QED
  BY <1>3, <1>4, <1>6

\* A parameter line adds one parameter.
LEMMA ParamDecoded ==
  ASSUME NEW m \in Messages, m.stat \in {"more", "done"}, NEW l, IsParam(l)
  PROVE  LET d == Decoded(m, l)
         IN  /\ d \in Messages
             /\ d.stat \in {"more", "done"}
             /\ d.stat = "more" => Len(d.params) < d.count
             /\ Freed(d) = Sum(Freed(m), Allocated(m, l))
<1> DEFINE d == Decoded(m, l)
<1>1. /\ m.params \in Seq({"str", "kv"}) /\ m.name \in Names /\ m.count \in 0 .. (ParamMod - 1)
      /\ m = [stat |-> m.stat, name |-> m.name, count |-> m.count, params |-> m.params]
  BY DEF Messages
<1>2. l.head \in {"str", "kv"}
  BY DEF IsParam
<1>3. d = [stat |-> IF Len(m.params) + 1 >= m.count THEN "done" ELSE "more",
           name |-> m.name, count |-> m.count, params |-> Append(m.params, l.head)]
  BY <1>1 DEF Decoded
<1>4. /\ d.params = Append(m.params, l.head) /\ d.count = m.count
      /\ d.stat \in {"more", "done"} /\ d \in Messages
  BY <1>1, <1>2, <1>3 DEF Messages
<1>5. d.stat = "more" => Len(d.params) < d.count
  BY <1>1, <1>2, <1>3
<1>6. \A kind : Count(d, kind) = IF l.head = kind THEN Count(m, kind) + 1 ELSE Count(m, kind)
  <2> SUFFICES ASSUME NEW kind
               PROVE  Count(d, kind) = IF l.head = kind THEN Count(m, kind) + 1
                                                        ELSE Count(m, kind)
    OBVIOUS
  <2>1. Count(d, kind) = Cardinality(At(d.params, {kind}))
        /\ Count(m, kind) = Cardinality(At(m.params, {kind}))
    BY DEF Count, At
  <2> QED
    BY <1>1, <1>2, <1>4, <2>1, Occurrences
<1>7. Freed(d) = Sum(Freed(m), Allocated(m, l))
  <2> DEFINE a == Allocated(m, l)
  <2>1. HasCmd(m) = 1 /\ HasCmd(d) = 1 /\ m.stat # "absent" /\ d.stat # "absent"
    BY <1>4 DEF HasCmd
  <2>2. Freed(m) \in [Kinds -> Nat] /\ Freed(d) \in [Kinds -> Nat]
    BY <1>4, FreedAt
  <2> HIDE DEF d, a
  <2>3. /\ Freed(m)["msg"] = 1 /\ Freed(m)["cmd"] = 1
        /\ Freed(m)["str"] = 1 + Count(m, "str") + 2 * Count(m, "kv")
        /\ Freed(m)["param"] = Len(m.params) /\ Freed(m)["kv"] = Count(m, "kv")
        /\ Freed(m)["line"] = 1 + Len(m.params)
    BY <2>1, FreedAt, CleanedAt DEF Kinds
  <2>4. /\ Freed(d)["msg"] = 1 /\ Freed(d)["cmd"] = 1
        /\ Freed(d)["str"] = 1 + Count(d, "str") + 2 * Count(d, "kv")
        /\ Freed(d)["param"] = Len(d.params) /\ Freed(d)["kv"] = Count(d, "kv")
        /\ Freed(d)["line"] = 1 + Len(d.params)
    <3>1. \A k \in Kinds \ {"msg"} : Freed(d)[k] = Cleaned(d)[k]
      BY <1>4, <2>1, FreedAt
    <3>2. /\ Cleaned(d)["cmd"] = 1
          /\ Cleaned(d)["str"] = 1 + Count(d, "str") + 2 * Count(d, "kv")
          /\ Cleaned(d)["param"] = Len(d.params) /\ Cleaned(d)["kv"] = Count(d, "kv")
          /\ Cleaned(d)["line"] = 1 + Len(d.params)
      BY <1>4, <2>1, CleanedAt
    <3> QED
      BY <1>4, <2>1, <3>1, <3>2, FreedAt DEF Kinds
  <2>5. /\ a["msg"] = 0 /\ a["cmd"] = 0 /\ a["param"] = 1 /\ a["line"] = 1
        /\ l.head = "str" => a["str"] = 1 /\ a["kv"] = 0
        /\ l.head = "kv" => a["str"] = 2 /\ a["kv"] = 1
    BY DEF Allocated, Nothing, Kinds, a
  <2>6. Count(m, "str") \in Nat /\ Count(m, "kv") \in Nat /\ Len(m.params) \in Nat
        /\ Len(d.params) = Len(m.params) + 1
    BY <1>1, <1>2, <1>4, CountType
  <2>7. /\ l.head = "str" => /\ Count(d, "str") = Count(m, "str") + 1
                             /\ Count(d, "kv") = Count(m, "kv")
        /\ l.head = "kv" => /\ Count(d, "str") = Count(m, "str")
                            /\ Count(d, "kv") = Count(m, "kv") + 1
    BY <1>6
  <2>8. Freed(d)["str"] = Freed(m)["str"] + a["str"]
    <3>1. CASE l.head = "str"
      <4>1. Freed(d)["str"] = 1 + (Count(m, "str") + 1) + 2 * Count(m, "kv")
        BY <3>1, <2>4, <2>7
      <4> QED
        BY <3>1, <4>1, <2>3, <2>5, <2>6
    <3>2. CASE l.head = "kv"
      <4>1. Freed(d)["str"] = 1 + Count(m, "str") + 2 * (Count(m, "kv") + 1)
        BY <3>2, <2>4, <2>7
      <4> QED
        BY <3>2, <4>1, <2>3, <2>5, <2>6
    <3> QED
      BY <1>2, <3>1, <3>2
  <2>9. Freed(d)["kv"] = Freed(m)["kv"] + a["kv"]
    BY <1>2, <2>3, <2>4, <2>5, <2>6, <2>7
  <2>10. \A k \in Kinds \ {"str", "kv"} : Freed(d)[k] = Freed(m)[k] + a[k]
    BY <2>3, <2>4, <2>5, <2>6 DEF Kinds
  <2>11. \A k \in Kinds : Freed(d)[k] = Freed(m)[k] + a[k]
    BY <2>8, <2>9, <2>10
  <2> QED
    BY <2>2, <2>11 DEF Sum, a, d
<1> QED
  BY <1>4, <1>5, <1>7

\* What is the same of both.
LEMMA LineDecoded ==
  ASSUME NEW m \in Messages, m # NoMsg, Waits(m), NEW l \in Lines, Decodes(m, l)
  PROVE  LET d == Decoded(m, l)
         IN  /\ d \in Messages
             /\ d.stat \in {"more", "done"}
             /\ d.stat = "more" => Waits(d)
             /\ Freed(d) = Sum(Freed(m), Allocated(m, l))
<1>1. CASE m = EmptyMsg
  <2>1. l.name \in Names /\ l.args \in Seq(Int) /\ Len(l.args) <= 1
    BY <1>1, MessageFacts, LinesAssumption DEF Decodes, IsCommand, Names
  <2> QED
    BY <1>1, <2>1, CommandDecoded DEF Waits
<1>2. CASE m.stat = "more"
  BY <1>2, ParamDecoded DEF Waits, Decodes
<1> QED
  BY <1>1, <1>2 DEF Waits

-----------------------------------------------------------------------------
(* The inductive invariant. *)

\* A worker in its handler serves one client, which is its own, is there and has a
\* message object; after a command that failed the message is whole.
ServingInv ==
  \A w \in Workers :
    /\ wpc[w] = "dispatch" => serving[w] = {}
    /\ wpc[w] # "dispatch" => \E c \in Clients : serving[w] = {c}
    /\ \A c \in serving[w] :
         /\ home[c] = w /\ open[c] /\ msg[c] # NoMsg
         /\ wpc[w] \in {"load", "store"} => msg[c].stat = "done"

\* A whole message is that of a client whose worker is at work on it, or was when the
\* process crashed.
AtWork(c) == c \in serving[home[c]] /\ (wpc[home[c]] \in {"load", "store"} \/ ~ alive)

MessagesInv ==
  \A c \in Clients :
    /\ Waits(msg[c]) \/ (msg[c].stat = "done" /\ AtWork(c))
    /\ ~ open[c] => msg[c] = NoMsg

\* What a worker loaded of the shared counter is within the bounds, too.
SharedInv ==
  /\ ServerOkBounds
  /\ \A w \in Workers :
       wpc[w] = "store" => sreg[w] <= AllFailures - Cardinality(Pending)

IInv == /\ TypeOK /\ ServingInv /\ MessagesInv /\ PoolBalance
        /\ CountersTell /\ SharedInv

LEMMA InitInv == Init => IInv
<1> SUFFICES ASSUME Init PROVE IInv
  OBVIOUS
<1>1. TypeOK
  <2>1. sent \in [Clients -> Seq(Lines)] /\ log \in [Clients -> Seq(Results)]
    BY DEF Init
  <2>2. msg \in [Clients -> Messages]
    BY MessageFacts DEF Init
  <2>3. held \in [Clients -> [Kinds -> Nat]]
    BY DEF Init, Nothing
  <2>4. alive \in BOOLEAN /\ open \in [Clients -> BOOLEAN]
    BY DEF Init
  <2>5. /\ moved \in [Clients -> Nat] /\ taken \in [Clients -> Nat]
        /\ \A c \in Clients : 2 * taken[c] <= moved[c] /\ moved[c] <= 2 * Len(sent[c])
    BY DEF Init
  <2>6. /\ c_all \in [Clients -> Nat] /\ c_ok \in [Clients -> Nat] /\ c_err \in [Clients -> Nat]
        /\ w_all \in [Workers -> Nat] /\ w_ok \in [Workers -> Nat] /\ w_err \in [Workers -> Nat]
    BY DEF Init
  <2>7. /\ s_ok \in Nat /\ sreg \in [Workers -> Nat] /\ serving \in [Workers -> SUBSET Clients]
        /\ wpc \in [Workers -> {"dispatch", "lines", "load", "store"}]
    BY DEF Init
  <2> QED
    BY <2>1, <2>2, <2>3, <2>4, <2>5, <2>6, <2>7 DEF TypeOK
<1>2. ServingInv
  BY DEF Init, ServingInv
<1>3. MessagesInv
  BY DEF Init, MessagesInv, Waits
<1>4. PoolBalance
  <2> SUFFICES ASSUME NEW c \in Clients
               PROVE  held[c] = Sum(Freed(msg[c]), [Nothing EXCEPT !["line"] = c_err[c]])
    BY DEF PoolBalance
  <2>1. held[c] = Nothing /\ msg[c] = NoMsg /\ c_err[c] = 0
    BY DEF Init
  <2>2. \A k \in Kinds : Freed(NoMsg)[k] = 0
    BY FreedEmpty
  <2> QED
    BY <2>1, <2>2 DEF Sum, Nothing
<1>5. CountersTell
  <2>1. \A C : C \subseteq Clients => SumOver(C, c_err) = 0 /\ SumOver(C, c_all) = 0
    <3> SUFFICES ASSUME NEW C, C \subseteq Clients
                 PROVE  SumOver(C, c_err) = 0 /\ SumOver(C, c_all) = 0
      OBVIOUS
    <3>1. \A c \in C : c_err[c] = 0 /\ c_all[c] = 0
      BY DEF Init
    <3> QED
      BY <3>1, SumZero
  <2>2. \A w \in Workers : ClientsOf(w) \subseteq Clients
    BY DEF ClientsOf
  <2>3. \A w \in Workers : w_all[w] = 0 /\ w_ok[w] = 0 /\ w_err[w] = 0
    BY DEF Init
  <2>4. \A c \in Clients : c_all[c] = 0 /\ c_ok[c] = 0 /\ c_err[c] = 0 /\ log[c] = <<>>
    BY DEF Init
  <2> QED
    BY <2>1, <2>2, <2>3, <2>4, LogEmpty DEF CountersTell
<1>6. SharedInv
  <2>1. AllFailures = 0
    <3>1. \A c \in Clients : [d \in Clients |-> Failures(log[d])][c] = 0
      BY LogEmpty DEF Init
    <3> QED
      BY <3>1, SumZero DEF AllFailures
  <2>2. Pending = {}
    BY DEF Init, Pending
  <2>3. Cardinality(Pending) = 0
    BY <2>2, FS_EmptySet
  <2> QED
    BY <2>1, <2>3 DEF SharedInv, ServerOkBounds, Init
<1> QED
  BY <1>1, <1>2, <1>3, <1>4, <1>5, <1>6 DEF IInv

-----------------------------------------------------------------------------
(* Sums of objects. *)

\* n line buffers.
LineBuffers(n) == [Nothing EXCEPT !["line"] = n]

LEMMA BuffersAt ==
  ASSUME NEW n \in Nat
  PROVE  /\ LineBuffers(n) \in [Kinds -> Nat]
         /\ LineBuffers(n)["line"] = n
         /\ \A k \in Kinds \ {"line"} : LineBuffers(n)[k] = 0
  BY DEF LineBuffers, Nothing, Kinds

LEMMA AllocatedType ==
  ASSUME NEW m, NEW l
  PROVE  Allocated(m, l) \in [Kinds -> Nat]
<1>1. [Nothing EXCEPT !["cmd"] = 1, !["str"] = 1, !["line"] = 1] \in [Kinds -> Nat]
  BY DEF Nothing
<1>2. [Nothing EXCEPT !["param"] = 1, !["str"] = 1, !["line"] = 1] \in [Kinds -> Nat]
  BY DEF Nothing
<1>3. [Nothing EXCEPT !["param"] = 1, !["str"] = 2, !["kv"] = 1, !["line"] = 1] \in [Kinds -> Nat]
  BY DEF Nothing
<1> QED
  BY <1>1, <1>2, <1>3 DEF Allocated

\* What msg_clean leaves is an empty message.
LEMMA CleanLeaves ==
  ASSUME NEW m \in Messages, m.stat # "absent", NEW n \in Nat
  PROVE  Minus(Sum(Freed(m), LineBuffers(n)), Cleaned(m)) = Sum(Freed(EmptyMsg), LineBuffers(n))
<1>1. \A k \in Kinds : Freed(m)[k] \in Nat /\ Cleaned(m)[k] \in Nat /\ LineBuffers(n)[k] \in Nat
  BY FreedAt, CleanedAt, BuffersAt
<1>2. \A k \in Kinds : Freed(m)[k] - Cleaned(m)[k] = Freed(EmptyMsg)[k]
  <2>1. Freed(m)["msg"] = 1 /\ Cleaned(m)["msg"] = 0 /\ Freed(EmptyMsg)["msg"] = 1
    BY FreedAt, CleanedAt, FreedEmpty
  <2>2. \A k \in Kinds \ {"msg"} : Freed(m)[k] = Cleaned(m)[k] /\ Freed(EmptyMsg)[k] = 0
    BY FreedAt, FreedEmpty
  <2> QED
    BY <1>1, <2>1, <2>2
<1>3. \A k \in Kinds : (Freed(m)[k] + LineBuffers(n)[k]) - Cleaned(m)[k] =
                          Freed(EmptyMsg)[k] + LineBuffers(n)[k]
  BY <1>1, <1>2
<1> QED
  BY <1>3 DEF Minus, Sum

\* What msg_free leaves is no message.
LEMMA FreeLeaves ==
  ASSUME NEW m \in Messages, NEW n \in Nat
  PROVE  Minus(Sum(Freed(m), LineBuffers(n)), Freed(m)) = Sum(Freed(NoMsg), LineBuffers(n))
<1>1. \A k \in Kinds : Freed(m)[k] \in Nat /\ LineBuffers(n)[k] \in Nat
  BY FreedAt, BuffersAt
<1>2. \A k \in Kinds : (Freed(m)[k] + LineBuffers(n)[k]) - Freed(m)[k] =
                          Freed(NoMsg)[k] + LineBuffers(n)[k]
  BY <1>1, FreedEmpty
<1> QED
  BY <1>2 DEF Minus, Sum

\* msg_init takes a message object.
LEMMA InitTakes ==
  ASSUME NEW n \in Nat
  PROVE  Sum(Sum(Freed(NoMsg), LineBuffers(n)), [Nothing EXCEPT !["msg"] = 1]) =
           Sum(Freed(EmptyMsg), LineBuffers(n))
<1> DEFINE a == [Nothing EXCEPT !["msg"] = 1]
<1>1. a["msg"] = 1 /\ \A k \in Kinds \ {"msg"} : a[k] = 0
  BY DEF Nothing, Kinds
<1> HIDE DEF a
<1>2. \A k \in Kinds : LineBuffers(n)[k] \in Nat
  BY BuffersAt
<1>3. \A k \in Kinds : (Freed(NoMsg)[k] + LineBuffers(n)[k]) + a[k] =
                          Freed(EmptyMsg)[k] + LineBuffers(n)[k]
  BY <1>1, <1>2, FreedEmpty
<1>4. Sum(Sum(Freed(NoMsg), LineBuffers(n)), a) = Sum(Freed(EmptyMsg), LineBuffers(n))
  BY <1>3 DEF Sum
<1> QED
  BY <1>4 DEF a

\* One line buffer more.
LEMMA LineLeaks ==
  ASSUME NEW f \in [Kinds -> Nat], NEW n \in Nat
  PROVE  Sum(Sum(f, LineBuffers(n)), LineBuffers(1)) = Sum(f, LineBuffers(n + 1))
<1>1. \A k \in Kinds : f[k] \in Nat
  OBVIOUS
<1>2. \A k \in Kinds : /\ LineBuffers(n)[k] \in Nat
                       /\ LineBuffers(n + 1)[k] = LineBuffers(n)[k] + LineBuffers(1)[k]
                       /\ LineBuffers(1)[k] \in Nat
  BY BuffersAt, SMTT(30)
<1>3. \A k \in Kinds : (f[k] + LineBuffers(n)[k]) + LineBuffers(1)[k] =
                          f[k] + LineBuffers(n + 1)[k]
  BY <1>1, <1>2
<1> QED
  BY <1>3 DEF Sum

LEMMA SumsCommute ==
  ASSUME NEW f \in [Kinds -> Nat], NEW g \in [Kinds -> Nat], NEW h \in [Kinds -> Nat]
  PROVE  Sum(Sum(f, g), h) = Sum(Sum(f, h), g)
<1>1. \A k \in Kinds : f[k] \in Nat /\ g[k] \in Nat /\ h[k] \in Nat
  OBVIOUS
<1>2. \A k \in Kinds : (f[k] + g[k]) + h[k] = (f[k] + h[k]) + g[k]
  BY <1>1
<1> QED
  BY <1>2 DEF Sum

LEMMA ObjectsType ==
  ASSUME NEW f \in [Kinds -> Nat], NEW g \in [Kinds -> Nat]
  PROVE  Sum(f, g) \in [Kinds -> Nat]
<1>1. \A k \in Kinds : f[k] + g[k] \in Nat
  OBVIOUS
<1> QED
  BY <1>1 DEF Sum

-----------------------------------------------------------------------------
(* What a worker has in its hands. *)

LEMMA AtLines ==
  ASSUME TypeOK, ServingInv, MessagesInv, alive,
         NEW w \in Workers, NEW c \in Clients, c \in serving[w], wpc[w] = "lines"
  PROVE  /\ home[c] = w /\ serving[w] = {c} /\ open[c]
         /\ msg[c] \in Messages /\ msg[c] # NoMsg /\ msg[c].stat # "absent" /\ Waits(msg[c])
<1>1. home[c] = w /\ serving[w] = {c} /\ open[c] /\ msg[c] # NoMsg
  BY DEF ServingInv
<1>2. Waits(msg[c])
  BY <1>1 DEF MessagesInv, AtWork
<1>3. msg[c] \in Messages
  BY DEF TypeOK
<1>4. msg[c].stat # "absent"
  BY <1>1, <1>2, MessageFacts DEF Waits
<1> QED
  BY <1>1, <1>2, <1>3, <1>4

LEMMA AtStore ==
  ASSUME TypeOK, ServingInv,
         NEW w \in Workers, NEW c \in Clients, c \in serving[w], wpc[w] = "store"
  PROVE  /\ home[c] = w /\ serving[w] = {c} /\ open[c]
         /\ msg[c] \in Messages /\ msg[c].stat = "done"
<1>1. msg[c] \in Messages
  BY DEF TypeOK
<1> QED
  BY <1>1 DEF ServingInv

\* The line that is read next is one that was sent, and it has come.
LEMMA NextLineSent ==
  ASSUME TypeOK, NEW c \in Clients, LineReady(c)
  PROVE  NextLine(c) \in Lines /\ 2 * (taken[c] + 1) <= moved[c]
<1>1. /\ sent[c] \in Seq(Lines) /\ moved[c] \in Nat /\ taken[c] \in Nat
      /\ moved[c] <= 2 * Len(sent[c])
  BY DEF TypeOK
<1>2. 2 * (taken[c] + 1) <= moved[c]
  BY <1>1
<1>3. taken[c] + 1 \in 1 .. Len(sent[c])
  BY <1>1, <1>2
<1> QED
  BY <1>1, <1>2, <1>3

LEMMA LineTaken ==
  ASSUME TypeOK, ServingInv, MessagesInv, alive,
         NEW w \in Workers, NEW c \in Clients, c \in serving[w], wpc[w] = "lines",
         LineReady(c), Decodes(msg[c], NextLine(c))
  PROVE  LET d == Decoded(msg[c], NextLine(c))
         IN  /\ d \in Messages
             /\ d.stat \in {"more", "done"}
             /\ d.stat = "more" => Waits(d)
             /\ Freed(d) = Sum(Freed(msg[c]), Allocated(msg[c], NextLine(c)))
<1>1. msg[c] \in Messages /\ msg[c] # NoMsg /\ Waits(msg[c])
  BY AtLines
<1>2. NextLine(c) \in Lines
  BY NextLineSent
<1> HIDE DEF NextLine
<1> QED
  BY <1>1, <1>2, LineDecoded

\* The kinds of steps.
Step(w, c) == \/ BeginRead(w, c) \/ Release(w, c) \/ RejectLine(w, c) \/ TakeLine(w, c)
              \/ CompleteLine(w, c) \/ StoreServerOk(w, c) \/ EndRead(w, c)

LEMMA NextSteps ==
  ASSUME [Next]_vars
  PROVE  \/ UNCHANGED vars
         \/ \E c \in Clients, l \in Lines : Send(c, l)
         \/ \E w \in Workers : LoadServerOk(w)
         \/ \E w \in Workers, c \in Clients : Step(w, c)
  BY DEF Next, Handler, Step

-----------------------------------------------------------------------------
(* The steps keep the balance of objects. *)

\* Objects held for client c as message m and rejected lines account for.
Balance(m, n) == Sum(Freed(m), LineBuffers(n))

LEMMA BalanceType ==
  ASSUME NEW m \in Messages, NEW n \in Nat
  PROVE  Balance(m, n) \in [Kinds -> Nat]
  BY FreedAt, BuffersAt, ObjectsType DEF Balance

\* It is enough to look at the client of the step.
LEMMA BalanceOf ==
  ASSUME TypeOK, PoolBalance, NEW c \in Clients, NEW m \in Messages, NEW n \in Nat,
         msg' = [msg EXCEPT ![c] = m], held' = [held EXCEPT ![c] = Balance(m, n)],
         c_err' = [c_err EXCEPT ![c] = n]
  PROVE  /\ msg' \in [Clients -> Messages]
         /\ held' \in [Clients -> [Kinds -> Nat]]
         /\ c_err' \in [Clients -> Nat]
         /\ PoolBalance'
<1>1. /\ msg \in [Clients -> Messages] /\ held \in [Clients -> [Kinds -> Nat]]
      /\ c_err \in [Clients -> Nat]
  BY DEF TypeOK
<1>2. Balance(m, n) \in [Kinds -> Nat]
  BY BalanceType
<1>3. \A d \in Clients : held'[d] = Balance(msg'[d], c_err'[d])
  <2> SUFFICES ASSUME NEW d \in Clients
               PROVE  held'[d] = Balance(msg'[d], c_err'[d])
    OBVIOUS
  <2>1. CASE d = c
    BY <1>1, <2>1
  <2>2. CASE d # c
    <3>1. held'[d] = held[d] /\ msg'[d] = msg[d] /\ c_err'[d] = c_err[d]
      BY <1>1, <2>2
    <3>2. held[d] = Balance(msg[d], c_err[d])
      BY DEF PoolBalance, Balance, LineBuffers
    <3> QED
      BY <3>1, <3>2
  <2> QED
    BY <2>1, <2>2
<1>4. PoolBalance'
  BY <1>3 DEF PoolBalance, Balance, LineBuffers
<1> QED
  BY <1>1, <1>2, <1>4

LEMMA BalanceStep ==
  ASSUME TypeOK, ServingInv, MessagesInv, PoolBalance, [Next]_vars
  PROVE  /\ msg' \in [Clients -> Messages]
         /\ held' \in [Clients -> [Kinds -> Nat]]
         /\ c_err' \in [Clients -> Nat]
         /\ PoolBalance'
<1> DEFINE Kept == /\ msg' \in [Clients -> Messages]
                   /\ held' \in [Clients -> [Kinds -> Nat]]
                   /\ c_err' \in [Clients -> Nat]
                   /\ PoolBalance'
<1>1. /\ msg \in [Clients -> Messages] /\ held \in [Clients -> [Kinds -> Nat]]
      /\ c_err \in [Clients -> Nat]
  BY DEF TypeOK
<1>2. \A c \in Clients : held[c] = Balance(msg[c], c_err[c])
  BY DEF PoolBalance, Balance, LineBuffers
<1>3. ASSUME UNCHANGED <<msg, held, c_err>>
      PROVE  Kept
  BY <1>1, <1>3 DEF PoolBalance
<1>4. ASSUME NEW w \in Workers, NEW c \in Clients, BeginRead(w, c)
      PROVE  Kept
  <2>1. CASE msg[c] = NoMsg
    <3>1. msg' = [msg EXCEPT ![c] = EmptyMsg] /\ UNCHANGED c_err
          /\ held' = [held EXCEPT ![c] = Sum(@, [Nothing EXCEPT !["msg"] = 1])]
      BY <1>1, <1>4, <2>1 DEF BeginRead, countVars
    <3>2. Sum(held[c], [Nothing EXCEPT !["msg"] = 1]) = Balance(EmptyMsg, c_err[c])
      BY <1>1, <1>2, <2>1, InitTakes DEF Balance
    <3>3. held' = [held EXCEPT ![c] = Balance(EmptyMsg, c_err[c])]
          /\ c_err' = [c_err EXCEPT ![c] = c_err[c]]
      BY <1>1, <3>1, <3>2
    <3> QED
      BY <1>1, <3>1, <3>3, MessageFacts, BalanceOf
  <2>2. CASE msg[c] # NoMsg
    <3>1. msg' = msg /\ held' = held /\ c_err' = c_err
      BY <1>1, <1>4, <2>2 DEF BeginRead, countVars
    <3> QED
      BY <1>3, <3>1
  <2> QED
    BY <2>1, <2>2
<1>5. ASSUME NEW w \in Workers, NEW c \in Clients, Release(w, c)
      PROVE  Kept
  <2>1. msg' = [msg EXCEPT ![c] = NoMsg] /\ UNCHANGED c_err
        /\ held' = [held EXCEPT ![c] = Minus(@, Freed(msg[c]))]
    BY <1>5 DEF Release, countVars
  <2>2. Minus(held[c], Freed(msg[c])) = Balance(NoMsg, c_err[c])
    BY <1>1, <1>2, FreeLeaves DEF Balance
  <2>3. held' = [held EXCEPT ![c] = Balance(NoMsg, c_err[c])]
        /\ c_err' = [c_err EXCEPT ![c] = c_err[c]]
    BY <1>1, <2>1, <2>2
  <2> QED
    BY <1>1, <2>1, <2>3, MessageFacts, BalanceOf
<1>6. ASSUME NEW w \in Workers, NEW c \in Clients, RejectLine(w, c)
      PROVE  Kept
  <2>1. msg[c] \in Messages /\ msg[c].stat # "absent" /\ c_err[c] \in Nat
    BY <1>1, <1>6, AtLines DEF RejectLine
  <2>2. /\ msg' = [msg EXCEPT ![c] = EmptyMsg]
        /\ held' = [held EXCEPT ![c] = Minus(Sum(held[c], LineBuffers(1)), Cleaned(msg[c]))]
        /\ c_err' = [c_err EXCEPT ![c] = c_err[c] + 1]
    BY <1>6 DEF RejectLine, Clean, ClientReqErr, LineBuffers
  <2>3. Sum(held[c], LineBuffers(1)) = Sum(Freed(msg[c]), LineBuffers(c_err[c] + 1))
    BY <1>2, <2>1, FreedAt, LineLeaks DEF Balance
  <2>4. Minus(Sum(held[c], LineBuffers(1)), Cleaned(msg[c])) = Balance(EmptyMsg, c_err[c] + 1)
    BY <2>1, <2>3, CleanLeaves DEF Balance
  <2>5. c_err[c] + 1 \in Nat
    BY <2>1
  <2> QED
    BY <2>2, <2>4, <2>5, MessageFacts, BalanceOf
<1>7. ASSUME NEW w \in Workers, NEW c \in Clients, alive, wpc[w] = "lines", c \in serving[w],
             LineReady(c), Decodes(msg[c], NextLine(c))
      PROVE  LET d == Decoded(msg[c], NextLine(c))
             IN  Sum(held[c], Allocated(msg[c], NextLine(c))) = Balance(d, c_err[c])
  <2>1. /\ Freed(msg[c]) \in [Kinds -> Nat] /\ LineBuffers(c_err[c]) \in [Kinds -> Nat]
        /\ Allocated(msg[c], NextLine(c)) \in [Kinds -> Nat]
    BY <1>1, FreedAt, BuffersAt, AllocatedType
  <2>2. Freed(Decoded(msg[c], NextLine(c))) = Sum(Freed(msg[c]), Allocated(msg[c], NextLine(c)))
    BY <1>7, LineTaken
  <2> QED
    BY <1>2, <2>1, <2>2, SumsCommute DEF Balance
<1>8. ASSUME NEW w \in Workers, NEW c \in Clients, TakeLine(w, c)
      PROVE  Kept
  <2> DEFINE d == Decoded(msg[c], NextLine(c))
  <2>1. alive /\ wpc[w] = "lines" /\ c \in serving[w] /\ LineReady(c)
        /\ Decodes(msg[c], NextLine(c))
    BY <1>8 DEF TakeLine
  <2>2. /\ msg' = [msg EXCEPT ![c] = d]
        /\ held' = [held EXCEPT ![c] = Sum(held[c], Allocated(msg[c], NextLine(c)))]
        /\ UNCHANGED c_err
    BY <1>8 DEF TakeLine, countVars
  <2>3. d \in Messages
    BY <2>1, LineTaken
  <2>4. held' = [held EXCEPT ![c] = Balance(d, c_err[c])]
        /\ c_err' = [c_err EXCEPT ![c] = c_err[c]]
    BY <1>1, <1>7, <2>1, <2>2
  <2> HIDE DEF d
  <2> QED
    BY <1>1, <2>2, <2>3, <2>4, BalanceOf
<1>9. ASSUME NEW w \in Workers, NEW c \in Clients, CompleteLine(w, c)
      PROVE  Kept
  <2> DEFINE d == Decoded(msg[c], NextLine(c))
             grown == Sum(held[c], Allocated(msg[c], NextLine(c)))
  <2>1. alive /\ wpc[w] = "lines" /\ c \in serving[w] /\ LineReady(c)
        /\ Decodes(msg[c], NextLine(c))
    BY <1>9 DEF CompleteLine
  <2>2. d \in Messages /\ d.stat # "absent"
    BY <2>1, LineTaken
  <2>3. grown = Balance(d, c_err[c])
    BY <1>7, <2>1
  <2>4. c_err' = [c_err EXCEPT ![c] = c_err[c]]
    BY <1>1, <1>9 DEF CompleteLine, ClientReqOk
  <2>5. \/ msg' = [msg EXCEPT ![c] = d] /\ held' = [held EXCEPT ![c] = grown]
        \/ /\ msg' = [msg EXCEPT ![c] = EmptyMsg]
           /\ held' = [held EXCEPT ![c] = Minus(grown, Cleaned(d))]
    BY <1>9 DEF CompleteLine, Clean
  <2>6. Minus(Balance(d, c_err[c]), Cleaned(d)) = Balance(EmptyMsg, c_err[c])
    BY <1>1, <2>2, CleanLeaves DEF Balance
  <2> HIDE DEF d, grown
  <2> QED
    BY <1>1, <2>2, <2>3, <2>4, <2>5, <2>6, MessageFacts, BalanceOf
<1>10. ASSUME NEW w \in Workers, NEW c \in Clients, StoreServerOk(w, c)
       PROVE  Kept
  <2>1. msg[c] \in Messages /\ msg[c].stat # "absent" /\ c_err[c] \in Nat
    BY <1>1, <1>10, AtStore DEF StoreServerOk
  <2>2. /\ msg' = [msg EXCEPT ![c] = EmptyMsg]
        /\ held' = [held EXCEPT ![c] = Minus(held[c], Cleaned(msg[c]))]
        /\ c_err' = [c_err EXCEPT ![c] = c_err[c]]
    BY <1>1, <1>10 DEF StoreServerOk, Clean, countVars
  <2>3. Minus(held[c], Cleaned(msg[c])) = Balance(EmptyMsg, c_err[c])
    BY <1>2, <2>1, CleanLeaves DEF Balance
  <2> QED
    BY <2>1, <2>2, <2>3, MessageFacts, BalanceOf
<1>11. ASSUME NEW w \in Workers, NEW c \in Clients, EndRead(w, c)
       PROVE  Kept
  BY <1>3, <1>11 DEF EndRead, countVars
<1>12. ASSUME NEW w \in Workers, LoadServerOk(w)
       PROVE  Kept
  BY <1>3, <1>12 DEF LoadServerOk, countVars
<1>13. ASSUME NEW c \in Clients, NEW l \in Lines, Send(c, l)
       PROVE  Kept
  BY <1>3, <1>13 DEF Send, countVars
<1>14. CASE UNCHANGED vars
  BY <1>3, <1>14 DEF vars, countVars
<1> QED
  BY <1>4, <1>5, <1>6, <1>8, <1>9, <1>10, <1>11, <1>12, <1>13, <1>14, NextSteps DEF Step

-----------------------------------------------------------------------------
(* The steps keep the types. *)

\* What a request comes to is one of the results.
LEMMA OutcomeKinds ==
  ASSUME NEW m
  PROVE  /\ Outcome(m) \in Results \ BadLine
         /\ Outcome(m) \in Failed <=> ~ Succeeded(Outcome(m))
  BY DEF Outcome, Succeeded, Results, Failed, BadLine

\* What the steps do to the lines and to the log.
LEMMA LinesStep ==
  ASSUME TypeOK, [Next]_vars
  PROVE  /\ sent' \in [Clients -> Seq(Lines)]
         /\ moved' \in [Clients -> Nat] /\ taken' \in [Clients -> Nat]
         /\ \A c \in Clients : 2 * taken'[c] <= moved'[c] /\ moved'[c] <= 2 * Len(sent'[c])
<1> DEFINE Kept == /\ sent' \in [Clients -> Seq(Lines)]
                   /\ moved' \in [Clients -> Nat] /\ taken' \in [Clients -> Nat]
                   /\ \A c \in Clients : /\ 2 * taken'[c] <= moved'[c]
                                         /\ moved'[c] <= 2 * Len(sent'[c])
<1>1. /\ sent \in [Clients -> Seq(Lines)] /\ moved \in [Clients -> Nat]
      /\ taken \in [Clients -> Nat]
      /\ \A c \in Clients : 2 * taken[c] <= moved[c] /\ moved[c] <= 2 * Len(sent[c])
      /\ \A c \in Clients : sent[c] \in Seq(Lines) /\ Len(sent[c]) \in Nat
                            /\ moved[c] \in Nat /\ taken[c] \in Nat
  BY DEF TypeOK
<1>2. ASSUME NEW c \in Clients, NEW l \in Lines, Send(c, l)
      PROVE  Kept
  <2>1. sent' = [sent EXCEPT ![c] = Append(@, l)] /\ moved' = moved /\ taken' = taken
    BY <1>2 DEF Send
  <2>2. Append(sent[c], l) \in Seq(Lines) /\ Len(Append(sent[c], l)) = Len(sent[c]) + 1
    BY <1>1, AppendProperties
  <2>3. sent' \in [Clients -> Seq(Lines)]
    BY <1>1, <2>1, <2>2
  <2>4. \A d \in Clients : Len(sent'[d]) >= Len(sent[d])
    BY <1>1, <2>1, <2>2
  <2>5. \A d \in Clients : moved'[d] <= 2 * Len(sent'[d])
    <3> SUFFICES ASSUME NEW d \in Clients
                 PROVE  moved[d] <= 2 * Len(sent'[d])
      BY <2>1
    <3>1. Len(sent'[d]) \in Nat /\ Len(sent'[d]) >= Len(sent[d])
      BY <2>3, <2>4
    <3> QED
      BY <1>1, <3>1
  <2> QED
    BY <1>1, <2>1, <2>3, <2>5
<1>3. ASSUME NEW w \in Workers, NEW c \in Clients, BeginRead(w, c)
      PROVE  Kept
  <2>1. PICK n \in (moved[c] + 1) .. (2 * Len(sent[c])) : moved' = [moved EXCEPT ![c] = n]
    BY <1>3 DEF BeginRead
  <2>2. sent' = sent /\ taken' = taken
    BY <1>3 DEF BeginRead
  <2>3. n \in Nat /\ n > moved[c] /\ n <= 2 * Len(sent[c])
    BY <1>1
  <2> QED
    BY <1>1, <2>1, <2>2, <2>3
<1>4. ASSUME NEW c \in Clients, LineReady(c),
             taken' = [taken EXCEPT ![c] = @ + 1], sent' = sent, moved' = moved
      PROVE  Kept
  <2>1. 2 * (taken[c] + 1) <= moved[c]
    BY <1>4, NextLineSent
  <2> QED
    BY <1>1, <1>4, <2>1
<1>5. ASSUME UNCHANGED bufferVars
      PROVE  Kept
  BY <1>1, <1>5 DEF bufferVars
<1>6. ASSUME NEW w \in Workers, NEW c \in Clients, Step(w, c)
      PROVE  Kept
  <2>1. CASE RejectLine(w, c)
    BY <1>4, <2>1 DEF RejectLine
  <2>2. CASE TakeLine(w, c)
    BY <1>4, <2>2 DEF TakeLine
  <2>3. CASE CompleteLine(w, c)
    BY <1>4, <2>3 DEF CompleteLine
  <2>4. CASE Release(w, c) \/ StoreServerOk(w, c) \/ EndRead(w, c)
    BY <1>5, <2>4 DEF Release, StoreServerOk, EndRead
  <2> QED
    BY <1>3, <1>6, <2>1, <2>2, <2>3, <2>4 DEF Step
<1>7. ASSUME NEW w \in Workers, LoadServerOk(w)
      PROVE  Kept
  BY <1>5, <1>7 DEF LoadServerOk
<1>8. CASE UNCHANGED vars
  BY <1>5, <1>8 DEF vars, bufferVars
<1> QED
  BY <1>2, <1>6, <1>7, <1>8, NextSteps

LEMMA ThreadsStep ==
  ASSUME TypeOK, [Next]_vars
  PROVE  /\ alive' \in BOOLEAN /\ open' \in [Clients -> BOOLEAN] /\ s_ok' \in Nat
         /\ wpc' \in [Workers -> {"dispatch", "lines", "load", "store"}]
         /\ serving' \in [Workers -> SUBSET Clients] /\ sreg' \in [Workers -> Nat]
<1> DEFINE Kept == /\ alive' \in BOOLEAN /\ open' \in [Clients -> BOOLEAN] /\ s_ok' \in Nat
                   /\ wpc' \in [Workers -> {"dispatch", "lines", "load", "store"}]
                   /\ serving' \in [Workers -> SUBSET Clients] /\ sreg' \in [Workers -> Nat]
<1>1. /\ alive \in BOOLEAN /\ open \in [Clients -> BOOLEAN] /\ s_ok \in Nat
      /\ wpc \in [Workers -> {"dispatch", "lines", "load", "store"}]
      /\ serving \in [Workers -> SUBSET Clients] /\ sreg \in [Workers -> Nat]
  BY DEF TypeOK
<1>2. ASSUME UNCHANGED <<alive, open, s_ok, threadVars>>
      PROVE  Kept
  BY <1>1, <1>2 DEF threadVars
<1>3. ASSUME NEW w \in Workers, NEW c \in Clients, Step(w, c)
      PROVE  Kept
  <2>1. CASE BeginRead(w, c)
    BY <1>1, <2>1 DEF BeginRead
  <2>2. CASE Release(w, c)
    BY <1>1, <2>2 DEF Release, threadVars
  <2>3. CASE RejectLine(w, c)
    BY <1>2, <2>3 DEF RejectLine
  <2>4. CASE TakeLine(w, c)
    BY <1>2, <2>4 DEF TakeLine
  <2>5. CASE CompleteLine(w, c)
    <3>1. /\ open' = open /\ s_ok' = s_ok /\ serving' = serving /\ sreg' = sreg
          /\ alive' \in {alive, FALSE} /\ (wpc' = wpc \/ wpc' = [wpc EXCEPT ![w] = "load"])
      BY <2>5 DEF CompleteLine
    <3> QED
      BY <1>1, <3>1
  <2>6. CASE StoreServerOk(w, c)
    BY <1>1, <2>6 DEF StoreServerOk
  <2>7. CASE EndRead(w, c)
    BY <1>1, <2>7 DEF EndRead
  <2> QED
    BY <1>3, <2>1, <2>2, <2>3, <2>4, <2>5, <2>6, <2>7 DEF Step
<1>4. ASSUME NEW w \in Workers, LoadServerOk(w)
      PROVE  Kept
  BY <1>1, <1>4 DEF LoadServerOk
<1>5. ASSUME NEW c \in Clients, NEW l \in Lines, Send(c, l)
      PROVE  Kept
  BY <1>2, <1>5 DEF Send
<1>6. CASE UNCHANGED vars
  BY <1>2, <1>6 DEF vars, threadVars
<1> QED
  BY <1>3, <1>4, <1>5, <1>6, NextSteps

\* What a step adds to the counters and to the log.
Rejected(c) ==
  /\ w_all' = [w_all EXCEPT ![home[c]] = @ + 1]
  /\ w_err' = [w_err EXCEPT ![home[c]] = @ + 1]
  /\ c_all' = [c_all EXCEPT ![c] = @ + 1]
  /\ c_err' = [c_err EXCEPT ![c] = @ + 1]
  /\ \E r \in BadLine : log' = [log EXCEPT ![c] = Append(@, r)]
  /\ UNCHANGED <<w_ok, c_ok, alive, wpc, s_ok, sreg>>

Executed(c) ==
  /\ w_all' = [w_all EXCEPT ![home[c]] = @ + 1]
  /\ w_ok' = [w_ok EXCEPT ![home[c]] = @ + 1]
  /\ c_all' = [c_all EXCEPT ![c] = @ + 1]
  /\ UNCHANGED <<w_err, c_err, s_ok, sreg>>
  /\ \/ alive' = FALSE /\ UNCHANGED <<log, wpc>> /\ c_ok' = [c_ok EXCEPT ![c] = @ + 1]
     \/ /\ UNCHANGED <<alive, wpc>>
        /\ c_ok' = [c_ok EXCEPT ![c] = @ + 1]
        /\ \E r \in Results \ (BadLine \cup Failed) : log' = [log EXCEPT ![c] = Append(@, r)]
     \/ /\ UNCHANGED alive
        /\ wpc[home[c]] = "lines" /\ wpc' = [wpc EXCEPT ![home[c]] = "load"]
        /\ c_ok' = [c_ok EXCEPT ![c] = @ + 2]
        /\ \E r \in Failed : log' = [log EXCEPT ![c] = Append(@, r)]

LEMMA CountingSteps ==
  ASSUME TypeOK, ServingInv, MessagesInv, NEW w \in Workers, NEW c \in Clients, Step(w, c)
  PROVE  \/ UNCHANGED <<countVars, log>> /\ ~ CompleteLine(w, c) /\ ~ RejectLine(w, c)
         \/ Rejected(c) /\ home[c] = w
         \/ Executed(c) /\ home[c] = w
<1>1. CASE RejectLine(w, c)
  <2>1. home[c] = w
    BY <1>1, AtLines DEF RejectLine
  <2> QED
    BY <1>1, <2>1 DEF RejectLine, WorkerReqErr, ClientReqErr, Rejected, BadLine, threadVars
<1>2. CASE CompleteLine(w, c)
  <2> DEFINE m == Decoded(msg[c], NextLine(c))
  <2>1. home[c] = w /\ wpc[w] = "lines"
    BY <1>2, AtLines DEF CompleteLine
  <2>2. Outcome(m) \in Results \ BadLine /\ (Outcome(m) \in Failed <=> ~ Succeeded(Outcome(m)))
    BY OutcomeKinds
  <2>3. /\ w_all' = [w_all EXCEPT ![home[c]] = @ + 1]
        /\ w_ok' = [w_ok EXCEPT ![home[c]] = @ + 1]
        /\ c_all' = [c_all EXCEPT ![c] = @ + 1]
        /\ UNCHANGED <<w_err, c_err, s_ok, sreg>>
        /\ c_ok' = [c_ok EXCEPT ![c] =
                      @ + (IF ~ Crashes(m) /\ ~ Succeeded(Outcome(m)) THEN 2 ELSE 1)]
    BY <1>2, <2>1 DEF CompleteLine, WorkerReqOk, ClientReqOk
  <2>4. \/ Crashes(m) /\ alive' = FALSE /\ UNCHANGED <<wpc, log>>
        \/ /\ ~ Crashes(m) /\ Succeeded(Outcome(m)) /\ UNCHANGED <<alive, wpc>>
           /\ log' = [log EXCEPT ![c] = Append(@, Outcome(m))]
        \/ /\ ~ Crashes(m) /\ ~ Succeeded(Outcome(m)) /\ UNCHANGED alive
           /\ log' = [log EXCEPT ![c] = Append(@, Outcome(m))]
           /\ wpc' = [wpc EXCEPT ![w] = "load"]
    BY <1>2 DEF CompleteLine
  <2> HIDE DEF m
  <2>5. CASE Crashes(m)
    BY <2>1, <2>3, <2>4, <2>5 DEF Executed
  <2>6. CASE ~ Crashes(m) /\ Succeeded(Outcome(m))
    BY <2>1, <2>2, <2>3, <2>4, <2>6 DEF Executed
  <2>7. CASE ~ Crashes(m) /\ ~ Succeeded(Outcome(m))
    BY <2>1, <2>2, <2>3, <2>4, <2>7 DEF Executed
  <2> QED
    BY <2>1, <2>5, <2>6, <2>7
<1>3. CASE ~ RejectLine(w, c) /\ ~ CompleteLine(w, c)
  BY <1>3 DEF Step, BeginRead, Release, TakeLine, StoreServerOk, EndRead
<1> QED
  BY <1>1, <1>2, <1>3

-----------------------------------------------------------------------------
(* The steps keep what workers and messages have to do with each other. *)

\* A step of worker w for client c is about its own client, and leaves other workers and
\* other clients alone.
LEMMA StepFrame ==
  ASSUME TypeOK, ServingInv, NEW w \in Workers, NEW c \in Clients, Step(w, c)
  PROVE  /\ alive /\ home[c] = w
         /\ \A v \in Workers \ {w} : wpc'[v] = wpc[v] /\ serving'[v] = serving[v]
         /\ \A d \in Clients \ {c} : msg'[d] = msg[d] /\ open'[d] = open[d]
         /\ \A d \in Clients \ {c} : d \notin serving[w]
<1>1. /\ wpc \in [Workers -> {"dispatch", "lines", "load", "store"}]
      /\ serving \in [Workers -> SUBSET Clients]
      /\ msg \in [Clients -> Messages] /\ open \in [Clients -> BOOLEAN]
  BY DEF TypeOK
<1>2. alive /\ home[c] = w
  BY DEF Step, BeginRead, Release, RejectLine, TakeLine, CompleteLine, StoreServerOk,
         EndRead, ServingInv
<1>3. \A v \in Workers \ {w} : wpc'[v] = wpc[v] /\ serving'[v] = serving[v]
  BY <1>1 DEF Step, BeginRead, Release, RejectLine, TakeLine, CompleteLine,
              StoreServerOk, EndRead, threadVars
<1>4. \A d \in Clients \ {c} : msg'[d] = msg[d] /\ open'[d] = open[d]
  <2>1. CASE BeginRead(w, c) \/ Release(w, c) \/ EndRead(w, c)
    BY <1>1, <2>1 DEF BeginRead, Release, EndRead
  <2>2. CASE RejectLine(w, c) \/ TakeLine(w, c) \/ StoreServerOk(w, c)
    BY <1>1, <2>2 DEF RejectLine, TakeLine, StoreServerOk, Clean
  <2>3. CASE CompleteLine(w, c)
    BY <1>1, <2>3 DEF CompleteLine, Clean
  <2> QED
    BY <2>1, <2>2, <2>3 DEF Step
<1>5. \A d \in Clients \ {c} : d \notin serving[w]
  <2>1. wpc[w] = "dispatch" \/ c \in serving[w]
    BY DEF Step, BeginRead, Release, RejectLine, TakeLine, CompleteLine, StoreServerOk, EndRead
  <2> QED
    BY <2>1 DEF ServingInv
<1> QED
  BY <1>2, <1>3, <1>4, <1>5

\* The step as worker w and client c see it.
StepOf(w, c) ==
  \/ \* BeginRead
     /\ wpc[w] = "dispatch" /\ wpc'[w] = "lines" /\ serving'[w] = {c}
     /\ open[c] /\ open'[c] /\ msg'[c] = (IF msg[c] = NoMsg THEN EmptyMsg ELSE msg[c])
  \/ \* Release
     /\ wpc[w] = "dispatch" /\ wpc'[w] = "dispatch" /\ serving'[w] = serving[w]
     /\ ~ open'[c] /\ msg'[c] = NoMsg
  \/ \* A line that does not make a request that fails or crashes.
     /\ wpc[w] = "lines" /\ wpc'[w] = "lines" /\ serving'[w] = serving[w] /\ c \in serving[w]
     /\ open'[c] = open[c]
     /\ msg'[c] = EmptyMsg \/ (msg'[c].stat = "more" /\ Waits(msg'[c]))
  \/ \* A request that crashes or fails.
     /\ wpc[w] = "lines" /\ serving'[w] = serving[w] /\ c \in serving[w] /\ open'[c] = open[c]
     /\ msg'[c].stat = "done"
     /\ wpc'[w] = "load" \/ (wpc'[w] = "lines" /\ alive' = FALSE)
  \/ \* StoreServerOk
     /\ wpc[w] = "store" /\ wpc'[w] = "lines" /\ serving'[w] = serving[w] /\ c \in serving[w]
     /\ open'[c] = open[c] /\ msg'[c] = EmptyMsg
  \/ \* EndRead
     /\ wpc[w] = "lines" /\ wpc'[w] = "dispatch" /\ serving'[w] = {} /\ c \in serving[w]
     /\ open'[c] = open[c] /\ msg'[c] = msg[c]

LEMMA StepKinds ==
  ASSUME TypeOK, ServingInv, MessagesInv, NEW w \in Workers, NEW c \in Clients, Step(w, c)
  PROVE  StepOf(w, c) /\ (alive' = FALSE \/ alive' = alive)
<1>1. /\ wpc \in [Workers -> {"dispatch", "lines", "load", "store"}]
      /\ serving \in [Workers -> SUBSET Clients]
      /\ msg \in [Clients -> Messages] /\ open \in [Clients -> BOOLEAN]
  BY DEF TypeOK
<1>2. CASE BeginRead(w, c)
  BY <1>1, <1>2 DEF BeginRead, StepOf
<1>3. CASE Release(w, c)
  BY <1>1, <1>3 DEF Release, threadVars, StepOf
<1>4. CASE RejectLine(w, c)
  BY <1>1, <1>4 DEF RejectLine, Clean, threadVars, StepOf
<1>5. CASE TakeLine(w, c)
  <2>1. Waits(Decoded(msg[c], NextLine(c)))
    BY <1>5, LineTaken DEF TakeLine
  <2>2. /\ wpc[w] = "lines" /\ c \in serving[w] /\ UNCHANGED <<wpc, serving, open, alive>>
        /\ msg' = [msg EXCEPT ![c] = Decoded(@, NextLine(c))]
        /\ Decoded(msg[c], NextLine(c)).stat = "more"
    BY <1>5 DEF TakeLine, threadVars
  <2> HIDE DEF NextLine
  <2> QED
    BY <1>1, <2>1, <2>2 DEF StepOf
<1>6. CASE CompleteLine(w, c)
  <2> DEFINE m == Decoded(msg[c], NextLine(c))
  <2>1. wpc[w] = "lines" /\ c \in serving[w] /\ UNCHANGED <<serving, open>> /\ m.stat = "done"
    BY <1>6 DEF CompleteLine
  <2>2. \/ alive' = FALSE /\ msg' = [msg EXCEPT ![c] = m] /\ UNCHANGED wpc
        \/ msg' = [msg EXCEPT ![c] = EmptyMsg] /\ UNCHANGED <<alive, wpc>>
        \/ /\ msg' = [msg EXCEPT ![c] = m] /\ UNCHANGED alive
           /\ wpc' = [wpc EXCEPT ![w] = "load"]
    BY <1>6 DEF CompleteLine, Clean
  <2> HIDE DEF m
  <2> QED
    BY <1>1, <2>1, <2>2 DEF StepOf
<1>7. CASE StoreServerOk(w, c)
  BY <1>1, <1>7 DEF StoreServerOk, Clean, StepOf
<1>8. CASE EndRead(w, c)
  BY <1>1, <1>8 DEF EndRead, StepOf
<1> QED
  BY <1>2, <1>3, <1>4, <1>5, <1>6, <1>7, <1>8 DEF Step

LEMMA ServingStep ==
  ASSUME TypeOK, ServingInv, MessagesInv, [Next]_vars
  PROVE  ServingInv'
<1>1. ASSUME UNCHANGED <<wpc, serving, open, msg>>
      PROVE  ServingInv'
  BY <1>1 DEF ServingInv
<1>2. ASSUME NEW w \in Workers, NEW c \in Clients, Step(w, c)
      PROVE  ServingInv'
  <2> SUFFICES ASSUME NEW v \in Workers
               PROVE  /\ wpc'[v] = "dispatch" => serving'[v] = {}
                      /\ wpc'[v] # "dispatch" => \E d \in Clients : serving'[v] = {d}
                      /\ \A d \in serving'[v] :
                           /\ home[d] = v /\ open'[d] /\ msg'[d] # NoMsg
                           /\ wpc'[v] \in {"load", "store"} => msg'[d].stat = "done"
    BY DEF ServingInv
  <2>1. CASE v # w
    <3>1. wpc'[v] = wpc[v] /\ serving'[v] = serving[v]
      BY <1>2, <2>1, StepFrame
    <3>2. c \notin serving[v]
      BY <1>2, <2>1, StepFrame DEF ServingInv
    <3>3. \A d \in serving[v] : msg'[d] = msg[d] /\ open'[d] = open[d]
      <4>1. serving[v] \subseteq Clients
        BY DEF TypeOK
      <4> QED
        BY <1>2, <3>2, <4>1, StepFrame
    <3> QED
      BY <3>1, <3>3 DEF ServingInv
  <2>2. CASE v = w
    <3>1. StepOf(w, c) /\ home[c] = w
      BY <1>2, StepKinds, StepFrame
    <3>2. c \in serving[w] => serving[w] = {c} /\ open[c] /\ msg[c] # NoMsg
      BY DEF ServingInv
    <3>3. wpc[w] = "dispatch" => serving[w] = {}
      BY DEF ServingInv
    <3>4. NoMsg # EmptyMsg /\ \A m : m.stat \in {"more", "done"} => m # NoMsg
      BY MessageFacts
    <3> QED
      BY <2>2, <3>1, <3>2, <3>3, <3>4 DEF StepOf
  <2> QED
    BY <2>1, <2>2
<1>3. ASSUME NEW w \in Workers, LoadServerOk(w)
      PROVE  ServingInv'
  <2>1. /\ wpc[w] = "load" /\ wpc' = [wpc EXCEPT ![w] = "store"]
        /\ UNCHANGED <<serving, open, msg>>
    BY <1>3 DEF LoadServerOk
  <2>2. wpc \in [Workers -> {"dispatch", "lines", "load", "store"}]
    BY DEF TypeOK
  <2> QED
    BY <2>1, <2>2 DEF ServingInv
<1>4. ASSUME NEW c \in Clients, NEW l \in Lines, Send(c, l)
      PROVE  ServingInv'
  BY <1>1, <1>4 DEF Send, threadVars
<1>5. CASE UNCHANGED vars
  BY <1>1, <1>5 DEF vars, threadVars
<1> QED
  BY <1>2, <1>3, <1>4, <1>5, NextSteps

LEMMA MessagesStep ==
  ASSUME TypeOK, ServingInv, MessagesInv, [Next]_vars
  PROVE  MessagesInv'
<1>1. ASSUME UNCHANGED <<alive, wpc, serving, open, msg>>
      PROVE  MessagesInv'
  BY <1>1 DEF MessagesInv, AtWork
<1>2. ASSUME NEW w \in Workers, NEW c \in Clients, Step(w, c)
      PROVE  MessagesInv'
  <2> SUFFICES ASSUME NEW d \in Clients
               PROVE  /\ Waits(msg'[d]) \/ (msg'[d].stat = "done" /\ AtWork(d)')
                      /\ ~ open'[d] => msg'[d] = NoMsg
    BY DEF MessagesInv
  <2>1. StepOf(w, c) /\ (alive' = FALSE \/ alive' = alive) /\ alive /\ home[c] = w
    BY <1>2, StepKinds, StepFrame
  <2>2. CASE d = c
    <3>1. (c \notin serving[w] \/ wpc[w] \in {"dispatch", "lines"}) => Waits(msg[c])
      BY <2>1 DEF MessagesInv, AtWork
    <3>2. c \in serving[w] => open[c]
      BY DEF ServingInv
    <3>3. Waits(NoMsg) /\ Waits(EmptyMsg)
      BY DEF Waits
    <3> QED
      BY <2>1, <2>2, <3>1, <3>2, <3>3 DEF StepOf, AtWork
  <2>3. CASE d # c
    <3>1. msg'[d] = msg[d] /\ open'[d] = open[d]
      BY <1>2, <2>3, StepFrame
    <3>2. AtWork(d) => AtWork(d)'
      <4>1. d \in serving[home[d]] => home[d] # w
        BY <1>2, <2>3, StepFrame
      <4>2. home[d] # w => wpc'[home[d]] = wpc[home[d]] /\ serving'[home[d]] = serving[home[d]]
        BY <1>2, StepFrame, HomeAssumption
      <4> QED
        BY <2>1, <4>1, <4>2 DEF AtWork
    <3> QED
      BY <3>1, <3>2 DEF MessagesInv
  <2> QED
    BY <2>2, <2>3
<1>3. ASSUME NEW w \in Workers, LoadServerOk(w)
      PROVE  MessagesInv'
  <2>1. /\ wpc[w] = "load" /\ wpc' = [wpc EXCEPT ![w] = "store"]
        /\ UNCHANGED <<serving, open, msg, alive>>
    BY <1>3 DEF LoadServerOk
  <2>2. wpc \in [Workers -> {"dispatch", "lines", "load", "store"}]
    BY DEF TypeOK
  <2>3. \A d \in Clients : AtWork(d) => AtWork(d)'
    BY <2>1, <2>2, HomeAssumption DEF AtWork
  <2> QED
    BY <2>1, <2>3 DEF MessagesInv
<1>4. ASSUME NEW c \in Clients, NEW l \in Lines, Send(c, l)
      PROVE  MessagesInv'
  BY <1>1, <1>4 DEF Send, threadVars
<1>5. CASE UNCHANGED vars
  BY <1>1, <1>5 DEF vars, threadVars
<1> QED
  BY <1>2, <1>3, <1>4, <1>5, NextSteps

-----------------------------------------------------------------------------
(* The steps keep the counters. *)

LEMMA ClientsFinite == \A w \in Workers : IsFiniteSet(ClientsOf(w))
<1> SUFFICES ASSUME NEW w \in Workers PROVE IsFiniteSet(ClientsOf(w))
  OBVIOUS
<1>1. ClientsOf(w) \in SUBSET Clients
  BY DEF ClientsOf
<1> QED
  BY <1>1, FiniteAssumption, FS_Subset

\* One more at a client is one more in the sum of its worker.
LEMMA WorkerSums ==
  ASSUME NEW c \in Clients, NEW n \in [Clients -> Nat], NEW m \in [Clients -> Nat],
         \A d \in Clients : m[d] = IF d = c THEN n[d] + 1 ELSE n[d]
  PROVE  \A v \in Workers :
           SumOver(ClientsOf(v), m) =
             IF v = home[c] THEN SumOver(ClientsOf(v), n) + 1 ELSE SumOver(ClientsOf(v), n)
<1> SUFFICES ASSUME NEW v \in Workers
             PROVE  SumOver(ClientsOf(v), m) =
                      IF v = home[c] THEN SumOver(ClientsOf(v), n) + 1
                                     ELSE SumOver(ClientsOf(v), n)
  OBVIOUS
<1>1. \A d \in ClientsOf(v) : n[d] \in Nat /\ m[d] = IF d = c THEN n[d] + 1 ELSE n[d]
  BY DEF ClientsOf
<1>2. CASE v = home[c]
  <2>1. c \in ClientsOf(v)
    BY <1>2 DEF ClientsOf
  <2>2. SumOver(ClientsOf(v), m) = SumOver(ClientsOf(v), n) + 1
    BY <1>1, <2>1, ClientsFinite, SumMore
  <2> QED
    BY <1>2, <2>2
<1>3. CASE v # home[c]
  <2>1. c \notin ClientsOf(v)
    BY <1>3 DEF ClientsOf
  <2>2. \A d \in ClientsOf(v) : m[d] = n[d]
    BY <1>1, <2>1
  <2> QED
    BY <1>3, <2>2, SumSame
<1> QED
  BY <1>2, <1>3

LEMMA CountersStep ==
  ASSUME TypeOK, ServingInv, MessagesInv, CountersTell, [Next]_vars
  PROVE  /\ c_all' \in [Clients -> Nat] /\ c_ok' \in [Clients -> Nat]
         /\ w_all' \in [Workers -> Nat] /\ w_ok' \in [Workers -> Nat]
         /\ w_err' \in [Workers -> Nat] /\ log' \in [Clients -> Seq(Results)]
         /\ CountersTell'
<1> DEFINE Typed == /\ c_all' \in [Clients -> Nat] /\ c_ok' \in [Clients -> Nat]
                    /\ w_all' \in [Workers -> Nat] /\ w_ok' \in [Workers -> Nat]
                    /\ w_err' \in [Workers -> Nat] /\ log' \in [Clients -> Seq(Results)]
           Kept == Typed /\ CountersTell'
           Tell(v) == /\ w_all[v] = w_ok[v] + w_err[v]
                      /\ w_err[v] = SumOver(ClientsOf(v), c_err)
                      /\ w_all[v] = SumOver(ClientsOf(v), c_all)
           TellOf(c) == /\ c_all[c] = Len(log[c])
                        /\ c_ok[c] = Len(log[c]) - Errors(log[c]) + Failures(log[c])
<1>1. /\ c_all \in [Clients -> Nat] /\ c_ok \in [Clients -> Nat] /\ c_err \in [Clients -> Nat]
      /\ w_all \in [Workers -> Nat] /\ w_ok \in [Workers -> Nat] /\ w_err \in [Workers -> Nat]
      /\ log \in [Clients -> Seq(Results)]
  BY DEF TypeOK
<1>2. \A v \in Workers : Tell(v)
  BY DEF CountersTell
<1>3. /\ \A c \in Clients : c_err[c] = Errors(log[c])
      /\ alive => \A c \in Clients : TellOf(c)
  BY DEF CountersTell
<1>4. Kept <=> /\ Typed
               /\ \A v \in Workers : Tell(v)'
               /\ \A c \in Clients : c_err'[c] = Errors(log'[c])
               /\ alive' => \A c \in Clients : TellOf(c)'
  BY DEF CountersTell
<1>5. ASSUME UNCHANGED <<countVars, log>>, alive' => alive
      PROVE  Kept
  BY <1>1, <1>2, <1>3, <1>4, <1>5 DEF countVars
<1> HIDE DEF Kept
<1>6. ASSUME NEW c \in Clients, alive, Rejected(c)
      PROVE  Kept
  <2>1. PICK r \in BadLine : log' = [log EXCEPT ![c] = Append(@, r)]
    BY <1>6 DEF Rejected
  <2>2. r \in Results /\ r \notin Failed
    BY DEF BadLine, Results, Failed
  <2>3. /\ log[c] \in Seq(Results) /\ Append(log[c], r) \in Seq(Results)
        /\ Len(Append(log[c], r)) = Len(log[c]) + 1 /\ Len(log[c]) \in Nat
    BY <1>1, <2>2, AppendProperties
  <2>4. /\ Errors(log[c]) \in Nat /\ Failures(log[c]) \in Nat
        /\ Errors(Append(log[c], r)) = Errors(log[c]) + 1
        /\ Failures(Append(log[c], r)) = Failures(log[c])
    BY <2>2, <2>3, LogGrows
  <2>5. home[c] \in Workers
    BY HomeAssumption
  <2>6. Typed
    <3>1. log' \in [Clients -> Seq(Results)]
      BY <1>1, <2>1, <2>3
    <3>2. c_all' \in [Clients -> Nat] /\ c_ok' \in [Clients -> Nat]
      BY <1>1, <1>6 DEF Rejected
    <3>3. /\ w_all' \in [Workers -> Nat] /\ w_ok' \in [Workers -> Nat]
          /\ w_err' \in [Workers -> Nat]
      <4>1. /\ w_all' = [w_all EXCEPT ![home[c]] = @ + 1] /\ w_ok' = w_ok
            /\ w_err' = [w_err EXCEPT ![home[c]] = @ + 1]
        BY <1>6 DEF Rejected
      <4> QED
        BY <1>1, <2>5, <4>1
    <3> QED
      BY <3>1, <3>2, <3>3
  <2>7. \A v \in Workers : Tell(v)'
    <3>1. \A v \in Workers :
            /\ SumOver(ClientsOf(v), c_all') = IF v = home[c] THEN SumOver(ClientsOf(v), c_all) + 1
                                                              ELSE SumOver(ClientsOf(v), c_all)
            /\ SumOver(ClientsOf(v), c_err') = IF v = home[c] THEN SumOver(ClientsOf(v), c_err) + 1
                                                              ELSE SumOver(ClientsOf(v), c_err)
      <4>1. /\ c_all' \in [Clients -> Nat]
            /\ \A d \in Clients : c_all'[d] = IF d = c THEN c_all[d] + 1 ELSE c_all[d]
        BY <1>1, <1>6 DEF Rejected
      <4>2. /\ c_err' \in [Clients -> Nat]
            /\ \A d \in Clients : c_err'[d] = IF d = c THEN c_err[d] + 1 ELSE c_err[d]
        BY <1>1, <1>6 DEF Rejected
      <4>3. \A v \in Workers :
              SumOver(ClientsOf(v), c_all') = IF v = home[c] THEN SumOver(ClientsOf(v), c_all) + 1
                                                             ELSE SumOver(ClientsOf(v), c_all)
        BY <1>1, <4>1, WorkerSums
      <4>4. \A v \in Workers :
              SumOver(ClientsOf(v), c_err') = IF v = home[c] THEN SumOver(ClientsOf(v), c_err) + 1
                                                             ELSE SumOver(ClientsOf(v), c_err)
        BY <1>1, <4>2, WorkerSums
      <4> QED
        BY <4>3, <4>4
    <3>2. \A v \in Workers :
            /\ w_all'[v] = IF v = home[c] THEN w_all[v] + 1 ELSE w_all[v]
            /\ w_err'[v] = IF v = home[c] THEN w_err[v] + 1 ELSE w_err[v]
            /\ w_ok'[v] = w_ok[v] /\ w_ok[v] \in Nat /\ w_all[v] \in Nat /\ w_err[v] \in Nat
      BY <1>1, <1>6 DEF Rejected
    <3> QED
      BY <1>2, <3>1, <3>2 DEF ClientsOf
  <2>8. \A d \in Clients : c_err'[d] = Errors(log'[d]) /\ TellOf(d)'
    <3> SUFFICES ASSUME NEW d \in Clients
                 PROVE  c_err'[d] = Errors(log'[d]) /\ TellOf(d)'
      OBVIOUS
    <3>1. CASE d = c
      <4>1. c_all'[c] = c_all[c] + 1 /\ c_err'[c] = c_err[c] + 1 /\ c_ok'[c] = c_ok[c]
            /\ log'[c] = Append(log[c], r)
        BY <1>1, <1>6, <2>1 DEF Rejected
      <4> QED
        BY <1>1, <1>3, <1>6, <2>3, <2>4, <3>1, <4>1
    <3>2. CASE d # c
      <4>1. c_all'[d] = c_all[d] /\ c_err'[d] = c_err[d] /\ c_ok'[d] = c_ok[d]
            /\ log'[d] = log[d]
        BY <1>1, <1>6, <2>1, <3>2 DEF Rejected
      <4> QED
        BY <1>3, <1>6, <4>1
    <3> QED
      BY <3>1, <3>2
  <2> QED
    BY <1>4, <2>6, <2>7, <2>8
<1>7. ASSUME NEW c \in Clients, alive, Executed(c)
      PROVE  Kept
  <2>1. home[c] \in Workers
    BY HomeAssumption
  <2>2. \A v \in Workers : Tell(v)'
    <3>1. \A v \in Workers :
            SumOver(ClientsOf(v), c_all') = IF v = home[c] THEN SumOver(ClientsOf(v), c_all) + 1
                                                           ELSE SumOver(ClientsOf(v), c_all)
      <4>1. /\ c_all' \in [Clients -> Nat]
            /\ \A d \in Clients : c_all'[d] = IF d = c THEN c_all[d] + 1 ELSE c_all[d]
        BY <1>1, <1>7 DEF Executed
      <4> QED
        BY <1>1, <4>1, WorkerSums
    <3>2. \A v \in Workers :
            /\ w_all'[v] = IF v = home[c] THEN w_all[v] + 1 ELSE w_all[v]
            /\ w_ok'[v] = IF v = home[c] THEN w_ok[v] + 1 ELSE w_ok[v]
            /\ w_err'[v] = w_err[v] /\ w_ok[v] \in Nat /\ w_all[v] \in Nat /\ w_err[v] \in Nat
      BY <1>1, <1>7 DEF Executed
    <3>3. c_err' = c_err
      BY <1>7 DEF Executed
    <3> QED
      BY <1>2, <3>1, <3>2, <3>3 DEF ClientsOf
  <2>3. w_all' \in [Workers -> Nat] /\ w_ok' \in [Workers -> Nat] /\ w_err' \in [Workers -> Nat]
        /\ c_all' \in [Clients -> Nat] /\ c_err' = c_err
    <3>1. /\ w_all' = [w_all EXCEPT ![home[c]] = @ + 1]
          /\ w_ok' = [w_ok EXCEPT ![home[c]] = @ + 1]
          /\ c_all' = [c_all EXCEPT ![c] = @ + 1]
          /\ w_err' = w_err /\ c_err' = c_err
      BY <1>7 DEF Executed
    <3>2. w_all' \in [Workers -> Nat]
      BY <1>1, <2>1, <3>1
    <3>3. w_ok' \in [Workers -> Nat]
      BY <1>1, <2>1, <3>1
    <3>4. c_all' \in [Clients -> Nat]
      BY <1>1, <3>1
    <3> QED
      BY <1>1, <3>1, <3>2, <3>3, <3>4
  <2>4. CASE alive' = FALSE /\ UNCHANGED log /\ c_ok' = [c_ok EXCEPT ![c] = @ + 1]
    <3>1. c_ok' \in [Clients -> Nat] /\ log' \in [Clients -> Seq(Results)]
      BY <1>1, <2>4
    <3>2. \A d \in Clients : c_err'[d] = Errors(log'[d])
      BY <1>3, <2>3, <2>4
    <3> QED
      BY <1>4, <2>2, <2>3, <2>4, <3>1, <3>2
  <2>5. ASSUME NEW r \in Results \ BadLine, NEW k \in {1, 2}, r \in Failed <=> k = 2,
               log' = [log EXCEPT ![c] = Append(@, r)], c_ok' = [c_ok EXCEPT ![c] = @ + k]
        PROVE  Kept
    <3>1. /\ log[c] \in Seq(Results) /\ Append(log[c], r) \in Seq(Results)
          /\ Len(Append(log[c], r)) = Len(log[c]) + 1 /\ Len(log[c]) \in Nat
      BY <1>1, <2>5, AppendProperties
    <3>2. /\ Errors(log[c]) \in Nat /\ Failures(log[c]) \in Nat
          /\ Errors(Append(log[c], r)) = Errors(log[c])
          /\ Failures(Append(log[c], r)) = Failures(log[c]) + (k - 1)
      BY <2>5, <3>1, LogGrows
    <3>3. c_ok' \in [Clients -> Nat] /\ log' \in [Clients -> Seq(Results)]
      BY <1>1, <2>5, <3>1
    <3>4. \A d \in Clients : c_err'[d] = Errors(log'[d]) /\ TellOf(d)'
      <4> SUFFICES ASSUME NEW d \in Clients
                   PROVE  c_err'[d] = Errors(log'[d]) /\ TellOf(d)'
        OBVIOUS
      <4>1. CASE d = c
        <5>1. c_all'[c] = c_all[c] + 1 /\ c_err'[c] = c_err[c] /\ c_ok'[c] = c_ok[c] + k
              /\ log'[c] = Append(log[c], r)
          BY <1>1, <1>7, <2>3, <2>5 DEF Executed
        <5> QED
          BY <1>1, <1>3, <1>7, <3>1, <3>2, <4>1, <5>1, SMTT(30)
      <4>2. CASE d # c
        <5>1. c_all'[d] = c_all[d] /\ c_err'[d] = c_err[d] /\ c_ok'[d] = c_ok[d]
              /\ log'[d] = log[d]
          BY <1>1, <1>7, <2>3, <2>5, <4>2 DEF Executed
        <5> QED
          BY <1>3, <1>7, <5>1
      <4> QED
        BY <4>1, <4>2
    <3> QED
      BY <1>4, <2>2, <2>3, <3>3, <3>4
  <2>6. \/ alive' = FALSE /\ UNCHANGED log /\ c_ok' = [c_ok EXCEPT ![c] = @ + 1]
        \/ \E r \in Results \ (BadLine \cup Failed) :
             log' = [log EXCEPT ![c] = Append(@, r)] /\ c_ok' = [c_ok EXCEPT ![c] = @ + 1]
        \/ \E r \in Failed :
             log' = [log EXCEPT ![c] = Append(@, r)] /\ c_ok' = [c_ok EXCEPT ![c] = @ + 2]
    BY <1>7 DEF Executed
  <2>7. Failed \subseteq Results \ BadLine
    BY DEF Failed, Results, BadLine
  <2>8. CASE \E r \in Results \ (BadLine \cup Failed) :
               log' = [log EXCEPT ![c] = Append(@, r)] /\ c_ok' = [c_ok EXCEPT ![c] = @ + 1]
    <3>1. PICK r \in Results \ (BadLine \cup Failed) :
            log' = [log EXCEPT ![c] = Append(@, r)] /\ c_ok' = [c_ok EXCEPT ![c] = @ + 1]
      BY <2>8
    <3>2. 1 \in {1, 2} /\ r \in Results \ BadLine /\ (r \in Failed <=> 1 = 2)
      OBVIOUS
    <3> QED
      BY <2>5, <3>1, <3>2
  <2>9. CASE \E r \in Failed :
               log' = [log EXCEPT ![c] = Append(@, r)] /\ c_ok' = [c_ok EXCEPT ![c] = @ + 2]
    <3>1. PICK r \in Failed :
            log' = [log EXCEPT ![c] = Append(@, r)] /\ c_ok' = [c_ok EXCEPT ![c] = @ + 2]
      BY <2>9
    <3>2. 2 \in {1, 2} /\ r \in Results \ BadLine /\ (r \in Failed <=> 2 = 2)
      BY <2>7
    <3> QED
      BY <2>5, <3>1, <3>2
  <2> QED
    BY <2>4, <2>6, <2>8, <2>9
<1>8. ASSUME NEW w \in Workers, NEW c \in Clients, Step(w, c)
      PROVE  Kept
  <2>1. alive
    BY <1>8, StepFrame
  <2> QED
    BY <1>5, <1>6, <1>7, <1>8, <2>1, CountingSteps
<1>9. ASSUME NEW w \in Workers, LoadServerOk(w)
      PROVE  Kept
  BY <1>5, <1>9 DEF LoadServerOk
<1>10. ASSUME NEW c \in Clients, NEW l \in Lines, Send(c, l)
       PROVE  Kept
  BY <1>5, <1>10 DEF Send
<1>11. ASSUME UNCHANGED vars
       PROVE  Kept
  BY <1>5, <1>11 DEF vars, countVars
<1>12. Kept
  BY <1>8, <1>9, <1>10, <1>11, NextSteps
<1> QED
  BY <1>12 DEF Kept

-----------------------------------------------------------------------------
(* The steps keep the bounds of the shared counter. *)

\* Failures that are counted or lost, and not on their way any more.
Settled == AllFailures - Cardinality(Pending)

LEMMA SettledType ==
  ASSUME TypeOK
  PROVE  AllFailures \in Nat /\ IsFiniteSet(Pending) /\ Cardinality(Pending) \in Nat
<1>1. \A c \in Clients : [d \in Clients |-> Failures(log[d])][c] \in Nat
  <2> SUFFICES ASSUME NEW c \in Clients PROVE Failures(log[c]) \in Nat
    OBVIOUS
  <2>1. log[c] \in Seq(Results) /\ "PONG" \in Results
    BY DEF TypeOK, Results
  <2> QED
    BY <2>1, LogGrows
<1>2. Pending \in SUBSET Workers
  BY DEF Pending
<1> QED
  BY <1>1, <1>2, FiniteAssumption, SumType, FS_Subset, FS_CardinalityType DEF AllFailures

\* A result adds to the failures if it is one.
LEMMA FailuresGrow ==
  ASSUME TypeOK, NEW c \in Clients, NEW r \in Results, log' = [log EXCEPT ![c] = Append(@, r)]
  PROVE  AllFailures' = IF r \in Failed THEN AllFailures + 1 ELSE AllFailures
<1> DEFINE F == [d \in Clients |-> Failures(log[d])]
           G == [d \in Clients |-> Failures(log'[d])]
<1>1. AllFailures = SumOver(Clients, F) /\ AllFailures' = SumOver(Clients, G)
  BY DEF AllFailures
<1>2. log \in [Clients -> Seq(Results)]
  BY DEF TypeOK
<1>3. \A d \in Clients : F[d] \in Nat
  BY <1>2, LogGrows
<1>4. \A d \in Clients : G[d] = IF d = c /\ r \in Failed THEN F[d] + 1 ELSE F[d]
  <2> SUFFICES ASSUME NEW d \in Clients
               PROVE  G[d] = IF d = c /\ r \in Failed THEN F[d] + 1 ELSE F[d]
    OBVIOUS
  <2>1. CASE d = c
    <3>1. log'[d] = Append(log[d], r) /\ log[d] \in Seq(Results)
      BY <1>2, <2>1
    <3> QED
      BY <2>1, <3>1, LogGrows
  <2>2. CASE d # c
    <3>1. log'[d] = log[d]
      BY <1>2, <2>2
    <3> QED
      BY <2>2, <3>1
  <2> QED
    BY <2>1, <2>2
<1> HIDE DEF F, G
<1>5. CASE r \in Failed
  <2>1. \A d \in Clients : G[d] = IF d = c THEN F[d] + 1 ELSE F[d]
    BY <1>4, <1>5
  <2>2. SumOver(Clients, G) = SumOver(Clients, F) + 1
    BY <1>3, <2>1, FiniteAssumption, SumMore
  <2> QED
    BY <1>1, <1>5, <2>2
<1>6. CASE r \notin Failed
  <2>1. SumOver(Clients, G) = SumOver(Clients, F)
    BY <1>4, <1>6, SumSame
  <2> QED
    BY <1>1, <1>6, <2>1
<1> QED
  BY <1>5, <1>6

LEMMA SharedStep ==
  ASSUME TypeOK, ServingInv, MessagesInv, SharedInv, [Next]_vars
  PROVE  SharedInv'
<1>1. /\ AllFailures \in Nat /\ IsFiniteSet(Pending) /\ Cardinality(Pending) \in Nat
      /\ s_ok \in Nat /\ sreg \in [Workers -> Nat]
      /\ wpc \in [Workers -> {"dispatch", "lines", "load", "store"}]
  BY SettledType DEF TypeOK
<1>2. /\ s_ok <= Settled /\ (Settled > 0 => s_ok > 0)
      /\ \A v \in Workers : wpc[v] = "store" => sreg[v] <= Settled
  BY <1>1 DEF SharedInv, ServerOkBounds, Settled
\* It is enough that no more is said of a smaller number of settled failures.
<1>3. ASSUME AllFailures' \in Nat, Cardinality(Pending)' \in Nat, Settled' >= Settled,
             s_ok' <= Settled', Settled' > 0 => s_ok' > 0,
             \A v \in Workers : wpc'[v] = "store" => sreg'[v] <= Settled'
      PROVE  SharedInv'
  BY <1>3 DEF SharedInv, ServerOkBounds, Settled
<1>4. ASSUME AllFailures' = AllFailures, Pending' = Pending, s_ok' = s_ok, sreg' = sreg,
             \A v \in Workers : wpc'[v] = "store" <=> wpc[v] = "store"
      PROVE  SharedInv'
  <2>1. Settled' = Settled /\ Cardinality(Pending)' = Cardinality(Pending)
    BY <1>4 DEF Settled
  <2>2. Settled \in Int
    BY <1>1 DEF Settled
  <2> QED
    BY <1>1, <1>2, <1>3, <1>4, <2>1, <2>2
<1>5. ASSUME NEW c \in Clients, Rejected(c)
      PROVE  SharedInv'
  <2>1. PICK r \in BadLine : log' = [log EXCEPT ![c] = Append(@, r)]
    BY <1>5 DEF Rejected
  <2>2. r \in Results /\ r \notin Failed
    BY DEF BadLine, Results, Failed
  <2>3. AllFailures' = AllFailures
    BY <2>1, <2>2, FailuresGrow
  <2>4. UNCHANGED <<wpc, s_ok, sreg>>
    BY <1>5 DEF Rejected
  <2>5. Pending' = Pending
    BY <2>4 DEF Pending
  <2> QED
    BY <1>4, <2>3, <2>4, <2>5
<1>6. ASSUME NEW c \in Clients, Executed(c)
      PROVE  SharedInv'
  <2>1. UNCHANGED <<s_ok, sreg>>
    BY <1>6 DEF Executed
  <2>2. CASE UNCHANGED <<log, wpc>>
    <3>1. AllFailures' = AllFailures /\ Pending' = Pending
      BY <2>2 DEF AllFailures, Pending
    <3> QED
      BY <1>4, <2>1, <2>2, <3>1
  <2>3. ASSUME NEW r \in Results \ (BadLine \cup Failed), UNCHANGED wpc,
               log' = [log EXCEPT ![c] = Append(@, r)]
        PROVE  SharedInv'
    <3>1. AllFailures' = AllFailures
      BY <2>3, FailuresGrow
    <3>2. Pending' = Pending
      BY <2>3 DEF Pending
    <3> QED
      BY <1>4, <2>1, <2>3, <3>1, <3>2
  <2>4. ASSUME NEW r \in Failed, wpc[home[c]] = "lines", wpc' = [wpc EXCEPT ![home[c]] = "load"],
               log' = [log EXCEPT ![c] = Append(@, r)]
        PROVE  SharedInv'
    <3>1. r \in Results /\ home[c] \in Workers
      BY HomeAssumption DEF Results
    <3>2. AllFailures' = AllFailures + 1
      BY <2>4, <3>1, FailuresGrow
    <3>3. Pending' = Pending \cup {home[c]} /\ home[c] \notin Pending
      BY <1>1, <2>4, <3>1 DEF Pending
    <3>4. Cardinality(Pending)' = Cardinality(Pending) + 1
      BY <1>1, <3>3, FS_AddElement
    <3>5. Settled' = Settled /\ Settled \in Int
      BY <1>1, <3>2, <3>4 DEF Settled
    <3>6. \A v \in Workers : wpc'[v] = "store" => wpc[v] = "store"
      BY <1>1, <2>4, <3>1
    <3> QED
      BY <1>1, <1>2, <1>3, <2>1, <3>2, <3>4, <3>5, <3>6
  <2> QED
    BY <1>6, <2>2, <2>3, <2>4 DEF Executed
<1>7. ASSUME NEW w \in Workers, NEW c \in Clients, StoreServerOk(w, c)
      PROVE  SharedInv'
  <2>1. /\ wpc[w] = "store" /\ s_ok' = sreg[w] + 1 /\ sreg' = [sreg EXCEPT ![w] = 0]
        /\ wpc' = [wpc EXCEPT ![w] = "lines"] /\ UNCHANGED log
    BY <1>7 DEF StoreServerOk
  <2>2. Pending' = Pending \ {w} /\ w \in Pending
    BY <1>1, <2>1 DEF Pending
  <2>3. Cardinality(Pending)' = Cardinality(Pending) - 1 /\ Cardinality(Pending)' \in Nat
    BY <1>1, <2>2, FS_RemoveElement, FS_CardinalityType
  <2>4. AllFailures' = AllFailures
    BY <2>1 DEF AllFailures
  <2>5. Settled' = Settled + 1 /\ Settled \in Int
    BY <1>1, <2>3, <2>4 DEF Settled
  <2>6. \A v \in Workers : wpc'[v] = "store" => wpc[v] = "store" /\ sreg'[v] = sreg[v]
    BY <1>1, <2>1
  <2> QED
    BY <1>1, <1>2, <1>3, <2>1, <2>3, <2>4, <2>5, <2>6
<1>8. ASSUME NEW w \in Workers, LoadServerOk(w)
      PROVE  SharedInv'
  <2>1. /\ wpc[w] = "load" /\ wpc' = [wpc EXCEPT ![w] = "store"]
        /\ sreg' = [sreg EXCEPT ![w] = s_ok] /\ s_ok' = s_ok /\ UNCHANGED log
    BY <1>8 DEF LoadServerOk
  <2>2. Pending' = Pending /\ AllFailures' = AllFailures
    BY <1>1, <2>1 DEF Pending, AllFailures
  <2>3. Settled' = Settled /\ Settled \in Int /\ Cardinality(Pending)' = Cardinality(Pending)
    BY <1>1, <2>2 DEF Settled
  <2>4. \A v \in Workers : wpc'[v] = "store" => sreg'[v] <= Settled
    BY <1>1, <1>2, <2>1
  <2> QED
    BY <1>1, <1>2, <1>3, <2>1, <2>2, <2>3, <2>4
<1>9. ASSUME NEW w \in Workers, NEW c \in Clients, Step(w, c)
      PROVE  SharedInv'
  <2>1. CASE UNCHANGED <<countVars, log>> /\ ~ CompleteLine(w, c) /\ ~ RejectLine(w, c)
             /\ ~ StoreServerOk(w, c)
    <3>1. AllFailures' = AllFailures
      BY <2>1 DEF AllFailures
    <3>2. /\ s_ok' = s_ok /\ sreg' = sreg
          /\ \/ wpc' = wpc
             \/ wpc[w] \in {"dispatch", "lines"} /\ wpc' = [wpc EXCEPT ![w] = "lines"]
             \/ wpc[w] \in {"dispatch", "lines"} /\ wpc' = [wpc EXCEPT ![w] = "dispatch"]
      BY <1>9, <2>1 DEF Step, BeginRead, Release, TakeLine, EndRead, threadVars
    <3>3. Pending' = Pending /\ \A v \in Workers : wpc'[v] = "store" <=> wpc[v] = "store"
      BY <1>1, <3>2 DEF Pending
    <3> QED
      BY <1>4, <3>1, <3>2, <3>3
  <2> QED
    BY <1>5, <1>6, <1>7, <1>9, <2>1, CountingSteps
<1>10. ASSUME NEW c \in Clients, NEW l \in Lines, Send(c, l)
       PROVE  SharedInv'
  <2>1. UNCHANGED <<wpc, sreg, s_ok, log>>
    BY <1>10 DEF Send, threadVars
  <2> QED
    BY <1>4, <2>1 DEF AllFailures, Pending
<1>11. ASSUME UNCHANGED vars
       PROVE  SharedInv'
  <2>1. UNCHANGED <<wpc, sreg, s_ok, log>>
    BY <1>11 DEF vars, threadVars
  <2> QED
    BY <1>4, <2>1 DEF AllFailures, Pending
<1> QED
  BY <1>8, <1>9, <1>10, <1>11, NextSteps

-----------------------------------------------------------------------------
(* The theorems. *)

LEMMA NextInv ==
  ASSUME IInv, [Next]_vars
  PROVE  IInv'
<1>1. TypeOK /\ ServingInv /\ MessagesInv /\ PoolBalance /\ CountersTell /\ SharedInv
  BY DEF IInv
<1>2. /\ msg' \in [Clients -> Messages] /\ held' \in [Clients -> [Kinds -> Nat]]
      /\ c_err' \in [Clients -> Nat] /\ PoolBalance'
  BY <1>1, BalanceStep
<1>3. /\ sent' \in [Clients -> Seq(Lines)]
      /\ moved' \in [Clients -> Nat] /\ taken' \in [Clients -> Nat]
      /\ \A c \in Clients : 2 * taken'[c] <= moved'[c] /\ moved'[c] <= 2 * Len(sent'[c])
  BY <1>1, LinesStep
<1>4. /\ alive' \in BOOLEAN /\ open' \in [Clients -> BOOLEAN] /\ s_ok' \in Nat
      /\ wpc' \in [Workers -> {"dispatch", "lines", "load", "store"}]
      /\ serving' \in [Workers -> SUBSET Clients] /\ sreg' \in [Workers -> Nat]
  BY <1>1, ThreadsStep
<1>5. /\ c_all' \in [Clients -> Nat] /\ c_ok' \in [Clients -> Nat]
      /\ w_all' \in [Workers -> Nat] /\ w_ok' \in [Workers -> Nat]
      /\ w_err' \in [Workers -> Nat] /\ log' \in [Clients -> Seq(Results)]
      /\ CountersTell'
  BY <1>1, CountersStep
<1>6. TypeOK'
  BY <1>2, <1>3, <1>4, <1>5 DEF TypeOK
<1>7. ServingInv' /\ MessagesInv' /\ SharedInv'
  BY <1>1, ServingStep, MessagesStep, SharedStep
<1> QED
  BY <1>2, <1>5, <1>6, <1>7 DEF IInv

\* The inductive invariant holds in every reachable state: what a worker serves, whose
\* messages are whole, and how objects and counters follow them.
THEOREM Invariant == Spec => []IInv
<1>1. IInv /\ [Next]_vars => IInv'
  BY NextInv
<1> QED
  BY <1>1, InitInv, PTL DEF Spec

\* Every variable keeps its type; in particular no kind of object is ever given back more
\* often than it was taken, and no line is read that did not come.
THEOREM TypeCorrect == Spec => []TypeOK
<1>1. IInv => TypeOK
  BY DEF IInv
<1> QED
  BY <1>1, Invariant, PTL

\* Between two requests nothing of the last is left (server.c:260-299).
THEOREM MessagesWait == Spec => []MessageWaits
<1>1. IInv => MessageWaits
  <2> SUFFICES ASSUME IInv, NEW c \in Clients, alive, wpc[home[c]] \in {"dispatch", "lines"}
               PROVE  /\ msg[c].stat \in {"absent", "none", "more"}
                      /\ msg[c].stat = "more" => Len(msg[c].params) < msg[c].count
                      /\ msg[c].stat # "more" => msg[c].params = <<>> /\ msg[c].count = 0
                      /\ ~ open[c] => msg[c] = NoMsg
    BY DEF MessageWaits
  <2>1. Waits(msg[c]) /\ (~ open[c] => msg[c] = NoMsg)
    BY DEF IInv, MessagesInv, AtWork
  <2> QED
    <3>1. CASE msg[c] = NoMsg \/ msg[c] = EmptyMsg
      <4>1. /\ NoMsg.stat = "absent" /\ NoMsg.params = <<>> /\ NoMsg.count = 0
            /\ EmptyMsg.stat = "none" /\ EmptyMsg.params = <<>> /\ EmptyMsg.count = 0
        BY DEF NoMsg, EmptyMsg
      <4> QED
        BY <2>1, <3>1, <4>1
    <3>2. CASE msg[c].stat = "more" /\ Len(msg[c].params) < msg[c].count
      BY <2>1, <3>2
    <3> QED
      BY <2>1, <3>1, <3>2 DEF Waits
<1> QED
  BY <1>1, Invariant, PTL

\* No object is lost or given back twice, and the lines that were rejected are all that
\* leaks (message.c:32, client.c:24, server.c:260).
THEOREM ObjectsBalance == Spec => []PoolBalance
<1>1. IInv => PoolBalance
  BY DEF IInv
<1> QED
  BY <1>1, Invariant, PTL

\* The counters tell what came of the requests (worker.c:51, client.c:34).
THEOREM CountersRight == Spec => []CountersTell
<1>1. IInv => CountersTell
  BY DEF IInv
<1> QED
  BY <1>1, Invariant, PTL

\* The counter that workers share without a lock counts no failure that did not happen,
\* and loses updates but never all of them (server.c:296).
THEOREM SharedCounterBounded == Spec => []ServerOkBounds
<1>1. IInv => ServerOkBounds
  BY DEF IInv, SharedInv
<1> QED
  BY <1>1, Invariant, PTL
=============================================================================

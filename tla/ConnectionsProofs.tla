------------------------- MODULE ConnectionsProofs -------------------------
(***************************************************************************)
(* Proofs about module Connections, for any number of connections and      *)
(* workers and any limit.                                                  *)
(***************************************************************************)
EXTENDS Connections, FiniteSetTheorems, TLAPS

\* Names for parts of actions; the proofs see through them.
USE DEF Unlocked, Unlock, Busier, FirstSummed

-----------------------------------------------------------------------------
(* The inductive invariant. *)

BeforeOn(w) == {c \in before : home[c] = w}

\* A worker's lock is held exactly between the load and the store of num_client,
\* so what was loaded is still what is there.
Locks ==
  /\ \A w \in Workers : lock[w] = "worker" <=> wpc[w] = "store"
  /\ \A w \in Workers : lock[w] = "acceptor" <=> (apc = "store" /\ best = w)
  /\ \A w \in Workers : wpc[w] = "store" => wreg[w] = num_client[w]
  /\ apc = "store" => areg = num_client[best]

\* The connection at hand is at the stage that the accept thread's place in the
\* handler says, and no other connection is at such a stage.
AcceptStages ==
  /\ apc = "dispatch" <=> client = {}
  /\ \A c, d \in client : c = d
  /\ \A c \in Conns :
       /\ conn[c] = "accepting" <=> c \in client /\ apc \in {"sum", "refuse"}
       /\ conn[c] = "admitted" <=>
            c \in client /\ apc \in {"peak", "least", "lock", "store"}
       /\ conn[c] = "counted" <=> c \in client /\ apc = "enable"
  /\ apc \in {"lock", "store", "enable"} => \A c \in client : home[c] = best

\* A worker releases one of its own clients.
ReleaseStages ==
  /\ \A w \in Workers : wpc[w] # "dispatch" => \E c \in Conns : victim[w] = {c}
  /\ \A w \in Workers : \A c \in victim[w] :
       /\ home[c] = w
       /\ wpc[w] \in {"lock", "store"} => conn[c] = "closing"
       /\ wpc[w] \in {"load", "curstore"} => conn[c] = "uncounted"
  /\ \A w \in Workers : wpc[w] = "dispatch" => victim[w] = {}

\* Until the accept thread counts the connection at hand, only connections that were
\* counted when the handler began are; it was not one of them.
HandlerView ==
  /\ apc \notin {"dispatch", "enable"} => Counted \subseteq before
  /\ client \cap before = {}

\* The running sum is at least what is counted on the workers it passed and at most
\* what was counted there when the handler began.
CountedBelow(i) == {c \in Counted : home[c] < i}
BeforeBelow(i) == {c \in before : home[c] < i}
SumBounds ==
  apc = "sum" =>
    /\ Cardinality(CountedBelow(idx)) <= cons
    /\ cons <= Cardinality(BeforeBelow(idx))

\* A connection that passed the check has a free place until it takes it.
PlaceKept ==
  /\ Cardinality(Counted) <= MaxConn
  /\ apc \in {"peak", "least", "lock", "store"} => Cardinality(Counted) < MaxConn

\* What the search may have read is between what is there and what was there when
\* the handler began, and its choice is the best of those it passed.
ScanBounds ==
  apc = "least" =>
    /\ best < idx
    /\ \A w \in Workers : num_client[w] <= seen[w]
    /\ \A w \in Workers : seen[w] <= Cardinality(BeforeOn(w))
    /\ \A w \in Workers : w < idx => seen[best] <= Cardinality(BeforeOn(w))

IInv ==
  /\ TypeOK
  /\ Locks
  /\ AcceptStages
  /\ ReleaseStages
  /\ CountExact
  /\ HandlerView
  /\ SumBounds
  /\ NoSpuriousRefusal
  /\ PlaceKept
  /\ ScanBounds
  /\ LeastLoaded

-----------------------------------------------------------------------------
(* Sizes of sets of connections. *)

\* A smaller set of connections has no larger size, and sizes are numbers.
LEMMA CardSubset ==
  ASSUME NEW T \in SUBSET Conns, NEW S \in SUBSET T
  PROVE  /\ Cardinality(S) \in Nat
         /\ Cardinality(T) \in Nat
         /\ Cardinality(S) <= Cardinality(T)
<1>1. IsFiniteSet(T)
  BY ConnsAssumption, FS_Subset
<1>2. QED
  BY <1>1, FS_Subset, FS_CardinalityType

\* A connection that joins a set makes it larger by one.
LEMMA CardAdd ==
  ASSUME NEW S \in SUBSET Conns, NEW c \in Conns, c \notin S
  PROVE  Cardinality(S \cup {c}) = Cardinality(S) + 1
<1>1. IsFiniteSet(S)
  BY ConnsAssumption, FS_Subset
<1>2. QED
  BY <1>1, FS_AddElement

\* A connection that leaves a set makes it smaller by one.
LEMMA CardRemove ==
  ASSUME NEW S \in SUBSET Conns, NEW c \in S
  PROVE  Cardinality(S \ {c}) = Cardinality(S) - 1
<1>1. IsFiniteSet(S)
  BY ConnsAssumption, FS_Subset
<1>2. QED
  BY <1>1, FS_RemoveElement

\* A set that gains the connections of a disjoint one gains their number.
LEMMA CardUnion ==
  ASSUME NEW S \in SUBSET Conns, NEW T \in SUBSET Conns, S \cap T = {}
  PROVE  Cardinality(S \cup T) = Cardinality(S) + Cardinality(T)
<1>1. IsFiniteSet(S) /\ IsFiniteSet(T)
  BY ConnsAssumption, FS_Subset
<1>2. Cardinality(S \cap T) = 0
  BY FS_EmptySet
<1>3. Cardinality(S) \in Nat /\ Cardinality(T) \in Nat
  BY CardSubset
<1>4. Cardinality(S \cup T) = Cardinality(S) + Cardinality(T) - Cardinality(S \cap T)
  BY <1>1, FS_Union
<1>5. QED
  BY <1>2, <1>3, <1>4

-----------------------------------------------------------------------------
(* What a release finds: the counts it decrements are positive. *)

\* The client that a worker is about to subtract is among those it counts.
LEMMA VictimCounted ==
  ASSUME TypeOK, Locks, ReleaseStages, CountExact,
         NEW w \in Workers, wpc[w] = "store"
  PROVE  \E c \in Conns : /\ victim[w] = {c}
                          /\ c \in CountedOn(w)
                          /\ wreg[w] - 1 \in Nat
                          /\ wreg[w] = Cardinality(CountedOn(w))
<1>1. PICK c \in Conns : victim[w] = {c}
  BY DEF ReleaseStages
<1>2. conn[c] = "closing" /\ home[c] = w
  BY <1>1 DEF ReleaseStages
<1>3. c \in CountedOn(w) /\ CountedOn(w) \in SUBSET Conns
  BY <1>2 DEF CountedOn, Counted
<1>4. Cardinality(CountedOn(w) \ {c}) = Cardinality(CountedOn(w)) - 1
  BY <1>3, CardRemove
<1>5. Cardinality(CountedOn(w) \ {c}) \in Nat
  BY <1>3, CardSubset
<1>6. wreg[w] = Cardinality(CountedOn(w))
  BY DEF Locks, CountExact
<1>7. QED
  BY <1>1, <1>3, <1>4, <1>5, <1>6

\* Every step keeps every variable in its type.
LEMMA TypeStep ==
  ASSUME TypeOK, Locks, AcceptStages, ReleaseStages, CountExact, [Next]_vars
  PROVE  TypeOK'
<1> USE WorkerCountAssumption, CountModAssumption DEF TypeOK, Workers
<1>1. ASSUME NEW c \in Conns, Arrive(c) PROVE TypeOK'
  BY <1>1 DEF Arrive, Stages, countVars, serverVars, acceptVars, workerVars
<1>2. ASSUME NEW c \in Conns, Accept(c) PROVE TypeOK'
  <2>1. Counted \in SUBSET Conns
    BY DEF Counted
  <2>2. conn' \in [Conns -> Stages]
    BY <1>2 DEF Accept, Stages
  <2>3. QED
    BY <1>2, <2>1, <2>2, SMTT(30) DEF Accept, countVars, serverVars, workerVars
<1>3. CASE SumStep
  <2>1. idx \in Workers /\ idx + 1 \in 0 .. WorkerCount
    BY <1>3 DEF SumStep
  <2>2. cons + num_client[idx] \in Nat
    BY <2>1
  <2>3. QED
    BY <1>3, <2>1, <2>2 DEF SumStep, connVars, countVars, serverVars, workerVars
<1>4. CASE CheckLimit
  BY <1>4 DEF CheckLimit, Stages, countVars, serverVars, workerVars
<1>5. CASE UpdatePeak
  BY <1>5 DEF UpdatePeak, connVars, countVars, workerVars
<1>6. CASE LeastStep
  <2>1. idx \in Workers /\ idx + 1 \in 0 .. WorkerCount
    BY <1>6 DEF LeastStep
  <2>2. PICK l \in num_client[best] .. seen[best], r \in num_client[idx] .. seen[idx] :
          /\ best' = IF l > r THEN idx ELSE best
          /\ seen' = [seen EXCEPT ![best] = l, ![idx] = r]
    BY <1>6 DEF LeastStep
  <2>3. l \in Nat /\ r \in Nat
    <3>1. best \in Workers /\ num_client[best] \in Nat /\ num_client[idx] \in Nat
          /\ seen[best] \in Nat /\ seen[idx] \in Nat
      BY <2>1
    <3> HIDE DEF TypeOK
    <3>2. ASSUME NEW a \in Nat, NEW b \in Nat, NEW n \in a .. b
          PROVE  n \in Nat
      OBVIOUS
    <3>3. QED
      BY <3>1, <3>2
  <2>4. best' \in Workers /\ seen' \in [Workers -> Nat]
    BY <2>1, <2>2, <2>3
  <2>5. QED
    BY <1>6, <2>1, <2>4 DEF LeastStep, connVars, countVars, serverVars, workerVars
<1>7. CASE Place
  BY <1>7 DEF Place, countVars, serverVars, workerVars
<1>8. CASE LockForIncrease
  BY <1>8 DEF LockForIncrease, connVars, serverVars, workerVars
<1>9. CASE StoreIncrease
  <2>1. conn' \in [Conns -> Stages]
    BY <1>9 DEF StoreIncrease, Stages
  <2>2. num_client' \in [Workers -> Nat]
    BY <1>9 DEF StoreIncrease
  <2>3. QED
    BY <1>9, <2>1, <2>2 DEF StoreIncrease, serverVars, workerVars
<1>10. CASE Enable
  BY <1>10 DEF Enable, HandlerReturns, Stages, countVars, serverVars, workerVars
<1>11. CASE Refuse
  BY <1>11 DEF Refuse, HandlerReturns, Stages, countVars, serverVars, workerVars
<1>12. ASSUME NEW w \in Workers, NEW c \in Conns, BeginRelease(w, c) PROVE TypeOK'
  BY <1>12 DEF BeginRelease, Stages, countVars, serverVars, acceptVars
<1>13. ASSUME NEW w \in Workers, LockForDecrease(w) PROVE TypeOK'
  BY <1>13 DEF LockForDecrease, connVars, serverVars, acceptVars
<1>14. ASSUME NEW w \in Workers, StoreDecrease(w) PROVE TypeOK'
  <2>1. wreg[w] - 1 \in Nat
    BY <1>14, VictimCounted DEF StoreDecrease
  <2>2. QED
    BY <1>14, <2>1 DEF StoreDecrease, Stages, serverVars, acceptVars
<1>15. ASSUME NEW w \in Workers, LoadCurCount(w) PROVE TypeOK'
  BY <1>15 DEF LoadCurCount, connVars, countVars, serverVars, acceptVars
<1>16. ASSUME NEW w \in Workers, StoreCurCount(w) PROVE TypeOK'
  <2>1. Decremented(creg[w]) \in 0 .. (CountMod - 1)
    <3>1. creg[w] + CountMod - 1 \in Int
      OBVIOUS
    <3> HIDE DEF TypeOK
    <3>2. \A n \in Int : n % CountMod \in 0 .. (CountMod - 1)
      OBVIOUS
    <3>3. QED
      BY <3>1, <3>2 DEF Decremented
  <2>2. conn' \in [Conns -> Stages]
    BY <1>16 DEF StoreCurCount, Stages
  <2>3. conn_cur_count' \in 0 .. (CountMod - 1)
    BY <1>16, <2>1 DEF StoreCurCount
  <2>4. /\ wpc' \in [Workers -> {"dispatch", "lock", "store", "load", "curstore"}]
        /\ victim' \in [Workers -> SUBSET Conns]
        /\ creg' \in [Workers -> 0 .. (CountMod - 1)]
    BY <1>16 DEF StoreCurCount
  <2>5. QED
    BY <1>16, <2>2, <2>3, <2>4 DEF StoreCurCount, countVars, acceptVars
<1>17. CASE UNCHANGED vars
  BY <1>17 DEF vars, connVars, countVars, serverVars, acceptVars, workerVars
<1>18. QED
  BY <1>1, <1>2, <1>3, <1>4, <1>5, <1>6, <1>7, <1>8, <1>9, <1>10, <1>11, <1>12,
     <1>13, <1>14, <1>15, <1>16, <1>17 DEF Next, AcceptHandler, ReleaseHandler

\* The lock of a worker goes from one thread to the other only when it is free, and
\* only its holder changes num_client.
LEMMA LocksStep ==
  ASSUME TypeOK, Locks, [Next]_vars
  PROVE  Locks'
<1> USE WorkerCountAssumption DEF TypeOK, Workers, Locks
<1>1. ASSUME NEW c \in Conns, Arrive(c) PROVE Locks'
  BY <1>1 DEF Arrive, countVars, serverVars, acceptVars, workerVars
<1>2. ASSUME NEW c \in Conns, Accept(c) PROVE Locks'
  BY <1>2 DEF Accept, countVars, serverVars, workerVars
<1>3. CASE SumStep
  BY <1>3 DEF SumStep, connVars, countVars, serverVars, workerVars
<1>4. CASE CheckLimit
  BY <1>4 DEF CheckLimit, countVars, serverVars, workerVars
<1>5. CASE UpdatePeak
  BY <1>5 DEF UpdatePeak, connVars, countVars, workerVars
<1>6. CASE LeastStep
  BY <1>6 DEF LeastStep, connVars, countVars, serverVars, workerVars
<1>7. CASE Place
  BY <1>7 DEF Place, countVars, serverVars, workerVars
<1>8. CASE LockForIncrease
  BY <1>8 DEF LockForIncrease, connVars, serverVars, workerVars
<1>9. CASE StoreIncrease
  BY <1>9 DEF StoreIncrease, serverVars, workerVars
<1>10. CASE Enable
  BY <1>10 DEF Enable, HandlerReturns, countVars, serverVars, workerVars
<1>11. CASE Refuse
  BY <1>11 DEF Refuse, HandlerReturns, countVars, serverVars, workerVars
<1>12. ASSUME NEW w \in Workers, NEW c \in Conns, BeginRelease(w, c) PROVE Locks'
  BY <1>12 DEF BeginRelease, countVars, serverVars, acceptVars
<1>13. ASSUME NEW w \in Workers, LockForDecrease(w) PROVE Locks'
  BY <1>13 DEF LockForDecrease, connVars, serverVars, acceptVars
<1>14. ASSUME NEW w \in Workers, StoreDecrease(w) PROVE Locks'
  BY <1>14 DEF StoreDecrease, serverVars, acceptVars
<1>15. ASSUME NEW w \in Workers, LoadCurCount(w) PROVE Locks'
  BY <1>15 DEF LoadCurCount, connVars, countVars, serverVars, acceptVars
<1>16. ASSUME NEW w \in Workers, StoreCurCount(w) PROVE Locks'
  BY <1>16 DEF StoreCurCount, countVars, acceptVars
<1>17. CASE UNCHANGED vars
  BY <1>17 DEF vars, connVars, countVars, serverVars, acceptVars, workerVars
<1>18. QED
  BY <1>1, <1>2, <1>3, <1>4, <1>5, <1>6, <1>7, <1>8, <1>9, <1>10, <1>11, <1>12,
     <1>13, <1>14, <1>15, <1>16, <1>17 DEF Next, AcceptHandler, ReleaseHandler

\* Each stage of the accept handler is entered and left by that handler alone.
LEMMA AcceptStagesStep ==
  ASSUME TypeOK, AcceptStages, ReleaseStages, [Next]_vars
  PROVE  AcceptStages'
<1> USE WorkerCountAssumption DEF TypeOK, Workers, AcceptStages
<1>0. \A w \in Workers : \A c \in victim[w] :
        wpc[w] # "dispatch" => conn[c] \in {"closing", "uncounted"}
  BY DEF ReleaseStages
<1>1. ASSUME NEW c \in Conns, Arrive(c) PROVE AcceptStages'
  BY <1>1 DEF Arrive, countVars, serverVars, acceptVars, workerVars
<1>2. ASSUME NEW c \in Conns, Accept(c) PROVE AcceptStages'
  BY <1>2 DEF Accept, countVars, serverVars, workerVars
<1>3. CASE SumStep
  BY <1>3 DEF SumStep, connVars, countVars, serverVars, workerVars
<1>4. CASE CheckLimit
  <2>1. client \in SUBSET Conns /\ UNCHANGED <<home, best, client>>
    BY <1>4 DEF CheckLimit
  <2> HIDE DEF TypeOK
  <2>2. CASE LimitReached(cons)
    BY <1>4, <2>1, <2>2 DEF CheckLimit
  <2>3. CASE ~ LimitReached(cons)
    <3>1. \A c \in Conns : conn'[c] = IF c \in client THEN "admitted" ELSE conn[c]
      BY <1>4, <2>3 DEF CheckLimit
    <3>2. apc = "sum" /\ apc' = "peak"
      BY <1>4, <2>3 DEF CheckLimit
    <3>3. QED
      BY <2>1, <3>1, <3>2
  <2>4. QED
    BY <2>2, <2>3
<1>5. CASE UpdatePeak
  BY <1>5 DEF UpdatePeak, connVars, countVars, workerVars
<1>6. CASE LeastStep
  BY <1>6 DEF LeastStep, connVars, countVars, serverVars, workerVars
<1>7. CASE Place
  BY <1>7 DEF Place, countVars, serverVars, workerVars
<1>8. CASE LockForIncrease
  BY <1>8 DEF LockForIncrease, connVars, serverVars, workerVars
<1>9. CASE StoreIncrease
  BY <1>9 DEF StoreIncrease, serverVars, workerVars
<1>10. CASE Enable
  BY <1>10 DEF Enable, HandlerReturns, countVars, serverVars, workerVars
<1>11. CASE Refuse
  BY <1>11 DEF Refuse, HandlerReturns, countVars, serverVars, workerVars
<1>12. ASSUME NEW w \in Workers, NEW c \in Conns, BeginRelease(w, c) PROVE AcceptStages'
  BY <1>12 DEF BeginRelease, countVars, serverVars, acceptVars
<1>13. ASSUME NEW w \in Workers, LockForDecrease(w) PROVE AcceptStages'
  BY <1>13 DEF LockForDecrease, connVars, serverVars, acceptVars
<1>14. ASSUME NEW w \in Workers, StoreDecrease(w) PROVE AcceptStages'
  <2>1. \A c \in Conns : \/ conn'[c] = conn[c]
                         \/ /\ conn[c] \in {"closing", "uncounted"}
                            /\ conn'[c] = "uncounted"
    BY <1>0, <1>14 DEF StoreDecrease
  <2>2. UNCHANGED <<home, apc, client, best>>
    BY <1>14 DEF StoreDecrease, acceptVars
  <2>3. QED
    BY <2>1, <2>2
<1>15. ASSUME NEW w \in Workers, LoadCurCount(w) PROVE AcceptStages'
  BY <1>15 DEF LoadCurCount, connVars, countVars, serverVars, acceptVars
<1>16. ASSUME NEW w \in Workers, StoreCurCount(w) PROVE AcceptStages'
  <2>1. \A c \in Conns : \/ conn'[c] = conn[c]
                         \/ /\ conn[c] \in {"closing", "uncounted"}
                            /\ conn'[c] = "away"
    BY <1>0, <1>16 DEF StoreCurCount
  <2>2. UNCHANGED <<home, apc, client, best>>
    BY <1>16 DEF StoreCurCount, acceptVars
  <2>3. QED
    BY <2>1, <2>2
<1>17. CASE UNCHANGED vars
  BY <1>17 DEF vars, connVars, countVars, serverVars, acceptVars, workerVars
<1>18. QED
  BY <1>1, <1>2, <1>3, <1>4, <1>5, <1>6, <1>7, <1>8, <1>9, <1>10, <1>11, <1>12,
     <1>13, <1>14, <1>15, <1>16, <1>17 DEF Next, AcceptHandler, ReleaseHandler

\* Victims of different workers are different clients.
LEMMA VictimsApart ==
  ASSUME ReleaseStages, NEW v \in Workers, NEW w \in Workers, v # w,
         NEW c \in victim[v]
  PROVE  c \notin victim[w]
BY DEF ReleaseStages

\* When worker w goes on with its release and touches no other worker's victim, every
\* release is still where it says.
LEMMA ReleaseGoesOn ==
  ASSUME ReleaseStages, NEW w \in Workers,
         wpc[w] # "dispatch", wpc'[w] # "dispatch", victim' = victim, home' = home,
         \A v \in Workers : v # w => wpc'[v] = wpc[v],
         \A v \in Workers : v # w => \A c \in victim[v] : conn'[c] = conn[c],
         \A c \in victim[w] :
           /\ wpc'[w] \in {"lock", "store"} => conn'[c] = "closing"
           /\ wpc'[w] \in {"load", "curstore"} => conn'[c] = "uncounted"
  PROVE  ReleaseStages'
<1>1. ASSUME NEW v \in Workers
      PROVE  /\ wpc'[v] # "dispatch" => \E c \in Conns : victim'[v] = {c}
             /\ \A c \in victim'[v] :
                  /\ home'[c] = v
                  /\ wpc'[v] \in {"lock", "store"} => conn'[c] = "closing"
                  /\ wpc'[v] \in {"load", "curstore"} => conn'[c] = "uncounted"
             /\ wpc'[v] = "dispatch" => victim'[v] = {}
  <2>1. CASE v = w
    BY <2>1 DEF ReleaseStages
  <2>2. CASE v # w
    BY <2>2 DEF ReleaseStages
  <2>3. QED
    BY <2>1, <2>2
<1>2. QED
  BY <1>1 DEF ReleaseStages

\* A client being released stays its worker's victim until the release ends.
LEMMA ReleaseStagesStep ==
  ASSUME TypeOK, AcceptStages, ReleaseStages, [Next]_vars
  PROVE  ReleaseStages'
<1>1. ASSUME UNCHANGED <<wpc, victim>>,
             \A w \in Workers : \A c \in victim[w] :
               conn'[c] = conn[c] /\ home'[c] = home[c]
      PROVE  ReleaseStages'
  BY <1>1 DEF ReleaseStages
<1>2. \A w \in Workers : \A c \in victim[w] :
        c \in Conns /\ conn[c] \in {"closing", "uncounted"} /\ c \notin client
  <2>1. \A w \in Workers : \A c \in victim[w] :
          c \in Conns /\ conn[c] \in {"closing", "uncounted"}
    BY DEF ReleaseStages, TypeOK
  <2>2. \A c \in client :
          c \in Conns /\ conn[c] \in {"accepting", "admitted", "counted"}
    BY DEF AcceptStages, TypeOK
  <2>3. QED
    BY <2>1, <2>2
<1>3. ASSUME NEW c \in Conns, Arrive(c) PROVE ReleaseStages'
  BY <1>1, <1>2, <1>3 DEF Arrive, TypeOK, workerVars
<1>4. ASSUME NEW c \in Conns, Accept(c) PROVE ReleaseStages'
  BY <1>1, <1>2, <1>4 DEF Accept, TypeOK, workerVars
<1>5. CASE AcceptHandler
  BY <1>1, <1>2, <1>5 DEF AcceptHandler, SumStep, CheckLimit, UpdatePeak, LeastStep,
     Place, LockForIncrease, StoreIncrease, Enable, Refuse, connVars, workerVars
<1>6. ASSUME NEW w \in Workers, NEW c \in Conns, BeginRelease(w, c) PROVE ReleaseStages'
  <2>1. \A v \in Workers : v # w => wpc'[v] = wpc[v] /\ victim'[v] = victim[v]
    BY <1>6 DEF BeginRelease, TypeOK
  <2>2. wpc'[w] = "lock" /\ victim'[w] = {c} /\ conn'[c] = "closing"
    BY <1>6 DEF BeginRelease, TypeOK
  <2>3. home' = home /\ home[c] = w
    BY <1>6 DEF BeginRelease
  <2>4. \A v \in Workers : \A d \in victim[v] : conn'[d] = conn[d]
    BY <1>2, <1>6 DEF BeginRelease, TypeOK
  <2>5. ASSUME NEW v \in Workers
        PROVE  /\ wpc'[v] # "dispatch" => \E d \in Conns : victim'[v] = {d}
               /\ \A d \in victim'[v] :
                    /\ home'[d] = v
                    /\ wpc'[v] \in {"lock", "store"} => conn'[d] = "closing"
                    /\ wpc'[v] \in {"load", "curstore"} => conn'[d] = "uncounted"
               /\ wpc'[v] = "dispatch" => victim'[v] = {}
    <3>1. CASE v = w
      BY <2>2, <2>3, <3>1
    <3>2. CASE v # w
      BY <2>1, <2>3, <2>4, <3>2 DEF ReleaseStages
    <3>3. QED
      BY <3>1, <3>2
  <2>6. QED
    BY <2>5 DEF ReleaseStages
<1>7. ASSUME NEW w \in Workers, LockForDecrease(w) PROVE ReleaseStages'
  <2>1. /\ \A v \in Workers : v # w => wpc'[v] = wpc[v]
        /\ wpc[w] = "lock" /\ wpc'[w] = "store"
    BY <1>7 DEF LockForDecrease, TypeOK
  <2>2. UNCHANGED <<conn, home, victim>>
    BY <1>7 DEF LockForDecrease, connVars
  <2>3. \A c \in victim[w] : conn'[c] = "closing"
    BY <2>1, <2>2 DEF ReleaseStages
  <2>4. QED
    BY <2>1, <2>2, <2>3, ReleaseGoesOn
<1>8. ASSUME NEW w \in Workers, StoreDecrease(w) PROVE ReleaseStages'
  <2>1. /\ \A v \in Workers : v # w => wpc'[v] = wpc[v]
        /\ wpc[w] = "store" /\ wpc'[w] = "load"
    BY <1>8 DEF StoreDecrease, TypeOK
  <2>2. UNCHANGED <<home, victim>>
    BY <1>8 DEF StoreDecrease
  <2>3. \A c \in victim[w] : conn'[c] = "uncounted"
    BY <1>2, <1>8 DEF StoreDecrease
  <2>4. \A v \in Workers : v # w => \A c \in victim[v] : conn'[c] = conn[c]
    BY <1>2, <1>8, VictimsApart DEF StoreDecrease
  <2>5. QED
    BY <2>1, <2>2, <2>3, <2>4, ReleaseGoesOn
<1>9. ASSUME NEW w \in Workers, LoadCurCount(w) PROVE ReleaseStages'
  <2>1. /\ \A v \in Workers : v # w => wpc'[v] = wpc[v]
        /\ wpc[w] = "load" /\ wpc'[w] = "curstore"
    BY <1>9 DEF LoadCurCount, TypeOK
  <2>2. UNCHANGED <<conn, home, victim>>
    BY <1>9 DEF LoadCurCount, connVars
  <2>3. \A c \in victim[w] : conn'[c] = "uncounted"
    BY <2>1, <2>2 DEF ReleaseStages
  <2>4. QED
    BY <2>1, <2>2, <2>3, ReleaseGoesOn
<1>10. ASSUME NEW w \in Workers, StoreCurCount(w) PROVE ReleaseStages'
  <2>1. \A v \in Workers : v # w => wpc'[v] = wpc[v] /\ victim'[v] = victim[v]
    BY <1>10 DEF StoreCurCount, TypeOK
  <2>2. wpc'[w] = "dispatch" /\ victim'[w] = {} /\ home' = home
    BY <1>10 DEF StoreCurCount, TypeOK
  <2>3. \A v \in Workers : v # w => \A c \in victim[v] : conn'[c] = conn[c]
    BY <1>2, <1>10, VictimsApart DEF StoreCurCount
  <2>4. ASSUME NEW v \in Workers
        PROVE  /\ wpc'[v] # "dispatch" => \E d \in Conns : victim'[v] = {d}
               /\ \A d \in victim'[v] :
                    /\ home'[d] = v
                    /\ wpc'[v] \in {"lock", "store"} => conn'[d] = "closing"
                    /\ wpc'[v] \in {"load", "curstore"} => conn'[d] = "uncounted"
               /\ wpc'[v] = "dispatch" => victim'[v] = {}
    <3>1. CASE v = w
      BY <2>2, <3>1
    <3>2. CASE v # w
      BY <2>1, <2>2, <2>3, <3>2 DEF ReleaseStages
    <3>3. QED
      BY <3>1, <3>2
  <2>5. QED
    BY <2>4 DEF ReleaseStages
<1>11. CASE UNCHANGED vars
  BY <1>1, <1>11 DEF vars, connVars, workerVars
<1>12. QED
  BY <1>3, <1>4, <1>5, <1>6, <1>7, <1>8, <1>9, <1>10, <1>11 DEF Next, ReleaseHandler

-----------------------------------------------------------------------------
(* How the set of counted connections moves.  Every step does one of three things. *)

CountsKept ==
  /\ Counted' = Counted
  /\ num_client' = num_client
  /\ \A c \in Counted \cup before : home'[c] = home[c]

CountsGain ==
  \E c \in client :
    /\ c \notin Counted
    /\ home[c] = best
    /\ Counted' = Counted \cup {c}
    /\ num_client' = [num_client EXCEPT ![best] = num_client[best] + 1]
    /\ home' = home

CountsLose(w) ==
  \E c \in CountedOn(w) :
    /\ Counted' = Counted \ {c}
    /\ num_client' = [num_client EXCEPT ![w] = num_client[w] - 1]
    /\ home' = home

\* The accept thread counts the connection at hand (worker.c:32).
LEMMA IncreaseGains ==
  ASSUME TypeOK, Locks, AcceptStages, StoreIncrease
  PROVE  CountsGain
<1>1. PICK c \in client : client = {c}
  BY DEF AcceptStages, StoreIncrease
<1>2. c \in Conns /\ conn[c] = "admitted" /\ home[c] = best
  BY DEF AcceptStages, StoreIncrease, TypeOK
<1>3. c \notin Counted
  BY <1>2 DEF Counted
<1>4. \A d \in Conns : conn'[d] = IF d = c THEN "counted" ELSE conn[d]
  BY <1>1 DEF StoreIncrease
<1>5. Counted' = Counted \cup {c}
  BY <1>2, <1>4 DEF Counted
<1>6. num_client' = [num_client EXCEPT ![best] = num_client[best] + 1] /\ home' = home
  BY DEF StoreIncrease, Locks
<1>7. QED
  BY <1>2, <1>3, <1>5, <1>6 DEF CountsGain

\* A worker takes its victim out of the count (worker.c:39).
LEMMA DecreaseLoses ==
  ASSUME TypeOK, Locks, ReleaseStages, CountExact,
         NEW w \in Workers, StoreDecrease(w)
  PROVE  CountsLose(w)
<1>1. PICK c \in Conns : victim[w] = {c} /\ c \in CountedOn(w)
  BY VictimCounted DEF StoreDecrease
<1>2. \A d \in Conns : conn'[d] = IF d = c THEN "uncounted" ELSE conn[d]
  BY <1>1 DEF StoreDecrease
<1>3. Counted' = Counted \ {c}
  BY <1>1, <1>2 DEF Counted, CountedOn
<1>4. num_client' = [num_client EXCEPT ![w] = num_client[w] - 1] /\ home' = home
  BY DEF StoreDecrease, Locks
<1>5. QED
  BY <1>1, <1>3, <1>4 DEF CountsLose

\* No other step counts or forgets a connection, or moves one to another worker.
LEMMA OthersKeep ==
  ASSUME TypeOK, AcceptStages, ReleaseStages, HandlerView, [Next]_vars,
         ~ StoreIncrease, \A w \in Workers : ~ StoreDecrease(w)
  PROVE  CountsKept
<1> USE DEF CountsKept, Counted
<1>1. ASSUME NEW c \in Conns, Arrive(c) PROVE CountsKept
  BY <1>1 DEF Arrive, countVars, TypeOK
<1>2. ASSUME NEW c \in Conns, Accept(c) PROVE CountsKept
  BY <1>2 DEF Accept, countVars, TypeOK
<1>3. CASE SumStep
  BY <1>3 DEF SumStep, connVars, countVars
<1>4. CASE CheckLimit
  <2>1. \A c \in Conns : \/ conn'[c] = conn[c]
                         \/ conn[c] = "accepting" /\ conn'[c] = "admitted"
    BY <1>4 DEF CheckLimit, AcceptStages
  <2>2. QED
    BY <1>4, <2>1 DEF CheckLimit, countVars
<1>5. CASE UpdatePeak
  BY <1>5 DEF UpdatePeak, connVars, countVars
<1>6. CASE LeastStep
  BY <1>6 DEF LeastStep, connVars, countVars
<1>7. CASE Place
  <2>1. \A c \in client : c \in Conns /\ conn[c] = "admitted"
    BY <1>7 DEF Place, AcceptStages, TypeOK
  <2>2. \A c \in Counted \cup before : c \in Conns /\ c \notin client
    BY <2>1 DEF HandlerView, TypeOK
  <2>3. QED
    BY <1>7, <2>2 DEF Place, countVars
<1>8. CASE LockForIncrease
  BY <1>8 DEF LockForIncrease, connVars
<1>9. CASE Enable
  <2>1. \A c \in Conns : \/ conn'[c] = conn[c]
                         \/ conn[c] = "counted" /\ conn'[c] = "open"
    BY <1>9 DEF Enable, AcceptStages
  <2>2. QED
    BY <1>9, <2>1 DEF Enable, countVars
<1>10. CASE Refuse
  <2>1. \A c \in Conns : \/ conn'[c] = conn[c]
                         \/ conn[c] = "accepting" /\ conn'[c] = "away"
    BY <1>10 DEF Refuse, AcceptStages
  <2>2. QED
    BY <1>10, <2>1 DEF Refuse, countVars
<1>11. ASSUME NEW w \in Workers, NEW c \in Conns, BeginRelease(w, c) PROVE CountsKept
  BY <1>11 DEF BeginRelease, countVars, TypeOK
<1>12. ASSUME NEW w \in Workers, LockForDecrease(w) PROVE CountsKept
  BY <1>12 DEF LockForDecrease, connVars
<1>13. ASSUME NEW w \in Workers, LoadCurCount(w) PROVE CountsKept
  BY <1>13 DEF LoadCurCount, connVars, countVars
<1>14. ASSUME NEW w \in Workers, StoreCurCount(w) PROVE CountsKept
  <2>1. \A c \in Conns : \/ conn'[c] = conn[c]
                         \/ conn[c] = "uncounted" /\ conn'[c] = "away"
    BY <1>14 DEF StoreCurCount, ReleaseStages
  <2>2. QED
    BY <1>14, <2>1 DEF StoreCurCount, countVars
<1>15. CASE UNCHANGED vars
  BY <1>15 DEF vars, connVars, countVars
<1>16. QED
  BY <1>1, <1>2, <1>3, <1>4, <1>5, <1>6, <1>7, <1>8, <1>9, <1>10, <1>11, <1>12,
     <1>13, <1>14, <1>15 DEF Next, AcceptHandler, ReleaseHandler

-----------------------------------------------------------------------------
(* The counts and what the accept thread makes of them. *)

\* The three ways to move are all there are.
LEMMA CountMoves ==
  ASSUME TypeOK, Locks, AcceptStages, ReleaseStages, CountExact, HandlerView,
         [Next]_vars
  PROVE  \/ CountsKept
         \/ StoreIncrease /\ CountsGain
         \/ \E w \in Workers : StoreDecrease(w) /\ CountsLose(w)
BY IncreaseGains, DecreaseLoses, OthersKeep

\* num_client follows the set of counted connections.
LEMMA CountExactStep ==
  ASSUME TypeOK, CountExact, CountsKept \/ CountsGain \/ \E w \in Workers : CountsLose(w)
  PROVE  CountExact'
<1>1. Counted \in SUBSET Conns /\ \A w \in Workers : CountedOn(w) \in SUBSET Conns
  BY DEF Counted, CountedOn
<1>2. CASE CountsKept
  <2>1. \A w \in Workers : CountedOn(w)' = CountedOn(w)
    BY <1>2 DEF CountsKept, CountedOn
  <2>2. QED
    BY <1>2, <2>1 DEF CountsKept, CountExact
<1>3. CASE CountsGain
  <2>1. PICK b \in Workers : b = best
    BY DEF TypeOK
  <2>2. PICK c \in client :
          /\ c \notin Counted /\ home[c] = b /\ Counted' = Counted \cup {c}
          /\ num_client' = [num_client EXCEPT ![b] = num_client[b] + 1]
          /\ home' = home
    BY <1>3, <2>1 DEF CountsGain
  <2>3. c \in Conns /\ num_client \in [Workers -> Nat]
    BY DEF TypeOK
  <2>4. CountedOn(b)' = CountedOn(b) \cup {c} /\ c \notin CountedOn(b)
    BY <2>2 DEF CountedOn
  <2>5. Cardinality(CountedOn(b)') = Cardinality(CountedOn(b)) + 1
    BY <1>1, <2>3, <2>4, CardAdd
  <2>6. \A w \in Workers : w # b => CountedOn(w)' = CountedOn(w)
    BY <2>2 DEF CountedOn
  <2>7. ASSUME NEW w \in Workers PROVE num_client'[w] = Cardinality(CountedOn(w)')
    BY <2>2, <2>3, <2>5, <2>6 DEF CountExact
  <2>8. QED
    BY <2>7 DEF CountExact
<1>4. ASSUME NEW v \in Workers, CountsLose(v) PROVE CountExact'
  <2>1. PICK c \in CountedOn(v) :
          /\ Counted' = Counted \ {c}
          /\ num_client' = [num_client EXCEPT ![v] = num_client[v] - 1]
          /\ home' = home
    BY <1>4 DEF CountsLose
  <2>2. num_client \in [Workers -> Nat]
    BY DEF TypeOK
  <2>3. CountedOn(v)' = CountedOn(v) \ {c}
    BY <2>1 DEF CountedOn
  <2>4. Cardinality(CountedOn(v)') = Cardinality(CountedOn(v)) - 1
    BY <1>1, <2>3, CardRemove
  <2>5. \A w \in Workers : w # v => CountedOn(w)' = CountedOn(w)
    BY <2>1 DEF CountedOn
  <2>6. ASSUME NEW w \in Workers PROVE num_client'[w] = Cardinality(CountedOn(w)')
    BY <2>1, <2>2, <2>4, <2>5 DEF CountExact
  <2>7. QED
    BY <2>6 DEF CountExact
<1>5. QED
  BY <1>2, <1>3, <1>4

\* Between its turn and its count, the connection at hand sees connections leave but
\* none arrive.
LEMMA HandlerViewStep ==
  ASSUME TypeOK, Locks, AcceptStages, ReleaseStages, CountExact, HandlerView,
         [Next]_vars
  PROVE  HandlerView'
<1>1. StoreIncrease \/ Counted' \subseteq Counted
  BY CountMoves DEF CountsKept, CountsLose
<1>2. ASSUME NEW c \in Conns, Accept(c) PROVE HandlerView'
  <2>1. before' = Counted /\ Counted' \subseteq Counted /\ client' = {c}
    BY <1>1, <1>2 DEF Accept, StoreIncrease
  <2>2. c \notin Counted
    BY <1>2 DEF Accept, Counted
  <2>3. QED
    BY <2>1, <2>2 DEF HandlerView
<1>3. CASE StoreIncrease
  BY <1>3 DEF StoreIncrease, HandlerView
<1>4. CASE Enable \/ Refuse
  BY <1>4 DEF Enable, Refuse, HandlerReturns, HandlerView
<1>5. ASSUME UNCHANGED <<client, before>>, ~ StoreIncrease,
             apc = "dispatch" => apc' = "dispatch",
             apc = "enable" => apc' = "enable"
      PROVE  HandlerView'
  BY <1>1, <1>5 DEF HandlerView
<1>6. CASE SumStep \/ CheckLimit \/ UpdatePeak \/ LeastStep \/ Place \/ LockForIncrease
  BY <1>5, <1>6 DEF SumStep, CheckLimit, UpdatePeak, LeastStep, Place, LockForIncrease,
     StoreIncrease
<1>7. CASE UNCHANGED acceptVars
  <2>1. CASE StoreIncrease
    BY <1>3, <2>1
  <2>2. CASE ~ StoreIncrease
    BY <1>5, <1>7, <2>2 DEF acceptVars
  <2>3. QED
    BY <2>1, <2>2
<1>8. QED
  BY <1>2, <1>3, <1>4, <1>6, <1>7
     DEF Next, AcceptHandler, ReleaseHandler, Arrive, BeginRelease, LockForDecrease,
         StoreDecrease, LoadCurCount, StoreCurCount, vars

\* Outside StoreIncrease connections only leave and counts only fall.
LEMMA CountsFall ==
  ASSUME TypeOK, Locks, AcceptStages, ReleaseStages, CountExact, HandlerView,
         [Next]_vars, ~ StoreIncrease
  PROVE  /\ Counted' \subseteq Counted
         /\ \A c \in Counted \cup before : home'[c] = home[c]
         /\ \A w \in Workers : num_client'[w] \in Int /\ num_client'[w] <= num_client[w]
<1>1. num_client \in [Workers -> Nat]
  BY DEF TypeOK
<1>2. CASE CountsKept
  BY <1>1, <1>2 DEF CountsKept
<1>3. ASSUME NEW v \in Workers, CountsLose(v)
      PROVE  /\ Counted' \subseteq Counted
             /\ home' = home
             /\ \A w \in Workers : num_client'[w] \in Int /\ num_client'[w] <= num_client[w]
  <2>1. /\ Counted' \subseteq Counted
        /\ home' = home
        /\ num_client' = [num_client EXCEPT ![v] = num_client[v] - 1]
    BY <1>3 DEF CountsLose
  <2>2. QED
    BY <1>1, <2>1
<1>4. QED
  BY <1>2, <1>3, CountMoves

\* The sets that the sum and the search compare with are sets of connections, and
\* while the handler runs a worker counts no more than it did when it began.
LEMMA ViewSizes ==
  ASSUME TypeOK, CountExact, HandlerView, apc \notin {"dispatch", "enable"}
  PROVE  \A w \in Workers :
           /\ num_client[w] = Cardinality(CountedOn(w))
           /\ num_client[w] <= Cardinality(BeforeOn(w))
           /\ Cardinality(BeforeOn(w)) \in Nat
<1>1. ASSUME NEW w \in Workers
      PROVE  BeforeOn(w) \in SUBSET Conns /\ CountedOn(w) \in SUBSET BeforeOn(w)
  BY DEF BeforeOn, CountedOn, HandlerView, TypeOK
<1>2. QED
  BY <1>1, CardSubset DEF CountExact

\* One more worker in the sum: its count joins both bounds.
LEMMA SumOneMore ==
  ASSUME TypeOK, CountExact, HandlerView, SumBounds, SumStep
  PROVE  SumBounds'
<1>1. PICK i \in Workers : i = idx
  BY WorkerCountAssumption DEF TypeOK, SumStep, Workers
<1>2. i \in Nat /\ \A c \in Conns : home[c] \in Nat
  BY WorkerCountAssumption DEF TypeOK, Workers
<1>3. Counted \in SUBSET Conns /\ before \in SUBSET Conns
  BY DEF Counted, TypeOK
<1>4. /\ CountedBelow(i) \in SUBSET Conns /\ CountedOn(i) \in SUBSET Conns
      /\ CountedBelow(i) \cap CountedOn(i) = {}
      /\ CountedBelow(i + 1) = CountedBelow(i) \cup CountedOn(i)
  BY <1>2, <1>3 DEF CountedBelow, CountedOn
<1>5. /\ BeforeBelow(i) \in SUBSET Conns /\ BeforeOn(i) \in SUBSET Conns
      /\ BeforeBelow(i) \cap BeforeOn(i) = {}
      /\ BeforeBelow(i + 1) = BeforeBelow(i) \cup BeforeOn(i)
  BY <1>2, <1>3 DEF BeforeBelow, BeforeOn
<1>6. /\ Cardinality(CountedBelow(i + 1)) =
           Cardinality(CountedBelow(i)) + Cardinality(CountedOn(i))
      /\ Cardinality(BeforeBelow(i + 1)) =
           Cardinality(BeforeBelow(i)) + Cardinality(BeforeOn(i))
  BY <1>4, <1>5, CardUnion
<1>7. /\ Cardinality(CountedBelow(i)) \in Nat /\ Cardinality(CountedOn(i)) \in Nat
      /\ Cardinality(BeforeBelow(i)) \in Nat /\ Cardinality(BeforeOn(i)) \in Nat
  BY <1>4, <1>5, CardSubset
<1>8. /\ num_client[i] = Cardinality(CountedOn(i))
      /\ num_client[i] <= Cardinality(BeforeOn(i))
  BY ViewSizes DEF SumStep
<1>9. /\ Cardinality(CountedBelow(i)) <= cons
      /\ cons <= Cardinality(BeforeBelow(i))
      /\ cons \in Nat
  BY <1>1 DEF SumStep, SumBounds, TypeOK
<1>10. cons' = cons + num_client[i] /\ idx' = i + 1
  BY <1>1 DEF SumStep
<1>11. /\ Cardinality(CountedBelow(i + 1)) <= cons'
       /\ cons' <= Cardinality(BeforeBelow(i + 1))
  BY <1>6, <1>7, <1>8, <1>9, <1>10
<1>12. CountedBelow(i + 1)' = CountedBelow(i + 1) /\ BeforeBelow(i + 1)' = BeforeBelow(i + 1)
  BY DEF SumStep, connVars, CountedBelow, BeforeBelow, Counted
<1>13. CountedBelow(idx)' = CountedBelow(i + 1)' /\ BeforeBelow(idx)' = BeforeBelow(i + 1)'
  BY <1>10 DEF CountedBelow, BeforeBelow
<1>14. QED
  BY <1>11, <1>12, <1>13 DEF SumBounds

\* The sum stays within its bounds: clients that leave only lower the smaller one.
LEMMA SumBoundsStep ==
  ASSUME TypeOK, Locks, AcceptStages, ReleaseStages, CountExact, HandlerView, SumBounds,
         [Next]_vars
  PROVE  SumBounds'
<1>1. CASE SumStep
  BY <1>1, SumOneMore
<1>2. ASSUME NEW c \in Conns, Accept(c) PROVE SumBounds'
  <2>1. idx' = 0 /\ cons' = 0 /\ \A d \in Conns : home'[d] \in Nat
    BY <1>2, WorkerCountAssumption DEF Accept, TypeOK, Workers
  <2>2. before' \in SUBSET Conns
    BY <1>2 DEF Accept, Counted
  <2>3. CountedBelow(idx)' = {} /\ BeforeBelow(idx)' = {}
    BY <2>1, <2>2 DEF CountedBelow, BeforeBelow, Counted
  <2>4. QED
    BY <2>1, <2>3, FS_EmptySet DEF SumBounds
<1>3. ASSUME UNCHANGED acceptVars, ~ StoreIncrease, apc = "sum" PROVE SumBounds'
  <2>1. idx' = idx /\ cons' = cons /\ before' = before /\ cons \in Nat
    BY <1>3 DEF acceptVars, TypeOK
  <2>2. /\ Counted' \subseteq Counted
        /\ \A c \in Counted \cup before : home'[c] = home[c]
    BY <1>3, CountsFall
  <2>3. CountedBelow(idx) \in SUBSET Conns /\ CountedBelow(idx)' \subseteq CountedBelow(idx)
    BY <2>1, <2>2 DEF CountedBelow, Counted
  <2>4. BeforeBelow(idx)' = BeforeBelow(idx)
    BY <2>1, <2>2 DEF BeforeBelow
  <2>5. /\ Cardinality(CountedBelow(idx)') <= Cardinality(CountedBelow(idx))
        /\ Cardinality(CountedBelow(idx)') \in Nat /\ Cardinality(CountedBelow(idx)) \in Nat
    BY <2>3, CardSubset
  <2>6. Cardinality(CountedBelow(idx)) <= cons /\ cons <= Cardinality(BeforeBelow(idx))
    BY <1>3 DEF SumBounds
  <2>7. Cardinality(CountedBelow(idx)') <= cons' /\ cons' <= Cardinality(BeforeBelow(idx)')
    BY <2>1, <2>4, <2>5, <2>6
  <2>8. QED
    BY <2>7 DEF SumBounds
<1>4. ASSUME apc' # "sum" PROVE SumBounds'
  BY <1>4 DEF SumBounds
<1>5. CASE CheckLimit \/ UpdatePeak \/ LeastStep \/ Place \/ LockForIncrease
           \/ StoreIncrease \/ Enable \/ Refuse
  BY <1>4, <1>5 DEF CheckLimit, UpdatePeak, LeastStep, Place, LockForIncrease,
     StoreIncrease, Enable, Refuse, HandlerReturns
<1>6. CASE UNCHANGED acceptVars
  <2>1. CASE StoreIncrease
    BY <1>5, <2>1
  <2>2. CASE apc # "sum"
    BY <1>4, <1>6, <2>2 DEF acceptVars
  <2>3. QED
    BY <1>3, <1>6, <2>1, <2>2
<1>7. QED
  BY <1>1, <1>2, <1>5, <1>6
     DEF Next, AcceptHandler, ReleaseHandler, Arrive, BeginRelease, LockForDecrease,
         StoreDecrease, LoadCurCount, StoreCurCount, vars

\* At the end of the loop the bounds speak of all workers.
LEMMA SumComplete ==
  ASSUME TypeOK, SumBounds, apc = "sum", idx = WorkerCount
  PROVE  /\ Cardinality(Counted) <= cons
         /\ cons <= Cardinality(before)
         /\ Cardinality(Counted) \in Nat
         /\ Cardinality(before) \in Nat
<1>1. \A c \in Conns : home[c] < WorkerCount
  BY WorkerCountAssumption DEF TypeOK, Workers
<1>2. CountedBelow(idx) = Counted /\ BeforeBelow(idx) = before
  BY <1>1 DEF CountedBelow, BeforeBelow, Counted, TypeOK
<1>3. Counted \in SUBSET Conns /\ before \in SUBSET Conns
  BY DEF Counted, TypeOK
<1>4. QED
  BY <1>2, <1>3, CardSubset DEF SumBounds

\* A refusal has a cause.
LEMMA NoSpuriousRefusalStep ==
  ASSUME TypeOK, SumBounds, NoSpuriousRefusal, [Next]_vars
  PROVE  NoSpuriousRefusal'
<1>1. CASE CheckLimit
  <2>1. CASE LimitReached(cons)
    <3>1. Cardinality(before) >= MaxConn
      BY <1>1, <2>1, SumComplete, MaxConnAssumption DEF CheckLimit, LimitReached, TypeOK
    <3>2. QED
      BY <1>1, <3>1 DEF CheckLimit, NoSpuriousRefusal
  <2>2. CASE ~ LimitReached(cons)
    BY <1>1, <2>2 DEF CheckLimit, NoSpuriousRefusal
  <2>3. QED
    BY <2>1, <2>2
<1>2. ASSUME NEW c \in Conns, Accept(c) PROVE NoSpuriousRefusal'
  BY <1>2 DEF Accept, NoSpuriousRefusal
<1>3. CASE SumStep \/ UpdatePeak \/ LeastStep \/ Place \/ LockForIncrease
           \/ StoreIncrease \/ Enable \/ Refuse
  BY <1>3 DEF SumStep, UpdatePeak, LeastStep, Place, LockForIncrease, StoreIncrease,
     Enable, Refuse, HandlerReturns, NoSpuriousRefusal
<1>4. CASE UNCHANGED acceptVars
  BY <1>4 DEF acceptVars, NoSpuriousRefusal
<1>5. QED
  BY <1>1, <1>2, <1>3, <1>4
     DEF Next, AcceptHandler, ReleaseHandler, Arrive, BeginRelease, LockForDecrease,
         StoreDecrease, LoadCurCount, StoreCurCount, vars

\* The place that the check found free is still free when it is taken.
LEMMA PlaceKeptStep ==
  ASSUME TypeOK, Locks, AcceptStages, ReleaseStages, CountExact, HandlerView, SumBounds,
         PlaceKept, [Next]_vars
  PROVE  PlaceKept'
<1>1. Counted \in SUBSET Conns /\ Cardinality(Counted) \in Nat
  BY CardSubset DEF Counted
<1>2. CASE StoreIncrease
  <2>1. PICK c \in client : c \notin Counted /\ Counted' = Counted \cup {c}
    BY <1>2, IncreaseGains DEF CountsGain
  <2>2. Cardinality(Counted') = Cardinality(Counted) + 1
    BY <1>1, <2>1, CardAdd DEF TypeOK
  <2>3. Cardinality(Counted) < MaxConn /\ apc' = "enable"
    BY <1>2 DEF StoreIncrease, PlaceKept
  <2>4. QED
    BY <1>1, <2>2, <2>3, MaxConnAssumption DEF PlaceKept
<1>3. CASE ~ StoreIncrease
  <2>1. Counted' \subseteq Counted
    BY <1>3, CountsFall
  <2>2. Cardinality(Counted') <= Cardinality(Counted) /\ Cardinality(Counted') \in Nat
    BY <1>1, <2>1, CardSubset
  <2>3. Cardinality(Counted') <= MaxConn
    BY <1>1, <2>2, MaxConnAssumption DEF PlaceKept
  <2>4. ASSUME apc' \in {"peak", "least", "lock", "store"}
        PROVE  Cardinality(Counted') < MaxConn
    <3>1. CASE CheckLimit
      <4>1. ~ LimitReached(cons)
        BY <2>4, <3>1 DEF CheckLimit
      <4>2. Cardinality(Counted) <= cons /\ cons \in Nat
        BY <3>1, SumComplete DEF CheckLimit, TypeOK
      <4>3. QED
        BY <1>1, <2>2, <4>1, <4>2, MaxConnAssumption DEF LimitReached
    <3>2. CASE apc \in {"peak", "least", "lock", "store"}
      BY <1>1, <2>2, <3>2, MaxConnAssumption DEF PlaceKept
    <3>3. CASE ~ CheckLimit /\ apc \notin {"peak", "least", "lock", "store"}
      BY <2>4, <3>3
         DEF Next, AcceptHandler, ReleaseHandler, Arrive, Accept, SumStep, UpdatePeak,
             LeastStep, Place, LockForIncrease, StoreIncrease, Enable, Refuse,
             HandlerReturns, BeginRelease, LockForDecrease, StoreDecrease, LoadCurCount,
             StoreCurCount, vars, acceptVars
    <3>4. QED
      BY <3>1, <3>2, <3>3
  <2>5. QED
    BY <2>3, <2>4 DEF PlaceKept
<1>4. QED
  BY <1>2, <1>3

\* What the search read stays an upper bound of what is there, and its choice the best.
LEMMA ScanBoundsStep ==
  ASSUME TypeOK, Locks, AcceptStages, ReleaseStages, CountExact, HandlerView, ScanBounds,
         [Next]_vars
  PROVE  ScanBounds'
<1>1. ASSUME apc' # "least" PROVE ScanBounds'
  BY <1>1 DEF ScanBounds
<1>2. CASE UpdatePeak
  <2>1. /\ best' = 0 /\ idx' = 1 /\ seen' = num_client
        /\ UNCHANGED <<num_client, before, home>>
    BY <1>2 DEF UpdatePeak, connVars, countVars
  <2>2. \A w \in Workers : BeforeOn(w)' = BeforeOn(w)
    BY <2>1 DEF BeforeOn
  <2>3. \A w \in Workers :
          num_client[w] \in Nat /\ num_client[w] <= Cardinality(BeforeOn(w))
    BY <1>2, ViewSizes DEF UpdatePeak, TypeOK
  <2>4. 0 \in Workers /\ \A w \in Workers : w < 1 => w = 0
    BY WorkerCountAssumption DEF Workers
  <2>5. QED
    BY <2>1, <2>2, <2>3, <2>4 DEF ScanBounds
<1>3. CASE LeastStep
  <2>1. PICK i \in Workers : i = idx
    BY <1>3, WorkerCountAssumption DEF LeastStep, TypeOK, Workers
  <2>2. PICK b \in Workers : b = best
    BY DEF TypeOK
  <2>3. /\ \A w \in Workers : num_client[w] \in Nat /\ seen[w] \in Nat
        /\ seen \in [Workers -> Nat]
        /\ \A w \in Workers : w \in Nat
    BY WorkerCountAssumption DEF TypeOK, Workers
  <2>4. PICK l \in num_client[b] .. seen[b], r \in num_client[i] .. seen[i] :
          /\ best' = IF l > r THEN i ELSE b
          /\ seen' = [seen EXCEPT ![b] = l, ![i] = r]
    BY <1>3, <2>1, <2>2 DEF LeastStep
  <2>5. /\ idx' = i + 1
        /\ UNCHANGED <<num_client, before, home>>
    BY <1>3, <2>1 DEF LeastStep, connVars, countVars
  <2>6. /\ b < i
        /\ \A w \in Workers : num_client[w] <= seen[w]
        /\ \A w \in Workers : seen[w] <= Cardinality(BeforeOn(w))
        /\ \A w \in Workers : w < i => seen[b] <= Cardinality(BeforeOn(w))
    BY <1>3, <2>1, <2>2 DEF LeastStep, ScanBounds
  <2>7. \A w \in Workers : Cardinality(BeforeOn(w)) \in Nat
    BY <1>3, ViewSizes DEF LeastStep
  <2>8. /\ l \in Nat /\ num_client[b] <= l /\ l <= seen[b]
        /\ r \in Nat /\ num_client[i] <= r /\ r <= seen[i]
    BY <2>3, <2>4
  <2>9. \A w \in Workers : seen'[w] = IF w = i THEN r ELSE IF w = b THEN l ELSE seen[w]
    BY <2>3, <2>4, <2>6
  <2>10. \A w \in Workers : BeforeOn(w)' = BeforeOn(w)
    BY <2>5 DEF BeforeOn
  <2>11. best' < idx'
    BY <2>3, <2>4, <2>5, <2>6
  <2>12. \A w \in Workers : num_client'[w] <= seen'[w]
    BY <2>5, <2>6, <2>8, <2>9
  <2>13. \A w \in Workers : seen'[w] <= Cardinality(BeforeOn(w))
    BY <2>3, <2>6, <2>7, <2>8, <2>9
  <2>14. ASSUME NEW w \in Workers, w < idx' PROVE seen'[best'] <= Cardinality(BeforeOn(w))
    <3>1. w < i \/ w = i
      BY <2>3, <2>5, <2>14
    <3>2. CASE l > r
      <4>1. seen'[best'] = r
        BY <2>4, <2>9, <3>2
      <4>2. r <= seen[b] /\ r <= seen[i]
        BY <2>3, <2>8, <3>2
      <4>3. QED
        BY <2>3, <2>6, <2>7, <2>8, <3>1, <4>1, <4>2
    <3>3. CASE ~ (l > r)
      <4>1. seen'[best'] = l
        BY <2>3, <2>4, <2>6, <2>9, <3>3
      <4>2. l <= seen[b] /\ l <= seen[i]
        BY <2>3, <2>8, <3>3
      <4>3. QED
        BY <2>3, <2>6, <2>7, <2>8, <3>1, <4>1, <4>2
    <3>4. QED
      BY <3>2, <3>3
  <2>15. QED
    BY <2>10, <2>11, <2>12, <2>13, <2>14 DEF ScanBounds
<1>4. ASSUME UNCHANGED acceptVars, ~ StoreIncrease, apc = "least" PROVE ScanBounds'
  <2>1. UNCHANGED <<best, idx, seen, before>>
    BY <1>4 DEF acceptVars
  <2>2. \A c \in before : home'[c] = home[c]
    BY <1>4, CountsFall
  <2>3. \A w \in Workers : BeforeOn(w)' = BeforeOn(w)
    BY <2>1, <2>2 DEF BeforeOn
  <2>4. \A w \in Workers : num_client'[w] \in Int /\ num_client'[w] <= num_client[w]
    BY <1>4, CountsFall
  <2>5. \A w \in Workers : num_client[w] \in Nat /\ seen[w] \in Nat
    BY DEF TypeOK
  <2>6. \A w \in Workers : num_client'[w] <= seen[w]
    BY <1>4, <2>4, <2>5 DEF ScanBounds
  <2>7. QED
    BY <1>4, <2>1, <2>3, <2>6 DEF ScanBounds
<1>5. CASE SumStep \/ CheckLimit \/ Place \/ LockForIncrease \/ StoreIncrease \/ Enable
           \/ Refuse \/ \E c \in Conns : Accept(c)
  BY <1>1, <1>5 DEF SumStep, CheckLimit, Place, LockForIncrease, StoreIncrease, Enable,
     Refuse, HandlerReturns, Accept
<1>6. CASE UNCHANGED acceptVars
  <2>1. CASE StoreIncrease
    BY <1>5, <2>1
  <2>2. CASE apc # "least"
    BY <1>1, <1>6, <2>2 DEF acceptVars
  <2>3. QED
    BY <1>4, <1>6, <2>1, <2>2
<1>7. QED
  BY <1>2, <1>3, <1>5, <1>6
     DEF Next, AcceptHandler, ReleaseHandler, Arrive, BeginRelease, LockForDecrease,
         StoreDecrease, LoadCurCount, StoreCurCount, vars

\* The worker chosen stays the best choice while its lock is waited for.
LEMMA LeastLoadedStep ==
  ASSUME TypeOK, Locks, AcceptStages, ReleaseStages, CountExact, HandlerView, ScanBounds,
         LeastLoaded, [Next]_vars
  PROVE  LeastLoaded'
<1>1. ASSUME apc' \notin {"lock", "store"} PROVE LeastLoaded'
  BY <1>1 DEF LeastLoaded
<1>2. CASE Place
  <2>1. PICK b \in Workers : b = best
    BY DEF TypeOK
  <2>2. \A w \in Workers : w < idx /\ Cardinality(BeforeOn(w)) \in Nat
    BY <1>2, ViewSizes, WorkerCountAssumption DEF Place, Workers
  <2>3. \A w \in Workers : num_client[b] <= seen[b] /\ seen[b] <= Cardinality(BeforeOn(w))
    BY <1>2, <2>1, <2>2 DEF Place, ScanBounds
  <2>4. num_client[b] \in Nat /\ seen[b] \in Nat
    BY DEF TypeOK
  <2>5. \A w \in Workers : num_client[b] <= Cardinality(BeforeOn(w))
    BY <2>2, <2>3, <2>4
  <2>6. \A c \in before : c \in Conns /\ home'[c] = home[c]
    BY <1>2 DEF Place, HandlerView, TypeOK
  <2>7. \A w \in Workers : BeforeOn(w)' = BeforeOn(w)
    BY <1>2, <2>6 DEF Place, BeforeOn
  <2>8. best' = b /\ num_client' = num_client
    BY <1>2, <2>1 DEF Place, countVars
  <2>9. QED
    BY <2>5, <2>7, <2>8 DEF LeastLoaded, BeforeOn
<1>3. ASSUME UNCHANGED <<best, before>>, ~ StoreIncrease, apc \in {"lock", "store"}
      PROVE  LeastLoaded'
  <2>1. PICK b \in Workers : b = best
    BY DEF TypeOK
  <2>2. \A c \in before : home'[c] = home[c]
    BY <1>3, CountsFall
  <2>3. \A w \in Workers : BeforeOn(w)' = BeforeOn(w)
    BY <1>3, <2>2 DEF BeforeOn
  <2>4. num_client'[b] \in Int /\ num_client'[b] <= num_client[b] /\ num_client[b] \in Nat
    BY <1>3, CountsFall DEF TypeOK
  <2>5. \A w \in Workers : Cardinality(BeforeOn(w)) \in Nat
    BY <1>3, ViewSizes
  <2>6. \A w \in Workers : num_client[b] <= Cardinality(BeforeOn(w))
    BY <1>3, <2>1 DEF LeastLoaded, BeforeOn
  <2>7. \A w \in Workers : num_client'[b] <= Cardinality(BeforeOn(w))
    BY <2>4, <2>5, <2>6
  <2>8. QED
    BY <1>3, <2>1, <2>3, <2>7 DEF LeastLoaded, BeforeOn
<1>4. CASE LockForIncrease
  BY <1>3, <1>4 DEF LockForIncrease, StoreIncrease
<1>5. CASE SumStep \/ CheckLimit \/ UpdatePeak \/ LeastStep \/ StoreIncrease \/ Enable
           \/ Refuse \/ \E c \in Conns : Accept(c)
  BY <1>1, <1>5 DEF SumStep, CheckLimit, UpdatePeak, LeastStep, StoreIncrease, Enable,
     Refuse, HandlerReturns, Accept
<1>6. CASE UNCHANGED acceptVars
  <2>1. CASE StoreIncrease
    BY <1>5, <2>1
  <2>2. CASE apc \notin {"lock", "store"}
    BY <1>1, <1>6, <2>2 DEF acceptVars
  <2>3. QED
    BY <1>3, <1>6, <2>1, <2>2 DEF acceptVars
<1>7. QED
  BY <1>2, <1>4, <1>5, <1>6
     DEF Next, AcceptHandler, ReleaseHandler, Arrive, BeginRelease, LockForDecrease,
         StoreDecrease, LoadCurCount, StoreCurCount, vars

-----------------------------------------------------------------------------
(* The invariant. *)

\* The program starts with no connection and no client counted.
LEMMA InitInv == Init => IInv
<1> SUFFICES ASSUME Init PROVE IInv
  OBVIOUS
<1>1. TypeOK
  BY WorkerCountAssumption, CountModAssumption DEF Init, TypeOK, Stages, Workers
<1>2. Counted = {} /\ \A w \in Workers : CountedOn(w) = {}
  BY DEF Init, Counted, CountedOn
<1>3. Cardinality({}) = 0
  BY FS_EmptySet
<1>4. CountExact
  BY <1>2, <1>3 DEF CountExact, Init
<1>5. PlaceKept
  BY <1>2, <1>3, MaxConnAssumption DEF PlaceKept, Init
<1>6. Locks /\ AcceptStages /\ ReleaseStages
  BY DEF Init, Locks, AcceptStages, ReleaseStages
<1>7. HandlerView /\ SumBounds /\ NoSpuriousRefusal /\ ScanBounds /\ LeastLoaded
  BY DEF Init, HandlerView, SumBounds, NoSpuriousRefusal, ScanBounds, LeastLoaded
<1>8. QED
  BY <1>1, <1>4, <1>5, <1>6, <1>7 DEF IInv

\* The conjunction of the invariants is inductive.
LEMMA NextInv == IInv /\ [Next]_vars => IInv'
<1> SUFFICES ASSUME IInv, [Next]_vars PROVE IInv'
  OBVIOUS
<1> USE DEF IInv
<1>1. TypeOK'
  BY TypeStep
<1>2. Locks'
  BY LocksStep
<1>3. AcceptStages'
  BY AcceptStagesStep
<1>4. ReleaseStages'
  BY ReleaseStagesStep
<1>5. CountExact'
  BY CountMoves, CountExactStep
<1>6. HandlerView'
  BY HandlerViewStep
<1>7. SumBounds'
  BY SumBoundsStep
<1>8. NoSpuriousRefusal'
  BY NoSpuriousRefusalStep
<1>9. PlaceKept'
  BY PlaceKeptStep
<1>10. ScanBounds'
  BY ScanBoundsStep
<1>11. LeastLoaded'
  BY LeastLoadedStep
<1>12. QED
  BY <1>1, <1>2, <1>3, <1>4, <1>5, <1>6, <1>7, <1>8, <1>9, <1>10, <1>11

\* The conjunction holds in every reachable state (server.c:143, server.c:189).
THEOREM Invariant == SafeSpec => []IInv
BY InitInv, NextInv, PTL DEF SafeSpec

\* Every variable keeps its type; above all num_client, a uint32_t, never goes below
\* zero (worker.c:39).
THEOREM TypeCorrect == SafeSpec => []TypeOK
<1>1. IInv => TypeOK
  BY DEF IInv
<1>2. QED
  BY <1>1, Invariant, PTL

\* worker_t.num_client counts the worker's clients exactly (worker.c:32, worker.c:39).
THEOREM CountsExact == SafeSpec => []CountExact
<1>1. IInv => CountExact
  BY DEF IInv
<1>2. QED
  BY <1>1, Invariant, PTL

\* The limit holds although it is checked against counts that are read one after the
\* other without their locks (server.c:153).
THEOREM LimitHolds == SafeSpec => []ConnLimit
<1>1. IInv => ConnLimit
  <2> SUFFICES ASSUME IInv PROVE ConnLimit
    OBVIOUS
  <2>1. Counted \in SUBSET Conns /\ Cardinality(Counted) \in Nat
    BY CardSubset DEF Counted
  <2>2. Cardinality(Counted) <= MaxConn
    BY DEF IInv, PlaceKept
  <2>3. CASE \E c \in Conns : conn[c] = "admitted"
    <3>1. PICK c \in Conns : conn[c] = "admitted"
      BY <2>3
    <3>2. \A d \in Conns : conn[d] = "admitted" <=> d = c
      BY <3>1 DEF IInv, AcceptStages
    <3>3. Admitted = Counted \cup {c} /\ c \notin Counted
      BY <3>1, <3>2 DEF Admitted, Counted
    <3>4. Cardinality(Admitted) = Cardinality(Counted) + 1
      BY <2>1, <3>3, CardAdd
    <3>5. Cardinality(Counted) < MaxConn
      BY <3>1 DEF IInv, AcceptStages, PlaceKept
    <3>6. QED
      BY <2>1, <3>4, <3>5, MaxConnAssumption DEF ConnLimit
  <2>4. CASE ~ \E c \in Conns : conn[c] = "admitted"
    <3>1. Admitted = Counted
      BY <2>4 DEF Admitted
    <3>2. QED
      BY <2>2, <3>1 DEF ConnLimit
  <2>5. QED
    BY <2>3, <2>4
<1>2. QED
  BY <1>1, Invariant, PTL

\* Nobody is refused while there is room (server.c:155).
THEOREM RefusalsJustified == SafeSpec => []NoSpuriousRefusal
<1>1. IInv => NoSpuriousRefusal
  BY DEF IInv
<1>2. QED
  BY <1>1, Invariant, PTL

\* The unlocked search for the least loaded worker is not misled (server.c:77).
THEOREM PlacementBalanced == SafeSpec => []LeastLoaded
<1>1. IInv => LeastLoaded
  BY DEF IInv
<1>2. QED
  BY <1>1, Invariant, PTL

-----------------------------------------------------------------------------
(* The threads implement the admission control of module Admission. *)

\* The instance of Admission has its own copy of Cardinality, the same function.
LEMMA CardSame ==
  ASSUME NEW S
  PROVE  Adm!Cardinality(S) = Cardinality(S)
BY DEF Adm!Cardinality, Cardinality

\* A step after which every connection is in the same of the abstract sets, and the
\* handler sees the same, is a step that Admission does not see.
LEMMA StutterMaps ==
  ASSUME Waiting' = Waiting, Asking' = Asking, Admitted' = Admitted,
         Asking # {} => before' = before
  PROVE  UNCHANGED Adm!vars
BY DEF Adm!vars, Present

\* Nobody waits, asks or is admitted at the start.
LEMMA InitMaps == Init => Adm!Init
BY DEF Init, Adm!Init, Waiting, Asking, Present, Admitted, Counted

\* What the stages say about the sets of Admission.
LEMMA Views ==
  ASSUME IInv
  PROVE  /\ Asking = IF apc \in {"sum", "refuse"} THEN client ELSE {}
         /\ \A c \in client : /\ c \in Conns
                              /\ client = {c}
                              /\ apc \in {"sum", "refuse"} => conn[c] = "accepting"
                              /\ apc \in {"peak", "least", "lock", "store"} =>
                                   conn[c] = "admitted"
                              /\ apc = "enable" => conn[c] = "counted"
         /\ apc # "dispatch" <=> client # {}
<1>1. client \in SUBSET Conns
  BY DEF IInv, TypeOK
<1>2. QED
  BY <1>1 DEF IInv, AcceptStages, Asking

\* Every step of the threads is a step of Admission or a stutter.
LEMMA NextMaps == IInv /\ IInv' /\ [Next]_vars => [Adm!Next]_Adm!vars
<1> SUFFICES ASSUME IInv, IInv', [Next]_vars PROVE [Adm!Next]_Adm!vars
  OBVIOUS
<1>0. conn \in [Conns -> Stages]
  BY DEF IInv, TypeOK
<1>1. ASSUME NEW c \in Conns, Arrive(c) PROVE Adm!Knock(c)
  <2>1. /\ conn[c] = "away" /\ conn'[c] = "backlog"
        /\ \A d \in Conns : d # c => conn'[d] = conn[d]
        /\ before' = before
    BY <1>0, <1>1 DEF Arrive, acceptVars
  <2>2. c \notin Waiting \cup Asking \cup Admitted
    BY <2>1 DEF Waiting, Asking, Admitted, Counted
  <2>3. /\ Waiting' = Waiting \cup {c} /\ Asking' = Asking /\ Admitted' = Admitted
        /\ Present' = Present
    BY <2>1 DEF Waiting, Asking, Admitted, Counted, Present
  <2>4. QED
    BY <2>1, <2>2, <2>3 DEF Adm!Knock
<1>2. ASSUME NEW c \in Conns, Accept(c) PROVE Adm!Ask(c)
  <2>1. /\ conn[c] = "backlog" /\ conn'[c] = "accepting"
        /\ \A d \in Conns : d # c => conn'[d] = conn[d]
        /\ before' = Counted /\ apc = "dispatch"
    BY <1>0, <1>2 DEF Accept
  <2>2. Asking = {}
    BY <2>1, Views
  <2>3. Admitted = Counted
    BY <2>1 DEF Admitted, IInv, AcceptStages
  <2>4. Waiting' = Waiting \ {c} /\ Asking' = {c} /\ Admitted' = Admitted /\ c \in Waiting
    BY <2>1, <2>2 DEF Waiting, Asking, Admitted, Counted
  <2>5. Present' = Admitted
    BY <2>1, <2>3, <2>4 DEF Present
  <2>6. QED
    BY <2>2, <2>4, <2>5 DEF Adm!Ask
<1>3. ASSUME CheckLimit, ~ LimitReached(cons) PROVE \E c \in Conns : Adm!Admit(c)
  <2>1. PICK c \in Conns : client = {c} /\ conn[c] = "accepting"
    BY <1>3, Views DEF CheckLimit
  <2>2. /\ conn'[c] = "admitted" /\ \A d \in Conns : d # c => conn'[d] = conn[d]
        /\ before' = before
    BY <1>3, <2>1 DEF CheckLimit
  <2>3. Asking = {c}
    BY <1>3, <2>1, Views DEF CheckLimit
  <2>4. Waiting' = Waiting /\ Asking' = {} /\ Admitted' = Admitted \cup {c}
    BY <2>1, <2>2, <2>3 DEF Waiting, Asking, Admitted, Counted
  <2>5. Admitted = Counted
    BY <1>3 DEF Admitted, IInv, AcceptStages, CheckLimit
  <2>6. Cardinality(Counted) < MaxConn
    <3>1. /\ Cardinality(Counted) <= cons /\ Cardinality(Counted) \in Nat
          /\ cons \in Nat
      BY <1>3, SumComplete DEF CheckLimit, IInv, TypeOK
    <3>2. QED
      BY <1>3, <3>1, MaxConnAssumption DEF LimitReached
  <2>7. Present' = {}
    BY <2>4 DEF Present
  <2>8. Cardinality(Admitted) < MaxConn
    BY <2>5, <2>6
  <2>9. Adm!Admit(c)
    BY <2>3, <2>4, <2>7, <2>8, CardSame DEF Adm!Admit
  <2>10. QED
    BY <2>9
<1>4. ASSUME Refuse PROVE \E c \in Conns : Adm!Refuse(c)
  <2>1. PICK c \in Conns : client = {c} /\ conn[c] = "accepting"
    BY <1>4, Views DEF Refuse
  <2>2. conn'[c] = "away" /\ \A d \in Conns : d # c => conn'[d] = conn[d]
    BY <1>4, <2>1 DEF Refuse
  <2>3. Asking = {c}
    BY <1>4, <2>1, Views DEF Refuse
  <2>4. Waiting' = Waiting /\ Asking' = {} /\ Admitted' = Admitted
    BY <2>1, <2>2, <2>3 DEF Waiting, Asking, Admitted, Counted
  <2>5. Cardinality(Present) >= MaxConn
    BY <1>4, <2>3 DEF Refuse, IInv, NoSpuriousRefusal, Present
  <2>6. Present' = {}
    BY <2>4 DEF Present
  <2>7. Adm!Refuse(c)
    BY <2>3, <2>4, <2>5, <2>6, CardSame DEF Adm!Refuse
  <2>8. QED
    BY <2>7
<1>5. ASSUME NEW w \in Workers, StoreDecrease(w) PROVE \E c \in Conns : Adm!Leave(c)
  <2>1. PICK c \in Conns : victim[w] = {c} /\ c \in CountedOn(w)
    BY <1>5, VictimCounted DEF StoreDecrease, IInv
  <2>2. conn[c] = "closing"
    BY <1>5, <2>1 DEF StoreDecrease, IInv, ReleaseStages
  <2>3. /\ conn'[c] = "uncounted" /\ \A d \in Conns : d # c => conn'[d] = conn[d]
        /\ before' = before
    BY <1>5, <2>1 DEF StoreDecrease, acceptVars
  <2>4. /\ Waiting' = Waiting /\ Asking' = Asking /\ Admitted' = Admitted \ {c}
        /\ c \in Admitted /\ Present' = Present
    BY <2>2, <2>3 DEF Waiting, Asking, Admitted, Counted, Present
  <2>5. QED
    BY <2>3, <2>4 DEF Adm!Leave
<1>6. ASSUME StoreIncrease PROVE UNCHANGED Adm!vars
  <2>1. PICK c \in Conns : client = {c} /\ conn[c] = "admitted"
    BY <1>6, Views DEF StoreIncrease
  <2>2. conn'[c] = "counted" /\ \A d \in Conns : d # c => conn'[d] = conn[d]
    BY <1>6, <2>1 DEF StoreIncrease
  <2>3. Waiting' = Waiting /\ Asking' = Asking /\ Admitted' = Admitted
    BY <2>1, <2>2 DEF Waiting, Asking, Admitted, Counted
  <2>4. before' = before
    BY <1>6 DEF StoreIncrease
  <2>5. QED
    BY <2>3, <2>4, StutterMaps
<1>7. ASSUME Enable PROVE UNCHANGED Adm!vars
  <2>1. PICK c \in Conns : client = {c} /\ conn[c] = "counted"
    BY <1>7, Views DEF Enable
  <2>2. conn'[c] = "open" /\ \A d \in Conns : d # c => conn'[d] = conn[d]
    BY <1>7, <2>1 DEF Enable
  <2>3. Waiting' = Waiting /\ Asking' = Asking /\ Admitted' = Admitted
    BY <2>1, <2>2 DEF Waiting, Asking, Admitted, Counted
  <2>4. Asking = {}
    BY <1>7, Views DEF Enable
  <2>5. QED
    BY <2>3, <2>4, StutterMaps
<1>8. ASSUME NEW w \in Workers, NEW c \in Conns, BeginRelease(w, c)
      PROVE  UNCHANGED Adm!vars
  <2>1. /\ conn[c] = "open" /\ conn'[c] = "closing"
        /\ \A d \in Conns : d # c => conn'[d] = conn[d]
        /\ before' = before
    BY <1>0, <1>8 DEF BeginRelease, acceptVars
  <2>2. Waiting' = Waiting /\ Asking' = Asking /\ Admitted' = Admitted
    BY <2>1 DEF Waiting, Asking, Admitted, Counted
  <2>3. QED
    BY <2>1, <2>2, StutterMaps
<1>9. ASSUME NEW w \in Workers, StoreCurCount(w) PROVE UNCHANGED Adm!vars
  <2>1. \A d \in victim[w] : conn[d] = "uncounted"
    BY <1>9 DEF StoreCurCount, IInv, ReleaseStages
  <2>2. /\ \A d \in Conns : conn'[d] = IF d \in victim[w] THEN "away" ELSE conn[d]
        /\ before' = before
    BY <1>9 DEF StoreCurCount, acceptVars
  <2>3. Waiting' = Waiting /\ Asking' = Asking /\ Admitted' = Admitted
    BY <2>1, <2>2 DEF Waiting, Asking, Admitted, Counted
  <2>4. QED
    BY <2>2, <2>3, StutterMaps
<1>10. ASSUME UNCHANGED <<conn, before>> PROVE UNCHANGED Adm!vars
  <2>1. Waiting' = Waiting /\ Asking' = Asking /\ Admitted' = Admitted
    BY <1>10 DEF Waiting, Asking, Admitted, Counted
  <2>2. QED
    BY <1>10, <2>1, StutterMaps
<1>11. CASE SumStep \/ UpdatePeak \/ LeastStep \/ Place \/ LockForIncrease
            \/ (CheckLimit /\ LimitReached(cons)) \/ UNCHANGED vars
            \/ \E w \in Workers : LockForDecrease(w) \/ LoadCurCount(w)
  BY <1>10, <1>11 DEF SumStep, UpdatePeak, LeastStep, Place, LockForIncrease, CheckLimit,
     vars, LockForDecrease, LoadCurCount, connVars, acceptVars
<1>12. QED
  BY <1>1, <1>2, <1>3, <1>4, <1>5, <1>6, <1>7, <1>8, <1>9, <1>11
     DEF Next, AcceptHandler, ReleaseHandler, Adm!Next

\* The accept thread and the workers, with all their interleavings, do nothing that
\* Admission does not allow (server.c:143, server.c:189).
THEOREM ConnectionsImplementAdmission == SafeSpec => AdmissionSafe
BY InitMaps, NextMaps, Invariant, PTL DEF SafeSpec, AdmissionSafe, Adm!SafeSpec
=============================================================================

------------------------------- MODULE Ketama -------------------------------
(***************************************************************************)
(* The hash ring that tells a key's node (ketama.c).  server_init          *)
(* (server.c:43-49) adds the nodes, each with a weight, and creates the    *)
(* ring before any thread runs; from then on it is only read, and          *)
(* command_GET looks keys up in it by binary search.  A lookup shares      *)
(* nothing with another one, so one at a time is enough.                   *)
(*                                                                         *)
(* MD5 is abstracted to any function: the hash of a key and the points of  *)
(* a node are whatever they may be, collisions included.  Array indices    *)
(* are the code's, from 0; the sequence continuum starts at 1.             *)
(***************************************************************************)
EXTENDS Integers, SequencesExt

CONSTANTS Weights,     \* weights that a node may be given
          MaxServers,  \* bound: nodes that are added
          Share,       \* hashes of a node of average weight: 40
          PerHash,     \* points made of one hash: 4
          Precision,   \* 1 / Precision is how far rounding may be off: 2^21
          PointMod     \* size of a point, an unsigned int: 2^32

\* A node has a positive weight; the share is more than the one hash that rounding can take
\* away, and single precision is precise enough for that many points: those of up to 13,000
\* nodes; the program adds three.
ASSUME WeightsAssumption == Weights \subseteq Nat \ {0}
ASSUME MaxServersAssumption == MaxServers \in Nat
ASSUME ShareAssumption == Share \in Nat \ {0, 1}
ASSUME PerHashAssumption == PerHash \in Nat \ {0}
ASSUME PrecisionAssumption ==
  Precision \in Nat \ {0, 1} /\ MaxServers * Share * PerHash < Precision
ASSUME PointModAssumption == PointMod \in Nat \ {0}

VARIABLES
  pc,          \* "add" nodes, "fill" the ring, "ready", "search"
  servers,     \* ketama->servers: the weight of each node
  maxservers,  \* ketama->maxservers: entries allocated for servers
  memory,      \* ketama->memory: the sum of the weights
  filled,      \* nodes that the ring has been filled for: i of Ketama_create_continuum
  left,        \* points that the last of them still gets
  continuum,   \* ketama->continuum: points and the ordinals of their nodes
  key,         \* the hash of the key looked up
  lowp, highp, \* the part of the ring that is searched
  answer       \* the ordinal that the last lookup found (a set of at most one)

ringVars   == <<servers, maxservers, memory, filled, left, continuum>>
searchVars == <<key, lowp, highp, answer>>
vars == <<pc, ringVars, searchVars>>

numservers == Len(servers)
numpoints  == Len(continuum)
Points     == 0 .. (PointMod - 1)

\* Ketama_new
Init ==
  /\ pc = "add"
  /\ servers = <<>>
  /\ maxservers = 0
  /\ memory = 0
  /\ filled = 0
  /\ left = 0
  /\ continuum = <<>>
  /\ key = 0
  /\ lowp = 0
  /\ highp = 0
  /\ answer = {}

-----------------------------------------------------------------------------
(* Building the ring. *)

\* Mutant of Grown: the array is enlarged one node too late.
GrownLate(max, n) == IF max = 0 THEN 1 ELSE IF n > max THEN 2 * max ELSE max

\* The array starts with INIT_MAX_SERVERS entries and doubles when it is full.
Grown(max, n) == IF max = 0 THEN 1 ELSE IF n >= max THEN 2 * max ELSE max

AddServer(w) ==
  /\ pc = "add"
  /\ numservers < MaxServers
  /\ maxservers' = Grown(maxservers, numservers)
  /\ servers' = Append(servers, w)
  /\ memory' = memory + w
  /\ UNCHANGED <<pc, filled, left, continuum, searchVars>>

\* Ketama_create_continuum returns at once when there are no servers.
CreateContinuum ==
  /\ pc = "add"
  /\ numservers > 0
  /\ pc' = "fill"
  /\ UNCHANGED <<ringVars, searchVars>>

\* Mutant of Hashes: the number of hashes is rounded up.
HashesRoundedUp(w) ==
  {k \in 0 .. (2 * Share * numservers) : /\ (k - 1) * memory < w * Share * numservers
                                         /\ w * Share * numservers <= k * memory}

\* ks = floorf(pct * 40.0 * numservers), where pct is (float) w / (float) memory.  The two
\* conversions, the division and the argument of floorf are rounded to single precision,
\* each by 2^-24 of its value at most, and less than 2^-21 together; the product itself is
\* exact in double precision.  So ks is the floor of any value that near to the exact one.
\* Rounding may take a hash away or add one: weight 21 of 40 with three nodes makes 62
\* hashes, not 63, and weight 341667 of 1000001 makes 41, not 40.
Hashes(w) ==
  {k \in 0 .. (2 * Share * numservers) :
     /\ k * memory * Precision <= w * Share * numservers * (Precision + 1)
     /\ w * Share * numservers * (Precision - 1) < (k + 1) * memory * Precision}

NextNode ==
  /\ pc = "fill"
  /\ left = 0
  /\ filled < numservers
  /\ \E ks \in Hashes(servers[filled + 1]) : left' = PerHash * ks
  /\ filled' = filled + 1
  /\ UNCHANGED <<pc, servers, maxservers, memory, continuum, searchVars>>

InOrder(ring) == \A i, j \in DOMAIN ring : i < j => ring[i].point <= ring[j].point

\* The final qsort is modelled by putting each point in its place at once: nobody sees
\* the ring before.  Points that are the same end up in any order.
Placed(entry) ==
  {ring \in {InsertAt(continuum, i, entry) : i \in 1 .. (numpoints + 1)} : InOrder(ring)}

AddPoint ==
  /\ pc = "fill"
  /\ left > 0
  /\ \E p \in Points : continuum' \in Placed([point |-> p, ordinal |-> filled - 1])
  /\ left' = left - 1
  /\ UNCHANGED <<pc, servers, maxservers, memory, filled, searchVars>>

FinishContinuum ==
  /\ pc = "fill"
  /\ left = 0
  /\ filled = numservers
  /\ pc' = "ready"
  /\ UNCHANGED <<ringVars, searchVars>>

-----------------------------------------------------------------------------
(* Ketama_get_server_ordinal *)

PointAt(i)   == continuum[i + 1].point
PointUpTo(i) == IF i = 0 THEN 0 ELSE PointAt(i - 1)

BeginSearch ==
  /\ pc = "ready"
  /\ pc' = "search"
  /\ key' \in Points
  /\ lowp' = 0
  /\ highp' = numpoints
  /\ answer' = {}
  /\ UNCHANGED ringVars

midp == (lowp + highp) \div 2

\* return mcsarr[i].ordinal
Return(i) ==
  /\ pc' = "ready"
  /\ answer' = {continuum[i + 1].ordinal}
  /\ lowp' = 0
  /\ highp' = 0
  /\ UNCHANGED <<ringVars, key>>

\* The search has run off the end: roll back to the first point.
Wrap ==
  /\ pc = "search"
  /\ midp = numpoints
  /\ Return(0)

\* Mutant of Within: the order of the comparisons at the two ends swapped.
WithinSwapped(i) == key < PointAt(i) /\ key >= PointUpTo(i)

\* The key belongs to point i.
Within(i) == key <= PointAt(i) /\ key > PointUpTo(i)

Hit ==
  /\ pc = "search"
  /\ midp # numpoints
  /\ Within(midp)
  /\ Return(midp)

\* Mutant of Above: the middle stays in the upper part.
NotAbove(i) == i

Above(i) == i + 1

\* One half is given up; if nothing is left, the first point it is.
Narrow ==
  LET low  == IF PointAt(midp) < key THEN Above(midp) ELSE lowp
      high == IF PointAt(midp) < key THEN highp ELSE midp - 1
  IN
  /\ pc = "search"
  /\ midp # numpoints
  /\ ~ Within(midp)
  /\ IF low > high
       THEN Return(0)
       ELSE /\ lowp' = low
            /\ highp' = high
            /\ UNCHANGED <<pc, ringVars, key, answer>>

SearchStep == Wrap \/ Hit \/ Narrow

Next ==
  \/ \E w \in Weights : AddServer(w)
  \/ CreateContinuum
  \/ NextNode
  \/ AddPoint
  \/ FinishContinuum
  \/ BeginSearch
  \/ SearchStep

SafeSpec == Init /\ [][Next]_vars

\* The thread that looks a key up is not stopped on the way.
Spec == SafeSpec /\ WF_vars(SearchStep)

-----------------------------------------------------------------------------
(* Properties. *)

\* Every variable stays in its type; the search stays within the ring and the one
\* place behind it (ketama.c:155-161), and no node is written behind the array
\* (ketama.c:88), as the assertion at ketama.c:76 says.
TypeOK ==
  /\ pc \in {"add", "fill", "ready", "search"}
  /\ servers \in Seq(Weights)
  /\ maxservers \in Nat
  /\ numservers <= maxservers
  /\ memory \in Nat
  /\ filled \in 0 .. numservers
  /\ left \in Nat
  /\ continuum \in Seq([point : Points, ordinal : 0 .. (numservers - 1)])
  /\ key \in Points
  /\ lowp \in 0 .. numpoints
  /\ highp \in 0 .. numpoints
  /\ answer \in SUBSET (0 .. (numservers - 1))

\* The ring has room for 160 points of each node (ketama.c:196); however the weights are
\* distributed and their shares are rounded, up or down, not more are written
\* (ketama.c:203-233).
RingFits == numpoints <= Share * PerHash * numservers

\* The node of a key: the first point that is not before the key's hash has it, and
\* behind the last point the ring starts over.
Owner(h) ==
  LET later == {i \in DOMAIN continuum : continuum[i].point >= h}
  IN  IF later = {}
        THEN continuum[1].ordinal
        ELSE continuum[CHOOSE i \in later : \A j \in later : i <= j].ordinal

\* A lookup finds the node of the key (ketama.c:153-178), at the ends of the ring, for
\* the hash 0 and where the points of two nodes are the same.
LookupRight == \A a \in answer : a = Owner(key)

\* The loop of a lookup, which has no condition (ketama.c:153), ends.
LookupEnds == pc = "search" ~> pc = "ready"
=============================================================================

------------------------------ MODULE ObjectStore ------------------------------
(***************************************************************************)
(* What an object pool promises the threads that use it, whatever it does  *)
(* inside: an object that a thread gets belongs to nobody else until the   *)
(* thread gives it back, and the pool keeps a limited number of spare ones.*)
(***************************************************************************)
EXTENDS FiniteSets, Naturals

CONSTANTS Threads,   \* the threads
          Objects    \* addresses of objects

VARIABLES limit,  \* how many spare objects the pool keeps
          owned,  \* owned[t]: the objects of thread t
          spare   \* the objects that the pool keeps

Init ==
  /\ limit \in Nat
  /\ owned = [t \in Threads |-> {}]
  /\ spare = {}

\* An object that nobody has, a spare one or a new one.
Get(t, o) ==
  /\ \A u \in Threads : o \notin owned[u]
  /\ owned' = [owned EXCEPT ![t] = @ \cup {o}]
  /\ spare' = spare \ {o}

Keep(t, o) ==
  /\ o \in owned[t]
  /\ Cardinality(spare) < limit
  /\ owned' = [owned EXCEPT ![t] = @ \ {o}]
  /\ spare' = spare \cup {o}

Drop(t, o) ==
  /\ o \in owned[t]
  /\ owned' = [owned EXCEPT ![t] = @ \ {o}]
  /\ UNCHANGED spare

Next ==
  /\ \E t \in Threads, o \in Objects : Get(t, o) \/ Keep(t, o) \/ Drop(t, o)
  /\ UNCHANGED limit

Spec == Init /\ [][Next]_<<limit, owned, spare>>
=============================================================================

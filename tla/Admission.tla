----------------------------- MODULE Admission -----------------------------
(***************************************************************************)
(* What krouter promises the clients that connect to it, whatever threads  *)
(* do the work: at most MaxConn connections are served at a time, a        *)
(* connection is refused only if the server was full when its turn came,   *)
(* and connections are answered one at a time.  Module Connections is the  *)
(* accept thread and the worker threads that implement this.               *)
(***************************************************************************)
EXTENDS Naturals, FiniteSets

CONSTANTS Conns,    \* connections that clients may open (a slot is reused)
          MaxConn   \* the setting [global] max-connections

VARIABLES waiting,  \* connections nobody has answered yet
          asking,   \* the connection being answered, if any: at most one
          present,  \* those admitted when asking got its turn
          admitted  \* connections that take one of the MaxConn places

vars == <<waiting, asking, present, admitted>>

Init ==
  /\ waiting = {}
  /\ asking = {}
  /\ present = {}
  /\ admitted = {}

Knock(c) ==
  /\ c \notin waiting \cup asking \cup admitted
  /\ waiting' = waiting \cup {c}
  /\ UNCHANGED <<asking, present, admitted>>

Ask(c) ==
  /\ asking = {}
  /\ c \in waiting
  /\ waiting' = waiting \ {c}
  /\ asking' = {c}
  /\ present' = admitted
  /\ UNCHANGED admitted

\* Places given up since the connection got its turn may be used.
Admit(c) ==
  /\ asking = {c}
  /\ Cardinality(admitted) < MaxConn
  /\ admitted' = admitted \cup {c}
  /\ asking' = {}
  /\ present' = {}
  /\ UNCHANGED waiting

Refuse(c) ==
  /\ asking = {c}
  /\ Cardinality(present) >= MaxConn
  /\ asking' = {}
  /\ present' = {}
  /\ UNCHANGED <<waiting, admitted>>

Leave(c) ==
  /\ c \in admitted
  /\ admitted' = admitted \ {c}
  /\ UNCHANGED <<waiting, asking, present>>

Next == \E c \in Conns : Knock(c) \/ Ask(c) \/ Admit(c) \/ Refuse(c) \/ Leave(c)

SafeSpec == Init /\ [][Next]_vars
=============================================================================

--------------------------- MODULE MCConnections ---------------------------
(* Instances of Connections for TLC. *)
EXTENDS Connections, TLC

CONSTANTS c1, c2, c3, c4   \* model values: connections

\* Connections are interchangeable: nothing but Conns names them.
Symmetry == Permutations(Conns)
=============================================================================

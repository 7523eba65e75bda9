------------------------------ MODULE MCKetama ------------------------------
(* Instances of Ketama for TLC. *)
EXTENDS Ketama

\* Equal and unequal weights.
TwoWeights == {1, 3}
=============================================================================

-------------------------------- MODULE MCPool --------------------------------
(* Pool for TLC: threads and addresses are interchangeable. *)
EXTENDS Pool, TLC

TwoLimits == {[remain |-> 3, eshell |-> 1], [remain |-> 2, eshell |-> 2]}

\* Equal limits, as every pool of the program has them.
OneLimit == {[remain |-> 2, eshell |-> 2]}

Symmetry == Permutations(Threads) \cup Permutations(Objects) \cup Permutations(Shells)
=============================================================================

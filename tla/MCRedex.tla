------------------------------- MODULE MCRedex -------------------------------
(* Redex for TLC: the identifiers and the workers are interchangeable.      *)
EXTENDS Redex, TLC
Symmetry == Permutations(Id) \cup Permutations(Worker)
==============================================================================

------------------------------ MODULE MCWorldStore ------------------------------
(* WorldStore for TLC: only the server of c3 has a whitelist.                *)
EXTENDS WorldStore, TLC
CONSTANTS c1, c2
Symmetry == Permutations({c1, c2})
==============================================================================

----------------------------- MODULE MCObjectStore -----------------------------
(* ObjectStore for TLC.                                                     *)
EXTENDS ObjectStore, TLC
CONSTANTS s1, s2, w1, w2, cell, v1, v2
\* Two workers of one server; the second world is linked to, and its server
\* does nothing.
MCServerOf == (w1 :> s1) @@ (w2 :> s1)
MCNew == {cell :> v1}
MCChange == {cell :> v2, cell :> Null, << >>}
Symmetry == Permutations({w1, w2})
==============================================================================

----------------------------- MODULE MCCharStore -----------------------------
(* CharStore for TLC: two linked worlds, a and b.                           *)
EXTENDS CharStore, TLC
CONSTANTS a, b, wa, wb, v0, v1
OneEach == (wa :> a) @@ (wb :> b)
BothOfA == (wa :> a) @@ (wb :> a)
\* A createChar without the numbers of the place.
Bare == {[p \in {"gear"} |-> v0]}
\* An update of the place and the gear, and one that names nothing but the
\* vehicle.
Some == {[p \in {"place", "gear"} |-> v1], [p \in {} |-> v0]}
\* A world and its worker change places with the other world and its worker.
Symmetry == {p \in Permutations(World \cup Worker) :
                \A w \in Worker : p[w] \in Worker /\ ServerOf[p[w]] = p[ServerOf[w]]}
==============================================================================

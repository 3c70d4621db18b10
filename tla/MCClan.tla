-------------------------------- MODULE MCClan --------------------------------
(* Clan for TLC: p1 and p2 found clans whose names clash or do not, and p2  *)
(* comes to, owns and leaves the clan of p1.                                *)
EXTENDS Clan, TLC
CONSTANTS p1, p2, c1, c2
Wolf == [word |-> "wolf", spelling |-> "small"]
WOLF == [word |-> "wolf", spelling |-> "capital"]
Bear == [word |-> "bear", spelling |-> "small"]
Nameless == [word |-> "", spelling |-> "small"]
Names == {Wolf, WOLF, Bear}
Call(op, c, p, n, f) ==
    [op |-> op, clan |-> c, player |-> p, name |-> n, form |-> f]

\* The calls, with every uuid written as f says.
Calls1(f) ==
    {Call("createClan", c1, p1, Wolf, f), Call("createClan", c2, p1, Bear, f),
     Call("createClan", c2, p2, WOLF, f),
     Call("updateClan", c1, p2, Nameless, f), Call("updateClan", c1, p1, Bear, f),
     Call("updateClan", c2, NoPlayer, WOLF, f),
     Call("addClanPlayer", c1, p2, Nameless, f),
     Call("deleteClanPlayer", c1, p2, Nameless, f),
     Call("deleteClanPlayer", c1, p1, Nameless, f),
     Call("updatePlayerMainClan", c1, p2, Nameless, f),
     Call("updatePlayerMainClan", NoClan, p2, Nameless, f)}
Capital == Calls1("upper")
Small == Calls1("lower")
Symmetry == Permutations(Worker)
==============================================================================

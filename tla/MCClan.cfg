SPECIFICATION Spec
CONSTANTS
    Worker = {w1, w2}
    p1 = p1
    p2 = p2
    c1 = c1
    c2 = c2
    Player = {p1, p2}
    Clan = {c1, c2}
    Name <- Names
    NoPlayer = NoPlayer
    NoClan = NoClan
    NoName <- Nameless
    NoJob = NoJob
    Job <- Capital
SYMMETRY Symmetry
INVARIANTS
    MainClanBacked
    OwnerBacked
    NamesUniqueUnlessRaced

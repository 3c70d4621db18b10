SPECIFICATION Spec
CONSTANTS
    Worker = {w1}
    p1 = p1
    p2 = p2
    c1 = c1
    c2 = c2
    Player = {p1, p2}
    Clan = {c1, c2}
    Name <- Names
    NoPlayer = NoPlayer
    NoClan = NoClan
    NoName <- Nameless
    NoJob = NoJob
    Job <- Small
PROPERTY
    MainClanUnset

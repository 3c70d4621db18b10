SPECIFICATION FairSpec
CONSTANTS
    Worker = {w1, w2}
    Game = game
    Conn = {c1, c2, c3, c4, c5}
    NoConn = NoConn
    MaxCapacity = 11
INVARIANTS
    TypeOK
    Exclusive
    Accounted
    EmptyOnlyIfUsedUp
PROPERTY
    Served
CHECK_DEADLOCK FALSE

SPECIFICATION ServiceSpec
CONSTANTS
    Id = {i1, i2}
    NoId = NoId
    Worker = {w1}
    Sizes = {1}
    Caps = {2}
    Overhead = 2
    Game = game
    Conn = {c1, c2}
    NoConn = NoConn
    MaxCapacity = 5
    MaxQueries = 1
INVARIANT
    NothingLeftOpen
    NobodyStuck
PROPERTIES
    Answered
    TerminateReturns
    WaitUsesUp
CHECK_DEADLOCK FALSE

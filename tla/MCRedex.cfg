SPECIFICATION Spec
CONSTANTS
    Id = {i1, i2, i3}
    NoId = NoId
    Worker = {w1, w2}
    Sizes = {1, 5}
    Caps = {2, 3}
    Overhead = 2
SYMMETRY Symmetry
INVARIANTS
    TypeOK
    IteratorValid
    OneStage
    EveryCharacterOnce
PROPERTIES
    OnlyMisuseLoses
    Atomic
    JobsFinished
CHECK_DEADLOCK FALSE

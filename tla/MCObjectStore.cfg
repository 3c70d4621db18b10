SPECIFICATION Spec
CONSTANTS
    s1 = s1
    s2 = s2
    w1 = w1
    w2 = w2
    cell = cell
    v1 = v1
    v2 = v2
    World = {s1, s2}
    Worker = {w1, w2}
    ServerOf <- MCServerOf
    Object = {o1}
    NoObject = NoObject
    Cell = {cell}
    Value = {v1, v2}
    Null = Null
    New <- MCNew
    Change <- MCChange
    MaxFailures = 1
SYMMETRY Symmetry
INVARIANTS
    Coherent
    NothingForgotten
PROPERTIES
    Arrives
    Registered
CHECK_DEADLOCK FALSE

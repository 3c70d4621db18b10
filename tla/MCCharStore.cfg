SPECIFICATION Spec
CONSTANTS
    a = a
    b = b
    wa = wa
    wb = wb
    v0 = v0
    v1 = v1
    World = {a, b}
    Worker = {wa, wb}
    ServerOf <- OneEach
    Value = {v0, v1}
    Null = Null
    Numberless = {Null}
    New <- Bare
    Change <- Some
    MaxUuid = 4
    MaxFailures = 1
SYMMETRY Symmetry
INVARIANTS
    TypeOK
    OneLive
    Coherent
    OwnRows
    GearOfLiving
CHECK_DEADLOCK FALSE

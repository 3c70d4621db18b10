SPECIFICATION Spec
CONSTANTS
    a = a
    b = b
    wa = wa
    wb = wb
    v0 = v0
    v1 = v1
    World = {a, b}
    Worker = {wa, wb}
    ServerOf <- BothOfA
    Value = {v0, v1}
    Null = Null
    Numberless = {Null}
    New <- Bare
    Change <- Some
    MaxUuid = 4
    MaxFailures = 0
INVARIANT
    OneLive
CHECK_DEADLOCK FALSE

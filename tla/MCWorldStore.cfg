SPECIFICATION Spec
CONSTANTS
    c1 = c1
    c2 = c2
    Caller = {c1, c2, c3}
    Strict = {c3}
    Steam = {p1}
    Value = {"[]", "v"}
    Empty = "[]"
    MaxUuid = 3
    MaxTime = 2
    MaxPlaytime = 3
    MaxFailures = 1
SYMMETRY Symmetry
INVARIANTS
    OneIdentity
    NoTimeTwice
    VarsOnce
CHECK_DEADLOCK FALSE

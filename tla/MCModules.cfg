SPECIFICATION Spec
CONSTANTS
    File = {log, dump}
    Readable = {rules, once}
    ReadOnce = {once}
    MaxMessages = 4
    MaxLoads = 2
INVARIANTS
    Kept
    Quiet
PROPERTY
    Returns
CHECK_DEADLOCK FALSE

SPECIFICATION Spec
CONSTANTS
    a = a
    b = b
    Server = {a}
    MaxFailures = 1
PROPERTY AlreadyApplied

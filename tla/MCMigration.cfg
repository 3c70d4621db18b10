SPECIFICATION Spec
CONSTANTS
    a = a
    b = b
    Server = {a, b}
    MaxFailures = 2
SYMMETRY Symmetry
INVARIANTS
    TypeOK
    SchemaComplete
    VersionBacked
    OneVars
    Recovers

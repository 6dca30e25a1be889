SPECIFICATION Spec
CONSTANTS
    a = a
    b = b
    Keys = {1}
    Values = {a, b}
    None = None
    MaxSnapshots = 2
    MaxDiffs = 3
INVARIANTS
    TypeOK
    RevertUndoesCommit
PROPERTIES
    OperationsMatch

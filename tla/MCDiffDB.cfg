SPECIFICATION Spec
CONSTANTS
    a = a
    b = b
    Keys = {1, 2}
    Values = {a, b}
    None = None
    MaxSnapshots = 1
    MaxDiffs = 1
INVARIANTS
    CachesFaithful
    RangeMatchesView
PROPERTIES
    ImplementsKVStore

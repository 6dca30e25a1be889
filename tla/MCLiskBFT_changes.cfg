SPECIFICATION Spec
CONSTANTS
    v1 = v1
    v2 = v2
    Validators = {v1, v2}
    BatchSize = 2
    GenesisHeight = 0
    GenesisParams <- Pair
    NextParams <- Changes
    MaxHeight = 5
    MaxAhead = 0
INVARIANTS
    PrecommitsRestOnPrevoteQuorum
    VotesCountedOnce
    PrecommittersPrevoted
    VotersInv
CHECK_DEADLOCK FALSE

SPECIFICATION FairSpec
CONSTANTS
    Blocks = {"g", "a1", "a2", "a3", "c2", "d2", "d3", "d4", "f1", "f2"}
    Genesis = "g"
    header <- SyncHeaders
    Validators <- TwoValidators
    None = None
    MaxForgings = 0
    MaxSlot = 8
    MaxCrashes = 0
INVARIANTS TypeOK AppAgrees DeletableAboveFinalized
PROPERTIES SyncImproves TieBreakKeepsHeight ProcessingEnds
CHECK_DEADLOCK FALSE

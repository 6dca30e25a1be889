SPECIFICATION Spec
CONSTANTS
    Blocks = {"g", "a1", "f1", "f2", "f3"}
    Genesis = "g"
    header <- CrashHeaders
    Validators <- TwoValidators
    None = None
    MaxForgings = 1
    MaxSlot = 3
    MaxCrashes = 1
INVARIANTS StopIsRepairable RevertAvailable StateSurvivesOverlap
PROPERTIES FinalizedNeverReverted
CHECK_DEADLOCK FALSE

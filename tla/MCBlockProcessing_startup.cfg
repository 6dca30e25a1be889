SPECIFICATION Spec
CONSTANTS
    Blocks = {"g", "a1", "a2", "b2", "b3", "b4", "c2"}
    Genesis = "g"
    header <- ForkHeaders
    Validators <- TwoValidators
    None = None
    MaxForgings = 0
    MaxSlot = 5
    MaxCrashes = 1
INVARIANTS AgreesOnceStarted
CHECK_DEADLOCK FALSE

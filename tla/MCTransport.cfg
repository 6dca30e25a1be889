CONSTANTS
    WordBits = 15
    HalfBits = 8
    Names <- AllNames
    Altered <- AlteredNames
    AlteredBytes <- SomeBytes
SPECIFICATION Spec
CHECK_DEADLOCK FALSE
INVARIANTS
    RoundTrip
    StrictIsCanonical
    KeptIsStable

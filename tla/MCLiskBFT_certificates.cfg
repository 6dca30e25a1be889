SPECIFICATION Spec
CONSTANTS
    v1 = v1
    v2 = v2
    Validators = {v1, v2}
    BatchSize = 1
    GenesisHeight = 0
    GenesisParams <- Single1
    NextParams <- Rotation
    MaxHeight = 5
    MaxAhead = 0
PROPERTIES
    CertificatesFollowParams
CHECK_DEADLOCK FALSE

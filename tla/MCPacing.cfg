CONSTANTS
    HALF = 40
    WIDER = 2
SPECIFICATION PacingSpec
INVARIANTS PacingTypeOK InStep

CONSTANTS
    Data = {0, 255}
    ACCESS_MAX = 2
SPECIFICATION Spec
INVARIANTS TypeOK AddressPair HalfAddress

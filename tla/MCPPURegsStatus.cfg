CONSTANTS
    Data = {0}
    ACCESS_MAX = 1
SPECIFICATION Spec
INVARIANTS StatusShowsVBlank

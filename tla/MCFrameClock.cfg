CONSTANTS
    CYCLE_MAX = 341
    LINE_MAX = 262
    VBLANK_LINE = 241
SPECIFICATION PollSpec
INVARIANTS TypeOK CountersAgree OneNMIPerFrame VBlankFlagOnce
PROPERTIES CleanPollTells

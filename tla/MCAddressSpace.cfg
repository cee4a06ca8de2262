CONSTANTS
    TABSIZ = 16
    RAM_SIZE = 2
    PPUREG_START = 8
    APU_START = 10
    CARTRIDGE_START = 11
    PRG_START = 12
    CPUBUS_SIZE = 24
    PRG_BANK = 6
    CHR_BANK = 8
    NT_SIZE = 2
    NT_START = 8
    PAL_START = 22
    PAL_SIZE = 2
    PPUBUS_SIZE = 26
    Data = {0, 1}
    Files <- MCFiles
SPECIFICATION Spec
INVARIANTS TypeOK EveryAddressOwned MirrorsAgree RomInPlace
CHECK_DEADLOCK FALSE

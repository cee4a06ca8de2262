CONSTANTS
    CYCLE_MAX = 341
    LINE_MAX = 9
    VBLANK_LINE = 6
    TmpValues = {0, 31, 3103, 32767, 29629, 23869}
    AddrValues = {65535}
    FineValues = {0, 5}
SPECIFICATION Spec
INVARIANTS TypeOK TilesInOrder RowsInOrder TileCoherent PixelsInOrder

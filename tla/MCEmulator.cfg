CONSTANTS
    NMI_VEC = NMI_VEC
    RESET_VEC = RESET_VEC
    IRQ_BRK_VEC = IRQ_BRK_VEC
    NO_VEC = NO_VEC
    CYCLE_MAX = 14
    LINE_MAX = 7
    VBLANK_LINE = 3
    DEBUGGER = TRUE
SPECIFICATION Spec
INVARIANTS TypeOK HandlerOncePerVBlank OneVBlankPerPicture
PROPERTIES HandlerInVBlank ImplementsFrameLoop

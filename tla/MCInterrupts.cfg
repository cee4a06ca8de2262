CONSTANTS
    NMI_VEC = 65530
    RESET_VEC = 65532
    IRQ_BRK_VEC = 65534
    NO_VEC = 0
SPECIFICATION FairSpec
INVARIANTS CPUTypeOK NoSpuriousInterrupt PushedBreakFlag
PROPERTIES ServedOnce NMIServed

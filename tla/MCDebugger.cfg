CONSTANTS
    Programs <- MCPrograms
    Breaks <- MCBreaks
    Pokes <- MCPokes
    MAXBREAKS = 1
    RUNS = 5
SPECIFICATION Spec
CHECK_DEADLOCK FALSE
INVARIANTS TypeOK OpenCallsListed
INVARIANTS ArithmeticAgrees ReturnsRestore CyclesAsNoted NextaddrForetells TablesAgree
PROPERTIES StepStops StopsInHandler ImplementsInterrupts

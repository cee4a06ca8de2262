CONSTANTS
    Programs <- MCPrograms
    Breaks <- MCBreaks
    Pokes <- MCPokes
    MAXBREAKS = 1
    RUNS = 5
SPECIFICATION Spec
CHECK_DEADLOCK FALSE
PROPERTIES StepLeavesHandler

SPECIFICATION Spec
CONSTANTS
    Pools <- MCPools
    Prizes = {0, 1, 2, 3, 5}
    Keys = {1, 2, 3, 4}
    Runs = 2
INVARIANTS
    TypeOK
    SimulationIsDraw
    AnyoneCanWin
CHECK_DEADLOCK FALSE

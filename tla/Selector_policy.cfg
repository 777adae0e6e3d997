SPECIFICATION SelectorSpec
CONSTANTS
    TokenCounts = {1, 2}
    Densities = {0, 2}
    RecentBuffer = 1
    MaxTurns = 4
    MaxNeed = 6
INVARIANTS
    FreesWhatIsNeeded
    PriorityIsLastResort
    KeepsDenseTurns
CHECK_DEADLOCK FALSE

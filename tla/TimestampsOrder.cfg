SPECIFICATION Spec
CONSTANTS
    Base = 3
    Digits = 2
    MaxTime = 26
    MaxDraws = 3
INVARIANT LatestIsNewest
CHECK_DEADLOCK FALSE

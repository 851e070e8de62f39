SPECIFICATION Spec
CONSTANTS
    Requests = {r1, r2}
    Nobody = Nobody
    PrizeCounts = {1}
    EntrantCounts = {0, 1}
    Limits = {3}
    DefaultLimit = 2
    MaxLimit = 2
    MaxVersion = 2
    MaxDraws = 2
INVARIANTS
    TypeOK
    FlagWasRight
    NoAnswerIsOlder
    NothingIsMissing
PROPERTIES
    EveryoneIsAnswered
CHECK_DEADLOCK FALSE

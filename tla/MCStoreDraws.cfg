SPECIFICATION Spec
CONSTANTS
    People = {"ann", "bob"}
    Half = 4
    TooBig = 3
    Titles <- OneTitle
    Roots = {"", "raffle", "shower"}
    Slugify <- OneSlugify
    Names <- DrawNames
    Counts <- DrawCounts
    RosterTexts <- DrawTexts
    PrizeRequests = {0, 1}
    MaxSuffix = 1
    MaxEvents = 1
    MaxVersion = 3
    MaxDraws = 2
INVARIANTS
    StaleIsHonest
    NothingDangles
PROPERTIES
    KeepsPromise
CHECK_DEADLOCK FALSE

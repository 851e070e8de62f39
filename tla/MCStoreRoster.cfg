SPECIFICATION Spec
CONSTANTS
    People = {"ann", "bob"}
    Half = 4
    TooBig = 3
    Titles <- OneTitle
    Roots = {"", "raffle", "shower"}
    Slugify <- OneSlugify
    Names <- EditNames
    Counts <- EditCounts
    RosterTexts <- EditTexts
    PrizeRequests = {1}
    MaxSuffix = 1
    MaxEvents = 1
    MaxVersion = 4
    MaxDraws = 0
INVARIANTS
    TypeOK
    OneRowEach
    RosterInStep
PROPERTIES
    IdsFollowPeople
    VersionCoversRoster
CHECK_DEADLOCK FALSE

SPECIFICATION Spec
CONSTANTS
    People = {"ann", "bob"}
    Half = 4
    TooBig = 3
    Titles <- RaffleTitles
    Roots = {"", "raffle", "shower"}
    Slugify <- RaffleSlugify
    Names <- RaffleNames
    Counts <- RaffleCounts
    RosterTexts <- RaffleTexts
    PrizeRequests <- RafflePrizes
    MaxSuffix = 2
    MaxEvents = 3
    MaxVersion = 1
    MaxDraws = 1
INVARIANTS
    OneRafflePerLink
PROPERTIES
    VersionCoversRoster
CHECK_DEADLOCK FALSE

SPECIFICATION Spec
CONSTANTS
    Stubs = {"first", "second"}
    MaxRequests = 4
INVARIANTS
    SealedTillTorn
    NothingStuck
    ScreenIsCurrent
CHECK_DEADLOCK FALSE

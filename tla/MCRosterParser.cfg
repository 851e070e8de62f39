SPECIFICATION ParserSpec
CONSTANTS
    People = {"ann", "bob"}
    Half = 4
    TooBig = 3
    Lines <- MCLines
    MaxLines = 3
INVARIANTS
    ParserTypeOK
    OneEntryEach
    EntriesAreSums
    RoundTrip
CHECK_DEADLOCK FALSE

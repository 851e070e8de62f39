SPECIFICATION Spec
CONSTANTS
    Server = "server"
    Command = "command"
    Nobody = nobody
    Newest = 2
    Guests = {g1, g2}
    Strangers = {g2}
    Passwords = {p1, p2}
    NoPassword = none
    MaxCommands = 2
    MaxCrashes = 1
INVARIANTS
    VersionIsSchema
    OpenHasTables
    OldPasswordsOut
    KeysComeFromCommand
PROPERTIES
    SignedInStays
    GuestsGetIn
CHECK_DEADLOCK FALSE

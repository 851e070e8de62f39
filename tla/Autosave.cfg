SPECIFICATION Spec
CONSTANTS
    Texts = {"ann", "ann bob"}
    Boot = "ann"
    MaxSaves = 3
    MaxDraws = 2
INVARIANTS
    NothingForgotten
    CalmDrawSeesScreen
PROPERTY EndsUp
CHECK_DEADLOCK FALSE

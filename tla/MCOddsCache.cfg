SPECIFICATION Spec
CONSTANTS
    Raffles = {1}
    Requests = {r1, r2, r3}
    Prizes = {1, 3}
    Runs = {4000}
    Limit = 2
    MaxVersion = 2
SYMMETRY RequestSymmetry
INVARIANTS
    Bounded
    HitsAreFresh
    AnswersAreFresh
CHECK_DEADLOCK FALSE

SPECIFICATION FairSpec
CONSTANTS
    w1 = w1
    w2 = w2
    w3 = w3
    r1 = r1
    Writers = {w1, w2, w3}
    Readers = {r1}
    Steady = w1
    MaxEntry = 2
    Limit = 3
INVARIANTS
    LimitIsTold
    LinesAreWhole
PROPERTIES
    ImplementsAppendLog
    SteadyEnds

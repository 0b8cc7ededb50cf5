SPECIFICATION SessionSpec
CONSTANTS
    h1 = h1
    h2 = h2
    h3 = h3
    c1 = c1
    r1 = r1
    r2 = r2
    r3 = r3
    run1 = run1
    run2 = run2
    s1 = s1
    s2 = s2
    Hooks = {h1, h2, h3}
    Checkers = {c1}
    Runs = {run1, run2}
    Cap = 2
    Recorders = {r1, r2, r3}
    Stops = {s1, s2}
    Base = 3
    LogCap = 4
    Types = {"EMAIL", "CUSTOM"}
    Custom = "CUSTOM"
    MaxSources = 1
    MaxFound = 1
    MaxRecords = 2
    MaxEvidence = 1
    LargeResult = 25000
SYMMETRY Symmetry
CHECK_DEADLOCK FALSE
INVARIANTS
    HandedIsKnown
    SilenceIsTrue
    RecordsAreTold

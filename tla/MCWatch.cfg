SPECIFICATION FairSpec
CONSTANTS
    r1 = r1
    r2 = r2
    small = small
    big = big
    i1 = i1
    i2 = i2
    Requests = {r1, r2}
    Bodies = {small, big}
    MaySend <- MCMaySend
    Oversized = {}
    Results <- MCResults
    Slots = 1
    MaxSignals = 4
    MaxLoad = 4
    SameGroup = TRUE
INVARIANTS
    SharedIsRight
    ReportAccounts
    OutlivesClient
PROPERTIES
    EndsOnRequest

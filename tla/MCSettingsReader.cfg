SPECIFICATION FairSpec
CONSTANTS
    c1 = c1
    c2 = c2
    h1 = h1
    Commands = {c1}
    Hooks = {h1}
    Steady = h1
    Edit = Edit
    NoFile = NoFile
    Unread = Unread
    MaxEdits = 2
    Reads = 3
PROPERTIES
    SteadyReads

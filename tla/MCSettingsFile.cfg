SPECIFICATION Spec
CONSTANTS
    c1 = c1
    c2 = c2
    h1 = h1
    Commands = {c1, c2}
    Hooks = {h1}
    Steady = h1
    Edit = Edit
    NoFile = NoFile
    Unread = Unread
    MaxEdits = 1
    Reads = 1
INVARIANTS
    ReadsWhatIsThere
PROPERTIES
    ActsAsRegister
SYMMETRY Symmetry

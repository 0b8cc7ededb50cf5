SPECIFICATION Spec
CONSTANTS
    Hooks = {h1, h2}
    Movers = {m1, m2}
    Past = Past
    Legacy = Legacy
    NoFile = NoFile
    Cap = 2
INVARIANTS
    BothAreKept

SPECIFICATION SSpec
CONSTANTS
    Commands = {m1, m2}
    Readers = {h1, h2}
INVARIANTS
    ReadsOldUntilMoved

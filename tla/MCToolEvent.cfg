SPECIFICATION Spec
CONSTANTS
    n1 = n1
    n2 = n2
    Names = {n1, n2}
    ModeKeys = {"tool", "default"}
    MaxLeaves = 2
INVARIANTS
    NeverWrittenBack
    FindingsAreHeld
    RefusesAsAsked
    

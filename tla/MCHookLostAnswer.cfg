SPECIFICATION Spec
CONSTANTS
    Deadline = 2
    AnswerBy = 3
    Timeout = 5
INVARIANT
    AnswerReachesTheClient

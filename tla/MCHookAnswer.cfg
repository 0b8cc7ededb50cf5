SPECIFICATION FairSpec
CONSTANTS
    Deadline = 2
    AnswerBy = 3
    Timeout = 5
INVARIANTS
    OneAnswerInTime
    NamesBeforeShown
    FailsClosed
    RecordsAreTrue
PROPERTIES
    EventuallyAnswered

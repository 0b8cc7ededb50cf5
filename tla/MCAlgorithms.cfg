SPECIFICATION AlgorithmsSpec
CONSTANTS
    Events = {"start", "text", "more", "last", "late", "broken"}
    Broken = {"broken"}
    Docs <- MCDocs
    Answers <- MCAnswers
    MaxPending = 7
    MaxText = 4
    MaxChunk = 6
    Asked <- MCAsked
    MaxRequests = 4
    ModelId <- MCModelId
    Prices <- MCPrices
    LongPrices <- MCLongPrices
    LongPrompt = 12
    MaxEvidence = 2
    LargeResult = 3
    Entities = {"CUSTOM", "CREDIT_CARD", "IBAN_CODE"}
    Custom <- MCCustom
    Reach = 4
    MaxMatches = 3
    Typed = {3, 9}
    MaxWords = 6
    Types <- MCTypes
    Priority <- MCPriority
    Length = 4
    MaxFound = 3
    Tokens = 4
    Lines = 9
    Size = 5
    Overlap = 2
    Kinds = {"E", "S"}
    Values = {1, 2}
    MaxFloor = 3
    MaxNumber = 4
    HookSeconds = 7
    AnalysisSeconds = 3
    Chars = {"d", "K", "a", "t", "T", "(", ")", "e", "p", "q"}
    MaxChars = 4
    Keys <- MCKeys
    Paths <- MCPaths
    Atoms <- MCAtoms
    MaxAtoms = 2
    MaxFailing = 3
    KeyContext = 2
    MaxDepth = 2
    MaxCharacters = 7
    Quotable = {"a", "dq", "#", ";"}
    Bodies <- MCBodies
    TaskTexts <- MCTaskTexts
    MaxPieces = 3
    Options <- MCOptions
    MaxArguments = 5
    PathChars = {"w", "+", ":", "/", " ", "?", "%"}
    MaxPath = 4
    Disks <- MCDisks
    Members <- MCMembers
    MaxMembers = 4
INVARIANTS
    KnownIsExact
    ReportTells
    DetectedIsRight
    NamesAreUnique
    
    EventsAreMasked
    ControlsAreSeen
CHECK_DEADLOCK FALSE

SPECIFICATION MovesSpec
CONSTANTS
    c1 = c1
    c2 = c2
    r1 = r1
    r2 = r2
    h1 = h1
    h2 = h2
    m1 = m1
    m2 = m2
    i1 = i1
    i2 = i2
    v1 = v1
    s1 = s1
    s2 = s2
    pu = pu
    sh = sh
    Commands = {c1, c2}
    Readers = {r1, r2}
    Hooks = {h1, h2}
    Movers = {m1, m2}
    Past = Past
    Legacy = Legacy
    NoFile = NoFile
    Cap = 2
    Installers = {i1, i2}
    Reverters = {v1}
    MaxEdits = 2
    Sessions <- MCSessions
    Histories <- MCHistories
    Fresh <- MCFresh
    MaxWrites = 2
    Writers = {h1, h2}
    Purger = pu
    Show = sh
    FirstDay <- MCFirstDay
    Days = {31, 61, 89}
    Room = 2
    Me = i1
    Settings <- MCSettings
    NotAsked = NotAsked
    MaxEvidence = 20
    LargeResult = 25000
    EntityTypes <- MCEntityTypes
    OptIn = {"PLATE"}
    Revealable = {"IBAN"}
    NameOfCustom = {"A", "B", "C"}
    Unsound <- MCUnsound
    Slow <- MCSlow
    Bytes <- MCBytes
    MaxBytes = 8
    MaxCustom = 2
    Handwritten <- MCHandwritten
    Invocations <- MCInvocations
    MaxCommands = 3
INVARIANTS
    SettingsAreSomewhere
    PastIsKept
    InstallsStand
    AuditIsExact
    RetentionHolds
    DoctorIsRight
    ConfigIsExact
PROPERTIES
    ChangeStays
    KeptLeavesByRename
    TheirsStay

CONSTANTS
    a = a
    r1 = r1
    None = None
    Chat = {a}
    Reader <- Readers
    Rechecks = 2
    MaxVisit = 1
    MaxMutation = 2
    MaxRequest = 3
    Runs = {x1, x2}
    ExtractEvery = 1
    MaxMessage = 3
    MaxGeneration = 1
    MaxItems = 2
    MaxRetries = 1
    MaxNodes = 4
    MaxScopes = 1
    MaxOthers = 2

SPECIFICATION ProgressSpec

CHECK_DEADLOCK FALSE

INVARIANTS
    ExtractionTypeOK
    StaleIsSeen
    FloorsComplete
    IndexedOrDirty
    PendingIsQueued
    ReadRangeIsFinal

PROPERTIES
    RequestsServed
    DeferredIsResumed
    PendingIsStarted

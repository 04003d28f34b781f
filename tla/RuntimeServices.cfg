CONSTANTS
    a = a
    b = b
    e1 = e1
    e2 = e2
    x1 = x1
    f1 = f1
    k1 = k1
    v1 = v1
    r1 = r1
    Chats <- BothChats
    Edits <- TwoEdits
    Extracts <- OneBatch
    Foreign <- OneOther
    Home <- AllInA
    MaxVisits = 2
    MaxFaults = 1
    MaxLoads = 1
    MaxRev = 3
    MaxQueue = 2
    Conversations = {a, b}
    Callers = {p1, p2}
    MaxStores = 3
    Tabs = {t1, t2}
    Keys = {k1, k2}
    Payloads = {v1, v2}
    Nothing = Nothing
    PhysicalRetryLimit = 2
    MaxGraphWrites = 1
    MaxCalls = 2
    MaxEpochs = 2
    MaxTurns = 2
    None = None
    Chat <- BothChats
    Reader <- OneReader
    Rechecks = 2
    MaxVisit = 2
    MaxMutation = 1
    MaxRequest = 2

SPECIFICATION ServicesSpec

CHECK_DEADLOCK FALSE

INVARIANTS
    PersistTypeOK
    EditsKept
    AcceptedIsDurable
    PendingHasARetry
    CopiesStayHome
    NoStoreLost
    UselessEntryGoes
    ChainIntact
    NewestIsBusy
    OwnBlockSent
    TypeOK
    LockExact
    StaleAttemptsStopped
    PendingWatched

PROPERTIES
    DurableOnlyGrows
    LedgerIsALog
    InjectionIsCurrent
    ReadsSettled

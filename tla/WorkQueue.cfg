CONSTANTS
    w1 = w1
    w2 = w2
    p1 = p1
    p2 = p2
    NoWorker = NoWorker
    NoClaim = NoClaim
    NoDraft = NoDraft
    Work <- MCWork
    Worker <- MCWorker
    Scope <- MCScope
    Priority <- MCPriority
    MaxAttempts <- MCMaxAttempts
    Backoff <- MCBackoff
    ExpiryDelay <- MCExpiryDelay
    LeaseTicks = {1, 2}
    Delay = {0, 1}
    Horizon = 1
SPECIFICATION FairSpec
INVARIANTS
    TypeOK
    PublishedOnce
    AttemptLeft
    DependenciesFirst
    NoDependencyCycle
PROPERTIES
    OnlyHolderWrites
    RowsAdvance
    KeepsPromise
    EventuallyDecided
CHECK_DEADLOCK FALSE

CONSTANTS
    s1 = s1
    s2 = s2
    s3 = s3
    fence = fence
    token = token
    lock = lock
    NoWait = NoWait
    NoSavepoint = NoSavepoint
    NoFence = NoFence
    Session <- MCSession
    Key <- MCKey
    RowKey <- MCRowKey
    Rank <- MCRank
    Fence <- MCFence
SPECIFICATION LockFairSpec
INVARIANTS
    LockTypeOK
    LedgerHonest
    NoLockDeadlock
PROPERTIES
    KeepsLockPromise
    EventuallyServed

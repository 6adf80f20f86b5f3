CONSTANTS
    j1 = j1
    w1 = w1
    w2 = w2
    NoWorker = NoWorker
    NoJob = NoJob
    NoRow = NoRow
    Job <- MCJob
    Worker <- MCWorker
    MaxRequest = 2
    MaxAttempts = 2
    LegacyAttempts <- MCLegacyAttempts
SPECIFICATION Spec
INVARIANTS
    RegistrationSkips

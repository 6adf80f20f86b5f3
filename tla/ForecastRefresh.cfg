CONSTANTS
    t1 = t1
    t2 = t2
    w1 = w1
    w2 = w2
    r1 = r1
    NoTeam = NoTeam
    NoChange = NoChange
    Fixture <- MCOneFixture
    Team <- MCOneTeam
    Writer <- MCWriter
    Refresher <- MCRefresher
    MaxGeneration = 2
    MaxHistory = 1
SPECIFICATION RefreshFairSpec
INVARIANTS
    Fresh
    RefreshTypeOK
    GenerationsAgree
    SupersededIsOld
PROPERTIES
    KeepsForecastPromise
    OutcomeStands
    EventuallyRefreshed

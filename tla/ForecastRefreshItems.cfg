CONSTANTS
    t1 = t1
    t2 = t2
    w1 = w1
    w2 = w2
    r1 = r1
    NoTeam = NoTeam
    NoChange = NoChange
    Fixture <- MCFixture
    Team <- MCOneTeam
    Writer <- MCOneWriter
    Refresher <- MCRefresher
    MaxGeneration = 2
    MaxHistory = 1
SPECIFICATION Spec
INVARIANTS
    SupersededCancelled

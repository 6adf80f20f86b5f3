CONSTANTS
    t1 = t1
    t2 = t2
    w1 = w1
    w2 = w2
    r1 = r1
    NoTeam = NoTeam
    NoChange = NoChange
    Fixture <- MCOneFixture
    Team <- MCTeam
    Writer <- MCOneWriter
    Refresher <- MCRefresher
    MaxGeneration = 3
    MaxHistory = 0
SPECIFICATION Spec
INVARIANTS
    LatestIsCurrent

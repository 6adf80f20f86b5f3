CONSTANTS
    r1 = r1
    r2 = r2
    s1 = s1
    s2 = s2
    NoRun = NoRun
    Run <- MCOneRun
    Session <- MCSession
    Lane <- MCLane
    Window = 2
SPECIFICATION RunFairSpec
PROPERTIES
    AbandonedRunEnds

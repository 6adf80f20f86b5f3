CONSTANTS
    r1 = r1
    r2 = r2
    s1 = s1
    s2 = s2
    NoRun = NoRun
    Run <- MCRun
    Session <- MCSession
    Lane <- MCLane
    Window = 2
SPECIFICATION Spec
SYMMETRY Symmetry
INVARIANTS
    RunTypeOK
    WriterActive
    OneWriterPerLane
    WorkFollowsRun
    ExpiryStands
PROPERTIES
    KeepsRunPromise

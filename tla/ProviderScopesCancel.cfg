CONSTANTS
    s1 = s1
    r1 = r1
    r2 = r2
    o1 = o1
    NoScope = NoScope
    Scope <- MCScope
    Current <- MCScope
    Runner <- MCRunner
    Operator <- MCOperator
    MaxItems = 2
    MaxAttempts = 2
SPECIFICATION Spec
INVARIANTS
    CancellationProjected

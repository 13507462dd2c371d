CONSTANTS
    Values = {v1, v2, v3}
    Threads = {t1, t2}
    Clients = {c1, c2}
    Target = 2
    MaxTasks = 3
SPECIFICATION Spec
SYMMETRY Symmetry
INVARIANTS
    TypeOK
    NoTaskLost
    OutOfValuesIsFinal
    TargetMetExactly
    OrderlyShutdown

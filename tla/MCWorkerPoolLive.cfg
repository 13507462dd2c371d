CONSTANTS
    Values = {v1, v2}
    Threads = {t1}
    Clients = {c1, c2}
    Target = 2
    MaxTasks = 2
SPECIFICATION FairSpec
PROPERTIES
    CallsReturn
    PoolWindsDown
    ImplementsContract

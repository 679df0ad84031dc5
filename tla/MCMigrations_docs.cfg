SPECIFICATION Spec
CONSTANTS
    t1 = t1
    t2 = t2
    t3 = t3
    server = server
    cli = cli
    Threads = {t1}
    Process <- OneProcess
    Starts <- States
    MaxCrashes = 1
INVARIANTS
    Converges
    Repaired
CHECK_DEADLOCK FALSE

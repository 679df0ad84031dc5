SPECIFICATION Spec
CONSTANTS
    t1 = t1
    t2 = t2
    t3 = t3
    server = server
    cli = cli
    Threads = {t1, t2, t3}
    Process <- TwoProcesses
    Starts <- States
    MaxCrashes = 2
INVARIANTS
    SchemaOK
    OnlyTheFirstMigrates
CHECK_DEADLOCK FALSE

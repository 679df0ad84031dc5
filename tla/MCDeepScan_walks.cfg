SPECIFICATION FairSpec
CONSTANTS
    a = a
    b = b
    c = c
    cron = cron
    api = api
    None = None
    Names = {a, b, c}
    Configured <- MCConfigured
    Runs = {cron, api}
    MaxScans = 2
    MaxChanges = 2
INVARIANTS
    WalksOK
    EachIsScanned
PROPERTY DeepScanEnds
CHECK_DEADLOCK FALSE

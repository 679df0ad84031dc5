SPECIFICATION Spec
CONSTANTS
    a = a
    b = b
    c = c
    cron = cron
    api = api
    None = None
    Names = {a, b, c}
    Configured <- MCConfigured
    Runs = {cron}
    MaxScans = 1
    MaxChanges = 2
INVARIANTS
    NoneIsPassedOver
    FailureIsContained
CHECK_DEADLOCK FALSE

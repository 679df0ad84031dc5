CONSTANTS
    p1 = p1
    p2 = p2
    Nothing = Nothing
    Passes = {p1, p2}
    Order <- MCOrder
    Interval <- MCInterval
    Backoff = 4
    Cap = 13
    RetryAfters = {2, 20}
    MaxAttempts = 3
SPECIFICATION Spec
INVARIANT RateLimitRespected

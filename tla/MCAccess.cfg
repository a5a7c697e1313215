CONSTANTS
    Responses <- MCResponses
    TTL_DAYS = 1
    COOLDOWN_DURATION = 2
    MaxFetches = 3
    MaxReports = 3
    MaxWarmings = 1
    MaxTime = 4
SPECIFICATION Spec
INVARIANT
    HealthInv
PROPERTIES
    ServedWhole
    Rested
CHECK_DEADLOCK FALSE

CONSTANTS
    Requests = {c1, c2}
    IPs = {i1}
    Tokens = {t1}
    GlobalLimit = 1
    GlobalWindow = 2
    IPLimit = 1
    IPWindow = 2
    MaxRequests = 4
    MaxClock = 2
SYMMETRY Perms
SPECIFICATION HttpSpec
INVARIANTS
    WithinLimits
    ServedAsAnswered
CHECK_DEADLOCK FALSE

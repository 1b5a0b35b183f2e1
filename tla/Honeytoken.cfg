SPECIFICATION HoneytokenFairSpec
CONSTANTS
    c1 = c1
    c2 = c2
    Paths = {p1}
    Calls <- MCCalls
    CallTier <- MCCallTier
    FileTier = "alert"
    FlushAttempts = 2
CHECK_DEADLOCK FALSE
INVARIANTS
    HoneytokenInv
PROPERTIES
    TouchTrips
    KillIsDelivered

SPECIFICATION Spec
CONSTANTS
    w1 = w1
    r1 = r1
    r2 = r2
    Windows <- MCWindows
    Requests <- MCRequests
    GrantTtl = 1
    Retention = 1
    MaxEpoch = 1
SYMMETRY Symmetry
INVARIANTS
    Inv
    OnePutPerGrant
    RevokedMeansUnsent
    ReportsAreTrue

PROPERTY
    MergesWhatWasReviewed

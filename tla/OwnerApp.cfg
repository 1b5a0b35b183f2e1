SPECIFICATION Spec
CONSTANTS
    w1 = w1
    w2 = w2
    Nothing = Nothing
    Windows <- MCWindows
    MaxReviews = 2
    MaxVetoes = 2
    MaxAcks = 1
INVARIANTS
    Inv
    ConfirmedWasSeen
SYMMETRY Symmetry

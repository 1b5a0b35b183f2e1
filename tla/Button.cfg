SPECIFICATION ButtonFairSpec
CONSTANTS
    Debounce = 1
    Reassert = 1
    FaultReassert = 1
    EpisodeGap = 1
    AlertTries = 2
    OutboxCap = 2
    MaxStale = 1
    MaxDrops = 1
INVARIANTS
    ButtonInv
PROPERTIES
    PressIsConfirmed
    LatchedWins

SPECIFICATION FairSpec
CONSTANTS
    w1 = w1
    d1 = d1
    d2 = d2
    NoDevice = NoDevice
    Windows <- MCWindows
    Devices <- MCDevices
    WindowMs = 2
    Extension = 3
    Floor = 2
    DeliveryTtl = 2
    MaxEpoch = 2
INVARIANTS
    Inv
    OwnerHadTime
    SeveredStaySevered
PROPERTIES
    ServedOnlyLive
    EveryWindowEnds

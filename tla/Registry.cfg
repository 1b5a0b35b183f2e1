SPECIFICATION Spec
CONSTANTS
    k1 = k1
    k2 = k2
    s1 = s1
    s2 = s2
    o1 = o1
    NoKey = NoKey
    None = None
    Keys <- MCKeys
    StaticIds <- MCStaticIds
    Owners <- MCOwners
    Provisions <- MCProvisions
    Legacy <- MCLegacy
    MaxActive = 2
    MaxOwners = 1
    MaxInvites = 2
    StandingFaults = FALSE
    MaxDevices = 2
    MaxMints = 2
    MaxEpoch = 1
INVARIANTS
    Inv
    EnrolmentIsForever
    OneKeyOneIdentity
    RevocationHolds
PROPERTIES
    AdmittedOnLiveAuthority

SPECIFICATION FairSpec
CONSTANTS
    o1 = o1
    o2 = o2
    a1 = a1
    c1 = c1
    c2 = c2
    Global = Global
    Owners <- MCOwners
    Agents <- MCAgents
    Ids <- MCIds
    Owner = o1
    MaxRecords = 1
    MaxLogins = 1
    Cooldown = 2
    Ttl = 4
    ChallengeTtl = 1
    LoginTtl = 1
    MaxEpoch = 2
    MaxRestarts = 1
INVARIANTS
    Inv
PROPERTIES
    RestoreEventually
    CooldownAfterEveryKill

SPECIFICATION Spec
CONSTANTS
    a1 = a1
    a2 = a2
    bad = bad
    c1 = c1
    Ids <- MCIds
    Agents <- MCAgents
    Ceremonies <- MCCeremonies
    MaxKilledAgents = 1
    MaxEpoch = 2
CONSTRAINT FewVersions
SYMMETRY Symmetry
INVARIANTS
    TypeOK
    RestartKeepsDenial
    KillSticks
    CapacityHolds
PROPERTY
    KeepsPromise

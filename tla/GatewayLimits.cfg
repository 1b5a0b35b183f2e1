SPECIFICATION Spec
CONSTANTS
    c1 = c1
    c2 = c2
    spend = spend
    fails = fails
    None = None
    Unreadable = Unreadable
    Amounts <- MCAmounts
    Calls <- LimitCalls
    Verdicts <- LimitVerdicts
    Decoys = {}
    Routed = {}
    Rules <- MCRules
    Metric <- MCMetric
    Max <- MCMax
    Windows = {}
    MaxEpoch = 2
    MaxFaults = 1
SYMMETRY LimitSymmetry
INVARIANTS
    OneRestorePerTrip
    NoOverspend
PROPERTIES
    StoppedAgentRunsNothing

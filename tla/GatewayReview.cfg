SPECIFICATION Spec
CONSTANTS
    c1 = c1
    c2 = c2
    spend = spend
    fails = fails
    None = None
    Unreadable = Unreadable
    Amounts <- MCAmounts
    Calls <- ReviewCalls
    Verdicts <- ReviewVerdicts
    Decoys = {c2}
    Routed <- ReviewCalls
    Rules = {}
    Metric <- NoMetric
    Max <- NoMax
    Windows = {w1, w2}
    MaxEpoch = 2
    MaxFaults = 0
SYMMETRY ReviewSymmetry
INVARIANTS
    Inv

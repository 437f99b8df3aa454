\* Two rounds, all control signals, both budgets; two attempts are given up.
SPECIFICATION Spec
CONSTANTS
    a1 = a1
    NoId = NoId
    ApprovalId = {a1}
    MaxRaw = 0
    MaxActions = 0
    MaxSpend = 2
    Budget <- TwoRounds
    Signals = {"pause", "resume", "abort", "adjust_budget"}
    Overrides <- AnyOverride
    MaxAttempts = 2
    MaxFaults = 2
INVARIANT
    IterationsContiguous

\* max_rounds is lowered while the loop runs.
SPECIFICATION Spec
CONSTANTS
    a1 = a1
    a2 = a2
    NoId = NoId
    ApprovalId = {a1, a2}
    MaxRaw = 0
    MaxActions = 0
    MaxSpend = 0
    Budget <- TwoRounds
    Signals = {"adjust_budget"}
    Overrides <- TighterRounds
    MaxAttempts = 3
    MaxFaults = 0
INVARIANTS
    RoundsWithinBudget

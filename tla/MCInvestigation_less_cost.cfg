\* max_cost_usd is lowered while the loop runs.
SPECIFICATION Spec
CONSTANTS
    a1 = a1
    a2 = a2
    NoId = NoId
    ApprovalId = {a1, a2}
    MaxRaw = 0
    MaxActions = 0
    MaxSpend = 1
    Budget <- TwoRounds
    Signals = {"adjust_budget"}
    Overrides <- TighterCost
    MaxAttempts = 3
    MaxFaults = 0
INVARIANTS
    SpendWithinBudget

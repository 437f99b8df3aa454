\* A decision arrives before the workflow knows its approval.
SPECIFICATION Spec
CONSTANTS
    a1 = a1
    a2 = a2
    NoId = NoId
    ApprovalId = {a1, a2}
    MaxRaw = 0
    MaxActions = 2
    MaxSpend = 0
    Budget <- OneRound
    Signals = {}
    Overrides <- NoOverrides
    MaxAttempts = 3
    MaxFaults = 0
PROPERTIES
    EarlyDecisionKept

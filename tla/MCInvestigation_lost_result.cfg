\* The result of one attempt is lost.
SPECIFICATION Spec
CONSTANTS
    a1 = a1
    a2 = a2
    NoId = NoId
    ApprovalId = {a1, a2}
    MaxRaw = 0
    MaxActions = 0
    MaxSpend = 0
    Budget <- OneRound
    Signals = {}
    Overrides <- NoOverrides
    MaxAttempts = 3
    MaxFaults = 1
INVARIANTS
    EndsTerminal

\* Liveness: two rounds, pausing, one playbook gate, one attempt given up.
SPECIFICATION FairSpec
CONSTANTS
    a1 = a1
    a2 = a2
    NoId = NoId
    ApprovalId = {a1, a2}
    MaxRaw = 0
    MaxActions = 1
    MaxSpend = 0
    Budget <- TwoRounds
    Signals = {"pause", "resume", "abort"}
    Overrides <- NoOverrides
    MaxAttempts = 3
    MaxFaults = 1
PROPERTIES
    Termination

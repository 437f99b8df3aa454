\* Two playbooks, approved one after the other; one attempt is given up.
SPECIFICATION Spec
CONSTANTS
    a1 = a1
    a2 = a2
    a3 = a3
    NoId = NoId
    ApprovalId = {a1, a2, a3}
    MaxRaw = 0
    MaxActions = 2
    MaxSpend = 0
    Budget <- OneRound
    Signals = {"abort"}
    Overrides <- NoOverrides
    MaxAttempts = 3
    MaxFaults = 1
SYMMETRY Symmetry
INVARIANTS
    ExecutionApproved
    PlaybookRunsOnce
    ResolvedMeansExecuted

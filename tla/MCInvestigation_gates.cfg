\* One raw command, one playbook; one attempt is given up.
SPECIFICATION Spec
CONSTANTS
    a1 = a1
    a2 = a2
    a3 = a3
    NoId = NoId
    ApprovalId = {a1, a2, a3}
    MaxRaw = 1
    MaxActions = 1
    MaxSpend = 0
    Budget <- OneRound
    Signals = {}
    Overrides <- NoOverrides
    MaxAttempts = 3
    MaxFaults = 1
SYMMETRY Symmetry
INVARIANTS
    TypeOK
    ExecutionApproved
    HumanDecisionHonoured
    HumanActorKept
    CleanEnd
PROPERTIES
    TerminalLeftOnlyLate

\* From the signing-key job on: every kind of action beside a second one, on both deployments.
SPECIFICATION Spec
CONSTANTS
    e1 = e1
    e2 = e2
    j1 = j1
    j2 = j2
    v1 = v1
    v2 = v2
    v3 = v3
    None = None
    Job = {j1, j2}
    Installs <- InstallsOf
    Exec = {e1, e2}
    Actions <- ActionsOf
    Deployments = {"k8s", "swarm"}
    Targets <- AnyTargets
    Whitelist = {"mem.a", "mem.b", "mem.c"}
    Property = {"mem.a", "mem.b", "mem.c", "other"}
    Value = {v1, v2, v3}
    WithEquals = {v3}
    FirstFile <- AllFirst
    Queries = {"q1"}
    Attempts = 2
    MaxFaults = 1
INVARIANTS
    TypeOK
    StepsInOrder
    SucceededMeansDone
    RunsWithinRows
    OnlyWhitelisted
    SignaturesTrusted
    JobsAgree
PROPERTY
    KeyKept
SYMMETRY Jobs
CHECK_DEADLOCK FALSE

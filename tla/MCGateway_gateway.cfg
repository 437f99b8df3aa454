\* Three alerts of two fingerprints, two workers, groups of two, one fault.
SPECIFICATION Spec
CONSTANTS
    r1 = r1
    r2 = r2
    r3 = r3
    w1 = w1
    w2 = w2
    None = None
    Req = {r1, r2, r3}
    Worker = {w1, w2}
    Watched = w1
    Fingerprint <- TwoFingerprints
    BatchSize = 2
    DefaultWindow = 0
    FirstPlatform <- Default
    Platforms <- FewPlatforms
    Elsewhere = {r1}
    CancelAt = {"waiting", "running"}
    MaxTime = 1
    MaxFaults = 1
INVARIANTS
    TypeOK
    OneOpenCase
    AnswerDurable
    LockHeldInside
    NeverTwice
    FastPathAgrees
    HandedInOrder
    FullGroupWakes
    NobodyStranded
    AnswersTrue
PROPERTIES
    OneGroupAtATime
    KeepsPromise
    EveryRequestAnswered
CHECK_DEADLOCK FALSE

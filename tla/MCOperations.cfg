CONSTANTS
    o1 = o1
    w1 = w1
    w2 = w2
    o2 = o2
    k1 = k1
    safe = safe
    manual = manual
    once = once
    Ops = {o1}
    Workers = {w1, w2}
    Keys = {k1}
    NoKey = NoKey
    NoWorker = NoWorker
    NoTime = NoTime
    Inputs <- MCInputs
    RetryClass <- MCRetryClass
    Requested <- MCRequested
    Supported <- MCInputs
    AttemptLimit = 3
    LeaseDuration = 2
    RetryBase = 1
    RetryCap = 2
    Times = {0, 2, 3}
    Percents = {0, 50}
    MaxEvents = 4
SPECIFICATION Spec
CHECK_DEADLOCK FALSE
INVARIANTS LeaseLedger OutcomeAgrees CancellationHolds
PROPERTIES KeepsContract

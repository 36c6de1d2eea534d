CONSTANTS
    o1 = o1
    w1 = w1
    w2 = w2
    safe = safe
    once = once
    Ops = {o1}
    Workers = {w1, w2}
    Keys = {}
    NoKey = NoKey
    NoWorker = NoWorker
    NoTime = NoTime
    Inputs <- MCInputs
    RetryClass <- MCRetryClass
    Requested <- MCRequested
    Supported <- MCInputs
    AttemptLimit = 3
    LeaseDuration = 2
    RetryBase = 1
    RetryCap = 2
    Times = {0}
    Percents = {50}
    MaxEvents = 3
    MaxFaults = 1
    Prompt = FALSE
SPECIFICATION LiveSpec
INVARIANTS RecordedAsReturned
PROPERTIES OperationSettles CancellationSettles
CHECK_DEADLOCK FALSE

CONSTANTS
    k1 = k1
    k2 = k2
    w1 = w1
    w2 = w2
    Keys <- MCKeys
    Workers <- MCWorkers
    MaxAdds = 3
    MaxFailures = 1
    NoKey = NoKey
    BaseDelay = 1
    MaxDelay = 1000

SPECIFICATION Spec

\* Workers legitimately block in Get once the bounded informer has stopped
\* adding and ctx is never cancelled.
CHECK_DEADLOCK FALSE

INVARIANTS
    TypeOk
    QueueMatchesDirty
    ExclusiveProcessing

PROPERTIES
    EventuallyProcessed
    FailedIsRetried
    ShutdownTerminates
    ImplementsKeyQueue

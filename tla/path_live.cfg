CONSTANTS
    d = d
    t1 = t1
    c1 = c1
    NoEvent = NoEvent
    Events = {e1, d}
    Workers = {w1}
    BatchSize = 1
    MaxAttempts = 1
    CreatedAt <- CreatedAtDef
    Faults <- AllFaults
    Hooks = {k1}
    Tasks = {t1}
    Handlers = {h1, h2}
    Home <- HomeDef
    Malformed = {}
    Deletions <- DeletionsDef
    Subject <- SubjectDef
    Subscribers <- SubscribersDef
    Unusable = {}
    Broken = {}
    MaxRetries = 1
    MaxFaults = 1
    Consumers = {c1}
    ConsumerFaults <- ProcessFaults
SPECIFICATION FairESpec
INVARIANTS
    ProcessedIsAccounted
    ToldIsCommitted
PROPERTY CommittedIsHandled
CHECK_DEADLOCK FALSE

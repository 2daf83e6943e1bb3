CONSTANTS
    e1 = e1
    NoEvent = NoEvent
    Events = {e1, e2}
    Workers = {w1}
    BatchSize = 2
    MaxAttempts = 2
    CreatedAt <- CreatedAtDef
    Faults <- CrashOnly
SPECIFICATION FairOSpec
PROPERTY EveryEventSettles

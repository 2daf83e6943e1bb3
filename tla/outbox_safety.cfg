CONSTANTS
    e1 = e1
    NoEvent = NoEvent
    Events = {e1, e2, e3}
    Workers = {w1, w2}
    BatchSize = 2
    MaxAttempts = 2
    CreatedAt <- CreatedAtDef
    Faults <- AllFaults
SPECIFICATION FairOSpec
INVARIANTS
    SingleOwner
    DuplicatesAreCounted
    GivenUpWhenExhausted
    OrderKept
PROPERTIES
    StrandedForGood
    StrandedByFaults
    KeepsPromise
    SettlesOrStrands

CONSTANTS
    bad = bad
    t1 = t1
    w1 = w1
    w2 = w2
    h1 = h1
    kb = kb
    ku = ku
    NoEvent = NoEvent
    Events = {e1, bad}
    Hooks = {k1, kb, ku}
    Tasks = {t1}
    Workers = {w1, w2}
    Handlers = {h1, h2}
    Home <- HomeDef
    Malformed <- MalformedDef
    Deletions = {}
    Subject <- SubjectDef
    Subscribers <- SubscribersDef
    Unusable <- UnusableDef
    Broken <- BrokenDef
    MaxRetries = 1
    MaxCopies = 2
    MaxFaults = 2
    Faults <- AllFaults
SPECIFICATION CSpec
INVARIANTS
    RetriesConserve
    RepeatsNeedRollback
    NoMessageLost
    ProcessedReachedSubscribers
PROPERTY DeliversEvents
CHECK_DEADLOCK FALSE

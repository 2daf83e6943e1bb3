CONSTANTS
    Requests = {r1, r2}
    Limit = 2
    Faults <- AllFaults
SPECIFICATION FairSpec
INVARIANTS
    WithinLimit
    CountedAsAnswered
PROPERTIES
    StuckByFaults
    WindowsEnd

CONSTANTS
    Users = {u1, u2}
    Requests = {r1, r2}
    Statuses = {todo, done}
    Todo = todo
    Nobody = Nobody
    NoStatus = NoStatus
    NoRequest = NoRequest
    Guessing = TRUE
    Failures = TRUE
    MaxStarts = 3
SYMMETRY Symmetry
SPECIFICATION GSpec
INVARIANTS
    NoLostUpdate
    HistoryIsChain
    EventsTellChanges
    CreatedAtFollowsVersions
    SomeoneProceeds
PROPERTIES
    IsVersionedTask

CONSTANTS
    Users = {f, u1, u2}
    Founder = f
    Requests = {r1, r2}
    NoRole = NoRole
    MaxWebhooks = 1
SYMMETRY Symmetry
SPECIFICATION Spec
INVARIANTS
    FounderStaysOwner
PROPERTIES
    OwnershipLostOnlyInFlight
    RemovedStaysOut

CONSTANTS
    Requests = {r1, r2}
    Limit = 1
    Faults <- NoFaults
SPECIFICATION Spec
PROPERTIES
    RejectedWith429

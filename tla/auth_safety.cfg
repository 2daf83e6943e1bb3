CONSTANTS
    Nobody = Nobody
    NoSession = NoSession
    Users = {u1}
    Sessions = {s1, s2, s3}
    Requests = {r1, r2}
    Altered <- Either
    Surprises <- AllSurprises
SYMMETRY Symmetry
SPECIFICATION Spec
INVARIANTS
    SingleLive
    ChainRecorded
    RevocationCoversSnapshot
    SomeoneProceeds
PROPERTIES
    RotationIsSafe

CONSTANTS
    Commands = {c1, c2}
    Events = {e1}
SYMMETRY Symmetry
SPECIFICATION Spec
INVARIANTS
    SchemaServesRevision
PROPERTIES
    FailsOnlyForCause
    EventsSurvive

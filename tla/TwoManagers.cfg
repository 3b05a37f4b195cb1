CONSTANTS
    Managers = {m1, m2}
    NIL = NIL
    Specs <- EnvSpecs
    Edits <- EnvEdit
    EVENT_MAX_SIZE = 0
    Disturbances = {"edit", "fault"}
    MaxUpsets = 1
SYMMETRY Symmetry
SPECIFICATION Spec
INVARIANTS
    CopiesCurrent
    NothingBeforeAccepted
PROPERTIES
    StatusRefines
    RunningVerified
CHECK_DEADLOCK FALSE

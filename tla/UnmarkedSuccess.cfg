CONSTANTS
    Managers = {m1}
    NIL = NIL
    Specs <- EnvSpecs
    Edits = {}
    EVENT_MAX_SIZE = 0
    Disturbances = {}
    MaxUpsets = 0
SPECIFICATION Spec
INVARIANTS
    SuccessEventsAreMarked
CHECK_DEADLOCK FALSE

CONSTANTS
    Managers = {m1}
    NIL = NIL
    Specs <- NoReplicasSpecs
    Edits = {}
    EVENT_MAX_SIZE = 0
    Disturbances = {}
    MaxUpsets = 0
SPECIFICATION FairSpec
PROPERTIES
    TimeoutReported
CHECK_DEADLOCK FALSE

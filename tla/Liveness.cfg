CONSTANTS
    Managers = {m1}
    NIL = NIL
    Specs <- LiveSpecs
    Edits <- LiveEdits
    EVENT_MAX_SIZE = 0
    Disturbances = {"edit", "fault", "delete", "nacos", "hang"}
    MaxUpsets = 2
SPECIFICATION FairSpec
PROPERTIES
    Converges
    OutageReported
    RecoveryReported
    TimeoutReported
    ChildrenCollected
CHECK_DEADLOCK FALSE

CONSTANTS
    Managers = {m1}
    NIL = NIL
    Specs <- VolumeSpecs
    Edits <- VolumeEdit
    EVENT_MAX_SIZE = 0
    Disturbances = {"edit"}
    MaxUpsets = 1
SPECIFICATION Spec
PROPERTIES
    RunningIsNormal
CHECK_DEADLOCK FALSE

CONSTANTS
    Managers = {m1}
    NIL = NIL
    Specs <- EverySpec
    Edits <- EveryEdit
    EVENT_MAX_SIZE = 1
    Disturbances = {"edit", "fault", "nacos"}
    MaxUpsets = 2
SPECIFICATION Spec
INVARIANTS
    TypeOK
    StatusCoherent
    JobHasScript
PROPERTIES
    StatusRefines
    RunningVerified
    RunningMatches
    DeletesOnlyOnVolumeChange
CHECK_DEADLOCK FALSE

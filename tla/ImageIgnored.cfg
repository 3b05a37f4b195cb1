CONSTANTS
    Managers = {m1}
    NIL = NIL
    Specs <- ImageSpecs
    Edits <- ImageEdit
    EVENT_MAX_SIZE = 0
    Disturbances = {"edit"}
    MaxUpsets = 1
SPECIFICATION FairSpec
PROPERTIES
    ImageConverges
CHECK_DEADLOCK FALSE

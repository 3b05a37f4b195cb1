CONSTANTS
    N = 3
    Retries = 1
    MaxUpsets = 3
SPECIFICATION Spec
INVARIANTS
    TypeOK
    StartsAfterAll
PROPERTIES
    MembersStart
    ImportCompletes
CHECK_DEADLOCK FALSE

CONSTANTS
    N = 3
    NONE = NONE
    HostNames = TRUE
    MaxUpsets = 1
SPECIFICATION Spec
INVARIANTS
    TypeOK
    OneLeader
    LeadersAgree
PROPERTIES
    ConditionsMatch
    WellReported
    FailureReported

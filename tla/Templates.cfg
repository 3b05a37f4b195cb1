CONSTANTS
    NIL = NIL
    Alphabet <- AllNames
    Specs <- EverySpec
    Walks <- BothWays
    Completions <- FieldRefs
SPECIFICATION Spec
INVARIANTS
    TypeOK
    Settled
    EnvArrives
    CertificationArrives
    NothingLost
    PodsAccepted
PROPERTIES
    ContainersStay
CHECK_DEADLOCK FALSE

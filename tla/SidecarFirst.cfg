CONSTANTS
    NIL = NIL
    Alphabet <- AllNames
    Specs <- SidecarSpecs
    Walks <- BothWays
    Completions <- FieldRefs
SPECIFICATION Spec
INVARIANTS
    CertificationPassed
CHECK_DEADLOCK FALSE

CONSTANTS
    NIL = NIL
    Alphabet <- AllNames
    Specs <- PatchedSpecs
    Walks <- BothWays
    Completions <- FieldRefs
SPECIFICATION Spec
INVARIANTS
    DatabaseImported
CHECK_DEADLOCK FALSE

SPECIFICATION Spec
CONSTANTS
    Row <- Three
    REG_BYTES = 4
    DWORD = 2
    MEM_BYTES = 5
    Width <- AllWidths
    Op <- Distinct
    limit_offset = 1
    HasSink = FALSE
    MaxSteps = 2
INVARIANTS NoFalseNegatives
PROPERTIES InputsReported MovesAreExact

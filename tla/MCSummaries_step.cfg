SPECIFICATION CallSpec
CONSTANTS
    Row <- Registers
    REG_BYTES = 4
    DWORD = 2
    MEM_BYTES = 9
    Width <- AllWidths
    Op <- Program
    limit_offset = 2
    HasSink = FALSE
    MaxSteps = 1
    Conf <- Listed
    MAX_PROP_BYTES = 2
    WCHAR = 2
    MaxLen = 3
    Fun <- Library
    Body <- Ifunc
    NulChoice <- Strings
INVARIANTS TypeOK M2mIsByteLoop
PROPERTIES CallsKeepTaint TagsComeFromOperands

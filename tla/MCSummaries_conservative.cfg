SPECIFICATION CallSpec
CONSTANTS
    Row <- Registers
    REG_BYTES = 4
    DWORD = 2
    MEM_BYTES = 9
    Width <- AllWidths
    Op <- Checksum
    limit_offset = 2
    HasSink = TRUE
    MaxSteps = 1
    Conf <- OverTaint
    MAX_PROP_BYTES = 2
    WCHAR = 2
    MaxLen = 3
    Fun <- Unlisted
    Body = {}
    NulChoice <- Strings
PROPERTIES CallsKeepTaint

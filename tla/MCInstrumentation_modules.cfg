SPECIFICATION Spec
CONSTANTS
    MaxPc = 12
    Image <- Modules
    Base <- Moving
    Env <- Values
    SdftEnv = {TRUE, FALSE}
    Conf <- Lines
    FuncChoice <- Write
    PcChoice <- Entries
    RangeChoice <- Ranges
    LateFuncSinks = FALSE
    MaxSinks = 2
INVARIANTS TypeOK IsMntExact SkipIsJustified SummariesApplied FuncSinksFire

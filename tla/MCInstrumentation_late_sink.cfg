SPECIFICATION Spec
CONSTANTS
    MaxPc = 12
    Image <- Modules
    Base <- Moving
    Env = {"off"}
    SdftEnv = {FALSE}
    Conf <- Lines
    FuncChoice <- Write
    PcChoice <- Nowhere
    RangeChoice <- Nowhere
    LateFuncSinks = TRUE
    MaxSinks = 1
INVARIANTS FuncSinksFire

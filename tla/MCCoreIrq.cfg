CONSTANTS
    NWords = 8
    NRegs = 4
    AluOut <- MCAluOut
    BrFlg <- MCBrFlg
    CauseEcall = 1
    CauseExternal = 3
    StartAddr = 0
    NoAddr = NoAddr
    First <- NoLoad
    Second <- NoLoad
    ProgramPcs = {0, 1, 2, 3}
    Programs <- MCPrograms
    RegFiles <- MCRegFiles
    DataMems <- MCDataMems
    CsrFiles <- MCCsrFiles
    DevAddrs = {}
    DevReplies <- NoDevice
    IrqLevels = {TRUE, FALSE}
    IrqOffset = 0
SPECIFICATION IrqSpec
PROPERTIES MaskRespected HandlerRuns ProgramResumes

CONSTANTS
    NWords = 4
    NRegs = 3
    AluOut <- MCAluOut
    BrFlg <- MCBrFlg
    CauseEcall = 1
    CauseExternal = 3
    StartAddr = 0
    NoAddr = NoAddr
    Alphabets <- ThreeAlphabets
    Programs <- MCPrograms
    RegFiles <- MCRegFiles
    DataMems <- MCDataMems
    CsrFiles <- MCCsrReset
    DevAddrs = {1}
    DevReplies <- AnyReply
    IrqLevels = {FALSE}
    IrqOffset = 0
SPECIFICATION MCSpec
INVARIANTS TypeOK ResultsCurrent OperandsCurrent HazardsStalled
PROPERTIES ImplementsIsa KeepsExecuting

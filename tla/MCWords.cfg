CONSTANTS
    W = 4
    Depth = 2
    Inputs <- MCInputs
    Junk <- MCJunk
    MaxCalls = 1
SPECIFICATION WordsSpec
INVARIANT AluAgrees
PROPERTIES FieldsWritten CallsStayLocal ReadersTell CratesAgree
CHECK_DEADLOCK FALSE

CONSTANTS
    Crc <- MCCrc
    BufferSize = 9
    MemSize = 4
    AddressSpace = 64
    Version = 90
    Lines <- MCLines
    Numbers = 5
    Requests <- Queries
    MaxCalls = 4
    MaxAbandoned = 3
SPECIFICATION ToolSpec
INVARIANTS AnswerIsOwn QuietCallSucceeds
PROPERTY QuietCallReturns
CHECK_DEADLOCK FALSE

CONSTANTS
    Crc <- MCCrc
    BufferSize = 9
    MemSize = 4
    AddressSpace = 64
    Version = 90
    Lines <- MCLines
    Numbers = 5
    Requests <- Reads
    MaxCalls = 1
    MaxAbandoned = 0
SPECIFICATION ToolSpec
PROPERTY QuietCallReturns
CHECK_DEADLOCK FALSE

CONSTANTS
    Crc <- MCCrc
    BufferSize = 9
    MemSize = 8
    AddressSpace = 64
    Version = 1
    Lines <- MCLines
    Sendable <- LongReads
    Ignored <- Nothing
    Tails <- Nothing
SPECIFICATION MCSpec
INVARIANT NoPanic
CHECK_DEADLOCK FALSE

CONSTANTS
    Crc <- MCCrc
    BufferSize = 9
    MemSize = 4
    AddressSpace = 64
    Version = 1
    Lines <- MCLines
    Sendable <- MCSendable
    Ignored <- MCIgnored
    Tails <- MCTails
SPECIFICATION MCSpec
INVARIANTS TypeOK ReadFits AnswersWhole
PROPERTIES ImplementsService EveryRequestAnswered
CHECK_DEADLOCK FALSE

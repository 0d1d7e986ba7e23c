CONSTANTS
    Depth = 2
    Junk <- MCJunk
    Bytes <- MCBytes
    Arriving <- MCArriving
    Hello <- MCHello
    Responses <- MCResponses
    MaxRead = 2
    MaxAnswers = 5
SPECIFICATION MCSpec
INVARIANTS TypeOK ResponsesWhole EchoInOrder
PROPERTIES ImplementsStream LedsTurn Drained EchoComplete

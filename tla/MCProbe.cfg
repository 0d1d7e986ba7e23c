CONSTANTS
    bufferDepth = 4
    triggerPosition = 2
    Signals = 5
    Chunks = 4
    numberOfPhases = 2
    MaxSrc = 20
SPECIFICATION Spec
INVARIANT WindowHeld
PROPERTIES FramesAreWindows KeepsReporting

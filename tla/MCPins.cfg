CONSTANTS
    numberOfBits = 3
    rxSyncStages = 2
    Dividers <- MCDividers
    rows = 3
    refreshInterval = 6
    refreshGuardInterval = 2
    Columns <- MCColumns
    numberOfSegments = 3
    numberOfDigits = 3
    shiftClockDivider = 1
    segmentUpdateDivider = 3
    cathodeCommon = TRUE
    isOEActiveLow = TRUE
    Patterns <- MCPatterns
    pulseWidthH = 1
    backPorchH = 1
    pixelsH = 4
    frontPorchH = 1
    pulseWidthV = 2
    backPorchV = 3
    pixelsV = 4
    frontPorchV = 1
    magnificationRateH = 2
    magnificationRateV = 2
    VramPixels <- MCPixels
    CpuPeriods = {2, 3}
    DrawTime = 3
SPECIFICATION PinSpec
INVARIANTS InStep RowsApart DigitIsWhole Balanced LinkDecodes
PROPERTIES DeliversWords DisplaysRefreshed PictureShown

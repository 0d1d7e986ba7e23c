----------------------------- MODULE SegmentLed -----------------------------
(***************************************************************************)
(* The scan of the segment display (segled/multi_segment_led.scala): one   *)
(* digit after the other is shifted bit by bit into the registers that     *)
(* drive its segments, and shown while the next one is shifted in.         *)
(***************************************************************************)
EXTENDS Integers

CONSTANTS
    numberOfSegments, numberOfDigits, shiftClockDivider, segmentUpdateDivider,
    cathodeCommon, isOEActiveLow,
    Patterns        \* what a digit may show

Segment == 0 .. numberOfSegments - 1
Digit   == 0 .. numberOfDigits - 1

(* segmentUpdateCounter has no bit for a divider that is a power of two.   *)
ASSUME SegmentAssumption ==
    /\ numberOfSegments \in Nat /\ numberOfSegments > 1 /\ numberOfDigits \in Nat \ {0}
    /\ shiftClockDivider \in Nat /\ segmentUpdateDivider \in Nat
    /\ \A k \in 0 .. segmentUpdateDivider : 2 ^ k # segmentUpdateDivider
    /\ cathodeCommon \in BOOLEAN /\ isOEActiveLow \in BOOLEAN
    /\ Patterns \subseteq [Segment -> BOOLEAN]

VARIABLES
    state, digitIndex, segmentCounter, shiftClockCounter, segmentUpdateCounter, segmentShiftReg,
    segmentOut, digitSelector,      \* the pins of the two shift registers
    segmentChip, digitChip,         \* the shift registers on the board
    next, shown     \* history: the digit being shifted in, and the one shown

scan == <<digitIndex, segmentCounter, shiftClockCounter, segmentUpdateCounter, segmentShiftReg>>
pins == <<segmentOut, digitSelector>>
history == <<next, shown>>
segmentVars == <<state, scan, pins, segmentChip, digitChip, history>>

segmentLogic1      == cathodeCommon
digitLogic1        == ~cathodeCommon
outputEnableLogic1 == ~isOEActiveLow

Pins  == [outputEnable : BOOLEAN, shiftClock : BOOLEAN, latch : BOOLEAN, data : BOOLEAN]
Level(bit, logic1) == IF bit THEN logic1 ELSE ~logic1

(* A shift register on the board: it shifts at the rising edge of its      *)
(* clock and puts out what it holds at the rising edge of its latch.       *)
Chip(n) == [shift : [0 .. n - 1 -> BOOLEAN], out : [0 .. n - 1 -> BOOLEAN]]
Follows(chip, old, new) ==
    [shift |-> IF new.shiftClock /\ ~old.shiftClock
               THEN [i \in DOMAIN chip.shift |-> IF i = 0 THEN new.data ELSE chip.shift[i - 1]]
               ELSE chip.shift,
     out   |-> IF new.latch /\ ~old.latch THEN chip.shift ELSE chip.out]

(* The turn of a digit: what it is to show, and how many digits have had   *)
(* one since power-up, up to all.                                          *)
TurnOf(digit, pattern) ==
    [digit |-> digit, pattern |-> pattern,
     known |-> IF next.known < numberOfDigits THEN next.known + 1 ELSE numberOfDigits]

-----------------------------------------------------------------------------
Reset ==
    /\ state = "Reset" /\ state' = "SetupDigit"
    /\ digitIndex' = 0 /\ segmentCounter' = 0 /\ shiftClockCounter' = 0
    /\ segmentOut'    = [segmentOut    EXCEPT !.latch = FALSE, !.outputEnable = ~outputEnableLogic1]
    /\ digitSelector' = [digitSelector EXCEPT !.latch = FALSE, !.outputEnable = ~outputEnableLogic1]
    /\ UNCHANGED <<segmentUpdateCounter, segmentShiftReg, history>>

Faulty_NextDigit == IF digitIndex + 2 >= numberOfDigits THEN 0 ELSE digitIndex + 1  \* one too early
NextDigit == IF digitIndex = numberOfDigits - 1 THEN 0 ELSE digitIndex + 1

SetupDigit ==
    /\ state = "SetupDigit" /\ state' = "ShiftDigit"
    /\ segmentOut'    = [segmentOut EXCEPT !.latch = FALSE]
    /\ digitSelector' = [digitSelector EXCEPT !.latch = FALSE, !.shiftClock = FALSE,
                                              !.data = Level(digitIndex = 0, digitLogic1)]
    /\ digitIndex'    = NextDigit
    /\ shiftClockCounter' = shiftClockDivider
    /\ segmentCounter' = numberOfSegments - 1
    /\ segmentShiftReg' \in Patterns                    \* io.digits(digitIndex)
    /\ next' = TurnOf(digitIndex, segmentShiftReg')
    /\ UNCHANGED <<segmentUpdateCounter, shown>>

(* Half a shift clock has not passed yet.                                  *)
Hold ==
    /\ state \in {"ShiftDigit", "ShiftSegment"} /\ shiftClockCounter > 0
    /\ shiftClockCounter' = shiftClockCounter - 1
    /\ UNCHANGED <<state, digitIndex, segmentCounter, segmentUpdateCounter, segmentShiftReg>>
    /\ UNCHANGED <<pins, history>>

ShiftDigit ==
    /\ state = "ShiftDigit" /\ shiftClockCounter = 0
    /\ digitSelector' = [digitSelector EXCEPT !.shiftClock = ~@]
    /\ shiftClockCounter' = shiftClockDivider
    /\ state' = IF digitSelector.shiftClock THEN "SetupSegment" ELSE state
    /\ UNCHANGED <<digitIndex, segmentCounter, segmentUpdateCounter, segmentShiftReg>>
    /\ UNCHANGED <<segmentOut, history>>

SetupSegment ==
    /\ state = "SetupSegment" /\ state' = "ShiftSegment"
    /\ segmentOut' = [segmentOut EXCEPT !.shiftClock = FALSE,
                          !.data = Level(segmentShiftReg[numberOfSegments - 1], segmentLogic1)]
    /\ segmentShiftReg' = [i \in Segment |-> i > 0 /\ segmentShiftReg[i - 1]]
    /\ shiftClockCounter' = shiftClockDivider
    /\ UNCHANGED <<digitIndex, segmentCounter, segmentUpdateCounter, digitSelector, history>>

Faulty_LastSegment == segmentCounter <= 1
LastSegment == segmentCounter = 0

ShiftSegment ==
    /\ state = "ShiftSegment" /\ shiftClockCounter = 0
    /\ segmentOut' = [segmentOut EXCEPT !.shiftClock = ~@]
    /\ shiftClockCounter' = shiftClockDivider
    /\ segmentCounter' = IF segmentOut.shiftClock /\ ~LastSegment
                         THEN segmentCounter - 1 ELSE segmentCounter
    /\ state' = IF ~segmentOut.shiftClock THEN state
                ELSE IF LastSegment THEN "OutputDigit" ELSE "SetupSegment"
    /\ UNCHANGED <<digitIndex, segmentUpdateCounter, segmentShiftReg, digitSelector, history>>

OutputDigit ==
    /\ state = "OutputDigit" /\ state' = "HoldDigit"
    /\ segmentOut'    = [segmentOut    EXCEPT !.latch = TRUE, !.outputEnable = outputEnableLogic1]
    /\ digitSelector' = [digitSelector EXCEPT !.latch = TRUE, !.outputEnable = outputEnableLogic1]
    /\ segmentUpdateCounter' = segmentUpdateDivider
    /\ shown' = next
    /\ UNCHANGED <<digitIndex, segmentCounter, shiftClockCounter, segmentShiftReg, next>>

HoldDigit ==
    /\ state = "HoldDigit"
    /\ state' = IF segmentUpdateCounter = 0 THEN "SetupDigit" ELSE state
    /\ segmentUpdateCounter' = IF segmentUpdateCounter > 0 THEN segmentUpdateCounter - 1 ELSE 0
    /\ UNCHANGED <<digitIndex, segmentCounter, shiftClockCounter, segmentShiftReg>>
    /\ UNCHANGED <<pins, history>>

(* A clock edge; the chips follow the pins. *)
Scan ==
    /\ \/ Reset \/ SetupDigit \/ Hold \/ ShiftDigit \/ SetupSegment \/ ShiftSegment
       \/ OutputDigit \/ HoldDigit
    /\ segmentChip' = Follows(segmentChip, segmentOut, segmentOut')
    /\ digitChip'   = Follows(digitChip, digitSelector, digitSelector')

Off(logic1) ==
    [outputEnable |-> ~outputEnableLogic1, shiftClock |-> FALSE, latch |-> FALSE, data |-> ~logic1]

(* The chips come up with anything in them. *)
SegmentInit ==
    /\ state = "Reset" /\ digitIndex = 0 /\ segmentCounter = 0 /\ shiftClockCounter = 0
    /\ segmentUpdateCounter = 0 /\ segmentShiftReg = [i \in Segment |-> FALSE]
    /\ segmentOut = Off(segmentLogic1) /\ digitSelector = Off(segmentLogic1)
    /\ segmentChip \in Chip(numberOfSegments) /\ digitChip \in Chip(numberOfDigits)
    /\ next = [digit |-> 0, pattern |-> segmentShiftReg, known |-> 0] /\ shown = next

(* The clock runs. *)
SegmentSpec == SegmentInit /\ [][Scan]_segmentVars /\ WF_segmentVars(Scan)

-----------------------------------------------------------------------------
Enabled(out) == out.outputEnable = outputEnableLogic1

(***************************************************************************)
(* Whenever the display is on, its segments are those the digit had when   *)
(* its turn began, although the next one is being shifted in, and of the   *)
(* digits selected so far since power-up that digit is on and no other:    *)
(* from the second round on, of all.                                       *)
(***************************************************************************)
DigitIsWhole == Enabled(segmentOut) =>
    /\ \A s \in Segment : segmentChip.out[s] = Level(shown.pattern[s], segmentLogic1)
    /\ \A d \in 0 .. shown.known - 1 : digitChip.out[d] = Level(d = shown.digit, digitLogic1)

(***************************************************************************)
(* Each digit is shown again and again.                                    *)
(***************************************************************************)
EachDigitShown == \A d \in Digit : []<>(Enabled(digitSelector) /\ shown.digit = d)
=============================================================================

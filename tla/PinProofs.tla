----------------------------- MODULE PinProofs ------------------------------
(***************************************************************************)
(* The two LED drivers show what they should, for every size and interval; *)
(* the DVI encoder balances ones and zeros and loses nothing, for every    *)
(* picture; a line between two UARTs delivers what is sent, for every pair *)
(* of dividers within the tolerance; and every frame shows the picture,    *)
(* for every resolution, timing and magnification.                         *)
(***************************************************************************)
EXTENDS MatrixLed, SegmentLed, VideoController, Serial, Integers, FiniteSetTheorems, TLAPS

-----------------------------------------------------------------------------
(* The matrix.  Where the counter stands says how long all has been dark   *)
(* and whether the row lit last is still the one in turn.                  *)

MatrixInv ==
    /\ refreshCounter \in 0 .. refreshInterval - 1
    /\ \E r \in Row : rowReg = {r}
    /\ dark = IF refreshCounter <= LastLit THEN 0 ELSE refreshCounter - LastLit - 1
    /\ refreshCounter <= Turn => lastRow = rowReg

(* After reset the first row is in turn. *)
LEMMA MatrixInitially == MatrixInit => MatrixInv
  BY MatrixAssumption DEF MatrixInit, MatrixInv, Row, LastLit, Turn

(* Every clock keeps the count of dark cycles and the row in turn. *)
LEMMA MatrixStep == MatrixInv /\ [Refresh]_matrixVars => MatrixInv'
  <1> SUFFICES ASSUME MatrixInv, [Refresh]_matrixVars PROVE MatrixInv'
    OBVIOUS
  <1> USE MatrixAssumption DEF MatrixInv, LastLit, Turn
  <1>1. PICK r \in Row : rowReg = {r}
    OBVIOUS
  <1>2. CASE Count /\ Watch
    BY <1>2 DEF Count, Watch, rowEnable
  <1>3. CASE Rotate /\ Watch
    <2>1. rowReg' = {(r + 1) % rows}
      BY <1>1, <1>3 DEF Rotate
    <2>2. (r + 1) % rows \in Row
      BY <1>1 DEF Row
    <2> QED
      BY <1>3, <2>1, <2>2 DEF Rotate, Watch, rowEnable
  <1>4. CASE Wrap /\ Watch
    BY <1>4 DEF Wrap, Watch, rowEnable
  <1>5. CASE UNCHANGED matrixVars
    BY <1>5 DEF matrixVars
  <1> QED
    BY <1>2, <1>3, <1>4, <1>5 DEF Refresh

(* And then what is lit is right. *)
LEMMA MatrixShows == MatrixInv => RowsApart
  <1> SUFFICES ASSUME MatrixInv, io_row # {} PROVE
        /\ \E r \in Row : io_row = {r} /\ io_column = matrix[r]
        /\ io_row # lastRow => dark >= 2 * refreshGuardInterval
    BY DEF RowsApart
  <1> USE MatrixAssumption DEF MatrixInv, LastLit, Turn
  <1>1. rowEnable /\ io_row = rowReg
    BY DEF io_row
  <1>2. PICK r \in Row : rowReg = {r}
    OBVIOUS
  <1>3. io_column = matrix[r]
    <2>1. \A q \in Row : rowReg = {q} <=> q = r
      BY <1>2
    <2>2. (CHOOSE q \in Row : rowReg = {q}) = r
      BY <1>2, <2>1
    <2> QED
      BY <1>2, <2>2 DEF io_column
  <1>4. rowReg # lastRow => dark >= 2 * refreshGuardInterval
    BY <1>1 DEF rowEnable
  <1> QED
    BY <1>1, <1>2, <1>3, <1>4

(***************************************************************************)
(* At most one row of the matrix is lit, with its own columns, and before  *)
(* another is lit all are dark for two guard intervals: for any number of  *)
(* rows and any interval.                                                  *)
(***************************************************************************)
THEOREM MatrixCorrect == MatrixSpec => []RowsApart
  BY MatrixInitially, MatrixStep, MatrixShows, PTL DEF MatrixSpec

-----------------------------------------------------------------------------
(* The segments.  What is still in the circuit and what is in the chip     *)
(* make up the pattern; the digits of the other chip are those selected    *)
(* since power-up, each one place further than the turn before.            *)

States == {"Reset", "SetupDigit", "ShiftDigit", "SetupSegment", "ShiftSegment", "OutputDigit",
           "HoldDigit"}
Turns  == [digit : Digit, pattern : [Segment -> BOOLEAN], known : 0 .. numberOfDigits]

ScanTypeOK ==
    /\ state \in States /\ digitIndex \in Digit /\ segmentCounter \in Segment
    /\ segmentShiftReg \in [Segment -> BOOLEAN]
    /\ segmentOut \in Pins /\ digitSelector \in Pins
    /\ segmentChip \in Chip(numberOfSegments) /\ digitChip \in Chip(numberOfDigits)
    /\ next \in Turns /\ shown \in Turns

(* The clocks rest low and the latches rise in OutputDigit only. *)
PinsRest ==
    /\ segmentOut.shiftClock => state = "ShiftSegment"
    /\ digitSelector.shiftClock => state = "ShiftDigit"
    /\ segmentOut.latch \/ digitSelector.latch => state \in {"HoldDigit", "SetupDigit"}
    /\ Enabled(segmentOut) => state # "Reset"

(* The next digit in turn. *)
InTurn ==
    /\ state = "Reset" => next.known = 0
    /\ next.known = 0 => digitIndex = 0 /\ state \in {"Reset", "SetupDigit"}
    /\ next.known > 0 => digitIndex = IF next.digit = numberOfDigits - 1 THEN 0 ELSE next.digit + 1

(* The segments from c on are in the chip; those up to c are to come. *)
Held(c) == \A i \in Segment : i + c < numberOfSegments =>
              segmentChip.shift[i] = Level(next.pattern[i + c], segmentLogic1)
Left(c) == \A i \in Segment : i + c + 1 >= numberOfSegments =>
              segmentShiftReg[i] = next.pattern[i + c + 1 - numberOfSegments]

SegmentsSplit ==
    /\ state = "ShiftDigit" => segmentCounter = numberOfSegments - 1
    /\ state \in {"ShiftDigit", "SetupSegment"} => Held(segmentCounter + 1) /\ Left(segmentCounter)
    /\ state = "ShiftSegment" =>
          /\ Left(segmentCounter - 1)
          /\ IF segmentOut.shiftClock THEN Held(segmentCounter)
             ELSE /\ Held(segmentCounter + 1)
                  /\ segmentOut.data = Level(next.pattern[segmentCounter], segmentLogic1)
    /\ state = "OutputDigit" => Held(0)

Selected(digit, known) ==
    \A p \in 0 .. known - 1 : digitChip.shift[p] = Level(p = digit, digitLogic1)

DigitSelected ==
    IF state = "ShiftDigit" /\ ~digitSelector.shiftClock
    THEN /\ \A p \in 0 .. next.known - 2 : digitChip.shift[p] = Level(p + 1 = next.digit, digitLogic1)
         /\ digitSelector.data = Level(next.digit = 0, digitLogic1)
    ELSE Selected(next.digit, next.known)

SegmentInv == ScanTypeOK /\ PinsRest /\ InTurn /\ SegmentsSplit /\ DigitSelected /\ DigitIsWhole

(* After reset nothing is known of the chips, and the display is off. *)
LEMMA SegmentInitially == SegmentInit => SegmentInv
  <1> SUFFICES ASSUME SegmentInit PROVE SegmentInv
    OBVIOUS
  <1> USE SegmentAssumption DEF SegmentInit
  <1>1. segmentOut \in Pins /\ digitSelector \in Pins /\ ~Enabled(segmentOut)
        /\ ~segmentOut.shiftClock /\ ~digitSelector.shiftClock
        /\ ~segmentOut.latch /\ ~digitSelector.latch
    BY DEF Off, Pins, Enabled, outputEnableLogic1, segmentLogic1
  <1>2. segmentShiftReg \in [Segment -> BOOLEAN] /\ 0 \in Digit /\ 0 \in Segment
    BY DEF Segment, Digit
  <1>3. next \in Turns /\ shown \in Turns /\ next.known = 0
    BY <1>2 DEF Turns
  <1>4. ScanTypeOK
    BY <1>1, <1>2, <1>3 DEF ScanTypeOK, States
  <1>5. PinsRest /\ DigitIsWhole
    BY <1>1 DEF PinsRest, DigitIsWhole
  <1>7. InTurn /\ SegmentsSplit
    BY <1>3 DEF InTurn, SegmentsSplit
  <1>6. DigitSelected
    BY <1>3 DEF DigitSelected, Selected
  <1> QED
    BY <1>4, <1>5, <1>6, <1>7 DEF SegmentInv

(* A chip keeps its size, whatever its pins do. *)
LEMMA ChipStaysChip ==
    ASSUME NEW n \in Nat, NEW chip \in Chip(n), NEW old \in Pins, NEW new \in Pins
    PROVE  Follows(chip, old, new) \in Chip(n)
  BY DEF Follows, Chip, Pins

(* While a latch does not rise the outputs of its chip stay. *)
LEMMA OutputsStay ==
    ASSUME NEW chip, NEW old, NEW new, ~(new.latch /\ ~old.latch)
    PROVE  Follows(chip, old, new).out = chip.out
  BY DEF Follows

(* While a clock does not rise the contents of its chip stay. *)
LEMMA ContentsStay ==
    ASSUME NEW chip, NEW old, NEW new, ~(new.shiftClock /\ ~old.shiftClock)
    PROVE  Follows(chip, old, new).shift = chip.shift
  BY DEF Follows

(* Every action keeps the types. *)
LEMMA ScanKeepsTypes == SegmentInv /\ Scan => ScanTypeOK'
  <1> SUFFICES ASSUME SegmentInv, Scan PROVE ScanTypeOK'
    OBVIOUS
  <1> USE SegmentAssumption DEF SegmentInv, ScanTypeOK, scan, pins, history
  <1>0. numberOfSegments \in Nat /\ numberOfDigits \in Nat
    OBVIOUS
  <1>1. SUFFICES /\ state' \in States /\ digitIndex' \in Digit /\ segmentCounter' \in Segment
                 /\ segmentShiftReg' \in [Segment -> BOOLEAN]
                 /\ segmentOut' \in Pins /\ digitSelector' \in Pins
                 /\ next' \in Turns /\ shown' \in Turns
    BY <1>0, <1>1, ChipStaysChip DEF Scan
  <1>2. CASE Reset
    <2>1. segmentOut' \in Pins /\ digitSelector' \in Pins
      BY <1>2 DEF Reset, Pins, outputEnableLogic1
    <2> QED
      BY <1>2, <2>1 DEF Reset, States, Digit, Segment
  <1>3. CASE SetupDigit
    <2>1. segmentOut' \in Pins /\ digitSelector' \in Pins
      BY <1>3 DEF SetupDigit, Pins, Level, digitLogic1
    <2>2. segmentShiftReg' \in [Segment -> BOOLEAN] /\ shown' = shown
      BY <1>3 DEF SetupDigit
    <2>3. next' \in Turns
      BY <1>3, <2>2 DEF SetupDigit, TurnOf, Turns
    <2>4. digitIndex' \in Digit /\ segmentCounter' \in Segment /\ state' \in States
      BY <1>3 DEF SetupDigit, NextDigit, States, Digit, Segment
    <2> QED
      BY <2>1, <2>2, <2>3, <2>4
  <1>4. CASE Hold
    BY <1>4 DEF Hold
  <1>5. CASE ShiftDigit
    <2>1. digitSelector' \in Pins
      BY <1>5 DEF ShiftDigit, Pins
    <2> QED
      BY <1>5, <2>1 DEF ShiftDigit, States
  <1>6. CASE SetupSegment
    <2>1. segmentOut' \in Pins
      BY <1>6 DEF SetupSegment, Pins, Level, segmentLogic1
    <2>2. segmentShiftReg' \in [Segment -> BOOLEAN]
      <3>1. \A i \in Segment : i > 0 => i - 1 \in Segment
        BY DEF Segment
      <3> QED
        BY <1>6, <3>1 DEF SetupSegment
    <2> QED
      BY <1>6, <2>1, <2>2 DEF SetupSegment, States
  <1>7. CASE ShiftSegment
    <2>1. segmentOut' \in Pins
      BY <1>7 DEF ShiftSegment, Pins
    <2>2. segmentCounter' \in Segment
      BY <1>7 DEF ShiftSegment, LastSegment, Segment
    <2> QED
      BY <1>7, <2>1, <2>2 DEF ShiftSegment, States
  <1>8. CASE OutputDigit
    <2>1. segmentOut' \in Pins /\ digitSelector' \in Pins
      BY <1>8 DEF OutputDigit, Pins, outputEnableLogic1
    <2> QED
      BY <1>8, <2>1 DEF OutputDigit, States
  <1>9. CASE HoldDigit
    BY <1>9 DEF HoldDigit, States
  <1> QED
    BY <1>2, <1>3, <1>4, <1>5, <1>6, <1>7, <1>8, <1>9 DEF Scan

(* The display changes in OutputDigit only. *)
LEMMA DisplayStays ==
    ASSUME SegmentInv, Scan, shown' = shown,
           segmentOut'.latch => segmentOut.latch, digitSelector'.latch => digitSelector.latch,
           Enabled(segmentOut') => Enabled(segmentOut)
    PROVE  DigitIsWhole'
  <1>1. segmentChip'.out = segmentChip.out /\ digitChip'.out = digitChip.out
    BY OutputsStay DEF Scan
  <1> QED
    BY <1>1 DEF SegmentInv, DigitIsWhole, Enabled, outputEnableLogic1, digitLogic1, segmentLogic1,
         Level

(* What the chip of the segments holds stays when its clock does not rise. *)
LEMMA SegmentsStay ==
    ASSUME Scan, next' = next, ~(segmentOut'.shiftClock /\ ~segmentOut.shiftClock), NEW c, Held(c)
    PROVE  Held(c)'
  BY ContentsStay DEF Scan, Held, Level, segmentLogic1

(* What the chip of the digits holds stays when its clock does not rise. *)
LEMMA DigitsStay ==
    ASSUME Scan, ~(digitSelector'.shiftClock /\ ~digitSelector.shiftClock)
    PROVE  digitChip'.shift = digitChip.shift
  BY ContentsStay DEF Scan

(* An action that moves neither the turn nor the digits' clock. *)
LEMMA DigitsKept ==
    ASSUME SegmentInv, Scan, digitSelector' = digitSelector, next' = next,
           state = "ShiftDigit" <=> state' = "ShiftDigit"
    PROVE  DigitSelected'
  <1>1. digitChip'.shift = digitChip.shift
    BY DigitsStay
  <1> QED
    BY <1>1 DEF SegmentInv, DigitSelected, Selected, Level, digitLogic1

(* Every state of the scan keeps it. *)
LEMMA ScanStep == SegmentInv /\ [Scan]_segmentVars => SegmentInv'
  <1> SUFFICES ASSUME SegmentInv, [Scan]_segmentVars PROVE SegmentInv'
    OBVIOUS
  <1>1. CASE Reset /\ Scan
    <2>0. state = "Reset"
      BY <1>1 DEF Reset
    <2>1. ScanTypeOK'
      BY <1>1, ScanKeepsTypes
    <2>2. ~segmentOut'.shiftClock /\ ~digitSelector'.shiftClock /\ ~segmentOut'.latch
          /\ ~digitSelector'.latch /\ ~Enabled(segmentOut')
          /\ digitIndex' = 0 /\ next' = next /\ shown' = shown /\ state' = "SetupDigit"
      BY <1>1 DEF SegmentInv, ScanTypeOK, PinsRest, Reset, Pins, Enabled, outputEnableLogic1,
           history
    <2>3. PinsRest'
      BY <2>2 DEF PinsRest, Enabled, outputEnableLogic1
    <2>4. next.known = 0
      BY <2>0 DEF SegmentInv, PinsRest, InTurn
    <2>5. InTurn'
      BY <2>2, <2>4 DEF InTurn
    <2>6. DigitSelected'
      BY <2>2, <2>4 DEF DigitSelected, Selected
    <2>7. SegmentsSplit'
      BY <2>2 DEF SegmentsSplit
    <2>8. DigitIsWhole'
      BY <2>2 DEF DigitIsWhole, Enabled, outputEnableLogic1
    <2> QED
      BY <2>1, <2>3, <2>5, <2>6, <2>7, <2>8 DEF SegmentInv
  <1>2. CASE SetupDigit /\ Scan
    <2>1. ScanTypeOK'
      BY <1>2, ScanKeepsTypes
    <2>2. /\ state = "SetupDigit" /\ state' = "ShiftDigit"
          /\ ~segmentOut.shiftClock /\ ~digitSelector.shiftClock
          /\ ~segmentOut'.shiftClock /\ ~digitSelector'.shiftClock
          /\ ~segmentOut'.latch /\ ~digitSelector'.latch
          /\ segmentOut'.outputEnable = segmentOut.outputEnable
          /\ digitSelector'.data = Level(digitIndex = 0, digitLogic1)
          /\ shown' = shown /\ segmentCounter' = numberOfSegments - 1
          /\ digitIndex' = IF digitIndex = numberOfDigits - 1 THEN 0 ELSE digitIndex + 1
          /\ next' = TurnOf(digitIndex, segmentShiftReg')
      BY <1>2 DEF SegmentInv, ScanTypeOK, PinsRest, SetupDigit, NextDigit, Pins
    <2>3. PinsRest'
      BY <2>2 DEF PinsRest
    <2>4. next'.digit = digitIndex /\ next'.pattern = segmentShiftReg'
          /\ next'.known = IF next.known < numberOfDigits THEN next.known + 1 ELSE numberOfDigits
      BY <2>2 DEF TurnOf
    <2>5. /\ digitIndex \in 0 .. numberOfDigits - 1 /\ numberOfDigits \in Nat \ {0}
          /\ next.known \in 0 .. numberOfDigits /\ next.digit \in 0 .. numberOfDigits - 1
      BY SegmentAssumption DEF SegmentInv, ScanTypeOK, Turns, Digit
    <2>6. InTurn'
      BY <2>2, <2>4, <2>5 DEF InTurn
    <2>7. DigitSelected'
      <3>1. \A p \in 0 .. next.known - 1 : digitChip.shift[p] = Level(p = next.digit, digitLogic1)
        BY <2>2 DEF SegmentInv, DigitSelected, Selected
      <3>2. digitChip'.shift = digitChip.shift
        BY <1>2, <2>2, DigitsStay
      <3>3. \A p \in 0 .. next'.known - 2 : p \in 0 .. next.known - 1 /\ (p = next.digit <=> p + 1 = digitIndex)
        BY <2>4, <2>5 DEF SegmentInv, InTurn
      <3>4. \A p \in 0 .. next'.known - 2 :
              digitChip'.shift[p] = Level(p + 1 = next'.digit, digitLogic1)
        BY <2>4, <3>1, <3>2, <3>3 DEF Level
      <3> QED
        BY <2>2, <2>4, <3>4 DEF DigitSelected, digitLogic1, Level
    <2>8. SegmentsSplit'
      <3>1. numberOfSegments \in Nat
        BY SegmentAssumption
      <3>2. Left(segmentCounter)'
        BY <2>2, <2>4, <3>1 DEF Left, Segment
      <3>3. Held(segmentCounter + 1)'
        BY <2>2, <3>1 DEF Held, Segment
      <3> QED
        BY <2>2, <3>2, <3>3 DEF SegmentsSplit
    <2>9. DigitIsWhole'
      BY <1>2, <2>2, DisplayStays DEF Enabled
    <2> QED
      BY <2>1, <2>3, <2>6, <2>7, <2>8, <2>9 DEF SegmentInv
  <1>3. CASE Hold /\ Scan
    <2>1. ScanTypeOK'
      BY <1>3, ScanKeepsTypes
    <2>2. UNCHANGED <<state, digitIndex, segmentCounter, segmentShiftReg, segmentOut, digitSelector,
                      next, shown>>
      BY <1>3 DEF Hold, pins, history
    <2>3. PinsRest' /\ InTurn'
      BY <2>2 DEF SegmentInv, PinsRest, InTurn, Enabled, outputEnableLogic1
    <2>4. DigitSelected'
      BY <1>3, <2>2, DigitsKept
    <2>5. SegmentsSplit'
      <3>1. \A c : Held(c) => Held(c)'
        BY <1>3, <2>2, SegmentsStay
      <3>2. \A c : Left(c) => Left(c)'
        BY <2>2 DEF Left
      <3> QED
        BY <2>2, <3>1, <3>2 DEF SegmentInv, SegmentsSplit, Level, segmentLogic1
    <2>6. DigitIsWhole'
      BY <1>3, <2>2, DisplayStays
    <2> QED
      BY <2>1, <2>3, <2>4, <2>5, <2>6 DEF SegmentInv
  <1>4. CASE ShiftDigit /\ Scan
    <2>1. ScanTypeOK'
      BY <1>4, ScanKeepsTypes
    <2>2. /\ UNCHANGED <<digitIndex, segmentCounter, segmentShiftReg, segmentOut, next, shown>>
          /\ state = "ShiftDigit"
          /\ state' = IF digitSelector.shiftClock THEN "SetupSegment" ELSE state
          /\ digitSelector'.shiftClock = ~digitSelector.shiftClock
          /\ digitSelector'.latch = digitSelector.latch /\ digitSelector'.data = digitSelector.data
          /\ ~segmentOut.latch /\ ~digitSelector.latch /\ ~segmentOut.shiftClock
      BY <1>4 DEF SegmentInv, ScanTypeOK, PinsRest, ShiftDigit, Pins, history
    <2>3. PinsRest' /\ InTurn'
      BY <2>2 DEF SegmentInv, PinsRest, InTurn, Enabled, outputEnableLogic1
    <2>4. DigitSelected'
      <3>1. CASE digitSelector.shiftClock
        <4>1. Selected(next.digit, next.known)
          BY <3>1 DEF SegmentInv, DigitSelected
        <4>2. digitChip'.shift = digitChip.shift
          BY <1>4, <2>2, <3>1, DigitsStay
        <4> QED
          BY <2>2, <3>1, <4>1, <4>2 DEF DigitSelected, Selected, Level, digitLogic1
      <3>2. CASE ~digitSelector.shiftClock
        <4>1. /\ \A p \in 0 .. next.known - 2 :
                      digitChip.shift[p] = Level(p + 1 = next.digit, digitLogic1)
              /\ digitSelector.data = Level(next.digit = 0, digitLogic1)
          BY <2>2, <3>2 DEF SegmentInv, DigitSelected
        <4>2. /\ DOMAIN digitChip.shift = 0 .. numberOfDigits - 1 /\ numberOfDigits \in Nat
              /\ next.known \in 0 .. numberOfDigits /\ next.digit \in Nat
          BY SegmentAssumption DEF SegmentInv, ScanTypeOK, Chip, Turns, Digit
        <4>3. digitChip'.shift = [i \in 0 .. numberOfDigits - 1 |->
                                      IF i = 0 THEN digitSelector.data ELSE digitChip.shift[i - 1]]
          BY <1>4, <2>2, <3>2, <4>2 DEF Scan, Follows
        <4>4. ASSUME NEW p \in 0 .. next.known - 1
              PROVE  digitChip'.shift[p] = Level(p = next.digit, digitLogic1)
          <5>1. CASE p = 0
            BY <4>1, <4>2, <4>3, <5>1 DEF Level
          <5>2. CASE p # 0
            <6>1. p - 1 \in 0 .. next.known - 2 /\ (p - 1) + 1 = p /\ p \in 0 .. numberOfDigits - 1
              BY <4>2, <5>2
            <6> QED
              BY <4>1, <4>3, <5>2, <6>1
          <5> QED
            BY <5>1, <5>2
        <4> QED
          BY <2>2, <3>2, <4>4 DEF DigitSelected, Selected, Level, digitLogic1
      <3> QED
        BY <3>1, <3>2
    <2>5. SegmentsSplit'
      <3>1. Held(segmentCounter + 1)' /\ Left(segmentCounter)'
        <4>1. Held(segmentCounter + 1) /\ Left(segmentCounter)
          BY <2>2 DEF SegmentInv, SegmentsSplit
        <4>2. Left(segmentCounter)'
          BY <2>2, <4>1 DEF Left
        <4>3. segmentChip'.shift = segmentChip.shift
          BY <1>4, <2>2, ContentsStay DEF Scan
        <4> QED
          BY <2>2, <4>1, <4>2, <4>3 DEF Held, Level, segmentLogic1
      <3> QED
        BY <2>2, <3>1 DEF SegmentInv, SegmentsSplit
    <2>6. DigitIsWhole'
      BY <1>4, <2>2, DisplayStays
    <2> QED
      BY <2>1, <2>3, <2>4, <2>5, <2>6 DEF SegmentInv
  <1>5. CASE SetupSegment /\ Scan
    <2>1. ScanTypeOK'
      BY <1>5, ScanKeepsTypes
    <2>2. /\ UNCHANGED <<digitIndex, segmentCounter, digitSelector, next, shown>>
          /\ state = "SetupSegment" /\ state' = "ShiftSegment"
          /\ ~segmentOut'.shiftClock /\ segmentOut'.latch = segmentOut.latch
          /\ segmentOut'.outputEnable = segmentOut.outputEnable
          /\ segmentOut'.data = Level(segmentShiftReg[numberOfSegments - 1], segmentLogic1)
          /\ segmentShiftReg' = [i \in Segment |-> i > 0 /\ segmentShiftReg[i - 1]]
      BY <1>5 DEF SegmentInv, ScanTypeOK, SetupSegment, Pins, history
    <2>3. PinsRest' /\ InTurn'
      BY <2>2 DEF SegmentInv, PinsRest, InTurn, Enabled, outputEnableLogic1
    <2>4. DigitSelected'
      BY <1>5, <2>2, DigitsKept
    <2>5. SegmentsSplit'
      <3>1. Held(segmentCounter + 1) /\ Left(segmentCounter)
        BY <2>2 DEF SegmentInv, SegmentsSplit
      <3>2. numberOfSegments \in Nat /\ numberOfSegments > 1 /\ segmentCounter \in 0 .. numberOfSegments - 1
        BY SegmentAssumption DEF SegmentInv, ScanTypeOK, Segment
      <3>3. Held(segmentCounter + 1)'
        <4>1. segmentChip'.shift = segmentChip.shift
          BY <1>5, <2>2, ContentsStay DEF Scan
        <4> QED
          BY <2>2, <3>1, <4>1 DEF Held, Level, segmentLogic1
      <3>4. Left(segmentCounter - 1)'
        <4> SUFFICES ASSUME NEW i \in Segment, i + (segmentCounter - 1) + 1 >= numberOfSegments
                     PROVE segmentShiftReg'[i] = next.pattern[i + (segmentCounter - 1) + 1 - numberOfSegments]
          BY <2>2 DEF Left
        <4>1. i > 0 /\ i - 1 \in Segment /\ (i - 1) + segmentCounter + 1 >= numberOfSegments
              /\ (i - 1) + segmentCounter + 1 - numberOfSegments
                    = i + (segmentCounter - 1) + 1 - numberOfSegments
          BY <3>2 DEF Segment
        <4>2. segmentShiftReg[i - 1] = next.pattern[i + (segmentCounter - 1) + 1 - numberOfSegments]
          BY <3>1, <4>1 DEF Left
        <4>3. segmentShiftReg[i - 1] \in BOOLEAN
          BY <4>1 DEF SegmentInv, ScanTypeOK
        <4> QED
          BY <2>2, <4>1, <4>2, <4>3
      <3>5. segmentOut'.data = Level(next.pattern[segmentCounter], segmentLogic1)
        <4>1. numberOfSegments - 1 \in Segment
              /\ (numberOfSegments - 1) + segmentCounter + 1 >= numberOfSegments
              /\ (numberOfSegments - 1) + segmentCounter + 1 - numberOfSegments = segmentCounter
          BY <3>2 DEF Segment
        <4>2. segmentShiftReg[numberOfSegments - 1] = next.pattern[segmentCounter]
          BY <3>1, <4>1 DEF Left
        <4> QED
          BY <2>2, <4>2
      <3> QED
        BY <2>2, <3>3, <3>4, <3>5 DEF SegmentsSplit, Level, segmentLogic1
    <2>6. DigitIsWhole'
      BY <1>5, <2>2, DisplayStays DEF Enabled
    <2> QED
      BY <2>1, <2>3, <2>4, <2>5, <2>6 DEF SegmentInv
  <1>6. CASE ShiftSegment /\ Scan
    <2>1. ScanTypeOK'
      BY <1>6, ScanKeepsTypes
    <2>2. /\ UNCHANGED <<digitIndex, digitSelector, segmentShiftReg, next, shown>>
          /\ state = "ShiftSegment"
          /\ segmentOut'.shiftClock = ~segmentOut.shiftClock /\ segmentOut'.latch = segmentOut.latch
          /\ segmentOut'.outputEnable = segmentOut.outputEnable /\ segmentOut'.data = segmentOut.data
          /\ segmentCounter' = IF segmentOut.shiftClock /\ segmentCounter # 0
                               THEN segmentCounter - 1 ELSE segmentCounter
          /\ state' = IF ~segmentOut.shiftClock THEN state
                      ELSE IF segmentCounter = 0 THEN "OutputDigit" ELSE "SetupSegment"
          /\ segmentOut.shiftClock \in BOOLEAN
      BY <1>6 DEF SegmentInv, ScanTypeOK, ShiftSegment, LastSegment, Pins, history
    <2>3. PinsRest' /\ InTurn'
      BY <2>2 DEF SegmentInv, PinsRest, InTurn, Enabled, outputEnableLogic1
    <2>4. DigitSelected'
      BY <1>6, <2>2, DigitsKept
    <2>5. SegmentsSplit'
      <3>1. /\ numberOfSegments \in Nat /\ segmentCounter \in 0 .. numberOfSegments - 1
            /\ Left(segmentCounter - 1)
            /\ DOMAIN segmentChip.shift = Segment
        <4>1. Left(segmentCounter - 1)
          BY <2>2 DEF SegmentInv, SegmentsSplit
        <4> QED
          BY <4>1, SegmentAssumption DEF SegmentInv, ScanTypeOK, Segment, Chip
      <3>2. CASE segmentOut.shiftClock
        <4>1. Held(segmentCounter)
          BY <2>2, <3>2 DEF SegmentInv, SegmentsSplit
        <4>2. segmentChip'.shift = segmentChip.shift
          BY <1>6, <2>2, <3>2, ContentsStay DEF Scan
        <4>3. CASE segmentCounter = 0
          BY <2>2, <3>2, <4>1, <4>2, <4>3 DEF SegmentsSplit, Held, Level, segmentLogic1
        <4>4. CASE segmentCounter > 0
          <5>1. state' = "SetupSegment" /\ segmentCounter' = segmentCounter - 1
                /\ segmentCounter' + 1 = segmentCounter
            BY <2>2, <3>1, <3>2, <4>4
          <5>2. Held(segmentCounter + 1)'
            BY <2>2, <4>1, <4>2, <5>1 DEF Held, Level, segmentLogic1
          <5>3. Left(segmentCounter)'
            BY <2>2, <3>1, <5>1 DEF Left
          <5> QED
            BY <5>1, <5>2, <5>3 DEF SegmentsSplit
        <4> QED
          BY <3>1, <4>3, <4>4
      <3>3. CASE ~segmentOut.shiftClock
        <4>1. /\ Held(segmentCounter + 1)
              /\ segmentOut.data = Level(next.pattern[segmentCounter], segmentLogic1)
          BY <2>2, <3>3 DEF SegmentInv, SegmentsSplit
        <4>2. segmentChip'.shift = [i \in Segment |->
                                        IF i = 0 THEN segmentOut.data ELSE segmentChip.shift[i - 1]]
          BY <1>6, <2>2, <3>1, <3>3 DEF Scan, Follows
        <4>3. segmentCounter' = segmentCounter /\ state' = "ShiftSegment" /\ segmentOut'.shiftClock
          BY <2>2, <3>3
        <4>4. Held(segmentCounter)'
          <5> SUFFICES ASSUME NEW i \in Segment, i + segmentCounter < numberOfSegments
                       PROVE segmentChip'.shift[i] = Level(next.pattern[i + segmentCounter], segmentLogic1)
            BY <2>2, <4>3 DEF Held, Level, segmentLogic1
          <5>1. CASE i = 0
            BY <3>1, <4>1, <4>2, <5>1
          <5>2. CASE i # 0
            <6>1. i - 1 \in Segment /\ (i - 1) + (segmentCounter + 1) < numberOfSegments
                  /\ (i - 1) + (segmentCounter + 1) = i + segmentCounter
              BY <3>1, <5>2 DEF Segment
            <6> QED
              BY <4>1, <4>2, <5>2, <6>1 DEF Held
          <5> QED
            BY <5>1, <5>2
        <4>5. Left(segmentCounter - 1)'
          BY <2>2, <3>1, <4>3 DEF Left
        <4> QED
          BY <4>3, <4>4, <4>5 DEF SegmentsSplit
      <3> QED
        BY <3>2, <3>3
    <2>6. DigitIsWhole'
      BY <1>6, <2>2, DisplayStays DEF Enabled
    <2> QED
      BY <2>1, <2>3, <2>4, <2>5, <2>6 DEF SegmentInv
  <1>7. CASE OutputDigit /\ Scan
    <2>1. ScanTypeOK'
      BY <1>7, ScanKeepsTypes
    <2>2. /\ UNCHANGED <<digitIndex, next>> /\ shown' = next
          /\ state = "OutputDigit" /\ state' = "HoldDigit"
          /\ segmentOut'.shiftClock = segmentOut.shiftClock
          /\ digitSelector'.shiftClock = digitSelector.shiftClock
          /\ ~segmentOut.shiftClock /\ ~digitSelector.shiftClock
          /\ ~segmentOut.latch /\ ~digitSelector.latch
          /\ segmentOut'.latch /\ digitSelector'.latch
      BY <1>7 DEF SegmentInv, ScanTypeOK, PinsRest, OutputDigit, Pins
    <2>3. PinsRest' /\ InTurn' /\ SegmentsSplit'
      BY <2>2 DEF SegmentInv, PinsRest, InTurn, SegmentsSplit
    <2>4. /\ segmentChip'.out = segmentChip.shift
          /\ digitChip'.out = digitChip.shift /\ digitChip'.shift = digitChip.shift
      BY <1>7, <2>2 DEF Scan, Follows
    <2>5. Selected(next.digit, next.known)
      BY <2>2 DEF SegmentInv, DigitSelected
    <2>6. DigitSelected'
      BY <2>2, <2>4, <2>5 DEF DigitSelected, Selected, Level, digitLogic1
    <2>7. DigitIsWhole'
      <3>1. \A s \in Segment : s + 0 < numberOfSegments /\ s + 0 = s
        BY SegmentAssumption DEF Segment
      <3>2. \A s \in Segment : segmentChip.shift[s] = Level(next.pattern[s], segmentLogic1)
        BY <2>2, <3>1 DEF SegmentInv, SegmentsSplit, Held
      <3> QED
        BY <2>2, <2>4, <2>5, <3>2 DEF DigitIsWhole, Selected, Level, digitLogic1, segmentLogic1
    <2> QED
      BY <2>1, <2>3, <2>6, <2>7 DEF SegmentInv
  <1>8. CASE HoldDigit /\ Scan
    <2>1. ScanTypeOK'
      BY <1>8, ScanKeepsTypes
    <2>2. /\ UNCHANGED <<digitIndex, segmentCounter, segmentShiftReg, segmentOut, digitSelector, next, shown>>
          /\ state = "HoldDigit" /\ state' \in {"HoldDigit", "SetupDigit"}
      BY <1>8 DEF HoldDigit, pins, history
    <2>3. PinsRest' /\ InTurn' /\ SegmentsSplit'
      BY <2>2 DEF SegmentInv, PinsRest, InTurn, SegmentsSplit, Enabled, outputEnableLogic1
    <2>4. DigitSelected'
      BY <1>8, <2>2, DigitsKept
    <2>5. DigitIsWhole'
      BY <1>8, <2>2, DisplayStays
    <2> QED
      BY <2>1, <2>3, <2>4, <2>5 DEF SegmentInv
  <1>9. CASE UNCHANGED segmentVars
    BY <1>9 DEF segmentVars, scan, pins, history, SegmentInv, ScanTypeOK, PinsRest, InTurn,
        SegmentsSplit, Held, Left, DigitSelected, Selected, DigitIsWhole, Enabled, Level,
        segmentLogic1, digitLogic1, outputEnableLogic1
  <1> QED
    BY <1>1, <1>2, <1>3, <1>4, <1>5, <1>6, <1>7, <1>8, <1>9 DEF Scan

(***************************************************************************)
(* Whenever the segment display is on it shows one digit's segments as     *)
(* they were when its turn began, and of the digits that have had a turn   *)
(* it lights that one only: for any size, clock divider and polarity, and  *)
(* whatever the board's shift registers hold at power-up.                  *)
(***************************************************************************)
THEOREM SegmentsCorrect == SegmentSpec => []DigitIsWhole
  <1>1. SegmentInv => DigitIsWhole
    BY DEF SegmentInv
  <1> QED
    BY <1>1, SegmentInitially, ScanStep, PTL DEF SegmentSpec

-----------------------------------------------------------------------------
(* The link.  The count that decides is always even: that is why no byte   *)
(* takes it beyond eight.                                                  *)

Coded == SUBSET (0 .. 8)
Even(n) == \E k \in Int : n = 2 * k

DviInv ==
    /\ \A i \in 0 .. videoRegsDepth - 1, ch \in Channel : videoRegs[i].pixelData[ch] \in Coded
    /\ \A ch \in Channel : Even(balance[ch])
    /\ counter \in [Channel -> Int] /\ balance \in [Channel -> Int]
    /\ Balanced

Ones(in) == Cardinality(in \cap DataBit)
Bit8(in) == IF 8 \in in THEN 1 ELSE 0

(* The bits of a byte and of a word. *)
LEMMA BitsCounted ==
    /\ IsFiniteSet(0 .. 7) /\ Cardinality(0 .. 7) = 8
    /\ IsFiniteSet(0 .. 9) /\ Cardinality(0 .. 9) = 10
  <1>1. \A b \in Int : IsFiniteSet(0 .. b) /\ Cardinality(0 .. b) = IF 0 > b THEN 0 ELSE b - 0 + 1
    BY FS_Interval
  <1>2. /\ IsFiniteSet(0 .. 7) /\ Cardinality(0 .. 7) = IF 0 > 7 THEN 0 ELSE 7 - 0 + 1
        /\ IsFiniteSet(0 .. 9) /\ Cardinality(0 .. 9) = IF 0 > 9 THEN 0 ELSE 9 - 0 + 1
    <2>1. 7 \in Int /\ 9 \in Int
      OBVIOUS
    <2> QED
      BY <1>1, <2>1, Zenon
  <1> QED
    BY <1>2

(* A word and its inversion have ten bits, bit 8 being kept. *)
LEMMA OnesCounted ==
    ASSUME NEW in \in Coded
    PROVE  /\ Ones(in) \in 0 .. 8
           /\ Cardinality(in) = Ones(in) + Bit8(in)
           /\ Cardinality(Inverted(in)) = 9 - Ones(in) + Bit8(in)
           /\ in \subseteq 0 .. 9 /\ Inverted(in) \subseteq 0 .. 9
  <1>1. IsFiniteSet(DataBit) /\ Cardinality(DataBit) = 8
    BY BitsCounted DEF DataBit
  <1>2. /\ IsFiniteSet(in \cap DataBit)
        /\ Ones(in) \in Nat /\ Ones(in) <= 8
    BY <1>1, FS_Intersection, FS_CardinalityType DEF Ones
  <1>3. \A x \in in : x \in DataBit \/ x = 8
    BY DEF Coded, DataBit
  <1>4. Cardinality(in) = Ones(in) + Bit8(in)
    <2>1. CASE 8 \in in
      <3>1. in = (in \cap DataBit) \cup {8} /\ 8 \notin in \cap DataBit
        BY <1>3, <2>1 DEF DataBit
      <3> QED
        BY <3>1, <2>1, <1>2, FS_AddElement DEF Ones, Bit8
    <2>2. CASE 8 \notin in
      <3>1. in = in \cap DataBit
        BY <1>3, <2>2
      <3>2. Cardinality(in) = Ones(in)
        BY <3>1, Zenon DEF Ones
      <3> QED
        BY <3>2, <2>2, <1>2 DEF Bit8
    <2> QED
      BY <2>1, <2>2
  <1>5. /\ IsFiniteSet(DataBit \ in)
        /\ Cardinality(DataBit \ in) = 8 - Ones(in)
    <2>1. DataBit \cap in = in \cap DataBit
      OBVIOUS
    <2> QED
      BY <1>1, <2>1, FS_Difference DEF Ones
  <1>6. /\ IsFiniteSet((DataBit \ in) \cup {9})
        /\ Cardinality((DataBit \ in) \cup {9}) = 9 - Ones(in)
    <2>1. 9 \notin DataBit \ in
      BY DEF DataBit
    <2>2. /\ IsFiniteSet((DataBit \ in) \cup {9})
          /\ Cardinality((DataBit \ in) \cup {9}) = Cardinality(DataBit \ in) + 1
      BY <1>5, <2>1, FS_AddElement, Zenon
    <2> QED
      BY <1>2, <1>5, <2>2
  <1>7. Cardinality(Inverted(in)) = 9 - Ones(in) + Bit8(in)
    <2>1. CASE 8 \in in
      <3>1. Inverted(in) = ((DataBit \ in) \cup {9}) \cup {8} /\ 8 \notin (DataBit \ in) \cup {9}
        BY <2>1 DEF Inverted, DataBit
      <3> QED
        BY <3>1, <2>1, <1>2, <1>6, FS_AddElement DEF Bit8
    <2>2. CASE 8 \notin in
      <3>1. Inverted(in) = (DataBit \ in) \cup {9}
        BY <2>2 DEF Inverted
      <3> QED
        BY <3>1, <2>2, <1>2, <1>6 DEF Bit8
    <2> QED
      BY <2>1, <2>2
  <1>8. in \subseteq 0 .. 9 /\ Inverted(in) \subseteq 0 .. 9
    BY DEF Coded, Inverted, DataBit
  <1> QED
    BY <1>2, <1>4, <1>7, <1>8

(* What a word of ten bits adds to the balance. *)
LEMMA WordBalance ==
    ASSUME NEW word \in SUBSET (0 .. 9)
    PROVE  Cardinality(word) \in Nat
           /\ Cardinality(word) - Cardinality((0 .. 9) \ word) = 2 * Cardinality(word) - 10
  <1>1. IsFiniteSet(0 .. 9) /\ Cardinality(0 .. 9) = 10
    BY BitsCounted
  <1>2. IsFiniteSet(word) /\ Cardinality(word) \in Nat
    BY <1>1, FS_Subset, FS_CardinalityType
  <1>3. (0 .. 9) \cap word = word
    OBVIOUS
  <1>4. Cardinality((0 .. 9) \ word) = 10 - Cardinality(word)
    BY <1>1, <1>3, FS_Difference
  <1> QED
    BY <1>2, <1>4

(* What is sent for a byte has so many ones and zeros. *)
LEMMA WordsCounted ==
    ASSUME NEW in \in Coded, NEW c
    PROVE  LET word == dcBalancing(in, c).word
           IN  Cardinality(word) \in Int /\ Cardinality((0 .. 9) \ word) \in Int
  <1>1. dcBalancing(in, c).word \in {in, Inverted(in)}
    BY DEF dcBalancing, Encoding
  <1>2. \A w \in SUBSET (0 .. 9) : Cardinality(w) \in Int /\ Cardinality((0 .. 9) \ w) \in Int
    <2>1. ASSUME NEW w \in SUBSET (0 .. 9) PROVE Cardinality(w) \in Int
      <3>1. Cardinality(w) \in Nat
        BY WordBalance, Zenon
      <3> QED
        BY <3>1
    <2>2. \A w \in SUBSET (0 .. 9) : (0 .. 9) \ w \in SUBSET (0 .. 9)
      OBVIOUS
    <2> QED
      BY <2>1, <2>2
  <1> QED
    BY <1>1, <1>2, OnesCounted

(* The encoder counts what it sends and stays within eight. *)
LEMMA EncodingBalances ==
    ASSUME NEW in \in Coded, NEW c \in Balances, Even(c)
    PROVE  LET e == dcBalancing(in, c)
               added == Cardinality(e.word) - Cardinality((0 .. 9) \ e.word)
           IN  e.counter = c + added /\ c + added \in Balances /\ Even(c + added)
  <1> DEFINE n == Ones(in)
             b == Bit8(in)
             e == dcBalancing(in, c)
             added == Cardinality(e.word) - Cardinality((0 .. 9) \ e.word)
  <1>1. n \in 0 .. 8 /\ b \in {0, 1} /\ (8 \in in <=> b = 1) /\ n0n1(in) = 8 - 2 * n
    BY OnesCounted DEF n0n1, Ones, Bit8
  <1>2. PICK k \in Int : c = 2 * k
    BY DEF Even
  <1>3. c \in Int /\ -8 <= c /\ c <= 8
    BY DEF Balances
  <1>4. ASSUME e.word = in PROVE added = 2 * n + 2 * b - 10
    <2>1. Cardinality(in) = n + b /\ in \in SUBSET (0 .. 9)
      BY OnesCounted
    <2>2. Cardinality(in) - Cardinality((0 .. 9) \ in) = 2 * Cardinality(in) - 10
      BY <2>1, WordBalance
    <2> HIDE DEF e, n, b
    <2> QED
      BY <1>1, <1>4, <2>1, <2>2
  <1>5. ASSUME e.word = Inverted(in) PROVE added = 8 - 2 * n + 2 * b
    <2>1. Cardinality(Inverted(in)) = 9 - n + b /\ Inverted(in) \in SUBSET (0 .. 9)
      BY OnesCounted
    <2>2. Cardinality(Inverted(in)) - Cardinality((0 .. 9) \ Inverted(in))
            = 2 * Cardinality(Inverted(in)) - 10
      BY <2>1, WordBalance
    <2> HIDE DEF e, n, b
    <2> QED
      BY <1>1, <1>5, <2>1, <2>2
  <1>6. /\ e.counter = Signed8(c + added)
        /\ \E d \in Int : added = 2 * d
        /\ -8 <= c + added /\ c + added <= 8
    <2>1. CASE c = 0 \/ n0n1(in) = 0
      <3>1. CASE 8 \in in
        <4>1. e = [word |-> in, counter |-> Signed8(c - n0n1(in))]
          BY <2>1, <3>1 DEF dcBalancing, Encoding
        <4>2. added = 2 * n - 8 /\ b = 1
          BY <4>1, <1>4, <1>1, <3>1
        <4> HIDE DEF e, n, b, added
        <4>3. c - n0n1(in) = c + added /\ added = 2 * (n - 4)
          BY <4>2, <1>1, <1>3
        <4>4. n - 4 \in Int
          BY <1>1
        <4>5. -8 <= c + added /\ c + added <= 8
          BY <4>2, <1>1, <1>2, <1>3, <2>1
        <4> QED
          BY <4>1, <4>3, <4>4, <4>5
      <3>2. CASE 8 \notin in
        <4>1. e = [word |-> Inverted(in), counter |-> Signed8(c + n0n1(in))]
          BY <2>1, <3>2 DEF dcBalancing, Encoding
        <4>2. added = 8 - 2 * n /\ b = 0
          BY <4>1, <1>5, <1>1, <3>2
        <4> HIDE DEF e, n, b, added
        <4>3. c + n0n1(in) = c + added /\ added = 2 * (4 - n)
          BY <4>2, <1>1, <1>3
        <4>4. 4 - n \in Int
          BY <1>1
        <4>5. -8 <= c + added /\ c + added <= 8
          BY <4>2, <1>1, <1>2, <1>3, <2>1
        <4> QED
          BY <4>1, <4>3, <4>4, <4>5
      <3> QED
        BY <3>1, <3>2
    <2>2. CASE ~(c = 0 \/ n0n1(in) = 0)
               /\ ((c > 0 /\ n0n1(in) < 0) \/ (c < 0 /\ n0n1(in) > 0))
      <3>1. e = [word |-> Inverted(in), counter |-> Signed8(c + n0n1(in) + 2 * b)]
        BY <2>2, <1>1 DEF dcBalancing, Encoding, Bit8
      <3>2. added = 8 - 2 * n + 2 * b
        BY <3>1, <1>5
      <3> HIDE DEF e, n, b, added
      <3>3. c + n0n1(in) + 2 * b = c + added /\ added = 2 * (4 - n + b)
        BY <3>2, <1>1, <1>3
      <3>4. 4 - n + b \in Int
        BY <1>1
      <3>5. -8 <= c + added /\ c + added <= 8
        BY <3>2, <1>1, <1>2, <1>3, <2>2
      <3> QED
        BY <3>1, <3>3, <3>4, <3>5
    <2>3. CASE ~(c = 0 \/ n0n1(in) = 0)
               /\ ~((c > 0 /\ n0n1(in) < 0) \/ (c < 0 /\ n0n1(in) > 0))
      <3>1. e = [word |-> in, counter |-> Signed8(c - n0n1(in) - (2 - 2 * b))]
        BY <2>3, <1>1 DEF dcBalancing, Encoding, Bit8
      <3>2. added = 2 * n + 2 * b - 10
        BY <3>1, <1>4
      <3> HIDE DEF e, n, b, added
      <3>3. c - n0n1(in) - (2 - 2 * b) = c + added /\ added = 2 * (n + b - 5)
        BY <3>2, <1>1, <1>3
      <3>4. n + b - 5 \in Int
        BY <1>1
      <3>5. -8 <= c + added /\ c + added <= 8
        BY <3>2, <1>1, <1>2, <1>3, <2>3
      <3> QED
        BY <3>1, <3>3, <3>4, <3>5
    <2> QED
      BY <2>1, <2>2, <2>3
  <1> HIDE DEF e, n, b, added
  <1>7. c + added \in Balances
    BY <1>3, <1>6 DEF Balances
  <1>8. Even(c + added)
    <2>1. PICK d \in Int : added = 2 * d
      BY <1>6
    <2>2. c + added = 2 * (k + d) /\ k + d \in Int
      BY <1>2, <2>1
    <2> QED
      BY <2>2 DEF Even
  <1>9. Signed8(c + added) = c + added
    BY <1>7 DEF Signed8, Balances
  <1> QED
    BY <1>6, <1>7, <1>8, <1>9 DEF e, added

(* After reset nothing was sent. *)
LEMMA DviInitially == DviInit => DviInv
  <1> SUFFICES ASSUME DviInit PROVE DviInv
    OBVIOUS
  <1>1. {} \in Coded /\ Even(0) /\ 0 \in Balances
    <2>1. 0 = 2 * 0
      OBVIOUS
    <2> QED
      BY <2>1 DEF Coded, Even, Balances
  <1>2. \A i \in 0 .. 2, ch \in Channel : videoRegs[i].pixelData[ch] = {}
    BY DEF DviInit, Blank, videoRegsDepth
  <1>3. counter = [ch \in Channel |-> 0] /\ balance = [ch \in Channel |-> 0]
    BY DEF DviInit
  <1>4. \A ch \in Channel : counter[ch] = 0 /\ balance[ch] = 0
    BY <1>3
  <1>5. counter \in [Channel -> Int] /\ balance \in [Channel -> Int]
    BY <1>3
  <1>6. Balanced
    BY <1>1, <1>4 DEF Balanced
  <1>7. \A ch \in Channel : Even(balance[ch])
    BY <1>1, <1>4
  <1>8. videoRegsDepth - 1 = 2
    BY DEF videoRegsDepth
  <1>9. \A i \in 0 .. videoRegsDepth - 1, ch \in Channel : videoRegs[i].pixelData[ch] \in Coded
    BY <1>1, <1>2, <1>8
  <1> QED
    BY <1>5, <1>6, <1>7, <1>9, Zenon DEF DviInv

(* And every pixel clock keeps the balance. *)
LEMMA DviStep == DviInv /\ [DviNext]_dviVars => DviInv'
  <1> SUFFICES ASSUME DviInv, [DviNext]_dviVars PROVE DviInv'
    OBVIOUS
  <1>1. CASE UNCHANGED dviVars
    BY <1>1 DEF dviVars, DviInv, Balanced
  <1>2. ASSUME NEW in \in VideoIn, DviEdge(in) PROVE DviInv'
    <2>1. \A i \in 0 .. videoRegsDepth - 1, ch \in Channel : videoRegs'[i].pixelData[ch] \in Coded
      <3>1. \A ch \in Channel : Minimized(in).pixelData[ch] \in Coded
        BY DEF Minimized, VideoIn, transitionMinimized, Coded, DataBit
      <3>2. \A i \in 0 .. 2 : videoRegs'[i] = IF i = 2 THEN Minimized(in) ELSE videoRegs[i + 1]
        BY <1>2 DEF DviEdge, videoRegsDepth
      <3>3. \A i \in 0 .. 2 : i # 2 => i + 1 \in 0 .. 2
        OBVIOUS
      <3> QED
        BY <3>1, <3>2, <3>3 DEF DviInv, videoRegsDepth
    <2>2. CASE ~videoRegs[0].dataEnable
      <3>1. counter' = [ch \in Channel |-> 0] /\ balance' = [ch \in Channel |-> 0]
        BY <1>2, <2>2 DEF DviEdge
      <3>2. Even(0) /\ 0 \in Balances
        <4>1. 0 = 2 * 0
          OBVIOUS
        <4> QED
          BY <4>1 DEF Even, Balances
      <3> QED
        BY <2>1, <3>1, <3>2 DEF DviInv, Balanced
    <2>3. CASE videoRegs[0].dataEnable
      <3>1. /\ dviData' = [ch \in Channel |-> Encoded(ch).word]
            /\ counter' = [ch \in Channel |-> Encoded(ch).counter]
            /\ balance' = [ch \in Channel |-> balance[ch] + Cardinality(dviData'[ch])
                                                - Cardinality((0 .. 9) \ dviData'[ch])]
        BY <1>2, <2>3 DEF DviEdge
      <3>2. ASSUME NEW ch \in Channel
            PROVE  balance'[ch] = counter'[ch] /\ balance'[ch] \in Balances /\ Even(balance'[ch])
        <4> DEFINE in0   == videoRegs[0].pixelData[ch]
                   c     == counter[ch]
                   word  == dcBalancing(in0, c).word
                   ones  == Cardinality(word)
                   zeros == Cardinality((0 .. 9) \ word)
        <4>1. in0 \in Coded /\ c \in Balances /\ Even(c) /\ c = balance[ch]
          BY DEF DviInv, Balanced, videoRegsDepth
        <4>2. /\ dcBalancing(in0, c).counter = c + (ones - zeros)
              /\ c + (ones - zeros) \in Balances /\ Even(c + (ones - zeros))
          BY <4>1, EncodingBalances
        <4>3. ones \in Int /\ zeros \in Int
          BY <4>1, WordsCounted
        <4>4. dviData'[ch] = word /\ counter'[ch] = dcBalancing(in0, c).counter
              /\ balance'[ch] = c + ones - zeros
          BY <3>1, <4>1 DEF Encoded
        <4>5. c + ones - zeros = c + (ones - zeros)
          BY <4>1, <4>3 DEF Balances
        <4> QED
          BY <4>2, <4>4, <4>5
      <3>3. counter' \in [Channel -> Int] /\ balance' \in [Channel -> Int]
        <4>1. \A ch \in Channel : counter'[ch] \in Int /\ balance'[ch] \in Int
          BY <3>2 DEF Balances
        <4> QED
          BY <3>1, <4>1
      <3> QED
        BY <2>1, <3>2, <3>3 DEF DviInv, Balanced
    <2> QED
      BY <2>2, <2>3
  <1> QED
    BY <1>1, <1>2 DEF DviNext

(***************************************************************************)
(* On every channel the ones and zeros sent since data is enabled are      *)
(* never more than eight apart, and the encoder's counter of eight bits    *)
(* says by how much: for every stream of pixels.                           *)
(***************************************************************************)
THEOREM LinkBalanced == DviSpec => []Balanced
  <1>1. DviInv => Balanced
    BY DEF DviInv
  <1> QED
    BY <1>1, DviInitially, DviStep, PTL DEF DviSpec

-----------------------------------------------------------------------------
(* What is sent is read back.  The chain of eight bits is unfolded, since  *)
(* each of them is had from the one before.                                *)

(* Which of the two chains a byte takes.                                   *)
ManyOnes(in) == Cardinality(in) > 4 \/ (Cardinality(in) = 4 /\ 0 \notin in)

(* Every bit of the chain is had from the one before it.                   *)
Chain(bits, in, xnorProcess) ==
    bits = [i \in DataBit |->
               IF i = 0 THEN 0 \in in ELSE (bits[i - 1] # (i \in in)) # xnorProcess]

(* A chain of eight exists.                                                *)
LEMMA ChainExists ==
    ASSUME NEW in, NEW xnorProcess \in BOOLEAN
    PROVE  \E bits : Chain(bits, in, xnorProcess)
  <1> DEFINE after(bit, i) == (bit # (i \in in)) # xnorProcess
             b0 == 0 \in in
             b1 == after(b0, 1)
             b2 == after(b1, 2)
             b3 == after(b2, 3)
             b4 == after(b3, 4)
             b5 == after(b4, 5)
             b6 == after(b5, 6)
             b7 == after(b6, 7)
             bit(i) == CASE i = 0 -> b0 [] i = 1 -> b1 [] i = 2 -> b2 [] i = 3 -> b3
                         [] i = 4 -> b4 [] i = 5 -> b5 [] i = 6 -> b6 [] i = 7 -> b7
             bits == [i \in DataBit |-> bit(i)]
  <1>1. /\ b0 \in BOOLEAN /\ b1 \in BOOLEAN /\ b2 \in BOOLEAN /\ b3 \in BOOLEAN
        /\ b4 \in BOOLEAN /\ b5 \in BOOLEAN /\ b6 \in BOOLEAN /\ b7 \in BOOLEAN
    OBVIOUS
  <1>2. /\ b1 = after(b0, 1) /\ b2 = after(b1, 2) /\ b3 = after(b2, 3) /\ b4 = after(b3, 4)
        /\ b5 = after(b4, 5) /\ b6 = after(b5, 6) /\ b7 = after(b6, 7) /\ b0 = (0 \in in)
    OBVIOUS
  <1> HIDE DEF b0, b1, b2, b3, b4, b5, b6, b7
  <1>3. /\ bits[0] = b0 /\ bits[1] = b1 /\ bits[2] = b2 /\ bits[3] = b3
        /\ bits[4] = b4 /\ bits[5] = b5 /\ bits[6] = b6 /\ bits[7] = b7
    BY DEF DataBit
  <1> HIDE DEF bit
  <1>4. DOMAIN bits = DataBit /\ bits = [i \in DataBit |-> bits[i]]
    OBVIOUS
  <1> HIDE DEF bits
  <1>5. \A i \in DataBit : i = 0 \/ i = 1 \/ i = 2 \/ i = 3 \/ i = 4 \/ i = 5 \/ i = 6 \/ i = 7
    BY DEF DataBit
  <1>7. \A i \in DataBit : bits[i] = IF i = 0 THEN 0 \in in ELSE after(bits[i - 1], i)
    BY <1>2, <1>3, <1>5
  <1>8. bits = [i \in DataBit |-> IF i = 0 THEN 0 \in in ELSE after(bits[i - 1], i)]
    BY <1>4, <1>7, Zenon
  <1> QED
    BY <1>8 DEF Chain

(* The bits of the word a byte becomes.                                    *)
LEMMA Minimizes ==
    ASSUME NEW in
    PROVE  LET word == transitionMinimized(in)
           IN  /\ word \subseteq 0 .. 8
               /\ 8 \in word <=> ~ManyOnes(in)
               /\ 0 \in word <=> 0 \in in
               /\ \A i \in 1 .. 7 :
                     i \in word <=> (((i - 1 \in word) # (i \in in)) # ManyOnes(in))
  <1> DEFINE x == ManyOnes(in)
             bits == CHOOSE f : Chain(f, in, x)
             word == transitionMinimized(in)
  <1>1. x \in BOOLEAN
    BY DEF ManyOnes
  <1>3. Chain(bits, in, x)
    <2> HIDE DEF x
    <2> QED
      BY <1>1, ChainExists
  <1>4. word = {i \in DataBit : bits[i]} \cup (IF x THEN {} ELSE {8})
    BY DEF transitionMinimized, ManyOnes, Chain
  <1> HIDE DEF bits, word, x
  <1>5. \A i \in DataBit : bits[i] = IF i = 0 THEN 0 \in in ELSE (bits[i - 1] # (i \in in)) # x
    BY <1>3 DEF Chain
  <1>6. \A i \in DataBit : bits[i] \in BOOLEAN
    <2> TAKE i \in DataBit
    <2>1. CASE i = 0
      <3>1. bits[i] = (0 \in in)
        BY <1>5, <2>1
      <3>2. bits[i] = TRUE \/ bits[i] = FALSE
        BY <3>1
      <3> QED
        BY <3>2
    <2>2. CASE i # 0
      <3>1. bits[i] = ((bits[i - 1] # (i \in in)) # x)
        BY <1>5, <2>2
      <3>2. bits[i] = TRUE \/ bits[i] = FALSE
        BY <3>1
      <3> QED
        BY <3>2
    <2> QED
      BY <2>1, <2>2
  <1>7. \A i \in DataBit : i \in word <=> bits[i]
    BY <1>4 DEF DataBit
  <1>8. \A i \in 1 .. 7 : i \in DataBit /\ i - 1 \in DataBit /\ i # 0
    BY DEF DataBit
  <1>9. \A i \in 1 .. 7 : i \in word <=> (((i - 1 \in word) # (i \in in)) # x)
    BY <1>5, <1>6, <1>7, <1>8
  <1>10. 0 \in DataBit /\ 8 \notin DataBit /\ DataBit \subseteq 0 .. 8
    BY DEF DataBit
  <1>11. word \subseteq 0 .. 8
    <2>1. (IF x THEN {} ELSE {8}) \subseteq 0 .. 8
      OBVIOUS
    <2> QED
      BY <1>4, <1>10, <2>1
  <1>12. 8 \in word <=> ~x
    BY <1>4, <1>10
  <1>13. 0 \in word <=> 0 \in in
    BY <1>5, <1>7, <1>10
  <1> QED
    BY <1>9, <1>11, <1>12, <1>13 DEF word, x

(* Inverted or not, a display reads the byte back.                         *)
LEMMA ReadsBack ==
    ASSUME NEW b \in Byte, NEW c
    PROVE  Decoded(dcBalancing(transitionMinimized(b), c).word) = b
           /\ (8 \in dcBalancing(transitionMinimized(b), c).word <=> ~ManyOnes(b))
  <1> DEFINE in   == transitionMinimized(b)
             word == dcBalancing(in, c).word
             r    == Restored(word)
  <1>1. word \in {in, Inverted(in)}
    BY DEF dcBalancing, Encoding
  <1>2. /\ in \subseteq 0 .. 8
        /\ 8 \in in <=> ~ManyOnes(b)
        /\ 0 \in in <=> 0 \in b
        /\ \A i \in 1 .. 7 : i \in in <=> (((i - 1 \in in) # (i \in b)) # ManyOnes(b))
    BY Minimizes
  <1> HIDE DEF in, word
  <1>3. 9 \notin in
    BY <1>2
  <1>4. /\ 8 \in word <=> 8 \in in
        /\ \A i \in DataBit : i \in r <=> i \in in
    <2>1. CASE word = in
      BY <2>1, <1>3 DEF Restored, DataBit
    <2>2. CASE word = Inverted(in)
      BY <2>2 DEF Restored, Inverted, DataBit
    <2> QED
      BY <1>1, <2>1, <2>2
  <1> HIDE DEF r
  <1>5. \A i \in DataBit : i = 0 \/ (i # 0 /\ i \in 1 .. 7 /\ i - 1 \in DataBit)
    BY DEF DataBit
  <1>6. Decoded(word) = {i \in DataBit : IF i = 0 THEN 0 \in r ELSE ((i - 1 \in r) # (i \in r)) # (8 \notin word)}
    BY DEF Decoded, r
  <1>7. ASSUME NEW i \in DataBit PROVE i \in Decoded(word) <=> i \in b
    <2>1. CASE i = 0
      BY <2>1, <1>2, <1>4, <1>6
    <2>2. CASE i # 0
      <3>1. i \in Decoded(word) <=> (((i - 1 \in r) # (i \in r)) # (8 \notin word))
        BY <2>2, <1>6
      <3>2. (i - 1 \in r <=> i - 1 \in in) /\ (i \in r <=> i \in in) /\ (8 \notin word <=> ManyOnes(b))
        BY <2>2, <1>2, <1>4, <1>5
      <3>3. i \in in <=> (((i - 1 \in in) # (i \in b)) # ManyOnes(b))
        BY <2>2, <1>2, <1>5
      <3>4. ManyOnes(b) \in BOOLEAN
        BY DEF ManyOnes
      <3> QED
        BY <3>1, <3>2, <3>3, <3>4
    <2> QED
      BY <2>1, <2>2
  <1>8. Decoded(word) = b
    BY <1>6, <1>7 DEF Byte
  <1> QED
    BY <1>2, <1>4, <1>8 DEF word, in

(* The bytes that the control words would stand for, and how many ones     *)
(* they have.                                                              *)
LEMMA SyncsCounted ==
    /\ Cardinality({1}) = 1 /\ Cardinality({0, 1}) = 2
    /\ Cardinality(DataBit \ {1}) = 7 /\ Cardinality(DataBit \ {0, 1}) = 6
  <1>1. IsFiniteSet({1}) /\ Cardinality({1}) = 1
    BY FS_Singleton
  <1>2. IsFiniteSet({0, 1}) /\ Cardinality({0, 1}) = 2
    <2>1. {0, 1} = {1} \cup {0} /\ 0 \notin {1}
      OBVIOUS
    <2> QED
      BY <1>1, <2>1, FS_AddElement
  <1>3. IsFiniteSet(DataBit) /\ Cardinality(DataBit) = 8
    BY BitsCounted DEF DataBit
  <1>4. DataBit \cap {1} = {1} /\ DataBit \cap {0, 1} = {0, 1}
    BY DEF DataBit
  <1>5. \A T : Cardinality(DataBit \ T) = Cardinality(DataBit) - Cardinality(DataBit \cap T)
    BY <1>3, FS_Difference
  <1>6. /\ Cardinality(DataBit \ {1}) = Cardinality(DataBit) - Cardinality({1})
        /\ Cardinality(DataBit \ {0, 1}) = Cardinality(DataBit) - Cardinality({0, 1})
    BY <1>4, <1>5, Zenon
  <1> QED
    BY <1>1, <1>2, <1>3, <1>6

(* A byte is never sent as a control word: the chain such a word names is  *)
(* not the one that would be taken for it.                                 *)
LEMMA NeverControl ==
    ASSUME NEW b \in Byte, NEW c
    PROVE  dcBalancing(transitionMinimized(b), c).word \notin ControlWords
  <1> DEFINE word == dcBalancing(transitionMinimized(b), c).word
  <1> SUFFICES ASSUME word \in ControlWords PROVE FALSE
    OBVIOUS
  <1>1. Decoded(word) = b /\ (8 \in word <=> ~ManyOnes(b))
    BY ReadsBack
  <1>2. \/ word = {2, 4, 6, 8, 9} \/ word = {0, 1, 3, 5, 7}
        \/ word = {2, 4, 6, 8} \/ word = {0, 1, 3, 5, 7, 9}
    BY DEF ControlWords, transitionMaximized
  <1> HIDE DEF word
  <1>3. CASE word = {2, 4, 6, 8, 9}
    <2>1. Restored(word) = {0, 1, 3, 5, 7}
      BY <1>3 DEF Restored, DataBit
    <2>2. b = DataBit \ {1}
      BY <1>1, <1>3, <2>1 DEF Decoded, DataBit
    <2> QED
      BY <1>1, <1>3, <2>2, SyncsCounted DEF ManyOnes
  <1>4. CASE word = {0, 1, 3, 5, 7}
    <2>1. Restored(word) = {0, 1, 3, 5, 7}
      BY <1>4 DEF Restored, DataBit
    <2>2. b = {0, 1}
      BY <1>1, <1>4, <2>1 DEF Decoded, DataBit
    <2> QED
      BY <1>1, <1>4, <2>2, SyncsCounted DEF ManyOnes
  <1>5. CASE word = {2, 4, 6, 8}
    <2>1. Restored(word) = {2, 4, 6}
      BY <1>5 DEF Restored, DataBit
    <2>2. b = DataBit \ {0, 1}
      BY <1>1, <1>5, <2>1 DEF Decoded, DataBit
    <2> QED
      BY <1>1, <1>5, <2>2, SyncsCounted DEF ManyOnes
  <1>6. CASE word = {0, 1, 3, 5, 7, 9}
    <2>1. Restored(word) = {2, 4, 6}
      BY <1>6 DEF Restored, DataBit
    <2>2. b = {1}
      BY <1>1, <1>6, <2>1 DEF Decoded, DataBit
    <2> QED
      BY <1>1, <1>6, <2>2, SyncsCounted DEF ManyOnes
  <1> QED
    BY <1>2, <1>3, <1>4, <1>5, <1>6

(* A stage holds what came in, a pixel with its bytes coded.               *)
Holds(stage, in) ==
    /\ stage.dataEnable = in.dataEnable
    /\ stage.hSync = in.hSync /\ stage.vSync = in.vSync
    /\ in.dataEnable =>
          stage.pixelData = [ch \in Channel |-> transitionMinimized(in.pixelData[ch])]

(* What came in last is in the stages behind the word that is sent.        *)
LinkInv ==
    /\ entered \in Seq(VideoIn) /\ Len(entered) \in {videoRegsDepth, videoRegsDepth + 1}
    /\ \A i \in 0 .. videoRegsDepth - 1 :
          Holds(videoRegs[i], entered[Len(entered) - videoRegsDepth + 1 + i])
    /\ WordDecodes

(* At first the stages hold what nobody is shown.                          *)
LEMMA LinkInitially == DviInit => LinkInv
  <1> SUFFICES ASSUME DviInit PROVE LinkInv
    OBVIOUS
  <1>1. Blank \in VideoIn
    BY DEF Blank, VideoIn, Byte
  <1>2. entered = <<Blank, Blank, Blank>>
    BY DEF DviInit
  <1>3. \A i \in 0 .. 2 : videoRegs[i] = Blank
    BY DEF DviInit, videoRegsDepth
  <1>4. entered \in Seq(VideoIn) /\ Len(entered) = 3
    BY <1>1, <1>2
  <1>5. \A i \in 0 .. 2 : entered[3 - 3 + 1 + i] = Blank
    BY <1>2
  <1>6. Blank.dataEnable = FALSE
    BY DEF Blank
  <1> QED
    BY <1>3, <1>4, <1>5, <1>6 DEF LinkInv, Holds, videoRegsDepth, WordDecodes

(* A pixel clock moves all of it on by a stage.                            *)
LEMMA LinkStep == LinkInv /\ [DviNext]_dviVars => LinkInv'
  <1> SUFFICES ASSUME LinkInv, [DviNext]_dviVars PROVE LinkInv'
    OBVIOUS
  <1>1. CASE UNCHANGED dviVars
    BY <1>1 DEF dviVars, LinkInv, WordDecodes
  <1>2. ASSUME NEW in \in VideoIn, DviEdge(in) PROVE LinkInv'
    <2> DEFINE n == Len(entered)
    <2>1. entered \in Seq(VideoIn) /\ n \in {3, 4}
      BY DEF LinkInv, videoRegsDepth
    <2>2. /\ entered' \in Seq(VideoIn) /\ Len(entered') = 4
          /\ entered'[4] = in
          /\ \A i \in 1 .. 3 : entered'[i] = entered[n - 3 + i]
      <3>1. entered' = IF n > 3 THEN Append(Tail(entered), in) ELSE Append(entered, in)
        BY <1>2 DEF DviEdge, videoRegsDepth
      <3>2. ASSUME NEW s \in Seq(VideoIn), Len(s) = 3
            PROVE  /\ Append(s, in) \in Seq(VideoIn) /\ Len(Append(s, in)) = 4
                   /\ Append(s, in)[4] = in
                   /\ \A i \in 1 .. 3 : Append(s, in)[i] = s[i]
        <4>1. \A i \in 1 .. Len(s) : Append(s, in)[i] = s[i]
          OBVIOUS
        <4>2. Append(s, in) \in Seq(VideoIn)
          OBVIOUS
        <4>3. Len(Append(s, in)) = Len(s) + 1 /\ Append(s, in)[Len(s) + 1] = in
          OBVIOUS
        <4>4. Len(s) + 1 = 4
          BY <3>2
        <4> QED
          BY <3>2, <4>1, <4>2, <4>3, <4>4, Zenon
      <3>3. CASE n = 3
        <4>1. \A i \in 1 .. 3 : n - 3 + i = i
          BY <3>3
        <4>2. entered' = Append(entered, in)
          BY <3>1, <3>3
        <4> QED
          BY <4>1, <4>2, <3>2, <3>3, <2>1
      <3>4. CASE n = 4
        <4>1. Tail(entered) \in Seq(VideoIn) /\ Len(Tail(entered)) = 3
          BY <2>1, <3>4
        <4>2. \A i \in 1 .. 3 : Tail(entered)[i] = entered[i + 1]
          <5>1. \A i \in 1 .. Len(Tail(entered)) : Tail(entered)[i] = entered[i + 1]
            BY <2>1, <3>4
          <5> QED
            BY <4>1, <5>1
        <4>3. entered' = Append(Tail(entered), in)
          BY <3>1, <3>4
        <4>4. \A i \in 1 .. 3 : n - 3 + i = i + 1
          BY <3>4
        <4> HIDE DEF n
        <4> QED
          BY <4>1, <4>2, <4>3, <4>4, <3>2
      <3> QED
        BY <2>1, <3>3, <3>4
    <2>3. \A i \in 0 .. 2 : Holds(videoRegs[i], entered[n - 3 + 1 + i])
      <3>1. videoRegsDepth = 3 /\ videoRegsDepth - 1 = 2
        BY DEF videoRegsDepth
      <3> QED
        BY <3>1, Zenon DEF LinkInv
    <2>4. /\ videoRegs'[2] = Minimized(in)
          /\ videoRegs'[0] = videoRegs[1] /\ videoRegs'[1] = videoRegs[2]
      BY <1>2 DEF DviEdge, videoRegsDepth
    <2>5. \A i \in 0 .. 2 : Holds(videoRegs'[i], entered'[4 - 3 + 1 + i])
      <3>1. Holds(Minimized(in), in)
        BY DEF Holds, Minimized, VideoIn
      <3>2. entered'[2] = entered[n - 3 + 1 + 1] /\ entered'[3] = entered[n - 3 + 1 + 2]
        BY <2>1, <2>2
      <3>3. Holds(videoRegs[1], entered[n - 3 + 1 + 1]) /\ Holds(videoRegs[2], entered[n - 3 + 1 + 2])
        BY <2>3
      <3>4. Holds(videoRegs'[0], entered'[2]) /\ Holds(videoRegs'[1], entered'[3])
            /\ Holds(videoRegs'[2], entered'[4])
        BY <2>2, <2>4, <3>1, <3>2, <3>3
      <3>5. \A i \in 0 .. 2 : (i = 0 /\ 4 - 3 + 1 + i = 2) \/ (i = 1 /\ 4 - 3 + 1 + i = 3)
                                \/ (i = 2 /\ 4 - 3 + 1 + i = 4)
        OBVIOUS
      <3> QED
        BY <3>4, <3>5
    <2>6. WordDecodes'
      <3> DEFINE e == entered[n - 3 + 1]
      <3>1. Head(entered') = e /\ e \in VideoIn
        <4>1. n - 3 + 1 \in 1 .. n
          BY <2>1, SMTT(30)
        <4> QED
          BY <2>1, <2>2, <4>1
      <3>2. Holds(videoRegs[0], e)
        <4>1. n - 3 + 1 + 0 = n - 3 + 1
          BY <2>1
        <4> QED
          BY <2>3, <4>1
      <3> HIDE DEF e
      <3>3. CASE e.dataEnable
        <4>1. dviData' = [ch \in Channel |-> Encoded(ch).word]
          BY <1>2, <3>2, <3>3 DEF DviEdge, Holds
        <4>2. ASSUME NEW ch \in Channel
              PROVE  dviData'[ch] \notin ControlWords /\ Decoded(dviData'[ch]) = e.pixelData[ch]
          <5>1. e.pixelData[ch] \in Byte
            BY <3>1 DEF VideoIn
          <5>2. dviData'[ch] = dcBalancing(transitionMinimized(e.pixelData[ch]), counter[ch]).word
            BY <3>2, <3>3, <4>1 DEF Encoded, Holds
          <5> QED
            BY <5>1, <5>2, ReadsBack, NeverControl
        <4> QED
          BY <3>1, <3>3, <4>2 DEF WordDecodes
      <3>4. CASE ~e.dataEnable
        <4>1. dviData' = Control(videoRegs[0])
          BY <1>2, <3>2, <3>4 DEF DviEdge, Holds
        <4>2. Control(videoRegs[0]) = Control(e)
          BY <3>2 DEF Control, Holds
        <4> QED
          BY <3>1, <3>4, <4>1, <4>2 DEF WordDecodes
      <3> QED
        BY <3>3, <3>4
    <2> QED
      BY <2>2, <2>5, <2>6 DEF LinkInv, videoRegsDepth
  <1> QED
    BY <1>1, <1>2 DEF DviNext

(***************************************************************************)
(* What is on the link four clocks after a pixel came in is read back as   *)
(* that pixel, and a sync as what it was, whatever was sent before: for    *)
(* every stream of pixels and syncs.                                       *)
(***************************************************************************)
THEOREM LinkCorrect == DviSpec => []LinkDecodes
  <1>1. LinkInv => LinkDecodes
    BY ReadsBack, NeverControl DEF LinkInv, LinkDecodes, EveryByteDecodes
  <1> QED
    BY <1>1, LinkInitially, LinkStep, PTL DEF DviSpec

-----------------------------------------------------------------------------
(* The serial line.  Where the transmitter stands in its frame says what   *)
(* the synchronizer holds and what the receiver has read.                  *)

(* Cycles since the transmitter took its word. *)
Age == (numberOfBits + 2 - tx_bit) * dividers.tx + (dividers.tx - 1 - tx_rate)

(* Cycle p of a frame belongs to bit b; what rxRegs[i] holds was on the    *)
(* line in cycle Seen(i), a negative one if before the frame.              *)
InBit(b, p) == p \in b * dividers.tx .. (b + 1) * dividers.tx - 1
Seen(i)     == Age - 1 - (rxSyncStages - i)

RegistersOK ==
    /\ dividers \in Dividers
    /\ tx_bit \in 0 .. numberOfBits + 2 /\ tx_rate \in 0 .. dividers.tx - 1
    /\ DOMAIN tx_bits = 0 .. numberOfBits + 1
    /\ DOMAIN rxRegs = 0 .. rxSyncStages /\ DOMAIN rx_bits = 0 .. numberOfBits - 1
    /\ outValid \in BOOLEAN

Sending(w) ==
    /\ w \in Tx!Word /\ tx_bit > 0
    /\ \A j \in 0 .. tx_bit - 1 : tx_bits[j] = Tx!Frame(w)[numberOfBits + 2 - tx_bit + j]
FrameSeen(w) ==
    \A i \in 0 .. rxSyncStages, b \in 0 .. numberOfBits + 1 :
        InBit(b, Seen(i)) => rxRegs[i] = Tx!Frame(w)[b]

(* No falling edge among the first registers. *)
Rising(last) == \A i \in 0 .. last - 1 : rxRegs[i] = 1 => rxRegs[i + 1] = 1

(* Nothing to come but the end of a stop bit; a frame whose begin is still *)
(* in the synchronizer; a word being read.                                 *)
Between ==
    /\ ~running /\ sent = <<>>
    /\ Rising(rxSyncStages) /\ (rxRegs[rxSyncStages] = 1 => Tx!io_tx = 1)
    /\ tx_bit <= 2 /\ (tx_bit > 0 => tx_bits[tx_bit - 1] = 1)
Coming(w) ==
    /\ ~running /\ sent = <<w>> /\ Sending(w) /\ FrameSeen(w)
    /\ Age <= rxSyncStages
    /\ rxRegs[rxSyncStages - Age] = 1 /\ Rising(rxSyncStages - Age)
Reading(w) ==
    /\ running /\ sent = <<w>> /\ Sending(w) /\ FrameSeen(w)
    /\ Age > rxSyncStages
    /\ rx_rate \in Nat /\ rx_bit \in 0 .. numberOfBits - 1
    /\ Age + rx_rate + rx_bit * dividers.rx
          = rxSyncStages + ToFirstSample(dividers) + (numberOfBits - 1) * dividers.rx
    /\ \A j \in 0 .. numberOfBits - 2 - rx_bit : rx_bits[rx_bit + 1 + j] = w[j]

SerialInv == RegistersOK /\ (Between \/ \E w : Coming(w) \/ Reading(w))

-----------------------------------------------------------------------------
(* Arithmetic. *)

(* A product grows with its factor. *)
LEMMA ProductGrows ==
  ASSUME NEW a \in Nat, NEW b \in Nat, NEW d \in Nat, a <= b
  PROVE  a * d \in Nat /\ b * d \in Nat /\ a * d <= b * d
  <1>1. b - a \in Nat /\ (b - a) * d >= 0
    OBVIOUS
  <1>2. (b - a) * d = b * d - a * d
    OBVIOUS
  <1> QED BY <1>1, <1>2

(* A cycle belongs to one bit. *)
LEMMA OneBit ==
  ASSUME NEW d \in Nat, NEW b \in Nat, NEW c \in Nat, NEW p \in Int,
         p \in b * d .. (b + 1) * d - 1, p \in c * d .. (c + 1) * d - 1
  PROVE  b = c
  <1>1. ASSUME NEW x \in Nat, NEW y \in Nat, x < y PROVE (x + 1) * d <= y * d
    <2>1. x + 1 \in Nat /\ x + 1 <= y
      BY <1>1
    <2> QED BY <2>1, ProductGrows
  <1>2. /\ b * d \in Nat /\ c * d \in Nat /\ (b + 1) * d \in Nat /\ (c + 1) * d \in Nat
    BY ProductGrows
  <1>3. ~(b < c) /\ ~(c < b)
    BY <1>1, <1>2
  <1> QED BY <1>3

(* What the assumption says of the dividers. *)
LEMMA DividerFacts ==
  ASSUME dividers \in Dividers
  PROVE  /\ numberOfBits \in Nat \ {0} /\ rxSyncStages \in Nat \ {0}
         /\ dividers.tx \in Nat \ {0} /\ dividers.rx \in Nat \ {0}
         /\ ToFirstSample(dividers) \in Nat
         /\ Tolerable(dividers) /\ InTime(dividers)
  <1>1. dividers.tx \in Nat \ {0} /\ dividers.rx \in Nat \ {0}
        /\ numberOfBits \in Nat \ {0} /\ rxSyncStages \in Nat \ {0}
        /\ Tolerable(dividers) /\ InTime(dividers)
    BY SerialAssumption
  <1>2. ToFirstSample(dividers) \in Nat
    BY <1>1 DEF ToFirstSample
  <1> QED BY <1>1, <1>2

(* The word is read before its frame ends, but not before its start bit    *)
(* is on the line.                                                         *)
LEMMA ReadingTakes ==
  ASSUME dividers \in Dividers
  PROVE  /\ rxSyncStages + 1 < (numberOfBits + 2) * dividers.tx
         /\ ToFirstSample(dividers) >= 1
  <1> USE DividerFacts
  <1> DEFINE N == numberOfBits
  <1>1. ToFirstSample(dividers) - 1 + 0 * dividers.rx >= (0 + 1) * dividers.tx
    <2>1. 0 \in 0 .. N - 1
      OBVIOUS
    <2>2. ToFirstSample(dividers) - 1 + 0 * dividers.rx \in (0 + 1) * dividers.tx .. (0 + 2) * dividers.tx - 1
      BY <2>1 DEF Tolerable
    <2> QED BY <2>2
  <1>2. ToFirstSample(dividers) >= 2
    BY <1>1
  <1>3. (N - 1) * dividers.rx \in Nat /\ (N + 2) * dividers.tx \in Nat
    <2>1. N - 1 \in Nat /\ N + 2 \in Nat
      OBVIOUS
    <2> QED BY <2>1, ProductGrows
  <1> QED BY <1>2, <1>3 DEF InTime

-----------------------------------------------------------------------------
(* The transmitter. *)

(* The age is that of the bit on the line. *)
LEMMA AgeInBit ==
  ASSUME RegistersOK, NEW w, Sending(w)
  PROVE  /\ Age \in 0 .. (numberOfBits + 2) * dividers.tx - 1
         /\ numberOfBits + 2 - tx_bit \in 0 .. numberOfBits + 1
         /\ InBit(numberOfBits + 2 - tx_bit, Age)
         /\ Tx!io_tx = Tx!Frame(w)[numberOfBits + 2 - tx_bit]
  <1> DEFINE b == numberOfBits + 2 - tx_bit
             d == dividers.tx
  <1>1. /\ numberOfBits \in Nat \ {0} /\ d \in Nat \ {0}
        /\ tx_bit \in 1 .. numberOfBits + 2 /\ tx_rate \in 0 .. d - 1
    BY DividerFacts DEF RegistersOK, Sending
  <1>2. b \in 0 .. numberOfBits + 1
    BY <1>1
  <1>3. b * d \in Nat /\ (b + 1) * d \in Nat /\ (numberOfBits + 2) * d \in Nat
        /\ (b + 1) * d <= (numberOfBits + 2) * d
    BY <1>1, <1>2, ProductGrows
  <1>4. (b + 1) * d = b * d + d
    BY <1>1, <1>2
  <1>5. Age = b * d + (d - 1 - tx_rate)
    BY DEF Age
  <1>6. Tx!io_tx = Tx!Frame(w)[b]
    <2>1. 0 \in 0 .. tx_bit - 1 /\ tx_bit # 0 /\ b + 0 = b
      BY <1>1
    <2>2. tx_bits[0] = Tx!Frame(w)[b + 0]
      BY <2>1 DEF Sending
    <2> QED BY <2>1, <2>2 DEF Tx!io_tx
  <1> HIDE DEF b, d
  <1>7. Age \in b * d .. (b + 1) * d - 1 /\ Age \in 0 .. (numberOfBits + 2) * d - 1
    BY <1>1, <1>2, <1>3, <1>4, <1>5
  <1> QED BY <1>2, <1>6, <1>7 DEF InBit, b, d

(* While a frame is sent its age grows by one in a cycle. *)
LEMMA SendOn ==
  ASSUME RegistersOK, NEW w, Sending(w), Tx!Run, UNCHANGED dividers
  PROVE  /\ tx_bit' \in 0 .. numberOfBits + 2 /\ tx_rate' \in 0 .. dividers.tx - 1
         /\ DOMAIN tx_bits' = 0 .. numberOfBits + 1
         /\ tx_bit' > 0 => Sending(w)' /\ Age' = Age + 1
         /\ tx_bit' = 0 => Age = (numberOfBits + 2) * dividers.tx - 1
  <1> DEFINE d == dividers.tx
             N == numberOfBits
  <1>1. /\ N \in Nat \ {0} /\ d \in Nat \ {0} /\ w \in Tx!Word
        /\ tx_bit \in 1 .. N + 2 /\ tx_rate \in 0 .. d - 1 /\ DOMAIN tx_bits = 0 .. N + 1
        /\ \A j \in 0 .. tx_bit - 1 : tx_bits[j] = Tx!Frame(w)[N + 2 - tx_bit + j]
    BY DividerFacts DEF RegistersOK, Sending
  <1>2. ~Tx!Idle
    BY <1>1 DEF Tx!Idle, Tx!io_in_ready
  <1>3. CASE Tx!Hold
    <2>1. tx_rate > 0 /\ tx_rate' = tx_rate - 1 /\ tx_bit' = tx_bit /\ tx_bits' = tx_bits
      BY <1>3 DEF Tx!Hold
    <2>2. tx_rate' \in 0 .. d - 1
      BY <1>1, <2>1
    <2>3. Sending(w)'
      BY <1>1, <2>1 DEF Sending
    <2>4. Age' = Age + 1
      <3>1. (N + 2 - tx_bit) * d \in Int
        BY <1>1
      <3>2. Age' = (N + 2 - tx_bit) * d + (d - 1 - (tx_rate - 1))
        BY <2>1 DEF Age
      <3>3. Age = (N + 2 - tx_bit) * d + (d - 1 - tx_rate)
        BY DEF Age
      <3> HIDE DEF d, N
      <3> QED BY <1>1, <3>1, <3>2, <3>3
    <2> QED BY <1>1, <2>1, <2>2, <2>3, <2>4
  <1>4. CASE Tx!Shift
    <2>1. /\ tx_rate = 0 /\ tx_rate' = d - 1 /\ tx_bit' = tx_bit - 1
          /\ tx_bits' = [i \in DOMAIN tx_bits |-> IF i <= N THEN tx_bits[i + 1] ELSE tx_bits[i]]
      BY <1>4 DEF Tx!Shift
    <2>2. tx_rate' \in 0 .. d - 1 /\ tx_bit' \in 0 .. N + 2 /\ DOMAIN tx_bits' = 0 .. N + 1
      BY <1>1, <2>1
    <2>3. ASSUME tx_bit' > 0 PROVE Sending(w)'
      <3>1. ASSUME NEW j \in 0 .. tx_bit' - 1
            PROVE  tx_bits'[j] = Tx!Frame(w)[N + 2 - tx_bit' + j]
        <4>1. j \in 0 .. N + 1 /\ j <= N /\ j + 1 \in 0 .. tx_bit - 1
              /\ N + 2 - tx_bit + (j + 1) = N + 2 - tx_bit' + j
          BY <1>1, <2>1
        <4>2. tx_bits'[j] = tx_bits[j + 1]
          BY <1>1, <2>1, <4>1
        <4>3. tx_bits[j + 1] = Tx!Frame(w)[N + 2 - tx_bit + (j + 1)]
          BY <1>1, <4>1
        <4> QED BY <4>1, <4>2, <4>3
      <3> QED BY <1>1, <2>3, <3>1 DEF Sending
    <2>4. Age' = Age + 1 /\ (tx_bit' = 0 => Age = (N + 2) * d - 1)
      <3>1. Age' = (N + 2 - (tx_bit - 1)) * d + (d - 1 - (d - 1))
        BY <2>1 DEF Age
      <3>2. Age = (N + 2 - tx_bit) * d + (d - 1 - 0)
        BY <2>1 DEF Age
      <3>3. (N + 2 - (tx_bit - 1)) * d = (N + 2 - tx_bit) * d + d
        BY <1>1
      <3>4. tx_bit = 1 => (N + 2) * d = (N + 2 - tx_bit) * d + d
        BY <1>1
      <3>5. (N + 2 - tx_bit) * d \in Int /\ d \in Int
        BY <1>1
      <3>6. Age' = Age + 1
        BY <3>1, <3>2, <3>3, <3>5
      <3>7. tx_bit' = 0 => tx_bit = 1
        BY <1>1, <2>1
      <3> QED BY <3>2, <3>4, <3>5, <3>6, <3>7
    <2> QED BY <2>2, <2>3, <2>4
  <1> QED BY <1>2, <1>3, <1>4 DEF Tx!Run

-----------------------------------------------------------------------------
(* The synchronizer. *)

(* A cycle later each register holds what the next one saw, the last one   *)
(* what is on the line now.                                                *)
LEMMA Synchronized ==
  ASSUME RegistersOK, Rx!Synchronize(Tx!io_tx)
  PROVE  /\ DOMAIN rxRegs' = 0 .. rxSyncStages
         /\ rxRegs'[rxSyncStages] = Tx!io_tx
         /\ \A i \in 0 .. rxSyncStages - 1 : rxRegs'[i] = rxRegs[i + 1]
  <1>1. rxSyncStages \in Nat \ {0} /\ DOMAIN rxRegs = 0 .. rxSyncStages
    BY DividerFacts DEF RegistersOK
  <1>2. rxRegs' = [i \in 0 .. rxSyncStages |-> IF i = rxSyncStages THEN Tx!io_tx ELSE rxRegs[i + 1]]
    BY <1>1 DEF Rx!Synchronize
  <1>3. rxSyncStages \in 0 .. rxSyncStages
        /\ \A i \in 0 .. rxSyncStages - 1 : i \in 0 .. rxSyncStages /\ i # rxSyncStages
    BY <1>1
  <1> QED BY <1>2, <1>3

LEMMA FrameMoves ==
  ASSUME RegistersOK, NEW w, Sending(w), FrameSeen(w), Rx!Synchronize(Tx!io_tx)
  PROVE  \A i \in 0 .. rxSyncStages, b \in 0 .. numberOfBits + 1 :
             InBit(b, Age - (rxSyncStages - i)) => rxRegs'[i] = Tx!Frame(w)[b]
  <1> SUFFICES ASSUME NEW i \in 0 .. rxSyncStages, NEW b \in 0 .. numberOfBits + 1,
                      InBit(b, Age - (rxSyncStages - i))
               PROVE  rxRegs'[i] = Tx!Frame(w)[b]
    OBVIOUS
  <1>1. /\ numberOfBits \in Nat /\ rxSyncStages \in Nat /\ dividers.tx \in Nat /\ Age \in Int
    BY DividerFacts, AgeInBit, SMTT(30) DEF RegistersOK
  <1>2. CASE i = rxSyncStages
    <2>1. Age - (rxSyncStages - i) = Age
      BY <1>1, <1>2
    <2>2. b = numberOfBits + 2 - tx_bit
      <3>1. /\ Age \in b * dividers.tx .. (b + 1) * dividers.tx - 1
            /\ Age \in (numberOfBits + 2 - tx_bit) * dividers.tx
                         .. ((numberOfBits + 2 - tx_bit) + 1) * dividers.tx - 1
        BY <2>1, AgeInBit DEF InBit
      <3>2. b \in Nat /\ numberOfBits + 2 - tx_bit \in Nat
        BY <1>1, AgeInBit
      <3> QED BY <1>1, <3>1, <3>2, OneBit
    <2> QED BY <1>2, <2>2, AgeInBit, Synchronized
  <1>3. CASE i # rxSyncStages
    <2>1. i \in 0 .. rxSyncStages - 1 /\ i + 1 \in 0 .. rxSyncStages
          /\ Age - 1 - (rxSyncStages - (i + 1)) = Age - (rxSyncStages - i)
      BY <1>1, <1>3
    <2>2. InBit(b, Seen(i + 1))
      BY <2>1 DEF Seen
    <2>3. rxRegs[i + 1] = Tx!Frame(w)[b]
      BY <2>1, <2>2 DEF FrameSeen
    <2> QED BY <2>1, <2>3, Synchronized
  <1> QED BY <1>2, <1>3

(* So the registers go on showing the frame. *)
LEMMA FrameSeenOn ==
  ASSUME RegistersOK, NEW w, Sending(w), FrameSeen(w), Rx!Synchronize(Tx!io_tx),
         UNCHANGED dividers, Age' = Age + 1
  PROVE  FrameSeen(w)'
  <1>1. rxSyncStages \in Nat /\ Age \in Int
    BY DividerFacts, AgeInBit DEF RegistersOK
  <1>2. \A i \in 0 .. rxSyncStages : Seen(i)' = Age - (rxSyncStages - i)
    BY <1>1 DEF Seen
  <1> QED BY <1>2, FrameMoves DEF FrameSeen, InBit

-----------------------------------------------------------------------------
(* The three phases, a clock edge later. *)

(* At reset the line is idle. *)
LEMMA SerialInitially == Init => SerialInv
  <1> SUFFICES ASSUME Init PROVE SerialInv
    OBVIOUS
  <1>1. dividers \in Dividers /\ tx_rate = 0 /\ tx_bit = 0 /\ running = FALSE /\ sent = <<>>
        /\ outValid = FALSE
    BY DEF Init, Tx!TxInit, Rx!RxInit
  <1>2. DOMAIN tx_bits = 0 .. numberOfBits + 1 /\ DOMAIN rx_bits = 0 .. numberOfBits - 1
    BY DEF Init, Tx!TxInit, Rx!RxInit
  <1>3. rxRegs = [i \in 0 .. rxSyncStages |-> 0]
    BY DEF Init, Rx!RxInit
  <1>4. numberOfBits \in Nat \ {0} /\ rxSyncStages \in Nat \ {0} /\ dividers.tx \in Nat \ {0}
    BY <1>1, DividerFacts
  <1>5. RegistersOK
    BY <1>1, <1>2, <1>3, <1>4 DEF RegistersOK
  <1>6. Between
    <2>1. \A i \in 0 .. rxSyncStages - 1 : i \in 0 .. rxSyncStages
      BY <1>4
    <2>2. Rising(rxSyncStages)
      BY <1>3, <2>1 DEF Rising
    <2>3. Tx!io_tx = 1
      BY <1>1 DEF Tx!io_tx
    <2> QED BY <1>1, <2>2, <2>3 DEF Between
  <1> QED BY <1>5, <1>6 DEF SerialInv

(* What an edge does to the rest of the registers. *)
LEMMA RegistersKept ==
  ASSUME RegistersOK, Clock,
         tx_bit' \in 0 .. numberOfBits + 2, tx_rate' \in 0 .. dividers.tx - 1,
         DOMAIN tx_bits' = 0 .. numberOfBits + 1
  PROVE  RegistersOK'
  <1>1. dividers' = dividers /\ Rx!Synchronize(Tx!io_tx)
    BY DEF Clock, Quiet, Arrive, Rx!Run, Rx!Receive
  <1>2. DOMAIN rxRegs' = 0 .. rxSyncStages
    BY <1>1, Synchronized
  <1>3. DOMAIN rx_bits' = 0 .. numberOfBits - 1
    <2>1. rx_bits' \in {rx_bits, Rx!Shifted}
      BY DEF Clock, Quiet, Arrive, Rx!Run, Rx!Receive, Rx!Wait, Rx!Start, Rx!Count, Rx!Sample, Rx!Finish
    <2>2. DOMAIN Rx!Shifted = DOMAIN rx_bits
      BY DEF Rx!Shifted
    <2> QED BY <2>1, <2>2 DEF RegistersOK
  <1>4. outValid' \in BOOLEAN
    BY DEF Clock, Quiet, Arrive, Rx!Run, Rx!Receive, Rx!Finish, Rx!Handshake, RegistersOK
  <1> QED BY <1>1, <1>2, <1>3, <1>4 DEF RegistersOK

(* No falling edge in the registers: the receiver waits. *)
LEMMA ReceiverWaits ==
  ASSUME RegistersOK, ~running, NEW last \in 1 .. rxSyncStages, Rising(last)
  PROVE  /\ ~Arrive
         /\ \A ready \in BOOLEAN : Quiet(ready) => Rx!Wait
  <1>1. rxSyncStages \in Nat \ {0} /\ 0 \in 0 .. last - 1
    BY DividerFacts DEF RegistersOK
  <1>2. ~Rx!StartBit
    <2>1. rxRegs[0] = 1 => rxRegs[0 + 1] = 1
      BY <1>1 DEF Rising
    <2> QED BY <2>1 DEF Rx!StartBit
  <1> QED
    BY <1>2 DEF Arrive, Quiet, Rx!Run, Rx!Receive, Rx!Start, Rx!Count, Rx!Sample, Rx!Finish

(* Between frames the line is idle or its last bits rise: it stays so, or  *)
(* a word is taken.                                                        *)
LEMMA BetweenStep ==
  ASSUME RegistersOK, Between, NEW ready \in BOOLEAN, Quiet(ready), UNCHANGED dividers
  PROVE  SerialInv'
  <1> DEFINE N == numberOfBits
             d == dividers.tx
             S == rxSyncStages
  <1>1. /\ N \in Nat \ {0} /\ d \in Nat \ {0} /\ S \in Nat \ {0}
        /\ tx_bit \in 0 .. 2 /\ tx_rate \in 0 .. d - 1 /\ DOMAIN tx_bits = 0 .. N + 1
    BY DividerFacts DEF RegistersOK, Between
  <1>2. Rx!Wait /\ Rx!Synchronize(Tx!io_tx)
    <2>1. S \in 1 .. S
      BY <1>1
    <2>2. ~running /\ Rising(S)
      BY DEF Between
    <2>3. Rx!Wait
      BY <2>1, <2>2, ReceiverWaits
    <2> QED BY <2>3 DEF Quiet, Rx!Run
  <1>3. ~running' /\ running' = running
    BY <1>2 DEF Rx!Wait, Between
  <1>4. /\ rxRegs'[S] = Tx!io_tx
        /\ \A i \in 0 .. S - 1 : rxRegs'[i] = rxRegs[i + 1]
    BY <1>2, Synchronized
  <1>5. Rising(S)'
    <2> SUFFICES ASSUME NEW i \in 0 .. S - 1, rxRegs'[i] = 1 PROVE rxRegs'[i + 1] = 1
      BY DEF Rising
    <2>1. rxRegs[i + 1] = 1
      BY <1>4
    <2>2. CASE i = S - 1
      <3>1. i + 1 = S
        BY <1>1, <2>2
      <3> QED BY <1>4, <2>1, <3>1 DEF Between
    <2>3. CASE i # S - 1
      <3>1. i + 1 \in 0 .. S - 1
        BY <1>1, <2>3
      <3>2. rxRegs[(i + 1) + 1] = 1
        BY <2>1, <3>1 DEF Between, Rising
      <3> QED BY <1>4, <3>1, <3>2
    <2> QED BY <2>2, <2>3
  <1>6. Clock
    BY DEF Clock
  <1>7. CASE Tx!Run /\ UNCHANGED sent
    <2>1. /\ tx_bit' \in 0 .. 2 /\ tx_rate' \in 0 .. d - 1 /\ DOMAIN tx_bits' = 0 .. N + 1
          /\ tx_bit' > 0 => tx_bits'[tx_bit' - 1] = 1
          /\ Tx!io_tx = 1 => Tx!io_tx' = 1
      <3>1. CASE Tx!Idle
        BY <1>1, <3>1 DEF Tx!Idle, Tx!txVars, Tx!io_tx, Between
      <3>2. CASE Tx!Hold
        BY <1>1, <3>2 DEF Tx!Hold, Tx!io_tx, Between
      <3>3. CASE Tx!Shift
        <4>1. /\ tx_bit \in {1, 2} /\ tx_bit' = tx_bit - 1 /\ tx_rate' = d - 1
              /\ tx_bits' = [i \in DOMAIN tx_bits |-> IF i <= N THEN tx_bits[i + 1] ELSE tx_bits[i]]
          BY <1>1, <3>3 DEF Tx!Shift
        <4>2. tx_bits[tx_bit - 1] = 1
          BY <4>1 DEF Between
        <4>3. CASE tx_bit = 2
          <5>1. tx_bits'[0] = tx_bits[1] /\ tx_bits[1] = 1 /\ tx_bit' = 1
            <6>1. 0 \in DOMAIN tx_bits /\ 0 <= N /\ 0 + 1 = 1 /\ 2 - 1 = 1
              BY <1>1
            <6> QED BY <4>1, <4>2, <4>3, <6>1
          <5> QED BY <1>1, <4>1, <5>1 DEF Tx!io_tx
        <4>4. CASE tx_bit = 1
          BY <1>1, <4>1, <4>4 DEF Tx!io_tx
        <4> QED BY <4>1, <4>3, <4>4
      <3> QED BY <1>7, <3>1, <3>2, <3>3 DEF Tx!Run
    <2>2. Between'
      <3>1. sent' = <<>>
        BY <1>7 DEF Between
      <3>2. tx_bit' <= 2
        BY <2>1
      <3> QED BY <1>3, <1>4, <1>5, <2>1, <3>1, <3>2 DEF Between
    <2>3. RegistersOK'
      <3>1. tx_bit' \in 0 .. N + 2
        BY <1>1, <2>1
      <3> QED BY <1>6, <2>1, <3>1, RegistersKept
    <2> QED BY <2>2, <2>3 DEF SerialInv
  <1>8. ASSUME NEW w \in Tx!Word, Tx!Accept(w), sent' = Append(sent, w) PROVE SerialInv'
    <2>1. tx_bit = 0 /\ Tx!io_tx = 1
      BY <1>8 DEF Tx!Accept, Tx!io_in_ready, Tx!io_tx
    <2>2. tx_bit' = N + 2 /\ tx_rate' = d - 1 /\ tx_bits' = Tx!Frame(w) /\ sent' = <<w>>
      BY <1>8, SerialAssumption DEF Tx!Accept, Between
    <2>3. Age' = 0
      <3>1. Age' = (N + 2 - (N + 2)) * d + (d - 1 - (d - 1))
        BY <2>2 DEF Age
      <3>2. N + 2 - (N + 2) = 0 /\ 0 * d = 0 /\ d - 1 - (d - 1) = 0
        BY <1>1
      <3> HIDE DEF N, d
      <3> QED BY <3>1, <3>2
    <2>4. Sending(w)'
      <3>1. \A j \in 0 .. N + 1 : N + 2 - (N + 2) + j = j
        BY <1>1
      <3>2. N + 2 - 1 = N + 1 /\ N + 2 > 0
        BY <1>1
      <3>3. \A j \in 0 .. tx_bit' - 1 : tx_bits'[j] = Tx!Frame(w)[N + 2 - tx_bit' + j]
        <4> SUFFICES ASSUME NEW j \in 0 .. tx_bit' - 1
                     PROVE  tx_bits'[j] = Tx!Frame(w)[N + 2 - tx_bit' + j]
          OBVIOUS
        <4>1. j \in 0 .. N + 1
          BY <1>1, <2>2, <3>2
        <4>2. N + 2 - tx_bit' + j = j
          BY <2>2, <3>1, <4>1
        <4> QED BY <2>2, <4>2
      <3>4. tx_bit' > 0
        BY <2>2, <3>2
      <3> QED BY <1>8, <3>3, <3>4 DEF Sending
    <2>5. FrameSeen(w)'
      <3>1. \A i \in 0 .. S : Seen(i)' < 0
        BY <1>1, <2>3 DEF Seen
      <3>2. \A b \in 0 .. N + 1 : b * d \in Nat
        BY <1>1, ProductGrows
      <3>3. \A i \in 0 .. S, b \in 0 .. N + 1 : ~InBit(b, Seen(i))'
        <4> SUFFICES ASSUME NEW i \in 0 .. S, NEW b \in 0 .. N + 1, InBit(b, Seen(i))' PROVE FALSE
          OBVIOUS
        <4>1. Seen(i)' \in b * d .. (b + 1) * d - 1
          BY DEF InBit
        <4> QED BY <3>1, <3>2, <4>1
      <3> QED BY <3>3 DEF FrameSeen
    <2>6. Coming(w)'
      <3>1. Age' <= S /\ S - Age' = S
        BY <1>1, <2>3
      <3> QED BY <1>3, <1>4, <1>5, <2>1, <2>2, <2>4, <2>5, <3>1 DEF Coming
    <2>7. RegistersOK'
      <3>1. tx_bit' \in 0 .. N + 2 /\ tx_rate' \in 0 .. d - 1
        BY <1>1, <2>2
      <3>2. DOMAIN tx_bits' = 0 .. N + 1
        BY <2>2 DEF Tx!Frame
      <3> QED BY <1>6, <3>1, <3>2, RegistersKept
    <2> QED BY <2>6, <2>7 DEF SerialInv
  <1> QED BY <1>7, <1>8 DEF Quiet

(* The begin of a frame moves through the synchronizer, until the receiver *)
(* sees it.                                                                *)
LEMMA ComingStep ==
  ASSUME RegistersOK, NEW w, Coming(w), NEW ready \in BOOLEAN, Quiet(ready), UNCHANGED dividers
  PROVE  SerialInv'
  <1> DEFINE N == numberOfBits
             d == dividers.tx
             S == rxSyncStages
             last == S - Age
  <1>1. /\ N \in Nat \ {0} /\ d \in Nat \ {0} /\ S \in Nat \ {0} /\ dividers.rx \in Nat \ {0}
        /\ Age \in 0 .. (N + 2) * d - 1 /\ Age <= S /\ S + 1 < (N + 2) * d
        /\ (N + 2) * d \in Nat
    <2>1. dividers \in Dividers /\ Sending(w) /\ Age <= S
      BY DEF RegistersOK, Coming
    <2>2. N \in Nat \ {0} /\ d \in Nat \ {0} /\ S \in Nat \ {0} /\ dividers.rx \in Nat \ {0}
      BY <2>1, DividerFacts
    <2>3. (N + 2) * d \in Nat
      BY <2>2, ProductGrows
    <2> QED BY <2>1, <2>2, <2>3, AgeInBit, ReadingTakes
  <1>2. Rx!Synchronize(Tx!io_tx) /\ Clock
    BY DEF Quiet, Rx!Run, Clock
  <1>3. Tx!Run /\ UNCHANGED sent
    <2>1. ~Tx!io_in_ready
      BY DEF Coming, Sending, Tx!io_in_ready
    <2> QED BY <2>1 DEF Quiet, Tx!Accept
  <1>4. Sending(w) /\ FrameSeen(w) /\ sent = <<w>>
    BY DEF Coming
  <1>5. /\ tx_bit' \in 0 .. N + 2 /\ tx_rate' \in 0 .. d - 1 /\ DOMAIN tx_bits' = 0 .. N + 1
        /\ Sending(w)' /\ Age' = Age + 1 /\ tx_bit' > 0
    <2>1. /\ tx_bit' \in 0 .. N + 2 /\ tx_rate' \in 0 .. d - 1 /\ DOMAIN tx_bits' = 0 .. N + 1
          /\ tx_bit' > 0 => Sending(w)' /\ Age' = Age + 1
          /\ tx_bit' = 0 => Age = (N + 2) * d - 1
      BY <1>3, <1>4, SendOn
    <2>2. tx_bit' # 0
      BY <1>1, <2>1
    <2>3. tx_bit' > 0
      BY <1>1, <2>1, <2>2
    <2> QED BY <2>1, <2>3
  <1>6. FrameSeen(w)'
    BY <1>2, <1>4, <1>5, FrameSeenOn
  <1>7. RegistersOK'
    BY <1>2, <1>5, RegistersKept
  <1>8. \A i \in 0 .. S - 1 : rxRegs'[i] = rxRegs[i + 1]
    BY <1>2, Synchronized
  <1>9. last \in 0 .. S /\ rxRegs[last] = 1 /\ Rising(last) /\ ~running
    BY <1>1 DEF Coming
  <1>10. CASE Age < S
    <2>1. last \in 1 .. S
      BY <1>1, <1>10
    <2>2. Rx!Wait
      BY <1>9, <2>1, ReceiverWaits
    <2>3. S - Age' = last - 1 /\ last - 1 \in 0 .. S - 1 /\ Age' <= S
      BY <1>1, <1>5, <1>10
    <2> HIDE DEF last
    <2>4. rxRegs'[last - 1] = 1
      <3>1. (last - 1) + 1 = last
        BY <1>9
      <3> QED BY <1>8, <1>9, <2>3, <3>1
    <2>5. ASSUME NEW i \in 0 .. (last - 1) - 1, rxRegs'[i] = 1 PROVE rxRegs'[i + 1] = 1
      <3>1. i \in 0 .. S - 1 /\ i + 1 \in 0 .. S - 1 /\ i + 1 \in 0 .. last - 1
        BY <1>1, <1>9, <2>1
      <3>2. rxRegs[i + 1] = 1
        BY <1>8, <2>5, <3>1
      <3>3. rxRegs[(i + 1) + 1] = 1
        BY <1>9, <3>1, <3>2 DEF Rising
      <3> QED BY <1>8, <3>1, <3>3
    <2>6. Coming(w)'
      BY <1>3, <1>4, <1>5, <1>6, <1>9, <2>2, <2>3, <2>4, <2>5 DEF Coming, Rising, Rx!Wait
    <2> QED BY <1>7, <2>6 DEF SerialInv
  <1>11. CASE Age = S
    <2>1. rxRegs[0] = 1
      <3>1. last = 0
        BY <1>1, <1>11
      <3> QED BY <1>9, <3>1
    <2>2. rxRegs[1] = 0
      <3>1. Seen(1) = 0
        BY <1>1, <1>11 DEF Seen
      <3>2. InBit(0, 0)
        BY <1>1 DEF InBit
      <3>3. 1 \in 0 .. S /\ 0 \in 0 .. N + 1
        BY <1>1
      <3>4. rxRegs[1] = Tx!Frame(w)[0]
        BY <1>4, <3>1, <3>2, <3>3 DEF FrameSeen
      <3>5. Tx!Frame(w)[0] = 0
        BY <1>1, <3>3 DEF Tx!Frame
      <3> QED BY <3>4, <3>5
    <2>3. Rx!Start
      <3>1. Rx!StartBit
        BY <2>1, <2>2 DEF Rx!StartBit
      <3> QED BY <1>9, <3>1 DEF Quiet, Rx!Run, Rx!Wait, Rx!Count, Rx!Sample
    <2>4. /\ running' = TRUE /\ rx_bit' = N - 1
          /\ rx_rate' = ToFirstSample(dividers) - 1
      BY <2>3 DEF Rx!Start, Rx!ToFirstBit, ToFirstSample
    <2>5. ToFirstSample(dividers) \in Nat /\ ToFirstSample(dividers) >= 1
      BY DividerFacts, ReadingTakes DEF RegistersOK
    <2>6. rx_rate' \in Nat /\ rx_bit' \in 0 .. N - 1 /\ Age' > S
      BY <1>1, <1>5, <1>11, <2>4, <2>5, SMTT(30)
    <2>7. Age' + rx_rate' + rx_bit' * dividers.rx
             = S + ToFirstSample(dividers) + (N - 1) * dividers.rx
      <3>1. Age' = S + 1 /\ S \in Nat
        BY <1>1, <1>5, <1>11
      <3>2. (N - 1) * dividers.rx \in Int
        BY <1>1
      <3> QED BY <2>4, <2>5, <3>1, <3>2
    <2>8. 0 .. N - 2 - rx_bit' = {}
      BY <1>1, <2>4
    <2>9. Reading(w)'
      BY <1>3, <1>4, <1>5, <1>6, <2>4, <2>6, <2>7, <2>8 DEF Reading
    <2> QED BY <1>7, <2>9 DEF SerialInv
  <1> QED BY <1>1, <1>10, <1>11

(* A sample is a bit of the word. *)
LEMMA SampleIsRight ==
  ASSUME RegistersOK, NEW w, Reading(w), rx_rate = 0
  PROVE  /\ rxRegs[0] = w[numberOfBits - 1 - rx_bit]
         /\ \E k \in 0 .. numberOfBits - 1 :
               /\ k = numberOfBits - 1 - rx_bit
               /\ Seen(0) >= (k + 1) * dividers.tx
  <1> DEFINE N == numberOfBits
             S == rxSyncStages
             d == dividers
             k == N - 1 - rx_bit
  <1>1. /\ N \in Nat \ {0} /\ d.tx \in Nat \ {0} /\ S \in Nat \ {0} /\ d.rx \in Nat \ {0}
        /\ ToFirstSample(d) \in Nat /\ Tolerable(d)
    BY DividerFacts DEF RegistersOK
  <1>2. rx_bit \in 0 .. N - 1 /\ k \in 0 .. N - 1 /\ Age \in Int
    BY <1>1, AgeInBit DEF Reading
  <1>3. Seen(0) = ToFirstSample(d) - 1 + k * d.rx
    <2>1. Age + 0 + rx_bit * d.rx = S + ToFirstSample(d) + (N - 1) * d.rx
      BY DEF Reading
    <2>2. k * d.rx = (N - 1) * d.rx - rx_bit * d.rx
      BY <1>1, <1>2
    <2>3. rx_bit * d.rx \in Int /\ (N - 1) * d.rx \in Int
      BY <1>1, <1>2
    <2>4. Seen(0) = Age - 1 - S
      BY <1>1, <1>2 DEF Seen
    <2> DEFINE P == (N - 1) * d.rx
               Q == rx_bit * d.rx
               R == k * d.rx
               F == ToFirstSample(d)
    <2>5. P \in Int /\ Q \in Int /\ F \in Int /\ R = P - Q /\ Age + 0 + Q = S + F + P
      BY <1>1, <2>1, <2>2, <2>3
    <2> HIDE DEF P, Q, R, F
    <2>6. Age - 1 - S = F - 1 + R
      BY <1>1, <1>2, <2>5
    <2> QED BY <2>4, <2>6 DEF R, F
  <1>4. ToFirstSample(d) - 1 + k * d.rx \in (k + 1) * d.tx .. (k + 2) * d.tx - 1
    BY <1>1, <1>2 DEF Tolerable
  <1>5. InBit(k + 1, Seen(0))
    <2>1. (k + 1) + 1 = k + 2
      BY <1>1, <1>2
    <2> QED BY <1>3, <1>4, <2>1 DEF InBit
  <1>6. 0 \in 0 .. S /\ k + 1 \in 0 .. N + 1
    BY <1>1, <1>2
  <1>7. rxRegs[0] = Tx!Frame(w)[k + 1]
    BY <1>5, <1>6 DEF Reading, FrameSeen
  <1>8. Tx!Frame(w)[k + 1] = w[k]
    <2>1. k + 1 # 0 /\ k + 1 # N + 1 /\ (k + 1) - 1 = k
      BY <1>1, <1>2
    <2> QED BY <1>6, <2>1 DEF Tx!Frame
  <1>9. Seen(0) >= (k + 1) * d.tx
    <2>1. (k + 1) * d.tx \in Nat /\ (k + 2) * d.tx \in Nat
      <3>1. k + 1 \in Nat /\ k + 2 \in Nat
        BY <1>2
      <3> QED BY <1>1, <3>1, ProductGrows
    <2> QED BY <1>3, <1>4, <2>1
  <1> QED BY <1>2, <1>7, <1>8, <1>9

(* A word being read is still being sent. *)
LEMMA ReadingInFrame ==
  ASSUME RegistersOK, NEW w, Reading(w)
  PROVE  /\ rx_rate + rx_bit * dividers.rx \in Nat
         /\ Age + rx_rate + rx_bit * dividers.rx < (numberOfBits + 2) * dividers.tx
         /\ (numberOfBits + 2) * dividers.tx \in Nat
  <1>1. /\ numberOfBits \in Nat \ {0} /\ dividers.tx \in Nat \ {0} /\ dividers.rx \in Nat \ {0}
        /\ rxSyncStages \in Nat /\ InTime(dividers)
    BY DividerFacts DEF RegistersOK
  <1>2. rx_rate \in Nat /\ rx_bit \in Nat
    BY <1>1 DEF Reading
  <1>3. rx_bit * dividers.rx \in Nat /\ (numberOfBits + 2) * dividers.tx \in Nat
    BY <1>1, <1>2, ProductGrows
  <1>4. Age + rx_rate + rx_bit * dividers.rx < (numberOfBits + 2) * dividers.tx
    BY <1>1 DEF Reading, InTime
  <1> QED BY <1>2, <1>3, <1>4

(* A word is read: the receiver counts, or takes a bit. *)
LEMMA ReadingStep ==
  ASSUME RegistersOK, NEW w, Reading(w), NEW ready \in BOOLEAN, Quiet(ready), UNCHANGED dividers
  PROVE  SerialInv'
  <1> DEFINE N == numberOfBits
             S == rxSyncStages
             r == dividers.rx
  <1>1. /\ N \in Nat \ {0} /\ S \in Nat \ {0} /\ r \in Nat \ {0} /\ dividers.tx \in Nat \ {0}
    BY DividerFacts DEF RegistersOK
  <1>2. /\ rx_rate \in Nat /\ rx_bit \in 0 .. N - 1 /\ Age \in Int /\ Age > S
        /\ rx_rate + rx_bit * r \in Nat /\ rx_bit * r \in Nat
        /\ Age + rx_rate + rx_bit * r < (N + 2) * dividers.tx
        /\ (N + 2) * dividers.tx \in Nat
    <2>1. rx_bit \in Nat => rx_bit * r \in Nat
      BY <1>1, ProductGrows
    <2>2. rx_bit \in Nat
      BY <1>1 DEF Reading
    <2> QED BY <2>1, <2>2, AgeInBit, ReadingInFrame DEF Reading
  <1>3. Rx!Synchronize(Tx!io_tx) /\ Clock
    BY DEF Quiet, Rx!Run, Clock
  <1>4. Tx!Run /\ UNCHANGED sent
    <2>1. ~Tx!io_in_ready
      BY DEF Reading, Sending, Tx!io_in_ready
    <2> QED BY <2>1 DEF Quiet, Tx!Accept
  <1>5. Sending(w) /\ FrameSeen(w) /\ sent = <<w>> /\ running
    BY DEF Reading
  <1>6. Rx!Count \/ Rx!Sample
    BY <1>5 DEF Quiet, Rx!Run, Rx!Wait, Rx!Start
  <1>7. rx_rate + rx_bit * r > 0
    <2>1. CASE Rx!Count
      BY <1>2, <2>1 DEF Rx!Count
    <2>2. CASE Rx!Sample
      <3>1. rx_bit \in Nat /\ 1 <= rx_bit
        BY <1>1, <1>2, <2>2 DEF Rx!Sample
      <3>2. 1 * r <= rx_bit * r
        BY <1>1, <3>1, ProductGrows
      <3> QED BY <1>1, <1>2, <3>2
    <2> QED BY <1>6, <2>1, <2>2
  <1>8. /\ tx_bit' \in 0 .. N + 2 /\ tx_rate' \in 0 .. dividers.tx - 1 /\ DOMAIN tx_bits' = 0 .. N + 1
        /\ Sending(w)' /\ Age' = Age + 1
    <2>1. /\ tx_bit' \in 0 .. N + 2 /\ tx_rate' \in 0 .. dividers.tx - 1
          /\ DOMAIN tx_bits' = 0 .. N + 1
          /\ tx_bit' > 0 => Sending(w)' /\ Age' = Age + 1
          /\ tx_bit' = 0 => Age = (N + 2) * dividers.tx - 1
      BY <1>4, <1>5, SendOn
    <2>2. Age < (N + 2) * dividers.tx - 1
      BY <1>2, <1>7
    <2>3. tx_bit' > 0
      BY <1>1, <1>2, <2>1, <2>2
    <2> QED BY <2>1, <2>3
  <1>9. FrameSeen(w)'
    BY <1>3, <1>5, <1>8, FrameSeenOn
  <1>10. RegistersOK'
    BY <1>3, <1>8, RegistersKept
  <1>11. /\ Age + rx_rate + rx_bit * r = S + ToFirstSample(dividers) + (N - 1) * r
         /\ \A j \in 0 .. N - 2 - rx_bit : rx_bits[rx_bit + 1 + j] = w[j]
    BY DEF Reading
  <1>12. Age' > S /\ dividers' = dividers
    BY <1>1, <1>2, <1>8
  <1>13. CASE Rx!Count
    <2>1. rx_rate' = rx_rate - 1 /\ rx_bit' = rx_bit /\ rx_bits' = rx_bits /\ running' = running
          /\ rx_rate > 0
      BY <1>13 DEF Rx!Count
    <2>2. rx_rate' \in Nat
      BY <1>2, <2>1
    <2>3. Age' + rx_rate' + rx_bit' * r = S + ToFirstSample(dividers) + (N - 1) * r
      <3>1. Age' + rx_rate' = Age + rx_rate
        BY <1>2, <1>8, <2>1
      <3> QED BY <1>11, <2>1, <3>1
    <2>4. Reading(w)'
      BY <1>2, <1>4, <1>5, <1>8, <1>9, <1>11, <1>12, <2>1, <2>2, <2>3 DEF Reading
    <2> QED BY <1>10, <2>4 DEF SerialInv
  <1>14. CASE Rx!Sample
    <2>1. /\ rx_rate = 0 /\ rx_bit > 0 /\ rx_rate' = r - 1 /\ rx_bit' = rx_bit - 1
          /\ rx_bits' = Rx!Shifted /\ running' = running
      BY <1>14 DEF Rx!Sample
    <2>2. rx_rate' \in Nat /\ rx_bit' \in 0 .. N - 1
      BY <1>1, <1>2, <2>1
    <2>3. Age' + rx_rate' + rx_bit' * r = S + ToFirstSample(dividers) + (N - 1) * r
      <3>1. rx_bit' * r = rx_bit * r - r
        BY <1>1, <1>2, <2>1
      <3>2. Age' + rx_rate' = Age + r
        BY <1>1, <1>2, <1>8, <2>1, SMTT(30)
      <3>3. Age' + rx_rate' + rx_bit' * r = Age + rx_rate + rx_bit * r
        BY <1>1, <1>2, <2>1, <3>1, <3>2
      <3> QED BY <1>11, <3>3
    <2>4. ASSUME NEW j \in 0 .. N - 2 - rx_bit' PROVE rx_bits'[rx_bit' + 1 + j] = w[j]
      <3>1. /\ rx_bit' + 1 + j = rx_bit + j /\ rx_bit + j \in 0 .. N - 1
            /\ j \in 0 .. N - 1 - rx_bit
        BY <1>1, <1>2, <2>1
      <3>2. DOMAIN rx_bits = 0 .. N - 1
        BY DEF RegistersOK
      <3>3. CASE j = N - 1 - rx_bit
        <4>1. rx_bit + j = N - 1
          BY <1>1, <1>2, <3>3
        <4>2. rx_bits'[rx_bit + j] = rxRegs[0]
          BY <2>1, <3>1, <3>2, <4>1 DEF Rx!Shifted
        <4>3. rxRegs[0] = w[N - 1 - rx_bit]
          BY <2>1, SampleIsRight
        <4> QED BY <3>1, <3>3, <4>2, <4>3
      <3>4. CASE j # N - 1 - rx_bit
        <4>1. rx_bit + j # N - 1 /\ j \in 0 .. N - 2 - rx_bit /\ rx_bit + j + 1 = rx_bit + 1 + j
          BY <1>1, <1>2, <3>1, <3>4
        <4>2. rx_bits'[rx_bit + j] = rx_bits[rx_bit + j + 1]
          BY <2>1, <3>1, <3>2, <4>1 DEF Rx!Shifted
        <4>3. rx_bits[rx_bit + 1 + j] = w[j]
          BY <1>11, <4>1
        <4> QED BY <3>1, <4>1, <4>2, <4>3
      <3> QED BY <3>3, <3>4
    <2>5. Reading(w)'
      BY <1>4, <1>5, <1>8, <1>9, <1>12, <2>1, <2>2, <2>3, <2>4 DEF Reading
    <2> QED BY <1>10, <2>5 DEF SerialInv
  <1> QED BY <1>6, <1>13, <1>14

(* The last bit: what arrives is what was sent, and behind it only the     *)
(* stop bit is to come.                                                    *)
LEMMA ArriveStep ==
  ASSUME RegistersOK, NEW w, Reading(w), Arrive, UNCHANGED dividers
  PROVE  /\ SerialInv'
         /\ outValid' = TRUE /\ outBits' = w /\ sent' = <<>>
  <1> DEFINE N == numberOfBits
             S == rxSyncStages
             d == dividers.tx
  <1>1. /\ N \in Nat \ {0} /\ S \in Nat \ {0} /\ d \in Nat \ {0} /\ dividers.rx \in Nat \ {0}
    BY DividerFacts DEF RegistersOK
  <1>2. Sending(w) /\ FrameSeen(w) /\ sent = <<w>> /\ running /\ w \in Tx!Word
    BY DEF Reading, Sending
  <1>3. /\ Rx!Synchronize(Tx!io_tx) /\ Rx!Finish /\ Clock
    BY DEF Arrive, Rx!Receive, Clock
  <1>4. /\ rx_rate = 0 /\ rx_bit = 0 /\ rx_bits' = Rx!Shifted /\ running' = FALSE
        /\ outValid' = TRUE /\ outBits' = Rx!Shifted
    BY <1>3 DEF Rx!Finish
  <1>5. Tx!Run /\ sent' = <<>>
    <2>1. ~Tx!io_in_ready
      BY <1>2 DEF Sending, Tx!io_in_ready
    <2>2. Tx!Run /\ sent' = SubSeq(sent, 2, Len(sent))
      BY <2>1 DEF Arrive, Tx!Accept
    <2>3. SubSeq(<<w>>, 2, Len(<<w>>)) = <<>>
      OBVIOUS
    <2> QED BY <1>2, <2>2, <2>3
  <1>6. Rx!Shifted = w
    <2>1. rxRegs[0] = w[N - 1]
      <3>1. N - 1 - 0 = N - 1
        BY <1>1
      <3> QED BY <1>4, <3>1, SampleIsRight
    <2>2. DOMAIN rx_bits = 0 .. N - 1
      BY DEF RegistersOK
    <2>3. ASSUME NEW i \in 0 .. N - 1, i # N - 1 PROVE rx_bits[i + 1] = w[i]
      <3>1. i \in 0 .. N - 2 - 0 /\ 0 + 1 + i = i + 1
        BY <1>1, <2>3
      <3>2. rx_bits[0 + 1 + i] = w[i]
        BY <1>4, <3>1 DEF Reading
      <3> QED BY <3>1, <3>2
    <2>4. Rx!Shifted = [i \in 0 .. N - 1 |-> w[i]]
      BY <2>1, <2>2, <2>3 DEF Rx!Shifted
    <2>5. w = [i \in 0 .. N - 1 |-> w[i]]
      BY <1>2 DEF Tx!Word
    <2> QED BY <2>4, <2>5
  <1>7. /\ Age \in 0 .. (N + 2) * d - 1 /\ N * d \in Nat /\ (N + 1) * d \in Nat
        /\ (N + 1) * d = N * d + d /\ (N + 2) * d = N * d + 2 * d
        /\ Age - S > N * d
    <2>1. PICK k \in 0 .. N - 1 : k = N - 1 - rx_bit /\ Seen(0) >= (k + 1) * d
      BY <1>4, SampleIsRight
    <2>2. k + 1 = N
      BY <1>1, <1>4, <2>1
    <2>3. Seen(0) >= N * d
      BY <2>1, <2>2
    <2>4. Age \in 0 .. (N + 2) * d - 1
      BY <1>2, AgeInBit
    <2>5. N * d \in Nat /\ (N + 1) * d \in Nat /\ (N + 1) * d = N * d + d
          /\ (N + 2) * d = N * d + 2 * d
      BY <1>1, ProductGrows
    <2>6. Seen(0) = Age - 1 - S
      BY <1>1, <2>4 DEF Seen
    <2>7. Age \in Int
      BY <2>4
    <2> QED BY <1>1, <2>3, <2>4, <2>5, <2>6, <2>7
  <1>8. \A i \in 0 .. S :
           LET p == Age - (S - i)
           IN  (p < (N + 1) * d /\ rxRegs'[i] = Tx!Frame(w)[N]) \/ (p >= (N + 1) * d /\ rxRegs'[i] = 1)
    <2> SUFFICES ASSUME NEW i \in 0 .. S
                 PROVE  \/ Age - (S - i) < (N + 1) * d /\ rxRegs'[i] = Tx!Frame(w)[N]
                        \/ Age - (S - i) >= (N + 1) * d /\ rxRegs'[i] = 1
      OBVIOUS
    <2>1. Age - (S - i) \in Int /\ Age - (S - i) >= N * d /\ Age - (S - i) < (N + 2) * d
          /\ N \in 0 .. N + 1 /\ N + 1 \in 0 .. N + 1
      BY <1>1, <1>7
    <2>2. CASE Age - (S - i) < (N + 1) * d
      <3>1. InBit(N, Age - (S - i))
        BY <1>1, <1>7, <2>1, <2>2 DEF InBit
      <3> QED BY <1>2, <1>3, <2>1, <2>2, <3>1, FrameMoves
    <2>3. CASE ~(Age - (S - i) < (N + 1) * d)
      <3>1. InBit(N + 1, Age - (S - i))
        <4>1. ((N + 1) + 1) * d = (N + 2) * d
          BY <1>1
        <4> QED BY <1>1, <1>7, <2>1, <2>3, <4>1 DEF InBit
      <3>2. rxRegs'[i] = Tx!Frame(w)[N + 1]
        BY <1>2, <1>3, <2>1, <3>1, FrameMoves
      <3>3. Tx!Frame(w)[N + 1] = 1
        BY <1>1, <2>1 DEF Tx!Frame
      <3> QED BY <1>7, <2>1, <2>3, <3>2, <3>3
    <2> QED BY <2>2, <2>3
  <1>9. Rising(S)'
    <2> SUFFICES ASSUME NEW i \in 0 .. S - 1, rxRegs'[i] = 1 PROVE rxRegs'[i + 1] = 1
      BY DEF Rising
    <2>1. i \in 0 .. S /\ i + 1 \in 0 .. S /\ Age - (S - i) < Age - (S - (i + 1))
          /\ Age - (S - i) \in Int /\ Age - (S - (i + 1)) \in Int
      BY <1>1, <1>7
    <2> QED BY <1>7, <1>8, <2>1
  <1>10. /\ tx_bit \in 1 .. 2
         /\ tx_bit = 2 => tx_bits[1] = 1 /\ Tx!io_tx = Tx!Frame(w)[N]
         /\ tx_bit = 1 => tx_bits[0] = 1
    <2>1. tx_bit \in 1 .. N + 2
      BY <1>1, <1>2 DEF RegistersOK, Sending
    <2>2. tx_bit <= 2
      <3> SUFFICES ASSUME tx_bit > 2 PROVE FALSE
        BY <1>1, <2>1
      <3>1. (N + 2 - tx_bit) + 1 \in Nat /\ (N + 2 - tx_bit) + 1 <= N
        BY <1>1, <2>1
      <3>2. ((N + 2 - tx_bit) + 1) * d <= N * d /\ ((N + 2 - tx_bit) + 1) * d \in Nat
        BY <1>1, <3>1, ProductGrows
      <3>3. Age <= ((N + 2 - tx_bit) + 1) * d - 1
        <4>1. (N + 2 - tx_bit) * d \in Int
          BY <1>1, <2>1
        <4> QED BY <1>2, <3>2, <4>1, AgeInBit DEF InBit
      <3> QED BY <1>1, <1>7, <3>2, <3>3
    <2>3. tx_bit = 2 => tx_bits[1] = Tx!Frame(w)[N + 1] /\ Tx!io_tx = Tx!Frame(w)[N]
      <3>1. tx_bit = 2 => 1 \in 0 .. tx_bit - 1 /\ N + 2 - tx_bit + 1 = N + 1 /\ N + 2 - tx_bit = N
        BY <1>1
      <3> QED BY <1>2, <3>1, AgeInBit DEF Sending
    <2>4. tx_bit = 1 => tx_bits[0] = Tx!Frame(w)[N + 1]
      <3>1. tx_bit = 1 => 0 \in 0 .. tx_bit - 1 /\ N + 2 - tx_bit + 0 = N + 1
        BY <1>1
      <3> QED BY <1>2, <3>1 DEF Sending
    <2>5. Tx!Frame(w)[N + 1] = 1
      BY <1>1 DEF Tx!Frame
    <2>6. tx_bit \in 1 .. 2
      BY <1>1, <2>1, <2>2
    <2> QED BY <2>3, <2>4, <2>5, <2>6
  <1>11. /\ tx_bit' \in 0 .. N + 2 /\ tx_rate' \in 0 .. d - 1 /\ DOMAIN tx_bits' = 0 .. N + 1
         /\ tx_bit' <= 2 /\ (tx_bit' > 0 => tx_bits'[tx_bit' - 1] = 1)
         /\ (Tx!io_tx = 1 => Tx!io_tx' = 1)
    <2>1. /\ tx_bit' \in 0 .. N + 2 /\ tx_rate' \in 0 .. d - 1 /\ DOMAIN tx_bits' = 0 .. N + 1
      BY <1>2, <1>5, SendOn
    <2>2. CASE Tx!Idle
      BY <1>10, <2>2 DEF Tx!Idle, Tx!io_in_ready
    <2>3. CASE Tx!Hold
      BY <1>10, <2>1, <2>3 DEF Tx!Hold, Tx!io_tx
    <2>4. CASE Tx!Shift
      <3>1. /\ tx_bit' = tx_bit - 1
            /\ tx_bits' = [i \in DOMAIN tx_bits |-> IF i <= N THEN tx_bits[i + 1] ELSE tx_bits[i]]
        BY <2>4 DEF Tx!Shift
      <3>2. CASE tx_bit = 2
        <4>1. 0 \in DOMAIN tx_bits /\ 0 <= N /\ 0 + 1 = 1 /\ tx_bit' = 1 /\ 1 - 1 = 0
          BY <1>1, <3>1, <3>2 DEF RegistersOK
        <4>2. tx_bits'[0] = 1
          BY <1>10, <3>1, <3>2, <4>1
        <4> QED BY <2>1, <4>1, <4>2 DEF Tx!io_tx
      <3>3. CASE tx_bit = 1
        BY <2>1, <3>1, <3>3 DEF Tx!io_tx
      <3> QED BY <1>10, <3>2, <3>3
    <2> QED BY <1>5, <2>2, <2>3, <2>4 DEF Tx!Run
  <1>12. Between'
    <2>1. rxRegs'[S] = Tx!io_tx
      BY <1>3, Synchronized
    <2> QED BY <1>4, <1>5, <1>9, <1>11, <2>1 DEF Between
  <1>13. RegistersOK'
    BY <1>3, <1>11, RegistersKept
  <1> QED BY <1>4, <1>5, <1>6, <1>12, <1>13 DEF SerialInv

(* Nothing arrives that is not being read. *)
LEMMA SerialStep == SerialInv /\ [Clock]_vars => SerialInv'
  <1> SUFFICES ASSUME SerialInv, [Clock]_vars PROVE SerialInv'
    OBVIOUS
  <1>0. RegistersOK
    BY DEF SerialInv
  <1>1. CASE UNCHANGED vars
    <2>1. /\ UNCHANGED <<dividers, tx_rate, tx_bit, tx_bits, rx_rate, rx_bit, rx_bits>>
          /\ UNCHANGED <<rxRegs, running, outValid, sent>>
      BY <1>1 DEF vars
    <2>2. RegistersOK'
      BY <1>0, <2>1 DEF RegistersOK
    <2>3. Age' = Age /\ Tx!io_tx' = Tx!io_tx
      BY <2>1 DEF Age, Tx!io_tx
    <2>4. Between => Between'
      BY <2>1, <2>3 DEF Between, Rising
    <2>5. ASSUME NEW w PROVE Sending(w)' = Sending(w) /\ FrameSeen(w)' = FrameSeen(w)
      BY <2>1, <2>3 DEF Sending, FrameSeen, InBit, Seen
    <2>6. ASSUME NEW w, Coming(w) PROVE Coming(w)'
      BY <2>1, <2>3, <2>5, <2>6 DEF Coming, Rising
    <2>7. ASSUME NEW w, Reading(w) PROVE Reading(w)'
      BY <2>1, <2>3, <2>5, <2>7 DEF Reading
    <2> QED BY <2>2, <2>4, <2>6, <2>7 DEF SerialInv
  <1>2. CASE \E ready \in BOOLEAN : Quiet(ready) /\ UNCHANGED dividers
    BY <1>0, <1>2, BetweenStep, ComingStep, ReadingStep DEF SerialInv
  <1>3. CASE Arrive /\ UNCHANGED dividers
    <2>1. running
      BY <1>3 DEF Arrive, Rx!Receive, Rx!Finish
    <2>2. PICK w : Reading(w)
      BY <2>1 DEF SerialInv, Between, Coming
    <2> QED BY <1>0, <1>3, <2>2, ArriveStep
  <1> QED BY <1>1, <1>2, <1>3 DEF Clock

(***************************************************************************)
(* At most one word is on its way, and a transmitter that is ready has a   *)
(* receiver that is: for every pair of dividers within the tolerance, any  *)
(* number of bits and any depth of the synchronizer that is in time.       *)
(***************************************************************************)
THEOREM InStepCorrect == Spec => []InStep
  <1>1. Init => SerialInv
    BY SerialInitially
  <1>2. SerialInv /\ [Clock]_vars => SerialInv'
    BY SerialStep
  <1>3. SerialInv => InStep
    <2> SUFFICES ASSUME SerialInv PROVE InStep
      OBVIOUS
    <2>1. CASE Between
      BY <2>1 DEF Between, InStep
    <2>2. ASSUME NEW w, Coming(w) \/ Reading(w) PROVE InStep
      <3>1. Len(sent) = 1 /\ ~Tx!io_in_ready
        BY <2>2 DEF Coming, Reading, Sending, Tx!io_in_ready
      <3> QED BY <3>1 DEF InStep
    <2> QED BY <2>1, <2>2 DEF SerialInv
  <1> QED BY <1>1, <1>2, <1>3, PTL DEF Spec

(* A clock edge is a step of the line between them, or none that shows.    *)
LEMMA ClockIsStepOfLine ==
  SerialInv /\ [Clock]_vars => [Promised!Quiet \/ Promised!Arrive]_(Promised!vars)
  <1> SUFFICES ASSUME SerialInv, [Clock]_vars
               PROVE  [Promised!Quiet \/ Promised!Arrive]_(Promised!vars)
    OBVIOUS
  <1>0. RegistersOK
    BY DEF SerialInv
  <1>1. sent \in Seq(Tx!Word)
    <2>1. CASE Between
      BY <2>1 DEF Between
    <2>2. ASSUME NEW w, Coming(w) \/ Reading(w) PROVE sent \in Seq(Tx!Word)
      <3>1. sent = <<w>> /\ w \in Tx!Word
        BY <2>2 DEF Coming, Reading, Sending
      <3> QED BY <3>1
    <2> QED BY <2>1, <2>2 DEF SerialInv
  <1>2. CASE UNCHANGED vars
    BY <1>2 DEF vars, Promised!vars
  <1>3. ASSUME NEW ready \in BOOLEAN, Quiet(ready) PROVE Promised!Quiet
    <2> DEFINE held == IF outValid THEN <<outBits>> ELSE <<>>
    <2>1. outBits' = outBits /\ (outValid' = (outValid /\ ~ready))
      BY <1>3 DEF Quiet, Rx!Run, Rx!Handshake
    <2>2. held' \in {held, <<>>}
      BY <1>0, <2>1 DEF RegistersOK
    <2>3. \E new \in Promised!Nothing \cup Promised!One : sent' = sent \o new
      <3>1. CASE sent' = sent
        <4>1. <<>> \in Promised!Nothing /\ sent' = sent \o <<>>
          BY <1>1, <3>1 DEF Promised!Nothing
        <4> QED BY <4>1
      <3>2. ASSUME NEW w \in Tx!Word, sent' = Append(sent, w)
            PROVE  \E new \in Promised!Nothing \cup Promised!One : sent' = sent \o new
        <4>1. <<w>> \in Promised!One /\ sent' = sent \o <<w>>
          BY <1>1, <3>2 DEF Promised!One
        <4> QED BY <4>1
      <3> QED BY <1>3, <3>1, <3>2 DEF Quiet
    <2> QED BY <2>2, <2>3 DEF Promised!Quiet
  <1>4. ASSUME Arrive, UNCHANGED dividers PROVE Promised!Arrive
    <2>1. running
      BY <1>4 DEF Arrive, Rx!Receive, Rx!Finish
    <2>2. PICK w : Reading(w)
      BY <2>1 DEF SerialInv, Between, Coming
    <2>3. outValid' = TRUE /\ outBits' = w /\ sent' = <<>>
      BY <1>0, <1>4, <2>2, ArriveStep
    <2>4. sent = <<w>>
      BY <2>2 DEF Reading
    <2>5. sent # <<>> /\ Head(sent) = w /\ Tail(sent) = <<>>
      BY <2>4
    <2>6. <<>> \in Promised!Nothing /\ sent' = Tail(sent) \o <<>>
      BY <2>3, <2>5 DEF Promised!Nothing
    <2> QED BY <2>3, <2>5, <2>6 DEF Promised!Arrive
  <1> QED BY <1>2, <1>3, <1>4 DEF Clock

(***************************************************************************)
(* The safety part of DeliversWords: a transmitter and a receiver whose    *)
(* clocks are within the tolerance implement the line of Line.tla, where   *)
(* words arrive whole and in the order they were sent, none is invented,   *)
(* and a word at the end is only taken or replaced by the next.            *)
(***************************************************************************)
THEOREM WordsDelivered == Spec => Promised!Spec
  <1>1. Init => Promised!Init
    BY DEF Init, Rx!RxInit, Promised!Init
  <1>2. Init => SerialInv
    BY SerialInitially
  <1>3. SerialInv /\ [Clock]_vars => SerialInv'
    BY SerialStep
  <1>4. SerialInv /\ [Clock]_vars => [Promised!Quiet \/ Promised!Arrive]_(Promised!vars)
    BY ClockIsStepOfLine
  <1> QED BY <1>1, <1>2, <1>3, <1>4, PTL DEF Spec, Promised!Spec

-----------------------------------------------------------------------------
(* The picture.  The invariant says where the scan is at each count: which *)
(* place is addressed, what the two registers behind the video RAM hold,   *)
(* and how far the display has counted.  Its last part is why the picture  *)
(* is left alone: what the program has left to draw and how long the sync  *)
(* has been over together stay below the time there is.                    *)

StartH == pulseWidthH + backPorchH
EndH   == StartH + pixelsH
StartV == pulseWidthV + backPorchV
EndV   == StartV + pixelsV

PictureLine   == counterV - StartV
LineStart(l)  == (l \div magnificationRateV) * vramPixelsH
PlaceOf(l, c) == LineStart(l) + c \div magnificationRateH

(* Where the scan is. *)
ScanInv ==
    /\ counterH \in 0 .. totalCountsH /\ counterV \in 0 .. totalCountsV
    /\ counterV < StartV => /\ magnificationCounterV = 0 /\ magnificationCounterH = 0
                            /\ lineAddress = 0 /\ pixelAddress = 0
    /\ activeV =>
          /\ magnificationCounterV = PictureLine % magnificationRateV
          /\ lineAddress = LineStart(PictureLine)
          /\ counterH < StartH => magnificationCounterH = 0 /\ pixelAddress = lineAddress
          /\ activeH => /\ magnificationCounterH = (counterH - StartH) % magnificationRateH
                        /\ pixelAddress = PlaceOf(PictureLine, counterH - StartH)
          /\ counterH >= EndH => magnificationCounterH = 0
    /\ counterV >= EndV => magnificationCounterV = 0 /\ magnificationCounterH = 0

(* What the two registers behind the video RAM hold. *)
DataInv ==
    /\ dataEnableReg <=> activeV /\ counterH \in StartH + 1 .. EndH
    /\ activeV =>
          /\ counterH \in StartH + 1 .. EndH =>
                fetched = vram[PlaceOf(PictureLine, counterH - StartH - 1)]
          /\ counterH \in StartH + 2 .. EndH =>
                data = pixelTranslation(vram[PlaceOf(PictureLine, counterH - StartH - 2)])

(* Where the display is. *)
Unseen   == [line |-> -1, column |-> -1]
FrameEnd == [line |-> pixelsV - 1, column |-> pixelsH - 1]
DisplayInv ==
    /\ counterH > 0 => (vSync <=> counterV < pulseWidthV)
    /\ counterH = 0 /\ counterV > 0 => (vSync <=> counterV - 1 < pulseWidthV)
    /\ counterH = 0 /\ counterV = 0 => vSync \/ at = FrameEnd
    /\ counterV < StartV /\ (counterH > 0 \/ counterV > 0) => at = Unseen
    /\ activeV =>
          /\ counterH <= StartH =>
                at = IF PictureLine = 0 THEN Unseen
                     ELSE [line |-> PictureLine - 1, column |-> pixelsH - 1]
          /\ counterH \in StartH + 1 .. EndH =>
                at = [line |-> PictureLine, column |-> counterH - StartH - 1]
          /\ counterH > EndH => at = [line |-> PictureLine, column |-> pixelsH - 1]
    /\ counterV >= EndV => at = FrameEnd

(* How many clocks the processor has left to draw, were the sync over, and *)
(* how long it has been over.                                              *)
Clocks   == IF vSyncReg[1] THEN DrawTime + 2 ELSE IF vSyncReg[2] THEN DrawTime + 1 ELSE drawing
TimeLeft == Clocks * CpuPeriod
Bound    == (DrawTime + 2) * CpuPeriod
Since    == (counterV - pulseWidthV) * (totalCountsH + 1) + counterH
DrawInv ==
    /\ sinceCpu \in 1 .. CpuPeriod /\ drawing \in 0 .. DrawTime
    /\ vSync \in BOOLEAN /\ vSyncReg[1] \in BOOLEAN /\ vSyncReg[2] \in BOOLEAN
    /\ counterV >= pulseWidthV =>
          Clocks = 0 \/ Since + TimeLeft - sinceCpu <= Bound

VideoInv == ScanInv /\ DataInv /\ DisplayInv /\ DrawInv

-----------------------------------------------------------------------------
(* Numbers. *)

(* Quotient and remainder of the next number. *)
LEMMA NextQuotient ==
  ASSUME NEW m \in Nat \ {0}, NEW c \in Nat
  PROVE  /\ c \div m \in Nat /\ c % m \in 0 .. m - 1
         /\ c % m = m - 1 => (c + 1) % m = 0 /\ (c + 1) \div m = c \div m + 1
         /\ c % m # m - 1 => (c + 1) % m = (c % m) + 1 /\ (c + 1) \div m = c \div m
  OBVIOUS

(* A quotient of a number below a multiple. *)
LEMMA QuotientBelow ==
  ASSUME NEW m \in Nat \ {0}, NEW n \in Nat, n % m = 0, NEW c \in 0 .. n - 1
  PROVE  c \div m + 1 <= n \div m /\ 0 % m = 0 /\ 0 \div m = 0
  OBVIOUS

LEMMA ProductBelow ==
  ASSUME NEW x \in Nat, NEW y \in Nat, NEW z \in Nat, x + 1 <= y
  PROVE  x * z + z <= y * z /\ x * z \in Nat /\ y * z \in Nat
  OBVIOUS

(* The parts of lines and frames, in their order. *)
LEMMA Geometry ==
  /\ StartH \in Nat /\ EndH \in Nat /\ totalCountsH \in Nat
  /\ StartH > 1 /\ EndH = StartH + pixelsH /\ EndH < totalCountsH /\ pixelsH \in Nat \ {0}
  /\ StartV \in Nat /\ EndV \in Nat /\ totalCountsV \in Nat
  /\ pulseWidthV \in Nat \ {0} /\ pulseWidthV < StartV /\ StartV = pulseWidthV + backPorchV
  /\ backPorchV \in Nat \ {0}
  /\ EndV = StartV + pixelsV /\ EndV < totalCountsV /\ pixelsV \in Nat \ {0}
  /\ magnificationRateH \in Nat \ {0} /\ magnificationRateV \in Nat \ {0}
  BY VideoAssumption DEF StartH, EndH, totalCountsH, StartV, EndV, totalCountsV

LEMMA Active ==
  /\ activeH <=> StartH <= counterH /\ counterH < EndH
  /\ activeV <=> StartV <= counterV /\ counterV < EndV
  BY DEF activeH, activeV, StartH, EndH, StartV, EndV

(* The picture in the video RAM: its lines are as long as they are, and    *)
(* each place of it is there.                                              *)
LEMMA Picture ==
  /\ vramPixelsH \in Nat \ {0} /\ vramPixelsV \in Nat \ {0} /\ vramAddressMax \in Nat \ {0}
  /\ \A l \in 0 .. pixelsV - 1 :
        /\ LineStart(l) \in Nat /\ LineStart(l) + vramPixelsH <= vramAddressMax
        /\ \A c \in 0 .. pixelsH - 1 :
              PlaceOf(l, c) \in Place /\ c \div magnificationRateH + 1 <= vramPixelsH
  <1>1. /\ pixelsH \in Nat \ {0} /\ pixelsH % magnificationRateH = 0 /\ magnificationRateH \in Nat \ {0}
        /\ pixelsV \in Nat \ {0} /\ pixelsV % magnificationRateV = 0 /\ magnificationRateV \in Nat \ {0}
    BY VideoAssumption
  <1>2. vramPixelsH \in Nat /\ vramPixelsV \in Nat
    BY <1>1 DEF vramPixelsH, vramPixelsV
  <1>3. \A c \in 0 .. pixelsH - 1 : /\ c \div magnificationRateH \in Nat
                                    /\ c \div magnificationRateH + 1 <= vramPixelsH
    <2> TAKE c \in 0 .. pixelsH - 1
    <2>1. c \in Nat
      BY <1>1
    <2>2. c \div magnificationRateH \in Nat
      BY <1>1, <2>1, NextQuotient
    <2>3. c \div magnificationRateH + 1 <= pixelsH \div magnificationRateH
      BY <1>1, QuotientBelow
    <2> QED BY <2>2, <2>3 DEF vramPixelsH
  <1>4. \A l \in 0 .. pixelsV - 1 : /\ l \div magnificationRateV \in Nat
                                    /\ l \div magnificationRateV + 1 <= vramPixelsV
    <2> TAKE l \in 0 .. pixelsV - 1
    <2>1. l \in Nat
      BY <1>1
    <2>2. l \div magnificationRateV \in Nat
      BY <1>1, <2>1, NextQuotient
    <2>3. l \div magnificationRateV + 1 <= pixelsV \div magnificationRateV
      BY <1>1, QuotientBelow
    <2> QED BY <2>2, <2>3 DEF vramPixelsV
  <1>5. vramPixelsH # 0 /\ vramPixelsV # 0
    <2>1. 0 \in 0 .. pixelsH - 1 /\ 0 \in 0 .. pixelsV - 1
      BY <1>1
    <2> QED BY <1>2, <1>3, <1>4, <2>1
  <1>6. vramAddressMax = vramPixelsV * vramPixelsH
    BY <1>2 DEF vramAddressMax
  <1>7. ASSUME NEW l \in 0 .. pixelsV - 1
        PROVE  LineStart(l) \in Nat /\ LineStart(l) + vramPixelsH <= vramAddressMax /\ vramAddressMax \in Nat
    BY <1>2, <1>4, <1>6, ProductBelow DEF LineStart
  <1>8. vramAddressMax \in Nat \ {0}
    <2>1. 0 \in 0 .. pixelsV - 1
      BY <1>1
    <2>2. LineStart(0) \in Nat /\ LineStart(0) + vramPixelsH <= vramAddressMax /\ vramAddressMax \in Nat
      BY <1>7, <2>1
    <2> QED BY <1>2, <1>5, <2>2
  <1>9. ASSUME NEW l \in 0 .. pixelsV - 1, NEW c \in 0 .. pixelsH - 1
        PROVE  PlaceOf(l, c) \in Place /\ c \div magnificationRateH + 1 <= vramPixelsH
    <2> DEFINE q == c \div magnificationRateH
    <2>1. q \in Nat /\ q + 1 <= vramPixelsH
      BY <1>3
    <2>2. LineStart(l) \in Nat /\ LineStart(l) + vramPixelsH <= vramAddressMax
      BY <1>7
    <2> HIDE DEF q
    <2>3. LineStart(l) + q \in 0 .. vramAddressMax - 1
      BY <1>2, <1>8, <2>1, <2>2
    <2> QED BY <2>1, <2>3 DEF PlaceOf, Place, q
  <1> QED BY <1>2, <1>5, <1>7, <1>8, <1>9

(* An address of the video RAM is as many bits. *)
LEMMA AddressKept == \A n \in Place : Address(n) = n
  <1> DEFINE k == CHOOSE k \in vramAddressMax .. 2 * vramAddressMax - 1 : \E e \in 0 .. k : k = 2 ^ e
  <1>1. k \in vramAddressMax .. 2 * vramAddressMax - 1
    BY AddressAssumption
  <1>2. \A n : Address(n) = n % k
    BY DEF Address
  <1> HIDE DEF k
  <1>3. vramAddressMax \in Nat
    BY Picture
  <1> QED BY <1>1, <1>2, <1>3 DEF Place

-----------------------------------------------------------------------------
(* The scan. *)

(* Where the counters go. *)
LEMMA CountersMove ==
  ASSUME ScanInv, Raster
  PROVE  /\ counterH \in Nat /\ counterV \in Nat /\ counterH' \in Nat /\ counterV' \in Nat
         /\ counterH' \in 0 .. totalCountsH /\ counterV' \in 0 .. totalCountsV
         /\ endOfLine <=> counterH = totalCountsH
         /\ ~endOfLine => counterH' = counterH + 1 /\ counterV' = counterV /\ ~endOfFrame
         /\ endOfLine => counterH' = 0
         /\ endOfFrame => endOfLine /\ counterV = totalCountsV /\ counterV' = 0
         /\ endOfLine /\ ~endOfFrame => counterV' = counterV + 1
  BY Geometry DEF ScanInv, Raster, endOfLine, endOfFrame

(* From a column of the picture to the next. *)
LEMMA NextColumn ==
  ASSUME NEW l \in 0 .. pixelsV - 1, NEW c \in 0 .. pixelsH - 1
  PROVE  LET m == magnificationRateH
         IN  /\ c + 1 = pixelsH => Turned(c % m, m) = 0
             /\ c + 1 < pixelsH =>
                   /\ Turned(c % m, m) = (c + 1) % m
                   /\ PlaceOf(l, c + 1) =
                         IF c % m = m - 1 THEN Address(PlaceOf(l, c) + 1) ELSE PlaceOf(l, c)
  <1> DEFINE m == magnificationRateH
  <1>1. m \in Nat \ {0} /\ c \in Nat /\ pixelsH % m = 0
    BY VideoAssumption, Geometry
  <1>2. /\ c \div m \in Nat /\ c % m \in 0 .. m - 1
        /\ c % m = m - 1 => (c + 1) % m = 0 /\ (c + 1) \div m = c \div m + 1
        /\ c % m # m - 1 => (c + 1) % m = (c % m) + 1 /\ (c + 1) \div m = c \div m
    BY <1>1, NextQuotient
  <1>3. Turned(c % m, m) = (c + 1) % m
    BY <1>1, <1>2 DEF Turned
  <1>4. LineStart(l) \in Nat
    BY Picture
  <1>5. c + 1 < pixelsH => PlaceOf(l, c + 1) \in Place
    BY <1>1, Picture, Geometry
  <1>6. PlaceOf(l, c + 1) = PlaceOf(l, c) + (IF c % m = m - 1 THEN 1 ELSE 0)
    BY <1>1, <1>2, <1>4 DEF PlaceOf
  <1>7. PlaceOf(l, c) \in Nat
    BY <1>2, <1>4 DEF PlaceOf
  <1>8. c + 1 < pixelsH /\ c % m = m - 1 => Address(PlaceOf(l, c) + 1) = PlaceOf(l, c + 1)
    BY <1>5, <1>6, AddressKept
  <1>9. c + 1 < pixelsH /\ c % m # m - 1 => PlaceOf(l, c + 1) = PlaceOf(l, c)
    BY <1>6, <1>7
  <1> QED BY <1>1, <1>3, <1>8, <1>9

(* From a line of the picture to the next. *)
LEMMA NextRow ==
  ASSUME NEW l \in 0 .. pixelsV - 1
  PROVE  LET m == magnificationRateV
         IN  /\ l + 1 = pixelsV => Turned(l % m, m) = 0
             /\ l + 1 < pixelsV =>
                   /\ Turned(l % m, m) = (l + 1) % m
                   /\ LineStart(l + 1) =
                         IF l % m < m - 1 THEN LineStart(l) ELSE Address(LineStart(l) + vramPixelsH)
  <1> DEFINE m == magnificationRateV
  <1>1. m \in Nat \ {0} /\ l \in Nat /\ pixelsV % m = 0
    BY VideoAssumption, Geometry
  <1>2. /\ l \div m \in Nat /\ l % m \in 0 .. m - 1
        /\ l % m = m - 1 => (l + 1) % m = 0 /\ (l + 1) \div m = l \div m + 1
        /\ l % m # m - 1 => (l + 1) % m = (l % m) + 1 /\ (l + 1) \div m = l \div m
    BY <1>1, NextQuotient
  <1>3. Turned(l % m, m) = (l + 1) % m
    BY <1>1, <1>2 DEF Turned
  <1>4. vramPixelsH \in Nat \ {0} /\ LineStart(l) \in Nat /\ vramAddressMax \in Nat
    BY Picture
  <1>5. l % m = m - 1 => LineStart(l + 1) = LineStart(l) + vramPixelsH
    <2>1. \A x, y \in Nat : (x + 1) * y = x * y + y
      OBVIOUS
    <2> QED BY <1>2, <1>4, <2>1 DEF LineStart
  <1>6. l % m # m - 1 => LineStart(l + 1) = LineStart(l)
    BY <1>2 DEF LineStart
  <1>7. l + 1 < pixelsV => LineStart(l + 1) \in Place
    <2> SUFFICES ASSUME l + 1 < pixelsV PROVE LineStart(l + 1) \in Place
      OBVIOUS
    <2>1. l + 1 \in 0 .. pixelsV - 1
      BY <1>1, Geometry
    <2>2. LineStart(l + 1) \in Nat /\ LineStart(l + 1) + vramPixelsH <= vramAddressMax
      BY <2>1, Picture
    <2> QED BY <1>4, <2>2 DEF Place
  <1>8. l + 1 < pixelsV /\ l % m = m - 1 =>
           LineStart(l + 1) = Address(LineStart(l) + vramPixelsH)
    BY <1>5, <1>7, AddressKept
  <1> QED BY <1>1, <1>2, <1>3, <1>6, <1>8

(* Lines and columns start at the start. *)
LEMMA FirstPlace ==
  /\ 0 % magnificationRateH = 0 /\ 0 % magnificationRateV = 0 /\ LineStart(0) = 0
  /\ \A l \in 0 .. pixelsV - 1 : PlaceOf(l, 0) = LineStart(l)
  <1>1. magnificationRateH \in Nat \ {0} /\ magnificationRateV \in Nat \ {0}
    BY Geometry
  <1>2. /\ 0 % magnificationRateH = 0 /\ 0 \div magnificationRateH = 0
        /\ 0 % magnificationRateV = 0 /\ 0 \div magnificationRateV = 0
    BY <1>1
  <1>3. vramPixelsH \in Nat /\ \A l \in 0 .. pixelsV - 1 : LineStart(l) \in Nat
    BY Picture
  <1> QED BY <1>2, <1>3 DEF LineStart, PlaceOf

(* A clock of the scan. *)
LEMMA RasterStep ==
  ASSUME ScanInv, Raster, Addresses
  PROVE  ScanInv'
  <1> DEFINE l == PictureLine
             c == counterH - StartH
  <1>1. CASE ~endOfLine /\ ~activeV
    <2>1. ~activeV' /\ counterV' = counterV
      BY <1>1, CountersMove DEF activeV
    <2>2. ~dataEnable /\ ~endOfFrame
      BY <1>1 DEF dataEnable, endOfFrame
    <2>3. UNCHANGED <<magnificationCounterH, magnificationCounterV, lineAddress, pixelAddress>>
      BY <1>1, <2>2 DEF Addresses
    <2> QED BY <2>1, <2>3, CountersMove DEF ScanInv
  <1>2. CASE ~endOfLine /\ activeV
    <2>1. /\ activeV' /\ counterV' = counterV /\ counterH' = counterH + 1 /\ ~endOfFrame
          /\ l' = l /\ l \in 0 .. pixelsV - 1
      BY <1>2, CountersMove, Active, Geometry DEF activeV, PictureLine
    <2>2. magnificationCounterV' = magnificationCounterV /\ lineAddress' = lineAddress
      BY <1>2, <2>1 DEF Addresses
    <2>3. StartV <= counterV' /\ counterV' < EndV
      BY <1>2, <2>1, Active
    <2> SUFFICES /\ counterH' < StartH => magnificationCounterH' = 0 /\ pixelAddress' = lineAddress'
                 /\ activeH' => /\ magnificationCounterH' = (counterH' - StartH) % magnificationRateH
                                /\ pixelAddress' = PlaceOf(l, counterH' - StartH)
                 /\ counterH' >= EndH => magnificationCounterH' = 0
      BY <1>2, <2>1, <2>2, <2>3, CountersMove, Geometry DEF ScanInv
    <2>4. CASE counterH < StartH
      <3>1. magnificationCounterH' = 0 /\ pixelAddress' = lineAddress /\ pixelAddress' = LineStart(l)
        BY <1>2, <2>1, <2>4, Active, CountersMove, Geometry DEF ScanInv, Addresses, dataEnable
      <3>2. counterH' < EndH /\ (activeH' => counterH' - StartH = 0)
        BY <2>1, <2>4, CountersMove, Geometry DEF activeH, StartH
      <3> QED BY <2>1, <2>2, <3>1, <3>2, FirstPlace, Geometry, CountersMove
    <2>5. CASE activeH
      <3>1. c \in 0 .. pixelsH - 1 /\ dataEnable
        BY <1>2, <2>5, CountersMove, Active, Geometry DEF dataEnable
      <3>2. magnificationCounterH = c % magnificationRateH /\ pixelAddress = PlaceOf(l, c)
        BY <1>2, <2>5 DEF ScanInv
      <3>3. /\ magnificationCounterH' = Turned(c % magnificationRateH, magnificationRateH)
            /\ pixelAddress' = IF c % magnificationRateH = magnificationRateH - 1
                               THEN Address(PlaceOf(l, c) + 1) ELSE PlaceOf(l, c)
        BY <1>2, <2>1, <3>1, <3>2 DEF Addresses
      <3>4. /\ counterH' - StartH = c + 1 /\ counterH' >= StartH
            /\ activeH' => c + 1 < pixelsH
            /\ counterH' >= EndH => c + 1 = pixelsH
        BY <2>1, <2>5, CountersMove, Geometry DEF activeH, StartH, EndH
      <3> HIDE DEF c, l
      <3> QED BY <2>1, <3>1, <3>3, <3>4, NextColumn, CountersMove, Geometry
    <2>6. CASE counterH >= EndH
      <3>1. ~activeH /\ ~activeH' /\ counterH' >= EndH /\ counterH' >= StartH
        BY <2>1, <2>6, CountersMove, Geometry DEF activeH, StartH, EndH
      <3> QED BY <1>2, <2>1, <2>6, <3>1, CountersMove, Geometry DEF ScanInv, Addresses, dataEnable
    <2> QED BY <2>4, <2>5, <2>6, CountersMove, Active, Geometry
  <1>3. CASE endOfFrame
    <2>1. counterV >= EndV /\ ~activeV /\ ~dataEnable /\ counterV' = 0 /\ counterH' = 0
      BY <1>3, CountersMove, Geometry, Active DEF dataEnable
    <2>2. counterV' < StartV /\ ~(counterV' >= EndV) /\ ~activeV'
      BY <2>1, Geometry DEF activeV, StartV
    <2>3. /\ magnificationCounterV' = 0 /\ magnificationCounterH' = 0
          /\ lineAddress' = 0 /\ pixelAddress' = 0
      BY <1>3, <2>1 DEF Addresses, ScanInv
    <2> QED BY <2>2, <2>3, CountersMove DEF ScanInv
  <1>4. CASE endOfLine /\ ~endOfFrame
    <2>1. /\ counterH = totalCountsH /\ counterH >= EndH /\ ~activeH /\ ~dataEnable
          /\ counterH' = 0 /\ counterV' = counterV + 1 /\ counterH' < StartH /\ ~activeH'
          /\ counterV \in Nat
      BY <1>4, CountersMove, Geometry, Active DEF dataEnable, activeH, StartH
    <2>2. CASE counterV < StartV
      <3>1. ~activeV /\ counterV' <= StartV /\ counterV' < EndV
        BY <2>1, <2>2, Active, Geometry
      <3>2. /\ magnificationCounterV' = 0 /\ magnificationCounterH' = 0
            /\ lineAddress' = 0 /\ pixelAddress' = 0
        BY <1>4, <2>1, <2>2, <3>1 DEF Addresses, ScanInv
      <3>3. activeV' => PictureLine' = 0
        BY <2>1, <3>1, Geometry DEF activeV, StartV, PictureLine
      <3> QED BY <2>1, <3>1, <3>2, <3>3, CountersMove, FirstPlace, Geometry DEF ScanInv
    <2>3. CASE activeV
      <3>1. /\ l \in 0 .. pixelsV - 1 /\ magnificationCounterV = l % magnificationRateV
            /\ lineAddress = LineStart(l) /\ magnificationCounterH = 0
        BY <2>1, <2>3, Active, Geometry DEF ScanInv, PictureLine
      <3>2. /\ magnificationCounterV' = Turned(l % magnificationRateV, magnificationRateV)
            /\ lineAddress' = IF l % magnificationRateV < magnificationRateV - 1
                              THEN LineStart(l) ELSE Address(LineStart(l) + vramPixelsH)
            /\ pixelAddress' = lineAddress' /\ magnificationCounterH' = 0
        BY <1>4, <2>1, <2>3, <3>1 DEF Addresses, NextLine
      <3>3. /\ counterV' >= StartV /\ l' = l + 1
            /\ activeV' => l + 1 < pixelsV
            /\ counterV' >= EndV => l + 1 = pixelsV
        BY <2>1, <2>3, Active, Geometry DEF PictureLine, activeV, StartV, EndV
      <3>4. /\ l + 1 = pixelsV => Turned(l % magnificationRateV, magnificationRateV) = 0
            /\ l + 1 < pixelsV =>
                  /\ Turned(l % magnificationRateV, magnificationRateV) = (l + 1) % magnificationRateV
                  /\ LineStart(l + 1) = IF l % magnificationRateV < magnificationRateV - 1
                        THEN LineStart(l) ELSE Address(LineStart(l) + vramPixelsH)
        BY <3>1, NextRow
      <3>5. activeV' => /\ magnificationCounterV' = (l + 1) % magnificationRateV
                        /\ lineAddress' = LineStart(l + 1)
        BY <3>2, <3>3, <3>4
      <3>6. counterV' >= EndV => magnificationCounterV' = 0
        BY <3>2, <3>3, <3>4
      <3>7. activeV' => /\ magnificationCounterV' = PictureLine' % magnificationRateV
                        /\ lineAddress' = LineStart(PictureLine')
        BY <3>3, <3>5
      <3> HIDE DEF l
      <3> QED BY <2>1, <3>2, <3>3, <3>6, <3>7, CountersMove, Geometry DEF ScanInv
    <2>4. CASE counterV >= EndV
      <3>1. ~activeV /\ ~activeV' /\ counterV' >= EndV /\ counterV' >= StartV
        BY <2>1, <2>4, Active, Geometry DEF activeV, StartV, EndV
      <3> QED BY <1>4, <2>1, <2>4, <3>1, CountersMove, Geometry DEF Addresses, ScanInv
    <2> QED BY <2>1, <2>2, <2>3, <2>4, Active, Geometry
  <1> QED BY <1>1, <1>2, <1>3, <1>4

-----------------------------------------------------------------------------
(* The program is done before the picture starts. *)
LEMMA Period ==
  /\ CpuPeriod \in Nat \ {0} /\ \A q \in CpuPeriods : q <= CpuPeriod
  /\ DrawTime \in Nat
  BY VideoAssumption DEF CpuPeriod

LEMMA DrawTyped ==
  ASSUME ScanInv, DrawInv
  PROVE  /\ Clocks \in 0 .. DrawTime + 2 /\ sinceCpu \in Nat
         /\ Clocks = 0 <=> ~vSyncReg[1] /\ ~vSyncReg[2] /\ drawing = 0
         /\ TimeLeft \in Nat /\ Bound \in Nat
         /\ counterV >= pulseWidthV => Since \in Nat
  <1>1. /\ Clocks \in 0 .. DrawTime + 2 /\ sinceCpu \in Nat
        /\ Clocks = 0 <=> ~vSyncReg[1] /\ ~vSyncReg[2] /\ drawing = 0
    BY Period DEF DrawInv, Clocks
  <1>2. \A x, y \in Nat : x * y \in Nat
    OBVIOUS
  <1>3. TimeLeft \in Nat /\ Bound \in Nat
    BY <1>1, <1>2, Period DEF TimeLeft, Bound
  <1>4. counterV >= pulseWidthV => (counterV - pulseWidthV) * (totalCountsH + 1) \in Nat
    BY <1>2, Geometry DEF ScanInv
  <1>5. counterV >= pulseWidthV => Since \in Nat
    BY <1>4, Geometry DEF ScanInv, Since
  <1> QED BY <1>1, <1>3, <1>5

(* A clock later. *)
LEMMA SinceMoves ==
  ASSUME ScanInv, Raster, counterV' >= pulseWidthV
  PROVE  \/ Since' = Since + 1 /\ counterV >= pulseWidthV
         \/ Since' = 0 /\ counterV < pulseWidthV
  <1>1. CASE ~endOfLine
    BY <1>1, CountersMove, Geometry DEF Since
  <1>2. CASE endOfLine /\ ~endOfFrame /\ counterV >= pulseWidthV
    <2>1. \A x, y \in Nat : (x + 1) * (y + 1) + 0 = (x * (y + 1) + y) + 1
      OBVIOUS
    <2>2. /\ counterV - pulseWidthV \in Nat /\ totalCountsH \in Nat /\ counterH = totalCountsH
          /\ counterV' - pulseWidthV = (counterV - pulseWidthV) + 1 /\ counterH' = 0
      BY <1>2, CountersMove, Geometry
    <2>3. ((counterV - pulseWidthV) + 1) * (totalCountsH + 1) + 0
             = ((counterV - pulseWidthV) * (totalCountsH + 1) + totalCountsH) + 1
      BY <2>1, <2>2
    <2>4. Since' = ((counterV - pulseWidthV) + 1) * (totalCountsH + 1) + 0
      BY <2>2 DEF Since
    <2>5. Since = (counterV - pulseWidthV) * (totalCountsH + 1) + totalCountsH
      BY <2>2 DEF Since
    <2> QED BY <1>2, <2>3, <2>4, <2>5
  <1>3. CASE endOfLine /\ ~endOfFrame /\ counterV < pulseWidthV
    <2>1. counterV' - pulseWidthV = 0 /\ counterH' = 0 /\ totalCountsH \in Nat
      BY <1>3, CountersMove, Geometry
    <2> QED BY <1>3, <2>1 DEF Since
  <1>4. CASE endOfFrame
    BY <1>4, CountersMove, Geometry
  <1> QED BY <1>1, <1>2, <1>3, <1>4, CountersMove, Geometry

(* A clock of the processor, once the sync is over, brings the program     *)
(* nearer to the end of its drawing.                                       *)
LEMMA ClocksFall ==
  ASSUME ScanInv, DrawInv, Processor, ~vSync
  PROVE  Clocks' = 0 \/ Clocks' < Clocks
  <1>0. /\ vSyncReg[1] \in BOOLEAN /\ vSyncReg[2] \in BOOLEAN /\ drawing \in 0 .. DrawTime
        /\ DrawTime \in Nat
    BY Period DEF DrawInv
  <1>1. ~vSyncReg'[1] /\ (vSyncReg'[2] <=> vSyncReg[1])
    BY DEF Processor, DrawInv
  <1>2. drawing' \in 0 .. DrawTime
    BY Period DEF Processor, DrawInv
  <1>3. CASE vSyncReg[1]
    <2>1. Clocks = DrawTime + 2 /\ Clocks' = DrawTime + 1
      BY <1>0, <1>1, <1>3 DEF Clocks
    <2> QED BY <2>1, <1>0
  <1>4. CASE ~vSyncReg[1] /\ vSyncReg[2]
    <2>1. Clocks = DrawTime + 1 /\ Clocks' = drawing'
      BY <1>0, <1>1, <1>4 DEF Clocks
    <2> QED BY <2>1, <1>0, <1>2
  <1>5. CASE ~vSyncReg[1] /\ ~vSyncReg[2]
    <2>1. Clocks = drawing /\ Clocks' = drawing' /\ drawing \in Nat
      BY <1>0, <1>1, <1>5 DEF Clocks
    <2>2. (drawing > 0 /\ drawing' = drawing - 1) \/ drawing' = 0
      BY <1>5 DEF Processor
    <2> QED BY <2>1, <2>2
  <1> QED BY <1>0, <1>3, <1>4, <1>5

LEMMA DrawStep ==
  ASSUME ScanInv, DisplayInv, DrawInv, Raster, ScanInv',
         vSync' = (counterV < pulseWidthV), Processor \/ BetweenClocks
  PROVE  DrawInv'
  <1>1. sinceCpu' \in 1 .. CpuPeriod
    BY Period DEF DrawInv, Processor, BetweenClocks
  <1>2. drawing' \in 0 .. DrawTime
    BY Period DEF DrawInv, Processor, BetweenClocks
  <1>3. vSync' \in BOOLEAN /\ vSyncReg'[1] \in BOOLEAN /\ vSyncReg'[2] \in BOOLEAN
    BY DEF DrawInv, Processor, BetweenClocks
  <1>4. /\ Clocks \in Nat /\ sinceCpu \in 1 .. CpuPeriod /\ Bound \in Nat
        /\ TimeLeft \in Nat
        /\ counterV >= pulseWidthV => Since \in Nat
    BY DrawTyped, Period DEF DrawInv
  <1>5. /\ Clocks' \in 0 .. DrawTime + 2
        /\ TimeLeft' \in Nat /\ TimeLeft' <= Bound
    <2>1. Clocks' \in 0 .. DrawTime + 2
      BY <1>2, <1>3, Period DEF Clocks
    <2>2. \A x, y, z \in Nat : x <= y => x * z \in Nat /\ x * z <= y * z
      OBVIOUS
    <2>3. /\ Clocks' \in Nat /\ DrawTime + 2 \in Nat /\ Clocks' <= DrawTime + 2
          /\ CpuPeriod \in Nat
      BY <2>1, Period
    <2> HIDE DEF Clocks
    <2> QED BY <2>1, <2>2, <2>3 DEF TimeLeft, Bound
  <1> SUFFICES ASSUME counterV' >= pulseWidthV, Clocks' # 0
               PROVE  Since' + TimeLeft' - sinceCpu' <= Bound
    BY <1>1, <1>2, <1>3 DEF DrawInv
  <1>6. CASE counterV < pulseWidthV
    <2>1. Since' = 0
      BY <1>6, SinceMoves, CountersMove, Geometry
    <2>2. \A a, b, q \in Int : a <= b /\ q >= 1 => 0 + a - q <= b
      OBVIOUS
    <2>3. TimeLeft' \in Int /\ Bound \in Int /\ sinceCpu' \in Int /\ sinceCpu' >= 1
      BY <1>1, <1>4, <1>5, Period
    <2> QED BY <2>1, <2>2, <2>3, <1>5
  <1>7. CASE counterV >= pulseWidthV /\ BetweenClocks
    <2>1. Since' = Since + 1 /\ sinceCpu' = sinceCpu + 1
      BY <1>7, SinceMoves, CountersMove, Geometry DEF BetweenClocks
    <2>2. Clocks' = Clocks /\ TimeLeft' = TimeLeft
      BY <1>7 DEF Clocks, TimeLeft, BetweenClocks
    <2>3. Since + TimeLeft - sinceCpu <= Bound
      BY <1>7, <2>2 DEF DrawInv
    <2> QED BY <2>1, <2>2, <2>3, <1>4, <1>5, <1>7
  <1>8. CASE counterV >= pulseWidthV /\ Processor /\ vSync
    <2>1. Since = 0
      <3>1. counterH = 0 /\ counterV = pulseWidthV
        BY <1>8, CountersMove, Geometry DEF DisplayInv
      <3>2. counterV - pulseWidthV = 0 /\ totalCountsH \in Nat
        BY <3>1, Geometry
      <3> QED BY <3>1, <3>2 DEF Since
    <2>2. Since' = 1 /\ sinceCpu' = 1
      BY <1>8, <2>1, SinceMoves, CountersMove, Geometry DEF Processor
    <2>3. \A a, b, n, q \in Int : a <= b /\ n = 1 /\ q = 1 => n + a - q <= b
      OBVIOUS
    <2>4. TimeLeft' \in Int /\ Bound \in Int /\ Since' \in Int /\ sinceCpu' \in Int
      BY <2>2, <1>4, <1>5
    <2> QED BY <2>2, <2>3, <2>4, <1>5
  <1>9. CASE counterV >= pulseWidthV /\ Processor /\ ~vSync
    <2>1. Since' = Since + 1 /\ sinceCpu' = 1
      BY <1>9, SinceMoves, CountersMove, Geometry DEF Processor
    <2>2. PICK n \in Nat : Clocks' = n
      BY <1>5
    <2>3. n < Clocks
      BY <1>9, <2>2, ClocksFall
    <2>4. Since + TimeLeft - sinceCpu <= Bound
      BY <1>4, <1>9, <2>3 DEF DrawInv
    <2>5. n * CpuPeriod + CpuPeriod <= TimeLeft /\ n * CpuPeriod \in Nat
      BY <2>3, <1>4, Period, ProductBelow DEF TimeLeft
    <2>6. TimeLeft' = n * CpuPeriod
      BY <2>2 DEF TimeLeft
    <2> DEFINE left == n * CpuPeriod
    <2> HIDE DEF left
    <2>7. (Since + 1) + left - 1 <= Bound
      BY <2>4, <2>5, <1>4, <1>9, Period DEF left
    <2> QED BY <2>1, <2>6, <2>7 DEF left
  <1> QED BY <1>6, <1>7, <1>8, <1>9, CountersMove, Geometry

(* The sync is long over, and the picture left alone, in all of its lines. *)
LEMMA LeftAlone ==
  ASSUME ScanInv, DrawInv, activeV, Processor \/ BetweenClocks
  PROVE  vram' = vram
  <1>1. counterV >= pulseWidthV /\ backPorchV <= counterV - pulseWidthV /\ counterV - pulseWidthV \in Nat
    BY Active, Geometry DEF ScanInv
  <1>2. backPorchV * (totalCountsH + 1) <= Since
    <2>1. \A x, y, z \in Nat : x <= y => x * z <= y * z /\ x * z \in Nat /\ y * z \in Nat
      OBVIOUS
    <2>2. /\ backPorchV * (totalCountsH + 1) <= (counterV - pulseWidthV) * (totalCountsH + 1)
          /\ backPorchV * (totalCountsH + 1) \in Nat
          /\ (counterV - pulseWidthV) * (totalCountsH + 1) \in Nat
      BY <1>1, <2>1, Geometry
    <2> QED BY <2>2, Geometry DEF Since, ScanInv
  <1>3. Bound + CpuPeriod < backPorchV * (totalCountsH + 1)
    <2>1. \A x, y \in Nat : (x + 3) * y = (x + 2) * y + y
      OBVIOUS
    <2> QED BY <2>1, VideoAssumption, Period DEF Bound
  <1>4. Clocks = 0
    <2> SUFFICES ASSUME Clocks # 0 PROVE FALSE
      OBVIOUS
    <2>1. Since + TimeLeft - sinceCpu <= Bound
      BY <1>1 DEF DrawInv
    <2>2. Clocks \in Nat /\ TimeLeft \in Nat /\ Since \in Nat
      BY <1>1, DrawTyped, Period
    <2>3. sinceCpu \in 1 .. CpuPeriod /\ Bound \in Nat
      BY DrawTyped DEF DrawInv
    <2>4. CpuPeriod <= TimeLeft
      <3>1. \A x, y \in Nat : x # 0 => y <= x * y
        OBVIOUS
      <3> QED BY <2>2, <3>1, Period DEF TimeLeft
    <2>5. backPorchV * (totalCountsH + 1) \in Nat
      <3>1. \A x, y \in Nat : x * y \in Nat
        OBVIOUS
      <3> QED BY <3>1, Geometry
    <2> QED BY <1>2, <1>3, <2>1, <2>2, <2>3, <2>4, <2>5, Period
  <1>5. drawing = 0
    BY <1>4, DrawTyped
  <1> QED BY <1>5 DEF Processor, BetweenClocks

-----------------------------------------------------------------------------
(* The registers behind the video RAM. *)
LEMMA DataStep ==
  ASSUME ScanInv, DataInv, DrawInv, Raster, Output, Processor \/ BetweenClocks
  PROVE  DataInv'
  <1>1. dataEnable <=> activeV /\ StartH <= counterH /\ counterH < EndH
    BY Active DEF dataEnable
  <1>2. CASE endOfLine
    <2>1. ~dataEnable /\ counterH' = 0 /\ ~(counterH' \in StartH + 1 .. EndH)
          /\ ~(counterH' \in StartH + 2 .. EndH)
      BY <1>1, <1>2, CountersMove, Geometry
    <2> QED BY <2>1 DEF DataInv, Output
  <1>3. CASE ~endOfLine
    <2>1. /\ counterV' = counterV /\ counterH' = counterH + 1 /\ (activeV' <=> activeV)
          /\ PictureLine' = PictureLine
      BY <1>3, CountersMove DEF activeV, PictureLine
    <2>2. /\ counterH' \in StartH + 1 .. EndH <=> StartH <= counterH /\ counterH < EndH
          /\ counterH' \in StartH + 2 .. EndH <=> counterH \in StartH + 1 .. EndH /\ counterH < EndH
      BY <2>1, CountersMove, Geometry
    <2>3. dataEnableReg' <=> activeV' /\ counterH' \in StartH + 1 .. EndH
      BY <1>1, <2>1, <2>2 DEF Output
    <2> SUFFICES ASSUME activeV
                 PROVE  /\ counterH' \in StartH + 1 .. EndH =>
                              fetched' = vram'[PlaceOf(PictureLine, counterH' - StartH - 1)]
                        /\ counterH' \in StartH + 2 .. EndH =>
                              data' = pixelTranslation(vram'[PlaceOf(PictureLine, counterH' - StartH - 2)])
      BY <2>1, <2>3 DEF DataInv
    <2>4. vram' = vram
      BY LeftAlone
    <2>5. counterH' - StartH - 1 = counterH - StartH /\ counterH' - StartH - 2 = counterH - StartH - 1
      BY <2>1, CountersMove, Geometry
    <2>6. ASSUME counterH' \in StartH + 1 .. EndH
          PROVE  fetched' = vram[PlaceOf(PictureLine, counterH - StartH)]
      BY <1>1, <2>2, <2>6, Active DEF Output, ScanInv
    <2>7. ASSUME counterH' \in StartH + 2 .. EndH
          PROVE  data' = pixelTranslation(vram[PlaceOf(PictureLine, counterH - StartH - 1)])
      <3>1. counterH \in StartH + 1 .. EndH /\ dataEnable
        BY <1>1, <2>2, <2>7, CountersMove, Geometry
      <3> QED BY <3>1 DEF Output, DataInv
    <2> QED BY <2>4, <2>5, <2>6, <2>7
  <1> QED BY <1>2, <1>3

-----------------------------------------------------------------------------
(* The display. *)
LEMMA DisplayStep ==
  ASSUME ScanInv, DataInv, DisplayInv, Raster, Display,
         vSync' <=> counterV < pulseWidthV, dataEnableReg' <=> dataEnable
  PROVE  DisplayInv'
  <1>1. dataEnable <=> activeV /\ StartH <= counterH /\ counterH < EndH
    BY Active DEF dataEnable
  <1>2. dataEnableReg <=> activeV /\ counterH \in StartH + 1 .. EndH
    BY DEF DataInv
  <1>3. counterV >= pulseWidthV /\ ~dataEnable => at' = at
    BY CountersMove, Geometry DEF Display
  <1>4. CASE ~endOfLine /\ ~activeV
    <2>1. /\ counterV' = counterV /\ counterH' = counterH + 1 /\ counterH' > 0 /\ ~activeV'
          /\ ~dataEnable
      BY <1>1, <1>4, CountersMove DEF activeV
    <2>2. counterV' < StartV => at' = Unseen
      <3>1. CASE counterV < pulseWidthV
        BY <3>1 DEF Display, Unseen
      <3>2. CASE counterV >= pulseWidthV
        BY <1>3, <2>1, <3>2, CountersMove, Geometry DEF DisplayInv
      <3> QED BY <3>1, <3>2, CountersMove, Geometry
    <2>3. counterV' >= EndV => at' = FrameEnd
      BY <1>3, <2>1, CountersMove, Geometry DEF DisplayInv
    <2> QED BY <2>1, <2>2, <2>3, CountersMove, Geometry DEF DisplayInv
  <1>5. CASE ~endOfLine /\ activeV
    <2>1. /\ counterV' = counterV /\ counterH' = counterH + 1 /\ counterH' > 0
          /\ activeV' /\ PictureLine' = PictureLine /\ PictureLine \in Nat
          /\ ~vSync' /\ StartV <= counterV /\ counterV < EndV /\ counterV >= pulseWidthV
      BY <1>5, CountersMove, Active, Geometry DEF activeV, PictureLine
    <2>2. CASE counterH' <= StartH
      <3>1. counterH <= StartH /\ ~dataEnable
        BY <1>1, <2>1, <2>2, CountersMove, Geometry
      <3>2. at' = IF PictureLine = 0 THEN Unseen
                  ELSE [line |-> PictureLine - 1, column |-> pixelsH - 1]
        BY <1>3, <1>5, <2>1, <3>1 DEF DisplayInv
      <3> QED BY <2>1, <2>2, <3>2, CountersMove, Geometry DEF DisplayInv
    <2>3. CASE counterH = StartH
      <3>1. dataEnable /\ ~dataEnableReg
        BY <1>1, <1>2, <1>5, <2>3, Geometry
      <3>2. at.line = PictureLine - 1
        BY <1>5, <2>1, <2>3, Geometry DEF DisplayInv, Unseen
      <3>3. at' = [line |-> PictureLine, column |-> 0]
        BY <2>1, <3>1, <3>2 DEF Display
      <3>4. counterH' - StartH - 1 = 0
        BY <2>1, <2>3, Geometry
      <3> QED BY <2>1, <2>3, <3>3, <3>4, CountersMove, Geometry DEF DisplayInv
    <2>4. CASE StartH < counterH /\ counterH < EndH
      <3>1. dataEnable /\ dataEnableReg
        BY <1>1, <1>2, <1>5, <2>4, CountersMove, Geometry
      <3>2. at = [line |-> PictureLine, column |-> counterH - StartH - 1]
        BY <1>5, <2>4, CountersMove, Geometry DEF DisplayInv
      <3>3. at' = [line |-> PictureLine, column |-> counterH' - StartH - 1]
        <4>1. at' = [at EXCEPT !.column = @ + 1]
          BY <2>1, <3>1 DEF Display
        <4>2. counterH' - StartH - 1 = (counterH - StartH - 1) + 1
          BY <2>1, CountersMove, Geometry
        <4> QED BY <3>2, <4>1, <4>2
      <3> QED BY <2>1, <2>4, <3>3, CountersMove, Geometry DEF DisplayInv
    <2>5. CASE counterH >= EndH
      <3>1. ~dataEnable
        BY <1>1, <2>5, CountersMove, Geometry
      <3>2. at = [line |-> PictureLine, column |-> pixelsH - 1]
        <4>1. CASE counterH = EndH
          <5>1. counterH - StartH - 1 = pixelsH - 1 /\ counterH \in StartH + 1 .. EndH
            BY <4>1, Geometry
          <5> QED BY <1>5, <5>1 DEF DisplayInv
        <4>2. CASE counterH > EndH
          BY <1>5, <4>2 DEF DisplayInv
        <4> QED BY <2>5, <4>1, <4>2, CountersMove, Geometry
      <3>3. at' = [line |-> PictureLine, column |-> pixelsH - 1]
        BY <1>3, <2>1, <3>1, <3>2
      <3> QED BY <2>1, <2>5, <3>3, CountersMove, Geometry DEF DisplayInv
    <2> QED BY <2>1, <2>2, <2>3, <2>4, <2>5, CountersMove, Geometry
  <1>6. CASE endOfFrame
    <2>1. /\ counterH' = 0 /\ counterV' = 0 /\ counterV >= EndV /\ counterV >= pulseWidthV /\ ~activeV
      BY <1>6, CountersMove, Active, Geometry
    <2>2. at' = FrameEnd
      BY <1>1, <1>3, <2>1 DEF DisplayInv
    <2>3. ~activeV' /\ ~(counterV' >= EndV)
      BY <2>1, Geometry DEF activeV, StartV
    <2> QED BY <2>1, <2>2, <2>3 DEF DisplayInv
  <1>7. CASE endOfLine /\ ~endOfFrame
    <2>1. /\ counterH' = 0 /\ counterV' = counterV + 1 /\ counterH = totalCountsH /\ counterH > EndH
          /\ counterH > 0 /\ ~dataEnable /\ counterV' - 1 = counterV /\ counterH' <= StartH
          /\ PictureLine' = PictureLine + 1
      BY <1>1, <1>7, CountersMove, Geometry DEF PictureLine
    <2>2. counterV < StartV => at' = Unseen
      <3>1. CASE counterV < pulseWidthV
        BY <3>1 DEF Display, Unseen
      <3>2. CASE counterV >= pulseWidthV
        BY <1>3, <2>1, <3>2, CountersMove, Geometry DEF DisplayInv
      <3> QED BY <3>1, <3>2, CountersMove, Geometry
    <2>3. activeV => at' = [line |-> PictureLine, column |-> pixelsH - 1]
      <3>1. activeV => counterV >= pulseWidthV
        BY CountersMove, Active, Geometry
      <3> QED BY <1>3, <2>1, <3>1 DEF DisplayInv
    <2>4. counterV >= EndV => at' = FrameEnd
      BY <1>3, <2>1, CountersMove, Geometry DEF DisplayInv
    <2>5. vSync' <=> counterV' - 1 < pulseWidthV
      BY <2>1
    <2>6. CASE counterV < StartV
      <3>1. at' = Unseen /\ counterV' <= StartV
        BY <2>1, <2>2, <2>6, CountersMove, Geometry
      <3>2. activeV' => PictureLine' = 0
        BY <2>1, <3>1, Geometry DEF activeV, StartV, PictureLine
      <3> QED BY <2>1, <2>5, <3>1, <3>2, CountersMove, Geometry DEF DisplayInv
    <2>7. CASE activeV
      <3>1. PictureLine \in 0 .. pixelsV - 1 /\ PictureLine' - 1 = PictureLine /\ PictureLine' # 0
        BY <2>1, <2>7, CountersMove, Active, Geometry DEF PictureLine
      <3>2. counterV' >= EndV => PictureLine = pixelsV - 1
        BY <2>1, <2>7, CountersMove, Active, Geometry DEF PictureLine
      <3>3. counterV' >= EndV => at' = FrameEnd
        BY <2>3, <2>7, <3>2 DEF FrameEnd
      <3>4. ~(counterV' < StartV)
        BY <2>1, <2>7, CountersMove, Active, Geometry
      <3> QED BY <2>1, <2>3, <2>5, <2>7, <3>1, <3>3, <3>4, CountersMove, Geometry DEF DisplayInv
    <2>8. CASE counterV >= EndV
      <3>1. ~activeV' /\ ~(counterV' < StartV)
        BY <2>1, <2>8, CountersMove, Geometry DEF activeV, StartV, EndV
      <3> QED BY <2>1, <2>4, <2>5, <2>8, <3>1, CountersMove, Geometry DEF DisplayInv
    <2> QED BY <2>6, <2>7, <2>8, CountersMove, Active, Geometry
  <1> QED BY <1>4, <1>5, <1>6, <1>7

-----------------------------------------------------------------------------
(* Together. *)
LEMMA VideoStarts ==
  VideoInit => VideoInv
  <1> SUFFICES ASSUME VideoInit PROVE VideoInv
    OBVIOUS
  <1>1. /\ counterH = 0 /\ counterV = 0 /\ ~activeV /\ ~(counterV >= EndV)
        /\ ~(counterV >= pulseWidthV) /\ counterH < StartH
    BY Geometry DEF VideoInit, activeV, StartV
  <1>2. ScanInv
    BY <1>1, Geometry DEF VideoInit, ScanInv
  <1>3. DataInv
    BY <1>1 DEF VideoInit, DataInv
  <1>4. DisplayInv
    BY <1>1, Geometry DEF VideoInit, DisplayInv
  <1>5. DrawInv
    BY <1>1, Period DEF VideoInit, DrawInv
  <1> QED BY <1>2, <1>3, <1>4, <1>5 DEF VideoInv

LEMMA VideoSteps ==
  VideoInv /\ [PixelClock]_videoVars => VideoInv'
  <1> SUFFICES ASSUME VideoInv, [PixelClock]_videoVars PROVE VideoInv'
    OBVIOUS
  <1> USE DEF VideoInv
  <1>1. CASE PixelClock
    <2>1. Raster /\ Addresses /\ Output /\ Display /\ (Processor \/ BetweenClocks)
      BY <1>1 DEF PixelClock
    <2>2. /\ vSync' \in BOOLEAN /\ (vSync' <=> counterV < pulseWidthV)
          /\ (dataEnableReg' <=> dataEnable)
      <3>1. vSync' \in BOOLEAN
        BY <2>1, SMT DEF Output
      <3>2. vSync' <=> counterV < pulseWidthV
        BY <2>1, Zenon DEF Output
      <3>3. dataEnableReg' <=> dataEnable
        BY <2>1, Zenon DEF Output
      <3> QED BY <3>1, <3>2, <3>3
    <2>3. ScanInv'
      BY <2>1, RasterStep
    <2>4. DataInv'
      BY <2>1, DataStep
    <2>5. DisplayInv'
      BY <2>1, <2>2, DisplayStep
    <2>6. DrawInv'
      BY <2>1, <2>2, <2>3, DrawStep
    <2> QED BY <2>3, <2>4, <2>5, <2>6
  <1>2. CASE UNCHANGED videoVars
    BY <1>2 DEF videoVars, scanVars, portVars, cpuVars, ScanInv, DataInv, DisplayInv, DrawInv,
                activeV, activeH, PictureLine, Clocks, TimeLeft, Since
  <1> QED BY <1>1, <1>2

LEMMA VideoInvariant ==
  VideoSpec => []VideoInv
  <1> QED BY VideoStarts, VideoSteps, PTL DEF VideoSpec

(* Every pixel shown is one of the picture, in its place. *)
LEMMA PlacesShown ==
  VideoInv => PixelInPlace
  <1> SUFFICES ASSUME ScanInv, DataInv, DisplayInv, dataEnableReg
               PROVE  /\ at.line \in 0 .. pixelsV - 1 /\ at.column \in 0 .. pixelsH - 1
                      /\ at.column \in 1 .. pixelsH - 2 =>
                            video.pixelData = pixelTranslation(vram[PlaceOf(at.line, at.column - 1)])
                      /\ at.column = pixelsH - 1 => video.pixelData = Black
    BY DEF VideoInv, PixelInPlace, PlaceOf, LineStart
  <1>1. activeV /\ counterH \in StartH + 1 .. EndH
    BY DEF DataInv
  <1>2. at.line = PictureLine /\ at.column = counterH - StartH - 1
    BY <1>1 DEF DisplayInv
  <1>3. PictureLine \in 0 .. pixelsV - 1 /\ counterH - StartH - 1 \in 0 .. pixelsH - 1
    BY <1>1, Active, Geometry DEF ScanInv, PictureLine
  <1>4. dataEnable <=> counterH < EndH
    BY <1>1, Active, Geometry DEF dataEnable
  <1>5. ASSUME at.column \in 1 .. pixelsH - 2
        PROVE  video.pixelData = pixelTranslation(vram[PlaceOf(at.line, at.column - 1)])
    <2>1. counterH < EndH /\ counterH \in StartH + 2 .. EndH /\ at.column - 1 = counterH - StartH - 2
      BY <1>1, <1>2, <1>5, Geometry
    <2>2. data = pixelTranslation(vram[PlaceOf(PictureLine, counterH - StartH - 2)])
      BY <1>1, <2>1 DEF DataInv
    <2>3. video.pixelData = data
      BY <1>4, <2>1 DEF video
    <2> QED BY <1>2, <2>1, <2>2, <2>3
  <1>6. ASSUME at.column = pixelsH - 1
        PROVE  video.pixelData = Black
    <2>1. ~(counterH < EndH)
      BY <1>1, <1>2, <1>6, Geometry
    <2> QED BY <1>4, <2>1 DEF video
  <1> QED BY <1>2, <1>3, <1>5, <1>6

(* For every resolution, every timing and every magnification that divides *)
(* it, and however the two clocks run: every frame a display shows is the  *)
(* picture, whole, in place and undisturbed.                               *)
THEOREM PictureCorrect ==
  VideoSpec => PictureShown
  <1>1. VideoInv /\ PixelInPlace' /\ [PixelClock]_videoVars =>
           [/\ PixelInPlace'
            /\ dataEnableReg /\ ~dataEnableReg' => at.column = pixelsH - 1
            /\ vSync' /\ ~vSync => at.line = pixelsV - 1]_videoVars
    <2> SUFFICES ASSUME VideoInv, PixelInPlace', PixelClock
                 PROVE  /\ PixelInPlace'
                        /\ dataEnableReg /\ ~dataEnableReg' => at.column = pixelsH - 1
                        /\ vSync' /\ ~vSync => at.line = pixelsV - 1
      OBVIOUS
    <2>1. ASSUME dataEnableReg, ~dataEnableReg'
          PROVE  at.column = pixelsH - 1
      <3>1. activeV /\ counterH \in StartH + 1 .. EndH
        BY <2>1 DEF VideoInv, DataInv
      <3>2. ~dataEnable
        BY <2>1 DEF PixelClock, Output
      <3>3. counterH = EndH
        BY <3>1, <3>2, Active, Geometry DEF dataEnable
      <3>4. at.column = counterH - StartH - 1
        BY <3>1 DEF VideoInv, DisplayInv
      <3> QED BY <3>3, <3>4, Geometry
    <2>2. ASSUME vSync', ~vSync
          PROVE  at.line = pixelsV - 1
      <3>1. counterV < pulseWidthV
        BY <2>2 DEF PixelClock, Output
      <3>2. counterH = 0 /\ counterV = 0
        BY <2>2, <3>1, Geometry DEF VideoInv, ScanInv, DisplayInv
      <3> QED BY <2>2, <3>2 DEF VideoInv, DisplayInv, FrameEnd
    <2> QED BY <2>1, <2>2
  <1>2. VideoSpec => [](VideoInv /\ PixelInPlace)
    BY VideoInvariant, PlacesShown, PTL
  <1> QED BY <1>1, <1>2, PTL DEF VideoSpec, PictureShown
=============================================================================

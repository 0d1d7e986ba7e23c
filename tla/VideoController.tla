--------------------------- MODULE VideoController --------------------------
(***************************************************************************)
(* The video controller (video/video_controller.scala) and the encoder it  *)
(* feeds, as TopWithHDMI connects them: a picture in video RAM is scanned  *)
(* and shown enlarged, while the processor stores into it from a clock of  *)
(* its own.                                                                *)
(***************************************************************************)
EXTENDS DviOut

CONSTANTS
    pulseWidthH, backPorchH, pixelsH, frontPorchH,
    pulseWidthV, backPorchV, pixelsV, frontPorchV,
    magnificationRateH, magnificationRateV,
    VramPixels,     \* values of a place of the video RAM, as sets of bits
    CpuPeriods,     \* pixel clocks from one processor clock to the next
    DrawTime        \* processor clocks the program draws for

totalCountsH   == backPorchH + pixelsH + frontPorchH + pulseWidthH
totalCountsV   == backPorchV + pixelsV + frontPorchV + pulseWidthV
vramPixelsH    == pixelsH \div magnificationRateH
vramPixelsV    == pixelsV \div magnificationRateV
vramAddressMax == vramPixelsH * vramPixelsV
Place          == 0 .. vramAddressMax - 1

CpuPeriod == CHOOSE p \in CpuPeriods : \A q \in CpuPeriods : q <= p

(* The picture is made of whole places.  The program sees the vertical     *)
(* sync up to three of its clocks late and is done with drawing before the *)
(* first line; the boot program has 20 lines of time for three boxes.      *)
ASSUME VideoAssumption ==
    /\ {pulseWidthH, backPorchH, pixelsH, frontPorchH} \subseteq Nat \ {0}
    /\ {pulseWidthV, backPorchV, pixelsV, frontPorchV} \subseteq Nat \ {0}
    /\ {magnificationRateH, magnificationRateV} \subseteq Nat \ {0}
    /\ pixelsH % magnificationRateH = 0 /\ pixelsV % magnificationRateV = 0
    /\ CpuPeriods \subseteq Nat \ {0} /\ \E p \in CpuPeriods : \A q \in CpuPeriods : q <= p
    /\ DrawTime \in Nat
    /\ (DrawTime + 3) * CpuPeriod < backPorchV * (totalCountsH + 1)

(* There is a power of two from a number to its double. *)
ASSUME AddressAssumption ==
    \E k \in vramAddressMax .. 2 * vramAddressMax - 1 : \E e \in 0 .. k : k = 2 ^ e

VARIABLES
    vram,
    counterH, counterV, lineAddress, pixelAddress, magnificationCounterH, magnificationCounterV,
    fetched,        \* RegNext(vram(pixelAddress))
    data, dataEnableReg, hSync, vSync,
    vSyncReg,       \* two flip-flops on the processor's clock, the older second
    sinceCpu,       \* pixel clocks since the processor's last
    drawing,        \* processor clocks the program has left to draw
    at              \* the display: line and column it is at

scanVars  == <<counterH, counterV, lineAddress, pixelAddress,
               magnificationCounterH, magnificationCounterV>>
portVars  == <<fetched, data, dataEnableReg, hSync, vSync>>
cpuVars   == <<vram, vSyncReg, sinceCpu, drawing>>
videoVars == <<scanVars, portVars, cpuVars, at, dviVars>>

(* As many bits as the addresses of the video RAM need. *)
Address(n) == n % (CHOOSE k \in vramAddressMax .. 2 * vramAddressMax - 1 :
                      \E e \in 0 .. k : k = 2 ^ e)

(* BGR233, the highest bits of a colour repeat its lowest. *)
pixelTranslation(v) == [ch \in Channel |->
    {i \in DataBit : CASE ch = 2 -> IF i = 7 THEN 7 \in v ELSE 6 \in v
                       [] ch = 1 -> IF i > 5 THEN i - 2 \in v ELSE 3 \in v
                       [] ch = 0 -> IF i > 5 THEN i - 5 \in v ELSE 0 \in v}]
Black == [ch \in Channel |-> {}]

-----------------------------------------------------------------------------
activeH == pulseWidthH + backPorchH <= counterH /\ counterH < pulseWidthH + backPorchH + pixelsH
activeV == pulseWidthV + backPorchV <= counterV /\ counterV < pulseWidthV + backPorchV + pixelsV
dataEnable == activeH /\ activeV
endOfLine  == counterH >= totalCountsH
endOfFrame == endOfLine /\ counterV >= totalCountsV

video == [dataEnable |-> dataEnableReg, hSync |-> hSync, vSync |-> vSync,
          pixelData |-> IF dataEnable THEN data ELSE Black]

Raster ==
    /\ counterH' = IF endOfLine THEN 0 ELSE counterH + 1
    /\ counterV' = IF ~endOfLine THEN counterV ELSE IF endOfFrame THEN 0 ELSE counterV + 1

(* A line of the picture is repeated magnificationRateV times. *)
Faulty_NextLine == IF magnificationCounterV < magnificationRateV - 1 /\ ~endOfFrame
                   THEN lineAddress ELSE Address(lineAddress + pixelsH)
NextLine == IF magnificationCounterV < magnificationRateV - 1
            THEN lineAddress ELSE Address(lineAddress + vramPixelsH)

Turned(count, rate) == IF count = rate - 1 THEN 0 ELSE count + 1

Addresses ==
    /\ magnificationCounterH' = IF dataEnable THEN Turned(magnificationCounterH, magnificationRateH)
                                ELSE magnificationCounterH
    /\ magnificationCounterV' = IF activeV /\ endOfLine
                                THEN Turned(magnificationCounterV, magnificationRateV)
                                ELSE magnificationCounterV
    /\ lineAddress' = IF endOfFrame THEN 0
                      ELSE IF activeV /\ endOfLine THEN NextLine ELSE lineAddress
    /\ pixelAddress' = IF endOfFrame THEN 0
                       ELSE IF activeV /\ endOfLine THEN NextLine
                       ELSE IF dataEnable /\ magnificationCounterH = magnificationRateH - 1
                       THEN Address(pixelAddress + 1) ELSE pixelAddress

(* The read port is enabled with the data; otherwise it shows anything.    *)
Output ==
    /\ IF dataEnable THEN fetched' = vram[pixelAddress] ELSE fetched' \in VramPixels
    /\ data' = IF dataEnable THEN pixelTranslation(fetched) ELSE Black
    /\ dataEnableReg' = dataEnable
    /\ hSync' = (counterH < pulseWidthH)
    /\ vSync' = (counterV < pulseWidthV)

(* The display counts lines from the vertical sync, and columns.           *)
Display == at' =
    IF vSync' THEN [line |-> -1, column |-> -1]
    ELSE IF ~dataEnableReg' THEN at
    ELSE IF dataEnableReg THEN [at EXCEPT !.column = @ + 1]
    ELSE [line |-> at.line + 1, column |-> 0]

(* Whenever the program reads the vertical sync as set, it may draw.  (Its *)
(* background is there already: it was drawn before the first wait.)       *)
Processor ==
    /\ sinceCpu \in CpuPeriods /\ sinceCpu' = 1
    /\ vSyncReg' = <<vSync, vSyncReg[1]>>
    /\ \/ drawing > 0 /\ drawing' = drawing - 1
       \/ drawing = 0 /\ drawing' \in IF vSyncReg[2] THEN {0, DrawTime} ELSE {0}
    /\ \/ UNCHANGED vram
       \/ drawing > 0 /\ \E place \in Place, v \in VramPixels : vram' = [vram EXCEPT ![place] = v]

BetweenClocks ==
    /\ sinceCpu < CpuPeriod /\ sinceCpu' = sinceCpu + 1
    /\ UNCHANGED <<vram, vSyncReg, drawing>>

PixelClock ==
    /\ Raster /\ Addresses /\ Output /\ Display
    /\ DviEdge(video)
    /\ Processor \/ BetweenClocks

VideoInit ==
    /\ vram \in [Place -> VramPixels]
    /\ counterH = 0 /\ counterV = 0 /\ lineAddress = 0 /\ pixelAddress = 0
    /\ magnificationCounterH = 0 /\ magnificationCounterV = 0
    /\ fetched = {} /\ data = Black /\ dataEnableReg = FALSE /\ hSync = TRUE /\ vSync = TRUE
    /\ vSyncReg = <<FALSE, FALSE>> /\ sinceCpu = 1 /\ drawing = 0
    /\ at = [line |-> -1, column |-> -1]
    /\ DviInit

(* The clock runs. *)
VideoSpec == VideoInit /\ [][PixelClock]_videoVars /\ WF_videoVars(PixelClock)

-----------------------------------------------------------------------------
(* What a display shows at a column: all but the first and the last are    *)
(* one clock late, the first is undefined and the last black.              *)
PixelInPlace == dataEnableReg =>
    /\ at.line \in 0 .. pixelsV - 1 /\ at.column \in 0 .. pixelsH - 1
    /\ at.column \in 1 .. pixelsH - 2 =>
          LET place == (at.line \div magnificationRateV) * vramPixelsH
                         + (at.column - 1) \div magnificationRateH
          IN  video.pixelData = pixelTranslation(vram[place])
    /\ at.column = pixelsH - 1 => video.pixelData = Black

(***************************************************************************)
(* Every frame is the picture, whole and in place, with lines and columns  *)
(* counted as a display counts them, and a program that draws when it      *)
(* reads the vertical sync never changes it under way.                     *)
(***************************************************************************)
PictureShown == [][
    /\ PixelInPlace'
    /\ dataEnableReg /\ ~dataEnableReg' => at.column = pixelsH - 1
    /\ vSync' /\ ~vSync => at.line = pixelsV - 1]_videoVars
=============================================================================

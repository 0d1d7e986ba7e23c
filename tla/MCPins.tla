------------------------------- MODULE MCPins -------------------------------
(***************************************************************************)
(* The circuits that drive the pins of the board.  They share no state, so *)
(* each is run in behaviours in which the others are at rest: a serial     *)
(* line of words of three bits, with dividers at the edges of the          *)
(* tolerance, a matrix of three rows, a display of three digits, a picture *)
(* of four by four pixels from a video RAM of two by two.                  *)
(***************************************************************************)
EXTENDS Serial, MatrixLed, SegmentLed, VideoController

MCDividers == {[tx |-> 2, rx |-> 2], [tx |-> 4, rx |-> 4], [tx |-> 6, rx |-> 7],
               [tx |-> 9, rx |-> 8]}
MCColumns  == {{}, {0}, {0, 1}}
MCPixels   == {0 .. 5, {0, 1, 2, 6, 7}}
MCPatterns == {[i \in Segment |-> i = 0], [i \in Segment |-> i < 2]}

VARIABLE circuit

pinVars == <<vars, matrixVars, segmentVars, videoVars, circuit>>

Circuit == {"serial", "matrix", "segments", "video"}

(* A matrix at rest shows nothing, chips at rest hold nothing, and a video *)
(* RAM at rest is all one value.                                           *)
Resting ==
    /\ circuit # "matrix" => matrix = [r \in Row |-> {}]
    /\ circuit # "segments" =>
          /\ segmentChip = [shift |-> [i \in Segment |-> FALSE], out |-> [i \in Segment |-> FALSE]]
          /\ digitChip   = [shift |-> [i \in Digit |-> FALSE], out |-> [i \in Digit |-> FALSE]]
    /\ circuit # "serial" => dividers = [tx |-> 2, rx |-> 2]
    /\ circuit # "video" => vram = [place \in Place |-> 0 .. 5]

PinInit == circuit \in Circuit /\ Resting /\ Init /\ MatrixInit /\ SegmentInit /\ VideoInit

PinNext ==
    /\ UNCHANGED circuit
    /\ \/ circuit = "serial" /\ Clock /\ UNCHANGED <<matrixVars, segmentVars, videoVars>>
       \/ circuit = "matrix" /\ Refresh /\ UNCHANGED <<vars, segmentVars, videoVars>>
       \/ circuit = "segments" /\ Scan /\ UNCHANGED <<vars, matrixVars, videoVars>>
       \/ circuit = "video" /\ PixelClock /\ UNCHANGED <<vars, matrixVars, segmentVars>>

(* The clocks run. *)
PinSpec == PinInit /\ [][PinNext]_pinVars /\ WF_pinVars(PinNext)

-----------------------------------------------------------------------------
(***************************************************************************)
(* The displays are refreshed for ever: every row of the matrix and every  *)
(* digit gets its turn again and again.                                    *)
(***************************************************************************)
DisplaysRefreshed ==
    /\ circuit = "matrix" => EachRowLit
    /\ circuit = "segments" => EachDigitShown
=============================================================================

------------------------------- MODULE DviOut -------------------------------
(***************************************************************************)
(* The encoder of the DVI link (video/dvi_out.scala): every pixel clock a  *)
(* word of ten bits on each of three channels, a byte of the pixel while   *)
(* data is enabled and the syncs otherwise.  Bytes and words are sets of   *)
(* the positions of their ones.                                            *)
(***************************************************************************)
EXTENDS Integers, FiniteSets, Sequences

Channel == 0 .. 2
DataBit == 0 .. 7
Byte    == SUBSET DataBit

VideoIn == [dataEnable : BOOLEAN, hSync : BOOLEAN, vSync : BOOLEAN, pixelData : [Channel -> Byte]]

VARIABLES
    videoRegs,      \* three stages of delay
    counter, dviData,
    entered,        \* history: what came in for the word now sent and those behind it
    balance         \* history: ones less zeros sent since data is enabled

dviVars == <<videoRegs, counter, dviData, entered, balance>>

videoRegsDepth == 3
Blank == [dataEnable |-> FALSE, hSync |-> TRUE, vSync |-> TRUE, pixelData |-> [ch \in Channel |-> {}]]

-----------------------------------------------------------------------------
(* Bit 8 tells which of two chains of eight was taken.                     *)
Faulty_transitionMinimized(in) ==                       \* a chain of its own bits
    LET xnorProcess == Cardinality(in) > 4 \/ (Cardinality(in) = 4 /\ 0 \notin in)
    IN  {i \in DataBit : IF i = 0 THEN 0 \in in ELSE ((i - 1 \in in) # (i \in in)) # xnorProcess}
          \cup (IF xnorProcess THEN {} ELSE {8})
transitionMinimized(in) ==
    LET xnorProcess == Cardinality(in) > 4 \/ (Cardinality(in) = 4 /\ 0 \notin in)
        bits[i \in DataBit] ==
            IF i = 0 THEN 0 \in in ELSE (bits[i - 1] # (i \in in)) # xnorProcess
    IN  {i \in DataBit : bits[i]} \cup (IF xnorProcess THEN {} ELSE {8})

n0n1(in)     == 8 - 2 * Cardinality(in \cap DataBit)
Inverted(in) == {9} \cup (DataBit \ in) \cup (in \cap {8})

(* Eight bits of two's complement. *)
Signed8(n) == ((n + 128) % 256) - 128

(* Which of the two words for a byte is sent, and what is counted.         *)
Encoding(word, count) == [word |-> word, counter |-> Signed8(count)]
Faulty_dcBalancing(in, c) ==                            \* bits 8 and 9 are not counted
    IF c = 0 \/ n0n1(in) = 0
    THEN IF 8 \in in THEN Encoding(in, c - n0n1(in)) ELSE Encoding(Inverted(in), c + n0n1(in))
    ELSE IF c > 0 <=> n0n1(in) < 0
    THEN Encoding(Inverted(in), c + n0n1(in))
    ELSE Encoding(in, c - n0n1(in))
dcBalancing(in, c) ==
    IF c = 0 \/ n0n1(in) = 0
    THEN IF 8 \in in THEN Encoding(in, c - n0n1(in)) ELSE Encoding(Inverted(in), c + n0n1(in))
    ELSE IF (c > 0 /\ n0n1(in) < 0) \/ (c < 0 /\ n0n1(in) > 0)
    THEN Encoding(Inverted(in), c + n0n1(in) + (IF 8 \in in THEN 2 ELSE 0))
    ELSE Encoding(in, c - n0n1(in) - (IF 8 \in in THEN 0 ELSE 2))

transitionMaximized(v, h) ==
    CASE ~v /\ ~h -> {2, 4, 6, 8, 9}
      [] ~v /\ h  -> {0, 1, 3, 5, 7}
      [] v /\ ~h  -> {2, 4, 6, 8}
      [] v /\ h   -> {0, 1, 3, 5, 7, 9}

-----------------------------------------------------------------------------
Minimized(in) ==
    [in EXCEPT !.pixelData = [ch \in Channel |-> transitionMinimized(in.pixelData[ch])]]

Control(v) == [ch \in Channel |-> IF ch = 0 THEN transitionMaximized(v.vSync, v.hSync)
                                  ELSE transitionMaximized(FALSE, FALSE)]

Encoded(ch) == dcBalancing(videoRegs[0].pixelData[ch], counter[ch])

(* A pixel clock with in on the inputs. *)
DviEdge(in) ==
    /\ videoRegs' = [i \in 0 .. videoRegsDepth - 1 |->
                        IF i = videoRegsDepth - 1 THEN Minimized(in) ELSE videoRegs[i + 1]]
    /\ IF videoRegs[0].dataEnable
       THEN /\ dviData' = [ch \in Channel |-> Encoded(ch).word]
            /\ counter' = [ch \in Channel |-> Encoded(ch).counter]
            /\ balance' = [ch \in Channel |-> balance[ch] + Cardinality(dviData'[ch])
                                                - Cardinality((0 .. 9) \ dviData'[ch])]
       ELSE /\ dviData' = Control(videoRegs[0])
            /\ counter' = [ch \in Channel |-> 0]
            /\ balance' = [ch \in Channel |-> 0]
    /\ entered' = IF Len(entered) > videoRegsDepth THEN Append(Tail(entered), in)
                  ELSE Append(entered, in)

DviInit ==
    /\ videoRegs = [i \in 0 .. videoRegsDepth - 1 |-> Blank]
    /\ counter = [ch \in Channel |-> 0] /\ balance = counter
    /\ dviData = [ch \in Channel |-> {}]
    /\ entered = <<Blank, Blank, Blank>>      \* no word of theirs is sent yet

DviNext == \E in \in VideoIn : DviEdge(in)
DviSpec == DviInit /\ [][DviNext]_dviVars

-----------------------------------------------------------------------------
(* The display at the other end: bit 9 says inverted, bit 8 which chain.   *)

Restored(word) == IF 9 \in word THEN DataBit \ word ELSE word \cap DataBit
Decoded(word) ==
    {i \in DataBit : IF i = 0 THEN 0 \in Restored(word)
                     ELSE ((i - 1 \in Restored(word)) # (i \in Restored(word))) # (8 \notin word)}

ControlWords == {transitionMaximized(v, h) : v \in BOOLEAN, h \in BOOLEAN}

(* How far ones and zeros may be apart on a channel. *)
Balances == -8 .. 8

EveryByteDecodes == \A b \in Byte, c \in Balances :
    LET word == dcBalancing(transitionMinimized(b), c).word
    IN  Decoded(word) = b /\ word \notin ControlWords

(* What is sent for what came in four clocks ago. *)
WordDecodes == LET in == Head(entered) IN
    Len(entered) > videoRegsDepth =>
        IF in.dataEnable
        THEN \A ch \in Channel : /\ dviData[ch] \notin ControlWords
                                 /\ Decoded(dviData[ch]) = in.pixelData[ch]
        ELSE dviData = Control(in)

(***************************************************************************)
(* What is on the link four clocks after a pixel is read back as that      *)
(* pixel, and as a sync what was one; any byte is, at any balance of ones  *)
(* and zeros, and none is taken for a sync.                                *)
(***************************************************************************)
LinkDecodes == EveryByteDecodes /\ WordDecodes

(***************************************************************************)
(* The link carries no direct current: on every channel as many ones as    *)
(* zeros have been sent since data is enabled, up to eight, whatever the   *)
(* picture is; and the encoder's counter of eight bits knows how many.     *)
(***************************************************************************)
Balanced == \A ch \in Channel : counter[ch] = balance[ch] /\ balance[ch] \in Balances
=============================================================================

----------------------------- MODULE ProbeAdapter ---------------------------
(***************************************************************************)
(* The width converter and the frame adapter of the probe                  *)
(* (diag/probe.scala): samples go out in chunks, the lowest first, and the *)
(* samples up to a last one are enclosed in two markers no chunk equals.   *)
(* For samples that need more than one chunk.                              *)
(***************************************************************************)
EXTENDS Naturals

CONSTANTS
    Chunks,             \* 2^7: the values of a chunk
    numberOfPhases      \* chunks of a sample

VARIABLES
    phaseCounter, inData, inLast,           \* ProbeOutWidthConverter
    chunkValid, chunk, chunkLast,
    frame, byteValid, byte                  \* ProbeFrameAdapter

converterVars == <<phaseCounter, inData, inLast, chunkValid, chunk, chunkLast>>
adapterVars   == <<converterVars, frame, byteValid, byte>>

START_OF_FRAME == Chunks
END_OF_FRAME   == Chunks + 1

Chunk(data, k) == (data \div Chunks ^ k) % Chunks

sampleReady == phaseCounter = 0

-----------------------------------------------------------------------------
(* The converter: in is what is offered to it, ready the adapter's.        *)
TakeSample(in) ==
    /\ phaseCounter = 0
    /\ IF in.valid THEN inData' = in.data /\ inLast' = in.last /\ phaseCounter' = numberOfPhases
       ELSE UNCHANGED <<inData, inLast, phaseCounter>>

Faulty_SplitSample(ready) ==                            \* last one phase late
    /\ phaseCounter > 0 /\ (~chunkValid \/ ready)
    /\ phaseCounter' = phaseCounter - 1
    /\ chunkValid' = TRUE
    /\ chunk' = Chunk(inData, numberOfPhases - phaseCounter)
    /\ chunkLast' = (phaseCounter = 0 /\ inLast)
    /\ UNCHANGED <<inData, inLast>>
SplitSample(ready) ==
    /\ phaseCounter > 0 /\ (~chunkValid \/ ready)
    /\ phaseCounter' = phaseCounter - 1
    /\ chunkValid' = TRUE
    /\ chunk' = Chunk(inData, numberOfPhases - phaseCounter)
    /\ chunkLast' = (phaseCounter = 1 /\ inLast)
    /\ UNCHANGED <<inData, inLast>>

ConverterEdge(in, ready) ==
    \/ SplitSample(ready)
    \/ /\ phaseCounter > 0 /\ chunkValid /\ ~ready
       /\ UNCHANGED converterVars
    \/ /\ TakeSample(in)
       /\ chunkValid' = (chunkValid /\ ~ready)
       /\ UNCHANGED <<chunk, chunkLast>>

(* The adapter: free when its output byte is gone or going.                *)
Free(ready) == ~byteValid \/ ready
chunkReady(ready) == frame = "InFrame" /\ Free(ready)

Put(b, next) == byteValid' = TRUE /\ byte' = b /\ frame' = next

StartFrame(ready) ==
    frame = "Idle" /\ chunkValid /\ Free(ready) /\ Put(START_OF_FRAME, "InFrame")
PassChunk(ready) ==
    chunkReady(ready) /\ chunkValid /\ Put(chunk, IF chunkLast THEN "EndOfFrame" ELSE frame)
EndFrame(ready) ==
    frame = "EndOfFrame" /\ Free(ready) /\ Put(END_OF_FRAME, "Idle")

NoByte(ready) ==
    /\ ~(Free(ready) /\ (chunkValid \/ frame = "EndOfFrame"))
    /\ byteValid' = (byteValid /\ ~ready)
    /\ UNCHANGED <<byte, frame>>

AdapterEdge(in, ready) ==
    /\ ConverterEdge(in, chunkReady(ready))
    /\ StartFrame(ready) \/ PassChunk(ready) \/ EndFrame(ready) \/ NoByte(ready)

AdapterInit ==
    /\ phaseCounter = 0 /\ inData = 0 /\ inLast = FALSE
    /\ chunkValid = FALSE /\ chunk = 0 /\ chunkLast = FALSE
    /\ frame = "Idle" /\ byteValid = FALSE /\ byte = 0
=============================================================================

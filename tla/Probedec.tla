------------------------------ MODULE Probedec ------------------------------
(***************************************************************************)
(* The host's decoder of probe frames (probedec): functions of the bytes   *)
(* received so far.                                                        *)
(***************************************************************************)
EXTENDS Naturals, SequencesExt

CONSTANTS Chunks, numberOfPhases

SOF == Chunks
EOF == Chunks + 1

(* The first start of a frame, the first end from there on; 0 if missing. *)
sof(src) == SelectInSeq(src, LAMBDA b : b = SOF)
eof(src) == SelectInSubSeq(src, sof(src), Len(src), LAMBDA b : b = EOF)

(* FrameCodec::decode: what precedes a frame is dropped with it. *)
HasFrame(src) == sof(src) # 0 /\ eof(src) # 0
Body(src)     == SubSeq(src, sof(src) + 1, eof(src) - 1)
AfterFrame(src) == SubSeq(src, eof(src) + 1, Len(src))

(* One signal of a probe's width: a row is a sample, the lowest chunk first. *)
Value(chunks) == MapThenSumSet(LAMBDA k : chunks[k] * Chunks ^ (k - 1), DOMAIN chunks)
Rows(body) == [i \in 1 .. Len(body) \div numberOfPhases |->
    Value(SubSeq(body, (i - 1) * numberOfPhases + 1, i * numberOfPhases))]
=============================================================================

----------------------------- MODULE ByteStream -----------------------------
(***************************************************************************)
(* What the UART of the board promises a program: bytes are read in the    *)
(* order they came and none twice, and what does not fit replaces the last *)
(* one only; every byte it writes is sent, in order.                       *)
(***************************************************************************)
EXTENDS Naturals, Sequences

CONSTANTS Data, Capacity, SendDepth

VARIABLES
    pending,    \* came, and not read yet
    consumed,   \* read by the program
    output,     \* written, and not sent yet
    written,    \* by the program
    sent
streamVars == <<pending, consumed, output, written, sent>>

Arrive(b) ==
    /\ pending' = Append(IF Len(pending) < Capacity THEN pending ELSE SubSeq(pending, 1, Capacity - 1), b)
    /\ UNCHANGED <<consumed, output, written, sent>>

Consume ==
    /\ pending # <<>>
    /\ consumed' = Append(consumed, Head(pending))
    /\ pending' = Tail(pending)
    /\ UNCHANGED <<output, written, sent>>

Write(b) ==
    /\ Len(output) < SendDepth
    /\ output' = Append(output, b)
    /\ written' = Append(written, b)
    /\ UNCHANGED <<pending, consumed, sent>>

Send ==
    /\ output # <<>>
    /\ sent' = Append(sent, Head(output))
    /\ output' = Tail(output)
    /\ UNCHANGED <<pending, consumed, written>>

StreamInit == pending = <<>> /\ consumed = <<>> /\ output = <<>> /\ written = <<>> /\ sent = <<>>

StreamNext == (\E b \in Data : Arrive(b) \/ Write(b)) \/ Consume \/ Send

Stream == StreamInit /\ [][StreamNext]_streamVars /\ WF_streamVars(Send)
=============================================================================

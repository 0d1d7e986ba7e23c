----------------------------- MODULE FwReceiver -----------------------------
(***************************************************************************)
(* The receiver of fwtool (receiver.rs): it cuts a stream of symbols into  *)
(* frames, one read of the line at a time.  A read returns between one     *)
(* symbol and as many as were asked for.                                   *)
(***************************************************************************)
EXTENDS FwFrame

CONSTANTS
    BufferSize,     \* MAX_PAYLOAD_WITH_CRC_SIZE
    Lines           \* what may be on the line

ASSUME ReceiverAssumption ==
    /\ BufferSize \in Nat /\ BufferSize >= HeaderSize
    /\ Lines \subseteq Seq(Symbol)

VARIABLES
    receiver,   \* [mode, got: the symbols kept in the buffer, header, discarded]
    line        \* symbols that have been sent and not yet read

vars == <<receiver, line>>

(* The states: reading a header, the rest of a frame, or past a frame.     *)
Header(got)     == [mode |-> "Header", got |-> got, header |-> NoHeader, discarded |-> 0]
Payload(h, got) == [mode |-> "Payload", got |-> got, header |-> h, discarded |-> 0]
Discard(h, n)   == [mode |-> "Discard", got |-> <<>>, header |-> h, discarded |-> n]

NewReceiver == Header(<<>>)

(* Where the next read stores its first symbol, and how many it may return. *)
Offset(r) == IF r.mode = "Discard" THEN 0 ELSE Len(r.got)
Faulty_Wanted(r) ==                                     \* discards in one read
    CASE r.mode = "Header"  -> HeaderSize - Len(r.got)
      [] r.mode = "Payload" -> r.header.length + CrcSize - Len(r.got)
      [] r.mode = "Discard" -> r.header.length + CrcSize - r.discarded
Wanted(r) ==
    CASE r.mode = "Header"  -> HeaderSize - Len(r.got)
      [] r.mode = "Payload" -> r.header.length + CrcSize - Len(r.got)
      [] r.mode = "Discard" -> Min({r.header.length + CrcSize - r.discarded, BufferSize})

(* A complete header buffer: the next state. *)
Faulty_HeaderRead(got) ==                               \* any length is accepted
    LET r == ReadHeader(got)
    IN  CASE r.result = "Ok" -> Payload(r.header, <<>>)
          [] r.result = "InsufficientLength" -> Header(SubSeq(got, r.offset + 1, Len(got)))
          [] OTHER -> Header(<<>>)
HeaderRead(got) ==
    LET r == ReadHeader(got)
    IN  CASE r.result = "Ok" -> IF r.header.length > BufferSize - CrcSize
                                THEN Discard(r.header, 0) ELSE Payload(r.header, <<>>)
          [] r.result = "InsufficientLength" -> Header(SubSeq(got, r.offset + 1, Len(got)))
          [] OTHER -> Header(<<>>)

(* The read returned chunk: the next state and the result of receive. *)
None(r) == [receiver |-> r, result |-> "None", frame |-> NoFrame]

Received(r, chunk) ==
    LET got   == r.got \o chunk
        total == Offset(r) + Len(chunk)
        read  == ReadFramePayload(r.header, got)
    IN  CASE r.mode = "Header" ->
               None(IF total = HeaderSize THEN HeaderRead(got) ELSE Header(got))
          [] r.mode = "Payload" ->
               IF total = r.header.length + CrcSize
               THEN [receiver |-> NewReceiver, result |-> read.result, frame |-> read.frame]
               ELSE None(Payload(r.header, got))
          [] r.mode = "Discard" ->
               None(IF total = r.header.length + CrcSize THEN NewReceiver
                    ELSE Discard(r.header, total))

Receive(n) ==
    /\ n \in 1 .. Wanted(receiver) /\ n <= Len(line)
    /\ receiver' = Received(receiver, SubSeq(line, 1, n)).receiver
    /\ line' = SubSeq(line, n + 1, Len(line))

Init == receiver = NewReceiver /\ line \in Lines
Next == \E n \in 1 .. BufferSize : Receive(n)
Spec == Init /\ [][Next]_vars

-----------------------------------------------------------------------------
(***************************************************************************)
(* The receiver is in one of its three states, what it keeps fits its      *)
(* buffer, and the header it keeps is one it can have read.                *)
(***************************************************************************)
TypeOK ==
    /\ receiver \in [mode : {"Header", "Payload", "Discard"}, got : Seq(Symbol),
                     header : Headers, discarded : Nat]
    /\ Len(receiver.got) <= BufferSize
    /\ line \in Seq(Symbol)

(***************************************************************************)
(* No read goes past the buffer and none asks for nothing: the counts      *)
(* subtracted from each other never underflow, whatever length a header    *)
(* on the line claims and however the reads are cut.                       *)
(***************************************************************************)
ReadFits == Wanted(receiver) > 0 /\ Offset(receiver) + Wanted(receiver) <= BufferSize
=============================================================================

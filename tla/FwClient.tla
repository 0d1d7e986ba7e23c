------------------------------ MODULE FwClient ------------------------------
(***************************************************************************)
(* The client of fwtool (client.rs): one call at a time sends a request    *)
(* and reads from the line until it has a frame.  There is no timeout; the *)
(* caller may drop a call that is waiting, and what the call had read is   *)
(* lost with it.                                                           *)
(***************************************************************************)
EXTENDS FwFrame

CONSTANTS
    Numbers,    \* 2^16 frame numbers
    Requests    \* [type, payload] that are asked for

VARIABLES
    next,       \* next_frame_number
    call,       \* [mode, type, number, got: the symbols read so far]
    outcome,    \* of the last call: "None" while it runs
    line,       \* to the server
    down        \* from the server

NoCall == [mode |-> "Idle", type |-> "QueryVersion", number |-> 0, got |-> <<>>]

-----------------------------------------------------------------------------
(* The request of a call.  The buffer it is made in is longer than its     *)
(* payload and full of zeros, but for a query.                             *)
Faulty_RequestFrame(r, number) ==                       \* a query's buffer as well
    [Frame(r.type, FALSE, number, r.payload) EXCEPT !.payload = @ \o [i \in 1 .. CrcSize |-> 0]]
RequestFrame(r, number) ==
    LET f     == Frame(r.type, FALSE, number, r.payload)
        spare == [i \in 1 .. HeaderSize + CrcSize |-> 0]
    IN  IF r.type = "QueryVersion" THEN f ELSE [f EXCEPT !.payload = @ \o spare]

Sent(f) == WriteFrame(f, HeaderSize + f.header.length + CrcSize)

Call(r) ==
    /\ call.mode = "Idle"
    /\ call' = [mode |-> "Header", type |-> r.type, number |-> next, got |-> <<>>]
    /\ next' = (next + 1) % Numbers
    /\ line' = line \o Sent(RequestFrame(r, next))
    /\ outcome' = "None"
    /\ UNCHANGED down

(* How much of a frame receive_frame_raw still asks for: the length is     *)
(* taken from where a header has it, whether or not a marker is in front.  *)
Faulty_Missing(c) ==                                    \* checksum left on the line
    (IF c.mode = "Header" THEN HeaderSize ELSE HeaderSize + HeaderOf(Tail(c.got)).length)
        - Len(c.got)
Missing(c) ==
    (IF c.mode = "Header" THEN HeaderSize ELSE HeaderSize + HeaderOf(Tail(c.got)).length + CrcSize)
        - Len(c.got)

(* The frame read is the answer to the call. *)
Faulty_Answers(f, c) == f.header.response /\ f.header.type = c.type     \* number not compared
Answers(f, c) == f.header.number = c.number /\ f.header.response /\ f.header.type = c.type

Result(c) ==
    LET r == ReadFrame(c.got)
    IN  IF r.result = "Ok" /\ LengthOk(r.frame) /\ Answers(r.frame, c) THEN "Ok" ELSE "Err"

Return(result) == outcome' = result /\ call' = NoCall

HeaderRead(c) ==
    IF TypesOf(c.got[2]) = {} THEN Return("Err")
    ELSE call' = [c EXCEPT !.mode = "Payload"] /\ UNCHANGED outcome

(* A read returned n symbols: more is missing, or the rest of the frame is *)
(* to be read next, or the call returns.                                   *)
Receive(n) ==
    /\ call.mode # "Idle"
    /\ n \in 1 .. Missing(call) /\ n <= Len(down)
    /\ \E c \in {[call EXCEPT !.got = @ \o SubSeq(down, 1, n)]} :
          \/ n < Missing(call) /\ call' = c /\ UNCHANGED outcome
          \/ n = Missing(call) /\ call.mode = "Header" /\ HeaderRead(c)
          \/ n = Missing(call) /\ call.mode = "Payload" /\ Return(Result(c))
    /\ down' = SubSeq(down, n + 1, Len(down))
    /\ UNCHANGED <<next, line>>

(* The future of the call is dropped. *)
Abandon ==
    /\ call.mode # "Idle"
    /\ Return("Abandoned")
    /\ UNCHANGED <<next, line, down>>

Init == next = 1 /\ call = NoCall /\ outcome = "None" /\ line = <<>> /\ down = <<>>
=============================================================================

------------------------------ MODULE FwServer ------------------------------
(***************************************************************************)
(* The server of fwtool (server.rs) with the firmware's handler (main.rs): *)
(* process writes what is pending of the last response, and when nothing   *)
(* is left it reads from the line once and answers the frame that this     *)
(* read may have completed.                                                *)
(***************************************************************************)
EXTENDS FwReceiver

CONSTANTS
    MemSize,        \* APPIMAGE_BUFFER.len()
    AddressSpace,   \* 2^32: addresses are added modulo this
    Version         \* on_query_version

ASSUME ServerAssumption ==
    /\ MemSize \in Nat /\ AddressSpace \in Nat /\ MemSize < AddressSpace
    /\ Version \in Symbol
    /\ BufferSize >= HeaderSize + 2 + CrcSize   \* the longest fixed response

MaxPayload == BufferSize - HeaderSize - CrcSize

VARIABLES
    pending,    \* symbols of the response still to be written
    down,       \* the line to the client
    mem,        \* APPIMAGE_BUFFER
    panicked,   \* a slice was out of range: the firmware loops for ever
    answered    \* history: the responses made so far

serverVars == <<receiver, line, pending, down, mem, panicked, answered>>

ErrorCode == [InvalidParameter |-> 1, InvalidAddress |-> 2, LengthTooLong |-> 3, InvalidRequest |-> 4]

-----------------------------------------------------------------------------
(* The handler's test of an address range, and a range it lets through     *)
(* that is no slice of the memory.                                         *)
End(address, n) == (address + n) % AddressSpace
Outside(address, n) == End(address, n) > MemSize
BadSlice(address, n) ==
    ~Outside(address, n) /\ (End(address, n) < address \/ End(address, n) > MemSize)

(* The response to a frame. *)
ReadPanics(address, n) ==
    /\ n <= BufferSize - CrcSize
    /\ \/ n > BufferSize - HeaderSize                \* no such slice of the buffer
       \/ BadSlice(address, n)                       \* no such slice of the memory
       \/ ~Outside(address, n) /\ n > MaxPayload     \* no room for the checksum

ReadMemory(number, address, n) ==
    IF n > BufferSize - CrcSize THEN ErrorResponse(number, ErrorCode.LengthTooLong)
    ELSE IF Outside(address, n) THEN ErrorResponse(number, ErrorCode.InvalidAddress)
    ELSE Frame("ReadMemory", TRUE, number, [i \in 1 .. n |-> mem[address + i - 1]])

WriteMemory(number, address, data) ==
    IF Outside(address, Len(data)) THEN ErrorResponse(number, ErrorCode.InvalidAddress)
    ELSE Frame("WriteMemory", TRUE, number, <<>>)

Panics(f) ==
    /\ ~f.header.response
    /\ \/ f.header.type = "ReadMemory" /\ ReadPanics(f.payload[1], f.payload[2])
       \/ f.header.type = "WriteMemory" /\ BadSlice(f.payload[1], f.header.length - 1)

ResponseTo(f) ==
    LET n == f.header.number
    IN  IF f.header.response THEN ErrorResponse(n, ErrorCode.InvalidRequest)
        ELSE CASE f.header.type = "QueryVersion" -> Frame("QueryVersion", TRUE, n, <<Version, MaxPayload>>)
               [] f.header.type = "ReadMemory"   -> ReadMemory(n, f.payload[1], f.payload[2])
               [] f.header.type = "WriteMemory"  -> WriteMemory(n, f.payload[1], Tail(f.payload))
               [] f.header.type = "Run"          -> Frame("Run", TRUE, n, <<>>)

Faulty_MemoryAfter(f) ==                                \* writes what fits
    IF f.header.type = "WriteMemory" /\ ~f.header.response
    THEN [a \in DOMAIN mem |-> IF a - f.payload[1] \in 0 .. f.header.length - 2
                               THEN f.payload[a - f.payload[1] + 2] ELSE mem[a]]
    ELSE mem
MemoryAfter(f) ==
    LET address == f.payload[1]
        data    == Tail(f.payload)
    IN  IF f.header.type = "WriteMemory" /\ ~f.header.response /\ ~Outside(address, Len(data))
        THEN [a \in DOMAIN mem |-> IF a \in address .. address + Len(data) - 1
                                   THEN data[a - address + 1] ELSE mem[a]]
        ELSE mem

-----------------------------------------------------------------------------
(* process, when the writer takes k symbols and that is not all.           *)
WritePending(k) ==
    /\ k < Len(pending)
    /\ down' = down \o SubSeq(pending, 1, k)
    /\ pending' = SubSeq(pending, k + 1, Len(pending))
    /\ UNCHANGED <<receiver, line, mem, panicked, answered>>

(* A read that completes no frame, or one that is no request or response.  *)
Accepted(r) == r.result = "Ok" /\ LengthOk(r.frame)

Faulty_Flush(rest) ==                                   \* does not wait for the rest to be written
    \E k \in 0 .. Len(pending) :
        /\ down' = down \o SubSeq(pending, 1, k)
        /\ pending' = IF rest = <<>> THEN SubSeq(pending, k + 1, Len(pending)) ELSE rest
Flush(rest) == down' = down \o pending /\ pending' = rest

Idle ==
    /\ pending # <<>>
    /\ Flush(<<>>)
    /\ UNCHANGED <<receiver, line, mem, panicked, answered>>

ReadOn(r) ==
    /\ ~Accepted(r)
    /\ Flush(<<>>)
    /\ UNCHANGED <<mem, panicked, answered>>

Respond(r) ==
    /\ Accepted(r) /\ ~Panics(r.frame)
    /\ \E response \in {ResponseTo(r.frame)} :
           /\ Flush(Encode(response))
           /\ answered' = Append(answered, response)
    /\ mem' = MemoryAfter(r.frame)
    /\ UNCHANGED panicked

Panic(r) ==
    /\ Accepted(r) /\ Panics(r.frame)
    /\ panicked' = TRUE
    /\ Flush(<<>>)
    /\ UNCHANGED <<mem, answered>>

(* One read of n symbols, and what becomes of the frame it completes. *)
ReadSome(n) ==
    /\ Receive(n)
    /\ \E r \in {Received(receiver, SubSeq(line, 1, n))} : ReadOn(r) \/ Respond(r) \/ Panic(r)

Process ==
    /\ ~panicked
    /\ \/ \E k \in 1 .. Len(pending) - 1 : WritePending(k)
       \/ Idle
       \/ \E n \in 1 .. BufferSize : ReadSome(n)

ServerInit ==
    /\ receiver = NewReceiver /\ line \in Lines
    /\ pending = <<>> /\ down = <<>> /\ panicked = FALSE /\ answered = <<>>
    /\ mem = [a \in 0 .. MemSize - 1 |-> 0]

(* The firmware's loop calls process for ever, and the UART drains: a call *)
(* in which neither a symbol is written nor one is read is a stutter.      *)
ServerSpec == ServerInit /\ [][Process]_serverVars /\ WF_serverVars(Process)

-----------------------------------------------------------------------------
(***************************************************************************)
(* The responses go out whole and in order: whatever the writer took at a  *)
(* time, and although the next request may have arrived meanwhile, what is *)
(* on the line and what is pending are the encoded responses, one after    *)
(* the other.                                                              *)
(***************************************************************************)
AnswersWhole ==
    down \o pending = FlattenSeq([i \in DOMAIN answered |-> Encode(answered[i])])

(***************************************************************************)
(* The firmware never panics: no slice of a buffer is out of range for any *)
(* length and address a request names.                                     *)
(***************************************************************************)
NoPanic == ~panicked

-----------------------------------------------------------------------------
(* The request FwService knows the frame as. *)
RequestOf(f) ==
    LET plain == [op |-> f.header.type, number |-> f.header.number,
                  address |-> 0, length |-> 0, data |-> <<>>]
    IN  IF f.header.response THEN [plain EXCEPT !.op = "Other"]
        ELSE CASE f.header.type = "ReadMemory"  -> [plain EXCEPT !.address = f.payload[1],
                                                                 !.length = f.payload[2]]
               [] f.header.type = "WriteMemory" -> [plain EXCEPT !.address = f.payload[1],
                                                                 !.length = f.header.length - 1,
                                                                 !.data = Tail(f.payload)]
               [] OTHER -> plain

(* The answer FwService knows the frame as: an error response carries a code. *)
AnswerOf(f) ==
    [number |-> f.header.number, value |-> f.payload,
     op |-> IF f.header.type = "Run" /\ f.header.length = 1 THEN "Error" ELSE f.header.type]
=============================================================================

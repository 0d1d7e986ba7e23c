------------------------------- MODULE FwFrame ------------------------------
(***************************************************************************)
(* The frames of fwtool (frame.rs): what goes over the serial line between *)
(* the host's client and the server in the firmware.                       *)
(*                                                                         *)
(* A symbol is a field: the frame type (one byte in the code), the frame   *)
(* number, a length, an address, a version or an error code (two or four   *)
(* bytes, big endian), a data byte, the checksum.  Lengths count symbols.  *)
(* All are numbers, so that any symbol may be taken for a marker or for a  *)
(* frame type.                                                             *)
(***************************************************************************)
EXTENDS Naturals, SequencesExt

CONSTANT Crc(_, _)      \* checksum over a frame's header and payload

Marker     == 90                            \* FRAME_MARKER
HeaderSize == 4                             \* marker, type, number, length
CrcSize    == 1

FrameType == [QueryVersion |-> 0, ReadMemory |-> 1, WriteMemory |-> 2, Run |-> 3]
Response  == 128                            \* direction bit of the type

Symbol  == Nat
Headers == [type : DOMAIN FrameType, response : BOOLEAN, number : Nat, length : Nat]
NoHeader == [type |-> "QueryVersion", response |-> FALSE, number |-> 0, length |-> 0]

HeaderBytes(h) ==
    <<Marker, FrameType[h.type] + (IF h.response THEN Response ELSE 0), h.number, h.length>>

(* Both directions of every type are known; nothing parses as an error     *)
(* response, whose code is the direction bit alone.                        *)
TypesOf(byte) == {t \in DOMAIN FrameType : byte \in {FrameType[t], FrameType[t] + Response}}

(* The header after the marker, from four symbols or more. *)
HeaderOf(bytes) ==
    [type |-> CHOOSE t \in TypesOf(bytes[1]) : TRUE, response |-> bytes[1] >= Response,
     number |-> bytes[2], length |-> bytes[3]]

(* What read_header finds in bytes: the offset of the first marker and the *)
(* header behind it, or an error.                                          *)
ReadHeader(bytes) ==
    LET at   == SelectInSeq(bytes, LAMBDA b : b = Marker)
        rest == SubSeq(bytes, at + 1, Len(bytes))
    IN  IF at = 0 THEN [result |-> "NoFrameMarker", offset |-> Len(bytes)]
        ELSE IF Len(rest) < HeaderSize - 1 THEN [result |-> "InsufficientLength", offset |-> at - 1]
        ELSE IF TypesOf(rest[1]) = {} THEN [result |-> "InvalidFrameType", offset |-> at - 1]
        ELSE [result |-> "Ok", offset |-> at - 1 + HeaderSize, header |-> HeaderOf(rest)]

NoFrame == [header |-> NoHeader, payload |-> <<>>]

(* The payload behind a header, when its checksum is the frame's. *)
ReadFramePayload(h, bytes) ==
    LET payload == SubSeq(bytes, 1, h.length)
    IN  IF Len(bytes) < h.length + CrcSize THEN [result |-> "InsufficientLength", frame |-> NoFrame]
        ELSE IF bytes[h.length + 1] # Crc(h, payload) THEN [result |-> "CrcMismatch", frame |-> NoFrame]
        ELSE [result |-> "Ok", frame |-> [header |-> h, payload |-> payload]]

(* A whole frame, wherever its marker is. *)
ReadFrame(bytes) ==
    LET r == ReadHeader(bytes)
    IN  IF r.result # "Ok" THEN [result |-> r.result, frame |-> NoFrame]
        ELSE ReadFramePayload(r.header, SubSeq(bytes, r.offset + 1, Len(bytes)))

-----------------------------------------------------------------------------
(* A frame's bytes as they should be: calculate_crc over as much of the    *)
(* payload as the header says.                                             *)
Encode(f) ==
    LET payload == SubSeq(f.payload, 1, f.header.length)
    IN  HeaderBytes(f.header) \o payload \o <<Crc(f.header, payload)>>

(* write_frame writes all of the payload's buffer before the checksum, and *)
(* a cursor drops what does not fit its room.                              *)
WriteFrame(f, room) ==
    LET payload == SubSeq(f.payload, 1, f.header.length)
        written == HeaderBytes(f.header) \o f.payload \o <<Crc(f.header, payload)>>
    IN  SubSeq(written, 1, room)

(* The conversion of a raw frame checks the length its type has. *)
Faulty_LengthOk(f) ==                                   \* takes a run response for a request
    CASE f.header.type = "QueryVersion" -> f.header.length = IF f.header.response THEN 2 ELSE 0
      [] f.header.type = "ReadMemory"   -> f.header.response \/ f.header.length = 2
      [] f.header.type = "WriteMemory"  -> IF f.header.response THEN f.header.length = 0
                                           ELSE f.header.length >= 1
      [] f.header.type = "Run"          -> f.header.length = 1
LengthOk(f) ==
    CASE f.header.type = "QueryVersion" -> f.header.length = IF f.header.response THEN 2 ELSE 0
      [] f.header.type = "ReadMemory"   -> f.header.response \/ f.header.length = 2
      [] f.header.type = "WriteMemory"  -> IF f.header.response THEN f.header.length = 0
                                           ELSE f.header.length >= 1
      [] f.header.type = "Run"          -> f.header.length = IF f.header.response THEN 0 ELSE 1

Frame(type, response, number, payload) ==
    [header |-> [type |-> type, response |-> response, number |-> number, length |-> Len(payload)],
     payload |-> payload]

(* An error response carries the type of a run response. *)
ErrorResponse(number, code) == Frame("Run", TRUE, number, <<code>>)
=============================================================================

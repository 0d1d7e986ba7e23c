------------------------------- MODULE Driver -------------------------------
(***************************************************************************)
(* The firmware in Rust between the fwtool server and the registers        *)
(* (sw-rs/src/main.rs and uart.rs): the main loop, and the reader and the  *)
(* writer the server is given, one bus access in each step.                *)
(*                                                                         *)
(* Of the server (module FwServer) this keeps when process calls which:    *)
(* write with what is left of the response; when nothing is left, read;    *)
(* and what is read may complete a request and bring the next response.    *)
(***************************************************************************)
EXTENDS Pac, UartPort

CONSTANTS
    Responses,          \* what the server may answer
    MaxRead,            \* longest read it asks for
    MaxAnswers          \* bound on the bytes answered

ASSUME ResponsesAssumption == Responses \subseteq Seq(Bytes) \ {<<>>}
ASSUME ReadAssumption      == MaxRead \in Nat \ {0} /\ MaxAnswers \in Nat

VARIABLES
    DEVICE_PERIPHERALS, \* Peripherals::take was called
    led_out_next,       \* led_out of main
    want, buf,          \* bytes asked for by this call of read, and read
    answers             \* history: all responses, one after the other

serverVars == <<DEVICE_PERIPHERALS, led_out_next, want, buf, answers>>
lineHist   == <<lineVars, told, got>>

ServerSteps == {"start", "led", "w_status", "w_data", "w_end", "r_status", "r_data", "r_end"}

Rest(s, n) == SubSeq(s, n + 1, Len(s))

-----------------------------------------------------------------------------
Take ==
    /\ pc = "start" /\ ~DEVICE_PERIPHERALS
    /\ DEVICE_PERIPHERALS' = TRUE
    /\ pc' = "led"
    /\ UNCHANGED <<devices, lineHist, sendVars, led_out_next, want, buf, answers>>

Faulty_Rotate(w) == Shl(w, 1) \cap (0 .. 5)             \* the last LED does not come back
Rotate(w) == (Shl(w, 1) \cap (0 .. 5)) \cup Shr(w, 5)

(* The turn of main's loop, and what process begins with. *)
Led ==
    /\ pc = "led"
    /\ JustStore(led_out.offset, RawBits(WriteStart(led_out), led_out_next))
    /\ led_out_next' = Rotate(led_out_next)
    /\ count' = 0
    /\ \E n \in 1 .. MaxRead : want' = n
    /\ pc' = IF pending = <<>> THEN "r_status" ELSE "w_status"
    /\ UNCHANGED <<lineHist, pending, DEVICE_PERIPHERALS, buf, answers>>

(* UartWriter::write: a byte at a time, until one would block. *)
WriteStatus ==
    /\ pc = "w_status"
    /\ JustLoad(status.offset)
    /\ pc' = "w_data"
    /\ UNCHANGED <<lineHist, sendVars, serverVars>>

Faulty_WriteReady == TRUE                               \* the status is not looked at
WriteReady == ~IsNotReady(word, status.fields.txready)

WriteBlocks ==
    /\ pc = "w_data" /\ ~WriteReady
    /\ pc' = "w_end"
    /\ UNCHANGED <<devices, lineHist, sendVars, serverVars>>

WriteData ==
    /\ pc = "w_data" /\ WriteReady
    /\ JustStore(txd.offset, SetField(WriteStart(txd), txd.fields.data, pending[count + 1]))
    /\ told' = Append(told, pending[count + 1])
    /\ count' = count + 1
    /\ pc' = IF count' = Len(pending) THEN "w_end" ELSE "w_status"
    /\ UNCHANGED <<lineVars, got, pending, serverVars>>

(* process again: it reads only when everything is written. *)
WriteEnd ==
    /\ pc = "w_end"
    /\ pc' = IF count = Len(pending) THEN "r_status" ELSE "led"
    /\ pending' = Rest(pending, count)
    /\ count' = 0
    /\ UNCHANGED <<devices, lineHist, serverVars>>

-----------------------------------------------------------------------------
(* UartReader::read *)
ReadStatus ==
    /\ pc = "r_status"
    /\ JustLoad(status.offset)
    /\ pc' = "r_data"
    /\ UNCHANGED <<lineHist, sendVars, serverVars>>

ReadReady == IsReady(word, status.fields.rxready)

ReadBlocks ==
    /\ pc = "r_data" /\ ~ReadReady
    /\ pc' = "r_end"
    /\ UNCHANGED <<devices, lineHist, sendVars, serverVars>>

ReadData ==
    /\ pc = "r_data" /\ ReadReady
    /\ JustLoad(rxd.offset)
    /\ \E b \in {FieldBits(word', rxd.fields.rxd)} : got' = Append(got, b) /\ buf' = Append(buf, b)
    /\ pc' = IF Len(buf') = want THEN "r_end" ELSE "r_status"
    /\ UNCHANGED <<lineVars, told, sendVars, DEVICE_PERIPHERALS, led_out_next, want, answers>>

(* What was read may complete a request. *)
ReadEnd ==
    /\ pc = "r_end"
    /\ \E r \in Responses \cup {<<>>} :
           /\ r # <<>> => buf # <<>> /\ Len(answers) + Len(r) <= MaxAnswers
           /\ pending' = r
           /\ answers' = answers \o r
    /\ buf' = <<>>
    /\ pc' = "led"
    /\ UNCHANGED <<devices, lineHist, count, DEVICE_PERIPHERALS, led_out_next, want>>

ServerStep ==
    \/ Take \/ Led
    \/ WriteStatus \/ WriteBlocks \/ WriteData \/ WriteEnd
    \/ ReadStatus \/ ReadBlocks \/ ReadData \/ ReadEnd

ServerInit ==
    /\ DEVICE_PERIPHERALS = FALSE /\ led_out_next = {0}
    /\ want = 1 /\ buf = <<>> /\ answers = <<>>

ServerTypeOK ==
    /\ DEVICE_PERIPHERALS \in BOOLEAN
    /\ led_out_next \in SUBSET (0 .. 5)
    /\ want \in 1 .. MaxRead
    /\ buf \in Seq(Bytes) /\ answers \in Seq(Bytes)
=============================================================================

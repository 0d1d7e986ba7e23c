------------------------------ MODULE UartPort ------------------------------
(***************************************************************************)
(* The UART of a board as its program meets it (TopWithSegmentLed.scala):  *)
(* the receiver's register, the two queues of Depth bytes, and what the    *)
(* transmitter takes.  Bits on the line are the matter of Serial.          *)
(***************************************************************************)
EXTENDS Devices

CONSTANTS
    Bytes,              \* the bytes there are: all 256, or some for an instance
    Arriving            \* those that come, in order: the bound on the arrivals

ASSUME BytesAssumption    == Bytes \subseteq Byte /\ {} \in Bytes
ASSUME ArrivalsAssumption == Arriving \in Seq(Bytes)

VARIABLES
    held,               \* the word at the receiver's output: at most one
    arrivals, wire,     \* how many bytes came, and the bytes sent
    told, got,          \* what the program believes it has sent, and has read
    pc,                 \* of the processor, whichever program it runs
    pending, count      \* what the program is sending, and how much of it it has

lineVars == <<held, arrivals, wire>>
sendVars == <<pending, count>>
progVars == <<told, got, pc, sendVars>>
portVars == <<devices, lineVars, progVars>>

(* A byte replaces the one the queue had no room for.  Between two bytes   *)
(* lie thousands of cycles, so that the queue took the one before if it    *)
(* could.                                                                  *)
Receive ==
    /\ arrivals < Len(Arriving)
    /\ held # <<>> => Len(rxQueue) = Depth
    /\ arrivals' = arrivals + 1
    /\ held' = <<Arriving[arrivals']>>
    /\ UNCHANGED <<devices, wire, progVars>>

Faulty_Enqueue ==                                       \* does not wait for room
    /\ held # <<>>
    /\ rxQueue' = Append(rxQueue, held[1])
    /\ held' = <<>>
    /\ UNCHANGED <<outReg, inReg, txQueue, word, arrivals, wire, progVars>>
Enqueue ==
    /\ held # <<>> /\ Len(rxQueue) < Depth
    /\ rxQueue' = Append(rxQueue, held[1])
    /\ held' = <<>>
    /\ UNCHANGED <<outReg, inReg, txQueue, word, arrivals, wire, progVars>>

Transmit ==
    /\ txQueue # <<>>
    /\ wire' = Append(wire, Head(txQueue))
    /\ txQueue' = Tail(txQueue)
    /\ UNCHANGED <<outReg, inReg, rxQueue, word, held, arrivals, progVars>>

(* core.io.interrupt_in *)
interrupt_in == rxQueue # <<>>

PortInit ==
    /\ outReg = [p \in Ports |-> {}] /\ inReg = [p \in Ports |-> {}] /\ word = {}
    /\ txQueue = <<>> /\ rxQueue = <<>>
    /\ held = <<>> /\ arrivals = 0 /\ wire = <<>>
    /\ told = <<>> /\ got = <<>> /\ count = 0

PortTypeOK ==
    /\ DevicesTypeOK
    /\ txQueue \in Seq(Bytes) /\ rxQueue \in Seq(Bytes)
    /\ held \in Seq(Bytes) /\ Len(held) <= 1
    /\ arrivals \in 0 .. Len(Arriving)
    /\ wire \in Seq(Bytes) /\ told \in Seq(Bytes) /\ got \in Seq(Bytes)
    /\ pending \in Seq(Bytes) /\ count \in 0 .. Len(pending)
=============================================================================

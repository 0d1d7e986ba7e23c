------------------------------ MODULE Devices -------------------------------
(***************************************************************************)
(* The devices of the board in between the accesses of the program: the    *)
(* GPIO registers and the two UART queues, and the word last loaded.       *)
(***************************************************************************)
EXTENDS IoBus

CONSTANT Junk           \* bytes an empty queue may show

ASSUME JunkAssumption == Junk \subseteq Byte /\ Junk # {}

VARIABLES
    outReg, inReg,      \* per port: what the board drives, what its pins say
    txQueue, rxQueue,   \* bytes to be sent, bytes received
    word                \* the word last loaded

devices == <<outReg, inReg, txQueue, rxQueue, word>>

Load(addr) == \E junk \in Junk :
    /\ word' = LoadWord(outReg, inReg, txQueue, rxQueue, addr, junk)
    /\ rxQueue' = RxAfterLoad(rxQueue, addr)
    /\ UNCHANGED inReg

Store(addr, data) ==
    /\ outReg' = OutAfterStore(outReg, addr, data, AllLanes)
    /\ txQueue' = TxAfterStore(txQueue, addr, data, AllLanes)

JustLoad(addr)        == Load(addr) /\ UNCHANGED <<outReg, txQueue>>
JustStore(addr, data) == Store(addr, data) /\ UNCHANGED <<inReg, rxQueue, word>>

DevicesTypeOK ==
    /\ outReg \in [Ports -> Word] /\ inReg \in [Ports -> Word]
    /\ txQueue \in Seq(Byte) /\ Len(txQueue) <= Depth
    /\ rxQueue \in Seq(Byte) /\ Len(rxQueue) <= Depth
    /\ word \in Word
=============================================================================

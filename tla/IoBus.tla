-------------------------------- MODULE IoBus -------------------------------
(***************************************************************************)
(* The devices behind the data bus of TopWithSegmentLed, as one access     *)
(* sees them: the address decoder (cpu/Decoder.scala), the GPIO array      *)
(* (cpu/Gpio.scala) and the two UART registers (cpu/IORegister.scala) with *)
(* the queues wired to them.  Addresses count from 0xA0000000.             *)
(***************************************************************************)
EXTENDS Integers, Sequences

CONSTANT Depth          \* bytes in each of the two UART queues: 16

ASSUME DepthAssumption == Depth \in Nat \ {0}

-----------------------------------------------------------------------------
(* What is read and written bit by bit: a word is the set of the positions *)
(* of its ones.  & is \cap, | is \cup and & ! is set difference.           *)

Positions == 0 .. 31
Word      == SUBSET Positions
Byte      == SUBSET (0 .. 7)

Shl(w, n) == {i \in Positions : i - n \in w}
Shr(w, n) == {i \in Positions : i + n \in w}

(* 0xDEADBEEF, what the bus says when nobody answers. *)
DeadBeef == Positions \ {4, 8, 14, 17, 20, 22, 24, 29}

-----------------------------------------------------------------------------
Ports == 0 .. 5

(* The bits of an address above the two of the byte: how many are compared *)
(* differs between the devices, and between a load and a store.            *)
AddrWord(addr, nWords) == (addr \div 4) % nWords

Strobed(strb) == {i \in Positions : i \div 8 \in strb}
AllLanes == 0 .. 3

-----------------------------------------------------------------------------
(* The decoder: a range each, and the address inside it.                   *)

GpioRange == 6 * 16
UartRange == 2 * 4

AtGpio(addr)     == 0 <= addr /\ addr < GpioRange
AtUart(addr)     == 4096 <= addr /\ addr < 4096 + UartRange
UartOffset(addr) == addr - 4096

-----------------------------------------------------------------------------
(* GpioArray: four words a port, of which two are there.                   *)

PortWord(p, k) == 4 * p + k

GpioLoad(outReg, inReg, addr) ==
    LET word == AddrWord(addr, 32) IN
    {i \in Positions : \E p \in Ports : \/ word = PortWord(p, 0) /\ i \in outReg[p]
                                        \/ word = PortWord(p, 1) /\ i \in inReg[p]}
      \cup (IF \E p \in Ports : word \in {PortWord(p, 0), PortWord(p, 1)} THEN {} ELSE DeadBeef)

GpioStore(outReg, addr, data, strb) ==
    [p \in Ports |-> IF AddrWord(addr, 64) = PortWord(p, 0)
                     THEN (outReg[p] \ Strobed(strb)) \cup (data \cap Strobed(strb))
                     ELSE outReg[p]]

-----------------------------------------------------------------------------
(* IORegister with the masks of the UART: which bits a load sees and which *)
(* a store passes on.                                                      *)

ReadMask(i)  == IF i = 0 THEN (0 .. 7) \cup {16} ELSE {0, 1}
WriteMask(i) == IF i = 0 THEN 0 .. 7 ELSE {}

(* in(0).bits and in(1).bits.  An empty queue shows what its memory holds. *)
DataIn(rxQueue, junk) == IF rxQueue = <<>> THEN junk ELSE Head(rxQueue) \cup {16}
Faulty_StatusIn(txQueue, rxQueue) ==                    \* the two flags swapped
    (IF Len(txQueue) < Depth THEN {1} ELSE {}) \cup (IF rxQueue # <<>> THEN {0} ELSE {})
StatusIn(txQueue, rxQueue) ==
    (IF Len(txQueue) < Depth THEN {0} ELSE {}) \cup (IF rxQueue # <<>> THEN {1} ELSE {})

UartLoad(txQueue, rxQueue, addr, junk) ==
    LET i == AddrWord(UartOffset(addr), 2) IN
    (IF i = 0 THEN DataIn(rxQueue, junk) ELSE StatusIn(txQueue, rxQueue)) \cap ReadMask(i)

(* in(0).ready and out(0).valid: an access of the first register only.     *)
Faulty_AtData(addr) == AtUart(addr)                     \* either register
AtData(addr) == AtUart(addr) /\ AddrWord(UartOffset(addr), 4) = 0

RxAfterLoad(rxQueue, addr) ==
    IF AtData(addr) /\ rxQueue # <<>> THEN Tail(rxQueue) ELSE rxQueue

TxAfterStore(txQueue, addr, data, strb) ==
    IF AtData(addr) /\ Len(txQueue) < Depth
    THEN Append(txQueue, data \cap Strobed(strb) \cap WriteMask(0)) ELSE txQueue

-----------------------------------------------------------------------------
(* One access of the whole bus.                                            *)

LoadWord(outReg, inReg, txQueue, rxQueue, addr, junk) ==
    CASE AtGpio(addr) -> GpioLoad(outReg, inReg, addr)
      [] AtUart(addr) -> UartLoad(txQueue, rxQueue, addr, junk)
      [] OTHER        -> DeadBeef

OutAfterStore(outReg, addr, data, strb) ==
    IF AtGpio(addr) THEN GpioStore(outReg, addr, data, strb) ELSE outReg
=============================================================================

----------------------------- MODULE BusLemmas ------------------------------
(***************************************************************************)
(* What one access through the register access crate does to the devices   *)
(* of the board, for every word and every depth of the queues: the facts   *)
(* the proofs about programs (BoardProofs, WordProofs) rest on.            *)
(***************************************************************************)
EXTENDS Pac, IoBus, TLAPS

(* The addresses of the two UART registers, 0xA0001000 and 0xA0001004,     *)
(* as the devices tell them apart.                                         *)
IsData(addr) ==
    ~AtGpio(addr) /\ AtUart(addr) /\ AddrWord(UartOffset(addr), 2) = 0 /\ AtData(addr)
IsStatus(addr) ==
    ~AtGpio(addr) /\ AtUart(addr) /\ AddrWord(UartOffset(addr), 2) = 1 /\ ~AtData(addr)

(* The registers of the UART are where the devices look for them. *)
LEMMA UartOffsets ==
    /\ IsData(txd.offset) /\ IsData(rxd.offset) /\ IsStatus(status.offset)
    /\ IsData(4096) /\ IsStatus(4096 + 4)
  <1>1. txd.offset = 4096 /\ rxd.offset = 4096 /\ status.offset = 4096 + 4
    BY DEF txd, rxd, status, Register, UART
  <1>2. IsData(4096)
    BY DEF IsData, AtGpio, AtUart, AddrWord, UartOffset, AtData, GpioRange, UartRange
  <1>3. IsStatus(4096 + 4)
    BY DEF IsStatus, AtGpio, AtUart, AddrWord, UartOffset, AtData, GpioRange, UartRange
  <1> QED
    BY <1>1, <1>2, <1>3, SMT

(* The registers of the GPIO block are in its range. *)
LEMMA GpioOffsets == \A r \in GpioRegisters : r.offset \in Int /\ AtGpio(r.offset)
  BY DEF GpioRegisters, segled_out_l, segled_out_h, matrix_out_l, matrix_out_h, led_out, sw_in,
         Register, GPIO, AtGpio, GpioRange

(* Loading the status takes no byte and shows the two flags of the queues, *)
(* and no other bit.                                                       *)
LEMMA StatusLoad ==
    ASSUME NEW outReg, NEW inReg, NEW txQueue, NEW rxQueue, NEW junk,
           NEW addr, IsStatus(addr),
           NEW w, w = LoadWord(outReg, inReg, txQueue, rxQueue, addr, junk)
    PROVE  /\ w \subseteq {0, 1}
           /\ 0 \in w <=> Len(txQueue) < Depth
           /\ 1 \in w <=> rxQueue # <<>>
           /\ RxAfterLoad(rxQueue, addr) = rxQueue
  <1>1. w = StatusIn(txQueue, rxQueue) \cap {0, 1}
    BY DEF IsStatus, LoadWord, UartLoad, ReadMask
  <1> QED
    BY <1>1 DEF IsStatus, StatusIn, RxAfterLoad

(* Loading the data takes the oldest byte and marks it valid.              *)
LEMMA DataLoad ==
    ASSUME NEW outReg, NEW inReg, NEW txQueue, NEW rxQueue \in Seq(Byte), rxQueue # <<>>,
           NEW junk, NEW addr, IsData(addr)
    PROVE  /\ LoadWord(outReg, inReg, txQueue, rxQueue, addr, junk) = Head(rxQueue) \cup {16}
           /\ RxAfterLoad(rxQueue, addr) = Tail(rxQueue)
  <1>1. LoadWord(outReg, inReg, txQueue, rxQueue, addr, junk)
          = (Head(rxQueue) \cup {16}) \cap ((0 .. 7) \cup {16})
    BY DEF IsData, LoadWord, UartLoad, ReadMask, DataIn
  <1>2. Head(rxQueue) \subseteq 0 .. 7
    BY DEF Byte
  <1>3. (Head(rxQueue) \cup {16}) \cap ((0 .. 7) \cup {16}) = Head(rxQueue) \cup {16}
    BY <1>2, Zenon
  <1>4. RxAfterLoad(rxQueue, addr) = Tail(rxQueue)
    BY DEF IsData, RxAfterLoad
  <1> QED
    BY <1>1, <1>3, <1>4

(* The data register of an empty queue shows whatever is there.            *)
LEMMA EmptyLoad ==
    ASSUME NEW outReg, NEW inReg, NEW txQueue, NEW junk \in Byte, NEW addr, IsData(addr)
    PROVE  /\ LoadWord(outReg, inReg, txQueue, <<>>, addr, junk) = junk
           /\ RxAfterLoad(<<>>, addr) = <<>>
  <1>1. LoadWord(outReg, inReg, txQueue, <<>>, addr, junk) = junk \cap ((0 .. 7) \cup {16})
    BY DEF IsData, LoadWord, UartLoad, ReadMask, DataIn
  <1>2. junk \subseteq 0 .. 7
    BY DEF Byte
  <1>3. junk \cap ((0 .. 7) \cup {16}) = junk
    BY <1>2, Zenon
  <1>4. RxAfterLoad(<<>>, addr) = <<>>
    BY DEF RxAfterLoad
  <1> QED
    BY <1>1, <1>3, <1>4

(* A store to the data register adds the low byte to the transmit queue if *)
(* there is room and changes no port; a store to a port adds nothing.      *)
LEMMA DataStore ==
    ASSUME NEW outReg, NEW txQueue, NEW data \in SUBSET Positions,
           NEW addr, IsData(addr)
    PROVE  /\ OutAfterStore(outReg, addr, data, AllLanes) = outReg
           /\ Len(txQueue) < Depth => TxAfterStore(txQueue, addr, data, AllLanes)
                                        = Append(txQueue, data \cap (0 .. 7))
           /\ ~(Len(txQueue) < Depth) => TxAfterStore(txQueue, addr, data, AllLanes) = txQueue
  <1>1. data \cap Strobed(AllLanes) \cap WriteMask(0) = data \cap (0 .. 7)
    BY DEF Strobed, AllLanes, WriteMask, Positions
  <1> QED
    BY <1>1 DEF IsData, OutAfterStore, TxAfterStore

(* A store to a port sends nothing. *)
LEMMA GpioStoreSends ==
    ASSUME NEW txQueue, NEW data, NEW addr \in Int, AtGpio(addr)
    PROVE  TxAfterStore(txQueue, addr, data, AllLanes) = txQueue
  BY DEF TxAfterStore, AtData, AtUart, AtGpio, GpioRange

(* A byte, with or without the valid bit, is a word. *)
LEMMA ByteIsWord ==
    ASSUME NEW b \in Byte
    PROVE  b \in SUBSET Positions /\ b \cup {16} \in SUBSET Positions /\ b \cap (0 .. 7) = b
  <1>1. \A i \in b : i \in 0 .. 7
    BY DEF Byte
  <1>2. \A i \in b : i \in Positions
    BY <1>1 DEF Positions
  <1>3. 16 \in Positions
    BY DEF Positions
  <1>4. b \cap (0 .. 7) = b
    BY <1>1
  <1> QED
    BY <1>2, <1>3, <1>4

(* The accessors of the two byte fields keep a byte as it is.              *)
LEMMA ByteFields ==
    ASSUME NEW b \in Byte
    PROVE  /\ SetField(WriteStart(txd), txd.fields.data, b) = b
           /\ FieldBits(b \cup {16}, rxd.fields.rxd) = b
  <1>1. Mask(8) = 0 .. 7
    BY DEF Mask, Shr, Positions
  <1>2. WriteStart(txd) = {} /\ txd.fields.data.of = 0 /\ txd.fields.data.wi = 8
    BY DEF WriteStart, txd, Register, Field
  <1>3. rxd.fields.rxd.of = 0 /\ rxd.fields.rxd.wi = 8
    BY DEF rxd, Register, Field
  <1>a. \A i \in b : i \in 0 .. 7
    BY DEF Byte
  <1>b. \A i \in b \cup {16} : i \in Positions /\ i - 0 = i /\ i + 0 = i
    BY <1>a DEF Positions
  <1>4. Shl(b, 0) = b /\ Shr(b \cup {16}, 0) = b \cup {16}
    <2>1. \A i \in Positions : i - 0 = i /\ i + 0 = i
      BY DEF Positions
    <2>2. Shl(b, 0) = b
      BY <1>b, <2>1 DEF Shl
    <2>3. Shr(b \cup {16}, 0) = b \cup {16}
      BY <1>b, <2>1 DEF Shr
    <2> QED
      BY <2>2, <2>3
  <1>5. b \cap (0 .. 7) = b /\ (b \cup {16}) \cap (0 .. 7) = b
    <2>1. b \cap (0 .. 7) = b
      BY <1>a
    <2>2. 16 \notin 0 .. 7
      OBVIOUS
    <2> QED
      BY <1>a, <2>1, <2>2
  <1> QED
    BY <1>1, <1>2, <1>3, <1>4, <1>5 DEF SetField, FieldBits

(* The ready flags are the bits 0 and 1 of the status word.                *)
LEMMA FlagBits ==
    ASSUME NEW w \in SUBSET Positions
    PROVE  /\ IsNotReady(w, status.fields.txready) <=> 0 \notin w
           /\ IsReady(w, status.fields.rxready) <=> 1 \in w
  BY DEF IsNotReady, IsReady, BitIsSet, Shr, Positions, status, Register, Field
=============================================================================

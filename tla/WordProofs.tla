----------------------------- MODULE WordProofs -----------------------------
(***************************************************************************)
(* Proofs about what computes on words.  First the register access crate   *)
(* on the devices, for queues of any depth, any contents and any words: a  *)
(* written field reaches its port, a call leaves the other ports and the   *)
(* queues alone, and what the readers say is so.  Then the execute stage,  *)
(* for words of any width: every result is the one the manual describes.   *)
(***************************************************************************)
EXTENDS MCWords, BusLemmas, SequenceTheorems, WellFoundedInduction

-----------------------------------------------------------------------------
(* Words, fields and registers. *)

(* A mask of n ones. *)
LEMMA MaskBits ==
    ASSUME NEW n \in 1 .. 32, NEW i \in Int
    PROVE  i \in Mask(n) <=> 0 <= i /\ i < n
  BY DEF Mask, Shr, Positions

(* A field that is set holds the value, and the bits around it stay. *)
LEMMA FieldIsSet ==
    ASSUME NEW w, NEW v, NEW f, f.of \in Nat, f.wi \in 1 .. 32, f.of + f.wi <= 32,
           NEW i \in Positions
    PROVE  i \in SetField(w, f, v) <=> IF InField(i, f) THEN i - f.of \in v ELSE i \in w
  <1>1. i \in Int /\ i - f.of \in Int /\ 0 <= i /\ i <= 31
    BY DEF Positions
  <1>2. \A x : i \in Shl(x, f.of) <=> i - f.of \in x
    BY DEF Shl
  <1>3. i - f.of \in Mask(f.wi) <=> InField(i, f)
    <2>1. i - f.of \in Mask(f.wi) <=> 0 <= i - f.of /\ i - f.of < f.wi
      BY <1>1, MaskBits
    <2> QED
      BY <1>1, <2>1 DEF InField
  <1>4. i \in SetField(w, f, v) <=>
          \/ i \in w /\ ~(i - f.of \in Mask(f.wi))
          \/ i - f.of \in v /\ i - f.of \in Mask(f.wi)
    BY <1>2, Zenon DEF SetField
  <1> QED
    BY <1>3, <1>4

(* The same of a bit. *)
LEMMA BitIsWritten ==
    ASSUME NEW w, NEW bit \in BOOLEAN, NEW f, f.of \in Nat, f.wi = 1, NEW i \in Positions
    PROVE  i \in WriteBit(w, f, bit) <=> IF InField(i, f) THEN bit ELSE i \in w
  <1>1. i \in Int
    BY DEF Positions
  <1>2. i \in Shl({0}, f.of) <=> InField(i, f)
    BY <1>1 DEF Shl, InField
  <1>3. i \in Shl(IF bit THEN {0} ELSE {}, f.of) <=> InField(i, f) /\ bit
    BY <1>1 DEF Shl, InField
  <1> QED
    BY <1>2, <1>3, Zenon DEF WriteBit

(* Where the output registers are, and that none has special bits. *)
LEMMA OutputFacts ==
    ASSUME NEW r \in Outputs
    PROVE  /\ PortOf(r) \in 0 .. 4 /\ r.offset = 16 * PortOf(r)
           /\ r.reset = {} /\ r.ones = {} /\ r.zeros = {}
           /\ r.fields.out.of = 0 /\ r.fields.out.wi \in {16, 32}
           /\ Fields(r) = {r.fields.out}
  <1>1. /\ segled_out_l.offset = 0 /\ segled_out_h.offset = 16 /\ matrix_out_l.offset = 32
        /\ matrix_out_h.offset = 48 /\ led_out.offset = 64 /\ sw_in.offset = 84
    BY DEF segled_out_l, segled_out_h, matrix_out_l, matrix_out_h, led_out, sw_in, Register, GPIO
  <1>2. r \in {segled_out_l, segled_out_h, matrix_out_l, matrix_out_h, led_out}
    BY DEF Outputs, GpioRegisters
  <1>3. PortOf(r) \in 0 .. 4 /\ r.offset = 16 * PortOf(r)
    BY <1>1, <1>2 DEF PortOf
  <1>4. /\ r.reset = {} /\ r.ones = {} /\ r.zeros = {}
        /\ \E wi \in {16, 32} : r.fields = [out |-> Field(0, wi, "rw")]
    BY <1>2 DEF segled_out_l, segled_out_h, matrix_out_l, matrix_out_h, led_out, Register
  <1>5. /\ r.fields.out.of = 0 /\ r.fields.out.wi \in {16, 32}
        /\ Fields(r) = {r.fields.out}
    BY <1>4 DEF Fields, Field
  <1> QED
    BY <1>3, <1>4, <1>5

(* The word of a port that is loaded and stored. *)
LEMMA PortLoad ==
    ASSUME NEW outs, NEW ins, NEW tx, NEW rx, NEW junk, NEW p \in 0 .. 4,
           NEW i \in Positions
    PROVE  i \in LoadWord(outs, ins, tx, rx, 16 * p, junk) <=> i \in outs[p]
  <1>1. AtGpio(16 * p) /\ ~AtUart(16 * p) /\ AddrWord(16 * p, 32) = 4 * p
    BY DEF AtGpio, AtUart, GpioRange, AddrWord
  <1>2. p \in Ports /\ \A q \in Ports : (4 * p = PortWord(q, 0) <=> p = q) /\ 4 * p # PortWord(q, 1)
    BY DEF Ports, PortWord
  <1>3. \E q \in Ports : 4 * p \in {PortWord(q, 0), PortWord(q, 1)}
    BY <1>2
  <1>4. LoadWord(outs, ins, tx, rx, 16 * p, junk) = GpioLoad(outs, ins, 16 * p)
    BY <1>1 DEF LoadWord
  <1>5. i \in GpioLoad(outs, ins, 16 * p) <=>
          \E q \in Ports : \/ 4 * p = PortWord(q, 0) /\ i \in outs[q]
                           \/ 4 * p = PortWord(q, 1) /\ i \in ins[q]
    BY <1>1, <1>3 DEF GpioLoad
  <1> QED
    BY <1>2, <1>4, <1>5

(* A store at a port's address reaches that port and no other. *)
LEMMA PortStore ==
    ASSUME NEW outs, NEW p \in 0 .. 4, NEW data, NEW addr, addr = 16 * p
    PROVE  /\ \A i \in Positions : i \in OutAfterStore(outs, addr, data, AllLanes)[p] <=> i \in data
           /\ \A q \in Ports : q # p => OutAfterStore(outs, addr, data, AllLanes)[q] = outs[q]
  <1>1. AtGpio(addr) /\ AddrWord(addr, 64) = 4 * p
    BY DEF AtGpio, GpioRange, AddrWord
  <1>2. p \in Ports /\ \A q \in Ports : 4 * p = PortWord(q, 0) <=> q = p
    BY DEF Ports, PortWord
  <1>3. Strobed(AllLanes) = Positions
    BY DEF Strobed, AllLanes, Positions
  <1>4. OutAfterStore(outs, addr, data, AllLanes)[p] = (outs[p] \ Positions) \cup (data \cap Positions)
    BY <1>1, <1>2, <1>3 DEF OutAfterStore, GpioStore
  <1>5. \A q \in Ports : q # p => OutAfterStore(outs, addr, data, AllLanes)[q] = outs[q]
    BY <1>1, <1>2 DEF OutAfterStore, GpioStore
  <1> QED
    BY <1>4, <1>5

(* What a store adds to the transmit queue. *)
LEMMA StoreSends ==
    ASSUME NEW tx, NEW addr, NEW data
    PROVE  TxAfterStore(tx, addr, data, AllLanes)
             = IF AtData(addr) /\ Len(tx) < Depth
               THEN Append(tx, data \cap (0 .. 7)) ELSE tx
  <1>1. data \cap Strobed(AllLanes) \cap WriteMask(0) = data \cap (0 .. 7)
    <2>1. Strobed(AllLanes) = Positions /\ WriteMask(0) = 0 .. 7
      BY DEF Strobed, AllLanes, WriteMask, Positions
    <2>2. \A i \in 0 .. 7 : i \in Positions
      BY DEF Positions
    <2> QED
      BY <2>1, <2>2, Zenon
  <1> QED
    BY <1>1 DEF TxAfterStore

(* Which device a register belongs to. *)
LEMMA RegisterPlaces ==
    /\ \A r \in GpioRegisters : ~AtData(r.offset) /\ ~AtUart(r.offset)
    /\ \A r \in UartRegisters : ~AtGpio(r.offset)
    /\ ~AtData(status.offset) /\ AtData(txd.offset) /\ AtData(rxd.offset)
  <1>1. \A addr \in Int : AtGpio(addr) => ~AtUart(addr)
    BY DEF AtGpio, AtUart, GpioRange
  <1>2. \A r \in GpioRegisters : ~AtData(r.offset) /\ ~AtUart(r.offset)
    BY <1>1, GpioOffsets DEF AtData
  <1> QED
    BY <1>2, UartOffsets DEF UartRegisters, IsData, IsStatus

-----------------------------------------------------------------------------
(* Steps. *)

(* write and modify of an output register: FieldTakes, whatever the rest   *)
(* of the devices holds.                                                   *)
LEMMA FieldStep ==
    ASSUME NEW r \in Outputs, NEW v \in Inputs
    PROVE  FieldTakes(r, v)
  <1> DEFINE p == PortOf(r)
             f == r.fields.out
  <1>1. /\ p \in 0 .. 4 /\ r.offset = 16 * p /\ r.reset = {} /\ r.ones = {} /\ r.zeros = {}
        /\ f.of = 0 /\ f.wi \in {16, 32}
    BY OutputFacts
  <1>3. \A w : Written(w, f, v) = SetField(w, f, v)
    BY <1>1 DEF Written
  <1>4. ASSUME Store(r.offset, stored') PROVE \A i \in Positions : i \in outReg'[p] <=> i \in stored'
    <2>1. outReg' = OutAfterStore(outReg, r.offset, stored', AllLanes)
      BY <1>4 DEF Store
    <2> QED
      BY <1>1, <2>1, PortStore, ZenonT(60)
  <1>5. \A w : \A i \in Positions : i \in SetField(w, f, v) <=> IF InField(i, f) THEN i - f.of \in v ELSE i \in w
    <2> SUFFICES ASSUME NEW i \in Positions, NEW w
                 PROVE i \in SetField(w, f, v) <=> IF InField(i, f) THEN i - f.of \in v ELSE i \in w
      OBVIOUS
    <2>1. f.of \in Nat /\ f.wi \in 1 .. 32 /\ f.of + f.wi <= 32
      BY <1>1
    <2> QED
      BY <2>1, FieldIsSet
  <1>6. ASSUME Write(r, f, v)
        PROVE  \A i \in Positions : i \in outReg'[p] <=> InField(i, f) /\ i - f.of \in v
    <2>1. Store(r.offset, stored') /\ stored' = SetField(WriteStart(r), f, v)
      BY <1>3, <1>6 DEF Write, Put, JustStore
    <2>2. WriteStart(r) = {}
      BY <1>1 DEF WriteStart
    <2> QED
      BY <1>4, <1>5, <2>1, <2>2
  <1>7. ASSUME Modify(r, f, v)
        PROVE  \A i \in Positions :
                  i \in outReg'[p] <=> IF InField(i, f) THEN i - f.of \in v ELSE i \in outReg[p]
    <2>1. Store(r.offset, stored') /\ stored' = SetField(ModifyStart(r, word'), f, v)
      BY <1>3, <1>7 DEF Modify
    <2>2. ModifyStart(r, word') = word'
      BY <1>1 DEF ModifyStart
    <2>3. PICK junk \in Junk : word' = LoadWord(outReg, inReg, txQueue, rxQueue, r.offset, junk)
      BY <1>7 DEF Modify, Load
    <2>4. \A i \in Positions : i \in word' <=> i \in outReg[p]
      BY <1>1, <2>3, PortLoad
    <2> QED
      BY <1>4, <1>5, <2>1, <2>2, <2>4
  <1> QED
    BY <1>6, <1>7 DEF FieldTakes

(* Any call is a load, a store or both, at the register's address. *)
LEMMA CallShape ==
    ASSUME NEW r, CallOn(r)
    PROVE  /\ Load(r.offset) \/ UNCHANGED <<inReg, rxQueue, word>>
           /\ Store(r.offset, stored') \/ UNCHANGED <<outReg, txQueue>>
  BY DEF CallOn, Read, Reset, WriteRaw, Write, WriteWithZero, Modify, Put, JustLoad, JustStore

(* Any call stays local. *)
LEMMA LocalStep ==
    ASSUME NEW r \in Registers, CallOn(r)
    PROVE  StaysLocal(r)
  <1>1. ASSUME NEW p \in Ports, outReg'[p] # outReg[p] PROVE r \in Outputs /\ p = PortOf(r)
    <2>1. outReg' = OutAfterStore(outReg, r.offset, stored', AllLanes)
      BY <1>1, CallShape DEF Store
    <2>2. AtGpio(r.offset)
      BY <1>1, <2>1 DEF OutAfterStore
    <2>3. r \in GpioRegisters
      BY <2>2, RegisterPlaces DEF Registers
    <2>4. r # sw_in
      <3> SUFFICES ASSUME r = sw_in PROVE FALSE
        OBVIOUS
      <3>1. r.offset = 84
        BY DEF sw_in, Register, GPIO
      <3>2. AddrWord(84, 64) # PortWord(p, 0)
        BY DEF AddrWord, PortWord, Ports
      <3> QED
        BY <1>1, <2>1, <2>2, <3>1, <3>2 DEF OutAfterStore, GpioStore
    <2>5. r \in Outputs
      BY <2>3, <2>4 DEF Outputs
    <2>6. PortOf(r) \in 0 .. 4 /\ r.offset = 16 * PortOf(r)
      BY <2>5, OutputFacts
    <2>7. p = PortOf(r)
      BY <1>1, <2>1, <2>6, PortStore
    <2> QED
      BY <2>5, <2>7
  <1>2. ASSUME rxQueue' # rxQueue PROVE r \in DataRegisters /\ rxQueue' = Tail(rxQueue)
    <2>1. rxQueue' = RxAfterLoad(rxQueue, r.offset)
      BY <1>2, CallShape DEF Load
    <2>2. AtData(r.offset) /\ rxQueue' = Tail(rxQueue)
      BY <1>2, <2>1 DEF RxAfterLoad
    <2> QED
      BY <2>2, RegisterPlaces DEF Registers, UartRegisters, DataRegisters
  <1>3. ASSUME txQueue' # txQueue
        PROVE  r \in DataRegisters /\ Len(txQueue) < Depth /\ txQueue' = Append(txQueue, stored' \cap (0 .. 7))
    <2>1. txQueue' = TxAfterStore(txQueue, r.offset, stored', AllLanes)
      BY <1>3, CallShape DEF Store
    <2>2. AtData(r.offset) /\ Len(txQueue) < Depth /\ txQueue' = Append(txQueue, stored' \cap (0 .. 7))
      BY <1>3, <2>1, StoreSends
    <2> QED
      BY <2>2, RegisterPlaces DEF Registers, UartRegisters, DataRegisters
  <1> QED
    BY <1>1, <1>2, <1>3 DEF StaysLocal

(***************************************************************************)
(* A field written to an output register reaches the pins of its port, and *)
(* modify leaves the other bits as they were: for every word and whatever  *)
(* the devices hold.                                                       *)
(***************************************************************************)
THEOREM FieldsReachPorts == RegSpec => FieldsWritten
  <1>1. \A r \in Outputs, v \in Inputs : FieldTakes(r, v)
    BY FieldStep
  <1> QED
    BY <1>1, PTL DEF RegSpec, FieldsWritten

(***************************************************************************)
(* No call changes a port or a queue it does not name.                     *)
(***************************************************************************)
THEOREM CallsAreLocal == RegSpec => CallsStayLocal
  <1>1. \A r \in Registers : CallOn(r) => StaysLocal(r)
    BY LocalStep
  <1> QED
    BY <1>1, PTL DEF RegSpec, CallsStayLocal

-----------------------------------------------------------------------------
(* Types. *)

(* Every load has the width of a word. *)
LEMMA LoadIsWord ==
    ASSUME DevicesTypeOK, NEW addr, NEW junk
    PROVE  LoadWord(outReg, inReg, txQueue, rxQueue, addr, junk) \in Word
  <1>1. DeadBeef \subseteq Positions
    BY DEF DeadBeef
  <1>2. GpioLoad(outReg, inReg, addr) \subseteq Positions
    BY <1>1, Zenon DEF GpioLoad
  <1>3. UartLoad(txQueue, rxQueue, addr, junk) \subseteq Positions
    <2>1. ReadMask(0) \subseteq Positions /\ ReadMask(1) \subseteq Positions
      BY DEF ReadMask, Positions
    <2>2. \A i : ReadMask(i) \subseteq Positions
      BY <2>1 DEF ReadMask
    <2> QED
      BY <2>2, Zenon DEF UartLoad
  <1> QED
    BY <1>1, <1>2, <1>3 DEF LoadWord, Word

(* A load keeps the types. *)
LEMMA LoadTyped ==
    ASSUME DevicesTypeOK, NEW addr, Load(addr)
    PROVE  word' \in Word /\ inReg' = inReg /\ rxQueue' \in Seq(Byte) /\ Len(rxQueue') <= Depth
  <1>1. word' \in Word /\ inReg' = inReg /\ rxQueue' = RxAfterLoad(rxQueue, addr)
    BY LoadIsWord DEF Load
  <1>2. rxQueue \in Seq(Byte) /\ Len(rxQueue) <= Depth
    BY DEF DevicesTypeOK
  <1>3. rxQueue # <<>> => Tail(rxQueue) \in Seq(Byte) /\ Len(Tail(rxQueue)) = Len(rxQueue) - 1
    BY <1>2, HeadTailProperties
  <1> QED
    BY <1>1, <1>2, <1>3, DepthAssumption DEF RxAfterLoad

(* A store keeps the types. *)
LEMMA StoreTyped ==
    ASSUME DevicesTypeOK, NEW addr, NEW data, Store(addr, data)
    PROVE  outReg' \in [Ports -> Word] /\ txQueue' \in Seq(Byte) /\ Len(txQueue') <= Depth
  <1>1. outReg \in [Ports -> Word] /\ txQueue \in Seq(Byte) /\ Len(txQueue) \in Nat /\ Len(txQueue) <= Depth
    BY DEF DevicesTypeOK
  <1>2. outReg' \in [Ports -> Word]
    <2>1. \A p \in Ports : (outReg[p] \ Strobed(AllLanes)) \cup (data \cap Strobed(AllLanes)) \in Word
      BY <1>1 DEF Strobed, Word
    <2>2. GpioStore(outReg, addr, data, AllLanes) \in [Ports -> Word]
      BY <1>1, <2>1 DEF GpioStore
    <2> QED
      BY <1>1, <2>2 DEF Store, OutAfterStore
  <1>3. data \cap (0 .. 7) \in Byte
    BY DEF Byte
  <1>4. /\ Append(txQueue, data \cap (0 .. 7)) \in Seq(Byte)
        /\ Len(Append(txQueue, data \cap (0 .. 7))) = Len(txQueue) + 1
    BY <1>1, <1>3, AppendProperties
  <1>5. txQueue' = IF AtData(addr) /\ Len(txQueue) < Depth
                   THEN Append(txQueue, data \cap (0 .. 7)) ELSE txQueue
    BY StoreSends DEF Store
  <1> QED
    BY <1>1, <1>2, <1>4, <1>5, DepthAssumption

(***************************************************************************)
(* Whatever calls are made, the devices hold words and bytes, and no more  *)
(* bytes than their queues have room for.                                  *)
(***************************************************************************)
THEOREM RegistersTypeCorrect == RegSpec => []DevicesTypeOK
  <1>1. RegInit => DevicesTypeOK
    BY DEF RegInit
  <1>2. DevicesTypeOK /\ [RegNext]_regVars => DevicesTypeOK'
    <2> SUFFICES ASSUME DevicesTypeOK, [RegNext]_regVars PROVE DevicesTypeOK'
      OBVIOUS
    <2>1. CASE UNCHANGED regVars
      BY <2>1 DEF regVars, devices, DevicesTypeOK
    <2>2. CASE RegNext
      <3>1. PICK r \in Registers : CallOn(r)
        BY <2>2 DEF RegNext
      <3>2. CASE Load(r.offset) /\ Store(r.offset, stored')
        BY <3>2, LoadTyped, StoreTyped DEF DevicesTypeOK
      <3>3. CASE Load(r.offset) /\ UNCHANGED <<outReg, txQueue>>
        BY <3>3, LoadTyped DEF DevicesTypeOK
      <3>4. CASE Store(r.offset, stored') /\ UNCHANGED <<inReg, rxQueue, word>>
        BY <3>4, StoreTyped DEF DevicesTypeOK
      <3>5. CASE UNCHANGED <<inReg, rxQueue, word>> /\ UNCHANGED <<outReg, txQueue>>
        BY <3>5 DEF DevicesTypeOK
      <3> QED
        BY <3>1, <3>2, <3>3, <3>4, <3>5, CallShape
    <2> QED
      BY <2>1, <2>2
  <1> QED
    BY <1>1, <1>2, PTL DEF RegSpec

-----------------------------------------------------------------------------
(* Readers. *)

(* Reading the status register. *)
LEMMA StatusRead ==
    ASSUME Read(status)
    PROVE  StatusTells
  <1>1. PICK junk \in Junk : /\ word' = LoadWord(outReg, inReg, txQueue, rxQueue, status.offset, junk)
                             /\ rxQueue' = RxAfterLoad(rxQueue, status.offset)
    BY DEF Read, JustLoad, Load
  <1>2. /\ word' \subseteq {0, 1}
        /\ 0 \in word' <=> Len(txQueue) < Depth
        /\ 1 \in word' <=> rxQueue # <<>>
        /\ rxQueue' = rxQueue
    BY <1>1, UartOffsets, StatusLoad
  <1>3. word' \in SUBSET Positions
    BY <1>2 DEF Positions
  <1>4. /\ IsReady(word', status.fields.txready) <=> 0 \in word'
        /\ IsReady(word', status.fields.rxready) <=> 1 \in word'
    BY <1>3 DEF IsReady, BitIsSet, Shr, Positions, status, Register, Field
  <1> QED
    BY <1>2, <1>4 DEF StatusTells

(* A sequence is its first element and the rest. *)
LEMMA FrontAndRest ==
    ASSUME NEW S, NEW s \in Seq(S), s # <<>>
    PROVE  s = <<Head(s)>> \o Tail(s)
  OBVIOUS

(* Bit 16 of the data word says whether there is a byte. *)
LEMMA ValidBit ==
    ASSUME NEW w
    PROVE  BitIsSet(w, rxd.fields.rxd_valid) <=> 16 \in w
  <1>1. rxd.fields.rxd_valid.of = 16
    BY DEF rxd, Register, Field
  <1>2. 0 \in Positions
    BY DEF Positions
  <1> QED
    BY <1>1, <1>2 DEF BitIsSet, Shr

(* Reading the data register, of an empty queue and of one that is not. *)
LEMMA ByteRead ==
    ASSUME DevicesTypeOK, Read(rxd)
    PROVE  ByteTells
  <1>1. PICK junk \in Junk : /\ word' = LoadWord(outReg, inReg, txQueue, rxQueue, rxd.offset, junk)
                             /\ rxQueue' = RxAfterLoad(rxQueue, rxd.offset)
    BY DEF Read, JustLoad, Load
  <1>2. IsData(rxd.offset) /\ junk \in Byte /\ rxQueue \in Seq(Byte)
    BY UartOffsets, JunkAssumption DEF DevicesTypeOK
  <1>3. CASE rxQueue = <<>>
    <2>1. word' = junk
      BY <1>1, <1>2, <1>3, EmptyLoad
    <2>2. 16 \notin junk
      BY <1>2 DEF Byte
    <2> QED
      BY <1>3, <2>1, <2>2, ValidBit DEF ByteTells
  <1>4. CASE rxQueue # <<>>
    <2>1. word' = Head(rxQueue) \cup {16} /\ rxQueue' = Tail(rxQueue)
      BY <1>1, <1>2, <1>4, DataLoad
    <2>2. Head(rxQueue) \in Byte
      BY <1>2, <1>4, HeadTailProperties
    <2>3. FieldBits(word', rxd.fields.rxd) = Head(rxQueue)
      BY <2>1, <2>2, ByteFields
    <2>4. rxQueue = <<Head(rxQueue)>> \o Tail(rxQueue)
      BY <1>2, <1>4, FrontAndRest
    <2> QED
      BY <1>4, <2>1, <2>3, <2>4, ValidBit DEF ByteTells
  <1> QED
    BY <1>3, <1>4

(* The bits of a field that begins at bit 0. *)
LEMMA LowField ==
    ASSUME NEW w, NEW f, f.of = 0, f.wi \in 1 .. 32, NEW i \in Positions
    PROVE  i \in FieldBits(w, f) <=> i \in w /\ InField(i, f)
  <1>1. i \in Int /\ i + 0 = i
    BY DEF Positions
  <1>2. i \in Mask(f.wi) <=> InField(i, f)
    BY <1>1, MaskBits DEF InField
  <1>3. i \in Shr(w, f.of) <=> i \in w
    BY <1>1 DEF Shr
  <1> QED
    BY <1>2, <1>3, Zenon DEF FieldBits

(* Reading a port. *)
LEMMA PortRead ==
    ASSUME NEW r \in Outputs, Read(r)
    PROVE  PortTells(r)
  <1>1. PICK junk \in Junk : word' = LoadWord(outReg, inReg, txQueue, rxQueue, r.offset, junk)
    BY DEF Read, JustLoad, Load
  <1>2. /\ PortOf(r) \in 0 .. 4 /\ r.offset = 16 * PortOf(r)
        /\ r.fields.out.of = 0 /\ r.fields.out.wi \in 1 .. 32
    BY OutputFacts
  <1>3. \A i \in Positions : i \in word' <=> i \in outReg[PortOf(r)]
    BY <1>1, <1>2, PortLoad
  <1>4. \A i \in Positions : i \in FieldBits(word', r.fields.out) <=> i \in word' /\ InField(i, r.fields.out)
    BY <1>2, LowField
  <1> QED
    BY <1>3, <1>4 DEF PortTells

(* Reading the switches. *)
LEMMA SwitchRead ==
    ASSUME Read(sw_in)
    PROVE  SwitchesTell
  <1>1. PICK junk \in Junk : word' = LoadWord(outReg, inReg, txQueue, rxQueue, sw_in.offset, junk)
    BY DEF Read, JustLoad, Load
  <1>2. sw_in.offset = 84 /\ sw_in.fields.in.of = 0 /\ sw_in.fields.in.wi = 8
    BY DEF sw_in, Register, Field, GPIO
  <1>3. AtGpio(84) /\ ~AtUart(84) /\ AddrWord(84, 32) = 21
    BY DEF AtGpio, AtUart, GpioRange, AddrWord
  <1>4. 5 \in Ports /\ \A q \in Ports : (21 = PortWord(q, 1) <=> q = 5) /\ 21 # PortWord(q, 0)
    BY DEF Ports, PortWord
  <1>5. \E q \in Ports : 21 \in {PortWord(q, 0), PortWord(q, 1)}
    BY <1>4
  <1>6. word' = GpioLoad(outReg, inReg, 84)
    BY <1>1, <1>2, <1>3 DEF LoadWord
  <1>7. \A i \in Positions : i \in word' <=> i \in inReg[5]
    <2> SUFFICES ASSUME NEW i \in Positions PROVE i \in word' <=> i \in inReg[5]
      OBVIOUS
    <2>1. i \in GpioLoad(outReg, inReg, 84) <=>
            \E q \in Ports : (21 = PortWord(q, 0) /\ i \in outReg[q]) \/ (21 = PortWord(q, 1) /\ i \in inReg[q])
      BY <1>3, <1>5 DEF GpioLoad
    <2> QED
      BY <1>4, <1>6, <2>1
  <1>8. \A i : i \in FieldBits(word', sw_in.fields.in) <=> i \in inReg[5] /\ i \in 0 .. 7
    <2> SUFFICES ASSUME NEW i PROVE i \in FieldBits(word', sw_in.fields.in) <=> i \in inReg[5] /\ i \in 0 .. 7
      OBVIOUS
    <2>1. i \in FieldBits(word', sw_in.fields.in) => i \in Positions
      BY DEF FieldBits, Shr
    <2>2. i \in 0 .. 7 => i \in Positions
      BY DEF Positions
    <2>3. i \in Positions => (InField(i, sw_in.fields.in) <=> i \in 0 .. 7)
      BY <1>2 DEF InField, Positions
    <2>4. i \in Positions => (i \in FieldBits(word', sw_in.fields.in) <=> i \in word' /\ InField(i, sw_in.fields.in))
      BY <1>2, LowField
    <2> QED
      BY <1>7, <2>1, <2>2, <2>3, <2>4
  <1> QED
    BY <1>8, Zenon DEF SwitchesTell

(***************************************************************************)
(* What a program reads of a port, the switches, the flags and the data    *)
(* register is what is there, for every depth of the queues.               *)
(***************************************************************************)
THEOREM ReadersAreRight == RegSpec => ReadersTell
  <1>1. DevicesTypeOK => /\ Read(status) => StatusTells
                         /\ Read(rxd) => ByteTells
                         /\ \A r \in Outputs : Read(r) => PortTells(r)
                         /\ Read(sw_in) => SwitchesTell
    BY StatusRead, ByteRead, PortRead, SwitchRead
  <1> QED
    BY <1>1, RegistersTypeCorrect, PTL DEF RegSpec, ReadersTell

-----------------------------------------------------------------------------
(* The two crates. *)

(* A shift by nothing, and the masks of the fields the crates share. *)
LEMMA LowMasks ==
    /\ \A w : Shl(w, 0) = w \cap Positions /\ Shr(w, 0) = w \cap Positions
    /\ \A w : Book!Shr(w, 0) = Shr(w, 0) /\ Book!Shr(w, 1) = Shr(w, 1)
    /\ \A w : Book!Shl(w, 1) = Shl(w, 1)
    /\ Mask(8) = 0 .. 7 /\ Mask(6) = 0 .. 5
    /\ 0 .. 7 \subseteq Positions /\ 0 .. 5 \subseteq Positions
  <1>1. \A i \in Positions : i - 0 = i /\ i + 0 = i
    BY DEF Positions
  <1>2. \A w : Shl(w, 0) = w \cap Positions /\ Shr(w, 0) = w \cap Positions
    BY <1>1 DEF Shl, Shr
  <1>3. /\ \A w : Book!Shr(w, 0) = Shr(w, 0) /\ Book!Shr(w, 1) = Shr(w, 1)
        /\ \A w : Book!Shl(w, 1) = Shl(w, 1)
    BY DEF Shr, Shl, Positions, Book!Shr, Book!Shl, Book!Positions
  <1>4. Mask(8) = 0 .. 7 /\ Mask(6) = 0 .. 5
    BY DEF Mask, Shr, Positions
  <1>5. 0 .. 7 \subseteq Positions /\ 0 .. 5 \subseteq Positions
    BY DEF Positions
  <1> QED
    BY <1>2, <1>3, <1>4, <1>5

(* The fields that begin at bit 0. *)
LEMMA LowFieldsAgree ==
    /\ \A w, v : SetField(w, txd.fields.data, v) = Book!set_data(w, v)
    /\ \A w, v : SetField(w, Field(0, 6, "rw"), v) = Book!set_led(w, v)
    /\ \A w : FieldBits(w, Field(0, 6, "rw")) = Book!led(w)
    /\ \A w : FieldBits(w, rxd.fields.rxd) = Book!rxd(w)
  <1>1. /\ txd.fields.data.of = 0 /\ txd.fields.data.wi = 8
        /\ rxd.fields.rxd.of = 0 /\ rxd.fields.rxd.wi = 8
        /\ Field(0, 6, "rw").of = 0 /\ Field(0, 6, "rw").wi = 6
    BY DEF txd, rxd, Register, Field
  <1>2. ASSUME NEW m, m \subseteq Positions PROVE \A w : w \cap Positions \cap m = w \cap m /\ w \cap m \cap Positions = w \cap m
                                                      /\ m \cap Positions = m
    BY <1>2, Zenon
  <1>3. \A w, v : SetField(w, txd.fields.data, v) = (w \ (0 .. 7)) \cup (v \cap (0 .. 7))
    BY <1>1, <1>2, LowMasks DEF SetField
  <1>4. \A w, v : SetField(w, Field(0, 6, "rw"), v) = (w \ (0 .. 5)) \cup (v \cap (0 .. 5))
    BY <1>1, <1>2, LowMasks DEF SetField
  <1>5. \A w : FieldBits(w, Field(0, 6, "rw")) = w \cap (0 .. 5)
    BY <1>1, <1>2, LowMasks DEF FieldBits
  <1>6. \A w : FieldBits(w, rxd.fields.rxd) = w \cap (0 .. 7)
    BY <1>1, <1>2, LowMasks DEF FieldBits
  <1> QED
    BY <1>3, <1>4, <1>5, <1>6 DEF Book!set_data, Book!set_led, Book!led, Book!rxd

(* The data of the status register. *)
LEMMA BitsOfStatus ==
    /\ status.fields.txready.of = 0 /\ status.fields.txready.wi = 1
    /\ status.fields.rxready.of = 1 /\ status.fields.rxready.wi = 1
    /\ status.ones = {} /\ status.zeros = {} /\ status.reset = {}
  BY DEF status, Register, Field

(* The two flags, written, set, cleared and read. *)
LEMMA BitsAreSame ==
    ASSUME NEW w, NEW v
    PROVE  /\ Written(w, status.fields.txready, v) = Book!set_txready(w, 0 \in v)
           /\ Written(w, status.fields.rxready, v) = Book!set_rxready(w, 0 \in v)
           /\ Written(w, status.fields.txready, v) = SetOrClear(w, status.fields.txready, v)
           /\ Written(w, status.fields.rxready, v) = SetOrClear(w, status.fields.rxready, v)
           /\ IsReady(w, status.fields.txready) = Book!txready(w)
           /\ IsReady(w, status.fields.rxready) = Book!rxready(w)
  <1> DEFINE Placed(x, n) == (x \ Shl({0}, n)) \cup Shl(IF 0 \in v THEN {0} ELSE {}, n)
  <1>1. /\ Written(w, status.fields.txready, v) = Placed(w, 0)
        /\ Written(w, status.fields.rxready, v) = Placed(w, 1)
    BY BitsOfStatus DEF Written, WriteBit
  <1>2. Shl({0}, 0) = {0} /\ Shl({}, 0) = {} /\ Shl({}, 1) = {}
    BY DEF Shl, Positions
  <1>3. Placed(w, 0) = Book!set_txready(w, 0 \in v)
    <2>1. CASE 0 \in v
      BY <1>2, <2>1 DEF Book!set_txready
    <2>2. CASE 0 \notin v
      BY <1>2, <2>2 DEF Book!set_txready
    <2> QED
      BY <2>1, <2>2
  <1>4. Placed(w, 1) = Book!set_rxready(w, 0 \in v)
    <2>1. CASE 0 \in v
      BY LowMasks, <2>1 DEF Book!set_rxready
    <2>2. CASE 0 \notin v
      BY LowMasks, <2>2 DEF Book!set_rxready
    <2> QED
      BY <2>1, <2>2
  <1>5. /\ Placed(w, 0) = SetOrClear(w, status.fields.txready, v)
        /\ Placed(w, 1) = SetOrClear(w, status.fields.rxready, v)
    <2>1. CASE 0 \in v
      <3>1. \A s : (w \ s) \cup s = w \cup s
        OBVIOUS
      <3>2. /\ SetOrClear(w, status.fields.txready, v) = w \cup Shl({0}, 0)
            /\ SetOrClear(w, status.fields.rxready, v) = w \cup Shl({0}, 1)
        BY <2>1, BitsOfStatus DEF SetOrClear, SetBit
      <3> QED
        BY <2>1, <3>1, <3>2
    <2>2. CASE 0 \notin v
      <3>1. \A s : (w \ s) \cup {} = w \ s
        OBVIOUS
      <3>2. /\ SetOrClear(w, status.fields.txready, v) = w \ Shl({0}, 0)
            /\ SetOrClear(w, status.fields.rxready, v) = w \ Shl({0}, 1)
        BY <2>2, BitsOfStatus DEF SetOrClear, ClearBit
      <3> QED
        BY <1>2, <2>2, <3>1, <3>2
    <2> QED
      BY <2>1, <2>2
  <1>6. IsReady(w, status.fields.txready) = Book!txready(w)
    BY BitsOfStatus, LowMasks DEF IsReady, BitIsSet, Book!txready
  <1>7. IsReady(w, status.fields.rxready) = Book!rxready(w)
    BY BitsOfStatus, LowMasks DEF IsReady, BitIsSet, Book!rxready
  <1> QED
    BY <1>1, <1>3, <1>4, <1>5, <1>6, <1>7

(* The start values of the two crates. *)
LEMMA StartsAgree ==
    /\ WriteStart(txd) = Book!WriteStart(Book!txdReset)
    /\ WriteWithZeroStart = Book!WriteWithZeroStart
    /\ \A w : ModifyStart(txd, w) = Book!ModifyStart(w)
    /\ \A w : ModifyStart(status, w) = Book!ModifyStart(w)
    /\ ResetWord(status) = Book!ResetWord(Book!statusReset)
  BY DEF WriteStart, WriteWithZeroStart, ModifyStart, ResetWord, txd, status, Register,
         Book!WriteStart, Book!WriteWithZeroStart, Book!ModifyStart, Book!ResetWord,
         Book!txdReset, Book!statusReset

(***************************************************************************)
(* The two crates send the same words and take the same fields out of      *)
(* them, for every word and whatever the devices hold.                     *)
(***************************************************************************)
THEOREM CratesAreEqual == RegSpec => CratesAgree
  <1>1. ASSUME NEW v \in Inputs PROVE SameWords(v)
    <2>1. \A w : Written(w, txd.fields.data, v) = Book!set_data(w, v)
      BY LowFieldsAgree DEF Written, txd, Register, Field
    <2>2. Write(txd, txd.fields.data, v) => stored' = Book!set_data(Book!WriteStart(Book!txdReset), v)
      BY <2>1, StartsAgree DEF Write, Put
    <2>3. Modify(txd, txd.fields.data, v) => stored' = Book!set_data(Book!ModifyStart(word'), v)
      BY <2>1, StartsAgree DEF Modify
    <2>4. Modify(status, status.fields.txready, v) =>
            /\ stored' = Book!set_txready(Book!ModifyStart(word'), 0 \in v)
            /\ stored' = SetOrClear(ModifyStart(status, word'), status.fields.txready, v)
      BY BitsAreSame, StartsAgree DEF Modify
    <2>5. Modify(status, status.fields.rxready, v) =>
            /\ stored' = Book!set_rxready(Book!ModifyStart(word'), 0 \in v)
            /\ stored' = SetOrClear(ModifyStart(status, word'), status.fields.rxready, v)
      BY BitsAreSame, StartsAgree DEF Modify
    <2>6. WriteRaw(led_out, v) => stored' = Book!RawBits(Book!WriteStart(Book!dataReset), v)
      BY DEF WriteRaw, Put, RawBits, Book!RawBits
    <2>7. WriteWithZero(txd, txd.fields.data, v) => stored' = Book!set_data(Book!WriteWithZeroStart, v)
      BY <2>1, StartsAgree DEF WriteWithZero, Put
    <2>8. Reset(status) => stored' = Book!ResetWord(Book!statusReset)
      BY StartsAgree DEF Reset, Put
    <2>9. Read(status) => /\ IsReady(word', status.fields.txready) = Book!txready(word')
                          /\ IsReady(word', status.fields.rxready) = Book!rxready(word')
      BY BitsAreSame
    <2>10. /\ SetField(stored', Field(0, 6, "rw"), v) = Book!set_led(stored', v)
           /\ FieldBits(word', Field(0, 6, "rw")) = Book!led(word')
           /\ FieldBits(word', rxd.fields.rxd) = Book!rxd(word')
      BY LowFieldsAgree
    <2> QED
      BY <2>2, <2>3, <2>4, <2>5, <2>6, <2>7, <2>8, <2>9, <2>10 DEF SameWords
  <1>2. \A v \in Inputs : SameWords(v)
    BY <1>1
  <1> QED
    BY <1>2, PTL DEF RegSpec, CratesAgree
-----------------------------------------------------------------------------
(* Quotients and remainders. *)

(* What is put together from quotient and remainder, and taken apart. *)
LEMMA Divided ==
    ASSUME NEW n \in Nat \ {0}, NEW m \in Int, NEW k \in 0 .. n - 1
    PROVE  (m * n + k) \div n = m /\ (m * n + k) % n = k
  OBVIOUS

LEMMA Division ==
    ASSUME NEW n \in Nat \ {0}, NEW x \in Int
    PROVE  x \div n \in Int /\ x % n \in 0 .. n - 1 /\ x = (x \div n) * n + (x % n)
  OBVIOUS

(* Dividing by two, before or after. *)
LEMMA DivideTwice ==
    ASSUME NEW p \in Nat \ {0}, NEW x \in Int
    PROVE  x \div (2 * p) = (x \div p) \div 2 /\ x \div (2 * p) = (x \div 2) \div p
  <1> DEFINE n == 2 * p
             q == x \div n
             k == x % n
  <1>1. n \in Nat \ {0} /\ p \in Nat \ {0}
    OBVIOUS
  <1> HIDE DEF n
  <1>2. q \in Int /\ k \in 0 .. n - 1 /\ x = q * n + k
    BY <1>1, Division
  <1> HIDE DEF q, k
  <1>3. PICK y : y = q * p
    OBVIOUS
  <1>4. y \in Int /\ q * n = 2 * y
    <2>1. \A c, d \in Int : c * d \in Int /\ c * (2 * d) = 2 * (c * d)
      OBVIOUS
    <2> QED
      BY <1>1, <1>2, <1>3, <2>1 DEF n
  <1>5. (x \div p) \div 2 = q
    <2>1. CASE k < p
      <3>1. x = (2 * q) * p + k
        <4>1. \A c, d \in Int : (2 * c) * d = 2 * (c * d)
          OBVIOUS
        <4> QED
          BY <1>1, <1>2, <1>3, <1>4, <4>1
      <3>2. 2 * q \in Int /\ k \in 0 .. p - 1
        BY <1>2, <2>1
      <3>3. x \div p = 2 * q
        BY <3>1, <3>2, Divided
      <3> QED
        BY <1>2, <3>3
    <2>2. CASE ~(k < p)
      <3>1. x = (2 * q + 1) * p + (k - p)
        <4>1. \A c, d \in Int : (2 * c + 1) * d = 2 * (c * d) + d
          OBVIOUS
        <4> QED
          BY <1>1, <1>2, <1>3, <1>4, <4>1
      <3>2. 2 * q + 1 \in Int /\ k - p \in 0 .. p - 1
        BY <1>2, <2>2 DEF n
      <3>3. x \div p = 2 * q + 1
        BY <3>1, <3>2, Divided
      <3> QED
        BY <1>2, <3>3
    <2> QED
      BY <2>1, <2>2
  <1>6. (x \div 2) \div p = q
    <2>1. x \div 2 = y + k \div 2 /\ k \div 2 \in 0 .. p - 1
      BY <1>2, <1>4 DEF n
    <2>2. (q * p + k \div 2) \div p = q
      BY <1>2, <2>1, Divided
    <2> QED
      BY <1>3, <2>1, <2>2
  <1> QED
    BY <1>5, <1>6 DEF q, n

(* The remainder of what is not far off. *)
LEMMA NearRemainder ==
    ASSUME NEW n \in Nat \ {0}, NEW x \in Int
    PROVE  /\ x \in 0 .. n - 1 => x % n = x
           /\ x \in n .. 2 * n - 1 => x % n = x - n
           /\ x \in -n .. -1 => x % n = x + n
  <1>1. x \in 0 .. n - 1 => x = 0 * n + x
    OBVIOUS
  <1>2. x \in n .. 2 * n - 1 => x = 1 * n + (x - n) /\ x - n \in 0 .. n - 1
    OBVIOUS
  <1>3. x \in -n .. -1 => x = (-1) * n + (x + n) /\ x + n \in 0 .. n - 1 /\ -1 \in Int
    OBVIOUS
  <1> QED
    BY <1>1, <1>2, <1>3, Divided

-----------------------------------------------------------------------------
(* Words. *)

(* The sizes of a word and of its half. *)
LEMMA WordSizes ==
    /\ W \in Nat \ {0} /\ 2^W \in Nat \ {0} /\ 2^(W - 1) \in Nat \ {0} /\ 2^W = 2 * 2^(W - 1)
    /\ Values = 0 .. 2^W - 1
  <1>1. W \in Nat \ {0}
    BY WAssumption
  <1>2. W \in 0 .. W /\ W \in 1 .. W /\ W - 1 \in 0 .. W
    BY <1>1
  <1> QED
    BY <1>1, <1>2, BinaryAssumption DEF Values

(* A bit is the digit of a word, and of what is put together of bits. *)
LEMMA BitIsDigit ==
    ASSUME NEW v \in Values, NEW i \in 0 .. W - 1
    PROVE  BitOf(v, i) = IF i \in BitsOf(v) THEN 1 ELSE 0
  <1> DEFINE p == 2^i
  <1>1. p \in Nat \ {0} /\ v \in Int
    BY WordSizes, BinaryAssumption
  <1>2. BitOf(v, i) = (v \div p) % 2 /\ (i \in BitsOf(v) <=> (v \div p) % 2 = 1)
    BY DEF BitOf, BitsOf
  <1> HIDE DEF p
  <1>3. v \div p \in Int
    BY <1>1, Division
  <1>4. (v \div p) % 2 \in 0 .. 1
    BY <1>3
  <1> QED
    BY <1>2, <1>4

LEMMA BitIsMember ==
    ASSUME NEW S \in SUBSET (0 .. W - 1), NEW i \in 0 .. W - 1
    PROVE  BitOf(ValueOf(S), i) = IF i \in S THEN 1 ELSE 0
  <1>1. ValueOf(S) \in Values /\ BitsOf(ValueOf(S)) = S
    BY BinaryAssumption
  <1> QED
    BY <1>1, BitIsDigit

(* The bits of a word are positions, and only zero has none. *)
LEMMA WordsAreBits ==
    /\ \A v \in Values : BitsOf(v) \in SUBSET (0 .. W - 1) /\ ValueOf(BitsOf(v)) = v
    /\ \A S \in SUBSET (0 .. W - 1) : ValueOf(S) = 0 <=> S = {}
  <1>1. \A v \in Values : BitsOf(v) \in SUBSET (0 .. W - 1) /\ ValueOf(BitsOf(v)) = v
    BY BinaryAssumption DEF BitsOf
  <1>2. BitsOf(0) = {}
    <2>1. ASSUME NEW i \in 0 .. W - 1 PROVE i \notin BitsOf(0)
      <3> DEFINE p == 2^i
      <3>1. p \in Nat \ {0}
        BY WordSizes, BinaryAssumption
      <3>2. i \in BitsOf(0) => (0 \div p) % 2 = 1
        BY DEF BitsOf
      <3> HIDE DEF p
      <3>3. 0 \div p = 0
        BY <3>1
      <3> QED
        BY <3>2, <3>3
    <2> QED
      BY <2>1 DEF BitsOf
  <1>3. 0 \in Values
    BY WordSizes
  <1>4. ValueOf({}) = 0
    BY <1>1, <1>2, <1>3
  <1> QED
    BY <1>1, <1>2, <1>4, BinaryAssumption

(* Sums and differences of words wrap once at most. *)
LEMMA WrapNear ==
    ASSUME NEW x \in Int
    PROVE  /\ x \in Values => Wrap(x) = x
           /\ x \in 2^W .. 2 * 2^W - 1 => Wrap(x) = x - 2^W
           /\ x \in -2^W .. -1 => Wrap(x) = x + 2^W
           /\ Wrap(x) \in Values
  <1> DEFINE M == 2^W
  <1>1. M \in Nat \ {0} /\ Values = 0 .. M - 1 /\ Wrap(x) = x % M
    BY WordSizes DEF Wrap
  <1> HIDE DEF M
  <1>2. /\ x \in 0 .. M - 1 => x % M = x
        /\ x \in M .. 2 * M - 1 => x % M = x - M
        /\ x \in -M .. -1 => x % M = x + M
        /\ x % M \in 0 .. M - 1
    BY <1>1, NearRemainder, Division
  <1> QED
    BY <1>1, <1>2 DEF M

(* The functions, one by one. *)
LEMMA Functions ==
    \A x, y :
      /\ AluFunction("ADD", x, y) = Wrap(x + y)
      /\ AluFunction("SUB", x, y) = Wrap(x - y)
      /\ AluFunction("AND", x, y) = ValueOf(BitsOf(x) \cap BitsOf(y))
      /\ AluFunction("OR", x, y) = ValueOf(BitsOf(x) \cup BitsOf(y))
      /\ AluFunction("XOR", x, y) = ValueOf((BitsOf(x) \ BitsOf(y)) \cup (BitsOf(y) \ BitsOf(x)))
      /\ AluFunction("SLL", x, y) = Wrap(x * 2^Shamt(y))
      /\ AluFunction("SRL", x, y) = x \div 2^Shamt(y)
      /\ AluFunction("SRA", x, y) = Wrap(Signed(x) \div 2^Shamt(y))
      /\ AluFunction("SLT", x, y) = ToWord(Signed(x) < Signed(y))
      /\ AluFunction("SLTU", x, y) = ToWord(x < y)
      /\ AluFunction("JALR", x, y) = ValueOf(BitsOf(Wrap(x + y)) \ {0})
      /\ AluFunction("COPY1", x, y) = x
      /\ AluFunction("ANDN", x, y) = ValueOf(BitsOf(x) \ BitsOf(y))
  BY DEF AluFunction, SymDiff, JumpSum, AndNot

(***************************************************************************)
(* The question asked, and its answer when it is there.                    *)
(***************************************************************************)
WordsInv ==
    /\ fun \in Funs \cup Branches /\ a \in Values /\ b \in Values
    /\ Done => Result = IF fun \in Funs THEN AluFunction(fun, a, b) ELSE BranchTaken(fun, a, b)

(* The result of a function of the ALU. *)
LEMMA FunctionResult ==
    ASSUME WordsInv, Done, fun \in Funs
    PROVE  Result = AluFunction(fun, a, b) /\ a \in Values /\ b \in Values
           /\ a \in Int /\ b \in Int
  BY WordSizes DEF WordsInv

(* The lowest bit of a word is what it has over an even one. *)
LEMMA LowBitCleared ==
    ASSUME NEW v \in Values
    PROVE  ValueOf(BitsOf(v) \ {0}) = v - (v % 2)
  <1> DEFINE u == v - (v % 2)
  <1>1. v \in Nat /\ v \in Int /\ u \in Values /\ u \div 2 = v \div 2 /\ u % 2 = 0 /\ u \in Int
    BY WordSizes
  <1> HIDE DEF u
  <1>2. ASSUME NEW i \in 0 .. W - 1 PROVE i \in BitsOf(u) <=> i \in BitsOf(v) /\ i # 0
    <2>1. CASE i = 0
      <3>1. 2^i = 1
        BY <2>1, BinaryAssumption
      <3>2. i \in BitsOf(u) => (u \div 1) % 2 = 1
        BY <3>1 DEF BitsOf
      <3>3. u \div 1 = u
        BY <1>1
      <3> QED
        BY <1>1, <2>1, <3>2, <3>3
    <2>2. CASE i # 0
      <3> DEFINE p == 2^(i - 1)
      <3>1. i \in 1 .. W /\ i - 1 \in 0 .. W
        BY <2>2, WordSizes
      <3>2. p \in Nat \ {0} /\ 2^i = 2 * p
        BY <3>1, BinaryAssumption
      <3>3. /\ i \in BitsOf(u) <=> (u \div (2 * p)) % 2 = 1
            /\ i \in BitsOf(v) <=> (v \div (2 * p)) % 2 = 1
        BY <3>2 DEF BitsOf
      <3> HIDE DEF p
      <3>4. u \div (2 * p) = (u \div 2) \div p /\ v \div (2 * p) = (v \div 2) \div p
        BY <1>1, <3>2, DivideTwice
      <3> QED
        BY <1>1, <2>2, <3>3, <3>4
    <2> QED
      BY <2>1, <2>2
  <1>3. BitsOf(u) = BitsOf(v) \ {0}
    <2>1. BitsOf(u) \in SUBSET (0 .. W - 1) /\ BitsOf(v) \in SUBSET (0 .. W - 1)
      BY DEF BitsOf
    <2> QED
      BY <1>2, <2>1
  <1>4. ValueOf(BitsOf(u)) = u
    BY <1>1, WordsAreBits
  <1> QED
    BY <1>3, <1>4 DEF u

(* Addition, subtraction and the target of JALR. *)
LEMMA SumsRight == WordsInv /\ Done => SumsWrap
  <1> SUFFICES ASSUME WordsInv, Done PROVE SumsWrap
    OBVIOUS
  <1> DEFINE M == 2^W
  <1>1. M \in Nat \ {0} /\ Values = 0 .. M - 1
    BY WordSizes
  <1>2. fun = "ADD" => AluFunction("SUB", Result, b) = a /\ (Result < a <=> a + b >= M)
    <2> SUFFICES ASSUME fun = "ADD" PROVE AluFunction("SUB", Result, b) = a /\ (Result < a <=> a + b >= M)
      OBVIOUS
    <2>1. Result = Wrap(a + b) /\ a \in Values /\ b \in Values /\ a \in Int /\ b \in Int
      BY FunctionResult, Functions DEF Funs
    <2>2. Result = (IF a + b >= M THEN a + b - M ELSE a + b)
      <3> HIDE DEF M
      <3>1. a + b \in Int /\ (a + b \in Values \/ a + b \in M .. 2 * M - 1)
        BY <1>1, <2>1
      <3> QED
        BY <1>1, <2>1, <3>1, WrapNear DEF M
    <2>3. AluFunction("SUB", Result, b) = Wrap(Result - b)
      BY Functions
    <2>4. Wrap(Result - b) = a
      <3>1. CASE a + b >= M
        <4> HIDE DEF M
        <4>1. PICK x \in Int : x = Result - b
          BY <1>1, <2>1, <2>2
        <4>2. x = a - M /\ x \in -M .. -1
          BY <1>1, <2>1, <2>2, <3>1, <4>1
        <4>3. Wrap(x) = x + M
          BY <4>2, WrapNear DEF M
        <4> QED
          BY <1>1, <2>1, <4>1, <4>2, <4>3
      <3>2. CASE ~(a + b >= M)
        <4>1. Result - b = a
          BY <1>1, <2>1, <2>2, <3>2
        <4> QED
          BY <2>1, <4>1, WrapNear
      <3> QED
        BY <3>1, <3>2
    <2> QED
      BY <1>1, <2>1, <2>2, <2>3, <2>4
  <1>3. fun = "SUB" => AluFunction("ADD", Result, b) = a /\ (Result > a <=> a < b)
    <2> SUFFICES ASSUME fun = "SUB" PROVE AluFunction("ADD", Result, b) = a /\ (Result > a <=> a < b)
      OBVIOUS
    <2>1. Result = Wrap(a - b) /\ a \in Values /\ b \in Values /\ a \in Int /\ b \in Int
      BY FunctionResult, Functions DEF Funs
    <2>2. Result = (IF a < b THEN a - b + M ELSE a - b)
      <3>1. a - b \in Int /\ (a - b \in -M .. -1 \/ a - b \in Values)
        BY <1>1, <2>1
      <3>2. a < b <=> a - b \in -M .. -1
        BY <1>1, <2>1
      <3> QED
        BY <1>1, <2>1, <3>1, <3>2, WrapNear
    <2>3. AluFunction("ADD", Result, b) = Wrap(Result + b)
      BY Functions
    <2>4. Wrap(Result + b) = a
      <3>1. CASE a < b
        <4> HIDE DEF M
        <4>1. PICK x \in Int : x = Result + b
          BY <1>1, <2>1, <2>2
        <4>2. x = a + M /\ x \in M .. 2 * M - 1
          BY <1>1, <2>1, <2>2, <3>1, <4>1
        <4>3. Wrap(x) = x - M
          BY <4>2, WrapNear DEF M
        <4> QED
          BY <1>1, <2>1, <4>1, <4>2, <4>3
      <3>2. CASE ~(a < b)
        <4>1. Result + b = a
          BY <1>1, <2>1, <2>2, <3>2
        <4> QED
          BY <2>1, <4>1, WrapNear
      <3> QED
        BY <3>1, <3>2
    <2> QED
      BY <1>1, <2>1, <2>2, <2>3, <2>4
  <1>4. fun = "JALR" => Result % 2 = 0 /\ AluFunction("ADD", a, b) - Result \in {0, 1}
    <2> SUFFICES ASSUME fun = "JALR" PROVE Result % 2 = 0 /\ AluFunction("ADD", a, b) - Result \in {0, 1}
      OBVIOUS
    <2> DEFINE s == Wrap(a + b)
    <2>1. Result = ValueOf(BitsOf(s) \ {0}) /\ a + b \in Int
      BY FunctionResult, Functions DEF Funs
    <2>2. s \in Values /\ AluFunction("ADD", a, b) = s
      BY <2>1, WrapNear, Functions
    <2> HIDE DEF s
    <2>3. Result = s - (s % 2)
      BY <2>1, <2>2, LowBitCleared
    <2>4. s \in Int
      BY <1>1, <2>2
    <2> QED
      BY <2>2, <2>3, <2>4
  <1> QED
    BY <1>2, <1>3, <1>4 DEF SumsWrap

(* The bitwise functions. *)
LEMMA BitsRight == WordsInv /\ Done => BitsAgree
  <1> SUFFICES ASSUME WordsInv, Done PROVE BitsAgree
    OBVIOUS
  <1> DEFINE A == BitsOf(a)
             B == BitsOf(b)
  <1>1. A \in SUBSET (0 .. W - 1) /\ B \in SUBSET (0 .. W - 1)
    BY DEF BitsOf
  <1>2. \A i \in 0 .. W - 1 : /\ BitOf(a, i) = IF i \in A THEN 1 ELSE 0
                              /\ BitOf(b, i) = IF i \in B THEN 1 ELSE 0
    BY BitIsDigit DEF WordsInv
  <1>3. /\ fun = "AND" => Result = ValueOf(A \cap B)
        /\ fun = "OR" => Result = ValueOf(A \cup B)
        /\ fun = "XOR" => Result = ValueOf((A \ B) \cup (B \ A))
        /\ fun = "ANDN" => Result = ValueOf(A \ B)
        /\ fun = "COPY1" => Result = a
    BY FunctionResult, Functions DEF Funs
  <1> HIDE DEF A, B
  <1>4. \A S \in SUBSET (0 .. W - 1) : \A i \in 0 .. W - 1 :
            BitOf(ValueOf(S), i) = IF i \in S THEN 1 ELSE 0
    BY BitIsMember
  <1>5. fun = "AND" => \A i \in 0 .. W - 1 : BitOf(Result, i) = BitOf(a, i) * BitOf(b, i)
    BY <1>1, <1>2, <1>3, <1>4
  <1>6. fun = "OR" => \A i \in 0 .. W - 1 :
            BitOf(Result, i) = BitOf(a, i) + BitOf(b, i) - BitOf(a, i) * BitOf(b, i)
    BY <1>1, <1>2, <1>3, <1>4
  <1>7. fun = "XOR" => \A i \in 0 .. W - 1 : BitOf(Result, i) = (BitOf(a, i) + BitOf(b, i)) % 2
    BY <1>1, <1>2, <1>3, <1>4
  <1>8. fun = "ANDN" => \A i \in 0 .. W - 1 : BitOf(Result, i) = BitOf(a, i) * (1 - BitOf(b, i))
    BY <1>1, <1>2, <1>3, <1>4
  <1> QED
    BY <1>3, <1>5, <1>6, <1>7, <1>8 DEF BitsAgree, ResultBits

(* Comparisons. *)
LEMMA OrderRight == WordsInv /\ Done => OrderAgrees
  <1> SUFFICES ASSUME WordsInv, Done PROVE OrderAgrees
    OBVIOUS
  <1> DEFINE M == 2^W
             H == 2^(W - 1)
  <1>1. M \in Nat \ {0} /\ H \in Nat \ {0} /\ M = 2 * H /\ Values = 0 .. M - 1
    BY WordSizes
  <1>2. a \in 0 .. M - 1 /\ b \in 0 .. M - 1 /\ a \in Values /\ b \in Values /\ a \in Int /\ b \in Int
    BY <1>1 DEF WordsInv
  <1>3. \A x : Signed(x) = IF x < H THEN x ELSE x - M
    BY DEF Signed
  <1>4. ASSUME NEW x \in 0 .. M - 1 PROVE Flip(x) = IF x < H THEN x + H ELSE x - H
    <2>1. Flip(x) = Wrap(x + H)
      BY DEF Flip
    <2> HIDE DEF M, H
    <2>2. PICK y \in Int : y = x + H
      BY <1>1
    <2>3. x < H => y \in Values
      BY <1>1, <2>2
    <2>4. ~(x < H) => y \in M .. 2 * M - 1 /\ y - M = x - H
      BY <1>1, <2>2
    <2>5. (y \in Values => Wrap(y) = y) /\ (y \in M .. 2 * M - 1 => Wrap(y) = y - M)
      BY <2>2, WrapNear DEF M
    <2> QED
      BY <2>1, <2>2, <2>3, <2>4, <2>5
  <1>5. Signed(a) < Signed(b) <=> Flip(a) < Flip(b)
    <2>1. /\ Signed(a) = IF a < H THEN a ELSE a - M
          /\ Signed(b) = IF b < H THEN b ELSE b - M
          /\ Flip(a) = IF a < H THEN a + H ELSE a - H
          /\ Flip(b) = IF b < H THEN b + H ELSE b - H
      BY <1>2, <1>3, <1>4
    <2> HIDE DEF M, H
    <2> QED
      BY <1>1, <1>2, <2>1
  <1>6. a < b <=> \E d \in Values \ {0} : a + d = b
    <2>1. a < b => b - a \in Values \ {0} /\ a + (b - a) = b
      BY <1>1, <1>2
    <2>2. \A d \in Values \ {0} : a + d = b => a < b
      BY <1>1, <1>2
    <2> QED
      BY <2>1, <2>2
  <1>7. /\ Signed(a) \in Int /\ Signed(b) \in Int
        /\ ~(Signed(a) < Signed(b)) <=> Signed(b) < Signed(a) \/ a = b
        /\ ~(a < b) <=> b < a \/ a = b
    <2>1. /\ Signed(a) = IF a < H THEN a ELSE a - M
          /\ Signed(b) = IF b < H THEN b ELSE b - M
      BY <1>2, <1>3
    <2> HIDE DEF M, H
    <2> QED
      BY <1>1, <1>2, <2>1
  <1>8. AluFunction("XOR", a, b) = 0 <=> a = b
    <2> DEFINE A == BitsOf(a)
               B == BitsOf(b)
               D == (A \ B) \cup (B \ A)
    <2>1. A \in SUBSET (0 .. W - 1) /\ B \in SUBSET (0 .. W - 1) /\ ValueOf(A) = a /\ ValueOf(B) = b
      BY <1>2, WordsAreBits
    <2>2. AluFunction("XOR", a, b) = ValueOf(D)
      BY Functions
    <2> HIDE DEF A, B
    <2>3. D \in SUBSET (0 .. W - 1) /\ (D = {} <=> A = B)
      BY <2>1
    <2> HIDE DEF D
    <2>4. ValueOf(D) = 0 <=> D = {}
      BY <2>3, WordsAreBits
    <2>5. a = b => A = B
      BY DEF A, B
    <2> QED
      BY <2>1, <2>2, <2>3, <2>4, <2>5
  <1>9. \A t \in BOOLEAN : ToWord(t) = 1 <=> t
    BY DEF ToWord
  <1>10. /\ AluFunction("SLT", a, b) = ToWord(Signed(a) < Signed(b))
         /\ AluFunction("SLT", b, a) = ToWord(Signed(b) < Signed(a))
         /\ AluFunction("SLTU", a, b) = ToWord(a < b)
         /\ AluFunction("SLTU", b, a) = ToWord(b < a)
         /\ AluFunction("SLTU", Flip(a), Flip(b)) = ToWord(Flip(a) < Flip(b))
    BY Functions
  <1>11. /\ fun = "SLT" => Result = ToWord(Signed(a) < Signed(b))
         /\ fun = "SLTU" => Result = ToWord(a < b)
    BY FunctionResult, Functions DEF Funs
  <1>12. /\ BranchTaken("BGE", a, b) = ~(Signed(a) < Signed(b))
         /\ BranchTaken("BGEU", a, b) = ~(a < b)
    BY DEF BranchTaken
  <1>13. /\ fun = "BEQ" => Result = (a = b)
         /\ fun = "BNE" => Result = ~(a = b)
         /\ fun = "BLT" => Result = (Signed(a) < Signed(b))
         /\ fun = "BGE" => Result = ~(Signed(a) < Signed(b))
         /\ fun = "BLTU" => Result = (a < b)
         /\ fun = "BGEU" => Result = ~(a < b)
    BY DEF WordsInv, Funs, BranchTaken
  <1>14. /\ fun = "SLT" => Result = AluFunction("SLTU", Flip(a), Flip(b))
         /\ fun = "SLTU" => Result = ToWord(\E d \in Values \ {0} : a + d = b)
    <2>1. ToWord(Signed(a) < Signed(b)) = ToWord(Flip(a) < Flip(b))
      BY <1>5 DEF ToWord
    <2>2. ToWord(a < b) = ToWord(\E d \in Values \ {0} : a + d = b)
      BY <1>6 DEF ToWord
    <2> QED
      BY <1>10, <1>11, <2>1, <2>2
  <1>15. /\ fun = "BLT" => Result = (AluFunction("SLT", a, b) = 1) /\ Result # BranchTaken("BGE", a, b)
         /\ fun = "BLTU" => Result = (AluFunction("SLTU", a, b) = 1) /\ Result # BranchTaken("BGEU", a, b)
    <2>1. /\ (AluFunction("SLT", a, b) = 1) = (Signed(a) < Signed(b))
          /\ (AluFunction("SLTU", a, b) = 1) = (a < b)
      BY <1>10 DEF ToWord
    <2> QED
      BY <1>12, <1>13, <2>1
  <1>16. /\ fun = "BGE" => Result = (AluFunction("SLT", b, a) = 1 \/ a = b)
         /\ fun = "BGEU" => Result = (AluFunction("SLTU", b, a) = 1 \/ a = b)
    <2>1. /\ (AluFunction("SLT", b, a) = 1) = (Signed(b) < Signed(a))
          /\ (AluFunction("SLTU", b, a) = 1) = (b < a)
      BY <1>10 DEF ToWord
    <2> QED
      BY <1>7, <1>13, <2>1
  <1>17. /\ fun = "BEQ" => Result = (AluFunction("XOR", a, b) = 0)
         /\ fun = "BNE" => Result = (AluFunction("XOR", a, b) # 0)
    BY <1>8, <1>13
  <1> HIDE DEF M, H
  <1> QED
    BY <1>14, <1>15, <1>16, <1>17 DEF OrderAgrees

-----------------------------------------------------------------------------
(* Shifts. *)

(* What two functions have in common at the start and keep from place to   *)
(* place, they have in common.                                             *)
LEMMA PlaceByPlace ==
    ASSUME NEW T, 0 \in T, \A n \in 1 .. W : n - 1 \in T => n \in T
    PROVE  \A n \in 0 .. W : n \in T
  <1> DEFINE M == {n \in 0 .. W : n \notin T}
             R == {s \in Nat \X Nat : s[1] < s[2]}
  <1>1. IsWellFoundedOn(R, Nat)
    BY NatLessThanWellFounded DEF OpToRel
  <1>2. \A x, y \in Nat : x < y => <<x, y>> \in R
    OBVIOUS
  <1> HIDE DEF R
  <1> SUFFICES ASSUME M # {} PROVE FALSE
    OBVIOUS
  <1>3. W \in Nat /\ M \subseteq Nat
    BY WordSizes
  <1> HIDE DEF M
  <1>4. PICK x \in M : \A y \in M : ~(<<y, x>> \in R)
    BY <1>1, <1>3, WFMin
  <1>5. x \in 0 .. W /\ x \notin T /\ x # 0
    BY DEF M
  <1>6. x \in 1 .. W /\ x - 1 \in 0 .. W /\ x - 1 \in Nat /\ x - 1 < x /\ x \in Nat
    BY <1>3, <1>5
  <1>7. x - 1 \notin M
    BY <1>2, <1>4, <1>6
  <1>8. x - 1 \in T
    BY <1>6, <1>7 DEF M
  <1> QED
    BY <1>5, <1>6, <1>8

LEMMA SameSteps ==
    ASSUME NEW s, NEW t, s[0] = t[0], \A n \in 1 .. W : s[n - 1] = t[n - 1] => s[n] = t[n]
    PROVE  \A n \in 0 .. W : s[n] = t[n]
  <1> DEFINE T == {n \in 0 .. W : s[n] = t[n]}
  <1>1. 0 \in T
    BY WordSizes
  <1>2. \A n \in 1 .. W : n - 1 \in T => n \in T
    BY WordSizes
  <1> HIDE DEF T
  <1>3. \A n \in 0 .. W : n \in T
    BY <1>1, <1>2, PlaceByPlace
  <1> QED
    BY <1>3 DEF T

(* The powers of two between the places. *)
LEMMA Places ==
    /\ 2^0 = 1
    /\ \A n \in 1 .. W : 2^n = 2 * 2^(n - 1) /\ 2^(n - 1) \in Nat \ {0} /\ n - 1 \in 0 .. W
                         /\ n \in 0 .. W /\ n # 0
    /\ \A n \in 0 .. W : 2^n \in Nat \ {0}
  <1>1. \A n \in 1 .. W : n - 1 \in 0 .. W /\ n \in 0 .. W /\ n # 0
    BY WordSizes
  <1> QED
    BY <1>1, BinaryAssumption

(* The word wrapped before or after it is doubled. *)
LEMMA DoubledWrap ==
    ASSUME NEW x \in Int
    PROVE  Wrap(2 * Wrap(x)) = Wrap(2 * x)
  <1> DEFINE M == 2^W
             q == x \div M
             r == x % M
  <1>1. M \in Nat \ {0} /\ \A y : Wrap(y) = y % M
    BY WordSizes DEF Wrap
  <1> HIDE DEF M
  <1>2. q \in Int /\ r \in 0 .. M - 1 /\ x = q * M + r
    BY <1>1, Division
  <1> HIDE DEF q, r
  <1>3. \A c, d \in Int : (2 * c) * d = 2 * (c * d) /\ (2 * c + 1) * d = 2 * (c * d) + d
    OBVIOUS
  <1>4. PICK y \in Int : y = q * M
    BY <1>1, <1>2
  <1>5. (2 * q) * M = 2 * y /\ (2 * q + 1) * M = 2 * y + M
    BY <1>1, <1>2, <1>3, <1>4
  <1>6. CASE 2 * r < M
    <2>1. 2 * r \in 0 .. M - 1 /\ 2 * q \in Int /\ 2 * x = (2 * q) * M + 2 * r
      BY <1>1, <1>2, <1>4, <1>5, <1>6
    <2>2. (2 * x) % M = 2 * r
      <3> DEFINE m == 2 * q
                 k == 2 * r
      <3>1. m \in Int /\ k \in 0 .. M - 1 /\ 2 * x = m * M + k
        BY <2>1
      <3> HIDE DEF m, k
      <3>2. (m * M + k) % M = k
        BY <1>1, <3>1, Divided
      <3> QED
        BY <3>1, <3>2 DEF k
    <2>3. (2 * r) % M = 2 * r
      BY <1>1, <2>1, NearRemainder
    <2> QED
      BY <1>1, <2>2, <2>3 DEF r
  <1>7. CASE ~(2 * r < M)
    <2>1. /\ 2 * r - M \in 0 .. M - 1 /\ 2 * q + 1 \in Int
          /\ 2 * x = (2 * q + 1) * M + (2 * r - M) /\ 2 * r \in M .. 2 * M - 1 /\ 2 * r \in Int
      BY <1>1, <1>2, <1>4, <1>5, <1>7
    <2>2. (2 * x) % M = 2 * r - M
      <3> DEFINE m == 2 * q + 1
                 k == 2 * r - M
      <3>1. m \in Int /\ k \in 0 .. M - 1 /\ 2 * x = m * M + k
        BY <2>1
      <3> HIDE DEF m, k
      <3>2. (m * M + k) % M = k
        BY <1>1, <3>1, Divided
      <3> QED
        BY <3>1, <3>2 DEF k
    <2>3. (2 * r) % M = 2 * r - M
      BY <1>1, <2>1, NearRemainder
    <2> QED
      BY <1>1, <2>2, <2>3 DEF r
  <1> QED
    BY <1>6, <1>7

(* A shift to the left is a product. *)
LEMMA LeftShifts ==
    ASSUME NEW v \in Values
    PROVE  \A n \in 0 .. W : ShiftedBy(Left, v)[n] = Wrap(v * 2^n)
  <1> DEFINE t == [n \in 0 .. W |-> Wrap(v * 2^n)]
             Rec(s) == [n \in 0 .. W |-> IF n = 0 THEN v ELSE Left(s[n - 1])]
  <1>1. v \in Int /\ Wrap(v) = v /\ 0 \in 0 .. W
    BY WordSizes, WrapNear
  <1>2. t[0] = v
    BY <1>1, Places
  <1>3. ASSUME NEW n \in 1 .. W PROVE t[n] = Left(t[n - 1])
    <2> DEFINE p == 2^(n - 1)
    <2>1. p \in Nat \ {0} /\ 2^n = 2 * p /\ n - 1 \in 0 .. W /\ n \in 0 .. W
      BY Places
    <2>2. t[n] = Wrap(v * (2 * p)) /\ t[n - 1] = Wrap(v * p)
      BY <2>1
    <2> HIDE DEF p
    <2>3. \A c, d \in Int : c * (2 * d) = 2 * (c * d) /\ c * d \in Int
      OBVIOUS
    <2>4. v * (2 * p) = 2 * (v * p) /\ v * p \in Int
      BY <1>1, <2>1, <2>3
    <2> HIDE DEF t
    <2>5. Left(t[n - 1]) = Wrap(2 * Wrap(v * p))
      BY <2>2 DEF Left
    <2> QED
      BY <2>2, <2>4, <2>5, DoubledWrap
  <1>4. ShiftedBy(Left, v) = CHOOSE s : s = Rec(s)
    BY DEF ShiftedBy
  <1>5. t = Rec(t)
    <2>1. \A n \in 0 .. W : t[n] = IF n = 0 THEN v ELSE Left(t[n - 1])
      <3>1. \A n \in 0 .. W : n = 0 \/ n \in 1 .. W
        BY WordSizes
      <3> HIDE DEF t
      <3> QED
        BY <1>2, <1>3, <3>1
    <2>2. t = [n \in 0 .. W |-> t[n]]
      OBVIOUS
    <2> HIDE DEF t
    <2> QED
      BY <2>1, <2>2
  <1> HIDE DEF t
  <1>6. PICK s : s = Rec(s) /\ s = ShiftedBy(Left, v)
    BY <1>4, <1>5
  <1>7. s[0] = v /\ \A n \in 1 .. W : s[n] = Left(s[n - 1])
    BY <1>1, <1>6, Places
  <1>8. \A n \in 0 .. W : s[n] = t[n]
    BY <1>2, <1>3, <1>7, SameSteps
  <1> QED
    BY <1>6, <1>8 DEF t

(* A shift to the right is a quotient. *)
LEMMA RightShifts ==
    ASSUME NEW v \in Values
    PROVE  \A n \in 0 .. W : ShiftedBy(Right, v)[n] = v \div 2^n
  <1> DEFINE t == [n \in 0 .. W |-> v \div 2^n]
             Rec(s) == [n \in 0 .. W |-> IF n = 0 THEN v ELSE Right(s[n - 1])]
  <1>1. v \in Int /\ v \div 1 = v /\ 0 \in 0 .. W
    BY WordSizes
  <1>2. t[0] = v
    BY <1>1, Places
  <1>3. ASSUME NEW n \in 1 .. W PROVE t[n] = Right(t[n - 1])
    <2> DEFINE p == 2^(n - 1)
    <2>1. p \in Nat \ {0} /\ 2^n = 2 * p /\ n - 1 \in 0 .. W /\ n \in 0 .. W
      BY Places
    <2>2. t[n] = v \div (2 * p) /\ t[n - 1] = v \div p
      BY <2>1
    <2> HIDE DEF p, t
    <2>3. v \div (2 * p) = (v \div p) \div 2
      BY <1>1, <2>1, DivideTwice
    <2> QED
      BY <2>2, <2>3 DEF Right
  <1>4. ShiftedBy(Right, v) = CHOOSE s : s = Rec(s)
    BY DEF ShiftedBy
  <1>5. t = Rec(t)
    <2>1. \A n \in 0 .. W : t[n] = IF n = 0 THEN v ELSE Right(t[n - 1])
      <3>1. \A n \in 0 .. W : n = 0 \/ n \in 1 .. W
        BY WordSizes
      <3> HIDE DEF t
      <3> QED
        BY <1>2, <1>3, <3>1
    <2>2. t = [n \in 0 .. W |-> t[n]]
      OBVIOUS
    <2> HIDE DEF t
    <2> QED
      BY <2>1, <2>2
  <1> HIDE DEF t
  <1>6. PICK s : s = Rec(s) /\ s = ShiftedBy(Right, v)
    BY <1>4, <1>5
  <1>7. s[0] = v /\ \A n \in 1 .. W : s[n] = Right(s[n - 1])
    BY <1>1, <1>6, Places
  <1>8. \A n \in 0 .. W : s[n] = t[n]
    BY <1>2, <1>3, <1>7, SameSteps
  <1> QED
    BY <1>6, <1>8 DEF t

(* The sign of a word is its highest bit, and half of a number keeps it. *)
LEMMA HalfOfSigned ==
    ASSUME NEW q \in -2^(W - 1) .. 2^(W - 1) - 1
    PROVE  q \div 2 \in -2^(W - 1) .. 2^(W - 1) - 1 /\ Arith(Wrap(q)) = Wrap(q \div 2)
  <1> DEFINE M == 2^W
             H == 2^(W - 1)
             r == Wrap(q)
  <1>1. M \in Nat \ {0} /\ H \in Nat \ {0} /\ M = 2 * H /\ q \in -H .. H - 1 /\ q \in Int
        /\ Values = 0 .. M - 1
    BY WordSizes
  <1>2. /\ \A x \in Int : x \in 0 .. M - 1 => Wrap(x) = x
        /\ \A x \in Int : x \in -M .. -1 => Wrap(x) = x + M
    BY <1>1, WrapNear
  <1>3. Arith(r) = r \div 2 + ((r \div H) % 2) * H
    BY DEF Arith, BitOf
  <1> HIDE DEF M, H, r
  <1>4. PICK h \in Int : h = q \div 2
    BY <1>1
  <1>5. h \in -H .. H - 1 /\ (q >= 0 => h \in 0 .. M - 1) /\ (q < 0 => h \in -M .. -1)
    BY <1>1, <1>4
  <1>6. ASSUME q >= 0 PROVE Arith(r) = Wrap(h)
    <2>1. q \in 0 .. M - 1 /\ q \in 0 .. H - 1
      BY <1>1, <1>6
    <2>2. r = q /\ Wrap(h) = h
      BY <1>1, <1>2, <1>4, <1>5, <1>6, <2>1 DEF r
    <2>3. q \div H = 0
      <3>1. q = 0 * H + q
        BY <1>1
      <3> QED
        BY <1>1, <2>1, <3>1, Divided
    <2>4. (r \div H) % 2 = 0
      BY <2>2, <2>3
    <2>5. ((r \div H) % 2) * H = 0
      BY <1>1, <2>4
    <2> QED
      BY <1>3, <1>4, <2>2, <2>5
  <1>7. ASSUME q < 0 PROVE Arith(r) = Wrap(h)
    <2>1. q \in -M .. -1
      BY <1>1, <1>7
    <2>2. r = q + M /\ Wrap(h) = h + M
      BY <1>1, <1>2, <1>4, <1>5, <1>7, <2>1 DEF r
    <2>3. r \div H = 1
      <3>1. PICK k \in 0 .. H - 1 : k = q + H
        BY <1>1, <1>7
      <3>2. r = 1 * H + k
        BY <1>1, <2>2, <3>1
      <3> QED
        BY <1>1, <3>1, <3>2, Divided
    <2>4. (r \div H) % 2 = 1
      BY <2>3
    <2>5. r \div 2 = h + H
      BY <1>1, <1>4, <2>2
    <2>6. ((r \div H) % 2) * H = H
      BY <1>1, <2>4
    <2> QED
      BY <1>1, <1>3, <1>4, <2>2, <2>5, <2>6
  <1>8. h \in -2^(W - 1) .. 2^(W - 1) - 1
    BY <1>5 DEF H
  <1> QED
    BY <1>1, <1>4, <1>6, <1>7, <1>8 DEF r

(* An arithmetic shift is a quotient of the number with its sign. *)
LEMMA ArithShifts ==
    ASSUME NEW v \in Values
    PROVE  \A n \in 0 .. W : ShiftedBy(Arith, v)[n] = Wrap(Signed(v) \div 2^n)
  <1> DEFINE S == Signed(v)
             t == [n \in 0 .. W |-> Wrap(S \div 2^n)]
             Rec(s) == [n \in 0 .. W |-> IF n = 0 THEN v ELSE Arith(s[n - 1])]
             Z == -2^(W - 1) .. 2^(W - 1) - 1
  <1>1. v \in Int /\ S \in Z /\ S \in Int /\ Wrap(S) = v /\ 0 \in 0 .. W
    <2> DEFINE M == 2^W
               H == 2^(W - 1)
    <2>1. M \in Nat \ {0} /\ H \in Nat \ {0} /\ M = 2 * H /\ v \in 0 .. M - 1 /\ W \in Nat
      BY WordSizes
    <2>2. S = IF v < H THEN v ELSE v - M
      BY DEF Signed
    <2>3. v < H => Wrap(v) = v
      BY <2>1, WrapNear
    <2> HIDE DEF M, H, S
    <2>4. ~(v < H) => Wrap(S) = v
      <3> SUFFICES ASSUME ~(v < H) PROVE Wrap(S) = v
        OBVIOUS
      <3>1. S \in Int /\ S \in -M .. -1 /\ S + M = v
        BY <2>1, <2>2
      <3>2. Wrap(S) = S + M
        BY <3>1, WrapNear DEF M
      <3> QED
        BY <3>1, <3>2
    <2>5. S \in -H .. H - 1 /\ S \in Int
      BY <2>1, <2>2
    <2> QED
      BY <2>1, <2>2, <2>3, <2>4, <2>5 DEF H
  <1> HIDE DEF S
  <1>2. t[0] = v
    <2>1. S \div 1 = S
      BY <1>1
    <2> QED
      BY <1>1, <2>1, Places
  <1>3. \A n \in 0 .. W : S \div 2^n \in Z
    <2> DEFINE T == {n \in 0 .. W : S \div 2^n \in Z}
    <2>1. 0 \in T
      <3>1. S \div 1 = S
        BY <1>1
      <3> QED
        BY <1>1, <3>1, Places
    <2>2. ASSUME NEW n \in 1 .. W, n - 1 \in T PROVE n \in T
      <3> DEFINE p == 2^(n - 1)
      <3>1. p \in Nat \ {0} /\ 2^n = 2 * p /\ n \in 0 .. W /\ S \div p \in Z
        BY <2>2, Places
      <3> HIDE DEF p
      <3>2. S \div (2 * p) = (S \div p) \div 2
        BY <1>1, <3>1, DivideTwice
      <3>3. PICK q \in Z : q = S \div p
        BY <3>1
      <3> HIDE DEF T
      <3>4. q \div 2 \in Z
        BY <3>3, HalfOfSigned
      <3> QED
        BY <3>1, <3>2, <3>3, <3>4 DEF T
    <2> HIDE DEF T
    <2>3. \A n \in 0 .. W : n \in T
      BY <2>1, <2>2, PlaceByPlace
    <2> QED
      BY <2>3 DEF T
  <1>4. ASSUME NEW n \in 1 .. W PROVE t[n] = Arith(t[n - 1])
    <2> DEFINE p == 2^(n - 1)
    <2>1. p \in Nat \ {0} /\ 2^n = 2 * p /\ n - 1 \in 0 .. W /\ n \in 0 .. W
      BY Places
    <2>2. t[n] = Wrap(S \div (2 * p)) /\ t[n - 1] = Wrap(S \div p) /\ S \div p \in Z
      BY <1>3, <2>1
    <2> HIDE DEF p, t
    <2>3. S \div (2 * p) = (S \div p) \div 2
      BY <1>1, <2>1, DivideTwice
    <2>4. PICK q \in Z : q = S \div p
      BY <2>2
    <2>5. Arith(Wrap(q)) = Wrap(q \div 2)
      BY <2>4, HalfOfSigned
    <2> QED
      BY <2>2, <2>3, <2>4, <2>5
  <1>5. ShiftedBy(Arith, v) = CHOOSE s : s = Rec(s)
    BY DEF ShiftedBy
  <1>6. t = Rec(t)
    <2>1. \A n \in 0 .. W : t[n] = IF n = 0 THEN v ELSE Arith(t[n - 1])
      <3>1. \A n \in 0 .. W : n = 0 \/ n \in 1 .. W
        BY WordSizes
      <3> HIDE DEF t
      <3> QED
        BY <1>2, <1>4, <3>1
    <2>2. t = [n \in 0 .. W |-> t[n]]
      OBVIOUS
    <2> HIDE DEF t
    <2> QED
      BY <2>1, <2>2
  <1> HIDE DEF t
  <1>7. PICK s : s = Rec(s) /\ s = ShiftedBy(Arith, v)
    BY <1>5, <1>6
  <1>8. s[0] = v /\ \A n \in 1 .. W : s[n] = Arith(s[n - 1])
    BY <1>1, <1>7, Places
  <1>9. \A n \in 0 .. W : s[n] = t[n]
    BY <1>2, <1>4, <1>8, SameSteps
  <1> QED
    BY <1>7, <1>9 DEF t, S

(* Shifts, by the low bits of the second operand. *)
LEMMA ShiftsRight == WordsInv /\ Done => ShiftsAgree
  <1> SUFFICES ASSUME WordsInv, Done PROVE ShiftsAgree
    OBVIOUS
  <1>1. a \in Values /\ b \in Values /\ b \in Int /\ W \in Nat \ {0}
    BY WordSizes DEF WordsInv
  <1>2. b % W \in 0 .. W /\ Shamt(b) = b % W
    <2>1. b % W \in 0 .. W - 1
      BY <1>1, Division
    <2> QED
      BY <1>1, <2>1 DEF Shamt
  <1>3. /\ fun = "SLL" => Result = Wrap(a * 2^(b % W))
        /\ fun = "SRL" => Result = a \div 2^(b % W)
        /\ fun = "SRA" => Result = Wrap(Signed(a) \div 2^(b % W))
    BY <1>2, FunctionResult, Functions DEF Funs
  <1> QED
    BY <1>1, <1>2, <1>3, LeftShifts, RightShifts, ArithShifts DEF ShiftsAgree

-----------------------------------------------------------------------------
(* The specification. *)

LEMMA WordsStart == WordsInit => WordsInv
  <1>1. AskAlu => WordsInv
    BY DEF AskAlu, AluInit, WordsInv, Done
  <1>2. AskRegisters => WordsInv
    <2> SUFFICES ASSUME AskRegisters PROVE WordsInv
      OBVIOUS
    <2>1. fun = "COPY1" /\ a = 0 /\ b = 0 /\ Result = 0 /\ 0 \in Values
      BY WordSizes DEF AskRegisters, Result
    <2> QED
      BY <2>1, Functions DEF WordsInv, Funs
  <1> QED
    BY <1>1, <1>2 DEF WordsInit

LEMMA WordsStep == WordsInv /\ [WordsNext]_<<vars, regVars>> => WordsInv'
  <1> SUFFICES ASSUME WordsInv, [WordsNext]_<<vars, regVars>> PROVE WordsInv'
    OBVIOUS
  <1>1. CASE Execute
    <2>1. fun' = fun /\ a' = a /\ b' = b
      BY <1>1 DEF Execute
    <2>2. Result' = IF fun \in Funs THEN AluFunction(fun, a, b) ELSE BranchTaken(fun, a, b)
      BY <1>1 DEF Execute, Result
    <2> QED
      BY <2>1, <2>2 DEF WordsInv
  <1>2. CASE UNCHANGED vars
    BY <1>2 DEF vars, WordsInv, Done, Result
  <1> QED
    BY <1>1, <1>2 DEF WordsNext

(***************************************************************************)
(* What the execute stage of cpu/Core.scala computes is what the manual    *)
(* says: sums and differences wrap, shifts are repeated shifts by one      *)
(* place, bitwise functions work bit by bit, and the comparisons and the   *)
(* branches agree with one another; for words of any width.                *)
(***************************************************************************)
THEOREM AluCorrect == WordsSpec => []AluAgrees
  <1>1. WordsInit => WordsInv
    BY WordsStart
  <1>2. WordsInv /\ [WordsNext]_<<vars, regVars>> => WordsInv'
    BY WordsStep
  <1>3. WordsInv => AluAgrees
    BY SumsRight, BitsRight, ShiftsRight, OrderRight DEF AluAgrees
  <1> QED
    BY <1>1, <1>2, <1>3, PTL DEF WordsSpec
=============================================================================

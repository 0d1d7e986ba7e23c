------------------------------ MODULE Registers -----------------------------
(***************************************************************************)
(* A program that makes any calls the register access crate offers, on the *)
(* devices of the board.  A call is one load, one store, or for modify a   *)
(* load and a store.                                                       *)
(***************************************************************************)
EXTENDS Pac, Devices

CONSTANTS
    Inputs,             \* words handed to the writers
    MaxCalls            \* bound on the calls of a behaviour

ASSUME InputsAssumption == Inputs \subseteq Word

Book == INSTANCE PacBook

VARIABLES
    stored,             \* the word last stored
    calls               \* how many calls have been made

regVars == <<devices, stored, calls>>

Fields(r) == {r.fields[n] : n \in DOMAIN r.fields}

-----------------------------------------------------------------------------
(* A field of one bit has a BitWriter, a wider one a FieldWriter.          *)
Written(w, f, v) == IF f.wi = 1 THEN WriteBit(w, f, 0 \in v) ELSE SetField(w, f, v)

(* The same bit written with set_bit() or clear_bit().                     *)
SetOrClear(w, f, v) == IF 0 \in v THEN SetBit(w, f) ELSE ClearBit(w, f)

-----------------------------------------------------------------------------
(* read() *)
Read(r) == JustLoad(r.offset) /\ UNCHANGED stored

Put(r, w) == JustStore(r.offset, w) /\ stored' = w

(* write(|w| w.bits(v)) *)
WriteRaw(r, v) == Put(r, RawBits(WriteStart(r), v))

(* write(|w| w.field().bits(v)) *)
Write(r, f, v) == f.access # "r" /\ Put(r, Written(WriteStart(r), f, v))

(* write_with_zero(|w| w.field().bits(v)) *)
WriteWithZero(r, f, v) == f.access # "r" /\ Put(r, Written(WriteWithZeroStart, f, v))

(* reset() *)
Reset(r) == Put(r, ResetWord(r))

(* modify(|_, w| w.field().bits(v)) starts from the word it loads.         *)
Modify(r, f, v) ==
    /\ f.access # "r"
    /\ Load(r.offset)
    /\ stored' = Written(ModifyStart(r, word'), f, v)
    /\ Store(r.offset, stored')

CallOn(r) ==
    \/ Read(r)
    \/ Reset(r)
    \/ \E v \in Inputs : WriteRaw(r, v)
    \/ \E v \in Inputs, f \in Fields(r) : Write(r, f, v) \/ WriteWithZero(r, f, v) \/ Modify(r, f, v)

RegInit == DevicesTypeOK /\ word = {} /\ stored = {} /\ calls = 0

RegNext ==
    /\ calls < MaxCalls
    /\ calls' = calls + 1
    /\ \E r \in Registers : CallOn(r)

RegSpec == RegInit /\ [][RegNext]_regVars

-----------------------------------------------------------------------------
(* The output port whose pins a register is named after. *)
PortOf(r) == CASE r = segled_out_l -> 0 [] r = segled_out_h -> 1 [] r = matrix_out_l -> 2
               [] r = matrix_out_h -> 3 [] r = led_out      -> 4
Outputs == GpioRegisters \ {sw_in}
DataRegisters == {txd, rxd}

InField(i, f) == f.of <= i /\ i < f.of + f.wi

FieldTakes(r, v) == LET p == PortOf(r) f == r.fields.out IN
    /\ Write(r, f, v)  => \A i \in Positions : i \in outReg'[p] <=> InField(i, f) /\ i - f.of \in v
    /\ Modify(r, f, v) => \A i \in Positions :
            i \in outReg'[p] <=> IF InField(i, f) THEN i - f.of \in v ELSE i \in outReg[p]

(***************************************************************************)
(* A written field reaches the pins of its own port, bit by bit, and the   *)
(* bits around it are zero after write and as they were after modify       *)
(* ("other fields will have the value they had before the call", says the  *)
(* crate): the word loaded must be the word the port holds.                *)
(***************************************************************************)
FieldsWritten == [][\A r \in Outputs, v \in Inputs : FieldTakes(r, v)]_regVars

StaysLocal(r) ==
    /\ \A p \in Ports : outReg'[p] # outReg[p] => r \in Outputs /\ p = PortOf(r)
    /\ rxQueue' # rxQueue => r \in DataRegisters /\ rxQueue' = Tail(rxQueue)
    /\ txQueue' # txQueue => /\ r \in DataRegisters
                            /\ Len(txQueue) < Depth /\ txQueue' = Append(txQueue, stored' \cap (0 .. 7))

(***************************************************************************)
(* A call on a register of the GPIO block changes its own port and no      *)
(* other, and no queue; of the UART block only an access at the offset     *)
(* txd and rxd share moves a queue, by one byte: a status register         *)
(* written, modified or reset changes nothing.                             *)
(***************************************************************************)
CallsStayLocal == [][\A r \in Registers : CallOn(r) => StaysLocal(r)]_regVars

StatusTells ==
    /\ IsReady(word', status.fields.txready) <=> Len(txQueue) < Depth
    /\ IsReady(word', status.fields.rxready) <=> rxQueue # <<>>
    /\ rxQueue' = rxQueue
ByteTells ==
    /\ BitIsSet(word', rxd.fields.rxd_valid) <=> rxQueue # <<>>
    /\ rxQueue # <<>> => rxQueue = <<FieldBits(word', rxd.fields.rxd)>> \o rxQueue'
PortTells(r) == \A i \in Positions :
    i \in FieldBits(word', r.fields.out) <=> i \in outReg[PortOf(r)] /\ InField(i, r.fields.out)
SwitchesTell == FieldBits(word', sw_in.fields.in) = inReg[5] \cap (0 .. 7)

(***************************************************************************)
(* What the readers say is so: the ready flags tell that the transmit      *)
(* queue has room and the receive queue a byte, rxd takes that byte and no *)
(* other, out shows what was written and in what the switches said.        *)
(***************************************************************************)
ReadersTell == [][/\ Read(status) => StatusTells
                  /\ Read(rxd) => ByteTells
                  /\ \A r \in Outputs : Read(r) => PortTells(r)
                  /\ Read(sw_in) => SwitchesTell]_regVars

SameWords(v) ==
    /\ Write(txd, txd.fields.data, v) =>
          stored' = Book!set_data(Book!WriteStart(Book!txdReset), v)
    /\ Modify(txd, txd.fields.data, v) => stored' = Book!set_data(Book!ModifyStart(word'), v)
    /\ Modify(status, status.fields.txready, v) =>
          /\ stored' = Book!set_txready(Book!ModifyStart(word'), 0 \in v)
          /\ stored' = SetOrClear(ModifyStart(status, word'), status.fields.txready, v)
    /\ Modify(status, status.fields.rxready, v) =>
          /\ stored' = Book!set_rxready(Book!ModifyStart(word'), 0 \in v)
          /\ stored' = SetOrClear(ModifyStart(status, word'), status.fields.rxready, v)
    /\ WriteRaw(led_out, v) => stored' = Book!RawBits(Book!WriteStart(Book!dataReset), v)
    /\ WriteWithZero(txd, txd.fields.data, v) => stored' = Book!set_data(Book!WriteWithZeroStart, v)
    /\ Reset(status) => stored' = Book!ResetWord(Book!statusReset)
    /\ Read(status) => /\ IsReady(word', status.fields.txready) = Book!txready(word')
                       /\ IsReady(word', status.fields.rxready) = Book!rxready(word')
    /\ WriteRaw(led_out, v) => SetField(stored', Field(0, 6, "rw"), v) = Book!set_led(stored', v)
    /\ Read(led_out) => FieldBits(word', Field(0, 6, "rw")) = Book!led(word')
    /\ Read(rxd) => FieldBits(word', rxd.fields.rxd) = Book!rxd(word')

(***************************************************************************)
(* The crate of the first board, generated by an older version, puts the   *)
(* same words on the bus and takes the same fields out of them; and a bit  *)
(* is the same bit whether it is set, cleared or written.                  *)
(***************************************************************************)
CratesAgree == [][\A v \in Inputs : SameWords(v)]_regVars
=============================================================================

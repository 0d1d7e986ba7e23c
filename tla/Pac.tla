--------------------------------- MODULE Pac --------------------------------
(***************************************************************************)
(* The register access crate of the boards with a segment display          *)
(* (sw-rs/pac/src/lib.rs, written by svd2rust 0.29): what each accessor of *)
(* a register sends to the bus and how it takes an answer apart.           *)
(*                                                                         *)
(* A register is a record of data.  Offsets count from 0xA0000000, below   *)
(* which the crate addresses nothing.                                      *)
(***************************************************************************)
EXTENDS IoBus

(* <$U>::MAX >> ($size - WI) *)
Mask(wi) == Shr(Positions, 32 - wi)

-----------------------------------------------------------------------------
(* Fields. *)

Field(of, wi, access) == [of |-> of, wi |-> wi, access |-> access]

FieldBits(bits, f) == Shr(bits, f.of) \cap Mask(f.wi)
BitIsSet(bits, f)  == 0 \in Shr(bits, f.of)

(* FieldWriter::bits, which the safe and the unsafe writer share. *)
SetField(w, f, value) == (w \ Shl(Mask(f.wi), f.of)) \cup Shl(value \cap Mask(f.wi), f.of)

(* BitWriter::bit, set_bit and clear_bit; the writers for bits that act on *)
(* one written value only have one of the two.                             *)
WriteBit(w, f, set) == (w \ Shl({0}, f.of)) \cup Shl(IF set THEN {0} ELSE {}, f.of)
SetBit(w, f)        == w \cup Shl({0}, f.of)
ClearBit(w, f)      == w \ Shl({0}, f.of)

-----------------------------------------------------------------------------
(* Registers.  ones: written 1 changes a bit and 0 leaves it; zeros: the   *)
(* other way round.                                                        *)

Register(offset, fields) ==
    [offset |-> offset, fields |-> fields, reset |-> {}, ones |-> {}, zeros |-> {}]

(* The word write, write_with_zero and modify hand to their closure; read  *)
(* and reset pass the word of the bus and the reset value.                 *)
WriteStart(r)        == (r.reset \ r.ones) \cup r.zeros
WriteWithZeroStart   == {}
Faulty_ModifyStart(r, bits) == WriteStart(r)            \* the word read is not used
ModifyStart(r, bits) == (bits \ r.ones) \cup r.zeros
ResetWord(r)         == r.reset

(* w.bits(word): everything the start value held is gone. *)
RawBits(w, word) == word

-----------------------------------------------------------------------------
(* The register blocks.  rxd and txd share an offset.                      *)

GPIO == 0
segled_out_l == Register(GPIO + 0,  [out |-> Field(0, 32, "rw")])
segled_out_h == Register(GPIO + 16, [out |-> Field(0, 16, "rw")])
matrix_out_l == Register(GPIO + 32, [out |-> Field(0, 32, "rw")])
matrix_out_h == Register(GPIO + 48, [out |-> Field(0, 32, "rw")])
led_out      == Register(GPIO + 64, [out |-> Field(0, 32, "rw")])
sw_in        == Register(GPIO + 84, [in |-> Field(0, 8, "r")])

UART == 4096
txd    == Register(UART + 0, [data |-> Field(0, 8, "w")])
rxd    == Register(UART + 0, [rxd |-> Field(0, 8, "r"), rxd_valid |-> Field(16, 1, "r")])
status == Register(UART + 4, [txready |-> Field(0, 1, "rw"), rxready |-> Field(1, 1, "rw")])

(* TXREADY_A and RXREADY_A: Ready is true, NotReady false. *)
IsReady(bits, f)    == BitIsSet(bits, f) = TRUE
IsNotReady(bits, f) == BitIsSet(bits, f) = FALSE

GpioRegisters == {segled_out_l, segled_out_h, matrix_out_l, matrix_out_h, led_out, sw_in}
UartRegisters == {txd, rxd, status}
Registers     == GpioRegisters \cup UartRegisters
=============================================================================

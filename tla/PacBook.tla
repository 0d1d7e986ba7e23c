------------------------------- MODULE PacBook ------------------------------
(***************************************************************************)
(* The register access crate of the first board                            *)
(* (cpu_riscv_chisel_book/src/sw-rs/pac/src/lib.rs), written by an older   *)
(* svd2rust: no bitmaps of special bits, and every field with functions of *)
(* its own in place of the generic ones.                                   *)
(***************************************************************************)
EXTENDS IoBus

(* The start values of write, write_with_zero and modify. *)
WriteStart(reset)    == reset
WriteWithZeroStart   == {}
ModifyStart(bits)    == bits
ResetWord(reset)     == reset
RawBits(w, word)     == word

(* GPIO.data: the LEDs. *)
dataReset      == {}
led(bits)      == bits \cap (0 .. 5)
set_led(w, v)  == (w \ (0 .. 5)) \cup (v \cap (0 .. 5))

(* UART: txd and rxd at offset 0, status at 4. *)
txdReset       == {}
set_data(w, v) == (w \ (0 .. 7)) \cup (v \cap (0 .. 7))

rxdReset       == {}
rxd(bits)      == bits \cap (0 .. 7)

statusReset       == {}
txready(bits)     == Shr(bits, 0) \cap {0} # {}
rxready(bits)     == Shr(bits, 1) \cap {0} # {}
set_txready(w, b) == (w \ {0}) \cup (IF b THEN {0} ELSE {})
Faulty_set_rxready(w, b) == (w \ {1}) \cup (IF b THEN {0} ELSE {})     \* value not shifted
set_rxready(w, b) == (w \ Shl({0}, 1)) \cup Shl(IF b THEN {0} ELSE {}, 1)
=============================================================================

------------------------------ MODULE BootRom -------------------------------
(***************************************************************************)
(* The boot program in C (sw/bootrom.c): main says hello, then sends back  *)
(* the byte the interrupt handler last left in uart_rx_data.  Its displays *)
(* are left out.                                                           *)
(*                                                                         *)
(* uart_rx_data is not volatile.  A build may load it at every use, once   *)
(* in a turn of the loop, or once before the loop, and in the last case    *)
(* has no reason to store it either.                                       *)
(*                                                                         *)
(* The core does not enter an interrupt between two instructions, as the   *)
(* handler's text supposes: it executes one of them twice, may resume at a *)
(* wrong one, and may lose the entry (runs irq_lost and irq_replay).       *)
(* `precise` is the hypothesis that in this behaviour no entry does harm.  *)
(***************************************************************************)
EXTENDS UartPort

CONSTANT Hello          \* the bytes of "Hello, world!\n"

ASSUME HelloAssumption == Hello \in Seq(Bytes) \ {<<>>}

REG_UART_DATA   == 4096
REG_UART_STATUS == 4096 + 4

VARIABLES
    reload,             \* how the build loads uart_rx_data
    mie,                \* interrupts are enabled
    uart_rx_data,
    cached, arg,        \* the value in a register, and the argument of uart_tx_byte
    precise,            \* hypothesis: entries fall as between two instructions
    last                \* the step of main before pc, or pc behind an entry

mainVars == <<reload, mie, uart_rx_data, cached, arg>>
romVars  == <<mainVars, precise, last>>

RomSteps == {"enable", "h_poll", "h_send", "hoist", "test", "ready", "poll", "send", "clear", "astray"}

LowByte(value) == value \cap (0 .. 7)

(* The value main sees where it tests, and where it sends.                 *)
Tested == IF reload = "once" THEN cached ELSE uart_rx_data
Seen   == IF reload = "each" THEN uart_rx_data ELSE cached

-----------------------------------------------------------------------------
(* The handler, from the jump to mret: no instruction of main is between.  *)
isr_extint_handler ==
    /\ mie /\ interrupt_in
    /\ JustLoad(REG_UART_DATA)
    /\ uart_rx_data' = word'
    /\ got' = Append(got, LowByte(word'))
    /\ UNCHANGED <<lineVars, told, pending, reload, mie, cached, arg, precise>>

(* What main goes on with.  As written: where it was.                      *)
Between == isr_extint_handler /\ UNCHANGED <<pc, count>>

(* The instruction in the execute stage is done, and once more after mret. *)
Again ==
    /\ isr_extint_handler
    /\ pc # "astray"
    /\ pc' = last
    /\ count' = IF last = "h_send" /\ pc # last THEN count - 1 ELSE count
Faulty_Replayed == Again                                \* as it is
Replayed == ~precise /\ Again

(* The pc saved is that of a flushed instruction: on the other side of the *)
(* test before, or in the handler, when a byte waits at its mret.          *)
Tests == {{"h_poll", "h_send"}, {"test", "ready"}, {"test", "poll"}, {"poll", "send"}}
Misled ==
    /\ ~precise
    /\ isr_extint_handler
    /\ \/ pc' = "astray"
       \/ \E sides \in Tests : pc \in sides /\ pc' \in sides \ {pc}
    /\ UNCHANGED count

(* In a load stall the jump is overtaken, and mstatus.MIE stays clear.     *)
Lost ==
    /\ mie /\ interrupt_in
    /\ mie' = FALSE
    /\ UNCHANGED <<devices, lineVars, progVars, reload, uart_rx_data, cached, arg, precise, last>>
Faulty_Overtaken == Lost                                \* as it is
Overtaken == ~precise /\ Lost

Entry ==
    \/ (Between \/ Replayed \/ Misled) /\ last' = pc'
    \/ Overtaken

-----------------------------------------------------------------------------
enable_interrupt ==
    /\ pc = "enable"
    /\ mie' = TRUE
    /\ pc' = "h_poll"
    /\ UNCHANGED <<devices, lineVars, told, got, sendVars, reload, uart_rx_data, cached, arg>>

(* uart_tx_string and uart_tx_byte *)
HelloPoll ==
    /\ pc = "h_poll"
    /\ JustLoad(REG_UART_STATUS)
    /\ pc' = IF 0 \in word' THEN "h_send" ELSE "h_poll"
    /\ UNCHANGED <<lineVars, told, got, sendVars, mainVars>>

HelloSend ==
    /\ pc = "h_send"
    /\ JustStore(REG_UART_DATA, pending[count + 1])
    /\ told' = Append(told, pending[count + 1])
    /\ count' = count + 1
    /\ pc' = IF count' = Len(pending) THEN "hoist" ELSE "h_poll"
    /\ UNCHANGED <<lineVars, got, pending, mainVars>>

-----------------------------------------------------------------------------
Hoist ==
    /\ pc = "hoist"
    /\ cached' = uart_rx_data
    /\ pc' = "test"
    /\ UNCHANGED <<devices, lineVars, told, got, sendVars, reload, mie, uart_rx_data, arg>>

(* if( uart_rx_data & 0x10000 ) *)
Faulty_Flagged(value) == 8 \in value                    \* 0x100
Flagged(value) == 16 \in value
Test ==
    /\ pc = "test"
    /\ cached' = IF reload = "each" THEN cached ELSE Tested
    /\ pc' = IF Flagged(Tested) THEN "ready" ELSE "test"
    /\ UNCHANGED <<devices, lineVars, told, got, sendVars, reload, mie, uart_rx_data, arg>>

(* if( uart_tx_ready() ), and the argument of the call. *)
Ready ==
    /\ pc = "ready"
    /\ JustLoad(REG_UART_STATUS)
    /\ arg' = LowByte(Seen)
    /\ pc' = IF 0 \in word' THEN "poll" ELSE "test"
    /\ UNCHANGED <<lineVars, told, got, sendVars, reload, mie, uart_rx_data, cached>>

Poll ==
    /\ pc = "poll"
    /\ JustLoad(REG_UART_STATUS)
    /\ pc' = IF 0 \in word' THEN "send" ELSE "poll"
    /\ UNCHANGED <<lineVars, told, got, sendVars, mainVars>>

Send ==
    /\ pc = "send"
    /\ JustStore(REG_UART_DATA, arg)
    /\ told' = Append(told, arg)
    /\ pc' = "clear"
    /\ UNCHANGED <<lineVars, got, sendVars, mainVars>>

Clear ==
    /\ pc = "clear"
    /\ uart_rx_data' = IF reload = "once" THEN uart_rx_data ELSE {}
    /\ cached' = {}
    /\ pc' = "test"
    /\ UNCHANGED <<devices, lineVars, told, got, sendVars, reload, mie, arg>>

(* Outside main there is no way back: mret over and over, for instance.    *)
Wander ==
    /\ pc = "astray"
    /\ UNCHANGED <<devices, lineVars, progVars, mainVars>>

RomStep ==
    /\ \/ enable_interrupt \/ HelloPoll \/ HelloSend
       \/ Hoist \/ Test \/ Ready \/ Poll \/ Send \/ Clear \/ Wander
    /\ last' = pc /\ UNCHANGED precise

RomInit ==
    /\ reload \in {"each", "turn", "once"}
    /\ mie = FALSE /\ uart_rx_data = {} /\ cached = {} /\ arg = {}
    /\ precise \in BOOLEAN /\ last = "enable"

RomTypeOK ==
    /\ reload \in {"each", "turn", "once"} /\ mie \in BOOLEAN
    /\ uart_rx_data \in Word /\ cached \in Word
    /\ arg \in Bytes
    /\ precise \in BOOLEAN /\ last \in RomSteps
=============================================================================

-------------------------------- MODULE Board -------------------------------
(***************************************************************************)
(* A board with a segment display runs one of its two programs: the        *)
(* firmware in Rust or the boot program in C, whichever its memory was     *)
(* built from (sw-rs/Makefile, sw/Makefile).                               *)
(***************************************************************************)
EXTENDS Driver, BootRom

VARIABLES
    image,              \* the program in memory
    spaced              \* who types waits for the echo

envVars == <<image, spaced>>
vars == <<portVars, serverVars, romVars, envVars>>

BoardInit ==
    /\ PortInit /\ ServerInit /\ RomInit
    /\ \/ image = "server" /\ pc = "start" /\ pending = <<>> 
          /\ spaced = FALSE /\ reload = "each" /\ precise = TRUE
       \/ image = "bootrom" /\ pc = "enable" /\ pending = Hello /\ spaced \in BOOLEAN

(* The echo of a byte takes ten bit times on the line, thousands of cycles *)
(* in which the program stores one zero: who waits for the echo never      *)
(* meets the byte still being cleared.                                     *)
Echoed == Len(wire) = Len(Hello) + arrivals /\ pc # "clear"

Program ==
    \/ image = "server" /\ ServerStep /\ UNCHANGED romVars
    \/ image = "bootrom" /\ RomStep /\ UNCHANGED serverVars
Interrupt == image = "bootrom" /\ Entry /\ UNCHANGED serverVars
Arrival == (spaced => Echoed) /\ Receive /\ UNCHANGED <<serverVars, romVars>>
Hardware(act) == act /\ UNCHANGED <<serverVars, romVars>>

Next == (Program \/ Interrupt \/ Arrival \/ Hardware(Enqueue) \/ Hardware(Transmit)) /\ UNCHANGED envVars

(* The processor and the clocked logic go on; an interrupt that is enabled *)
(* is entered at once, with the handler or without (Overtaken); bytes need *)
(* not come.                                                               *)
Fairness ==
    /\ WF_vars(Program /\ UNCHANGED envVars)
    /\ WF_vars(Interrupt /\ UNCHANGED envVars)
    /\ WF_vars(Hardware(Enqueue) /\ UNCHANGED envVars)
    /\ WF_vars(Hardware(Transmit) /\ UNCHANGED envVars)

Spec == BoardInit /\ [][Next]_vars /\ Fairness

-----------------------------------------------------------------------------
(***************************************************************************)
(* The values of the state.                                                *)
(***************************************************************************)
TypeOK ==
    /\ PortTypeOK /\ ServerTypeOK /\ RomTypeOK
    /\ image \in {"server", "bootrom"} /\ spaced \in BOOLEAN
    /\ pc \in IF image = "server" THEN ServerSteps ELSE RomSteps

(***************************************************************************)
(* Queues, registers and the two programs together keep what ByteStream    *)
(* promises: the loads that test the status take nothing, those of the     *)
(* data take a byte that is there, and no store finds the queue full.      *)
(* Where a store may be executed twice (~precise) nothing is promised.     *)
(***************************************************************************)
Promised(s) == IF precise THEN s ELSE <<>>
Abstract == INSTANCE ByteStream WITH
    Data <- Bytes, Capacity <- Depth + 1, SendDepth <- Depth,
    pending <- Promised(rxQueue \o held), consumed <- Promised(got),
    output <- Promised(txQueue), written <- Promised(told), sent <- Promised(wire)
ImplementsStream == Abstract!Stream

(***************************************************************************)
(* The responses reach the wire one after the other, each whole: what is   *)
(* sent, what is queued and what the program has yet to write are all of   *)
(* them, however often the writer blocked in between.                      *)
(***************************************************************************)
ResponsesWhole == image = "server" => wire \o txQueue \o Rest(pending, count) = answers

(***************************************************************************)
(* The firmware never stops, whatever the UART does: the light comes to    *)
(* the last of the six LEDs again and again.                               *)
(***************************************************************************)
LedsTurn == image = "server" => []<>(outReg[4] = {5})

(***************************************************************************)
(* Whatever has come is read in the end: no program waits for room to send *)
(* while nobody reads.  The boot program reads in its handler, and one     *)
(* entry that is lost (irq_lost) stops it for good: hence `precise`.       *)
(***************************************************************************)
Drained == precise => (rxQueue \o held # <<>> ~> rxQueue \o held = <<>>)

Embeds(s, t) == \E at \in [DOMAIN s -> DOMAIN t] :
    \A i, j \in DOMAIN s : s[i] = t[at[i]] /\ (i < j => at[i] < at[j])

(***************************************************************************)
(* What the boot program sends back was received, in that order and no     *)
(* byte twice, however the compiler loads uart_rx_data and wherever in     *)
(* main the interrupts fall, if they fall between its instructions.  This  *)
(* core may execute the store to the UART twice (irq_replay).              *)
(***************************************************************************)
EchoInOrder == image = "bootrom" /\ precise => Embeds(Rest(told, Len(Hello)), got)

(***************************************************************************)
(* Who waits for the echo of each byte before sending the next gets every  *)
(* byte back, if the build loads uart_rx_data anew in each turn and no     *)
(* entry of the core does harm.                                            *)
(***************************************************************************)
EchoComplete ==
    (precise /\ spaced /\ reload # "once") ~> [](Len(got) = arrivals /\ told = Hello \o got)
=============================================================================

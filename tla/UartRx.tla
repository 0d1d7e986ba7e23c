------------------------------- MODULE UartRx -------------------------------
(***************************************************************************)
(* The UART receiver (uart/UartRx.scala): it waits for a falling edge on   *)
(* the synchronized line and samples each bit once, in its middle.         *)
(***************************************************************************)
EXTENDS Naturals

CONSTANTS
    numberOfBits,       \* of a word
    rxSyncStages        \* registers between the pin and the logic

VARIABLES
    baudDivider,        \* a parameter of the circuit, fixed
    rateCounter, bitCounter, bits,
    rxRegs,             \* the line as it was; 0 is the oldest
    running,            \* inside a word
    outValid, outBits,  \* the word for the consumer
    overrun

rxVars == <<rateCounter, bitCounter, bits, rxRegs, running, outValid, outBits, overrun>>

Bit  == {0, 1}
Word == [0 .. numberOfBits - 1 -> Bit]

StartBit == rxRegs[1] = 0 /\ rxRegs[0] = 1

Faulty_ToFirstBit == baudDivider - 1                     \* to the end of the start bit
ToFirstBit == (baudDivider * 3) \div 2 - 1

Shifted == [i \in DOMAIN bits |-> IF i = numberOfBits - 1 THEN rxRegs[0] ELSE bits[i + 1]]

-----------------------------------------------------------------------------
(* What a clock edge does to the logic behind the synchronizer.            *)
Wait ==
    /\ ~running /\ ~StartBit
    /\ UNCHANGED <<rateCounter, bitCounter, bits, running>>

Start ==
    /\ ~running /\ StartBit
    /\ rateCounter' = ToFirstBit
    /\ bitCounter' = numberOfBits - 1
    /\ running' = TRUE
    /\ UNCHANGED bits

Count ==
    /\ running /\ rateCounter > 0
    /\ rateCounter' = rateCounter - 1
    /\ UNCHANGED <<bitCounter, bits, running>>

Sample ==
    /\ running /\ rateCounter = 0 /\ bitCounter > 0
    /\ bits' = Shifted
    /\ rateCounter' = baudDivider - 1
    /\ bitCounter' = bitCounter - 1
    /\ UNCHANGED running

(* The last bit: the word replaces whatever the consumer has not taken.    *)
Finish ==
    /\ running /\ rateCounter = 0 /\ bitCounter = 0
    /\ bits' = Shifted
    /\ running' = FALSE
    /\ outValid' = TRUE /\ outBits' = Shifted
    /\ overrun' = outValid
    /\ UNCHANGED <<rateCounter, bitCounter>>

Handshake(ready) ==
    /\ outValid' = (outValid /\ ~ready)
    /\ UNCHANGED <<outBits, overrun>>

Synchronize(rx) == rxRegs' = [i \in DOMAIN rxRegs |-> IF i = rxSyncStages THEN rx ELSE rxRegs[i + 1]]

(* A clock edge: rx is the pin, ready the consumer's.                      *)
Run(rx, ready) ==
    /\ Synchronize(rx)
    /\ (Wait \/ Start \/ Count \/ Sample) /\ Handshake(ready)
Receive(rx) == Synchronize(rx) /\ Finish

RxInit ==
    /\ rateCounter = 0 /\ bitCounter = 0 /\ running = FALSE
    /\ rxRegs = [i \in 0 .. rxSyncStages |-> 0]
    /\ outValid = FALSE /\ overrun = FALSE
    /\ bits = [i \in 0 .. numberOfBits - 1 |-> 0]      \* these two are not reset,
    /\ outBits = [i \in 0 .. numberOfBits - 1 |-> 0]   \* and not read before they are written
=============================================================================

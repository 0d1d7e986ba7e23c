------------------------------- MODULE Serial -------------------------------
(***************************************************************************)
(* A transmitter and a receiver on one line.  A step is a clock edge of    *)
(* both; the ends of a line have clocks of their own, which shows as two   *)
(* baud dividers that need not be equal.                                   *)
(***************************************************************************)
EXTENDS Sequences, Naturals

CONSTANTS
    numberOfBits, rxSyncStages,
    Dividers        \* pairs [tx, rx] of baud dividers

(* Each bit is sampled while it is on the line: bit k is sent from cycle   *)
(* (k + 1) * tx of a frame on, and read, counted at the pin, one and a     *)
(* half receiver bits and k more after the frame's begin.                  *)
ToFirstSample(d) == (d.rx * 3) \div 2
Tolerable(d) == \A k \in 0 .. numberOfBits - 1 :
    ToFirstSample(d) - 1 + k * d.rx \in (k + 1) * d.tx .. (k + 2) * d.tx - 1

(* The receiver, which sees the line rxSyncStages cycles late, has its     *)
(* last bit before the stop bit ends.                                      *)
InTime(d) ==
    rxSyncStages + ToFirstSample(d) + (numberOfBits - 1) * d.rx < (numberOfBits + 2) * d.tx

VARIABLES
    dividers,                               \* fixed
    tx_rate, tx_bit, tx_bits,               \* UartTx
    rx_rate, rx_bit, rx_bits, rxRegs, running, outValid, outBits, overrun,  \* UartRx
    sent            \* history: words accepted that have not arrived

Tx == INSTANCE UartTx WITH
    baudDivider <- dividers.tx, rateCounter <- tx_rate, bitCounter <- tx_bit, bits <- tx_bits
Rx == INSTANCE UartRx WITH
    baudDivider <- dividers.rx, rateCounter <- rx_rate, bitCounter <- rx_bit, bits <- rx_bits

ASSUME SerialAssumption ==
    /\ numberOfBits \in Nat \ {0} /\ rxSyncStages \in Nat \ {0}
    /\ Dividers \subseteq [tx : Nat \ {0}, rx : Nat \ {0}]
    /\ \A d \in Dividers : Tolerable(d) /\ InTime(d)
    /\ (numberOfBits + 2) % Tx!BitCounts = numberOfBits + 2     \* its counter holds a frame

vars == <<dividers, tx_rate, tx_bit, tx_bits,
          rx_rate, rx_bit, rx_bits, rxRegs, running, outValid, outBits, overrun, sent>>

-----------------------------------------------------------------------------
Quiet(ready) ==
    /\ Rx!Run(Tx!io_tx, ready)
    /\ \/ Tx!Run /\ UNCHANGED sent
       \/ \E w \in Tx!Word : Tx!Accept(w) /\ sent' = Append(sent, w)

Arrive ==
    /\ Rx!Receive(Tx!io_tx)
    /\ LET rest == SubSeq(sent, 2, Len(sent))
       IN  \/ Tx!Run /\ sent' = rest
           \/ \E w \in Tx!Word : Tx!Accept(w) /\ sent' = Append(rest, w)

Clock == UNCHANGED dividers /\ ((\E ready \in BOOLEAN : Quiet(ready)) \/ Arrive)

Init == dividers \in Dividers /\ Tx!TxInit /\ Rx!RxInit /\ sent = <<>>

(* The clock runs. *)
Spec == Init /\ [][Clock]_vars /\ WF_vars(Clock)

-----------------------------------------------------------------------------
(***************************************************************************)
(* A word is on the line exactly as long as the transmitter is busy with   *)
(* it or the receiver is: none piles up in between, and the transmitter is *)
(* not ready for the next one before the last has arrived.                 *)
(***************************************************************************)
InStep == Len(sent) <= 1 /\ (Tx!io_in_ready /\ running => FALSE)

Promised == INSTANCE Line WITH
    Word <- Tx!Word, inTransit <- sent, held <- IF outValid THEN <<outBits>> ELSE <<>>

(***************************************************************************)
(* Every word sent arrives, whole and in order, for every pair of dividers *)
(* within the tolerance, whatever gaps the sender makes and whenever the   *)
(* consumer is ready.                                                      *)
(***************************************************************************)
DeliversWords == Promised!FairSpec
=============================================================================

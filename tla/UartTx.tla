------------------------------- MODULE UartTx -------------------------------
(***************************************************************************)
(* The UART transmitter (uart/UartTx.scala): a shift register that puts a  *)
(* start bit, a word and a stop bit on the line, baudDivider cycles each.  *)
(***************************************************************************)
EXTENDS Naturals

CONSTANT numberOfBits   \* of a word

VARIABLES
    baudDivider,        \* a parameter of the circuit, fixed
    rateCounter, bitCounter, bits

txVars == <<rateCounter, bitCounter, bits>>

Bit  == {0, 1}
Word == [0 .. numberOfBits - 1 -> Bit]

(* bitCounter has log2Ceil(numberOfBits + 2) bits: a power of two does not *)
(* fit.                                                                    *)
PowersOfTwo == {2 ^ k : k \in 0 .. numberOfBits + 2}
BitCounts   == CHOOSE size \in PowersOfTwo : /\ size >= numberOfBits + 2
                                             /\ size < 2 * (numberOfBits + 2)

io_tx       == IF bitCounter = 0 THEN 1 ELSE bits[0]
io_in_ready == bitCounter = 0

Frame(word) == [i \in 0 .. numberOfBits + 1 |->
                   CASE i = 0 -> 0 [] i = numberOfBits + 1 -> 1 [] OTHER -> word[i - 1]]

-----------------------------------------------------------------------------
Faulty_Accept(word) ==                                  \* the stop bit is not counted
    /\ io_in_ready
    /\ bits' = Frame(word)
    /\ bitCounter' = numberOfBits + 1
    /\ rateCounter' = baudDivider - 1
Accept(word) ==
    /\ io_in_ready
    /\ bits' = Frame(word)
    /\ bitCounter' = (numberOfBits + 2) % BitCounts
    /\ rateCounter' = baudDivider - 1

Idle == io_in_ready /\ UNCHANGED txVars

Hold ==
    /\ bitCounter > 0 /\ rateCounter > 0
    /\ rateCounter' = rateCounter - 1
    /\ UNCHANGED <<bitCounter, bits>>

(* The last bit stays where it is: a line that is idle is high anyway.     *)
Shift ==
    /\ bitCounter > 0 /\ rateCounter = 0
    /\ bits' = [i \in DOMAIN bits |-> IF i <= numberOfBits THEN bits[i + 1] ELSE bits[i]]
    /\ bitCounter' = bitCounter - 1
    /\ rateCounter' = baudDivider - 1

(* A clock edge in which no word is taken. *)
Run == Idle \/ Hold \/ Shift

TxInit ==
    /\ rateCounter = 0 /\ bitCounter = 0
    /\ bits = [i \in 0 .. numberOfBits + 1 |-> 0]      \* not reset, and not read before Accept
=============================================================================

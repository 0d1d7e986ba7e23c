------------------------------- MODULE MCWords ------------------------------
(***************************************************************************)
(* What computes on words and keeps no state of its own, asked one         *)
(* question in each behaviour: a function of the execute stage on a pair   *)
(* of operands, or a call of the register access crate on the devices in   *)
(* one of the states below.                                                *)
(***************************************************************************)
EXTENDS Alu, Registers

-----------------------------------------------------------------------------
(* A function of the execute stage, and its result compared with what the  *)
(* manual says, written another way: bit by bit, by shifting one place at  *)
(* a time, and through the equations between the functions.                *)

Funs     == {"ADD", "SUB", "AND", "OR", "XOR", "SLL", "SRL", "SRA", "SLT", "SLTU", "JALR",
             "COPY1", "ANDN"}
Branches == {"BEQ", "BNE", "BLT", "BGE", "BLTU", "BGEU"}

VARIABLES fun, a, b, out
vars == <<fun, a, b, out>>

AluInit == fun \in Funs \cup Branches /\ a \in Values /\ b \in Values /\ out = <<>>

Execute ==
    /\ out = <<>>
    /\ out' = IF fun \in Funs THEN <<AluFunction(fun, a, b)>> ELSE <<BranchTaken(fun, a, b)>>
    /\ UNCHANGED <<fun, a, b>>

-----------------------------------------------------------------------------
(* References. *)

BitOf(v, i) == (v \div 2^i) % 2

(* One place at a time: ShiftedBy[n] is v shifted n times by step.         *)
ShiftedBy(step(_), v) == LET s[n \in 0 .. W] == IF n = 0 THEN v ELSE step(s[n - 1]) IN s
Left(v)   == Wrap(2 * v)
Right(v)  == v \div 2
Arith(v)  == v \div 2 + BitOf(v, W - 1) * 2^(W - 1)

(* Signed order is unsigned order with the sign bits flipped.              *)
Flip(v) == Wrap(v + 2^(W - 1))

Done == out # <<>>
Result == out[1]
ResultBits(f(_, _)) == \A i \in 0 .. W - 1 : BitOf(Result, i) = f(BitOf(a, i), BitOf(b, i))

-----------------------------------------------------------------------------
(* Addition and subtraction undo each other and wrap at the word; JALR     *)
(* clears the lowest bit of the sum and no other.                          *)
SumsWrap ==
    /\ fun = "ADD"  => AluFunction("SUB", Result, b) = a /\ (Result < a <=> a + b >= 2^W)
    /\ fun = "SUB"  => AluFunction("ADD", Result, b) = a /\ (Result > a <=> a < b)
    /\ fun = "JALR" => Result % 2 = 0 /\ AluFunction("ADD", a, b) - Result \in {0, 1}

(* The bitwise functions agree bit by bit; ANDN clears the bits of its     *)
(* second operand, as CSRRC does.                                          *)
BitsAgree ==
    /\ fun = "AND"  => ResultBits(LAMBDA p, q : p * q)
    /\ fun = "OR"   => ResultBits(LAMBDA p, q : p + q - p * q)
    /\ fun = "XOR"  => ResultBits(LAMBDA p, q : (p + q) % 2)
    /\ fun = "ANDN" => ResultBits(LAMBDA p, q : p * (1 - q))
    /\ fun = "COPY1" => Result = a

(* A shift by operand 2 is that many shifts by one place, of the operand's *)
(* low log2(W) bits only; the arithmetic one copies the sign bit.          *)
ShiftsAgree ==
    /\ fun = "SLL" => Result = ShiftedBy(Left, a)[b % W]
    /\ fun = "SRL" => Result = ShiftedBy(Right, a)[b % W]
    /\ fun = "SRA" => Result = ShiftedBy(Arith, a)[b % W]

(* Signed and unsigned comparisons, in the ALU and in branches, agree with *)
(* each other and each branch is taken exactly when its opposite is not.   *)
OrderAgrees ==
    /\ fun = "SLT"  => Result = AluFunction("SLTU", Flip(a), Flip(b))
    /\ fun = "SLTU" => Result = ToWord(\E d \in Values \ {0} : a + d = b)
    /\ fun = "BLT"  => Result = (AluFunction("SLT", a, b) = 1)  /\ Result # BranchTaken("BGE", a, b)
    /\ fun = "BLTU" => Result = (AluFunction("SLTU", a, b) = 1)
                       /\ Result # BranchTaken("BGEU", a, b)
    /\ fun = "BGE"  => Result = (AluFunction("SLT", b, a) = 1 \/ a = b)
    /\ fun = "BGEU" => Result = (AluFunction("SLTU", b, a) = 1 \/ a = b)
    /\ fun = "BEQ"  => Result = (AluFunction("XOR", a, b) = 0)
    /\ fun = "BNE"  => Result = (AluFunction("XOR", a, b) # 0)

(***************************************************************************)
(* The execute stage computes what the RISC-V manual says, for every pair  *)
(* of operands: wrap-around, shift amounts, signs and the order of words.  *)
(***************************************************************************)
AluAgrees == Done => SumsWrap /\ BitsAgree /\ ShiftsAgree /\ OrderAgrees

-----------------------------------------------------------------------------
(* A call on the devices. *)

Odd      == {i \in Positions : i % 2 = 1}
MCInputs == {{}, Positions, Odd, {0}, {0, 1, 2, 4, 5, 6, 7}, {7, 8, 15, 16, 31}}
MCJunk   == {{}, Odd \cap (0 .. 7)}

(* The ports show different words; the queues are empty, partly full, full. *)
Pattern(p) == {i \in Positions : (i + p) % 3 = 0}
Queued(h)  == {[i \in 1 .. n |-> IF i = 1 THEN h ELSE {}] : n \in 0 .. Depth}

AskRegisters ==
    /\ outReg \in {[p \in Ports |-> Pattern(p)], [p \in Ports |-> Positions]}
    /\ inReg = [p \in Ports |-> Pattern(p + 1)]
    /\ txQueue \in Queued({1}) /\ rxQueue \in Queued({0, 6})
    /\ word = {} /\ stored = {} /\ calls = 0
    /\ fun = "COPY1" /\ a = 0 /\ b = 0 /\ out = <<0>>
AskAlu ==
    /\ AluInit
    /\ outReg = [p \in Ports |-> {}] /\ inReg = [p \in Ports |-> {}]
    /\ txQueue = <<>> /\ rxQueue = <<>>
    /\ word = {} /\ stored = {} /\ calls = MaxCalls

WordsInit == AskAlu \/ AskRegisters
WordsNext == (Execute /\ UNCHANGED regVars) \/ (RegNext /\ UNCHANGED vars)
WordsSpec == WordsInit /\ [][WordsNext]_<<vars, regVars>>
=============================================================================

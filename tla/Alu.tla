--------------------------------- MODULE Alu --------------------------------
(***************************************************************************)
(* The arithmetic of the execute stage of cpu/Core.scala on words of W     *)
(* bits, W a power of two (32 in the design).                              *)
(***************************************************************************)
EXTENDS Integers, FiniteSetsExt

CONSTANT W
ASSUME WAssumption == W \in Nat \ {0} /\ \E n \in 0 .. W : W = 2^n

Values == 0 .. 2^W - 1

BitsOf(v)   == {i \in 0 .. W - 1 : (v \div 2^i) % 2 = 1}
ValueOf(S)  == MapThenSumSet(LAMBDA i : 2^i, S)
ToWord(b)   == IF b THEN 1 ELSE 0

(* What is taken of powers of two and of the binary digits of a word. *)
ASSUME BinaryAssumption ==
    /\ 2^0 = 1 /\ \A i \in 0 .. W : 2^i \in Nat \ {0}
    /\ \A i \in 1 .. W : 2^i = 2 * 2^(i - 1)
    /\ \A v \in Values : ValueOf(BitsOf(v)) = v
    /\ \A S \in SUBSET (0 .. W - 1) : ValueOf(S) \in Values /\ BitsOf(ValueOf(S)) = S

Faulty_Signed(v) == v                                   \* no asSInt
Signed(v)        == IF v < 2^(W - 1) THEN v ELSE v - 2^W

Wrap(n)          == n % 2^W

Shamt(b)         == b % W                               \* its low log2(W) bits

AndNot(a, b)        == ValueOf(BitsOf(a) \ BitsOf(b))

JumpSum(a, b)        == ValueOf(BitsOf(Wrap(a + b)) \ {0})

(* exe_alu_out. *)
AluFunction(fun, a, b) ==
    CASE fun = "ADD"   -> Wrap(a + b)
      [] fun = "SUB"   -> Wrap(a - b)
      [] fun = "AND"   -> ValueOf(BitsOf(a) \cap BitsOf(b))
      [] fun = "OR"    -> ValueOf(BitsOf(a) \cup BitsOf(b))
      [] fun = "XOR"   -> ValueOf(SymDiff(BitsOf(a), BitsOf(b)))
      [] fun = "SLL"   -> Wrap(a * 2^Shamt(b))
      [] fun = "SRL"   -> a \div 2^Shamt(b)
      [] fun = "SRA"   -> Wrap(Signed(a) \div 2^Shamt(b))
      [] fun = "SLT"   -> ToWord(Signed(a) < Signed(b))
      [] fun = "SLTU"  -> ToWord(a < b)
      [] fun = "JALR"  -> JumpSum(a, b)
      [] fun = "COPY1" -> a
      [] fun = "ANDN"  -> AndNot(a, b)                  \* clears CSR bits
      [] OTHER         -> 0

(* exe_br_flg of a branch function. *)
BranchTaken(fun, a, b) ==
    CASE fun = "BEQ"  -> a = b
      [] fun = "BNE"  -> ~(a = b)
      [] fun = "BLT"  -> Signed(a) < Signed(b)
      [] fun = "BGE"  -> ~(Signed(a) < Signed(b))
      [] fun = "BLTU" -> a < b
      [] fun = "BGEU" -> ~(a < b)
      [] OTHER        -> FALSE
=============================================================================

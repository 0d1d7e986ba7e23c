-------------------------------- MODULE Rv32 --------------------------------
(***************************************************************************)
(* The data the core and the instruction-set machine share: words,         *)
(* registers, CSR names, decoded instructions, and the arithmetic of the   *)
(* execute stage.                                                          *)
(*                                                                         *)
(* A word is a number below NWords (2^32 in the design).  Instruction      *)
(* addresses count words, so pc + 4 of the code is pc (+) 1 here.  The     *)
(* arithmetic is a parameter: AluOut and BrFlg stand for the two MuxCase   *)
(* tables of the execute stage, which the module Alu defines at a given    *)
(* width.  The proofs about the pipeline depend on the addition only.      *)
(***************************************************************************)
EXTENDS Integers

CONSTANTS
    NWords,             \* number of words: values and addresses wrap there
    NRegs,              \* number of registers: 32 in the design
    AluOut(_, _, _),    \* result of an EXE function on two operands
    BrFlg(_, _, _),     \* whether a branch function is taken on two operands
    CauseEcall,         \* value written to mcause by ECALL (11)
    CauseExternal       \* mcause of a machine external interrupt (1 << 31 | 11)

Word == 0 .. NWords - 1
Reg  == 0 .. NRegs - 1

ASSUME NWordsAssumption == NWords \in Nat \ {0}
ASSUME NRegsAssumption  == NRegs \in Nat \ {0}
ASSUME CauseAssumption  == CauseEcall \in Word /\ CauseExternal \in Word

(* Addition of a word-sized hardware adder. *)
a (+) b == (a + b) % NWords

-----------------------------------------------------------------------------
(* Opcodes, grouped as the rows of the decode table are. *)

Loads      == {"LW"}
Stores     == {"SW"}
RegOps     == {"ADD", "SUB", "AND", "OR", "XOR", "SLL", "SRL", "SRA", "SLT", "SLTU"}
ImmOps     == {"ADDI", "ANDI", "ORI", "XORI", "SLLI", "SRLI", "SRAI", "SLTI", "SLTIU"}
Branches   == {"BEQ", "BNE", "BLT", "BGE", "BLTU", "BGEU"}
CsrRegOps  == {"CSRRW", "CSRRS", "CSRRC"}
CsrImmOps  == {"CSRRWI", "CSRRSI", "CSRRCI"}
CsrOps     == CsrRegOps \cup CsrImmOps

(* "BUBBLE" is the ADDI x0, x0, 0 the core inserts; "ILLEGAL" any word the  *)
(* decode table has no row for.                                             *)
Opcodes == Loads \cup Stores \cup RegOps \cup ImmOps \cup Branches \cup CsrOps
             \cup {"JAL", "JALR", "LUI", "AUIPC", "ECALL", "MRET", "BUBBLE", "ILLEGAL"}

(* ALU function of a register-register or register-immediate opcode. *)
AluFun == [op \in RegOps \cup ImmOps |->
    CASE op \in {"ADD", "ADDI"}  -> "ADD"  [] op = "SUB"             -> "SUB"
      [] op \in {"AND", "ANDI"}  -> "AND"  [] op \in {"OR", "ORI"}   -> "OR"
      [] op \in {"XOR", "XORI"}  -> "XOR"  [] op \in {"SLL", "SLLI"} -> "SLL"
      [] op \in {"SRL", "SRLI"}  -> "SRL"  [] op \in {"SRA", "SRAI"} -> "SRA"
      [] op \in {"SLT", "SLTI"}  -> "SLT"  [] OTHER                  -> "SLTU"]

AluFuns == {"X", "ADD", "SUB", "AND", "OR", "XOR", "SLL", "SRL", "SRA",
            "SLT", "SLTU", "JALR", "COPY1", "ANDN"}

ASSUME AluOutAssumption == \A f \in AluFuns : \A a, b \in Word : AluOut(f, a, b) \in Word
ASSUME AddAssumption    == \A a, b \in Word : AluOut("ADD", a, b) = a (+) b
ASSUME BrFlgAssumption  == \A f \in Branches : \A a, b \in Word : BrFlg(f, a, b) \in BOOLEAN

(***************************************************************************)
(* A decoded instruction.  rs1 and rs2 are the bit fields 19..15 and       *)
(* 24..20 of the word, present whatever the format: the hazard check reads *)
(* them from every instruction.  rs1 is also the immediate of CSRR*I.      *)
(***************************************************************************)
WordCsrs == {"gpio", "mtvec", "mscratch", "mepc", "mcause", "mtval", "mstatush"}
CsrNames == WordCsrs \cup {"mstatus", "mie", "mip", "none"}

Instr == [op : Opcodes, rd : Reg, rs1 : Reg, rs2 : Reg, imm : Word, csr : CsrNames]

BUBBLE == [op |-> "BUBBLE", rd |-> 0, rs1 |-> 0, rs2 |-> 0, imm |-> 0, csr |-> "none"]

-----------------------------------------------------------------------------
(***************************************************************************)
(* The CSRs.  mstatus keeps the bits the code uses, MIE and MPIE, at bits  *)
(* 0 and 1 of its word; mie keeps MEIE at bit 0.  mip is the external      *)
(* interrupt line and no state of its own.  mstatush is a word of its own; *)
(* its reserved bits, which the code moves up by one at each write, stay.  *)
(***************************************************************************)
CsrFile == [mie : BOOLEAN, mpie : BOOLEAN, meie : BOOLEAN, word : [WordCsrs -> Word]]

Bit(i, w) == (w \div (IF i = 0 THEN 1 ELSE 2)) % 2 = 1
ToBit(b)  == IF b THEN 1 ELSE 0

CsrRead(c, name, meip) ==
    CASE name = "mstatus"   -> (ToBit(c.mie) + 2 * ToBit(c.mpie)) % NWords
      [] name = "mie"       -> ToBit(c.meie) % NWords
      [] name = "mip"       -> ToBit(meip) % NWords
      [] name \in WordCsrs  -> c.word[name]
      [] OTHER              -> 0

(* mip is read-only, an unimplemented address ignores the write. *)
CsrWrite(c, name, w) ==
    CASE name = "mstatus"   -> [c EXCEPT !.mie = Bit(0, w), !.mpie = Bit(1, w)]
      [] name = "mie"       -> [c EXCEPT !.meie = Bit(0, w)]
      [] name \in WordCsrs  -> [c EXCEPT !.word[name] = w]
      [] OTHER              -> c

(* The value a CSR instruction writes, from the value it reads. *)
CsrWdata(op, old, operand) ==
    CASE op \in {"CSRRW", "CSRRWI"} -> operand
      [] op \in {"CSRRS", "CSRRSI"} -> AluOut("OR", old, operand)
      [] op \in {"CSRRC", "CSRRCI"} -> AluOut("ANDN", old, operand)
      [] OTHER                      -> CauseEcall
=============================================================================

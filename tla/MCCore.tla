------------------------------- MODULE MCCore -------------------------------
(***************************************************************************)
(* Small instances of the core: words of two bits, so that an address is   *)
(* one of four and a program has four instructions and wraps; registers    *)
(* x0, x1 and x2.  Each instance runs every program over an alphabet.      *)
(***************************************************************************)
EXTENDS Core

CONSTANT Alphabets  \* each the instructions some programs are made of

A == INSTANCE Alu WITH W <- 2

(* Bit 0 of a byte address is below a word address: JALR just adds here.   *)
AluTable == [f \in AluFuns |-> [a \in Word |-> [b \in Word |->
                A!AluFunction(IF f = "JALR" THEN "ADD" ELSE f, a, b)]]]
MCAluOut(f, a, b) == AluTable[f][a][b]
BrTable == [f \in Branches |-> [a \in Word |-> [b \in Word |-> A!BranchTaken(f, a, b)]]]
MCBrFlg(f, a, b) == BrTable[f][a][b]

I(op, rd, rs1, rs2, imm, c) ==
    [op |-> op, rd |-> rd, rs1 |-> rs1, rs2 |-> rs2, imm |-> imm, csr |-> c]
R(op, rd, rs1, rs2)  == I(op, rd, rs1, rs2, 0, "none")
Im(op, rd, rs1, imm) == I(op, rd, rs1, 0, imm, "none")
C(op, rd, rs1, c)    == I(op, rd, rs1, 0, 0, c)

(* One of each class, with operands that collide: every pair of them has a *)
(* register hazard one way or the other.                                   *)
UserCode == {R("SUB", 1, 2, 1), Im("ADDI", 2, 2, 1), Im("LW", 1, 2, 1), Im("LW", 2, 1, 0),
             I("SW", 0, 2, 1, 0, "none"), I("BNE", 0, 1, 2, 2, "none"),
             Im("JAL", 1, 0, 3), C("CSRRW", 2, 1, "mscratch")}

(* Traps, returns, what they set and read; nothing here ever stalls.       *)
TrapCode == {I("ECALL", 0, 0, 0, 0, "none"), I("MRET", 0, 0, 2, 0, "none"),
             Im("LUI", 1, 0, 2), Im("JALR", 1, 1, 1),
             C("CSRRS", 1, 2, "mcause"), C("CSRRWI", 2, 2, "mstatus"),
             C("CSRRW", 1, 2, "mepc"), C("CSRRCI", 2, 1, "mtvec"),
             I("ILLEGAL", 1, 1, 2, 3, "mscratch")}

(* Loads and stores that hit a device among others, addresses that depend  *)
(* on the place of the instruction, and a loop.                            *)
DeviceCode == {Im("LW", 1, 2, 0), Im("LW", 2, 1, 1), Im("AUIPC", 2, 0, 1),
               I("SW", 0, 1, 2, 0, "none"), I("BLT", 0, 2, 1, 1, "none"), Im("JAL", 1, 0, 2)}

MCPrograms == {p \in UNION {[Word -> alphabet] : alphabet \in Alphabets} : TrapSafe(p)}

(* What TrapSafe leaves out the core does not execute as Isa does (README, *)
(* section 6).                                                             *)
ThreeAlphabets == {UserCode, TrapCode, DeviceCode}

MCRegFiles == {[r \in Reg |-> r]}
MCDataMems == {[a \in Word |-> (3 * a + 1) % NWords]}

CsrReset == [mie |-> FALSE, mpie |-> FALSE, meie |-> FALSE,
             word |-> [n \in WordCsrs |-> CASE n = "mtvec" -> 3 [] n = "mepc" -> 2 [] OTHER -> 0]]
MCCsrReset == {CsrReset}
AnyReply == {[rvalid |-> FALSE, rdata |-> 0]} \cup [rvalid : {TRUE}, rdata : {0, 2}]
NoDevice == {[rvalid |-> FALSE, rdata |-> 0]}

(* No wire of the core reads a device that is not asked: one value stands  *)
(* for all that it may drive then.                                         *)
Silent  == [rvalid |-> FALSE, rdata |-> 0]
Asked   == dmem_ren /\ ToDevice
MCInit  == Init /\ device = Silent
MCClock == Clock /\ (~Asked' => device' = Silent)
MCSpec  == /\ MCInit /\ [][MCClock]_vars
           /\ WF_vars(MCClock) /\ SF_vars(MCClock /\ device'.rvalid)
=============================================================================

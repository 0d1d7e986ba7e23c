-------------------------------- MODULE Isa ---------------------------------
(***************************************************************************)
(* What the core promises to a program: a machine that executes one        *)
(* instruction at a time, each completely before the next.  It knows       *)
(* nothing of stages, forwarding, stalls or memory latency.                *)
(*                                                                         *)
(* It is the machine of the RISC-V manual but for Ecall, which follows the *)
(* code.                                                                   *)
(*                                                                         *)
(* Interrupts are off (see MCCoreIrq for those).  A load from a device     *)
(* address returns any value the device may answer with.                   *)
(***************************************************************************)
EXTENDS Rv32

CONSTANTS
    DevAddrs,   \* addresses of memory-mapped devices
    DevWords    \* values a device may answer a load with

VARIABLES
    prog,       \* instruction memory, fixed
    pc,         \* address of the next instruction
    regs,       \* the registers; register 0 is constantly 0
    dmem,       \* data memory
    csr         \* control and status registers

vars == <<prog, pc, regs, dmem, csr>>

instr == prog[pc]

SetReg(r, w) == regs' = IF r = 0 THEN regs ELSE [regs EXCEPT ![r] = w]
Advance == pc' = pc (+) 1

-----------------------------------------------------------------------------

(* Register-register and register-immediate arithmetic. *)
Arith ==
    /\ instr.op \in RegOps \cup ImmOps
    /\ \E b \in Word :
          /\ b = IF instr.op \in RegOps THEN regs[instr.rs2] ELSE instr.imm
          /\ SetReg(instr.rd, AluOut(AluFun[instr.op], regs[instr.rs1], b))
    /\ Advance
    /\ UNCHANGED <<prog, dmem, csr>>

Upper ==
    /\ \/ instr.op = "LUI"   /\ SetReg(instr.rd, instr.imm)
       \/ instr.op = "AUIPC" /\ SetReg(instr.rd, pc (+) instr.imm)
    /\ Advance
    /\ UNCHANGED <<prog, dmem, csr>>

DataAddr == regs[instr.rs1] (+) instr.imm

Load ==
    /\ instr.op \in Loads
    /\ \/ DataAddr \notin DevAddrs /\ SetReg(instr.rd, dmem[DataAddr])
       \/ DataAddr \in DevAddrs /\ \E w \in DevWords : SetReg(instr.rd, w)
    /\ Advance
    /\ UNCHANGED <<prog, dmem, csr>>

Store ==
    /\ instr.op \in Stores
    /\ dmem' = IF DataAddr \in DevAddrs THEN dmem
               ELSE [dmem EXCEPT ![DataAddr] = regs[instr.rs2]]
    /\ Advance
    /\ UNCHANGED <<prog, regs, csr>>

Branch ==
    /\ instr.op \in Branches
    /\ \/ BrFlg(instr.op, regs[instr.rs1], regs[instr.rs2]) /\ pc' = pc (+) instr.imm
       \/ ~BrFlg(instr.op, regs[instr.rs1], regs[instr.rs2]) /\ Advance
    /\ UNCHANGED <<prog, regs, dmem, csr>>

(* The link is written after the target is computed: rd may be rs1. *)
Jump ==
    /\ \/ instr.op = "JAL"  /\ pc' = pc (+) instr.imm
       \/ instr.op = "JALR" /\ pc' = AluOut("JALR", regs[instr.rs1], instr.imm)
    /\ SetReg(instr.rd, pc (+) 1)
    /\ UNCHANGED <<prog, dmem, csr>>

Csr ==
    /\ instr.op \in CsrOps
    /\ \E meip \in BOOLEAN :
         LET old     == CsrRead(csr, instr.csr, meip)
             operand == IF instr.op \in CsrRegOps THEN regs[instr.rs1] ELSE instr.rs1 % NWords
         IN  /\ SetReg(instr.rd, old)
             /\ csr' = CsrWrite(csr, instr.csr, CsrWdata(instr.op, old, operand))
    /\ Advance
    /\ UNCHANGED <<prog, dmem>>

(* ECALL as this core has it: the cause and the jump.  The manual's also   *)
(* saves pc in mepc (slide_1.md:1590, 1633: mepc is the pc of an exception *)
(* or interrupt) and MIE in MPIE, and clears MIE.                          *)
Ecall ==
    /\ instr.op = "ECALL"
    /\ csr' = [csr EXCEPT !.word["mcause"] = CauseEcall]
    /\ pc' = csr.word["mtvec"]
    /\ UNCHANGED <<prog, regs, dmem>>

(* Return from a handler: the interrupt enable comes back from MPIE. *)
Mret ==
    /\ instr.op = "MRET"
    /\ csr' = [csr EXCEPT !.mie = csr.mpie]
    /\ pc' = csr.word["mepc"]
    /\ UNCHANGED <<prog, regs, dmem>>

NoEffect ==
    /\ instr.op \in {"BUBBLE", "ILLEGAL"}
    /\ Advance
    /\ UNCHANGED <<prog, regs, dmem, csr>>

Next == Arith \/ Upper \/ Load \/ Store \/ Branch \/ Jump \/ Csr \/ Ecall \/ Mret \/ NoEffect

Init ==
    /\ prog \in [Word -> Instr]
    /\ pc \in Word
    /\ regs \in [Reg -> Word] /\ regs[0] = 0
    /\ dmem \in [Word -> Word]
    /\ csr \in CsrFile

Spec     == Init /\ [][Next]_vars

(* The machine never stops executing. *)
FairSpec == Spec /\ WF_vars(Next)
=============================================================================

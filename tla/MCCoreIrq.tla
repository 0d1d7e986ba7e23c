------------------------------ MODULE MCCoreIrq -----------------------------
(***************************************************************************)
(* What a program may rely on when an external interrupt is taken: the     *)
(* handler at the trap vector runs, mret brings the program back, and the  *)
(* program does not notice.  The instance has eight words of instruction   *)
(* memory: the program is a loop at 0 .. 3 whose first two instructions    *)
(* range over an alphabet; the trap vector is 4, where a handler sets x3   *)
(* and returns.                                                            *)
(***************************************************************************)
EXTENDS Core

CONSTANT ProgramPcs     \* addresses of the interrupted program, not of its handler

VARIABLE spaced     \* history: the interrupts so far were spaced apart

irqVars == <<vars, spaced>>

HandlerPc == csr.word["mtvec"] (+) IrqOffset

(***************************************************************************)
(* Interrupts spaced apart: the device has dropped its line before mret    *)
(* reaches the execute stage and raises it again only when mret is gone    *)
(* and the program is back in the pipeline.  Bytes of a serial line are    *)
(* thousands of cycles apart, so this is the usual case.                   *)
(***************************************************************************)
Returning == \/ id_reg_inst.op = "MRET" \/ exe_mret \/ mem_reg.inst.op = "MRET"
             \/ ~(InFlight(mem_reg.inst) \/ InFlight(exe_reg.inst) \/ InFlight(id_reg_inst))

IrqInit  == Init /\ spaced = TRUE
IrqClock == Clock /\ spaced' = (spaced /\ (interrupt_in' => ~Returning'))
IrqSpec  == IrqInit /\ [][IrqClock]_irqVars /\ WF_irqVars(IrqClock)

-----------------------------------------------------------------------------
(***************************************************************************)
(* An interrupt that is entered has its handler executed: nothing in the   *)
(* pipeline takes the program counter back from the trap vector.           *)
(***************************************************************************)
HandlerRuns == exe_reg_has_pending_interrupt ~> ArchPc = HandlerPc

(* No write of mstatus takes back an entry: neither one that is executed   *)
(* in its cycle nor one that is replayed behind it.                        *)
EntryStays == exe_reg_has_pending_interrupt =>
    \A i \in {exe_reg.inst, mem_reg.inst} : i.op \in CsrOps => i.csr \notin {"mstatus", "mstatush"}

(***************************************************************************)
(* The handler is left for the program: when interrupts are spaced, each   *)
(* entry disables them, and the line stays low from some time on, the      *)
(* program goes on executing for ever.                                     *)
(***************************************************************************)
ProgramResumes ==
    ([]spaced /\ []EntryStays /\ <>[]~interrupt_in) => []<>(ArchPc \in ProgramPcs)

(***************************************************************************)
(* The program does not notice: a loop that adds 1 to x1 and then 1 to x2, *)
(* interrupted by a handler that touches neither, never has them differ by *)
(* anything but 0 or 1.                                                    *)
(***************************************************************************)
HandlerIsTransparent == (ArchRegs[1] - ArchRegs[2]) % NWords \in {0, 1}

-----------------------------------------------------------------------------
CONSTANTS First, Second     \* alphabets of the first two instructions

A == INSTANCE Alu WITH W <- 4

(* Four-bit arithmetic cut to the eight words of the instance. *)
AluTable == [f \in AluFuns |-> [a \in Word |-> [b \in Word |->
                A!AluFunction(IF f = "JALR" THEN "ADD" ELSE f, a, b) % NWords]]]
MCAluOut(f, a, b) == AluTable[f][a][b]
MCBrFlg(f, a, b) == A!BranchTaken(f, a, b)

I(op, rd, rs1, rs2, imm, c) ==
    [op |-> op, rd |-> rd, rs1 |-> rs1, rs2 |-> rs2, imm |-> imm, csr |-> c]
Inc(r) == I("ADDI", r, r, 0, 1, "none")
Lw(rd, rs1, imm) == I("LW", rd, rs1, 0, imm, "none")

Jump(offset) == I("JAL", 0, 0, 0, offset, "none")
Handler(a) == CASE a = 4 -> I("ADDI", 3, 0, 0, 1, "none") [] a = 5 -> I("MRET", 0, 0, 2, 0, "none")
                [] OTHER -> I("ILLEGAL", 0, 0, 0, 0, "none")
MCPrograms == {[a \in Word |-> CASE a = 0 -> f [] a = 1 -> s
                                 [] a = 2 -> Jump(6) [] a = 3 -> Jump(5)
                                 [] OTHER -> Handler(a)] : f \in First, s \in Second}

Incs   == {Inc(1)}
Incs2  == {Inc(2)}

(* No loads; the writes of CSRs set enables, clear none, and may meet an   *)
(* entry.                                                                  *)
NoLoad == {Inc(1), I("SW", 0, 0, 3, 2, "none"), I("BNE", 0, 1, 3, 2, "none"),
           I("JALR", 1, 0, 0, 2, "none"), I("CSRRSI", 0, 3, 0, 0, "mstatus"),
           I("CSRRSI", 0, 1, 0, 0, "mie"), I("CSRRWI", 0, 1, 0, 0, "mepc")}
Load   == {Lw(1, 0, 1), Lw(2, 0, 2)}

MCRegFiles == {[r \in Reg |-> 0]}
MCDataMems == {[a \in Word |-> a]}
MCCsrFiles == {[mie |-> TRUE, mpie |-> FALSE, meie |-> TRUE,
                word |-> [n \in WordCsrs |-> IF n = "mtvec" THEN 4 ELSE 0]]}
NoDevice == {[rvalid |-> FALSE, rdata |-> 0]}
=============================================================================

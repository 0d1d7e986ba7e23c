-------------------------------- MODULE Core --------------------------------
(***************************************************************************)
(* The five-stage core of cpu/Core.scala with the memory of                *)
(* cpu/Memory.scala on its two ports.                                      *)
(*                                                                         *)
(* The variables are the registers of the design and the inputs of the     *)
(* current cycle; the other lower-case definitions are its wires.  A step  *)
(* is a clock edge.  A stage register holds the decoded instruction where  *)
(* the code holds one register per control signal: CSignals gives a        *)
(* signal from the opcode.  Fetch and load each take the extra cycle of    *)
(* the block RAM; a device address is answered by the device, in any cycle *)
(* and with any word of DevReplies.                                        *)
(***************************************************************************)
EXTENDS Rv32

CONSTANTS
    StartAddr,      \* reset value of the program counter
    NoAddr,         \* "nothing fetched yet": the isFirstCycle flag
    Programs,       \* the instruction memories considered
    RegFiles,       \* initial register files (the design does not reset them)
    DataMems,       \* initial data memories
    CsrFiles,       \* CSR contents when the program starts
    DevAddrs,       \* data addresses that the decoder routes to a device
    DevReplies,     \* what a device may drive on the bus in a cycle
    IrqLevels,      \* levels of interrupt_in that occur
    IrqOffset       \* vectored mode adds the cause to the base; direct mode 0

DevWords == {d.rdata : d \in DevReplies}

(* A program does not contain the core's own "BUBBLE" mark: an ADDI x0, x0, *)
(* 0 of the program is an "ADDI".                                           *)
ASSUME ConfigAssumption ==
    /\ StartAddr \in Word /\ NoAddr \notin Word /\ IrqOffset \in Word
    /\ Programs \subseteq [Word -> {i \in Instr : i.op # "BUBBLE"}]
    /\ RegFiles \subseteq [Reg -> Word] /\ DataMems \subseteq [Word -> Word]
    /\ CsrFiles \subseteq CsrFile
    /\ DevAddrs \subseteq Word /\ DevReplies \subseteq [rvalid : BOOLEAN, rdata : Word]
    /\ IrqLevels \subseteq BOOLEAN

VARIABLES
    prog,           \* instruction memory (the program does not write it)
    dmem,           \* data memory
    fetched,        \* imemWordAddrFetched: the address on the fetch port last cycle
    rvalid,         \* load handshake: the RAM's answer is on the bus
    ram_rdata,      \* output register of the RAM's data port
    regfile, csr,
    if_reg_pc,
    id_reg_pc, id_reg_inst,
    exe_reg,        \* [inst, op1_data, op2_data, rs2_data, exception_target]
    exe_reg_pc,
    exe_reg_has_pending_interrupt,
    mem_reg,        \* [inst, pc, op1_data, rs2_data, alu_out]
    wb_reg,         \* [wb_addr, rf_wen, wb_data]
    interrupt_in,   \* level of the external interrupt line in this cycle
    device          \* what the addressed device drives in this cycle

ramVars  == <<dmem, fetched, rvalid, ram_rdata>>
pipeVars == <<if_reg_pc, id_reg_pc, id_reg_inst, exe_reg, exe_reg_pc,
              exe_reg_has_pending_interrupt, mem_reg, wb_reg>>
vars == <<prog, ramVars, regfile, csr, pipeVars, interrupt_in, device>>

-----------------------------------------------------------------------------
(* The decode table: control signals by opcode. *)

CSignals == [op \in Opcodes |->
    [exe_fun |-> CASE op \in RegOps \cup ImmOps -> AluFun[op]
                   [] op \in Branches           -> op
                   [] op \in CsrOps             -> "COPY1"
                   [] op = "JALR"               -> "JALR"
                   [] op \in {"ECALL", "MRET", "ILLEGAL"} -> "X"
                   [] OTHER                     -> "ADD",
     op1_sel |-> CASE op \in CsrImmOps          -> "IMZ"
                   [] op \in {"JAL", "AUIPC"}   -> "PC"
                   [] op \in {"LUI", "ECALL"}   -> "X"
                   [] OTHER                     -> "RS1",
     op2_sel |-> CASE op \in RegOps \cup Branches \cup {"MRET", "ILLEGAL"} -> "RS2"
                   [] op \in CsrOps \cup {"ECALL"} -> "X"
                   [] OTHER                     -> "IMM",
     mem_wen |-> op \in Stores,
     rf_wen  |-> op \notin Stores \cup Branches \cup {"ECALL", "MRET", "ILLEGAL"},
     wb_sel  |-> CASE op \in Loads              -> "MEM"
                   [] op \in {"JAL", "JALR"}    -> "PC"
                   [] op \in CsrOps             -> "CSR"
                   [] OTHER                     -> "ALU",
     csr_cmd |-> op \in CsrOps \cup {"ECALL"}]]

exe == CSignals[exe_reg.inst.op]
mem == CSignals[mem_reg.inst.op]

-----------------------------------------------------------------------------
(* Memory access stage: wires. *)

ToDevice == mem_reg.alu_out \in DevAddrs

dmem_ren == mem.wb_sel = "MEM"
dmem_rvalid == IF ToDevice THEN device.rvalid ELSE rvalid
dmem_rdata == IF ToDevice THEN device.rdata ELSE ram_rdata

Faulty_mem_stall_flg == dmem_ren /\ ~rvalid              \* deaf to the device
mem_stall_flg == dmem_ren /\ ~dmem_rvalid

mem_csr_addr == IF mem_reg.inst.op = "ECALL" THEN "mcause" ELSE mem_reg.inst.csr
csr_rdata == CsrRead(csr, mem_csr_addr, interrupt_in)
csr_wdata == CsrWdata(mem_reg.inst.op, csr_rdata, mem_reg.op1_data)

Faulty_mem_wb_data ==                                    \* the link does not wrap
    CASE mem.wb_sel = "MEM" -> dmem_rdata
      [] mem.wb_sel = "PC"  -> mem_reg.pc + 1
      [] mem.wb_sel = "CSR" -> csr_rdata
      [] OTHER              -> mem_reg.alu_out
mem_wb_data ==
    CASE mem.wb_sel = "MEM" -> dmem_rdata
      [] mem.wb_sel = "PC"  -> mem_reg.pc (+) 1
      [] mem.wb_sel = "CSR" -> csr_rdata
      [] OTHER              -> mem_reg.alu_out

(* Execute stage: wires. *)

exe_alu_out == IF exe.exe_fun \in AluFuns
               THEN AluOut(exe.exe_fun, exe_reg.op1_data, exe_reg.op2_data) ELSE 0

exe_mret == exe_reg.inst.op = "MRET"

exe_br_flg == \/ exe_reg_has_pending_interrupt
              \/ exe_mret
              \/ exe.exe_fun \in Branches /\ BrFlg(exe.exe_fun, exe_reg.op1_data, exe_reg.op2_data)

Faulty_exe_br_target ==                                  \* mret goes to the handler
    IF exe_reg_has_pending_interrupt \/ exe_mret THEN exe_reg.exception_target
    ELSE exe_reg_pc (+) exe_reg.inst.imm
exe_br_target == IF exe_reg_has_pending_interrupt THEN exe_reg.exception_target
                 ELSE IF exe_mret THEN csr.word["mepc"]
                 ELSE exe_reg_pc (+) exe_reg.inst.imm

exe_jmp_flg == exe.wb_sel = "PC"

(* Decode stage: wires. *)

Hazard(r) == exe.rf_wen /\ r # 0 /\ r = exe_reg.inst.rd

Faulty_stall_flg == Hazard(id_reg_inst.rs1) \/ mem_stall_flg    \* rs2 forgotten
stall_flg == Hazard(id_reg_inst.rs1) \/ Hazard(id_reg_inst.rs2) \/ mem_stall_flg

id_inst == IF exe_br_flg \/ exe_jmp_flg \/ stall_flg THEN BUBBLE ELSE id_reg_inst
id == CSignals[id_inst.op]

Faulty_id_rs_data(r) ==                                  \* not forwarded from WB
    IF r = 0 THEN 0
    ELSE IF mem.rf_wen /\ mem_reg.inst.rd = r THEN mem_wb_data
    ELSE regfile[r]
(* Register r as the decode stage reads it: forwarded from MEM, then WB. *)
id_rs_data(r) ==
    IF r = 0 THEN 0
    ELSE IF mem.rf_wen /\ mem_reg.inst.rd = r THEN mem_wb_data
    ELSE IF wb_reg.rf_wen /\ wb_reg.wb_addr = r THEN wb_reg.wb_data
    ELSE regfile[r]

id_op1_data == CASE id.op1_sel = "RS1" -> id_rs_data(id_inst.rs1)
                 [] id.op1_sel = "PC"  -> id_reg_pc
                 [] id.op1_sel = "IMZ" -> id_inst.rs1 % NWords
                 [] OTHER              -> 0
id_op2_data == CASE id.op2_sel = "RS2" -> id_rs_data(id_inst.rs2)
                 [] id.op2_sel = "IMM" -> id_inst.imm
                 [] OTHER              -> 0

id_has_pending_interrupt == interrupt_in /\ csr.meie /\ csr.mie

(* Fetch stage: wires. *)

imem_valid == fetched = if_reg_pc
if_inst == IF imem_valid THEN prog[if_reg_pc] ELSE BUBBLE

-----------------------------------------------------------------------------
(* The registers at the clock edge, stage by stage. *)

Faulty_FetchEdge ==                                      \* a jump before an interrupt
    /\ if_reg_pc' = IF exe_jmp_flg THEN exe_alu_out
                    ELSE IF exe_br_flg THEN exe_br_target
                    ELSE IF if_inst.op = "ECALL" THEN csr.word["mtvec"]
                    ELSE IF stall_flg \/ ~imem_valid THEN if_reg_pc
                    ELSE if_reg_pc (+) 1
    /\ fetched' = if_reg_pc
(* A jump wins over a stall; ECALL leaves for the trap vector from here. *)
FetchEdge ==
    /\ if_reg_pc' = IF exe_br_flg THEN exe_br_target
                    ELSE IF exe_jmp_flg THEN exe_alu_out
                    ELSE IF if_inst.op = "ECALL" THEN csr.word["mtvec"]
                    ELSE IF stall_flg \/ ~imem_valid THEN if_reg_pc
                    ELSE if_reg_pc (+) 1
    /\ fetched' = if_reg_pc

Faulty_DecodeEdge ==                                     \* a jump does not flush
    /\ id_reg_pc' = IF stall_flg \/ exe_br_flg \/ ~imem_valid THEN id_reg_pc ELSE if_reg_pc
    /\ id_reg_inst' = IF exe_br_flg THEN BUBBLE
                      ELSE IF stall_flg THEN id_reg_inst
                      ELSE if_inst
DecodeEdge ==
    /\ id_reg_pc' = IF stall_flg \/ exe_br_flg \/ exe_jmp_flg \/ ~imem_valid
                    THEN id_reg_pc ELSE if_reg_pc
    /\ id_reg_inst' = IF exe_br_flg \/ exe_jmp_flg THEN BUBBLE
                      ELSE IF stall_flg THEN id_reg_inst
                      ELSE if_inst

Faulty_ExecuteEdge ==                                    \* the interrupt is not cleared
    /\ exe_reg' = IF mem_stall_flg THEN exe_reg
                  ELSE [inst |-> id_inst,
                        op1_data |-> id_op1_data, op2_data |-> id_op2_data,
                        rs2_data |-> id_rs_data(id_inst.rs2),
                        exception_target |-> csr.word["mtvec"] (+) IrqOffset]
    /\ exe_reg_pc' = IF mem_stall_flg \/ exe_br_flg \/ exe_jmp_flg
                     THEN exe_reg_pc ELSE id_reg_pc
    /\ exe_reg_has_pending_interrupt' =
          IF mem_stall_flg THEN exe_reg_has_pending_interrupt ELSE id_has_pending_interrupt
ExecuteEdge ==
    /\ exe_reg' = IF mem_stall_flg THEN exe_reg
                  ELSE [inst |-> id_inst,
                        op1_data |-> id_op1_data, op2_data |-> id_op2_data,
                        rs2_data |-> id_rs_data(id_inst.rs2),
                        exception_target |-> csr.word["mtvec"] (+) IrqOffset]
    /\ exe_reg_pc' = IF mem_stall_flg \/ exe_br_flg \/ exe_jmp_flg
                     THEN exe_reg_pc ELSE id_reg_pc
    \* cleared one cycle after it was set, stalled or not
    /\ exe_reg_has_pending_interrupt' =
          (/\ ~exe_reg_has_pending_interrupt
           /\ ~mem_stall_flg
           /\ id_has_pending_interrupt)

MemoryEdge ==
    mem_reg' = IF mem_stall_flg THEN mem_reg
               ELSE [inst |-> exe_reg.inst, pc |-> exe_reg_pc,
                     op1_data |-> exe_reg.op1_data, rs2_data |-> exe_reg.rs2_data,
                     alu_out |-> exe_alu_out]

WritebackEdge ==
    /\ wb_reg' = [wb_addr |-> mem_reg.inst.rd,
                  rf_wen  |-> ~mem_stall_flg /\ mem.rf_wen,
                  wb_data |-> mem_wb_data]
    /\ regfile' = IF wb_reg.rf_wen THEN [regfile EXCEPT ![wb_reg.wb_addr] = wb_reg.wb_data]
                  ELSE regfile

(* The updates of the execute stage come first in the code, so a CSR       *)
(* instruction in MEM overrides them on the register it writes.            *)
EnterInterrupt(c) ==
    [c EXCEPT !.word = [@ EXCEPT !["mcause"] = CauseExternal, !["mepc"] = exe_reg_pc],
              !.mpie = c.mie, !.mie = FALSE]
CsrAfterExe ==
    LET entered == IF exe_reg_has_pending_interrupt THEN EnterInterrupt(csr) ELSE csr
    IN  IF exe_mret THEN [entered EXCEPT !.mie = csr.mpie] ELSE entered

(* A write of mstatush connects all of mstatus, to what it was.            *)
CsrOverridden ==
    IF mem_csr_addr = "mstatush"
    THEN [CsrAfterExe EXCEPT !.mie = csr.mie, !.mpie = csr.mpie] ELSE CsrAfterExe

CsrEdge ==
    csr' = IF mem.csr_cmd THEN CsrWrite(CsrOverridden, mem_csr_addr, csr_wdata) ELSE CsrAfterExe

(* The RAM answers a load one cycle after it is asked, and is not asked    *)
(* again in the cycle of the answer.                                       *)
RamEdge ==
    /\ rvalid' = (dmem_ren /\ ~ToDevice /\ ~rvalid)
    /\ ram_rdata' = IF dmem_ren /\ ~ToDevice THEN dmem[mem_reg.alu_out] ELSE ram_rdata
    /\ dmem' = IF mem.mem_wen /\ ~ToDevice
               THEN [dmem EXCEPT ![mem_reg.alu_out] = mem_reg.rs2_data] ELSE dmem

Inputs == interrupt_in' \in IrqLevels /\ device' \in DevReplies

Clock ==
    /\ FetchEdge /\ DecodeEdge /\ ExecuteEdge /\ MemoryEdge /\ WritebackEdge
    /\ CsrEdge /\ RamEdge
    /\ Inputs
    /\ UNCHANGED prog

-----------------------------------------------------------------------------
Init ==
    /\ prog \in Programs /\ regfile \in RegFiles /\ dmem \in DataMems /\ csr \in CsrFiles
    /\ fetched = NoAddr /\ rvalid = FALSE /\ ram_rdata = 0
    /\ if_reg_pc = StartAddr
    \* the instruction registers are reset to zero, an instruction of no effect
    /\ id_reg_pc = 0 /\ id_reg_inst = BUBBLE
    /\ exe_reg = [inst |-> BUBBLE, op1_data |-> 0, op2_data |-> 0, rs2_data |-> 0,
                  exception_target |-> 0]
    /\ exe_reg_pc = 0 /\ exe_reg_has_pending_interrupt = FALSE
    /\ mem_reg = [inst |-> BUBBLE, pc |-> 0, op1_data |-> 0, rs2_data |-> 0, alu_out |-> 0]
    /\ wb_reg = [wb_addr |-> 0, rf_wen |-> FALSE, wb_data |-> 0]
    /\ interrupt_in \in IrqLevels /\ device \in DevReplies

Spec == Init /\ [][Clock]_vars

(* The clock runs, and a device that is asked answers in the end. *)
DeviceAnswers == Clock /\ device'.rvalid
FairSpec == Spec /\ WF_vars(Clock) /\ SF_vars(DeviceAnswers)

-----------------------------------------------------------------------------
(* Every register holds a value of its width. *)
TypeOK ==
    /\ prog \in [Word -> Instr] /\ dmem \in [Word -> Word]
    /\ fetched \in Word \cup {NoAddr} /\ rvalid \in BOOLEAN /\ ram_rdata \in Word
    /\ regfile \in [Reg -> Word] /\ csr \in CsrFile
    /\ if_reg_pc \in Word /\ id_reg_pc \in Word /\ id_reg_inst \in Instr
    /\ exe_reg \in [inst : Instr, op1_data : Word, op2_data : Word, rs2_data : Word,
                     exception_target : Word]
    /\ exe_reg_pc \in Word /\ exe_reg_has_pending_interrupt \in BOOLEAN
    /\ mem_reg \in [inst : Instr, pc : Word, op1_data : Word, rs2_data : Word, alu_out : Word]
    /\ wb_reg \in [wb_addr : Reg, rf_wen : BOOLEAN, wb_data : Word]
    /\ interrupt_in \in BOOLEAN /\ device \in [rvalid : BOOLEAN, rdata : Word]

(* The registers as a program sees them: the write-back stage holds a      *)
(* result of an instruction that has been executed.                        *)
ArchRegs == [r \in Reg |->
    IF r = 0 THEN 0
    ELSE IF wb_reg.rf_wen /\ wb_reg.wb_addr = r THEN wb_reg.wb_data
    ELSE regfile[r]]

(* The operands an instruction at address pc takes from registers regs.    *)
Operand1(regs, i, pc) == CASE CSignals[i.op].op1_sel = "RS1" -> regs[i.rs1]
                           [] CSignals[i.op].op1_sel = "PC"  -> pc
                           [] CSignals[i.op].op1_sel = "IMZ" -> i.rs1 % NWords
                           [] OTHER                          -> 0
Operand2(regs, i) == CASE CSignals[i.op].op2_sel = "RS2" -> regs[i.rs2]
                       [] CSignals[i.op].op2_sel = "IMM" -> i.imm
                       [] OTHER                          -> 0

(***************************************************************************)
(* An instruction in the memory stage is executed with the register values *)
(* the program has at that moment: whatever was forwarded or stalled two   *)
(* stages earlier, its operands are still those of the registers now, when *)
(* all older instructions are done.                                        *)
(***************************************************************************)
ResultsCurrent ==
    LET i == mem_reg.inst
    IN  /\ mem_reg.op1_data = Operand1(ArchRegs, i, mem_reg.pc)
        /\ mem_reg.rs2_data = ArchRegs[i.rs2]
        /\ i.op # "BUBBLE" /\ mem.exe_fun \in AluFuns =>
              mem_reg.alu_out = AluOut(mem.exe_fun, Operand1(ArchRegs, i, mem_reg.pc),
                                       Operand2(ArchRegs, i))

(***************************************************************************)
(* Why that is so: the operands in the execute stage are current as far as *)
(* write-back has come.                                                    *)
(***************************************************************************)
OperandsCurrent ==
    /\ exe_reg.op1_data = Operand1(ArchRegs, exe_reg.inst, exe_reg_pc)
    /\ exe_reg.op2_data = Operand2(ArchRegs, exe_reg.inst)
    /\ exe_reg.rs2_data = ArchRegs[exe_reg.inst.rs2]

(***************************************************************************)
(* And the one instruction still ahead of them, in the memory stage,       *)
(* writes neither of their registers: the hazard stall of the decode stage *)
(* kept the two one stage further apart.                                   *)
(***************************************************************************)
HazardsStalled ==
    mem.rf_wen /\ mem_reg.inst.rd # 0 =>
        mem_reg.inst.rd \notin {exe_reg.inst.rs1, exe_reg.inst.rs2}

PipelineInv == TypeOK /\ OperandsCurrent /\ HazardsStalled /\ ResultsCurrent

-----------------------------------------------------------------------------
(* The instruction-set machine the core implements.  An instruction is     *)
(* executed in the cycle it leaves the memory stage: before that cycle it  *)
(* and all younger instructions have had no visible effect.  MRET alone    *)
(* has its effect one stage earlier, when it leaves the execute stage.     *)

InFlight(i) == i.op # "BUBBLE"
Pending(i)  == InFlight(i) /\ i.op # "MRET"    \* not yet executed in the memory stage

(* The oldest instruction that has not been executed is next. *)
ArchPc ==
    IF Pending(mem_reg.inst) THEN mem_reg.pc
    ELSE IF InFlight(exe_reg.inst) THEN exe_reg_pc
    ELSE IF InFlight(id_reg_inst) THEN id_reg_pc
    ELSE if_reg_pc

Machine == INSTANCE Isa WITH pc <- ArchPc, regs <- ArchRegs

Vector == csr.word["mtvec"]

(* The address of the instruction that follows i, executed at pc with regs  *)
(* and the trap vector tv; After is what fetch takes it for.                *)
After(tv, i, pc) == IF i.op = "ECALL" THEN tv ELSE pc (+) 1
NextPc(regs, tv, i, pc) ==
    IF i.op \in {"JAL", "JALR"}
    THEN AluOut(CSignals[i.op].exe_fun, Operand1(regs, i, pc), Operand2(regs, i))
    ELSE IF i.op \in Branches /\ BrFlg(i.op, Operand1(regs, i, pc), Operand2(regs, i))
    THEN pc (+) i.imm
    ELSE After(tv, i, pc)

(* The next instruction behind the execute stage and the memory stage.     *)
BehindExe == IF InFlight(id_reg_inst) THEN id_reg_pc ELSE if_reg_pc
BehindMem == IF InFlight(exe_reg.inst) THEN exe_reg_pc ELSE BehindExe

(***************************************************************************)
(* Without interrupts the stages hold consecutive instructions of the      *)
(* program's own path, apart from what a jump still in the execute stage   *)
(* is about to flush.  What follows an ECALL is at the vector that fetch   *)
(* has read, which is still the one when the ECALL is executed.            *)
(***************************************************************************)
ProgramOrder ==
    /\ ~interrupt_in /\ ~exe_reg_has_pending_interrupt
    /\ \A i \in {id_reg_inst, exe_reg.inst, mem_reg.inst} : InFlight(i) \/ i = BUBBLE
    /\ InFlight(id_reg_inst) =>
          id_reg_inst = prog[id_reg_pc] /\ if_reg_pc = After(Vector, id_reg_inst, id_reg_pc)
    /\ InFlight(exe_reg.inst) =>
          /\ exe_reg.inst = prog[exe_reg_pc]
          /\ ~(exe_jmp_flg \/ exe_br_flg) => BehindExe = After(Vector, exe_reg.inst, exe_reg_pc)
    /\ InFlight(mem_reg.inst) =>
          /\ mem_reg.inst = prog[mem_reg.pc]
          /\ Pending(mem_reg.inst) =>
                BehindMem = NextPc(ArchRegs, Vector, mem_reg.inst, mem_reg.pc)

(* Programs whose traps the pipeline executes as the machine does (README, *)
(* section 6, says what happens to others): with an ECALL or MRET they     *)
(* have no load, and no ECALL is behind a write of its vector.             *)
Traps(p) == \E a \in Word : p[a].op \in {"ECALL", "MRET"}
TrapSafe(p) == Traps(p) =>
    \A a \in Word : /\ p[a].op \notin Loads
                    /\ p[a].op \in CsrOps /\ p[a].csr = "mtvec" => p[a (+) 1].op # "ECALL"

(* Without loads nothing stalls, and the fetch that misses after each      *)
(* instruction keeps two of them a stage apart: only an ECALL whose        *)
(* handler it is itself is fetched again at once.                          *)
ApartFrom(i, j) == InFlight(i) /\ InFlight(j) => i.op = "ECALL" /\ j.op = "ECALL"
TrapsApart ==
    Traps(prog) => /\ ApartFrom(if_inst, id_reg_inst)
                   /\ ApartFrom(id_reg_inst, exe_reg.inst)
                   /\ ApartFrom(exe_reg.inst, mem_reg.inst)

(* A RAM answer on the bus is the word the load in the memory stage asks for. *)
LoadAnswered ==
    /\ rvalid => dmem_ren /\ ~ToDevice /\ ram_rdata = dmem[mem_reg.alu_out]
    /\ device \in DevReplies

(***************************************************************************)
(* Every clock cycle either executes the next instruction of the program   *)
(* completely or changes nothing a program can see: no instruction is      *)
(* lost, repeated, executed on a wrong path or with a stale operand, for   *)
(* any mixture of fetch bubbles, load stalls, hazards and jumps.  What an  *)
(* ECALL leaves out (see Isa) this does not tell.                          *)
(***************************************************************************)
ImplementsIsa == Machine!Spec

(***************************************************************************)
(* And instructions keep being executed: no stall lasts for ever.          *)
(***************************************************************************)
KeepsExecuting == Machine!FairSpec

-----------------------------------------------------------------------------
(***************************************************************************)
(* An interrupt is entered only while mstatus.MIE and mie.MEIE are set.    *)
(* The line is sampled in decode and the CSRs change one cycle later in    *)
(* execute, so two cycles could enter, or software could clear the enable  *)
(* in between.  Entering with MIE clear saves MPIE = 0: mret would leave   *)
(* interrupts off for good.                                                *)
(***************************************************************************)
MaskRespected == [][exe_reg_has_pending_interrupt => csr.mie /\ csr.meie]_vars

(* Why that is so for software which sets enable bits but clears none, and *)
(* executes mret only with MPIE set: in a handler.                         *)
SetsEnables(i) == i.op \in CsrOps /\ i.csr \in {"mstatus", "mie"} => i.op \in {"CSRRS", "CSRRSI"}
MretEnables    == exe_mret => csr.mpie
EnablesHeld    ==
    /\ \A i \in {id_reg_inst, exe_reg.inst, mem_reg.inst} : SetsEnables(i)
    /\ exe_reg_has_pending_interrupt => csr.mie /\ csr.meie
=============================================================================

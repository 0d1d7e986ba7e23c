----------------------------- MODULE CoreProofs -----------------------------
(***************************************************************************)
(* Proofs about Core, for every word width, register count, program,       *)
(* arithmetic, device and pattern of interrupts.                           *)
(***************************************************************************)
EXTENDS Core, TLAPS

-----------------------------------------------------------------------------
(* Words, operands and signals. *)

(* Zero is a word and a register. *)
LEMMA ZeroType == 0 \in Word /\ 0 \in Reg
  BY NWordsAssumption, NRegsAssumption DEF Word, Reg

(* Cut to its width, a number is a word. *)
LEMMA ModType == \A n \in Int : n % NWords \in Word
  BY NWordsAssumption DEF Word

(* A sum is a word. *)
LEMMA PlusType == \A a, b \in Word : a (+) b \in Word
  BY ModType DEF Word, (+)

(* The bubble is an instruction. *)
LEMMA BubbleType == BUBBLE \in Instr
  BY ZeroType DEF BUBBLE, Instr, Opcodes, CsrNames

(* Every operation has an ALU function. *)
LEMMA AluFunType == \A op \in RegOps \cup ImmOps : AluFun[op] \in AluFuns
  BY DEF AluFun, AluFuns, RegOps, ImmOps

(* The control signals of each opcode. *)
LEMMA SignalsType ==
  \A op \in Opcodes :
    /\ CSignals[op].exe_fun \in AluFuns \cup Branches
    /\ CSignals[op].mem_wen \in BOOLEAN
    /\ CSignals[op].rf_wen \in BOOLEAN
    /\ CSignals[op].csr_cmd \in BOOLEAN
  <1> SUFFICES ASSUME NEW op \in Opcodes
               PROVE  /\ CSignals[op].exe_fun \in AluFuns \cup Branches
                      /\ CSignals[op].mem_wen \in BOOLEAN
                      /\ CSignals[op].rf_wen \in BOOLEAN
                      /\ CSignals[op].csr_cmd \in BOOLEAN
    OBVIOUS
  <1>1. CSignals[op].exe_fun =
           CASE op \in RegOps \cup ImmOps -> AluFun[op]
             [] op \in Branches           -> op
             [] op \in CsrOps             -> "COPY1"
             [] op = "JALR"               -> "JALR"
             [] op \in {"ECALL", "MRET", "ILLEGAL"} -> "X"
             [] OTHER                     -> "ADD"
    BY DEF CSignals
  <1>2. {"COPY1", "JALR", "X", "ADD"} \subseteq AluFuns
    BY DEF AluFuns
  <1>3. CSignals[op].exe_fun \in AluFuns \cup Branches
    BY <1>1, <1>2, AluFunType
  <1>4. CSignals[op].mem_wen = (op \in Stores)
    BY DEF CSignals
  <1>5. CSignals[op].rf_wen = (op \notin Stores \cup Branches \cup {"ECALL", "MRET", "ILLEGAL"})
    BY DEF CSignals
  <1>6. CSignals[op].csr_cmd = (op \in CsrOps \cup {"ECALL"})
    BY DEF CSignals
  <1> QED BY <1>3, <1>4, <1>5, <1>6

(* The bubble writes nothing and goes nowhere. *)
LEMMA BubbleSignals ==
  /\ CSignals["BUBBLE"].exe_fun = "ADD"
  /\ CSignals["BUBBLE"].op1_sel = "RS1"
  /\ CSignals["BUBBLE"].op2_sel = "IMM"
  BY DEF CSignals, Opcodes, RegOps, ImmOps, Branches, CsrOps, CsrRegOps, CsrImmOps, Loads, Stores

-----------------------------------------------------------------------------
(* The CSRs. *)

(* What is read of a CSR is a word. *)
LEMMA CsrReadType ==
  ASSUME NEW c \in CsrFile, NEW name \in CsrNames, NEW b \in BOOLEAN
  PROVE  CsrRead(c, name, b) \in Word
  <1>1. CASE name = "mstatus"
    <2>1. CsrRead(c, name, b) = (ToBit(c.mie) + 2 * ToBit(c.mpie)) % NWords
      BY <1>1 DEF CsrRead, WordCsrs
    <2>2. ToBit(c.mie) + 2 * ToBit(c.mpie) \in Int
      BY DEF ToBit
    <2> QED BY <2>1, <2>2, ModType
  <1>2. CASE name = "mie"
    <2>1. CsrRead(c, name, b) = ToBit(c.meie) % NWords
      BY <1>2 DEF CsrRead, WordCsrs
    <2>2. ToBit(c.meie) \in Int
      BY DEF ToBit
    <2> QED BY <2>1, <2>2, ModType
  <1>3. CASE name = "mip"
    <2>1. CsrRead(c, name, b) = ToBit(b) % NWords
      BY <1>3 DEF CsrRead, WordCsrs
    <2>2. ToBit(b) \in Int
      BY DEF ToBit
    <2> QED BY <2>1, <2>2, ModType
  <1>4. CASE name \in WordCsrs
    <2>1. CsrRead(c, name, b) = c.word[name]
      BY <1>4 DEF CsrRead, WordCsrs
    <2> QED BY <1>4, <2>1 DEF CsrFile
  <1>5. CASE name = "none"
    BY <1>5, ZeroType DEF CsrRead, WordCsrs
  <1> QED BY <1>1, <1>2, <1>3, <1>4, <1>5 DEF CsrNames

(* A written CSR file is one. *)
LEMMA CsrWriteType ==
  ASSUME NEW c \in CsrFile, NEW name \in CsrNames, NEW w \in Word
  PROVE  CsrWrite(c, name, w) \in CsrFile
  <1>1. CASE name = "mstatus"
    <2>1. CsrWrite(c, name, w) = [c EXCEPT !.mie = Bit(0, w), !.mpie = Bit(1, w)]
      BY <1>1 DEF CsrWrite, WordCsrs
    <2>2. Bit(0, w) \in BOOLEAN /\ Bit(1, w) \in BOOLEAN
      BY DEF Bit
    <2> QED BY <2>1, <2>2 DEF CsrFile
  <1>2. CASE name = "mie"
    <2>1. CsrWrite(c, name, w) = [c EXCEPT !.meie = Bit(0, w)]
      BY <1>2 DEF CsrWrite, WordCsrs
    <2>2. Bit(0, w) \in BOOLEAN
      BY DEF Bit
    <2> QED BY <2>1, <2>2 DEF CsrFile
  <1>3. CASE name \in WordCsrs
    <2>1. CsrWrite(c, name, w) = [c EXCEPT !.word[name] = w]
      BY <1>3 DEF CsrWrite, WordCsrs
    <2> QED BY <1>3, <2>1 DEF CsrFile
  <1>4. CASE name \in {"mip", "none"}
    <2>1. CsrWrite(c, name, w) = c
      BY <1>4 DEF CsrWrite, WordCsrs
    <2> QED BY <2>1
  <1> QED BY <1>1, <1>2, <1>3, <1>4 DEF CsrNames

(* What a CSR instruction writes is a word. *)
LEMMA CsrWdataType ==
  ASSUME NEW op \in Opcodes, NEW old \in Word, NEW operand \in Word
  PROVE  CsrWdata(op, old, operand) \in Word
  <1>1. /\ AluOut("OR", old, operand) \in Word
        /\ AluOut("ANDN", old, operand) \in Word
    BY AluOutAssumption DEF AluFuns
  <1> QED BY <1>1, CauseAssumption DEF CsrWdata

-----------------------------------------------------------------------------
(* The wires of a cycle have the width of the registers they feed. *)

(* The types of the registers and inputs. *)
LEMMA InputTypes ==
    /\ Programs \subseteq [Word -> Instr]
    /\ RegFiles \subseteq [Reg -> Word] /\ DataMems \subseteq [Word -> Word]
    /\ CsrFiles \subseteq CsrFile
    /\ IrqLevels \subseteq BOOLEAN /\ DevReplies \subseteq [rvalid : BOOLEAN, rdata : Word]
  BY ConfigAssumption

(* The types of the wires of the memory stage. *)
LEMMA MemoryWires ==
  ASSUME TypeOK
  PROVE  /\ dmem_rdata \in Word
         /\ mem_stall_flg \in BOOLEAN
         /\ mem_csr_addr \in CsrNames
         /\ csr_rdata \in Word
         /\ csr_wdata \in Word
         /\ mem_wb_data \in Word
  <1>1. dmem_rdata \in Word
    BY DEF TypeOK, dmem_rdata
  <1>2. mem_stall_flg \in BOOLEAN
    BY DEF mem_stall_flg
  <1>3. /\ mem_reg.inst \in Instr /\ mem_reg.inst.op \in Opcodes
        /\ mem_reg.inst.csr \in CsrNames
        /\ mem_reg.pc \in Word /\ mem_reg.op1_data \in Word /\ mem_reg.alu_out \in Word
    BY DEF TypeOK, Instr
  <1>4. mem_csr_addr \in CsrNames
    BY <1>3 DEF mem_csr_addr, CsrNames, WordCsrs
  <1>5. csr_rdata \in Word
    BY <1>4, CsrReadType DEF TypeOK, csr_rdata
  <1>6. csr_wdata \in Word
    BY <1>3, <1>5, CsrWdataType DEF csr_wdata
  <1>7. mem_reg.pc (+) 1 \in Word
    BY <1>3, ModType DEF (+), Word
  <1>8. mem_wb_data \in Word
    BY <1>1, <1>3, <1>5, <1>7 DEF mem_wb_data
  <1> QED BY <1>1, <1>2, <1>4, <1>5, <1>6, <1>8

(* The types of the wires of the execute stage. *)
LEMMA ExecuteWires ==
  ASSUME TypeOK
  PROVE  /\ exe_alu_out \in Word
         /\ exe_br_target \in Word
  <1>1. /\ exe_reg.inst \in Instr /\ exe_reg.inst.imm \in Word
        /\ exe_reg.op1_data \in Word /\ exe_reg.op2_data \in Word
        /\ exe_reg.exception_target \in Word /\ exe_reg_pc \in Word
    BY DEF TypeOK, Instr
  <1>2. exe_alu_out \in Word
    BY <1>1, AluOutAssumption, ZeroType DEF exe_alu_out
  <1>3. csr.word["mepc"] \in Word
    BY DEF TypeOK, CsrFile, WordCsrs
  <1>4. exe_br_target \in Word
    BY <1>1, <1>3, PlusType DEF exe_br_target
  <1> QED BY <1>2, <1>4

(* The types of the wires of the decode stage. *)
LEMMA DecodeWires ==
  ASSUME TypeOK
  PROVE  /\ id_inst \in Instr
         /\ \A r \in Reg : id_rs_data(r) \in Word
         /\ id_op1_data \in Word
         /\ id_op2_data \in Word
  <1>1. id_inst \in Instr
    BY BubbleType DEF TypeOK, id_inst
  <1>2. ASSUME NEW r \in Reg PROVE id_rs_data(r) \in Word
    BY ZeroType, MemoryWires DEF TypeOK, id_rs_data
  <1>3. id_inst.rs1 % NWords \in Word
    BY <1>1, ModType DEF Instr, Reg
  <1>4. id_inst.rs1 \in Reg /\ id_inst.rs2 \in Reg /\ id_inst.imm \in Word
    BY <1>1 DEF Instr
  <1>5. id_rs_data(id_inst.rs1) \in Word /\ id_rs_data(id_inst.rs2) \in Word
    BY <1>2, <1>4
  <1>6. id_op1_data \in Word
    BY <1>3, <1>5, ZeroType DEF TypeOK, id_op1_data
  <1>7. id_op2_data \in Word
    BY <1>4, <1>5, ZeroType DEF id_op2_data
  <1> QED BY <1>1, <1>2, <1>6, <1>7

(* The types of the wires of the fetch stage. *)
LEMMA FetchWires ==
  ASSUME TypeOK
  PROVE  if_inst \in Instr
  BY BubbleType DEF TypeOK, if_inst

-----------------------------------------------------------------------------
(* Type correctness. *)

(* The types hold after reset. *)
LEMMA InitTypeOK == Init => TypeOK
  <1> SUFFICES ASSUME Init PROVE TypeOK
    OBVIOUS
  <1>1. StartAddr \in Word /\ 0 \in Word /\ 0 \in Reg
    BY ConfigAssumption, ZeroType
  <1>2. /\ prog \in [Word -> Instr] /\ dmem \in [Word -> Word]
        /\ regfile \in [Reg -> Word] /\ csr \in CsrFile
        /\ interrupt_in \in BOOLEAN /\ device \in [rvalid : BOOLEAN, rdata : Word]
    BY InputTypes DEF Init
  <1> QED BY <1>1, <1>2, BubbleType DEF Init, TypeOK

(* A clock edge keeps the type of the CSR file. *)
LEMMA CsrEdgeType == TypeOK /\ CsrEdge => csr' \in CsrFile
  <1> SUFFICES ASSUME TypeOK, CsrEdge PROVE csr' \in CsrFile
    OBVIOUS
  <1> DEFINE entered == IF exe_reg_has_pending_interrupt THEN EnterInterrupt(csr) ELSE csr
  <1>1. csr \in CsrFile /\ csr.mie \in BOOLEAN /\ csr.mpie \in BOOLEAN /\ exe_reg_pc \in Word
    BY DEF TypeOK, CsrFile
  <1>2. [csr.word EXCEPT !["mcause"] = CauseExternal, !["mepc"] = exe_reg_pc] \in [WordCsrs -> Word]
    BY <1>1, CauseAssumption DEF CsrFile
  <1>3. EnterInterrupt(csr) \in CsrFile
    BY <1>1, <1>2 DEF EnterInterrupt, CsrFile
  <1>4. entered \in CsrFile
    BY <1>1, <1>3
  <1>5. CsrAfterExe \in CsrFile
    <2>1. [entered EXCEPT !.mie = csr.mpie] \in CsrFile
      BY <1>1, <1>4 DEF CsrFile
    <2>2. CsrAfterExe = IF exe_mret THEN [entered EXCEPT !.mie = csr.mpie] ELSE entered
      BY DEF CsrAfterExe
    <2> QED BY <1>4, <2>1, <2>2
  <1>6. CsrOverridden \in CsrFile
    BY <1>1, <1>5 DEF CsrOverridden, CsrFile
  <1>7. CsrWrite(CsrOverridden, mem_csr_addr, csr_wdata) \in CsrFile
    BY <1>6, MemoryWires, CsrWriteType
  <1> QED BY <1>5, <1>7 DEF CsrEdge

(* A clock edge keeps the types. *)
LEMMA StepTypeOK == TypeOK /\ [Clock]_vars => TypeOK'
  <1> SUFFICES ASSUME TypeOK, [Clock]_vars PROVE TypeOK'
    OBVIOUS
  <1>1. CASE Clock
    <2> USE <1>1
    <2>1. prog' \in [Word -> Instr]
      BY DEF TypeOK, Clock
    <2>2. if_reg_pc' \in Word /\ fetched' \in Word \cup {NoAddr}
      <3>1. csr.word["mtvec"] \in Word
        BY DEF TypeOK, CsrFile, WordCsrs
      <3>2. if_reg_pc (+) 1 \in Word
        <4>1. if_reg_pc + 1 \in Int
          BY DEF TypeOK, Word
        <4> QED BY <4>1, ModType DEF (+)
      <3> QED BY <3>1, <3>2, ExecuteWires DEF TypeOK, Clock, FetchEdge
    <2>3. id_reg_pc' \in Word /\ id_reg_inst' \in Instr
      BY BubbleType, FetchWires DEF TypeOK, Clock, DecodeEdge
    <2>4. exe_reg' \in [inst : Instr, op1_data : Word, op2_data : Word, rs2_data : Word,
                         exception_target : Word]
      <3>1. csr.word["mtvec"] (+) IrqOffset \in Word
        BY ConfigAssumption, PlusType DEF TypeOK, CsrFile, WordCsrs
      <3>2. id_rs_data(id_inst.rs2) \in Word
        BY DecodeWires DEF Instr
      <3> QED BY <3>1, <3>2, DecodeWires DEF TypeOK, Clock, ExecuteEdge
    <2>5. exe_reg_pc' \in Word /\ exe_reg_has_pending_interrupt' \in BOOLEAN
      BY DEF TypeOK, Clock, ExecuteEdge
    <2>6. mem_reg' \in [inst : Instr, pc : Word, op1_data : Word, rs2_data : Word, alu_out : Word]
      BY ExecuteWires DEF TypeOK, Clock, MemoryEdge
    <2>7. wb_reg' \in [wb_addr : Reg, rf_wen : BOOLEAN, wb_data : Word]
      <3>1. mem_reg.inst.rd \in Reg /\ mem_reg.inst.op \in Opcodes
        BY DEF TypeOK, Instr
      <3>2. mem.rf_wen \in BOOLEAN
        BY <3>1, SignalsType DEF mem
      <3> QED BY <3>1, <3>2, MemoryWires DEF Clock, WritebackEdge
    <2>8. regfile' \in [Reg -> Word]
      BY DEF TypeOK, Clock, WritebackEdge
    <2>9. csr' \in CsrFile
      BY CsrEdgeType DEF Clock
    <2>10. rvalid' \in BOOLEAN /\ ram_rdata' \in Word /\ dmem' \in [Word -> Word]
      BY DEF TypeOK, Clock, RamEdge
    <2>11. interrupt_in' \in BOOLEAN /\ device' \in [rvalid : BOOLEAN, rdata : Word]
      BY InputTypes DEF Clock, Inputs
    <2> QED BY <2>1, <2>2, <2>3, <2>4, <2>5, <2>6, <2>7, <2>8, <2>9, <2>10, <2>11 DEF TypeOK
  <1>2. CASE UNCHANGED vars
    BY <1>2 DEF TypeOK, vars, ramVars, pipeVars
  <1> QED BY <1>1, <1>2

(***************************************************************************)
(* Every register of the core always holds a value of its width, whatever  *)
(* the program, the devices and the interrupt line do.                     *)
(***************************************************************************)
THEOREM TypeCorrect == Spec => []TypeOK
  BY InitTypeOK, StepTypeOK, PTL DEF Spec

-----------------------------------------------------------------------------
(* The forwarding argument. *)

(* A register with the write-back stage laid over it. *)
LEMMA ArchAt ==
  ASSUME NEW r \in Reg
  PROVE  ArchRegs[r] = IF r = 0 THEN 0
                       ELSE IF wb_reg.rf_wen /\ wb_reg.wb_addr = r THEN wb_reg.wb_data
                       ELSE regfile[r]
  BY DEF ArchRegs

(* What decode reads is what the registers hold after this cycle, unless the *)
(* memory stage stalls.                                                      *)
LEMMA DecodeReadsNext ==
  ASSUME TypeOK, Clock, ~mem_stall_flg
  PROVE  \A r \in Reg : ArchRegs'[r] = id_rs_data(r)
  <1> SUFFICES ASSUME NEW r \in Reg PROVE ArchRegs'[r] = id_rs_data(r)
    OBVIOUS
  <1>1. ArchRegs'[r] = IF r = 0 THEN 0
                       ELSE IF wb_reg'.rf_wen /\ wb_reg'.wb_addr = r THEN wb_reg'.wb_data
                       ELSE regfile'[r]
    BY DEF ArchRegs
  <1>2. /\ wb_reg'.rf_wen = mem.rf_wen
        /\ wb_reg'.wb_addr = mem_reg.inst.rd
        /\ wb_reg'.wb_data = mem_wb_data
    <2>1. mem.rf_wen \in BOOLEAN
      BY SignalsType DEF TypeOK, Instr, mem
    <2> QED BY <2>1 DEF Clock, WritebackEdge
  <1>3. regfile'[r] = IF wb_reg.rf_wen /\ wb_reg.wb_addr = r THEN wb_reg.wb_data ELSE regfile[r]
    BY DEF TypeOK, Clock, WritebackEdge
  <1> QED BY <1>1, <1>2, <1>3 DEF id_rs_data

(* While the memory stage stalls no register changes for the program. *)
LEMMA StallKeepsRegs ==
  ASSUME TypeOK, Clock, mem_stall_flg
  PROVE  ArchRegs' = ArchRegs
  <1>1. ASSUME NEW r \in Reg PROVE ArchRegs'[r] = ArchRegs[r]
    <2>1. ArchRegs'[r] = IF r = 0 THEN 0
                         ELSE IF wb_reg'.rf_wen /\ wb_reg'.wb_addr = r THEN wb_reg'.wb_data
                         ELSE regfile'[r]
      BY DEF ArchRegs
    <2>2. ~wb_reg'.rf_wen
      BY DEF Clock, WritebackEdge
    <2>3. regfile'[r] = IF wb_reg.rf_wen /\ wb_reg.wb_addr = r THEN wb_reg.wb_data ELSE regfile[r]
      BY DEF TypeOK, Clock, WritebackEdge
    <2> QED BY <2>1, <2>2, <2>3, ArchAt
  <1>2. DOMAIN ArchRegs' = Reg /\ DOMAIN ArchRegs = Reg
    BY DEF ArchRegs
  <1> QED BY <1>1, <1>2 DEF ArchRegs

(* Otherwise only the instruction in the memory stage changes one. *)
LEMMA OthersKeepRegs ==
  ASSUME TypeOK, Clock, ~mem_stall_flg,
         NEW r \in Reg, mem.rf_wen /\ mem_reg.inst.rd # 0 => mem_reg.inst.rd # r
  PROVE  ArchRegs'[r] = ArchRegs[r]
  BY DecodeReadsNext, ArchAt DEF id_rs_data

(* An instruction's operands depend on the registers it names only. *)
LEMMA OperandsDepend ==
  ASSUME NEW f, NEW g, NEW i, NEW pc, f[i.rs1] = g[i.rs1], f[i.rs2] = g[i.rs2]
  PROVE  Operand1(f, i, pc) = Operand1(g, i, pc) /\ Operand2(f, i) = Operand2(g, i)
  BY DEF Operand1, Operand2

-----------------------------------------------------------------------------
(* The inductive invariant. *)

(* The operands of a bubble are zero. *)
LEMMA BubbleOperands ==
  ASSUME NEW f, f[0] = 0, NEW pc
  PROVE  Operand1(f, BUBBLE, pc) = 0 /\ Operand2(f, BUBBLE) = 0
  BY BubbleSignals DEF Operand1, Operand2, BUBBLE

(* The pipeline after reset: bubbles everywhere. *)
LEMMA InitPipeline == Init => PipelineInv
  <1> SUFFICES ASSUME Init PROVE PipelineInv
    OBVIOUS
  <1>1. TypeOK
    BY InitTypeOK
  <1>2. ArchRegs[0] = 0
    BY ZeroType, ArchAt
  <1>3. OperandsCurrent
    BY <1>2, BubbleOperands DEF Init, OperandsCurrent, BUBBLE
  <1>4. HazardsStalled
    BY DEF Init, HazardsStalled, BUBBLE
  <1>5. ResultsCurrent
    <2>1. /\ mem_reg.inst = BUBBLE /\ mem_reg.op1_data = 0 /\ mem_reg.rs2_data = 0
          /\ BUBBLE.op = "BUBBLE" /\ BUBBLE.rs2 = 0
      BY DEF Init, BUBBLE
    <2> QED BY <1>2, <2>1, BubbleOperands DEF ResultsCurrent
  <1> QED BY <1>1, <1>3, <1>4, <1>5 DEF PipelineInv

(* The operands in the execute stage are still current when their          *)
(* instruction moves on to the memory stage.                               *)
LEMMA OperandsStay ==
  ASSUME PipelineInv, Clock, ~mem_stall_flg
  PROVE  /\ exe_reg.op1_data = Operand1(ArchRegs', exe_reg.inst, exe_reg_pc)
         /\ exe_reg.op2_data = Operand2(ArchRegs', exe_reg.inst)
         /\ exe_reg.rs2_data = ArchRegs'[exe_reg.inst.rs2]
  <1> DEFINE i == exe_reg.inst
  <1>1. TypeOK /\ i.rs1 \in Reg /\ i.rs2 \in Reg
    BY DEF PipelineInv, TypeOK, Instr
  <1>2. ArchRegs'[i.rs1] = ArchRegs[i.rs1]
    BY <1>1, OthersKeepRegs DEF PipelineInv, HazardsStalled
  <1>3. ArchRegs'[i.rs2] = ArchRegs[i.rs2]
    BY <1>1, OthersKeepRegs DEF PipelineInv, HazardsStalled
  <1>4. /\ Operand1(ArchRegs', i, exe_reg_pc) = Operand1(ArchRegs, i, exe_reg_pc)
        /\ Operand2(ArchRegs', i) = Operand2(ArchRegs, i)
    BY <1>2, <1>3, OperandsDepend
  <1> QED BY <1>3, <1>4 DEF PipelineInv, OperandsCurrent

(* A clock edge keeps the pipeline's invariant. *)
LEMMA StepPipeline == PipelineInv /\ [Clock]_vars => PipelineInv'
  <1> SUFFICES ASSUME PipelineInv, [Clock]_vars PROVE PipelineInv'
    OBVIOUS
  <1>1. TypeOK /\ TypeOK'
    BY StepTypeOK DEF PipelineInv
  <1>2. CASE Clock /\ mem_stall_flg
    <2>1. UNCHANGED <<exe_reg, exe_reg_pc, mem_reg, ArchRegs>>
      <3>1. ArchRegs' = ArchRegs
        BY <1>1, <1>2, StallKeepsRegs
      <3>2. UNCHANGED <<exe_reg, exe_reg_pc, mem_reg>>
        BY <1>2 DEF Clock, ExecuteEdge, MemoryEdge
      <3> QED BY <3>1, <3>2
    <2>2. OperandsCurrent'
      BY <2>1 DEF PipelineInv, OperandsCurrent
    <2>3. HazardsStalled'
      BY <2>1 DEF PipelineInv, HazardsStalled, mem
    <2>4. ResultsCurrent'
      BY <2>1 DEF PipelineInv, ResultsCurrent, mem
    <2> QED BY <1>1, <2>2, <2>3, <2>4 DEF PipelineInv
  <1>3. CASE Clock /\ ~mem_stall_flg
    <2>1. id_inst \in Instr /\ id_inst.rs1 \in Reg /\ id_inst.rs2 \in Reg
      BY <1>1, DecodeWires DEF Instr
    <2>2. OperandsCurrent'
      <3>1. /\ exe_reg'.inst = id_inst
            /\ exe_reg'.op1_data = id_op1_data /\ exe_reg'.op2_data = id_op2_data
            /\ exe_reg'.rs2_data = id_rs_data(id_inst.rs2)
        BY <1>3 DEF Clock, ExecuteEdge
      <3>2. /\ ArchRegs'[id_inst.rs1] = id_rs_data(id_inst.rs1)
            /\ ArchRegs'[id_inst.rs2] = id_rs_data(id_inst.rs2)
        BY <1>1, <1>3, <2>1, DecodeReadsNext
      <3>3. CSignals[id_inst.op].op1_sel = "PC" => exe_reg_pc' = id_reg_pc
        <4>1. CASE exe_br_flg \/ exe_jmp_flg
          BY <4>1, BubbleSignals DEF id_inst, BUBBLE
        <4>2. CASE ~(exe_br_flg \/ exe_jmp_flg)
          BY <1>3, <4>2 DEF Clock, ExecuteEdge
        <4> QED BY <4>1, <4>2
      <3>4. id_op1_data = Operand1(ArchRegs', id_inst, exe_reg_pc')
        BY <3>2, <3>3 DEF id_op1_data, id, Operand1
      <3>5. id_op2_data = Operand2(ArchRegs', id_inst)
        BY <3>2 DEF id_op2_data, id, Operand2
      <3> QED BY <3>1, <3>2, <3>4, <3>5 DEF OperandsCurrent
    <2>3. HazardsStalled'
      <3>1. exe_reg'.inst = id_inst /\ mem_reg'.inst = exe_reg.inst
        BY <1>3 DEF Clock, ExecuteEdge, MemoryEdge
      <3>2. exe.rf_wen /\ exe_reg.inst.rd # 0 => exe_reg.inst.rd \notin {id_inst.rs1, id_inst.rs2}
        <4>1. CASE id_inst = BUBBLE
          BY <4>1 DEF BUBBLE
        <4>2. CASE id_inst # BUBBLE
          <5>1. id_inst = id_reg_inst /\ ~stall_flg
            BY <4>2 DEF id_inst
          <5> QED BY <5>1 DEF stall_flg, Hazard
        <4> QED BY <4>1, <4>2
      <3> QED BY <3>1, <3>2 DEF HazardsStalled, mem, exe
    <2>4. ResultsCurrent'
      <3> DEFINE i == exe_reg.inst
      <3>1. /\ mem_reg'.inst = i /\ mem_reg'.pc = exe_reg_pc
            /\ mem_reg'.op1_data = exe_reg.op1_data /\ mem_reg'.rs2_data = exe_reg.rs2_data
            /\ mem_reg'.alu_out = exe_alu_out
        BY <1>3 DEF Clock, MemoryEdge
      <3>6. /\ exe_reg.op1_data = Operand1(ArchRegs', i, exe_reg_pc)
            /\ exe_reg.op2_data = Operand2(ArchRegs', i)
            /\ exe_reg.rs2_data = ArchRegs'[i.rs2]
        BY <1>3, OperandsStay
      <3>7. exe.exe_fun \in AluFuns =>
              exe_alu_out = AluOut(exe.exe_fun, Operand1(ArchRegs', i, exe_reg_pc),
                                   Operand2(ArchRegs', i))
        BY <3>6 DEF exe_alu_out
      <3>8. mem' = exe
        BY <3>1 DEF mem, exe
      <3> QED BY <3>1, <3>6, <3>7, <3>8 DEF ResultsCurrent
    <2> QED BY <1>1, <2>2, <2>3, <2>4 DEF PipelineInv
  <1>4. CASE UNCHANGED vars
    <2>1. UNCHANGED <<exe_reg, exe_reg_pc, mem_reg, ArchRegs>>
      BY <1>4 DEF vars, pipeVars, ArchRegs
    <2>2. OperandsCurrent' /\ HazardsStalled' /\ ResultsCurrent'
      BY <2>1 DEF PipelineInv, OperandsCurrent, HazardsStalled, ResultsCurrent, mem
    <2> QED BY <1>1, <2>2 DEF PipelineInv
  <1> QED BY <1>2, <1>3, <1>4

(***************************************************************************)
(* Operand forwarding and the hazard stalls are right for every program:   *)
(* each instruction reaches the memory stage with the results the ALU      *)
(* gives on the register values that all older instructions have left,     *)
(* however loads stall, jumps flush and interrupts strike.                 *)
(***************************************************************************)
THEOREM ForwardingCorrect == Spec => []ResultsCurrent
  <1>1. PipelineInv => ResultsCurrent
    BY DEF PipelineInv
  <1> QED BY <1>1, InitPipeline, StepPipeline, PTL DEF Spec

(***************************************************************************)
(* Every source operand in the execute stage is the register's value after *)
(* the instructions that have reached write-back.                          *)
(***************************************************************************)
THEOREM OperandsCorrect == Spec => []OperandsCurrent
  <1>1. PipelineInv => OperandsCurrent
    BY DEF PipelineInv
  <1> QED BY <1>1, InitPipeline, StepPipeline, PTL DEF Spec

(***************************************************************************)
(* Decode has stalled long enough: the instruction ahead of the one in the *)
(* execute stage writes none of the registers that one has read.           *)
(***************************************************************************)
THEOREM StallsCorrect == Spec => []HazardsStalled
  <1>1. PipelineInv => HazardsStalled
    BY DEF PipelineInv
  <1> QED BY <1>1, InitPipeline, StepPipeline, PTL DEF Spec

-----------------------------------------------------------------------------
(***************************************************************************)
(* The core implements the instruction-set machine.  The interrupt line is *)
(* low, and a program with traps has no load and no ECALL right behind a   *)
(* write of its vector: an ECALL fetched while a load stalls or while its  *)
(* vector is still being written, and an interrupt taken at a stall, do    *)
(* differ from the machine (README, section 6).  An address differs from   *)
(* the next: there are two words or more.                                  *)
(***************************************************************************)
SafePrograms ==
    /\ \A p \in Programs : TrapSafe(p)
    /\ IrqLevels \subseteq {FALSE}
    /\ NWords > 1

FlowInv == PipelineInv /\ prog \in Programs /\ ProgramOrder /\ TrapsApart /\ LoadAnswered

(* What the program holds at an address. *)
LEMMA Fetched ==
  ASSUME SafePrograms, prog \in Programs, NEW a \in Word
  PROVE  /\ prog[a] \in Instr /\ prog[a].op # "BUBBLE"
         /\ prog[a].op \in {"ECALL", "MRET"} => Traps(prog)
         /\ Traps(prog) => prog[a].op \notin Loads
         /\ Traps(prog) /\ prog[a].op \in CsrOps /\ prog[a].csr = "mtvec" =>
               prog[a (+) 1].op # "ECALL"
  BY ConfigAssumption DEF SafePrograms, TrapSafe, Traps

(* A bubble goes nowhere and waits for nothing. *)
LEMMA BubblePasses ==
  /\ CSignals["BUBBLE"].wb_sel = "ALU"
  /\ "BUBBLE" \notin Branches \cup CsrOps
  /\ ~CSignals["BUBBLE"].mem_wen
  /\ ~CSignals["BUBBLE"].csr_cmd
  BY DEF CSignals, Opcodes, RegOps, ImmOps, Branches, CsrOps, CsrRegOps, CsrImmOps, Loads, Stores

(* The classes of instructions that the control signals tell apart. *)
LEMMA OpClasses ==
  ASSUME NEW op \in Opcodes
  PROVE  /\ CSignals[op].wb_sel = "MEM" <=> op \in Loads
         /\ CSignals[op].wb_sel = "PC"  <=> op \in {"JAL", "JALR"}
         /\ CSignals[op].wb_sel = "CSR" <=> op \in CsrOps
         /\ CSignals[op].exe_fun \in Branches <=> op \in Branches
         /\ op \in Branches => CSignals[op].exe_fun = op
         /\ op \notin Branches => CSignals[op].exe_fun \in AluFuns
  <1>1. CSignals[op].wb_sel = CASE op \in Loads           -> "MEM"
                                [] op \in {"JAL", "JALR"} -> "PC"
                                [] op \in CsrOps          -> "CSR"
                                [] OTHER                  -> "ALU"
    BY DEF CSignals
  <1>2. Loads \cap {"JAL", "JALR"} = {} /\ CsrOps \cap (Loads \cup {"JAL", "JALR"}) = {}
    BY DEF Loads, CsrOps, CsrRegOps, CsrImmOps
  <1>3. CSignals[op].exe_fun =
           CASE op \in RegOps \cup ImmOps -> AluFun[op]
             [] op \in Branches           -> op
             [] op \in CsrOps             -> "COPY1"
             [] op = "JALR"               -> "JALR"
             [] op \in {"ECALL", "MRET", "ILLEGAL"} -> "X"
             [] OTHER                     -> "ADD"
    BY DEF CSignals
  <1>4. {"COPY1", "JALR", "X", "ADD"} \subseteq AluFuns /\ AluFuns \cap Branches = {}
    BY DEF AluFuns, Branches
  <1>5. /\ CSignals[op].wb_sel = "MEM" <=> op \in Loads
        /\ CSignals[op].wb_sel = "PC"  <=> op \in {"JAL", "JALR"}
        /\ CSignals[op].wb_sel = "CSR" <=> op \in CsrOps
    BY <1>1, <1>2
  <1>6. CASE op \in Branches
    <2>1. op \notin RegOps \cup ImmOps \cup CsrOps \cup {"JALR", "ECALL", "MRET", "ILLEGAL"}
      BY <1>6 DEF Branches, RegOps, ImmOps, CsrOps, CsrRegOps, CsrImmOps
    <2>2. CSignals[op].exe_fun = op
      BY <1>3, <1>6, <2>1
    <2> QED BY <1>5, <1>6, <2>2
  <1>7. CASE op \notin Branches
    <2>1. CSignals[op].exe_fun \in AluFuns
      BY <1>3, <1>4, <1>7, AluFunType
    <2> QED BY <1>4, <1>5, <1>7, <2>1
  <1> QED BY <1>6, <1>7

(* The fetched word is no bubble, and all instructions are the program's. *)
LEMMA InTheCore ==
  ASSUME SafePrograms, FlowInv
  PROVE  /\ imem_valid => if_inst = prog[if_reg_pc] /\ InFlight(if_inst)
         /\ ~imem_valid => if_inst = BUBBLE
         /\ InFlight(if_inst) \/ if_inst = BUBBLE
         /\ \A i \in {if_inst, id_reg_inst, exe_reg.inst, mem_reg.inst} :
               /\ i = BUBBLE \/ \E a \in Word : i = prog[a]
               /\ i.op \in {"ECALL", "MRET"} => Traps(prog)
               /\ Traps(prog) => i.op \notin Loads
  <1>1. TypeOK /\ prog \in Programs
    BY DEF FlowInv, PipelineInv
  <1>2. mem_reg.pc \in Word /\ exe_reg_pc \in Word /\ id_reg_pc \in Word /\ if_reg_pc \in Word
    BY <1>1 DEF TypeOK
  <1>3. prog[if_reg_pc].op # "BUBBLE" /\ BUBBLE.op = "BUBBLE"
    BY <1>1, <1>2, Fetched DEF BUBBLE
  <1>4. if_inst = IF imem_valid THEN prog[if_reg_pc] ELSE BUBBLE
    BY DEF if_inst
  <1>5. ASSUME NEW i \in {if_inst, id_reg_inst, exe_reg.inst, mem_reg.inst}
        PROVE  i = BUBBLE \/ \E a \in Word : i = prog[a]
    <2>1. i = if_inst => i = BUBBLE \/ i = prog[if_reg_pc]
      BY <1>4
    <2>2. /\ i = id_reg_inst => i = BUBBLE \/ i = prog[id_reg_pc]
          /\ i = exe_reg.inst => i = BUBBLE \/ i = prog[exe_reg_pc]
          /\ i = mem_reg.inst => i = BUBBLE \/ i = prog[mem_reg.pc]
      BY DEF FlowInv, ProgramOrder
    <2> QED BY <1>2, <2>1, <2>2
  <1>6. BUBBLE.op \notin {"ECALL", "MRET"} \cup Loads
    BY DEF BUBBLE, Loads
  <1>7. ASSUME NEW i, i = BUBBLE \/ \E a \in Word : i = prog[a]
        PROVE  /\ i.op \in {"ECALL", "MRET"} => Traps(prog)
               /\ Traps(prog) => i.op \notin Loads
    BY <1>1, <1>6, <1>7, Fetched
  <1> QED BY <1>3, <1>4, <1>5, <1>7 DEF InFlight

(* In a program with traps nothing stalls. *)
LEMMA NothingStalls ==
  ASSUME SafePrograms, FlowInv, Traps(prog)
  PROVE  ~mem_stall_flg /\ ~stall_flg
  <1>1. ~mem_stall_flg
    <2>1. mem_reg.inst.op \notin Loads
      BY InTheCore
    <2>2. mem_reg.inst.op \in Opcodes
      BY DEF FlowInv, PipelineInv, TypeOK, Instr
    <2> QED BY <2>1, <2>2, OpClasses DEF mem_stall_flg, dmem_ren, mem
  <1>2. ASSUME NEW r \in {id_reg_inst.rs1, id_reg_inst.rs2} PROVE ~Hazard(r)
    <2>1. id_reg_inst = BUBBLE => r = 0
      BY DEF BUBBLE
    <2>2. exe_reg.inst = BUBBLE => exe_reg.inst.rd = 0
      BY DEF BUBBLE
    <2>3. exe_reg.inst.op = "ECALL" => ~exe.rf_wen
      BY DEF exe, CSignals, Opcodes
    <2>4. \/ id_reg_inst = BUBBLE \/ exe_reg.inst = BUBBLE
          \/ exe_reg.inst.op = "ECALL"
      BY DEF FlowInv, ProgramOrder, TrapsApart, ApartFrom
    <2> QED BY <2>1, <2>2, <2>3, <2>4 DEF Hazard
  <1> QED BY <1>1, <1>2 DEF stall_flg

(* What leaves the execute stage for another address: a jump, a branch    *)
(* that is taken, or a return.                                            *)
LEMMA Redirects ==
  ASSUME SafePrograms, FlowInv
  PROVE  /\ exe_jmp_flg <=> exe_reg.inst.op \in {"JAL", "JALR"}
         /\ exe_br_flg <=> \/ exe_mret
                           \/ /\ exe_reg.inst.op \in Branches
                              /\ BrFlg(exe_reg.inst.op, exe_reg.op1_data, exe_reg.op2_data)
         /\ exe_br_target = IF exe_mret THEN csr.word["mepc"] ELSE exe_reg_pc (+) exe_reg.inst.imm
         /\ exe_mret <=> exe_reg.inst.op = "MRET"
         /\ exe_mret => Traps(prog) /\ ~Pending(mem_reg.inst)
         /\ exe_jmp_flg \/ exe_br_flg => InFlight(exe_reg.inst)
  <1>1. ~exe_reg_has_pending_interrupt
    BY DEF FlowInv, ProgramOrder
  <1>2. exe_reg.inst.op \in Opcodes
    BY DEF FlowInv, PipelineInv, TypeOK, Instr
  <1>3. exe_mret <=> exe_reg.inst.op = "MRET"
    BY DEF exe_mret
  <1>4. exe_mret => Traps(prog)
    BY <1>3, InTheCore
  <1>5. exe_mret => ~Pending(mem_reg.inst)
    BY <1>3, <1>4 DEF FlowInv, TrapsApart, ApartFrom, Pending, InFlight
  <1>6. /\ exe_jmp_flg <=> exe_reg.inst.op \in {"JAL", "JALR"}
        /\ exe_br_flg <=> \/ exe_mret
                          \/ /\ exe_reg.inst.op \in Branches
                             /\ BrFlg(exe_reg.inst.op, exe_reg.op1_data, exe_reg.op2_data)
    BY <1>1, <1>2, OpClasses DEF exe_jmp_flg, exe_br_flg, exe
  <1> QED BY <1>1, <1>3, <1>4, <1>5, <1>6, BubblePasses DEF exe_br_target, InFlight

-----------------------------------------------------------------------------
(* The instructions move on in order. *)

(* While decode stalls, fetch and decode stay as they are. *)
LEMMA FrontStays ==
  ASSUME SafePrograms, FlowInv, Clock, stall_flg, ~exe_jmp_flg, ~exe_br_flg
  PROVE  UNCHANGED <<id_reg_inst, id_reg_pc, if_reg_pc>>
  <1>1. if_inst.op # "ECALL"
    BY NothingStalls, InTheCore
  <1> QED BY <1>1 DEF Clock, FetchEdge, DecodeEdge

(* The trap vector only changes behind the last instruction that could     *)
(* make an ECALL of the pipeline leave for another one.                    *)
LEMMA VectorStays ==
  ASSUME SafePrograms, FlowInv, Clock,
         \/ "ECALL" \in {id_reg_inst.op, exe_reg.inst.op, mem_reg.inst.op}
         \/ if_inst.op = "ECALL" /\ ~exe_jmp_flg /\ ~exe_br_flg
  PROVE  Vector' = Vector
  <1>1. TypeOK /\ TypeOK' /\ csr \in CsrFile /\ mem_reg.inst \in Instr /\ mem_reg.inst.op \in Opcodes
    BY StepTypeOK DEF FlowInv, PipelineInv, TypeOK, Instr
  <1>2. Traps(prog)
    BY InTheCore
  <1>3. ~(mem_reg.inst.op \in CsrOps /\ mem_reg.inst.csr = "mtvec")
    <2> SUFFICES ASSUME mem_reg.inst.op \in CsrOps, mem_reg.inst.csr = "mtvec" PROVE FALSE
      OBVIOUS
    <2>1. mem_reg.inst.op \notin {"ECALL", "MRET", "BUBBLE", "JAL", "JALR"} \cup Branches
      BY DEF CsrOps, CsrRegOps, CsrImmOps, Branches
    <2>2. InFlight(mem_reg.inst) /\ Pending(mem_reg.inst)
      BY <2>1 DEF InFlight, Pending
    <2>3. mem_reg.inst = prog[mem_reg.pc] /\ BehindMem = mem_reg.pc (+) 1 /\ mem_reg.pc \in Word
      BY <1>1, <2>1, <2>2 DEF FlowInv, ProgramOrder, NextPc, After, TypeOK
    <2>4. prog[BehindMem].op # "ECALL"
      BY <1>2, <2>3, Fetched DEF FlowInv
    <2>5. ~InFlight(exe_reg.inst)
      BY <1>2, <2>1, <2>2 DEF FlowInv, TrapsApart, ApartFrom
    <2>6. exe_reg.inst.op # "ECALL" /\ BehindMem = BehindExe
      BY <2>5 DEF InFlight, BehindMem
    <2>7. id_reg_inst.op # "ECALL"
      BY <2>4, <2>6 DEF FlowInv, ProgramOrder, BehindExe, InFlight
    <2>8. if_inst.op # "ECALL"
      <3>1. CASE InFlight(id_reg_inst)
        BY <1>2, <2>7, <3>1, InTheCore DEF FlowInv, TrapsApart, ApartFrom, InFlight
      <3>2. CASE ~InFlight(id_reg_inst)
        BY <2>4, <2>6, <3>2 DEF BehindExe, if_inst, BUBBLE
      <3> QED BY <3>1, <3>2
    <2> QED BY <2>1, <2>6, <2>7, <2>8
  <1>4. CsrAfterExe \in CsrFile /\ CsrAfterExe.word = csr.word
    <2>1. CsrAfterExe = IF exe_mret THEN [csr EXCEPT !.mie = csr.mpie] ELSE csr
      BY DEF CsrAfterExe, FlowInv, ProgramOrder
    <2> QED BY <1>1, <2>1 DEF CsrFile
  <1>5. /\ mem.csr_cmd => mem_csr_addr # "mtvec"
        /\ CsrOverridden \in CsrFile /\ CsrOverridden.word = csr.word
    BY <1>1, <1>3, <1>4 DEF mem_csr_addr, mem, CSignals, CsrOverridden, CsrFile
  <1>6. ASSUME NEW c \in CsrFile, NEW n, n # "mtvec", NEW w
        PROVE  CsrWrite(c, n, w).word["mtvec"] = c.word["mtvec"]
    <2>1. CASE n \in WordCsrs
      <3>1. CsrWrite(c, n, w) = [c EXCEPT !.word[n] = w]
        BY <2>1 DEF CsrWrite, WordCsrs
      <3> QED BY <1>6, <3>1 DEF CsrFile, WordCsrs
    <2>2. CASE n \notin WordCsrs
      BY <2>2 DEF CsrWrite, CsrFile
    <2> QED BY <2>1, <2>2
  <1>7. csr' = IF mem.csr_cmd THEN CsrWrite(CsrOverridden, mem_csr_addr, csr_wdata) ELSE CsrAfterExe
    BY DEF Clock, CsrEdge
  <1>8. csr'.word["mtvec"] = csr.word["mtvec"]
    BY <1>4, <1>5, <1>6, <1>7
  <1> QED BY <1>8 DEF Vector

(* Otherwise decode takes the next instruction, or a bubble while the     *)
(* instruction memory has not answered.                                   *)
LEMMA FrontMoves ==
  ASSUME SafePrograms, FlowInv, Clock, ~stall_flg, ~exe_jmp_flg, ~exe_br_flg
  PROVE  /\ BehindExe' = if_reg_pc
         /\ InFlight(id_reg_inst') =>
               id_reg_inst' = prog[id_reg_pc'] /\ if_reg_pc' = After(Vector', id_reg_inst', id_reg_pc')
  <1>1. id_reg_inst' = if_inst
    BY DEF Clock, DecodeEdge
  <1>2. CASE imem_valid
    <2>1. id_reg_pc' = if_reg_pc
      BY <1>2 DEF Clock, DecodeEdge
    <2>2. if_reg_pc' = After(Vector', if_inst, if_reg_pc)
      <3>1. if_inst.op = "ECALL" => Vector' = Vector
        BY VectorStays
      <3>2. if_reg_pc' = IF if_inst.op = "ECALL" THEN Vector ELSE if_reg_pc (+) 1
        BY <1>2 DEF Clock, FetchEdge, Vector
      <3> QED BY <3>1, <3>2 DEF After
    <2>3. if_inst = prog[if_reg_pc] /\ InFlight(if_inst)
      BY <1>2, InTheCore
    <2> QED BY <1>1, <2>1, <2>2, <2>3 DEF BehindExe
  <1>3. CASE ~imem_valid
    <2>1. if_inst = BUBBLE /\ BUBBLE.op = "BUBBLE"
      BY <1>3, InTheCore DEF BUBBLE
    <2>2. if_reg_pc' = if_reg_pc
      BY <1>3, <2>1 DEF Clock, FetchEdge
    <2> QED BY <1>1, <2>1, <2>2 DEF BehindExe, InFlight
  <1> QED BY <1>2, <1>3

(* Execute takes what was behind it. *)
LEMMA BehindShifts ==
  ASSUME SafePrograms, FlowInv, Clock, ~mem_stall_flg, ~exe_jmp_flg, ~exe_br_flg
  PROVE  BehindMem' = BehindExe
  <1>1. exe_reg'.inst = id_inst /\ exe_reg_pc' = id_reg_pc
    BY DEF Clock, ExecuteEdge
  <1>2. CASE stall_flg
    <2>1. ~InFlight(exe_reg'.inst)
      BY <1>1, <1>2 DEF id_inst, InFlight, BUBBLE
    <2>2. BehindExe' = BehindExe
      BY <1>2, FrontStays DEF BehindExe
    <2> QED BY <2>1, <2>2 DEF BehindMem
  <1>3. CASE ~stall_flg
    <2>1. exe_reg'.inst = id_reg_inst
      BY <1>1, <1>3 DEF id_inst
    <2> QED BY <1>1, <1>3, <2>1, FrontMoves DEF BehindMem, BehindExe
  <1> QED BY <1>2, <1>3

(* A jump flushes what was behind it. *)
LEMMA JumpFlushes ==
  ASSUME SafePrograms, FlowInv, Clock, exe_jmp_flg \/ exe_br_flg
  PROVE  /\ ~InFlight(id_reg_inst')
         /\ ~mem_stall_flg => ~InFlight(exe_reg'.inst) /\ BehindMem' = if_reg_pc'
  <1>1. id_reg_inst' = BUBBLE /\ (~mem_stall_flg => exe_reg'.inst = BUBBLE)
    BY DEF Clock, DecodeEdge, ExecuteEdge, id_inst
  <1> QED BY <1>1 DEF BehindMem, BehindExe, InFlight, BUBBLE

(* What follows the instruction in the execute stage is, once it has moved *)
(* on, the instruction that the machine executes after it.                 *)
LEMMA NextFollows ==
  ASSUME SafePrograms, FlowInv, Clock, ~mem_stall_flg, InFlight(exe_reg.inst)
  PROVE  ~exe_mret => BehindMem' = NextPc(ArchRegs', Vector', exe_reg.inst, exe_reg_pc)
  <1> SUFFICES ASSUME ~exe_mret
               PROVE  BehindMem' = NextPc(ArchRegs', Vector', exe_reg.inst, exe_reg_pc)
    OBVIOUS
  <1> DEFINE i == exe_reg.inst
  <1>1. /\ Operand1(ArchRegs', i, exe_reg_pc) = exe_reg.op1_data
        /\ Operand2(ArchRegs', i) = exe_reg.op2_data
    BY OperandsStay DEF FlowInv
  <1>2. Branches \cap {"JAL", "JALR"} = {} /\ i.op \in Opcodes
    BY DEF Branches, FlowInv, PipelineInv, TypeOK, Instr
  <1>3. CASE exe_jmp_flg
    <2>1. i.op \in {"JAL", "JALR"} /\ ~exe_br_flg
      BY <1>2, <1>3, Redirects
    <2>2. CSignals[i.op].exe_fun \in AluFuns
      BY <1>2, <2>1, OpClasses
    <2>3. if_reg_pc' = AluOut(CSignals[i.op].exe_fun, exe_reg.op1_data, exe_reg.op2_data)
      BY <1>3, <2>1, <2>2 DEF Clock, FetchEdge, exe_alu_out, exe
    <2> QED BY <1>1, <1>3, <2>1, <2>3, JumpFlushes DEF NextPc
  <1>4. CASE exe_br_flg
    <2>1. if_reg_pc' = exe_reg_pc (+) i.imm
      BY <1>4, Redirects DEF Clock, FetchEdge
    <2> QED BY <1>1, <1>2, <1>4, <2>1, Redirects, JumpFlushes DEF NextPc
  <1>5. CASE ~exe_jmp_flg /\ ~exe_br_flg
    <2>1. BehindExe = After(Vector, i, exe_reg_pc)
      BY <1>5 DEF FlowInv, ProgramOrder
    <2>2. i.op = "ECALL" => Vector' = Vector
      BY VectorStays
    <2>3. BehindExe = After(Vector', i, exe_reg_pc)
      BY <2>1, <2>2 DEF After
    <2> QED BY <1>1, <1>5, <2>3, Redirects, BehindShifts DEF NextPc
  <1> QED BY <1>3, <1>4, <1>5

(* A clock edge keeps the instructions in program order. *)
LEMMA StepOrder == SafePrograms /\ FlowInv /\ Clock => ProgramOrder'
  <1> SUFFICES ASSUME SafePrograms, FlowInv, Clock PROVE ProgramOrder'
    OBVIOUS
  <1> DEFINE redirect == exe_jmp_flg \/ exe_br_flg
  <1>1. ~interrupt_in' /\ ~exe_reg_has_pending_interrupt'
    <2>1. ~id_has_pending_interrupt
      BY DEF FlowInv, ProgramOrder, id_has_pending_interrupt
    <2> QED BY <2>1 DEF Clock, Inputs, ExecuteEdge, SafePrograms
  <1>2. prog' = prog
    BY DEF Clock
  <1>3. InFlight(id_reg_inst') =>
          id_reg_inst' = prog'[id_reg_pc'] /\ if_reg_pc' = After(Vector', id_reg_inst', id_reg_pc')
    <2>1. CASE redirect
      BY <2>1, JumpFlushes
    <2>2. CASE ~redirect /\ stall_flg
      <3>1. id_reg_inst.op # "ECALL"
        BY <2>2, NothingStalls, InTheCore
      <3> QED BY <1>2, <2>2, <3>1, FrontStays DEF FlowInv, ProgramOrder, After
    <2>3. CASE ~redirect /\ ~stall_flg
      BY <1>2, <2>3, FrontMoves
    <2> QED BY <2>1, <2>2, <2>3
  <1>4. \A i \in {id_reg_inst', exe_reg'.inst, mem_reg'.inst} : InFlight(i) \/ i = BUBBLE
    <2>1. InFlight(if_inst) \/ if_inst = BUBBLE
      BY InTheCore
    <2>2. id_reg_inst' \in {BUBBLE, id_reg_inst, if_inst}
      BY DEF Clock, DecodeEdge
    <2>3. exe_reg'.inst \in {exe_reg.inst, BUBBLE, id_reg_inst}
      BY DEF Clock, ExecuteEdge, id_inst
    <2>4. mem_reg'.inst \in {mem_reg.inst, exe_reg.inst}
      BY DEF Clock, MemoryEdge
    <2> QED BY <2>1, <2>2, <2>3, <2>4 DEF FlowInv, ProgramOrder
  <1>5. CASE mem_stall_flg
    <2>1. UNCHANGED <<exe_reg, exe_reg_pc, mem_reg>> /\ ArchRegs' = ArchRegs
      BY <1>5, StallKeepsRegs DEF Clock, ExecuteEdge, MemoryEdge, FlowInv, PipelineInv
    <2>2. stall_flg /\ exe' = exe
      BY <1>5, <2>1 DEF stall_flg, exe
    <2>3. ~redirect => BehindExe' = BehindExe
      BY <2>2, FrontStays DEF BehindExe
    <2>4. exe_jmp_flg' = exe_jmp_flg
      BY <2>2 DEF exe_jmp_flg
    <2>0. ~Traps(prog)
      BY <1>5, NothingStalls
    <2>5. redirect => (exe_jmp_flg \/ exe_br_flg)'
      <3>1. ~exe_reg_has_pending_interrupt /\ ~exe_mret
        BY <2>0, Redirects DEF FlowInv, ProgramOrder
      <3>2. exe_br_flg => exe_br_flg'
        BY <2>1, <2>2, <3>1 DEF exe_br_flg
      <3> QED BY <2>4, <3>2
    <2>6. redirect => InFlight(exe_reg.inst)
      BY Redirects
    <2>10. exe_reg.inst.op # "ECALL" /\ mem_reg.inst.op # "ECALL"
      BY <2>0, InTheCore
    <2>7. InFlight(exe_reg'.inst) =>
            /\ exe_reg'.inst = prog'[exe_reg_pc']
            /\ ~(exe_jmp_flg \/ exe_br_flg)' =>
                  BehindExe' = After(Vector', exe_reg'.inst, exe_reg_pc')
      BY <1>2, <2>1, <2>3, <2>5, <2>10 DEF FlowInv, ProgramOrder, After
    <2>8. BehindMem' = BehindMem
      BY <2>1, <2>3, <2>6 DEF BehindMem
    <2>9. InFlight(mem_reg'.inst) =>
            /\ mem_reg'.inst = prog'[mem_reg'.pc]
            /\ Pending(mem_reg'.inst) =>
                  BehindMem' = NextPc(ArchRegs', Vector', mem_reg'.inst, mem_reg'.pc)
      BY <1>2, <2>1, <2>8, <2>10 DEF FlowInv, ProgramOrder, NextPc, After
    <2> QED BY <1>1, <1>3, <1>4, <2>7, <2>9 DEF ProgramOrder
  <1>6. CASE ~mem_stall_flg
    <2>1. exe_reg'.inst = id_inst /\ mem_reg'.inst = exe_reg.inst /\ mem_reg'.pc = exe_reg_pc
      BY <1>6 DEF Clock, ExecuteEdge, MemoryEdge
    <2>2. InFlight(exe_reg'.inst) =>
            /\ exe_reg'.inst = prog'[exe_reg_pc']
            /\ BehindExe' = After(Vector', exe_reg'.inst, exe_reg_pc')
      <3> SUFFICES ASSUME InFlight(id_inst)
                   PROVE  /\ id_inst = prog[exe_reg_pc']
                          /\ BehindExe' = After(Vector', id_inst, exe_reg_pc')
        BY <1>2, <2>1
      <3>1. id_inst = id_reg_inst /\ ~redirect /\ ~stall_flg
        BY DEF id_inst, InFlight, BUBBLE
      <3>2. exe_reg_pc' = id_reg_pc
        BY <1>6, <3>1 DEF Clock, ExecuteEdge
      <3>3. BehindExe' = if_reg_pc
        BY <3>1, FrontMoves
      <3>4. id_inst.op = "ECALL" => Vector' = Vector
        BY <3>1, VectorStays
      <3> QED BY <3>1, <3>2, <3>3, <3>4 DEF FlowInv, ProgramOrder, After
    <2>3. InFlight(mem_reg'.inst) =>
            /\ mem_reg'.inst = prog'[mem_reg'.pc]
            /\ Pending(mem_reg'.inst) =>
                  BehindMem' = NextPc(ArchRegs', Vector', mem_reg'.inst, mem_reg'.pc)
      BY <1>2, <1>6, <2>1, NextFollows, Redirects DEF FlowInv, ProgramOrder, Pending
    <2> QED BY <1>1, <1>3, <1>4, <2>2, <2>3 DEF ProgramOrder
  <1> QED BY <1>5, <1>6

(* A clock edge keeps the instructions of a program with traps apart. *)
LEMMA StepApart == SafePrograms /\ FlowInv /\ Clock => TrapsApart'
  <1> SUFFICES ASSUME SafePrograms, FlowInv, Clock, Traps(prog)
               PROVE  /\ ApartFrom(if_inst', id_reg_inst')
                      /\ ApartFrom(id_reg_inst', exe_reg'.inst)
                      /\ ApartFrom(exe_reg'.inst, mem_reg'.inst)
    BY DEF TrapsApart, Clock
  <1> DEFINE redirect == exe_jmp_flg \/ exe_br_flg
  <1>1. ~mem_stall_flg /\ ~stall_flg
    BY NothingStalls
  <1>2. id_reg_inst' = IF redirect THEN BUBBLE ELSE if_inst
    BY <1>1 DEF Clock, DecodeEdge
  <1>3. exe_reg'.inst = IF redirect THEN BUBBLE ELSE id_reg_inst
    BY <1>1 DEF Clock, ExecuteEdge, id_inst
  <1>4. mem_reg'.inst = exe_reg.inst
    BY <1>1 DEF Clock, MemoryEdge
  <1>5. ~InFlight(BUBBLE)
    BY DEF InFlight, BUBBLE
  <1>6. ApartFrom(if_inst', id_reg_inst')
    <2> SUFFICES ASSUME InFlight(if_inst'), InFlight(id_reg_inst')
                 PROVE  if_inst'.op = "ECALL" /\ id_reg_inst'.op = "ECALL"
      BY DEF ApartFrom
    <2>1. id_reg_inst' = if_inst /\ ~redirect
      BY <1>2, <1>5
    <2>2. imem_valid /\ if_inst = prog[if_reg_pc]
      BY <1>5, <2>1, InTheCore
    <2>3. if_inst' = prog[if_reg_pc'] /\ if_reg_pc = if_reg_pc'
      <3>1. if_inst' = IF fetched' = if_reg_pc' THEN prog'[if_reg_pc'] ELSE BUBBLE
        BY DEF if_inst, imem_valid
      <3>2. fetched' = if_reg_pc /\ prog' = prog
        BY DEF Clock, FetchEdge
      <3> QED BY <1>5, <3>1, <3>2
    <2>4. if_inst.op = "ECALL"
      <3> SUFFICES ASSUME if_inst.op # "ECALL" PROVE FALSE
        OBVIOUS
      <3>1. if_reg_pc' = if_reg_pc (+) 1
        BY <1>1, <2>1, <2>2 DEF Clock, FetchEdge
      <3>2. if_reg_pc \in 0 .. NWords - 1 /\ NWords \in Nat /\ NWords > 1
        BY NWordsAssumption DEF FlowInv, PipelineInv, TypeOK, Word, SafePrograms
      <3>3. (if_reg_pc + 1) % NWords # if_reg_pc
        <4>1. CASE if_reg_pc + 1 < NWords
          BY <3>2, <4>1
        <4>2. CASE if_reg_pc + 1 = NWords
          <5>1. NWords % NWords = 0
            BY <3>2
          <5> QED BY <3>2, <4>2, <5>1
        <4> QED BY <3>2, <4>1, <4>2
      <3> QED BY <2>3, <3>1, <3>3 DEF (+)
    <2> QED BY <2>1, <2>2, <2>3, <2>4
  <1>7. ApartFrom(id_reg_inst', exe_reg'.inst)
    BY <1>2, <1>3, <1>5 DEF ApartFrom, FlowInv, TrapsApart
  <1>8. ApartFrom(exe_reg'.inst, mem_reg'.inst)
    BY <1>3, <1>4, <1>5 DEF ApartFrom, FlowInv, TrapsApart
  <1> QED BY <1>6, <1>7, <1>8

(* A clock edge keeps the answer on the bus that of the load being asked. *)
LEMMA StepLoad == FlowInv /\ Clock => LoadAnswered'
  <1> SUFFICES ASSUME FlowInv, Clock PROVE LoadAnswered'
    OBVIOUS
  <1>1. device' \in DevReplies
    BY DEF Clock, Inputs
  <1>2. ASSUME rvalid'
        PROVE  (dmem_ren /\ ~ToDevice /\ ram_rdata = dmem[mem_reg.alu_out])'
    <2>1. dmem_ren /\ ~ToDevice /\ ~rvalid
      BY <1>2 DEF Clock, RamEdge
    <2>2. mem_stall_flg
      BY <2>1 DEF mem_stall_flg, dmem_rvalid
    <2>3. mem_reg' = mem_reg
      BY <2>2 DEF Clock, MemoryEdge
    <2>4. ~mem.mem_wen
      <3>1. mem_reg.inst.op \in Loads
        BY <2>1, OpClasses DEF dmem_ren, mem, FlowInv, PipelineInv, TypeOK, Instr
      <3> QED BY <3>1 DEF mem, CSignals, Loads, Stores, Opcodes
    <2>5. dmem' = dmem /\ ram_rdata' = dmem[mem_reg.alu_out]
      BY <2>1, <2>4 DEF Clock, RamEdge
    <2> QED BY <2>1, <2>3, <2>5 DEF dmem_ren, ToDevice, mem
  <1> QED BY <1>1, <1>2 DEF LoadAnswered
-----------------------------------------------------------------------------
(* What the step that retires an instruction does to the machine's state. *)

(* The next instruction is the one behind, or the one returned to. *)
LEMMA PcStep ==
  ASSUME SafePrograms, FlowInv, Clock, ~mem_stall_flg
  PROVE  ArchPc' = IF Pending(mem_reg.inst)
                   THEN NextPc(ArchRegs, Vector, mem_reg.inst, mem_reg.pc)
                   ELSE IF exe_mret THEN csr.word["mepc"] ELSE ArchPc
  <1>1. mem_reg'.inst = exe_reg.inst /\ mem_reg'.pc = exe_reg_pc
    BY DEF Clock, MemoryEdge
  <1>2. ~exe_mret => ArchPc' = BehindMem
    <2> SUFFICES ASSUME ~exe_mret PROVE ArchPc' = BehindMem
      OBVIOUS
    <2>1. exe_reg.inst.op # "MRET"
      BY Redirects
    <2>2. CASE InFlight(exe_reg.inst)
      BY <1>1, <2>1, <2>2 DEF ArchPc, BehindMem, Pending
    <2>3. CASE ~InFlight(exe_reg.inst)
      <3>1. ~exe_jmp_flg /\ ~exe_br_flg
        BY <2>3, Redirects
      <3>2. ArchPc' = BehindMem'
        BY <1>1, <2>3 DEF ArchPc, BehindMem, BehindExe, Pending
      <3> QED BY <2>3, <3>1, <3>2, BehindShifts DEF BehindMem
    <2> QED BY <2>2, <2>3
  <1>3. exe_mret => ArchPc' = csr.word["mepc"]
    <2> SUFFICES ASSUME exe_mret PROVE ArchPc' = csr.word["mepc"]
      OBVIOUS
    <2>1. exe_reg.inst.op = "MRET" /\ exe_br_flg /\ exe_br_target = csr.word["mepc"]
      BY Redirects
    <2>2. if_reg_pc' = csr.word["mepc"]
      BY <2>1 DEF Clock, FetchEdge
    <2>3. BehindMem' = if_reg_pc'
      BY <2>1, JumpFlushes
    <2>4. ArchPc' = BehindMem'
      BY <1>1, <2>1 DEF ArchPc, BehindMem, BehindExe, Pending
    <2> QED BY <2>2, <2>3, <2>4
  <1>4. ~Pending(mem_reg.inst) => ArchPc = BehindMem
    BY DEF ArchPc, BehindMem, BehindExe
  <1>5. Pending(mem_reg.inst) => BehindMem = NextPc(ArchRegs, Vector, mem_reg.inst, mem_reg.pc)
    BY DEF FlowInv, ProgramOrder, Pending
  <1>6. Pending(mem_reg.inst) => ~exe_mret
    BY Redirects
  <1> QED BY <1>2, <1>3, <1>4, <1>5, <1>6

(* Its destination gets the result. *)
LEMMA RegsStep ==
  ASSUME SafePrograms, FlowInv, Clock, ~mem_stall_flg
  PROVE  ArchRegs' = IF mem.rf_wen /\ mem_reg.inst.rd # 0
                     THEN [ArchRegs EXCEPT ![mem_reg.inst.rd] = mem_wb_data] ELSE ArchRegs
  <1> DEFINE after == IF mem.rf_wen /\ mem_reg.inst.rd # 0
                      THEN [ArchRegs EXCEPT ![mem_reg.inst.rd] = mem_wb_data] ELSE ArchRegs
  <1>1. TypeOK
    BY DEF FlowInv, PipelineInv
  <1>2. ASSUME NEW r \in Reg PROVE ArchRegs'[r] = after[r]
    <2>1. ArchRegs'[r] = id_rs_data(r)
      BY <1>1, DecodeReadsNext
    <2>2. CASE r # 0 /\ mem.rf_wen /\ mem_reg.inst.rd = r
      <3>1. after[r] = mem_wb_data
        BY <2>2 DEF ArchRegs
      <3> QED BY <2>1, <2>2, <3>1 DEF id_rs_data
    <2>3. CASE ~(r # 0 /\ mem.rf_wen /\ mem_reg.inst.rd = r)
      <3>1. after[r] = ArchRegs[r]
        BY <2>3 DEF ArchRegs
      <3> QED BY <2>1, <2>3, <3>1, ArchAt DEF id_rs_data
    <2> QED BY <2>2, <2>3
  <1>3. ArchRegs' = [r \in Reg |-> ArchRegs'[r]] /\ ArchRegs = [r \in Reg |-> ArchRegs[r]]
    BY DEF ArchRegs
  <1>4. after = [r \in Reg |-> after[r]]
    BY <1>3
  <1> HIDE DEF after
  <1>5. ArchRegs' = after
    BY <1>2, <1>3, <1>4
  <1> QED BY <1>5 DEF after

(* Only a CSR instruction, an ECALL and an MRET change a CSR. *)
LEMMA CsrStep ==
  ASSUME SafePrograms, FlowInv, Clock
  PROVE  csr' = IF mem_reg.inst.op \in CsrOps
                THEN CsrWrite(csr, mem_reg.inst.csr,
                              CsrWdata(mem_reg.inst.op,
                                       CsrRead(csr, mem_reg.inst.csr, interrupt_in),
                                       mem_reg.op1_data))
                ELSE IF mem_reg.inst.op = "ECALL" THEN [csr EXCEPT !.word["mcause"] = CauseEcall]
                ELSE IF exe_mret THEN [csr EXCEPT !.mie = csr.mpie] ELSE csr
  <1>1. mem.csr_cmd <=> mem_reg.inst.op \in CsrOps \cup {"ECALL"}
    BY DEF mem, CSignals, FlowInv, PipelineInv, TypeOK, Instr
  <1>2. "ECALL" \notin CsrOps /\ CsrOps \cap {"MRET", "BUBBLE"} = {}
    BY DEF CsrOps, CsrRegOps, CsrImmOps
  <1>3. CsrAfterExe = IF exe_mret THEN [csr EXCEPT !.mie = csr.mpie] ELSE csr
    BY DEF CsrAfterExe, FlowInv, ProgramOrder
  <1>4. mem_reg.inst.op \in CsrOps \cup {"ECALL"} => ~exe_mret
    BY <1>2, Redirects DEF Pending, InFlight
  <1>5. /\ csr' = IF mem.csr_cmd THEN CsrWrite(CsrOverridden, mem_csr_addr, csr_wdata)
                  ELSE CsrAfterExe
        /\ ~exe_mret => CsrOverridden = csr
    <2>1. csr \in CsrFile
      BY DEF FlowInv, PipelineInv, TypeOK
    <2>2. [csr EXCEPT !.mie = csr.mie, !.mpie = csr.mpie] = csr
      BY <2>1 DEF CsrFile
    <2> QED BY <1>3, <2>2 DEF Clock, CsrEdge, CsrOverridden
  <1>6. CASE mem_reg.inst.op \in CsrOps
    BY <1>1, <1>2, <1>3, <1>4, <1>5, <1>6 DEF csr_wdata, csr_rdata, mem_csr_addr
  <1>7. CASE mem_reg.inst.op = "ECALL"
    <2>1. mem_csr_addr = "mcause" /\ csr_wdata = CauseEcall
      BY <1>7 DEF mem_csr_addr, csr_wdata, CsrWdata
    <2>2. CsrWrite(csr, "mcause", CauseEcall) = [csr EXCEPT !.word["mcause"] = CauseEcall]
      BY DEF CsrWrite, WordCsrs
    <2> QED BY <1>1, <1>2, <1>3, <1>4, <1>5, <1>7, <2>1, <2>2
  <1>8. CASE mem_reg.inst.op \notin CsrOps \cup {"ECALL"}
    BY <1>1, <1>3, <1>5, <1>8
  <1> QED BY <1>6, <1>7, <1>8

(* Only a store to the RAM changes the data memory. *)
LEMMA RamStep ==
  ASSUME SafePrograms, FlowInv, Clock
  PROVE  dmem' = IF mem_reg.inst.op \in Stores /\ ~ToDevice
                 THEN [dmem EXCEPT ![mem_reg.alu_out] = mem_reg.rs2_data] ELSE dmem
  <1>1. mem.mem_wen <=> mem_reg.inst.op \in Stores
    BY DEF mem, CSignals, FlowInv, PipelineInv, TypeOK, Instr
  <1> QED BY <1>1 DEF Clock, RamEdge

-----------------------------------------------------------------------------
(* Each clock edge is a step of the machine or none. *)

(* The machine's vocabulary is the core's. *)
LEMMA SameWords ==
  /\ Machine!Word = Word /\ Machine!Reg = Reg
  /\ Machine!Loads = Loads /\ Machine!Stores = Stores
  /\ Machine!RegOps = RegOps /\ Machine!ImmOps = ImmOps
  /\ Machine!Branches = Branches /\ Machine!CsrOps = CsrOps /\ Machine!CsrRegOps = CsrRegOps
  /\ Machine!AluFun = AluFun
  /\ Machine!Instr = Instr /\ Machine!CsrFile = CsrFile
  /\ \A a, b : Machine!(+)(a, b) = a (+) b
  /\ \A c, name, b : Machine!CsrRead(c, name, b) = CsrRead(c, name, b)
  /\ \A c, name, w : Machine!CsrWrite(c, name, w) = CsrWrite(c, name, w)
  /\ \A op, old, w : Machine!CsrWdata(op, old, w) = CsrWdata(op, old, w)
  <1>1. Machine!Word = Word /\ Machine!Reg = Reg
    BY DEF Word, Reg, Machine!Word, Machine!Reg
  <1>2. /\ Machine!Loads = Loads /\ Machine!Stores = Stores
        /\ Machine!RegOps = RegOps /\ Machine!ImmOps = ImmOps
        /\ Machine!Branches = Branches /\ Machine!CsrRegOps = CsrRegOps
        /\ Machine!CsrImmOps = CsrImmOps /\ Machine!WordCsrs = WordCsrs
    BY DEF Loads, Stores, RegOps, ImmOps, Branches, CsrRegOps, CsrImmOps, WordCsrs,
           Machine!Loads, Machine!Stores, Machine!RegOps, Machine!ImmOps, Machine!Branches,
           Machine!CsrRegOps, Machine!CsrImmOps, Machine!WordCsrs
  <1>3. Machine!CsrOps = CsrOps /\ Machine!CsrNames = CsrNames
    BY <1>2 DEF CsrOps, Machine!CsrOps, CsrNames, Machine!CsrNames
  <1>4. Machine!AluFun = AluFun
    BY <1>2 DEF AluFun, Machine!AluFun
  <1>5. Machine!Opcodes = Opcodes
    BY <1>2, <1>3 DEF Opcodes, Machine!Opcodes
  <1>6. Machine!Instr = Instr /\ Machine!CsrFile = CsrFile
    BY <1>1, <1>2, <1>3, <1>5 DEF Instr, Machine!Instr, CsrFile, Machine!CsrFile
  <1>7. \A a, b : Machine!(+)(a, b) = a (+) b
    BY DEF (+), Machine!(+)
  <1>8. \A c, name, b : Machine!CsrRead(c, name, b) = CsrRead(c, name, b)
    BY <1>2 DEF CsrRead, Machine!CsrRead, ToBit, Machine!ToBit
  <1>9. \A c, name, w : Machine!CsrWrite(c, name, w) = CsrWrite(c, name, w)
    BY <1>2 DEF CsrWrite, Machine!CsrWrite, Bit, Machine!Bit
  <1>10. \A op, old, w : Machine!CsrWdata(op, old, w) = CsrWdata(op, old, w)
    BY DEF CsrWdata, Machine!CsrWdata
  <1> QED BY <1>1, <1>2, <1>3, <1>4, <1>6, <1>7, <1>8, <1>9, <1>10
(* The operands and the function of each class of instructions. *)
LEMMA OperandsOf ==
  ASSUME NEW regs, NEW i \in Instr, NEW pc
  PROVE  /\ i.op \in RegOps \cup ImmOps \cup Loads \cup Stores \cup Branches \cup {"JALR"} =>
               Operand1(regs, i, pc) = regs[i.rs1]
         /\ i.op \in CsrRegOps => Operand1(regs, i, pc) = regs[i.rs1]
         /\ i.op \in CsrImmOps => Operand1(regs, i, pc) = i.rs1 % NWords
         /\ i.op \in {"JAL", "AUIPC"} => Operand1(regs, i, pc) = pc
         /\ i.op = "LUI" => Operand1(regs, i, pc) = 0
         /\ i.op \in RegOps \cup Branches => Operand2(regs, i) = regs[i.rs2]
         /\ i.op \in ImmOps \cup Loads \cup Stores \cup {"JAL", "JALR", "LUI", "AUIPC"} =>
               Operand2(regs, i) = i.imm
  <1>1. CSignals[i.op].op1_sel = CASE i.op \in CsrImmOps        -> "IMZ"
                                   [] i.op \in {"JAL", "AUIPC"} -> "PC"
                                   [] i.op \in {"LUI", "ECALL"} -> "X"
                                   [] OTHER                     -> "RS1"
    BY DEF CSignals, Instr
  <1>2. CSignals[i.op].op2_sel =
          CASE i.op \in RegOps \cup Branches \cup {"MRET", "ILLEGAL"} -> "RS2"
            [] i.op \in CsrOps \cup {"ECALL"} -> "X"
            [] OTHER                          -> "IMM"
    BY DEF CSignals, Instr
  <1>3. /\ i.op \in RegOps \cup ImmOps \cup Loads \cup Stores \cup Branches \cup CsrRegOps \cup {"JALR"} =>
              CSignals[i.op].op1_sel = "RS1"
        /\ i.op \in CsrImmOps => CSignals[i.op].op1_sel = "IMZ"
        /\ i.op \in {"JAL", "AUIPC"} => CSignals[i.op].op1_sel = "PC"
        /\ i.op = "LUI" => CSignals[i.op].op1_sel = "X"
    BY <1>1 DEF RegOps, ImmOps, Loads, Stores, Branches, CsrRegOps, CsrImmOps
  <1>4. /\ i.op \in RegOps \cup Branches => CSignals[i.op].op2_sel = "RS2"
        /\ i.op \in ImmOps \cup Loads \cup Stores \cup {"JAL", "JALR", "LUI", "AUIPC"} =>
              CSignals[i.op].op2_sel = "IMM"
    BY <1>2 DEF RegOps, ImmOps, Loads, Stores, Branches, CsrRegOps, CsrImmOps, CsrOps
  <1> QED BY <1>3, <1>4 DEF Operand1, Operand2

(* The ALU function of each class. *)
LEMMA FunctionOf ==
  ASSUME NEW op \in Opcodes
  PROVE  /\ op \in RegOps \cup ImmOps => CSignals[op].exe_fun = AluFun[op]
         /\ op = "JALR" => CSignals[op].exe_fun = "JALR"
         /\ op \in Loads \cup Stores \cup {"JAL", "LUI", "AUIPC"} => CSignals[op].exe_fun = "ADD"
         /\ CSignals[op].rf_wen <=> op \notin Stores \cup Branches \cup {"ECALL", "MRET", "ILLEGAL"}
  <1>1. CSignals[op].exe_fun =
           CASE op \in RegOps \cup ImmOps -> AluFun[op]
             [] op \in Branches           -> op
             [] op \in CsrOps             -> "COPY1"
             [] op = "JALR"               -> "JALR"
             [] op \in {"ECALL", "MRET", "ILLEGAL"} -> "X"
             [] OTHER                     -> "ADD"
    BY DEF CSignals
  <1>2. CASE op \in RegOps \cup ImmOps
    <2>1. op \notin Branches \cup CsrOps \cup {"JAL", "JALR", "LUI", "AUIPC", "ECALL", "MRET", "ILLEGAL"}
                      \cup Loads \cup Stores
      BY <1>2 DEF RegOps, ImmOps, Branches, CsrOps, CsrRegOps, CsrImmOps, Loads, Stores
    <2> QED BY <1>1, <1>2, <2>1 DEF CSignals
  <1>3. CASE op \notin RegOps \cup ImmOps
    <2>1. /\ op = "JALR" => op \notin Branches \cup CsrOps
          /\ op \in Loads \cup Stores \cup {"JAL", "LUI", "AUIPC"} =>
                op \notin Branches \cup CsrOps \cup {"JALR", "ECALL", "MRET", "ILLEGAL"}
      BY DEF Branches, CsrOps, CsrRegOps, CsrImmOps, Loads, Stores
    <2> QED BY <1>1, <1>3, <2>1 DEF CSignals
  <1> QED BY <1>2, <1>3

(* An instruction that leaves the memory stage is executed by the machine. *)
LEMMA Retires ==
  ASSUME SafePrograms, FlowInv, Clock, ~mem_stall_flg, Pending(mem_reg.inst)
  PROVE  Machine!Next
  <1> DEFINE i  == mem_reg.inst
             pc == mem_reg.pc
             op1 == Operand1(ArchRegs, i, pc)
             op2 == Operand2(ArchRegs, i)
  <1>1. TypeOK /\ i \in Instr /\ i.op \in Opcodes /\ pc \in Word /\ i.imm \in Word
    BY DEF FlowInv, PipelineInv, TypeOK, Instr
  <1>2. i.rd \in Reg /\ i.rs1 \in Reg /\ i.rs2 \in Reg
    BY <1>1 DEF Instr
  <1>3. ArchRegs \in [Reg -> Word]
    BY <1>1, ZeroType DEF ArchRegs, TypeOK
  <1>4. ArchPc = pc /\ Machine!instr = i /\ prog' = prog
    BY DEF ArchPc, Machine!instr, FlowInv, ProgramOrder, Clock, Pending
  <1>5. ArchPc' = NextPc(ArchRegs, Vector, i, pc) /\ ~exe_mret
    BY PcStep, Redirects
  <1>6. i.op \notin Branches \cup {"JAL", "JALR", "ECALL"} => Machine!Advance
    BY <1>4, <1>5, SameWords DEF Machine!Advance, NextPc, After
  <1>7. mem.rf_wen => Machine!SetReg(i.rd, mem_wb_data)
    BY RegsStep DEF Machine!SetReg
  <1>8. ~mem.rf_wen => ArchRegs' = ArchRegs
    BY RegsStep
  <1>9. i.op \notin CsrOps \cup {"ECALL"} => csr' = csr
    BY <1>5, CsrStep
  <1>10. i.op \notin Stores => dmem' = dmem
    BY RamStep
  <1>11. mem_reg.op1_data = op1 /\ mem_reg.rs2_data = ArchRegs[i.rs2]
    BY DEF FlowInv, PipelineInv, ResultsCurrent
  <1>12. i.op \notin Branches => mem_reg.alu_out = AluOut(mem.exe_fun, op1, op2)
    BY <1>1, OpClasses DEF FlowInv, PipelineInv, ResultsCurrent, Pending, InFlight, mem
  <1>13. i.op \notin Loads \cup CsrOps \cup {"JAL", "JALR"} => mem_wb_data = mem_reg.alu_out
    BY <1>1, OpClasses DEF mem_wb_data, mem
  <1>20. CASE i.op \in RegOps \cup ImmOps
    <2>1. i.op \notin Branches \cup Loads \cup Stores \cup CsrOps
                        \cup {"JAL", "JALR", "ECALL", "MRET", "ILLEGAL"}
      BY <1>20 DEF RegOps, ImmOps, Branches, Loads, Stores, CsrOps, CsrRegOps, CsrImmOps
    <2>2. mem_wb_data = AluOut(AluFun[i.op], op1, op2) /\ mem.rf_wen
      BY <1>1, <1>12, <1>13, <1>20, <2>1, FunctionOf DEF mem
    <2>3. op1 = ArchRegs[i.rs1] /\ op2 = IF i.op \in RegOps THEN ArchRegs[i.rs2] ELSE i.imm
      BY <1>1, <1>20, OperandsOf
    <2>4. op2 \in Word
      BY <1>1, <1>2, <1>3, <2>3
    <2>5. Machine!Arith
      BY <1>4, <1>6, <1>7, <1>9, <1>10, <1>20, <2>1, <2>2, <2>3, <2>4, SameWords
         DEF Machine!Arith
    <2> QED BY <2>5 DEF Machine!Next
  <1>21. CASE i.op \in {"LUI", "AUIPC"}
    <2>1. i.op \notin Branches \cup Loads \cup Stores \cup CsrOps
                        \cup {"JAL", "JALR", "ECALL", "MRET", "ILLEGAL"}
      BY <1>21 DEF Branches, Loads, Stores, CsrOps, CsrRegOps, CsrImmOps
    <2>2. mem_wb_data = AluOut("ADD", op1, op2) /\ mem.rf_wen
      BY <1>1, <1>12, <1>13, <1>21, <2>1, FunctionOf DEF mem
    <2>3. op2 = i.imm /\ (i.op = "LUI" => op1 = 0) /\ (i.op = "AUIPC" => op1 = pc)
      BY <1>1, <1>21, OperandsOf
    <2>4. mem_wb_data = IF i.op = "LUI" THEN i.imm ELSE pc (+) i.imm
      <3>1. mem_wb_data = op1 (+) i.imm
        BY <1>1, <1>21, <2>2, <2>3, ZeroType, AddAssumption
      <3>2. 0 (+) i.imm = i.imm
        BY <1>1, NWordsAssumption DEF (+), Word
      <3> QED BY <1>21, <2>3, <3>1, <3>2
    <2>5. Machine!Upper
      BY <1>4, <1>6, <1>7, <1>9, <1>10, <1>21, <2>1, <2>2, <2>4, SameWords DEF Machine!Upper
    <2> QED BY <2>5 DEF Machine!Next
  <1>22. i.op \in Loads \cup Stores => mem_reg.alu_out = Machine!DataAddr
    <2> SUFFICES ASSUME i.op \in Loads \cup Stores PROVE mem_reg.alu_out = Machine!DataAddr
      OBVIOUS
    <2>1. i.op \notin Branches
      BY DEF Loads, Stores, Branches
    <2>2. op1 = ArchRegs[i.rs1] /\ op2 = i.imm /\ op1 \in Word
      BY <1>1, <1>2, <1>3, OperandsOf
    <2>3. mem_reg.alu_out = op1 (+) op2
      BY <1>1, <1>12, <2>1, <2>2, FunctionOf, AddAssumption DEF mem
    <2> QED BY <1>4, <2>2, <2>3, SameWords DEF Machine!DataAddr
  <1>23. CASE i.op \in Loads
    <2>1. i.op \notin Branches \cup Stores \cup CsrOps
                        \cup {"JAL", "JALR", "ECALL", "MRET", "ILLEGAL"}
      BY <1>23 DEF Branches, Loads, Stores, CsrOps, CsrRegOps, CsrImmOps
    <2>2. mem.wb_sel = "MEM" /\ mem.rf_wen
      BY <1>1, <1>23, <2>1, OpClasses, FunctionOf DEF mem
    <2>3. mem_wb_data = dmem_rdata
      BY <2>2 DEF mem_wb_data
    <2>4. dmem_rvalid
      BY <2>2 DEF mem_stall_flg, dmem_ren
    <2>5. ToDevice => mem_wb_data \in DevWords
      BY <2>3 DEF dmem_rdata, DevWords, FlowInv, LoadAnswered
    <2>6. ~ToDevice => mem_wb_data = dmem[Machine!DataAddr]
      BY <1>22, <1>23, <2>3, <2>4 DEF dmem_rdata, dmem_rvalid, FlowInv, LoadAnswered
    <2>7. Machine!Load
      BY <1>4, <1>6, <1>7, <1>9, <1>10, <1>22, <1>23, <2>1, <2>2, <2>5, <2>6, SameWords
         DEF Machine!Load, ToDevice
    <2> QED BY <2>7 DEF Machine!Next
  <1>24. CASE i.op \in Stores
    <2>1. i.op \notin Branches \cup CsrOps \cup {"JAL", "JALR", "ECALL"}
      BY <1>24 DEF Branches, Stores, CsrOps, CsrRegOps, CsrImmOps
    <2>2. ~mem.rf_wen
      BY <1>1, <1>24, FunctionOf DEF mem
    <2>3. Machine!Store
      BY <1>4, <1>6, <1>8, <1>9, <1>11, <1>22, <1>24, <2>1, <2>2, RamStep, SameWords
         DEF Machine!Store, ToDevice
    <2> QED BY <2>3 DEF Machine!Next
  <1>25. CASE i.op \in Branches
    <2>1. i.op \notin Stores \cup CsrOps \cup {"JAL", "JALR", "ECALL"}
      BY <1>25 DEF Branches, Stores, CsrOps, CsrRegOps, CsrImmOps
    <2>2. ~mem.rf_wen
      BY <1>1, <1>25, FunctionOf DEF mem
    <2>3. op1 = ArchRegs[i.rs1] /\ op2 = ArchRegs[i.rs2]
      BY <1>1, <1>25, OperandsOf
    <2>4. ArchPc' = IF BrFlg(i.op, op1, op2) THEN pc (+) i.imm ELSE pc (+) 1
      BY <1>5, <1>25, <2>1 DEF NextPc, After
    <2>5. Machine!Branch
      BY <1>4, <1>8, <1>9, <1>10, <1>25, <2>1, <2>2, <2>3, <2>4, SameWords
         DEF Machine!Branch, Machine!Advance
    <2> QED BY <2>5 DEF Machine!Next
  <1>26. CASE i.op \in {"JAL", "JALR"}
    <2>1. i.op \notin Branches \cup Loads \cup Stores \cup CsrOps \cup {"ECALL", "MRET", "ILLEGAL"}
      BY <1>26 DEF Branches, Loads, Stores, CsrOps, CsrRegOps, CsrImmOps
    <2>2. mem_wb_data = pc (+) 1 /\ mem.rf_wen
      <3>1. mem.wb_sel = "PC" /\ mem.rf_wen
        BY <1>1, <1>26, <2>1, OpClasses, FunctionOf DEF mem
      <3> QED BY <3>1 DEF mem_wb_data
    <2>3. ArchPc' = AluOut(CSignals[i.op].exe_fun, op1, op2)
      BY <1>5, <1>26 DEF NextPc
    <2>4. op2 = i.imm
      BY <1>1, <1>26, OperandsOf
    <2>5. i.op = "JAL" => ArchPc' = pc (+) i.imm
      BY <1>1, <2>3, <2>4, OperandsOf, FunctionOf, AddAssumption
    <2>6. i.op = "JALR" => ArchPc' = AluOut("JALR", ArchRegs[i.rs1], i.imm)
      BY <1>1, <2>3, <2>4, OperandsOf, FunctionOf
    <2>7. Machine!Jump
      BY <1>4, <1>7, <1>9, <1>10, <1>26, <2>1, <2>2, <2>5, <2>6, SameWords DEF Machine!Jump
    <2> QED BY <2>7 DEF Machine!Next
  <1>27. CASE i.op \in CsrOps
    <2>1. i.op \notin Branches \cup Loads \cup Stores \cup {"JAL", "JALR", "ECALL", "MRET", "ILLEGAL"}
      BY <1>27 DEF Branches, Loads, Stores, CsrOps, CsrRegOps, CsrImmOps
    <2>2. mem_wb_data = csr_rdata /\ mem.rf_wen
      <3>1. mem.wb_sel = "CSR" /\ mem.rf_wen
        BY <1>1, <1>27, <2>1, OpClasses, FunctionOf DEF mem
      <3> QED BY <3>1 DEF mem_wb_data
    <2>3. csr_rdata = CsrRead(csr, i.csr, interrupt_in) /\ interrupt_in \in BOOLEAN
      BY <1>1, <2>1 DEF csr_rdata, mem_csr_addr, TypeOK
    <2>4. op1 = IF i.op \in CsrRegOps THEN ArchRegs[i.rs1] ELSE i.rs1 % NWords
      BY <1>1, <1>27, OperandsOf DEF CsrOps
    <2>5. csr' = CsrWrite(csr, i.csr, CsrWdata(i.op, csr_rdata, op1))
      BY <1>11, <1>27, <2>3, CsrStep
    <2>6. Machine!Csr
      BY <1>4, <1>6, <1>7, <1>10, <1>27, <2>1, <2>2, <2>3, <2>4, <2>5, SameWords
         DEF Machine!Csr
    <2> QED BY <2>6 DEF Machine!Next
  <1>28. CASE i.op = "ILLEGAL"
    <2>1. i.op \notin Branches \cup Stores \cup CsrOps \cup {"JAL", "JALR", "ECALL"}
      BY <1>28 DEF Branches, Stores, CsrOps, CsrRegOps, CsrImmOps
    <2>2. ~mem.rf_wen
      BY <1>1, <1>28, FunctionOf DEF mem
    <2>3. Machine!NoEffect
      BY <1>4, <1>6, <1>8, <1>9, <1>10, <1>28, <2>1, <2>2 DEF Machine!NoEffect
    <2> QED BY <2>3 DEF Machine!Next
  <1>29. CASE i.op = "ECALL"
    <2>1. i.op \notin Branches \cup Stores \cup CsrOps \cup {"JAL", "JALR"}
      BY <1>29 DEF Branches, Stores, CsrOps, CsrRegOps, CsrImmOps
    <2>2. ~mem.rf_wen
      BY <1>1, <1>29, FunctionOf DEF mem
    <2>3. ArchPc' = csr.word["mtvec"]
      BY <1>5, <1>29, <2>1 DEF NextPc, After, Vector
    <2>4. csr' = [csr EXCEPT !.word["mcause"] = CauseEcall]
      BY <1>29, <2>1, CsrStep
    <2>5. Machine!Ecall
      BY <1>4, <1>8, <1>10, <1>29, <2>1, <2>2, <2>3, <2>4 DEF Machine!Ecall
    <2> QED BY <2>5 DEF Machine!Next
  <1> QED
    BY <1>1, <1>20, <1>21, <1>23, <1>24, <1>25, <1>26, <1>27, <1>28, <1>29
    DEF Opcodes, Pending, InFlight

(* An MRET that leaves the execute stage is. *)
LEMMA Returns ==
  ASSUME SafePrograms, FlowInv, Clock, exe_mret
  PROVE  Machine!Next
  <1>1. exe_reg.inst.op = "MRET" /\ ~Pending(mem_reg.inst) /\ ~mem_stall_flg
    BY Redirects, NothingStalls
  <1>2. TypeOK /\ mem_reg.inst.op \in {"BUBBLE", "MRET"} /\ mem_reg.inst.op \in Opcodes
    BY <1>1 DEF FlowInv, PipelineInv, TypeOK, Instr, Pending, InFlight
  <1>3. mem_reg.inst.op \notin Stores \cup CsrOps \cup {"ECALL"}
    BY <1>2 DEF Stores, CsrOps, CsrRegOps, CsrImmOps
  <1>4. dmem' = dmem /\ csr' = [csr EXCEPT !.mie = csr.mpie]
    BY <1>3, CsrStep, RamStep
  <1>5. ArchPc' = csr.word["mepc"]
    BY <1>1, PcStep
  <1>6. ArchRegs' = ArchRegs
    <2>1. mem_reg.inst.op = "MRET" => ~mem.rf_wen
      BY <1>2, FunctionOf DEF mem
    <2>2. mem_reg.inst.op = "BUBBLE" => mem_reg.inst.rd = 0
      BY DEF FlowInv, ProgramOrder, InFlight, BUBBLE
    <2> QED BY <1>1, <1>2, <2>1, <2>2, RegsStep
  <1>7. InFlight(exe_reg.inst) /\ ArchPc = exe_reg_pc
    BY <1>1 DEF ArchPc, InFlight
  <1>8. Machine!instr.op = "MRET" /\ prog' = prog
    BY <1>1, <1>7 DEF Machine!instr, FlowInv, ProgramOrder, Clock
  <1>9. Machine!Mret
    BY <1>4, <1>5, <1>6, <1>8 DEF Machine!Mret
  <1> QED BY <1>9 DEF Machine!Next

(* In any other cycle a program sees no change. *)
LEMMA Waits ==
  ASSUME SafePrograms, FlowInv, Clock, mem_stall_flg \/ (~Pending(mem_reg.inst) /\ ~exe_mret)
  PROVE  UNCHANGED Machine!vars
  <1>1. mem_reg.inst.op \in Opcodes /\ TypeOK /\ prog' = prog
    BY DEF FlowInv, PipelineInv, TypeOK, Instr, Clock
  <1>2. CASE mem_stall_flg
    <2>1. mem_reg.inst.op \in Loads /\ ~exe_mret
      BY <1>1, <1>2, OpClasses, Redirects, NothingStalls DEF mem_stall_flg, dmem_ren, mem
    <2>2. mem_reg.inst.op \notin Stores \cup CsrOps \cup {"BUBBLE", "ECALL", "MRET"}
      BY <2>1 DEF Loads, Stores, CsrOps, CsrRegOps, CsrImmOps
    <2>3. dmem' = dmem /\ csr' = csr
      BY <2>1, <2>2, CsrStep, RamStep
    <2>4. ArchPc' = ArchPc
      BY <1>2, <2>2 DEF Clock, MemoryEdge, ArchPc, Pending, InFlight
    <2> QED BY <1>1, <1>2, <2>3, <2>4, StallKeepsRegs DEF Machine!vars
  <1>3. CASE ~mem_stall_flg /\ ~Pending(mem_reg.inst) /\ ~exe_mret
    <2>1. mem_reg.inst.op \in {"BUBBLE", "MRET"}
      BY <1>3 DEF Pending, InFlight
    <2>2. mem_reg.inst.op \notin Stores \cup CsrOps \cup {"ECALL"}
      BY <2>1 DEF Stores, CsrOps, CsrRegOps, CsrImmOps
    <2>3. dmem' = dmem /\ csr' = csr
      BY <1>3, <2>2, CsrStep, RamStep
    <2>4. ArchPc' = ArchPc
      BY <1>3, PcStep
    <2>5. ArchRegs' = ArchRegs
      <3>1. mem_reg.inst.op = "MRET" => ~mem.rf_wen
        BY <1>1, FunctionOf DEF mem
      <3>2. mem_reg.inst.op = "BUBBLE" => mem_reg.inst.rd = 0
        BY DEF FlowInv, ProgramOrder, InFlight, BUBBLE
      <3> QED BY <1>3, <2>1, <3>1, <3>2, RegsStep
    <2> QED BY <1>1, <2>3, <2>4, <2>5 DEF Machine!vars
  <1> QED BY <1>2, <1>3

(* The pipeline is in order after reset. *)
LEMMA InitFlow == SafePrograms /\ Init => FlowInv
  <1> SUFFICES ASSUME SafePrograms, Init PROVE FlowInv
    OBVIOUS
  <1>1. ~interrupt_in /\ ~exe_reg_has_pending_interrupt
    BY DEF Init, SafePrograms
  <1>2. id_reg_inst = BUBBLE /\ exe_reg.inst = BUBBLE /\ mem_reg.inst = BUBBLE
    BY DEF Init
  <1>3. ProgramOrder
    BY <1>1, <1>2 DEF ProgramOrder, InFlight, BUBBLE
  <1>4. LoadAnswered /\ prog \in Programs
    BY DEF Init, LoadAnswered
  <1>5. TrapsApart
    BY <1>2 DEF TrapsApart, ApartFrom, InFlight, BUBBLE
  <1> QED BY <1>3, <1>4, <1>5, InitPipeline DEF FlowInv

(* A clock edge keeps it so. *)
LEMMA StepFlow == SafePrograms /\ FlowInv /\ [Clock]_vars => FlowInv'
  <1> SUFFICES ASSUME SafePrograms, FlowInv, [Clock]_vars PROVE FlowInv'
    OBVIOUS
  <1>1. PipelineInv'
    BY StepPipeline DEF FlowInv
  <1>2. CASE Clock
    <2>1. prog' \in Programs
      BY <1>2 DEF Clock, FlowInv
    <2> QED BY <1>1, <1>2, <2>1, StepOrder, StepApart, StepLoad DEF FlowInv
  <1>3. CASE UNCHANGED vars
    <2>1. UNCHANGED <<prog, dmem, fetched, rvalid, ram_rdata, if_reg_pc, id_reg_pc, id_reg_inst, exe_reg,
                      exe_reg_pc, exe_reg_has_pending_interrupt, mem_reg, interrupt_in, device,
                      csr>>
          /\ ArchRegs' = ArchRegs
      BY <1>3 DEF vars, pipeVars, ramVars, ArchRegs
    <2>2. ProgramOrder'
      BY <2>1 DEF FlowInv, ProgramOrder, BehindMem, BehindExe, exe_jmp_flg, exe_br_flg, exe_mret,
                  exe, Vector
    <2>4. TrapsApart'
      BY <2>1 DEF FlowInv, TrapsApart, if_inst, imem_valid
    <2>3. LoadAnswered'
      BY <2>1 DEF FlowInv, LoadAnswered, dmem_ren, ToDevice, mem
    <2> QED BY <1>1, <2>1, <2>2, <2>3, <2>4 DEF FlowInv
  <1> QED BY <1>2, <1>3

(* The core's reset state is one of the machine. *)
LEMMA InitMachine == SafePrograms /\ Init => Machine!Init
  <1> SUFFICES ASSUME SafePrograms, Init PROVE Machine!Init
    OBVIOUS
  <1>1. TypeOK
    BY InitTypeOK
  <1>2. ArchRegs \in [Reg -> Word] /\ ArchRegs[0] = 0
    BY <1>1, ZeroType, ArchAt DEF ArchRegs, TypeOK
  <1>3. ArchPc \in Word
    BY <1>1 DEF ArchPc, TypeOK
  <1> QED BY <1>1, <1>2, <1>3, SameWords DEF Machine!Init, TypeOK

(***************************************************************************)
(* The core implements its instruction set: for every program that is      *)
(* TrapSafe, with or without traps, every memory and every behaviour of    *)
(* the devices, each clock edge executes the program's next instruction    *)
(* completely or changes nothing it can see.  Words, registers and         *)
(* arithmetic are any; the interrupt line is low.                          *)
(***************************************************************************)
THEOREM ProgramsExecuted == SafePrograms => (Spec => ImplementsIsa)
  <1> SUFFICES ASSUME SafePrograms PROVE Spec => ImplementsIsa
    OBVIOUS
  <1>1. Init => FlowInv
    BY InitFlow
  <1>2. FlowInv /\ [Clock]_vars => FlowInv'
    BY StepFlow
  <1>3. Init => Machine!Init
    BY InitMachine
  <1>4. FlowInv /\ [Clock]_vars => [Machine!Next]_(Machine!vars)
    <2> SUFFICES ASSUME FlowInv, [Clock]_vars PROVE [Machine!Next]_(Machine!vars)
      OBVIOUS
    <2>1. CASE Clock
      BY <2>1, Retires, Returns, Waits
    <2>2. CASE UNCHANGED vars
      BY <2>2 DEF vars, pipeVars, ramVars, Machine!vars, ArchPc, ArchRegs
    <2> QED BY <2>1, <2>2
  <1> QED BY <1>1, <1>2, <1>3, <1>4, PTL DEF Spec, ImplementsIsa, Machine!Spec

-----------------------------------------------------------------------------
(* Interrupts and their enable bits. *)

(***************************************************************************)
(* Software that sets bits of mstatus and mie but clears none: that is,    *)
(* CSRRS names them and nothing else does, OR keeps the bits it is given,  *)
(* and both bits of mstatus fit into a word.                               *)
(***************************************************************************)
EnablesOnlySet ==
    /\ \A p \in Programs : \A a \in Word : SetsEnables(p[a])
    /\ \A v, w \in Word : Bit(0, v) => Bit(0, AluOut("OR", v, w))
    /\ NWords >= 4

MaskInv == TypeOK /\ prog \in Programs /\ EnablesHeld

(* A CSR instruction that clears no enable leaves those set that are. *)
LEMMA WriteKeepsEnables ==
  ASSUME EnablesOnlySet, TypeOK, SetsEnables(mem_reg.inst), mem.csr_cmd,
         csr.mie, csr.meie, NEW c \in CsrFile, c.mie, c.meie
  PROVE  LET new == CsrWrite(c, mem_csr_addr, csr_wdata) IN new.mie /\ new.meie
  <1> DEFINE new == CsrWrite(c, mem_csr_addr, csr_wdata)
  <1>1. /\ csr \in CsrFile /\ interrupt_in \in BOOLEAN
        /\ mem_reg.inst \in Instr /\ mem_reg.op1_data \in Word
    BY DEF TypeOK
  <1>2. mem_reg.inst.op \in CsrOps \cup {"ECALL"}
    BY <1>1 DEF mem, CSignals, Instr
  <1>3. CASE mem_csr_addr \in {"mstatus", "mie"}
    <2>1. mem_csr_addr = mem_reg.inst.csr /\ mem_reg.inst.op \in CsrOps
      BY <1>2, <1>3 DEF mem_csr_addr
    <2>2. mem_reg.inst.op \in {"CSRRS", "CSRRSI"}
      BY <1>3, <2>1 DEF SetsEnables
    <2>3. csr_wdata = AluOut("OR", csr_rdata, mem_reg.op1_data)
      BY <2>2 DEF csr_wdata, CsrWdata
    <2>4. csr_rdata \in Word
      BY <1>1, <1>3, CsrReadType DEF csr_rdata, CsrNames
    <2>5. Bit(0, csr_rdata)
      <3>1. CASE mem_csr_addr = "mstatus"
        <4>1. csr_rdata = (1 + 2 * ToBit(csr.mpie)) % NWords
          BY <3>1 DEF csr_rdata, CsrRead, ToBit, WordCsrs
        <4>2. csr_rdata \in {1, 3}
          <5>1. ToBit(csr.mpie) \in {0, 1}
            BY DEF ToBit
          <5>2. NWords >= 4 /\ NWords \in Nat
            BY NWordsAssumption DEF EnablesOnlySet
          <5> QED BY <4>1, <5>1, <5>2
        <4> QED BY <4>2 DEF Bit
      <3>2. CASE mem_csr_addr = "mie"
        <4>1. csr_rdata = 1 % NWords
          BY <3>2 DEF csr_rdata, CsrRead, ToBit, WordCsrs
        <4>2. NWords >= 4 /\ NWords \in Nat
          BY NWordsAssumption DEF EnablesOnlySet
        <4>3. csr_rdata = 1
          BY <4>1, <4>2
        <4> QED BY <4>3 DEF Bit
      <3> QED BY <1>3, <3>1, <3>2
    <2>6. Bit(0, csr_wdata)
      BY <1>1, <2>3, <2>4, <2>5 DEF EnablesOnlySet
    <2>7. CASE mem_csr_addr = "mstatus"
      <3>1. new = [c EXCEPT !.mie = Bit(0, csr_wdata), !.mpie = Bit(1, csr_wdata)]
        BY <2>7 DEF CsrWrite, WordCsrs
      <3> QED BY <2>6, <3>1 DEF CsrFile
    <2>8. CASE mem_csr_addr = "mie"
      <3>1. new = [c EXCEPT !.meie = Bit(0, csr_wdata)]
        BY <2>8 DEF CsrWrite, WordCsrs
      <3> QED BY <2>6, <3>1 DEF CsrFile
    <2> QED BY <1>3, <2>7, <2>8
  <1>4. CASE mem_csr_addr \notin {"mstatus", "mie"}
    <2>1. CASE mem_csr_addr \in WordCsrs
      <3>1. new = [c EXCEPT !.word[mem_csr_addr] = csr_wdata]
        BY <1>4, <2>1 DEF CsrWrite
      <3> QED BY <3>1 DEF CsrFile
    <2>2. CASE mem_csr_addr \notin WordCsrs
      <3>1. new = c
        BY <1>4, <2>2 DEF CsrWrite
      <3> QED BY <3>1
    <2> QED BY <2>1, <2>2
  <1> QED BY <1>3, <1>4

(* Reset leaves no interrupt waiting. *)
LEMMA InitMask == EnablesOnlySet /\ Init => MaskInv
  <1> SUFFICES ASSUME EnablesOnlySet, Init PROVE MaskInv
    OBVIOUS
  <1>1. TypeOK
    BY InitTypeOK
  <1>2. SetsEnables(BUBBLE)
    BY DEF SetsEnables, BUBBLE
  <1>3. id_reg_inst = BUBBLE /\ exe_reg.inst = BUBBLE /\ mem_reg.inst = BUBBLE
    BY DEF Init
  <1> QED BY <1>1, <1>2, <1>3 DEF Init, MaskInv, EnablesHeld

(***************************************************************************)
(* What is decided in decode holds when it is acted on: what lies ahead in *)
(* execute and memory clears no enable, and no second entry follows a      *)
(* first.                                                                  *)
(***************************************************************************)
LEMMA StepMask == EnablesOnlySet /\ MaskInv /\ MretEnables /\ [Clock]_vars => MaskInv'
  <1> SUFFICES ASSUME EnablesOnlySet, MaskInv, MretEnables, [Clock]_vars PROVE MaskInv'
    OBVIOUS
  <1>1. TypeOK /\ TypeOK' /\ prog \in Programs
    BY StepTypeOK DEF MaskInv
  <1>2. CASE UNCHANGED vars
    <2>1. /\ prog' = prog /\ id_reg_inst' = id_reg_inst /\ exe_reg' = exe_reg
          /\ mem_reg' = mem_reg /\ csr' = csr
          /\ exe_reg_has_pending_interrupt' = exe_reg_has_pending_interrupt
      BY <1>2 DEF vars, pipeVars
    <2> QED BY <1>1, <2>1 DEF MaskInv, EnablesHeld
  <1>3. CASE Clock
    <2>1. prog' \in Programs
      BY <1>1, <1>3 DEF Clock
    <2>2. SetsEnables(BUBBLE) /\ SetsEnables(if_inst) /\ SetsEnables(id_inst)
      <3>1. SetsEnables(BUBBLE)
        BY DEF SetsEnables, BUBBLE
      <3>2. if_inst \in {BUBBLE, prog[if_reg_pc]} /\ id_inst \in {BUBBLE, id_reg_inst}
        BY DEF if_inst, id_inst
      <3>3. SetsEnables(prog[if_reg_pc])
        BY <1>1 DEF EnablesOnlySet, TypeOK
      <3>4. SetsEnables(id_reg_inst)
        BY DEF MaskInv, EnablesHeld
      <3> QED BY <3>1, <3>2, <3>3, <3>4
    <2>3. \A i \in {id_reg_inst', exe_reg'.inst, mem_reg'.inst} : SetsEnables(i)
      <3>1. id_reg_inst' \in {BUBBLE, id_reg_inst, if_inst}
        BY <1>3 DEF Clock, DecodeEdge
      <3>2. exe_reg'.inst \in {exe_reg.inst, id_inst}
        BY <1>3 DEF Clock, ExecuteEdge
      <3>3. mem_reg'.inst \in {mem_reg.inst, exe_reg.inst}
        BY <1>3 DEF Clock, MemoryEdge
      <3>4. SetsEnables(id_reg_inst) /\ SetsEnables(exe_reg.inst) /\ SetsEnables(mem_reg.inst)
        BY DEF MaskInv, EnablesHeld
      <3> QED BY <2>2, <3>1, <3>2, <3>3, <3>4
    <2>4. ASSUME exe_reg_has_pending_interrupt' PROVE csr'.mie /\ csr'.meie
      <3>1. ~exe_reg_has_pending_interrupt /\ csr.meie /\ csr.mie
        BY <1>3, <2>4 DEF Clock, ExecuteEdge, id_has_pending_interrupt
      <3>2. csr \in CsrFile
        BY <1>1 DEF TypeOK
      <3>3. CsrAfterExe = IF exe_mret THEN [csr EXCEPT !.mie = csr.mpie] ELSE csr
        BY <3>1 DEF CsrAfterExe
      <3>4. CsrAfterExe \in CsrFile /\ CsrAfterExe.mie /\ CsrAfterExe.meie
        BY <3>1, <3>2, <3>3 DEF MretEnables, CsrFile
      <3>5. /\ csr' = IF mem.csr_cmd THEN CsrWrite(CsrOverridden, mem_csr_addr, csr_wdata)
                      ELSE CsrAfterExe
            /\ CsrOverridden \in CsrFile /\ CsrOverridden.mie /\ CsrOverridden.meie
        BY <1>3, <3>1, <3>2, <3>4 DEF Clock, CsrEdge, CsrOverridden, CsrFile
      <3>6. SetsEnables(mem_reg.inst)
        BY DEF MaskInv, EnablesHeld
      <3> QED BY <1>1, <3>1, <3>4, <3>5, <3>6, WriteKeepsEnables
    <2> QED BY <1>1, <2>1, <2>3, <2>4 DEF MaskInv, EnablesHeld
  <1> QED BY <1>2, <1>3

(***************************************************************************)
(* An interrupt is entered only while it is enabled, for every program     *)
(* that sets enable bits but clears none and executes mret only in a       *)
(* handler: every memory, device, word size and pattern of interrupts.     *)
(***************************************************************************)
THEOREM MaskCorrect == EnablesOnlySet => (Spec /\ []MretEnables => MaskRespected)
  <1> SUFFICES ASSUME EnablesOnlySet PROVE Spec /\ []MretEnables => MaskRespected
    OBVIOUS
  <1>1. Init => MaskInv
    BY InitMask
  <1>2. MaskInv /\ MretEnables /\ [Clock]_vars => MaskInv'
    BY StepMask
  <1>3. MaskInv => [exe_reg_has_pending_interrupt => csr.mie /\ csr.meie]_vars
    BY DEF MaskInv, EnablesHeld
  <1> QED BY <1>1, <1>2, <1>3, PTL DEF Spec, MaskRespected
=============================================================================

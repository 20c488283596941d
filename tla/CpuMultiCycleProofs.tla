------------------------- MODULE CpuMultiCycleProofs -------------------------
(***************************************************************************)
(* The multi-cycle processor is the sequential machine RvIsa, but for the   *)
(* departures CpuMultiCycleIsa names: for every memory size, word size,     *)
(* program, arithmetic, and number and length of resets.                    *)
(***************************************************************************)
EXTENDS CpuMultiCycleIsa, TLAPS

USE WordAssumption, RegAssumption, MemAssumption, DivAssumption, ResetAssumption

-----------------------------------------------------------------------------
(* Types. *)

ControlType ==
  /\ state \in State /\ pc \in Word /\ registers \in [Reg -> Word]
  /\ rst_edges \in 0 .. MinReset /\ resets \in 0 .. MaxResets
OperandType == insn \in Insn /\ rs1_value \in Word /\ rs2_value \in Word
DecodedType ==
  /\ alu_op1 \in Word /\ alu_op2 \in Word /\ loadstore_addr \in Word
  /\ {branch_cond, alu_ready, instruction_sync} \subseteq BOOLEAN
DivType ==
  /\ bitctr \in 0 .. DivSteps /\ dividend \in Word /\ divisor \in Word
  /\ division_done_latch \in BOOLEAN
MemType ==
  /\ memory \in [0 .. MemSize - 1 -> Word] /\ mem_rdata \in Word
  /\ xact_addr \in 0 .. MemSize - 1
SpType == spram \in [SpAddr -> Word] /\ spram_rdata \in Word /\ spram_done \in BOOLEAN

TypeOK == ControlType /\ OperandType /\ DecodedType /\ DivType /\ MemType /\ SpType

(* Address arithmetic stays within a word. *)
LEMMA PlusType == \A a \in Word, b \in Word \cup {1} : Plus(a, b) \in Word
  BY DEF Plus, Word

(* Zero is a word. *)
LEMMA ZeroWord == 0 \in Word
  BY DEF Word

(* The fields of an instruction. *)
LEMMA InsnFields ==
  ASSUME NEW i \in Insn
  PROVE  /\ i.ok \in BOOLEAN /\ i.op \in Opcode
         /\ i.rd \in Reg /\ i.rs1 \in Reg /\ i.rs2 \in Reg
         /\ i.imm \in Word /\ i.imm_i \in Word
         /\ i.f3 \in 0 .. 7 /\ i.f7 \in {"I", "SUB", "M"}
  BY DEF Insn

(* The address on the bus, and the device it selects. *)
LEMMA BusTypes ==
  TypeOK => /\ bus_addr \in Word /\ bus_rdata \in Word
            /\ DeviceAt(bus_addr) \in {"mem", "spram", "none"}
            /\ DeviceAt(bus_addr) = "mem" => bus_addr \in 0 .. MemSize - 1
            /\ DeviceAt(bus_addr) = "spram" => bus_addr \in SpAddr
<1> SUFFICES ASSUME TypeOK
             PROVE  /\ bus_addr \in Word /\ bus_rdata \in Word
                    /\ DeviceAt(bus_addr) \in {"mem", "spram", "none"}
                    /\ DeviceAt(bus_addr) = "mem" => bus_addr \in 0 .. MemSize - 1
                    /\ DeviceAt(bus_addr) = "spram" => bus_addr \in SpAddr
  OBVIOUS
<1>1. bus_addr \in Word
  BY DEF TypeOK, ControlType, DecodedType, bus_addr
<1>2. bus_rdata \in Word
  BY ZeroWord DEF TypeOK, MemType, SpType, bus_rdata, DeviceAt
<1> QED BY <1>1, <1>2 DEF DeviceAt, Word

(* What the ALU and write back compute. *)
LEMMA ResultTypes ==
  TypeOK => /\ writeback_value \in Word /\ pc_next \in Word
            /\ Mag(insn.f3, alu_op1) \in Word /\ Mag(insn.f3, alu_op2) \in Word
<1> SUFFICES ASSUME TypeOK
             PROVE  /\ writeback_value \in Word /\ pc_next \in Word
                    /\ Mag(insn.f3, alu_op1) \in Word /\ Mag(insn.f3, alu_op2) \in Word
  OBVIOUS
<1>1. /\ insn.imm \in Word /\ insn.f3 \in 0 .. 7 /\ insn.f7 \in {"I", "SUB", "M"}
      /\ pc \in Word /\ rs1_value \in Word /\ alu_op1 \in Word /\ alu_op2 \in Word
      /\ dividend \in Word /\ divisor \in Word
  BY InsnFields DEF TypeOK, ControlType, OperandType, DecodedType, DivType
<1>2. Mag(insn.f3, alu_op1) \in Word /\ Mag(insn.f3, alu_op2) \in Word
  BY <1>1, MagAssumption
<1>3. pc_advanced \in Word /\ pc_next \in Word /\ Plus(pc, insn.imm) \in Word
  BY <1>1, PlusType DEF pc_advanced, pc_next
<1>4. alu_out \in Word
  <2>1. CASE is_division
    <3>1. insn.f3 \in 4 .. 7
      BY <1>1, <2>1 DEF is_division
    <3>2. DivOut(insn.f3, dividend, divisor, alu_op1, alu_op2) \in Word
      BY <1>1, <3>1, DivOutAssumption
    <3> QED BY <2>1, <3>2 DEF alu_out
  <2>2. CASE ~is_division
    <3>1. (insn.op = "OP_IMM") \in BOOLEAN
      OBVIOUS
    <3>2. Alu(insn.op = "OP_IMM", insn.f7, insn.f3, alu_op1, alu_op2) \in Word
      BY <1>1, <3>1, AluAssumption
    <3> QED BY <2>2, <3>2 DEF alu_out
  <2> QED BY <2>1, <2>2
<1>5. writeback_value \in Word
  BY <1>1, <1>3, <1>4, BusTypes, ZeroWord DEF writeback_value
<1> QED BY <1>2, <1>3, <1>5

-----------------------------------------------------------------------------
(* The devices at an edge. *)

(* They keep their types. *)
LEMMA DeviceTypes ==
  ASSUME TypeOK, Devices
  PROVE  DivType' /\ MemType' /\ SpType'
<1>1. DivType'
  BY ResultTypes DEF TypeOK, DivType, Devices, DividerClock, division_done
<1>2. MemType'
  <2>1. CASE DeviceAt(bus_addr) = "mem"
    BY <2>1, BusTypes DEF TypeOK, OperandType, MemType, Devices, MemoryClock
  <2>2. CASE DeviceAt(bus_addr) # "mem"
    BY <2>2 DEF TypeOK, MemType, Devices, MemoryClock, memVars
  <2> QED BY <2>1, <2>2
<1>3. SpType'
  <2>1. CASE DeviceAt(bus_addr) = "spram"
    <3>1. bus_addr \in SpAddr /\ rs2_value \in Word
      BY <2>1, BusTypes DEF TypeOK, OperandType
    <3>2. (bus_ren \/ bus_wen) \in BOOLEAN
      OBVIOUS
    <3> QED
      BY <2>1, <3>1, <3>2 DEF TypeOK, SpType, Devices, SpramClock
  <2>2. CASE DeviceAt(bus_addr) # "spram"
    BY <2>2 DEF TypeOK, SpType, Devices, SpramClock
  <2> QED BY <2>1, <2>2
<1> QED BY <1>1, <1>2, <1>3

(* The word RvIsa finds at an address, by device. *)
LEMMA WordAt ==
  ASSUME NEW a \in Word
  PROVE  ISA!M(a) = CASE DeviceAt(a) = "mem" -> memory[a]
                      [] DeviceAt(a) = "spram" -> spram[a]
                      [] DeviceAt(a) = "none" -> 0
<1> USE DEF ISA!M, IsaMem, IsaMapped, DeviceAt, SpAddr, Word
<1>1. CASE a < MemSize
  BY <1>1
<1>2. CASE a >= MemSize /\ a \in SpAddr
  BY <1>2
<1>3. CASE a >= MemSize /\ a \notin SpAddr
  BY <1>3
<1> QED BY <1>1, <1>2, <1>3

(* Memory changes by the store on the bus only. *)
LEMMA MemoryEdge ==
  ASSUME TypeOK, Devices
  PROVE  IsaMem' = IF bus_wen THEN ISA!MSET(bus_addr, rs2_value) ELSE IsaMem
<1> USE BusTypes DEF Devices, MemoryClock, SpramClock, ISA!MSET, IsaMem, IsaMapped
<1>1. CASE DeviceAt(bus_addr) = "mem"
  <2>1. bus_addr \in 0 .. MemSize - 1 /\ bus_addr \notin SpAddr
    BY <1>1 DEF SpAddr
  <2>2. spram' = spram
    BY <1>1
  <2>3. memory' = IF bus_wen THEN [memory EXCEPT ![bus_addr] = rs2_value] ELSE memory
    BY <1>1
  <2>4. memory \in [0 .. MemSize - 1 -> Word]
    BY DEF TypeOK, MemType
  <2> HIDE DEF Devices, MemoryClock, SpramClock
  <2>5. CASE bus_wen
    BY <2>1, <2>2, <2>3, <2>4, <2>5
  <2>6. CASE ~bus_wen
    BY <2>2, <2>3, <2>6
  <2> QED BY <2>5, <2>6
<1>2. CASE DeviceAt(bus_addr) = "spram"
  BY <1>2 DEF TypeOK, SpType, DeviceAt, SpAddr, memVars
<1>3. CASE DeviceAt(bus_addr) = "none"
  BY <1>3 DEF DeviceAt, SpAddr, memVars, Word
<1> QED BY <1>1, <1>2, <1>3

(* A read leaves the word in the device's answer, and the memory remembers   *)
(* the address.                                                              *)
LEMMA ReadEdge ==
  ASSUME TypeOK, Devices, bus_ren, ~bus_wen
  PROVE  /\ memory' = memory /\ spram' = spram
         /\ DeviceAt(bus_addr) = "mem" => mem_rdata' = memory[bus_addr] /\ xact_addr' = bus_addr
         /\ DeviceAt(bus_addr) = "spram" => spram_rdata' = spram[bus_addr]
  BY DEF Devices, MemoryClock, SpramClock, memVars

(* Without a strobe nothing changes. *)
LEMMA IdleEdge ==
  ASSUME Devices, ~bus_ren, ~bus_wen
  PROVE  /\ memory' = memory /\ mem_rdata' = mem_rdata /\ xact_addr' = xact_addr
         /\ spram' = spram /\ spram_rdata' = spram_rdata
  BY DEF Devices, MemoryClock, SpramClock, memVars

-----------------------------------------------------------------------------
(* The inductive invariant. *)

(* An instruction has been fetched and is not over. *)
Busy == state \in {"DECODE", "EXEC", "WRITEBACK"}
Decoded == state \in {"EXEC", "WRITEBACK"}

(* Only a reset that is held keeps the processor at address 0 in fetch. *)
Phases ==
  /\ state = "NONE" <=> rst_edges = 0
  /\ rst_edges < MinReset => pc = 0 /\ state \in {"NONE", "FETCH"}

(* What the instruction register and the operand registers hold. *)
Operands ==
  /\ Busy =>
       /\ \E w \in Word : insn = Decode[w]
       /\ rs1_value = registers[insn.rs1] /\ rs2_value = registers[insn.rs2]
  /\ Decoded =>
       /\ alu_op1 = rs1_value
       /\ alu_op2 = IF insn.op = "OP" THEN rs2_value ELSE insn.imm_i
       /\ loadstore_addr =
            Plus(rs1_value, IF insn.op = "STORE" THEN insn.imm ELSE insn.imm_i)
       /\ branch_cond = Taken(insn.f3, rs1_value, rs2_value)

(* Outside sim_spram, the instruction is the word memory holds. *)
FetchedIsCurrent ==
  Busy /\ ~Stored /\ pc \notin SpAddr => insn = Decode[ISA!M(pc)]

(* memory.sv's answer is the word last accessed, but while a store is there. *)
MemoryAnswers ==
  rst_edges >= 2 /\ ~(Stored /\ DeviceAt(loadstore_addr) = "mem") =>
    mem_rdata = memory[xact_addr]

(* A load leaves execute with its word on the bus. *)
LoadAnswered ==
  state = "WRITEBACK" /\ insn.op = "LOAD" =>
    /\ bus_rdata = ISA!M(loadstore_addr)
    /\ DeviceAt(loadstore_addr) = "mem" => xact_addr = loadstore_addr

(* A store that waits for its answer has been written. *)
StoreDone ==
  Stored /\ state = "EXEC" /\ loadstore_addr \in IsaMapped =>
    IsaMem[loadstore_addr] = rs2_value

(* Until a reset is pressed, the divider runs for the division in execute. *)
OwnOperands ==
  dividend = Mag(insn.f3, alu_op1) /\ divisor = Mag(insn.f3, alu_op2)
DividesOwn ==
  resets = 0 =>
    /\ alu_ready => Decoded
    /\ bitctr # 0 => state = "EXEC" /\ is_division /\ ~alu_ready
    /\ state = "EXEC" /\ alu_ready => division_done_latch
    /\ state = "EXEC" /\ is_division /\ ~alu_ready => OwnOperands
    /\ state = "WRITEBACK" /\ is_division => OwnOperands /\ ~alu_ready

InOrder ==
  /\ Phases /\ Operands /\ FetchedIsCurrent /\ MemoryAnswers
  /\ LoadAnswered /\ StoreDone /\ DividesOwn
MultiInv == TypeOK /\ InOrder

-----------------------------------------------------------------------------
(* Types are kept. *)

(* The processor's registers, state by state. *)
LEMMA CpuTypes ==
  ASSUME TypeOK, Fetch \/ DecodeStage \/ Execute \/ Writeback \/ NoState \/ CpuReset
  PROVE  /\ state' \in State /\ pc' \in Word /\ registers' \in [Reg -> Word]
         /\ OperandType' /\ DecodedType'
<1> USE DEF TypeOK, ControlType, OperandType, DecodedType, State
<1>1. CASE Fetch
  <2>1. CASE bus_done /\ insn' = Decode[bus_rdata]
    <3>1. insn' \in Insn
      BY <2>1, BusTypes, DecodeAssumption
    <3>2. registers[insn'.rs1] \in Word /\ registers[insn'.rs2] \in Word
      BY <3>1, InsnFields
    <3>3. /\ rs1_value' = registers[insn'.rs1] /\ rs2_value' = registers[insn'.rs2]
          /\ state' = "DECODE"
      BY <1>1, <2>1 DEF Fetch
    <3> QED BY <1>1, <3>1, <3>2, <3>3 DEF Fetch, decodedVars
  <2>2. CASE UNCHANGED <<state, operandVars>>
    BY <1>1, <2>2 DEF Fetch, decodedVars, operandVars
  <2> QED BY <1>1, <2>1, <2>2 DEF Fetch
<1>2. CASE DecodeStage
  <2>1. insn.imm \in Word /\ insn.imm_i \in Word /\ insn.f3 \in 0 .. 7
    BY InsnFields
  <2>2. Taken(insn.f3, rs1_value, rs2_value) \in BOOLEAN
    BY <2>1, TakenAssumption
  <2>3. Plus(rs1_value, IF insn.op = "STORE" THEN insn.imm ELSE insn.imm_i) \in Word
    BY <2>1, PlusType
  <2> QED BY <1>2, <2>1, <2>2, <2>3 DEF DecodeStage, operandVars
<1>3. CASE Execute
  BY <1>3 DEF Execute, operandVars, decodedVars
<1>4. CASE Writeback
  BY <1>4, ResultTypes DEF Writeback, operandVars, decodedVars
<1>5. CASE NoState
  BY <1>5 DEF NoState, operandVars, decodedVars
<1>6. CASE CpuReset
  <2>1. insn' \in Insn
    BY <1>6 DEF CpuReset, Insn
  <2> QED BY <1>6, <2>1, ZeroWord DEF CpuReset, decodedVars
<1> QED BY <1>1, <1>2, <1>3, <1>4, <1>5, <1>6

(* Power-on. *)
LEMMA TypeInit == Init => TypeOK
<1> SUFFICES ASSUME Init PROVE TypeOK
  OBVIOUS
<1>1. ControlType
  BY ZeroWord, InitRegsAssumption DEF Init, ControlType, State
<1>2. OperandType
  BY ZeroWord DEF Init, OperandType, Insn, Opcode
<1>3. DecodedType /\ DivType
  <2>1. /\ branch_cond = FALSE /\ alu_ready = FALSE /\ instruction_sync = FALSE
        /\ division_done_latch = TRUE
    BY DEF Init
  <2>2. {branch_cond, alu_ready, instruction_sync} \subseteq BOOLEAN
    BY <2>1
  <2> QED BY <2>1, <2>2, ZeroWord DEF Init, DecodedType, DivType
<1>4. MemType /\ SpType
  <2>1. MemType
    BY ZeroWord, InitProgAssumption DEF Init, MemType
  <2>2. spram \in [SpAddr -> Word]
    BY ZeroWord DEF Init
  <2>3. spram_done = FALSE
    BY DEF Init
  <2> QED BY <2>1, <2>2, <2>3, ZeroWord DEF Init, SpType
<1> QED BY <1>1, <1>2, <1>3, <1>4 DEF TypeOK

(* Every edge, and every step that is none. *)
LEMMA TypeStep == TypeOK /\ [Next]_vars => TypeOK'
<1> SUFFICES ASSUME TypeOK, [Next]_vars PROVE TypeOK'
  OBVIOUS
<1>1. CASE Tick
  <2>1. rst_edges' = rst_edges /\ resets' = resets
    BY <1>1 DEF Tick, rstVars
  <2> QED
    BY <1>1, <2>1, CpuTypes, DeviceTypes DEF Tick, TypeOK, ControlType
<1>2. CASE HoldReset
  <2>1. rst_edges' \in 0 .. MinReset /\ resets' = resets
    BY <1>2 DEF HoldReset, TypeOK, ControlType
  <2> QED
    BY <1>2, <2>1, CpuTypes, DeviceTypes DEF HoldReset, TypeOK, ControlType
<1>3. CASE PressReset
  <2>1. rst_edges' \in 0 .. MinReset /\ resets' \in 0 .. MaxResets
    BY <1>3 DEF PressReset, TypeOK, ControlType
  <2> QED
    BY <1>3, <2>1, CpuTypes, DeviceTypes DEF PressReset, TypeOK, ControlType
<1>4. CASE UNCHANGED vars
  BY <1>4 DEF vars, operandVars, decodedVars, divVars, memVars, spVars, rstVars, TypeOK,
     ControlType, OperandType, DecodedType, DivType, MemType, SpType
<1> QED BY <1>1, <1>2, <1>3, <1>4 DEF Next

(* Every register of the processor, its divider and the devices of soc_sim   *)
(* holds a value of its width, through any number of resets.                 *)
THEOREM TypeCorrect == Spec => []TypeOK
BY TypeInit, TypeStep, PTL DEF Spec

-----------------------------------------------------------------------------
(* The invariant is inductive: one lemma per action. *)

(* Power-on. *)
LEMMA InvInit == Init => InOrder
<1> SUFFICES ASSUME Init PROVE InOrder
  OBVIOUS
<1> USE DEF Init
<1>1. Phases
  BY DEF Phases
<1>2. Operands /\ FetchedIsCurrent /\ MemoryAnswers /\ LoadAnswered
  BY DEF Operands, FetchedIsCurrent, MemoryAnswers, LoadAnswered, Busy, Decoded
<1>3. StoreDone /\ DividesOwn
  <2>1. alu_ready = FALSE
    OBVIOUS
  <2> QED BY <2>1 DEF StoreDone, DividesOwn
<1> QED BY <1>1, <1>2, <1>3 DEF InOrder

(* A reset, at power-on or pressed. *)
LEMMA InvReset ==
  ASSUME MultiInv, HoldReset \/ PressReset
  PROVE  InOrder'
<1> USE DEF MultiInv, InOrder
<1>1. CpuReset /\ Devices /\ state' = "FETCH" /\ pc' = 0
  BY DEF HoldReset, PressReset, CpuReset
<1>2. rst_edges' \in Nat \ {0}
  BY DEF HoldReset, PressReset, TypeOK, ControlType
<1>3. Phases'
  BY <1>1, <1>2 DEF Phases
<1>4. Operands' /\ FetchedIsCurrent' /\ LoadAnswered' /\ StoreDone'
  BY <1>1 DEF Operands, FetchedIsCurrent, LoadAnswered, StoreDone, Busy, Decoded
<1>5. MemoryAnswers'
  <2> SUFFICES ASSUME rst_edges' >= 2 PROVE mem_rdata' = memory'[xact_addr']
    BY DEF MemoryAnswers
  <2>1. HoldReset /\ rst_edges # 0 /\ rst_edges < MinReset
    BY DEF HoldReset, PressReset, TypeOK, ControlType
  <2>2. state = "FETCH" /\ pc = 0
    BY <2>1 DEF Phases
  <2>3. bus_addr = 0 /\ bus_ren /\ ~bus_wen /\ DeviceAt(bus_addr) = "mem"
    BY <2>2 DEF bus_addr, bus_ren, bus_wen, DeviceAt
  <2> QED BY <1>1, <2>3, ReadEdge
<1>6. DividesOwn'
  <2> SUFFICES ASSUME resets' = 0 PROVE ~alu_ready' /\ bitctr' = 0
    BY <1>1 DEF DividesOwn, Decoded
  <2>1. HoldReset /\ resets = 0
    BY DEF HoldReset, PressReset, TypeOK, ControlType
  <2>2. ~alu_ready /\ bitctr = 0
    BY <2>1 DEF HoldReset, Phases, DividesOwn, Decoded
  <2>3. bitctr' = 0
    BY <1>1, <2>2 DEF Devices, DividerClock, division_done
  <2>4. alu_ready' = alu_ready
    BY <1>1 DEF CpuReset
  <2> QED BY <2>2, <2>3, <2>4
<1> QED BY <1>3, <1>4, <1>5, <1>6

(* Fetch waits for the bus, and then has the word of memory. *)
LEMMA InvFetch ==
  ASSUME MultiInv, rst_edges = MinReset, Fetch, Devices, UNCHANGED rstVars
  PROVE  InOrder'
<1> USE DEF MultiInv, InOrder
<1>1. state = "FETCH" /\ bus_addr = pc /\ bus_ren /\ ~bus_wen
  BY DEF Fetch, bus_addr, bus_ren, bus_wen
<1>2. /\ memory' = memory /\ IsaMem' = IsaMem
      /\ DeviceAt(pc) = "mem" => mem_rdata' = memory[pc] /\ xact_addr' = pc
  BY <1>1, ReadEdge, MemoryEdge
<1>3. /\ pc' = pc /\ registers' = registers /\ alu_ready' = alu_ready
      /\ rst_edges' = rst_edges /\ resets' = resets
      /\ state' \in {"FETCH", "DECODE"}
  BY <1>1 DEF Fetch, rstVars
<1>5. Phases'
  BY <1>1, <1>3 DEF Phases
<1>6. Operands' /\ FetchedIsCurrent'
  <2> SUFFICES ASSUME state' = "DECODE"
               PROVE  Operands' /\ FetchedIsCurrent'
    BY <1>3 DEF Operands, FetchedIsCurrent, Busy, Decoded
  <2>1. /\ bus_done /\ insn' = Decode[bus_rdata]
        /\ rs1_value' = registers[insn'.rs1] /\ rs2_value' = registers[insn'.rs2]
    BY <1>1 DEF Fetch
  <2>2. Operands'
    BY <1>3, <2>1, BusTypes DEF Operands, Decoded
  <2>3. ASSUME pc \notin SpAddr PROVE bus_rdata = ISA!M(pc)
    <3>1. pc \in Word
      BY DEF TypeOK, ControlType
    <3>2. DeviceAt(pc) = "mem" => mem_rdata = memory[pc]
      BY <1>1, <2>1 DEF bus_done, mem_done, MemoryAnswers, Stored
    <3> QED BY <1>1, <2>3, <3>1, <3>2, WordAt DEF bus_rdata, DeviceAt
  <2>4. FetchedIsCurrent'
    BY <1>2, <1>3, <2>1, <2>3 DEF FetchedIsCurrent, ISA!M
  <2> QED BY <2>2, <2>4
<1>7. MemoryAnswers'
  <2>1. CASE DeviceAt(pc) = "mem"
    BY <1>2, <2>1 DEF MemoryAnswers
  <2>2. CASE DeviceAt(pc) # "mem"
    <3>1. mem_rdata' = mem_rdata /\ xact_addr' = xact_addr
      BY <1>1, <2>2 DEF Devices, MemoryClock, memVars
    <3> QED BY <1>1, <1>2, <3>1 DEF MemoryAnswers, Stored
  <2> QED BY <2>1, <2>2
<1>8. LoadAnswered' /\ StoreDone'
  BY <1>3 DEF LoadAnswered, StoreDone
<1>9. DividesOwn'
  <2> SUFFICES ASSUME resets' = 0 PROVE ~alu_ready' /\ bitctr' = 0
    BY <1>3 DEF DividesOwn, Decoded
  <2>1. ~alu_ready /\ bitctr = 0
    BY <1>1, <1>3 DEF DividesOwn, Decoded
  <2>2. bitctr' = 0
    BY <2>1 DEF Devices, DividerClock, division_done
  <2> QED BY <1>3, <2>1, <2>2
<1> QED BY <1>5, <1>6, <1>7, <1>8, <1>9

(* Decode reads the operands and leaves the bus alone. *)
LEMMA InvDecode ==
  ASSUME MultiInv, rst_edges = MinReset, DecodeStage, Devices, UNCHANGED rstVars
  PROVE  InOrder'
<1> USE DEF MultiInv, InOrder
<1>1. state = "DECODE" /\ ~bus_ren /\ ~bus_wen /\ ~Stored
  BY DEF DecodeStage, bus_ren, bus_wen, Stored
<1>2. /\ memory' = memory /\ IsaMem' = IsaMem
      /\ mem_rdata' = mem_rdata /\ xact_addr' = xact_addr
  BY <1>1, IdleEdge, MemoryEdge
<1>3. /\ pc' = pc /\ registers' = registers /\ alu_ready' = TRUE
      /\ insn' = insn /\ rs1_value' = rs1_value /\ rs2_value' = rs2_value
      /\ rst_edges' = rst_edges /\ resets' = resets
      /\ state' = IF inst_is_exec THEN "EXEC" ELSE "WRITEBACK"
  BY DEF DecodeStage, operandVars, rstVars
<1>4. IsLoadStore(insn) => state' = "EXEC"
  BY <1>3 DEF inst_is_exec
<1>5. ~Stored'
  BY <1>3, <1>4 DEF Stored, IsLoadStore
<1>6. Phases'
  BY <1>1, <1>3 DEF Phases
<1>7. Operands'
  BY <1>1, <1>3 DEF Operands, Busy, DecodeStage
<1>8. FetchedIsCurrent'
  BY <1>1, <1>2, <1>3 DEF FetchedIsCurrent, Busy, ISA!M
<1>9. MemoryAnswers'
  BY <1>1, <1>2, <1>3 DEF MemoryAnswers
<1>10. LoadAnswered' /\ StoreDone'
  BY <1>3, <1>4, <1>5 DEF LoadAnswered, StoreDone, IsLoadStore
<1>11. DividesOwn'
  <2> SUFFICES ASSUME resets = 0 PROVE DividesOwn'
    BY <1>3 DEF DividesOwn
  <2>1. ~alu_ready /\ bitctr = 0
    BY <1>1 DEF DividesOwn, Decoded
  <2>2. bitctr' = 0 /\ division_done_latch' = TRUE
    BY <2>1 DEF Devices, DividerClock, division_done
  <2>3. is_division => state' = "EXEC"
    BY <1>3, <2>1 DEF is_division, inst_is_exec, inst_is_ALU
  <2>4. is_division' = is_division
    BY <1>3 DEF is_division
  <2> QED BY <1>3, <2>2, <2>3, <2>4 DEF DividesOwn, Decoded
<1> QED BY <1>6, <1>7, <1>8, <1>9, <1>10, <1>11

(* Execute: a load is answered, a store written, a division completed. *)
LEMMA InvExecute ==
  ASSUME MultiInv, rst_edges = MinReset, Execute, Devices, UNCHANGED rstVars
  PROVE  InOrder'
<1> USE DEF MultiInv, InOrder
<1>1. /\ state = "EXEC" /\ state' = IF exec_done THEN "WRITEBACK" ELSE "EXEC"
      /\ alu_ready' = FALSE /\ pc' = pc /\ registers' = registers
      /\ insn' = insn /\ rs1_value' = rs1_value /\ rs2_value' = rs2_value
      /\ alu_op1' = alu_op1 /\ alu_op2' = alu_op2
      /\ loadstore_addr' = loadstore_addr /\ branch_cond' = branch_cond
      /\ rst_edges' = rst_edges /\ resets' = resets
  BY DEF Execute, operandVars, decodedVars, rstVars
<1>2. Phases'
  BY <1>1 DEF Phases
<1>3. Operands'
  BY <1>1 DEF Operands, Busy, Decoded
<1>4. Stored' <=> insn.op = "STORE"
  BY <1>1 DEF Stored
<1>5. bus_wen <=> insn.op = "STORE"
  BY <1>1 DEF bus_wen
<1>6. FetchedIsCurrent'
  <2> SUFFICES ASSUME insn.op # "STORE" PROVE FetchedIsCurrent'
    BY <1>1, <1>4 DEF FetchedIsCurrent
  <2>1. IsaMem' = IsaMem
    BY <1>5, MemoryEdge
  <2> QED BY <1>1, <2>1 DEF FetchedIsCurrent, Busy, Stored, ISA!M
<1>7. ASSUME insn.op = "LOAD" PROVE LoadAnswered' /\ MemoryAnswers'
  <2>1. bus_addr = loadstore_addr /\ bus_ren /\ ~bus_wen
    BY <1>1, <1>7 DEF bus_addr, bus_ren, bus_wen, IsLoadStore
  <2>2. bus_addr' = loadstore_addr
    BY <1>1, <1>7 DEF bus_addr, IsLoadStore
  <2>3. /\ memory' = memory /\ spram' = spram /\ IsaMem' = IsaMem
        /\ DeviceAt(loadstore_addr) = "mem" =>
             mem_rdata' = memory[loadstore_addr] /\ xact_addr' = loadstore_addr
        /\ DeviceAt(loadstore_addr) = "spram" =>
             spram_rdata' = spram[loadstore_addr]
    BY <2>1, ReadEdge, MemoryEdge
  <2>4. LoadAnswered'
    <3>1. loadstore_addr \in Word
      BY DEF TypeOK, DecodedType
    <3>2. bus_rdata' = ISA!M(loadstore_addr)
      BY <2>2, <2>3, <3>1, WordAt DEF bus_rdata, DeviceAt
    <3>3. ISA!M(loadstore_addr)' = ISA!M(loadstore_addr)
      BY <1>1, <2>3 DEF ISA!M
    <3> QED BY <1>1, <2>3, <3>2, <3>3 DEF LoadAnswered
  <2>5. MemoryAnswers'
    <3>1. CASE DeviceAt(loadstore_addr) = "mem"
      BY <2>3, <3>1 DEF MemoryAnswers
    <3>2. CASE DeviceAt(loadstore_addr) # "mem"
      <4>1. mem_rdata' = mem_rdata /\ xact_addr' = xact_addr
        BY <2>1, <3>2 DEF Devices, MemoryClock, memVars
      <4> QED BY <1>1, <1>7, <2>3, <4>1 DEF MemoryAnswers, Stored
    <3> QED BY <3>1, <3>2
  <2> QED BY <2>4, <2>5
<1>8. ASSUME insn.op = "STORE" PROVE MemoryAnswers' /\ StoreDone'
  <2>1. bus_addr = loadstore_addr /\ ~bus_ren /\ bus_wen
    BY <1>1, <1>8 DEF bus_addr, bus_ren, bus_wen, IsLoadStore
  <2>2. IsaMem' = ISA!MSET(loadstore_addr, rs2_value)
    BY <2>1, MemoryEdge
  <2>3. StoreDone'
    BY <1>1, <2>2 DEF StoreDone, ISA!MSET, IsaMem
  <2>4. MemoryAnswers'
    <3> SUFFICES ASSUME DeviceAt(loadstore_addr) # "mem", rst_edges >= 2
                 PROVE  mem_rdata' = memory'[xact_addr']
      BY <1>1, <1>4, <1>8 DEF MemoryAnswers, DeviceAt
    <3>1. memory' = memory /\ mem_rdata' = mem_rdata /\ xact_addr' = xact_addr
      BY <2>1 DEF Devices, MemoryClock, memVars
    <3> QED BY <3>1 DEF MemoryAnswers
  <2> QED BY <2>3, <2>4
<1>9. ASSUME ~IsLoadStore(insn) PROVE MemoryAnswers'
  <2>1. ~bus_ren /\ ~bus_wen
    BY <1>1, <1>9 DEF bus_ren, bus_wen, IsLoadStore
  <2> QED BY <1>1, <1>9, <2>1, IdleEdge DEF MemoryAnswers, Stored, IsLoadStore
<1>10. MemoryAnswers' /\ LoadAnswered' /\ StoreDone'
  BY <1>1, <1>4, <1>7, <1>8, <1>9 DEF LoadAnswered, StoreDone, IsLoadStore
<1>11. DividesOwn'
  <2> SUFFICES ASSUME resets = 0 PROVE DividesOwn'
    BY <1>1 DEF DividesOwn
  <2>1. CASE ~is_division
    <3>1. bitctr = 0 /\ bitctr' = 0 /\ ~is_division'
      BY <1>1, <2>1 DEF DividesOwn, Devices, DividerClock, is_division
    <3> QED BY <1>1, <3>1 DEF DividesOwn
  <2>2. CASE is_division
    <3>1. is_division' /\ inst_is_ALU /\ ~IsLoadStore(insn) /\ (OwnOperands' <=>
            dividend' = Mag(insn.f3, alu_op1) /\ divisor' = Mag(insn.f3, alu_op2))
      BY <1>1, <2>2 DEF is_division, inst_is_ALU, IsLoadStore, OwnOperands
    <3>2. CASE alu_ready
      <4>1. bitctr = 0 /\ division_done_latch
        BY <1>1, <3>2 DEF DividesOwn
      <4>2. state' = "EXEC"
        BY <1>1, <2>2, <3>1, <4>1 DEF exec_done, alu_done
      <4>3. OwnOperands'
        BY <2>2, <3>1, <3>2, <4>1 DEF Devices, DividerClock, division_done
      <4> QED BY <1>1, <3>1, <4>2, <4>3 DEF DividesOwn
    <3>3. CASE ~alu_ready
      <4>1. OwnOperands
        BY <1>1, <2>2, <3>3 DEF DividesOwn
      <4>2. dividend' = dividend /\ divisor' = divisor
        BY <3>3 DEF Devices, DividerClock, division_done
      <4>3. bitctr' # 0 => state' = "EXEC"
        <5>1. CASE bitctr = 0
          BY <3>3, <5>1 DEF Devices, DividerClock, division_done
        <5>2. CASE bitctr # 0
          BY <1>1, <2>2, <3>1, <5>2 DEF exec_done, alu_done, division_done
        <5> QED BY <5>1, <5>2
      <4> QED BY <1>1, <3>1, <4>1, <4>2, <4>3 DEF DividesOwn, OwnOperands
    <3> QED BY <3>2, <3>3
  <2> QED BY <2>1, <2>2
<1> QED BY <1>2, <1>3, <1>6, <1>10, <1>11

(* Write back reads the bus again, so that a store's word is answered too. *)
LEMMA InvWriteback ==
  ASSUME MultiInv, rst_edges = MinReset, Writeback, Devices, UNCHANGED rstVars
  PROVE  InOrder'
<1> USE DEF MultiInv, InOrder
<1>1. /\ state = "WRITEBACK" /\ state' = "FETCH" /\ alu_ready' = FALSE
      /\ rst_edges' = rst_edges /\ resets' = resets
      /\ bus_ren /\ ~bus_wen
  BY DEF Writeback, rstVars, bus_ren, bus_wen
<1>2. Phases' /\ Operands' /\ FetchedIsCurrent' /\ LoadAnswered' /\ StoreDone'
  BY <1>1
  DEF Phases, Operands, FetchedIsCurrent, LoadAnswered, StoreDone, Busy, Decoded
<1>3. MemoryAnswers'
  <2>1. CASE DeviceAt(bus_addr) = "mem"
    BY <1>1, <2>1, ReadEdge DEF MemoryAnswers
  <2>2. CASE DeviceAt(bus_addr) # "mem"
    <3>1. memory' = memory /\ mem_rdata' = mem_rdata /\ xact_addr' = xact_addr
      BY <2>2 DEF Devices, MemoryClock, memVars
    <3>2. Stored => DeviceAt(loadstore_addr) # "mem"
      BY <1>1, <2>2 DEF Stored, bus_addr, IsLoadStore
    <3> QED BY <1>1, <3>1, <3>2 DEF MemoryAnswers
  <2> QED BY <2>1, <2>2
<1>4. DividesOwn'
  <2> SUFFICES ASSUME resets = 0 PROVE bitctr' = 0
    BY <1>1 DEF DividesOwn, Decoded
  <2>1. bitctr = 0 /\ (is_division => ~alu_ready)
    BY <1>1 DEF DividesOwn
  <2> QED BY <2>1 DEF Devices, DividerClock, division_done
<1> QED BY <1>2, <1>3, <1>4

(* Every edge, and every step that is none. *)
LEMMA InvStep == MultiInv /\ [Next]_vars => MultiInv'
<1> SUFFICES ASSUME MultiInv, [Next]_vars PROVE InOrder'
  BY TypeStep DEF MultiInv
<1>1. CASE Tick
  <2>1. ~NoState
    BY <1>1 DEF Tick, NoState, MultiInv, InOrder, Phases
  <2> QED
    BY <1>1, <2>1, InvFetch, InvDecode, InvExecute, InvWriteback DEF Tick
<1>2. CASE HoldReset \/ PressReset
  BY <1>2, InvReset
<1>3. CASE UNCHANGED vars
  <2>1. InOrder
    BY DEF MultiInv
  <2> USE <1>3 DEF vars, operandVars, decodedVars, divVars, memVars, spVars, rstVars
  <2>2. Phases' /\ Operands' /\ MemoryAnswers' /\ DividesOwn'
    BY <2>1 DEF InOrder, Phases, Operands, MemoryAnswers, DividesOwn, Busy, Decoded,
       Stored, is_division, OwnOperands
  <2>3. IsaMem' = IsaMem /\ Stored' = Stored
    BY DEF IsaMem, Stored
  <2>4. FetchedIsCurrent' /\ StoreDone'
    BY <2>1, <2>3 DEF InOrder, FetchedIsCurrent, StoreDone, Busy, ISA!M
  <2>5. bus_rdata' = bus_rdata
    BY DEF bus_rdata, bus_addr
  <2>6. LoadAnswered'
    BY <2>1, <2>3, <2>5 DEF InOrder, LoadAnswered, ISA!M
  <2> QED BY <2>2, <2>4, <2>6 DEF InOrder
<1> QED BY <1>1, <1>2, <1>3 DEF Next

(* What the processor keeps true from edge to edge: the operands of the      *)
(* instruction are those of its registers, its word is that of memory, the   *)
(* bus answers a load with the word there is, a store waits only after it    *)
(* was written and, until a reset is pressed, a division is its own.         *)
THEOREM MultiInvariant == Spec => []MultiInv
<1>1. Init => MultiInv
  BY TypeInit, InvInit DEF MultiInv
<1> QED BY <1>1, InvStep, PTL DEF Spec

(* memory.sv acknowledges an address it was not asked to read, yet what it   *)
(* answers is the word that is there now.                                    *)
THEOREM AcknowledgedCurrent == Spec => []AcknowledgedIsCurrent
<1>1. MultiInv => AcknowledgedIsCurrent
  <2> SUFFICES ASSUME MultiInv, rst_edges = MinReset PROVE AcknowledgedIsCurrent
    BY DEF AcknowledgedIsCurrent
  <2>1. CASE state = "FETCH"
    BY <2>1 DEF MultiInv, InOrder, MemoryAnswers, Stored, AcknowledgedIsCurrent,
       mem_done, bus_addr
  <2>2. CASE state = "WRITEBACK" /\ insn.op = "LOAD"
    BY <2>2 DEF MultiInv, InOrder, MemoryAnswers, LoadAnswered, Stored,
       AcknowledgedIsCurrent, mem_done, bus_addr, IsLoadStore
  <2> QED BY <2>1, <2>2 DEF AcknowledgedIsCurrent
<1> QED BY <1>1, MultiInvariant, PTL

-----------------------------------------------------------------------------
(* The refinement: each edge is an instruction of RvIsa, a stutter, a reset, *)
(* or a named departure.                                                     *)

(* Before an instruction retires it shows nothing. *)
LEMMA InvisibleStep ==
  ASSUME MultiInv, rst_edges = MinReset, Fetch \/ DecodeStage \/ Execute, ~Retire,
         Devices, UNCHANGED rstVars
  PROVE  UNCHANGED isaVars
<1> USE DEF MultiInv, InOrder
<1>1. pc' = pc /\ registers' = registers
  BY DEF Fetch, DecodeStage, Execute
<1>2. IsaMem' = IsaMem
  <2>1. CASE ~bus_wen
    BY <2>1, MemoryEdge
  <2>2. CASE bus_wen
    <3>1. state = "EXEC" /\ Stored /\ bus_addr = loadstore_addr
      BY <2>2 DEF bus_wen, Retire, Stored, bus_addr, IsLoadStore
    <3>2. bus_addr \in IsaMapped => IsaMem[bus_addr] = rs2_value
      BY <3>1 DEF StoreDone
    <3> QED BY <2>2, <3>2, MemoryEdge DEF ISA!MSET, IsaMem
  <2> QED BY <2>1, <2>2
<1>3. Stored' = Stored
  <2>1. CASE Fetch
    BY <2>1 DEF Fetch, Stored
  <2>2. CASE DecodeStage
    BY <2>2 DEF DecodeStage, Stored, operandVars, inst_is_exec, IsLoadStore
  <2>3. CASE Execute
    BY <2>3 DEF Execute, Stored, operandVars, Retire
  <2> QED BY <2>1, <2>2, <2>3
<1>4. IsaPc' = IsaPc
  BY <1>1, <1>3 DEF IsaPc, pc_advanced
<1> QED BY <1>1, <1>2, <1>4 DEF isaVars

(* A store has already taken effect when it is written back. *)
LEMMA StoreLeaves ==
  ASSUME MultiInv, Writeback, insn.op = "STORE", Devices
  PROVE  UNCHANGED isaVars
<1>1. state = "WRITEBACK" /\ state' = "FETCH" /\ ~bus_wen /\ Stored /\ ~Stored'
  BY DEF Writeback, bus_wen, Stored
<1>2. pc' = pc_advanced /\ registers' = registers
  BY DEF Writeback, pc_next, jumping, inst_has_writeback
<1>3. IsaMem' = IsaMem
  BY <1>1, MemoryEdge DEF MultiInv
<1> QED BY <1>1, <1>2, <1>3 DEF isaVars, IsaPc

(* RvIsa adds addresses as the processor does. *)
LEMMA SamePlus == \A a, b : ISA!Plus(a, b) = Plus(a, b)
  BY DEF ISA!Plus, Plus

(* A store takes effect at the first edge at which it is on the bus. *)
LEMMA StoreRetires ==
  ASSUME MultiInv, Execute, insn.op = "STORE", alu_ready, Devices
  PROVE  ISA!ExecStore(insn)
<1> USE DEF MultiInv, InOrder
<1>1. state = "EXEC" /\ ~Stored /\ Stored' /\ bus_wen /\ bus_addr = loadstore_addr
  BY DEF Execute, Stored, operandVars, bus_wen, bus_addr, IsLoadStore
<1>2. /\ loadstore_addr = Plus(registers[insn.rs1], insn.imm)
      /\ rs2_value = registers[insn.rs2]
  BY <1>1 DEF Operands, Busy, Decoded
<1>3. IsaMem' = ISA!MSET(loadstore_addr, rs2_value)
  BY <1>1, MemoryEdge
<1>4. IsaPc' = Plus(IsaPc, 1) /\ registers' = registers
  BY <1>1 DEF Execute, IsaPc, pc_advanced
<1> QED BY <1>2, <1>3, <1>4, SamePlus DEF ISA!ExecStore, ISA!PcStep

(* The division that retires has its own operands, or a reset is to blame. *)
LEMMA QuotientIsAlu ==
  ASSUME MultiInv, state = "WRITEBACK", insn.op = "OP", is_division => OwnOperands
  PROVE  alu_out = Alu(FALSE, insn.f7, insn.f3, registers[insn.rs1], registers[insn.rs2])
<1> USE DEF MultiInv, InOrder
<1>1. alu_op1 = registers[insn.rs1] /\ alu_op2 = registers[insn.rs2]
  BY DEF Operands, Busy, Decoded
<1>2. /\ insn.f3 \in 0 .. 7 /\ alu_op1 \in Word /\ alu_op2 \in Word
  BY InsnFields DEF TypeOK, OperandType, DecodedType
<1>3. CASE is_division
  <2>1. insn.f3 \in 4 .. 7 /\ insn.f7 = "M"
    BY <1>2, <1>3 DEF is_division
  <2>2. DivOut(insn.f3, Mag(insn.f3, alu_op1), Mag(insn.f3, alu_op2), alu_op1, alu_op2)
          = Alu(FALSE, "M", insn.f3, alu_op1, alu_op2)
    BY <1>2, <2>1, DivisionAssumption
  <2> QED BY <1>1, <1>3, <2>1, <2>2 DEF alu_out, OwnOperands
<1>4. CASE ~is_division
  <2>1. (insn.op = "OP_IMM") = FALSE
    OBVIOUS
  <2> QED BY <1>1, <1>4, <2>1 DEF alu_out
<1> QED BY <1>3, <1>4

(* Anything else takes effect at write back. *)
LEMMA WritebackRetires ==
  ASSUME MultiInv, Writeback, insn.op # "STORE", is_division => OwnOperands, Devices,
         ~(insn.op \in {"SYSTEM", "FENCE"} /\ insn.rd # 0)
  PROVE  ISA!Exec(insn)
<1> USE DEF MultiInv, InOrder
<1>1. /\ state = "WRITEBACK" /\ state' = "FETCH" /\ ~bus_wen /\ ~Stored /\ ~Stored'
      /\ pc' = pc_next
      /\ registers' = IF inst_has_writeback /\ insn.rd # 0
                        THEN [registers EXCEPT ![insn.rd] = writeback_value]
                        ELSE registers
  BY DEF Writeback, bus_wen, Stored
<1>2. IsaMem' = IsaMem /\ IsaPc = pc /\ IsaPc' = pc_next
  BY <1>1, MemoryEdge DEF IsaPc
<1>3. /\ rs1_value = registers[insn.rs1] /\ rs2_value = registers[insn.rs2]
      /\ alu_op1 = rs1_value
      /\ alu_op2 = IF insn.op = "OP" THEN rs2_value ELSE insn.imm_i
      /\ loadstore_addr = Plus(rs1_value, insn.imm_i)
      /\ branch_cond = Taken(insn.f3, rs1_value, rs2_value)
      /\ insn.op \in {"OP_IMM", "LOAD"} => insn.imm_i = insn.imm
  BY <1>1, ImmediateAssumption DEF Operands, Busy, Decoded
<1>4. insn.op \notin {"BRANCH", "STORE"} =>
        registers' = ISA!RSET(insn.rd, writeback_value)
  BY <1>1 DEF inst_has_writeback, ISA!RSET
<1>5. insn.op \notin {"JAL", "JALR", "BRANCH"} => ISA!PcStep
  BY <1>2, SamePlus DEF pc_next, jumping, pc_advanced, ISA!PcStep
<1>6. CASE insn.op = "OP"
  <2>1. writeback_value =
          Alu(FALSE, insn.f7, insn.f3, registers[insn.rs1], registers[insn.rs2])
    BY <1>1, <1>6, QuotientIsAlu DEF writeback_value, inst_is_ALU
  <2> QED BY <1>2, <1>4, <1>5, <1>6, <2>1 DEF ISA!Exec, ISA!ExecOp
<1>7. CASE insn.op = "OP_IMM"
  <2>1. (insn.op = "OP_IMM") = TRUE
    BY <1>7
  <2>2. writeback_value = Alu(TRUE, insn.f7, insn.f3, registers[insn.rs1], insn.imm)
    BY <1>3, <1>7, <2>1 DEF writeback_value, inst_is_ALU, alu_out, is_division
  <2> QED BY <1>2, <1>4, <1>5, <1>7, <2>2 DEF ISA!Exec, ISA!ExecOpImm
<1>8. CASE insn.op = "LOAD"
  <2>1. writeback_value = ISA!M(Plus(registers[insn.rs1], insn.imm))
    BY <1>1, <1>3, <1>8 DEF writeback_value, inst_is_ALU, LoadAnswered
  <2> QED BY <1>2, <1>4, <1>5, <1>8, <2>1, SamePlus DEF ISA!Exec, ISA!ExecLoad
<1>9. CASE insn.op = "BRANCH"
  <2>1. registers' = registers
    BY <1>1, <1>9 DEF inst_has_writeback
  <2>2. pc_next = IF Taken(insn.f3, registers[insn.rs1], registers[insn.rs2])
                    THEN Plus(pc, insn.imm) ELSE Plus(pc, 1)
    BY <1>3, <1>9 DEF pc_next, jumping, pc_advanced
  <2> QED BY <1>2, <1>9, <2>1, <2>2, SamePlus
      DEF ISA!Exec, ISA!ExecBranch, ISA!PcStep
<1>10. CASE insn.op \in {"JAL", "JALR"}
  <2>1. writeback_value = Plus(pc, 1)
    BY <1>10 DEF writeback_value, pc_advanced, inst_is_ALU
  <2>2. pc_next = Plus(IF insn.op = "JALR" THEN registers[insn.rs1] ELSE pc, insn.imm)
    BY <1>3, <1>10 DEF pc_next, jumping
  <2> QED BY <1>2, <1>4, <1>10, <2>1, <2>2, SamePlus
      DEF ISA!Exec, ISA!ExecJal, ISA!ExecJalr
<1>11. CASE insn.op \in {"LUI", "AUIPC"}
  <2>1. writeback_value = IF insn.op = "LUI" THEN insn.imm ELSE Plus(pc, insn.imm)
    BY <1>11 DEF writeback_value, inst_is_ALU
  <2> QED BY <1>2, <1>4, <1>5, <1>11, <2>1, SamePlus DEF ISA!Exec, ISA!ExecUpper
<1>12. CASE insn.op \in {"SYSTEM", "FENCE"}
  <2>1. registers' = registers
    BY <1>1, <1>12
  <2> QED BY <1>2, <1>5, <1>12, <2>1 DEF ISA!Exec, ISA!ExecSystem, ISA!ExecOther
<1>13. insn.op \in Opcode
  BY InsnFields DEF TypeOK, OperandType
<1> QED
  BY <1>6, <1>7, <1>8, <1>9, <1>10, <1>11, <1>12, <1>13 DEF Opcode

(* The processor runs the word RvIsa would run; otherwise the departure that *)
(* explains the difference is one of the named ones.                         *)
LEMMA RunsTheWord ==
  ASSUME MultiInv, Retire, ISA!Exec(insn)
  PROVE  ISA!Next \/ ExecutesIllegal \/ StaleFetch
<1>1. Busy /\ ~Stored /\ IsaPc = pc
  BY DEF Retire, Busy, Stored, IsaPc
<1>2. CASE insn = Decode[ISA!M(pc)]
  BY <1>1, <1>2 DEF ISA!Next, ISA!Step, ExecutesIllegal
<1>3. CASE insn # Decode[ISA!M(pc)]
  <2>1. pc \in SpAddr
    BY <1>1, <1>3 DEF MultiInv, InOrder, FetchedIsCurrent
  <2>2. ISA!M(pc) = spram[pc]
    BY <2>1 DEF ISA!M, IsaMapped, IsaMem
  <2> QED BY <1>3, <2>1, <2>2 DEF StaleFetch
<1> QED BY <1>2, <1>3

(* An instruction retires. *)
LEMMA RetireStep ==
  ASSUME MultiInv, Tick, Retire
  PROVE  ISA!Next \/ Departs
<1> USE DEF MultiInv
<1>1. CASE insn.op = "STORE"
  <2>1. Execute /\ Devices /\ alu_ready
    BY <1>1 DEF Tick, Retire, Fetch, DecodeStage, Writeback, NoState
  <2>2. ISA!Exec(insn)
    BY <1>1, <2>1, StoreRetires DEF ISA!Exec
  <2> QED BY <2>2, RunsTheWord DEF Departs
<1>2. CASE insn.op # "STORE"
  <2>1. state = "WRITEBACK" /\ Writeback /\ Devices
    BY <1>2 DEF Tick, Retire, Fetch, DecodeStage, Execute, NoState
  <2>2. /\ pc' = pc_next /\ IsaMem' = IsaMem /\ IsaPc = pc /\ IsaPc' = pc_next
        /\ registers' = IF inst_has_writeback /\ insn.rd # 0
                          THEN [registers EXCEPT ![insn.rd] = writeback_value]
                          ELSE registers
    BY <1>2, <2>1, MemoryEdge DEF Writeback, IsaPc, Stored, bus_wen
  <2>3. CASE insn.op \in {"SYSTEM", "FENCE"} /\ insn.rd # 0
    <3>1. writeback_value = 0 /\ inst_has_writeback /\ pc_next = pc_advanced
      BY <2>3 DEF writeback_value, inst_is_ALU, inst_has_writeback, pc_next, jumping
    <3> QED BY <2>2, <2>3, <3>1 DEF WritesZero, Departs
  <2>4. CASE is_division /\ ~OwnOperands
    <3>1. resets > 0
      BY <2>1, <2>4 DEF InOrder, DividesOwn, TypeOK, ControlType
    <3>2. pc_next = pc_advanced
      BY <2>4 DEF is_division, pc_next, jumping
    <3>3. \A r \in Reg \ {insn.rd} : registers'[r] = registers[r]
      BY <2>2 DEF TypeOK, ControlType
    <3> QED BY <2>2, <2>4, <3>1, <3>2, <3>3 DEF DividesOthersOperands, OwnOperands, Departs
  <2>5. CASE /\ ~(insn.op \in {"SYSTEM", "FENCE"} /\ insn.rd # 0)
             /\ is_division => OwnOperands
    <3>1. ISA!Exec(insn)
      BY <1>2, <2>1, <2>5, WritebackRetires
    <3> QED BY <3>1, RunsTheWord DEF Departs
  <2> QED BY <2>3, <2>4, <2>5
<1> QED BY <1>1, <1>2

(* A tick at which nothing retires. *)
LEMMA QuietStep ==
  ASSUME MultiInv, Tick, ~Retire
  PROVE  UNCHANGED isaVars
<1>1. Devices /\ rst_edges = MinReset /\ UNCHANGED rstVars /\ ~NoState
  BY DEF Tick, NoState, MultiInv, InOrder, Phases
<1>2. CASE Writeback
  <2>1. insn.op = "STORE"
    BY <1>1, <1>2 DEF Writeback, Retire
  <2> QED BY <1>1, <1>2, <2>1, StoreLeaves
<1>3. CASE Fetch \/ DecodeStage \/ Execute
  BY <1>1, <1>3, InvisibleStep
<1> QED BY <1>1, <1>2, <1>3 DEF Tick

(* A reset is the reset of the sequential machine, and lets the store on the *)
(* bus through.                                                              *)
LEMMA ResetStep ==
  ASSUME MultiInv, HoldReset \/ PressReset
  PROVE  IsaReset
<1>1. CpuReset /\ Devices
  BY DEF HoldReset, PressReset
<1>2. pc' = 0 /\ ~Stored' /\ registers' = registers
  BY <1>1 DEF CpuReset, Stored
<1> QED BY <1>1, <1>2, MemoryEdge DEF IsaReset, IsaPc, MultiInv

(* Whatever the program, the arithmetic, the sizes and the resets, every     *)
(* clock edge of the multi-cycle processor is an instruction of the          *)
(* sequential machine, invisible to it, a reset of it, or one of the         *)
(* departures named in CpuMultiCycleIsa.                                     *)
THEOREM FollowsTheIsa == Spec => FollowsIsa
<1>1. MultiInv /\ [Next]_vars => [ISA!Next \/ IsaReset \/ Departs]_isaVars
  <2> SUFFICES ASSUME MultiInv, [Next]_vars
               PROVE  [ISA!Next \/ IsaReset \/ Departs]_isaVars
    OBVIOUS
  <2>1. CASE Tick
    BY <2>1, RetireStep, QuietStep
  <2>2. CASE HoldReset \/ PressReset
    BY <2>2, ResetStep
  <2>3. CASE UNCHANGED vars
    BY <2>3 DEF vars, operandVars, memVars, spVars, isaVars, IsaPc, IsaMem, Stored,
       pc_advanced
  <2> QED BY <2>1, <2>2, <2>3 DEF Next
<1> QED BY <1>1, MultiInvariant, PTL DEF Spec, FollowsIsa

(* A program that meets no departure, on a processor nobody resets again,    *)
(* runs exactly as on the sequential machine.                                *)
THEOREM ImplementsTheIsa ==
  Spec /\ [][~PressReset /\ ~Departs]_vars => ISA!Spec
<1>1. Init => ISA!Init
  <2> SUFFICES ASSUME Init PROVE ISA!Init
    OBVIOUS
  <2>1. IsaPc = 0 /\ registers \in InitRegs
    BY DEF Init, IsaPc, Stored
  <2>2. memory \in [0 .. MemSize - 1 -> Word] /\ spram \in [SpAddr -> Word]
    BY TypeInit DEF TypeOK, MemType, SpType
  <2>3. IsaMem \in [IsaMapped -> Word]
    BY <2>2 DEF IsaMem, IsaMapped
  <2> QED BY <2>1, <2>3 DEF ISA!Init, ISA!Word, Word
<1>2. MultiInv /\ [Next]_vars /\ [~PressReset /\ ~Departs]_vars => [ISA!Next]_isaVars
  <2> SUFFICES ASSUME MultiInv, [Next]_vars, [~PressReset /\ ~Departs]_vars
               PROVE  [ISA!Next]_isaVars
    OBVIOUS
  <2>1. CASE UNCHANGED vars
    BY <2>1 DEF vars, operandVars, memVars, spVars, isaVars, IsaPc, IsaMem, Stored,
       pc_advanced
  <2>2. CASE Tick /\ ~Departs
    BY <2>2, RetireStep, QuietStep
  <2>3. CASE HoldReset
    <3>1. IsaReset
      BY <2>3, ResetStep
    <3>2. IsaPc = 0 /\ ~bus_wen
      BY <2>3 DEF HoldReset, MultiInv, InOrder, Phases, IsaPc, Stored, bus_wen
    <3> QED BY <3>1, <3>2 DEF IsaReset, isaVars
  <2> QED BY <2>1, <2>2, <2>3 DEF Next
<1> QED BY <1>1, <1>2, MultiInvariant, PTL DEF Spec, ISA!Spec, isaVars, ISA!vars
=============================================================================

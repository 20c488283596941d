------------------------- MODULE CpuPipelinedProofs -------------------------
(***************************************************************************)
(* Proofs about the pipeline, for every memory size, word size, program,    *)
(* arithmetic and number of resets: its invariants, that it is the          *)
(* sequential machine RvIsa but for the departures CpuPipelinedIsa names,   *)
(* and that the test bench of main.cpp finds no difference between it and   *)
(* the simulator where it meets none of them.                               *)
(***************************************************************************)
EXTENDS CpuPipelinedIsa, CoSim, TLAPS

USE WordAssumption, RegAssumption, MemAssumption, DivAssumption

-----------------------------------------------------------------------------
(* What the wires carry in a state that satisfies TypeOK. *)

(* Address arithmetic stays within a word. *)
LEMMA PlusType == \A a \in Word, b \in Word \cup {1} : Plus(a, b) \in Word
  BY DEF Plus, Word

(* Zero is a word. *)
LEMMA ZeroWord == 0 \in Word
  BY DEF Word

(* Any address, wrapped, indexes the memory. *)
LEMMA WrapType == \A a \in Word : a % MemSize \in 0 .. MemSize - 1
  BY DEF Word

(* The fields of whatever a stage holds. *)
LEMMA InsnFields ==
  ASSUME NEW i \in StageInsn
  PROVE  /\ i.rd \in Reg /\ i.rs1 \in Reg /\ i.rs2 \in Reg
         /\ i.imm \in Word /\ i.imm_i \in Word
         /\ i.f3 \in 0 .. 7 /\ i.f7 \in {"I", "SUB", "M"}
         /\ i.ok \in BOOLEAN
<1>1. CASE i \in Insn
  BY <1>1 DEF Insn
<1>2. CASE i = NoInsn
  BY <1>2, ZeroWord DEF NoInsn
<1> QED BY <1>1, <1>2 DEF StageInsn

(* The address EX puts on the bus. *)
LEMMA BusAddrType == TypeOK => bus_addr \in Word
  BY InsnFields, PlusType, ZeroWord DEF TypeOK, ExType, bus_addr

(* What the bus returns and what is written back. *)
LEMMA WBValueType == TypeOK => bus_rdata \in Word /\ WB_value \in Word
  BY ZeroWord DEF TypeOK, MemType, BusType, WbType, bus_rdata, WB_value

(* What decode sees and reads. *)
LEMMA DecodeType ==
  TypeOK => /\ DE_insn \in StageInsn
            /\ DE_valid => DE_insn \in Insn
            /\ DE_pc_unsafe \in BOOLEAN
            /\ \A r \in Reg : ReadReg(r) \in Word
<1> SUFFICES ASSUME TypeOK PROVE /\ DE_insn \in StageInsn
                                 /\ DE_valid => DE_insn \in Insn
                                 /\ DE_pc_unsafe \in BOOLEAN
                                 /\ \A r \in Reg : ReadReg(r) \in Word
  OBVIOUS
<1>1. DE_valid => DE_insn \in Insn
  BY DecodeAssumption DEF TypeOK, FeType, DE_insn
<1>2. DE_insn \in StageInsn
  BY <1>1 DEF DE_insn, StageInsn
<1>3. DE_pc_unsafe \in BOOLEAN
  BY DEF DE_pc_unsafe, Unsafe
<1>4. \A r \in Reg : ReadReg(r) \in Word
  BY WBValueType DEF TypeOK, MemType, WbType, ReadReg
<1> QED BY <1>1, <1>2, <1>3, <1>4

(* What the ALU and EX hand to WB. *)
LEMMA ResultType == TypeOK => EX_result \in Word /\ EX_jump_pc \in Word
<1> SUFFICES ASSUME TypeOK PROVE EX_result \in Word /\ EX_jump_pc \in Word
  OBVIOUS
<1>1. /\ EX_insn.imm \in Word /\ EX_insn.imm_i \in Word /\ EX_insn.f3 \in 0 .. 7
      /\ EX_insn.f7 \in {"I", "SUB", "M"}
  BY InsnFields DEF TypeOK, ExType
<1>2. alu_op1 \in Word /\ alu_op2 \in Word
  BY <1>1 DEF TypeOK, ExType, alu_op1, alu_op2
<1>3. is_division => EX_insn.f3 \in 4 .. 7
  BY <1>1 DEF is_division
<1>4. alu_out \in Word => EX_result \in Word
  BY <1>1, PlusType, ZeroWord DEF TypeOK, ExType, EX_result
<1>5. EX_jump_pc \in Word
  BY <1>1, PlusType DEF TypeOK, ExType, WbType, EX_jump_pc
<1>6. CASE is_division
  <2>1. alu_out = DivOut(EX_insn.f3, dividend, divisor, alu_op1, alu_op2)
    BY <1>6 DEF alu_out
  <2> QED BY <1>2, <1>3, <1>4, <1>5, <1>6, <2>1, DivOutAssumption DEF TypeOK, DivType
<1>7. CASE ~is_division
  <2>1. alu_out = Alu(is_imm, EX_insn.f7, EX_insn.f3, alu_op1, alu_op2)
    BY <1>7 DEF alu_out
  <2>2. is_imm \in BOOLEAN
    BY DEF is_imm
  <2> QED BY <1>1, <1>2, <1>4, <1>5, <2>1, <2>2, AluAssumption
<1> QED BY <1>6, <1>7

-----------------------------------------------------------------------------
(* Type correctness. *)

(* One edge, with or without reset, keeps every register within its type.    *)
LEMMA ClockType ==
  ASSUME TypeOK, NEW rst \in BOOLEAN, Clock(rst)
  PROVE  FeType' /\ ExType' /\ DivType' /\ WbType' /\ MemType' /\ BusType'
<1>1. FeType'
  <2>1. fetch_pc \in Word
    BY DEF TypeOK, FeType, WbType, fetch_pc
  <2>2. Plus(fetch_pc, 1) \in Word
    BY <2>1, PlusType
  <2>3. progMEM[fetch_pc % MemSize] \in Word
    BY <2>1, WrapType DEF TypeOK, MemType
  <2> QED
    BY <2>1, <2>2, <2>3, ZeroWord DEF TypeOK, FeType, Clock, FetchClock, feVars
<1>2. ExType'
  <2>1. NoInsn \in StageInsn
    BY DEF StageInsn
  <2>2. /\ DE_insn \in StageInsn /\ DE_pc_unsafe \in BOOLEAN
        /\ DE_insn.ok \in BOOLEAN
        /\ ReadReg(DE_insn.rs1) \in Word /\ ReadReg(DE_insn.rs2) \in Word
    BY DecodeType, InsnFields
  <2> QED
    BY <2>1, <2>2, ZeroWord DEF TypeOK, ExType, FeType, Clock, DecodeClock
<1>3. DivType'
  <2>1. EX_insn.f3 \in 0 .. 7 /\ alu_op1 \in Word /\ alu_op2 \in Word
    BY InsnFields DEF TypeOK, ExType, alu_op1, alu_op2
  <2>2. /\ Mag(EX_insn.f3, alu_op1) \in Word
        /\ Mag(EX_insn.f3, alu_op2) \in Word
    BY <2>1, MagAssumption
  <2> QED
    BY <2>2 DEF TypeOK, DivType, Clock, DividerClock, division_done
<1>4. WbType'
  <2>1. EX_result \in Word /\ EX_jump_pc \in Word /\ EX_insn.rd \in Reg
    BY ResultType, InsnFields DEF TypeOK, ExType
  <2>2. IsLoadStore(EX_insn) \in BOOLEAN
    BY DEF IsLoadStore
  <2> QED
    BY <2>1, <2>2, ZeroWord
       DEF TypeOK, WbType, ExType, Clock, ExecuteClock, wbVars
<1>5. MemType'
  <2>1. progMEM' \in [0 .. MemSize - 1 -> Word]
    BY BusAddrType
       DEF TypeOK, MemType, ExType, Clock, MemoryClock, DeviceAt, Word
  <2>2. progMEM_rdata' \in Word
    BY BusAddrType, WrapType DEF TypeOK, MemType, Clock, MemoryClock
  <2>3. registers' \in [Reg -> Word]
    BY WBValueType DEF TypeOK, MemType, WbType, Clock, WritebackClock
  <2> QED BY <2>1, <2>2, <2>3 DEF MemType
<1>6. BusType'
  <2>1. dev_n_selected' \in {"none", "pp", "mem"}
    BY DEF Clock, HubClock, DeviceAt
  <2>2. io' \in Word
    BY DEF TypeOK, BusType, ExType, Clock, PortClock
  <2>3. {mem_done', pp_ready'} \subseteq BOOLEAN
    BY DEF Clock, MemoryClock, PortClock
  <2> QED BY <2>1, <2>2, <2>3 DEF BusType
<1> QED BY <1>1, <1>2, <1>3, <1>4, <1>5, <1>6

(* The power-on state is well typed. *)
LEMMA InitType == Init => TypeOK
<1> SUFFICES ASSUME Init PROVE TypeOK
  OBVIOUS
<1>1. FeType
  BY ZeroWord DEF Init, FeType
<1>2. DivType
  <2>1. bitctr \in 0 .. DivSteps
    BY DEF Init
  <2> QED BY <2>1, ZeroWord DEF Init, DivType
<1>3. ExType
  BY ZeroWord DEF Init, ExType, StageInsn
<1>4. WbType /\ BusType
  BY ZeroWord DEF Init, WbType, BusType
<1>5. MemType
  BY ZeroWord, InitRegsAssumption, InitProgAssumption DEF Init, MemType
<1>6. resets \in 0 .. MaxResets
  BY DEF Init
<1> QED BY <1>1, <1>2, <1>3, <1>4, <1>5, <1>6 DEF TypeOK

(* Every step keeps the types. *)
LEMMA NextType == TypeOK /\ [Next]_vars => TypeOK'
<1> SUFFICES ASSUME TypeOK, [Next]_vars PROVE TypeOK'
  OBVIOUS
<1>1. CASE Tick
  BY <1>1, ClockType DEF Tick, TypeOK
<1>2. CASE Reset
  <2>1. resets' \in 0 .. MaxResets
    BY <1>2 DEF Reset, TypeOK
  <2>2. FeType' /\ ExType' /\ DivType' /\ WbType' /\ MemType' /\ BusType'
    BY <1>2, ClockType DEF Reset
  <2> QED BY <2>1, <2>2 DEF TypeOK
<1>3. CASE UNCHANGED vars
  BY <1>3 DEF vars, memVars, feVars, exVars, divVars, wbVars, busVars,
              TypeOK, FeType, ExType, DivType, WbType, MemType, BusType
<1> QED BY <1>1, <1>2, <1>3 DEF Next

(* Every register of the processor and its SoC always holds a value of its   *)
(* width: no index leaves the memory or the register file, no counter wraps. *)
THEOREM TypeCorrect == Spec => []TypeOK
  BY InitType, NextType, PTL DEF Spec

-----------------------------------------------------------------------------
(* The inductive invariant of the safety properties.                         *)

(* An access that has reached WB is acknowledged there by the device the hub *)
(* registered for it.                                                        *)
BusAnswered ==
  WB_valid /\ WB_is_load_store =>
    /\ dev_n_selected = "mem" => mem_done
    /\ dev_n_selected = "pp" => pp_ready

(* Behind an instruction that may redirect the fetch there is nothing: in EX *)
(* the flag with a full DE belongs to a bubble in front of that instruction. *)
RedirectAlone ==
  /\ EX_pc_unsafe /\ DE_valid => ~EX_valid /\ DE_pc_unsafe
  /\ WB_valid /\ WB_pc_unsafe => ~EX_valid /\ ~DE_valid /\ ~EX_pc_unsafe

PipeInv == TypeOK /\ BusAnswered /\ RedirectAlone /\ InOrder /\ OperandsCurrent

(* An empty decode stage neither waits nor stops the fetch. *)
LEMMA EmptyDecode ==
  ~DE_valid => ~DE_pc_unsafe /\ ~DE_hazard
  BY DEF DE_insn, NoInsn, DE_pc_unsafe, Unsafe, DE_hazard, DependsOnEX,
         DE_has_rs2

(* Write back is open whenever its access has been answered. *)
LEMMA AnsweredIsOpen == TypeOK /\ BusAnswered => WB_open
  BY DEF TypeOK, BusType, BusAnswered, WB_open, bus_done

(* A clock edge without reset acknowledges the access it moves into WB.      *)
LEMMA ClockAnswers ==
  ASSUME TypeOK, BusAnswered, NEW rst \in BOOLEAN, Clock(rst)
  PROVE  BusAnswered'
<1>1. CASE rst
  BY <1>1 DEF Clock, ExecuteClock, flush_EX, BusAnswered
<1>2. CASE ~rst /\ EX_done /\ EX_valid
  <2>1. WB_is_load_store' => bus_ren \/ bus_wen
    BY <1>2, AnsweredIsOpen
       DEF Clock, ExecuteClock, flush_EX, IsLoadStore, bus_ren, bus_wen
  <2> QED
    BY <2>1 DEF Clock, MemoryClock, PortClock, HubClock, BusAnswered
<1>3. CASE ~rst /\ ~(EX_done /\ EX_valid)
  BY <1>3, AnsweredIsOpen DEF Clock, ExecuteClock, flush_EX, BusAnswered
<1> QED BY <1>1, <1>2, <1>3

(* A clock edge keeps redirecting instructions alone. *)
LEMMA ClockRedirects ==
  ASSUME PipeInv, NEW rst \in BOOLEAN, Clock(rst)
  PROVE  RedirectAlone'
<1> USE DEF PipeInv
<1>1. WB_open
  BY AnsweredIsOpen
<1>2. CASE rst
  BY <1>2 DEF Clock, FetchClock, DecodeClock, ExecuteClock, flush_FE,
              flush_DE, flush_EX, RedirectAlone
<1>3. CASE ~rst
  <2>1. EX_pc_unsafe' /\ DE_valid' => ~EX_valid' /\ DE_pc_unsafe'
    <3>1. CASE ~EX_open
      BY <1>3, <3>1 DEF Clock, FetchClock, DecodeClock, flush_FE, flush_DE,
           DE_open, RedirectAlone, feVars, DE_pc_unsafe, DE_insn
    <3>2. CASE EX_open /\ DE_hazard
      <4>1. UNCHANGED feVars /\ EX_valid' = FALSE /\ EX_pc_unsafe' = DE_pc_unsafe
        BY <1>3, <3>2 DEF Clock, FetchClock, DecodeClock, flush_FE, flush_DE,
                          DE_open
      <4> QED BY <4>1 DEF feVars, DE_pc_unsafe, DE_insn
    <3>3. CASE EX_open /\ ~DE_hazard
      <4>1. EX_pc_unsafe' = DE_pc_unsafe
        BY <1>3, <3>3 DEF Clock, DecodeClock, flush_DE
      <4>2. DE_valid' = ~unsafe_executing
        BY <1>3, <3>3 DEF Clock, FetchClock, flush_FE, DE_open
      <4> QED BY <4>1, <4>2 DEF unsafe_executing
    <3> QED BY <3>1, <3>2, <3>3
  <2>2. ASSUME WB_valid', WB_pc_unsafe'
        PROVE  ~EX_valid' /\ ~DE_valid' /\ ~EX_pc_unsafe'
    <3>1. EX_valid /\ EX_done /\ EX_pc_unsafe
      BY <1>1, <1>3, <2>2 DEF Clock, ExecuteClock, flush_EX
    <3>2. ~DE_valid
      BY <3>1 DEF RedirectAlone
    <3>3. ~DE_pc_unsafe /\ DE_open /\ unsafe_executing
      BY <1>1, <3>1, <3>2, EmptyDecode DEF DE_open, EX_open, unsafe_executing
    <3> QED
      BY <1>3, <3>2, <3>3 DEF Clock, FetchClock, DecodeClock, flush_FE,
                              flush_DE, DE_open
  <2> QED BY <2>1, <2>2 DEF RedirectAlone
<1> QED BY <1>2, <1>3

(* A clock edge neither duplicates nor drops an instruction. *)
LEMMA ClockInOrder ==
  ASSUME PipeInv, NEW rst \in BOOLEAN, Clock(rst)
  PROVE  InOrder'
<1> USE DEF PipeInv
<1>1. CASE rst
  BY <1>1 DEF Clock, FetchClock, DecodeClock, flush_FE, flush_DE, InOrder
<1>2. CASE ~rst /\ ~EX_open
  BY <1>2 DEF Clock, FetchClock, DecodeClock, flush_FE, flush_DE, DE_open,
              feVars, InOrder
<1>3. CASE ~rst /\ EX_open /\ DE_valid /\ ~DE_hazard
  <2>1. /\ EX_pc' = DE_pc /\ EX_pc_unsafe' = DE_pc_unsafe
    BY <1>3 DEF Clock, DecodeClock, flush_DE
  <2>2. fetch_pc = Plus(DE_pc, 1)
    BY <1>3 DEF fetch_pc, RedirectAlone, InOrder
  <2>3. unsafe_executing => DE_pc_unsafe
    BY <1>3 DEF unsafe_executing, RedirectAlone
  <2>4. CASE unsafe_executing
    <3>1. DE_valid' = FALSE
      BY <1>3, <2>4 DEF Clock, FetchClock, flush_FE, DE_open
    <3> QED BY <2>1, <2>3, <2>4, <3>1 DEF InOrder
  <2>5. CASE ~unsafe_executing
    <3>1. DE_valid' /\ DE_pc' = fetch_pc /\ FE_pc' = Plus(fetch_pc, 1)
      BY <1>3, <2>5 DEF Clock, FetchClock, flush_FE, DE_open
    <3> QED BY <2>1, <2>2, <2>5, <3>1 DEF InOrder, unsafe_executing
  <2> QED BY <2>4, <2>5
<1>4. CASE ~rst /\ EX_open /\ ~(DE_valid /\ ~DE_hazard)
  <2>1. EX_valid' = FALSE
    BY <1>4 DEF Clock, DecodeClock, flush_DE
  <2>2. DE_valid' => FE_pc' = Plus(DE_pc', 1)
    BY <1>4 DEF Clock, FetchClock, flush_FE, feVars, InOrder
  <2> QED BY <2>1, <2>2 DEF InOrder
<1> QED BY <1>1, <1>2, <1>3, <1>4

(* What decode reads is what the register file holds after the edge. *)
LEMMA ReadRegIsNext ==
  ASSUME TypeOK, Clock(FALSE), NEW r \in Reg
  PROVE  ReadReg(r) = registers'[r]
  BY DEF TypeOK, MemType, WbType, Clock, WritebackClock, flush_WB, ReadReg

(* A clock edge keeps the operands in EX those of program order. *)
LEMMA ClockOperands ==
  ASSUME PipeInv, NEW rst \in BOOLEAN, Clock(rst)
  PROVE  OperandsCurrent'
<1> USE DEF PipeInv
<1>1. WB_open
  BY AnsweredIsOpen
<1>2. CASE rst
  BY <1>2 DEF Clock, DecodeClock, flush_DE, OperandsCurrent
<1>3. CASE ~rst /\ ~EX_open
  <2>1. EX_valid /\ WB_valid' = FALSE
    BY <1>1, <1>3 DEF EX_open, EX_done, Clock, ExecuteClock, flush_EX
  <2>2. registers' = IsaX
    BY <1>3 DEF Clock, WritebackClock, flush_WB, IsaX
  <2>3. IsaX' = IsaX
    BY <2>1, <2>2 DEF IsaX
  <2>4. UNCHANGED <<EX_insn, EX_rs1, EX_rs2, EX_valid>>
    BY <1>3 DEF Clock, DecodeClock, flush_DE
  <2> QED BY <2>3, <2>4 DEF OperandsCurrent
<1>4. CASE ~rst /\ EX_open /\ DE_valid /\ ~DE_hazard
  <2>1. /\ EX_insn' = DE_insn
        /\ EX_rs1' = ReadReg(DE_insn.rs1) /\ EX_rs2' = ReadReg(DE_insn.rs2)
    BY <1>4 DEF Clock, DecodeClock, flush_DE
  <2>2. DE_insn.rs1 \in Reg /\ DE_insn.rs2 \in Reg
    BY DecodeType, InsnFields
  <2>3. ASSUME NEW r \in Reg, ~DependsOnEX(r)
        PROVE  ReadReg(r) = IsaX'[r]
    <3>1. ReadReg(r) = registers'[r]
      BY <1>4, ReadRegIsNext
    <3>2. WB_valid' => EX_valid /\ WB_rd_idx' \in {0, EX_insn.rd}
      BY <1>1, <1>4 DEF Clock, ExecuteClock, flush_EX
    <3>3. WB_valid' /\ WB_rd_idx' # 0 => WB_rd_idx' # r
      BY <2>3, <3>2 DEF DependsOnEX
    <3>4. TypeOK' => registers' \in [Reg -> Word] /\ WB_rd_idx' \in Reg
      BY DEF TypeOK, MemType, WbType
    <3>5. MemType' /\ WbType'
      BY ClockType
    <3> QED BY <3>1, <3>3, <3>5 DEF IsaX, MemType, WbType
  <2>4. DE_insn.op \notin {"JAL", "AUIPC"} => ~DependsOnEX(DE_insn.rs1)
    BY <1>4 DEF DE_hazard, DE_has_rs1
  <2>5. DE_insn.op \in {"OP", "STORE", "BRANCH"} => ~DependsOnEX(DE_insn.rs2)
    BY <1>4 DEF DE_hazard, DE_has_rs2
  <2> QED BY <2>1, <2>2, <2>3, <2>4, <2>5 DEF OperandsCurrent
<1>5. CASE ~rst /\ EX_open /\ ~(DE_valid /\ ~DE_hazard)
  BY <1>5 DEF Clock, DecodeClock, flush_DE, OperandsCurrent
<1> QED BY <1>2, <1>3, <1>4, <1>5

(* The inductive invariant holds in every reachable state. *)
THEOREM PipeInvariant == Spec => []PipeInv
<1>1. Init => PipeInv
  <2> SUFFICES ASSUME Init PROVE PipeInv
    OBVIOUS
  <2>1. BusAnswered /\ RedirectAlone /\ InOrder /\ OperandsCurrent
    BY DEF Init, BusAnswered, RedirectAlone, InOrder, OperandsCurrent
  <2> QED BY <2>1, InitType DEF PipeInv
<1>2. PipeInv /\ [Next]_vars => PipeInv'
  <2> SUFFICES ASSUME PipeInv, [Next]_vars PROVE PipeInv'
    OBVIOUS
  <2>1. TypeOK'
    BY NextType DEF PipeInv
  <2>2. ASSUME NEW rst \in BOOLEAN, Clock(rst) PROVE PipeInv'
    BY <2>1, <2>2, ClockAnswers, ClockRedirects, ClockInOrder, ClockOperands
       DEF PipeInv
  <2>3. CASE UNCHANGED vars
    <3>1. BusAnswered'
      BY <2>3 DEF PipeInv, BusAnswered, vars, memVars, wbVars, busVars
    <3>2. RedirectAlone'
      BY <2>3 DEF PipeInv, RedirectAlone, vars, feVars, exVars, wbVars,
                  DE_pc_unsafe, DE_insn
    <3>3. InOrder'
      BY <2>3 DEF PipeInv, InOrder, vars, feVars, exVars
    <3>4. OperandsCurrent'
      <4>1. bus_addr' = bus_addr
        BY <2>3 DEF bus_addr, IsLoadStore, Plus, vars, exVars
      <4>2. WB_value' = WB_value
        BY <2>3, <4>1 DEF WB_value, bus_rdata, DeviceAt, vars, memVars, wbVars,
                          busVars
      <4>3. IsaX' = IsaX
        BY <2>3, <4>2 DEF IsaX, vars, wbVars
      <4> QED BY <2>3, <4>3 DEF PipeInv, OperandsCurrent, vars, exVars
    <3> QED BY <2>1, <3>1, <3>2, <3>3, <3>4 DEF PipeInv
  <2> QED BY <2>2, <2>3 DEF Next, Tick, Reset
<1> QED BY <1>1, <1>2, PTL DEF Spec

(* Write back never holds the pipeline up: with the devices of this SoC the  *)
(* acknowledgement is always there, whatever the program and the resets.     *)
THEOREM NeverBlocks == Spec => []WritebackNeverBlocks
<1>1. PipeInv => WritebackNeverBlocks
  BY AnsweredIsOpen DEF PipeInv, WritebackNeverBlocks
<1> QED BY <1>1, PipeInvariant, PTL

(* The one cycle a redirect spends in WB is always enough. *)
THEOREM RedirectsTaken == Spec => []RedirectTaken
<1>1. PipeInv => RedirectTaken
  BY AnsweredIsOpen, EmptyDecode
     DEF PipeInv, RedirectTaken, RedirectAlone, DE_open, EX_open, EX_done,
         unsafe_executing
<1> QED BY <1>1, PipeInvariant, PTL

(* Fetch hands every instruction on exactly once and in order. *)
THEOREM KeepsOrder == Spec => []InOrder
<1>1. PipeInv => InOrder
  BY DEF PipeInv
<1> QED BY <1>1, PipeInvariant, PTL

(* Interlock and forwarding give EX the operands of program order. *)
THEOREM OperandsAreCurrent == Spec => []OperandsCurrent
<1>1. PipeInv => OperandsCurrent
  BY DEF PipeInv
<1> QED BY <1>1, PipeInvariant, PTL

-----------------------------------------------------------------------------
(* The refinement: seen where instructions leave EX, the pipeline is RvIsa.  *)

(* What EX executes is a decoded word, and its flag is that word's. *)
DecodedInEX ==
  EX_valid =>
    /\ EX_insn.ok /\ \E w \in Word : EX_insn = Decode[w]
    /\ EX_pc_unsafe = Unsafe(EX_insn)

(* A word that is no instruction is followed by the next one, also when its  *)
(* opcode stops the fetch.                                                   *)
IllegalInOrder ==
  EX_begin /\ ~EX_valid =>
    /\ DE_valid => DE_pc = Plus(EX_pc, 1)
    /\ ~DE_valid => EX_pc_unsafe /\ FE_pc = Plus(EX_pc, 1)

FollowInv == PipeInv /\ DecodedInEX /\ IllegalInOrder

(* Both added parts are kept by an edge. *)
LEMMA ClockFollows ==
  ASSUME FollowInv, NEW rst \in BOOLEAN, Clock(rst)
  PROVE  DecodedInEX' /\ IllegalInOrder'
<1> USE DEF FollowInv, PipeInv
<1>1. CASE rst
  BY <1>1 DEF Clock, DecodeClock, flush_DE, DecodedInEX, IllegalInOrder
<1>2. CASE ~rst /\ ~EX_open
  <2>1. UNCHANGED <<EX_insn, EX_valid, EX_pc_unsafe>> /\ EX_begin' = FALSE
    BY <1>2 DEF Clock, DecodeClock, flush_DE
  <2> QED BY <2>1 DEF DecodedInEX, IllegalInOrder
<1>3. CASE ~rst /\ EX_open /\ ~(DE_valid /\ ~DE_hazard)
  <2>1. EX_valid' = FALSE /\ EX_begin' = FALSE
    BY <1>3 DEF Clock, DecodeClock, flush_DE
  <2> QED BY <2>1 DEF DecodedInEX, IllegalInOrder
<1>4. CASE ~rst /\ EX_open /\ DE_valid /\ ~DE_hazard
  <2>1. /\ EX_insn' = DE_insn /\ EX_valid' = DE_insn.ok /\ EX_pc' = DE_pc
        /\ EX_pc_unsafe' = DE_pc_unsafe
    BY <1>4 DEF Clock, DecodeClock, flush_DE
  <2>2. DE_insn = Decode[DE_instruction_reg] /\ DE_instruction_reg \in Word
    BY <1>4 DEF DE_insn, TypeOK, FeType
  <2>3. DecodedInEX'
    BY <2>1, <2>2 DEF DecodedInEX, DE_pc_unsafe
  <2>4. fetch_pc = FE_pc /\ FE_pc = Plus(DE_pc, 1)
    BY <1>4 DEF fetch_pc, RedirectAlone, InOrder
  <2>5. unsafe_executing => DE_pc_unsafe
    BY <1>4 DEF unsafe_executing, RedirectAlone
  <2>6. CASE unsafe_executing
    <3>1. DE_valid' = FALSE /\ FE_pc' = FE_pc
      BY <1>4, <2>6 DEF Clock, FetchClock, flush_FE, DE_open
    <3> QED BY <2>1, <2>3, <2>4, <2>5, <2>6, <3>1 DEF IllegalInOrder
  <2>7. CASE ~unsafe_executing
    <3>1. DE_valid' = TRUE /\ DE_pc' = fetch_pc
      BY <1>4, <2>7 DEF Clock, FetchClock, flush_FE, DE_open
    <3> QED BY <2>1, <2>3, <2>4, <3>1 DEF IllegalInOrder
  <2> QED BY <2>6, <2>7
<1> QED BY <1>1, <1>2, <1>3, <1>4

(* The invariant the refinement rests on holds in every reachable state.     *)
THEOREM FollowInvariant == Spec => []FollowInv
<1>1. Init => DecodedInEX /\ IllegalInOrder
  BY DEF Init, DecodedInEX, IllegalInOrder
<1>2. FollowInv /\ [Next]_vars /\ PipeInv' => FollowInv'
  <2> SUFFICES ASSUME FollowInv, [Next]_vars PROVE DecodedInEX' /\ IllegalInOrder'
    BY DEF FollowInv
  <2>1. CASE Next
    BY <2>1, ClockFollows DEF Next, Tick, Reset
  <2>2. CASE UNCHANGED vars
    BY <2>2 DEF vars, feVars, exVars, FollowInv, DecodedInEX, IllegalInOrder
  <2> QED BY <2>1, <2>2
<1>3. FollowInv <=> PipeInv /\ DecodedInEX /\ IllegalInOrder
  BY DEF FollowInv
<1> QED BY <1>1, <1>2, <1>3, PipeInvariant, PTL DEF Spec

(* The edge writes back what waits in WB, and lets the next result in. *)
LEMMA RegistersEdge ==
  ASSUME FollowInv, Clock(FALSE)
  PROVE  /\ registers' = IsaX
         /\ WB_valid' = (EX_done /\ EX_valid)
         /\ IsaX' = IF /\ EX_done /\ EX_valid
                       /\ EX_has_writeback /\ EX_insn.rd # 0
                      THEN [IsaX EXCEPT ![EX_insn.rd] = WB_value'] ELSE IsaX
<1>1. WB_open
  BY AnsweredIsOpen DEF FollowInv, PipeInv
<1>2. registers' = IsaX
  BY DEF Clock, WritebackClock, flush_WB, IsaX
<1>3. CASE EX_done /\ EX_valid
  <2>1. WB_valid' = TRUE /\ WB_rd_idx' = IF EX_has_writeback THEN EX_insn.rd ELSE 0
    BY <1>1, <1>3 DEF Clock, ExecuteClock, flush_EX
  <2> QED BY <1>2, <1>3, <2>1 DEF IsaX
<1>4. CASE ~(EX_done /\ EX_valid)
  <2>1. WB_valid' = FALSE
    BY <1>1, <1>4 DEF Clock, ExecuteClock, flush_EX
  <2> QED BY <1>2, <1>4, <2>1 DEF IsaX
<1> QED BY <1>3, <1>4

(* Memory and port change by the store in EX only, reset or not. *)
LEMMA MemoryEdge ==
  ASSUME TypeOK, NEW rst \in BOOLEAN, Clock(rst)
  PROVE  IsaMem' = IF bus_wen THEN ISA!MSET(bus_addr, EX_rs2) ELSE IsaMem
<1>1. bus_addr \in Word /\ progMEM \in [0 .. MemSize - 1 -> Word]
  BY BusAddrType DEF TypeOK, MemType
<1>2. CASE ~bus_wen
  <2>1. progMEM' = progMEM /\ io' = io
    BY <1>2 DEF Clock, MemoryClock, PortClock
  <2> QED BY <1>2, <2>1 DEF IsaMem
<1>3. CASE bus_wen
  <2>1. CASE DeviceAt(bus_addr) = "mem"
    <3>1. bus_addr \in 0 .. MemSize - 1 /\ bus_addr # PpAddr
      BY <1>1, <2>1 DEF DeviceAt, Word
    <3>2. progMEM' = [progMEM EXCEPT ![bus_addr] = EX_rs2] /\ io' = io
      BY <1>3, <2>1 DEF Clock, MemoryClock, PortClock
    <3>3. bus_addr \in IsaMapped
      BY <3>1 DEF IsaMapped
    <3>4. ASSUME NEW a \in IsaMapped
          PROVE  (IF a = PpAddr THEN io' ELSE progMEM'[a])
                   = IF a = bus_addr THEN EX_rs2 ELSE IsaMem[a]
      BY <1>1, <3>1, <3>2 DEF IsaMem, IsaMapped
    <3> QED BY <1>3, <3>3, <3>4 DEF IsaMem, ISA!MSET
  <2>2. CASE DeviceAt(bus_addr) = "pp"
    <3>1. bus_addr = PpAddr
      BY <2>2 DEF DeviceAt
    <3>2. progMEM' = progMEM /\ io' = EX_rs2
      BY <1>3, <2>2 DEF Clock, MemoryClock, PortClock
    <3> QED BY <1>3, <3>1, <3>2 DEF IsaMem, IsaMapped, ISA!MSET
  <2>3. CASE DeviceAt(bus_addr) = "none"
    <3>1. bus_addr \notin IsaMapped
      BY <1>1, <2>3 DEF DeviceAt, IsaMapped, Word
    <3>2. progMEM' = progMEM /\ io' = io
      BY <2>3 DEF Clock, MemoryClock, PortClock
    <3> QED BY <1>3, <3>1, <3>2 DEF IsaMem, ISA!MSET
  <2> QED BY <2>1, <2>2, <2>3 DEF DeviceAt
<1> QED BY <1>2, <1>3

(* The next instruction is the one behind, or the target of a jump. *)
LEMMA RetirePc ==
  ASSUME FollowInv, Clock(FALSE), Retire
  PROVE  /\ IsaPc = EX_pc
         /\ IsaPc' = IF EX_pc_unsafe THEN EX_jump_pc ELSE Plus(EX_pc, 1)
<1> USE DEF FollowInv, PipeInv
<1>1. EX_valid /\ EX_open /\ EX_done /\ IsaPc = EX_pc
  BY DEF Retire, EX_open, IsaPc
<1>2. CASE DE_valid
  <2>1. DE_pc = Plus(EX_pc, 1) /\ ~EX_pc_unsafe
    BY <1>1, <1>2 DEF InOrder
  <2>2. CASE DE_hazard
    <3>1. UNCHANGED feVars /\ EX_valid' = FALSE /\ EX_begin' = FALSE
      BY <1>1, <1>2, <2>2
      DEF Clock, FetchClock, DecodeClock, flush_FE, flush_DE, DE_open
    <3> QED BY <1>1, <1>2, <2>1, <3>1 DEF IsaPc, feVars
  <2>3. CASE ~DE_hazard
    <3>1. EX_begin' = TRUE /\ EX_pc' = DE_pc
      BY <1>1, <1>2, <2>3 DEF Clock, DecodeClock, flush_DE
    <3> QED BY <1>1, <2>1, <3>1 DEF IsaPc
  <2> QED BY <2>2, <2>3
<1>3. CASE ~DE_valid
  <2>1. EX_pc_unsafe /\ ~DE_hazard /\ DE_open /\ unsafe_executing
    BY <1>1, <1>3, EmptyDecode DEF InOrder, DE_open, unsafe_executing
  <2>2. EX_valid' = FALSE /\ EX_begin' = FALSE /\ DE_valid' = FALSE
    BY <1>1, <1>3, <2>1
    DEF Clock, FetchClock, DecodeClock, flush_FE, flush_DE
  <2>3. WB_valid' /\ WB_pc_unsafe' = EX_pc_unsafe /\ WB_jump_pc' = EX_jump_pc
    BY <1>1, <2>1, AnsweredIsOpen DEF Clock, ExecuteClock, flush_EX
  <2> QED BY <1>1, <2>1, <2>2, <2>3 DEF IsaPc, fetch_pc
<1> QED BY <1>2, <1>3

(* Without an instruction that retires, the edge shows at most the skipping  *)
(* of a word that is none.                                                   *)
LEMMA QuietEdge ==
  ASSUME FollowInv, Clock(FALSE), ~Retire
  PROVE  UNCHANGED isaVars \/ SkipsIllegal
<1> USE DEF FollowInv, PipeInv
<1>1. WB_open /\ ~(EX_done /\ EX_valid) /\ ~bus_wen
  BY AnsweredIsOpen DEF Retire, EX_open, EX_done, bus_wen
<1>2. IsaX' = IsaX /\ IsaMem' = IsaMem /\ WB_valid' = FALSE
  BY <1>1, RegistersEdge, MemoryEdge
<1>3. CASE EX_valid
  <2>1. EX_pc' = EX_pc /\ EX_valid' = EX_valid
    BY <1>1, <1>3 DEF EX_open, Clock, DecodeClock, flush_DE
  <2> QED BY <1>2, <1>3, <2>1 DEF isaVars, IsaPc
<1>4. ASSUME ~EX_valid
      PROVE  IsaPc' = IF DE_valid THEN DE_pc ELSE fetch_pc
  <2>1. EX_open
    BY <1>1, <1>4 DEF EX_open, EX_done
  <2>2. ~DE_hazard /\ DE_open
    BY <1>4, <2>1 DEF DE_hazard, DependsOnEX, DE_open
  <2>3. CASE DE_valid
    <3>1. EX_begin' = TRUE /\ EX_pc' = DE_pc
      BY <2>1, <2>2, <2>3 DEF Clock, DecodeClock, flush_DE
    <3> QED BY <2>3, <3>1 DEF IsaPc
  <2>4. CASE ~DE_valid
    <3>1. EX_begin' = FALSE /\ EX_valid' = FALSE
      BY <2>1, <2>4 DEF Clock, DecodeClock, flush_DE
    <3>2. CASE unsafe_executing
      <4>1. EX_pc_unsafe
        BY <2>4, <3>2, EmptyDecode DEF unsafe_executing
      <4>2. fetch_pc = FE_pc
        BY <4>1 DEF fetch_pc, RedirectAlone
      <4>3. DE_valid' = FALSE /\ FE_pc' = FE_pc
        BY <2>2, <3>2 DEF Clock, FetchClock, flush_FE
      <4> QED BY <1>2, <2>4, <3>1, <4>2, <4>3 DEF IsaPc, fetch_pc
    <3>3. CASE ~unsafe_executing
      <4>1. DE_valid' = TRUE /\ DE_pc' = fetch_pc
        BY <2>2, <3>3 DEF Clock, FetchClock, flush_FE
      <4> QED BY <2>4, <3>1, <4>1 DEF IsaPc
    <3> QED BY <3>2, <3>3
  <2> QED BY <2>3, <2>4
<1>5. CASE ~EX_valid /\ ~EX_begin
  BY <1>2, <1>4, <1>5 DEF isaVars, IsaPc
<1>6. CASE ~EX_valid /\ EX_begin
  <2>1. ~DE_valid => fetch_pc = FE_pc
    BY <1>6 DEF IllegalInOrder, RedirectAlone, fetch_pc
  <2> QED BY <1>2, <1>4, <1>6, <2>1 DEF IllegalInOrder, SkipsIllegal
<1> QED BY <1>3, <1>5, <1>6

(* RvIsa adds addresses as the processor does. *)
LEMMA SamePlus == \A a, b : ISA!Plus(a, b) = Plus(a, b)
  BY DEF ISA!Plus, Plus

(* A load gets the word at its address, unless the next access takes the     *)
(* memory's answer away.                                                     *)
LEMMA LoadedWord ==
  ASSUME FollowInv, Clock(FALSE), Retire, EX_insn.op = "LOAD"
  PROVE  \/ WB_value' = ISA!M(bus_addr)
         \/ WB_value' = 0 /\ (EX_insn.rd # 0 => Overlap')
<1> USE DEF FollowInv, PipeInv
<1>1. EX_valid /\ EX_done /\ WB_open
  BY DEF Retire, EX_open
<1>2. /\ WB_is_load_store' = TRUE /\ WB_valid' = TRUE /\ WB_rd_idx' = EX_insn.rd
      /\ WB_value' = bus_rdata'
  <2>1. IsLoadStore(EX_insn) = TRUE
    BY DEF IsLoadStore
  <2>2. WB_is_load_store' = TRUE /\ WB_valid' = TRUE /\ WB_rd_idx' = EX_insn.rd
    BY <1>1, <2>1 DEF Clock, ExecuteClock, flush_EX, EX_has_writeback
  <2> QED BY <2>2 DEF WB_value
<1>3. /\ dev_n_selected' = DeviceAt(bus_addr)
      /\ progMEM_rdata' = progMEM[bus_addr % MemSize]
      /\ io' = io
  BY DEF Clock, HubClock, MemoryClock, PortClock, bus_wen
<1>4. bus_addr \in Word
  BY BusAddrType
<1>5. CASE DeviceAt(bus_addr) = "mem"
  <2>1. bus_addr \in 0 .. MemSize - 1 /\ bus_addr # PpAddr
    BY <1>4, <1>5 DEF DeviceAt, Word
  <2>2. bus_addr % MemSize = bus_addr
    BY <2>1
  <2>3. ISA!M(bus_addr) = progMEM_rdata'
    BY <1>3, <2>1, <2>2 DEF ISA!M, IsaMapped, IsaMem
  <2>4. CASE (DeviceAt(bus_addr) = "mem")'
    BY <1>2, <1>3, <1>5, <2>3, <2>4 DEF bus_rdata
  <2>5. CASE (DeviceAt(bus_addr) # "mem")'
    BY <1>2, <1>3, <1>5, <2>5 DEF bus_rdata, Overlap
  <2> QED BY <2>4, <2>5
<1>6. CASE DeviceAt(bus_addr) = "pp"
  <2>1. bus_addr = PpAddr
    BY <1>6 DEF DeviceAt
  <2>2. ISA!M(bus_addr) = io
    BY <2>1 DEF ISA!M, IsaMapped, IsaMem
  <2> QED BY <1>2, <1>3, <1>6, <2>2 DEF bus_rdata
<1>7. CASE DeviceAt(bus_addr) = "none"
  <2>1. bus_addr \notin IsaMapped
    BY <1>4, <1>7 DEF DeviceAt, IsaMapped, Word
  <2> QED BY <1>2, <1>3, <1>7, <2>1 DEF bus_rdata, ISA!M
<1> QED BY <1>5, <1>6, <1>7 DEF DeviceAt

(* What EX executes is an instruction with the operands of program order. *)
LEMMA RetiringInsn ==
  ASSUME FollowInv, Retire
  PROVE  /\ EX_insn \in Insn /\ EX_insn.ok
         /\ EX_insn.op \notin {"JAL", "AUIPC"} => EX_rs1 = IsaX[EX_insn.rs1]
         /\ EX_insn.op \in {"OP", "STORE", "BRANCH"} => EX_rs2 = IsaX[EX_insn.rs2]
         /\ EX_insn.op = "OP_IMM" => EX_insn.imm_i = EX_insn.imm
  BY DecodeAssumption, ImmediateAssumption
  DEF FollowInv, PipeInv, Retire, DecodedInEX, OperandsCurrent

(* Arithmetic: a division on its own operands, and everything else. *)
LEMMA ArithmeticResult ==
  ASSUME FollowInv, Retire, EX_insn.op \in {"OP", "OP_IMM"},
         is_division => /\ dividend = Mag(EX_insn.f3, alu_op1)
                        /\ divisor = Mag(EX_insn.f3, alu_op2)
  PROVE  EX_result = IF EX_insn.op = "OP"
                       THEN Alu(FALSE, EX_insn.f7, EX_insn.f3,
                                IsaX[EX_insn.rs1], IsaX[EX_insn.rs2])
                       ELSE Alu(TRUE, EX_insn.f7, EX_insn.f3,
                                IsaX[EX_insn.rs1], EX_insn.imm)
<1>1. /\ EX_insn \in Insn /\ alu_op1 = IsaX[EX_insn.rs1]
      /\ alu_op2 = IF EX_insn.op = "OP" THEN IsaX[EX_insn.rs2] ELSE EX_insn.imm
  BY RetiringInsn DEF alu_op1, alu_op2
<1>2. EX_result = alu_out
  BY DEF EX_result, EX_is_ALU
<1>3. CASE is_division
  <2>1. EX_insn.op = "OP" /\ EX_insn.f3 \in 4 .. 7 /\ EX_insn.f7 = "M"
    BY <1>1, <1>3 DEF is_division, is_imm, Insn
  <2>2. alu_op1 \in Word /\ alu_op2 \in Word
    BY <2>1 DEF alu_op1, alu_op2, FollowInv, PipeInv, TypeOK, ExType
  <2>3. DivOut(EX_insn.f3, Mag(EX_insn.f3, alu_op1), Mag(EX_insn.f3, alu_op2),
               alu_op1, alu_op2) = Alu(FALSE, "M", EX_insn.f3, alu_op1, alu_op2)
    BY <2>1, <2>2, DivisionAssumption
  <2> QED BY <1>1, <1>2, <1>3, <2>1, <2>3 DEF alu_out
<1>4. CASE ~is_division
  <2>1. alu_out = Alu(is_imm, EX_insn.f7, EX_insn.f3, alu_op1, alu_op2)
    BY <1>4 DEF alu_out
  <2>2. CASE EX_insn.op = "OP"
    <3>1. is_imm = FALSE
      BY <2>2 DEF is_imm
    <3> QED BY <1>1, <1>2, <2>1, <2>2, <3>1
  <2>3. CASE EX_insn.op = "OP_IMM"
    <3>1. is_imm = TRUE
      BY <2>3 DEF is_imm
    <3> QED BY <1>1, <1>2, <2>1, <2>3, <3>1
  <2> QED BY <2>2, <2>3
<1> QED BY <1>3, <1>4

(* The instruction in EX is executed as RvIsa executes it, but for the three *)
(* departures in which something else than its result shows.                 *)
LEMMA RetireExecutes ==
  ASSUME FollowInv, Clock(FALSE), Retire
  PROVE  \/ ISA!Exec(EX_insn)
         \/ SystemRedirects \/ OverlappedLoadIsZero \/ DividesOthersOperands
<1> USE DEF FollowInv, PipeInv
<1>1. /\ EX_valid /\ EX_done /\ WB_open
      /\ IsaPc = EX_pc
      /\ IsaPc' = IF Unsafe(EX_insn) THEN EX_jump_pc ELSE Plus(EX_pc, 1)
  BY RetirePc DEF Retire, EX_open, DecodedInEX
<1>2. IsaX' = IF EX_has_writeback /\ EX_insn.rd # 0
                THEN [IsaX EXCEPT ![EX_insn.rd] = WB_value'] ELSE IsaX
  BY <1>1, RegistersEdge
<1>3. IsaMem' = IF bus_wen THEN ISA!MSET(bus_addr, EX_rs2) ELSE IsaMem
  BY MemoryEdge
<1>4. EX_insn.op \in Opcode
  BY RetiringInsn DEF Insn
<1>5. ASSUME ~IsLoadStore(EX_insn) PROVE WB_value' = EX_result
  <2>1. WB_ex_writeback' = EX_result /\ WB_is_load_store' = IsLoadStore(EX_insn)
    BY <1>1 DEF Clock, ExecuteClock, flush_EX
  <2> QED BY <1>5, <2>1 DEF WB_value
<1>6. EX_insn.op \notin {"BRANCH", "STORE", "SYSTEM"} =>
        IsaX' = ISA!RSET(EX_insn.rd, WB_value')
  BY <1>2 DEF EX_has_writeback, ISA!RSET
<1>7. EX_insn.op # "STORE" => IsaMem' = IsaMem
  BY <1>3 DEF bus_wen
<1>8. EX_insn.op \notin {"BRANCH", "JAL", "JALR", "SYSTEM"} => ISA!PcStep
  BY <1>1, SamePlus DEF Unsafe, ISA!PcStep
<1>9. CASE /\ EX_insn.op = "OP" /\ is_division
           /\ \/ dividend # Mag(EX_insn.f3, alu_op1)
              \/ divisor # Mag(EX_insn.f3, alu_op2)
  <2>1. IsaPc' = Plus(EX_pc, 1)
    BY <1>1, <1>9 DEF Unsafe
  <2>2. registers' \in [Reg -> Word] /\ registers' = IsaX
    BY RegistersEdge, ClockType DEF MemType
  <2>3. \A r \in Reg \ {EX_insn.rd} : IsaX'[r] = IsaX[r]
    BY <1>2, <2>2
  <2> QED BY <1>7, <1>9, <2>1, <2>3 DEF DividesOthersOperands
<1>10. CASE /\ EX_insn.op \in {"OP", "OP_IMM"}
            /\ is_division => /\ dividend = Mag(EX_insn.f3, alu_op1)
                              /\ divisor = Mag(EX_insn.f3, alu_op2)
  <2>1. WB_value' = EX_result
    BY <1>5, <1>10 DEF IsLoadStore
  <2> QED
    BY <1>6, <1>7, <1>8, <1>10, <2>1, ArithmeticResult
    DEF ISA!Exec, ISA!ExecOp, ISA!ExecOpImm
<1>11. EX_insn.op = "OP_IMM" => ~is_division
  BY DEF is_division, is_imm
<1>12. CASE EX_insn.op = "LOAD"
  <2>1. bus_addr = Plus(IsaX[EX_insn.rs1], EX_insn.imm)
    BY <1>12, RetiringInsn DEF bus_addr, IsLoadStore
  <2>2. CASE WB_value' = ISA!M(bus_addr) \/ EX_insn.rd = 0
    BY <1>6, <1>7, <1>8, <1>12, <2>1, <2>2, SamePlus
    DEF ISA!Exec, ISA!ExecLoad, ISA!RSET
  <2>3. CASE WB_value' = 0 /\ EX_insn.rd # 0 /\ Overlap'
    BY <1>1, <1>2, <1>7, <1>12, <2>3
    DEF OverlappedLoadIsZero, EX_has_writeback, Unsafe
  <2> QED BY <1>12, <2>2, <2>3, LoadedWord
<1>13. CASE EX_insn.op = "STORE"
  <2>1. /\ bus_addr = Plus(IsaX[EX_insn.rs1], EX_insn.imm)
        /\ EX_rs2 = IsaX[EX_insn.rs2] /\ bus_wen
    BY <1>1, <1>13, RetiringInsn DEF bus_addr, IsLoadStore, bus_wen
  <2>2. IsaX' = IsaX
    BY <1>2, <1>13 DEF EX_has_writeback
  <2> QED BY <1>3, <1>8, <1>13, <2>1, <2>2, SamePlus DEF ISA!Exec, ISA!ExecStore
<1>14. CASE EX_insn.op = "BRANCH"
  <2>1. IsaX' = IsaX /\ IsaPc' = EX_jump_pc
    BY <1>1, <1>2, <1>14 DEF EX_has_writeback, Unsafe
  <2>2. EX_jump_pc = IF Taken(EX_insn.f3, IsaX[EX_insn.rs1], IsaX[EX_insn.rs2])
                       THEN Plus(EX_pc, EX_insn.imm) ELSE Plus(EX_pc, 1)
    BY <1>14, RetiringInsn DEF EX_jump_pc
  <2> QED
    BY <1>1, <1>7, <1>14, <2>1, <2>2, SamePlus
    DEF ISA!Exec, ISA!ExecBranch, ISA!PcStep
<1>15. CASE EX_insn.op \in {"JAL", "JALR"}
  <2>1. WB_value' = Plus(EX_pc, 1)
    BY <1>5, <1>15 DEF IsLoadStore, EX_result, EX_is_ALU
  <2>2. IsaPc' = Plus(IF EX_insn.op = "JALR" THEN IsaX[EX_insn.rs1] ELSE EX_pc,
                      EX_insn.imm)
    BY <1>1, <1>15, RetiringInsn DEF Unsafe, EX_jump_pc
  <2> QED
    BY <1>1, <1>6, <1>7, <1>15, <2>1, <2>2, SamePlus
    DEF ISA!Exec, ISA!ExecJal, ISA!ExecJalr
<1>16. CASE EX_insn.op \in {"LUI", "AUIPC"}
  <2>1. WB_value' = IF EX_insn.op = "LUI" THEN EX_insn.imm ELSE Plus(EX_pc, EX_insn.imm)
    BY <1>5, <1>16 DEF IsLoadStore, EX_result, EX_is_ALU
  <2> QED
    BY <1>1, <1>6, <1>7, <1>8, <1>16, <2>1, SamePlus DEF ISA!Exec, ISA!ExecUpper
<1>17. CASE EX_insn.op = "SYSTEM"
  <2>1. IsaPc' = WB_jump_pc /\ IsaX' = IsaX
    BY <1>1, <1>2, <1>17 DEF Unsafe, EX_jump_pc, EX_has_writeback
  <2> QED BY <1>7, <1>17, <2>1 DEF SystemRedirects
<1>18. EX_insn.op # "FENCE"
  BY <1>1 DEF EX_done, EX_is_ALU
<1> QED
  BY <1>4, <1>9, <1>10, <1>11, <1>12, <1>13, <1>14, <1>15, <1>16, <1>17, <1>18
  DEF Opcode

(* An instruction leaves EX. *)
LEMMA RetireEdge ==
  ASSUME FollowInv, Clock(FALSE), Retire
  PROVE  ISA!Next \/ Departs
<1>1. SUFFICES ASSUME ISA!Exec(EX_insn) PROVE ISA!Next \/ StaleFetch
  BY RetireExecutes DEF Departs
<1>2. EX_insn.ok /\ IsaPc = EX_pc /\ EX_pc \in Word
  BY RetiringInsn, RetirePc DEF FollowInv, PipeInv, TypeOK, ExType
<1>3. CASE EX_pc >= MemSize \/ EX_insn # Decode[progMEM[EX_pc]]
  BY <1>1, <1>3 DEF StaleFetch
<1>4. CASE EX_pc < MemSize /\ EX_insn = Decode[progMEM[EX_pc]]
  <2>1. EX_pc \in IsaMapped /\ EX_pc # PpAddr
    BY <1>2, <1>4 DEF IsaMapped, Word
  <2>2. ISA!M(IsaPc) = progMEM[EX_pc]
    BY <1>2, <2>1 DEF ISA!M, IsaMem
  <2> QED BY <1>1, <1>2, <1>4, <2>2 DEF ISA!Next, ISA!Step
<1> QED BY <1>2, <1>3, <1>4 DEF Word

(* A reset. *)
LEMMA ResetEdge ==
  ASSUME FollowInv, Reset
  PROVE  IsaReset
<1> USE DEF FollowInv, PipeInv
<1>1. Clock(TRUE)
  BY DEF Reset
<1>2. IsaPc' = 0
  BY <1>1 DEF Clock, FetchClock, DecodeClock, ExecuteClock, flush_FE, flush_DE,
     flush_EX, IsaPc, fetch_pc
<1>3. \E r \in Reg : \A s \in Reg \ {r} : IsaX'[s] = IsaX[s]
  <2>1. WB_valid' = FALSE /\ registers' = registers
    BY <1>1 DEF Clock, ExecuteClock, WritebackClock, flush_EX, flush_WB
  <2>2. WB_rd_idx \in Reg /\ registers \in [Reg -> Word]
    BY DEF TypeOK, WbType, MemType
  <2>3. \A s \in Reg \ {WB_rd_idx} : IsaX'[s] = IsaX[s]
    BY <2>1, <2>2 DEF IsaX
  <2> QED BY <2>2, <2>3
<1>4. \E a \in IsaMapped : \A b \in IsaMapped \ {a} : IsaMem'[b] = IsaMem[b]
  <2>1. IsaMem' = IF bus_wen THEN ISA!MSET(bus_addr, EX_rs2) ELSE IsaMem
    BY <1>1, MemoryEdge
  <2>2. CASE bus_addr \in IsaMapped
    <3>1. \A b \in IsaMapped \ {bus_addr} : IsaMem'[b] = IsaMem[b]
      BY <2>1 DEF ISA!MSET, IsaMem
    <3> QED BY <2>2, <3>1
  <2>3. CASE bus_addr \notin IsaMapped
    <3>1. IsaMem' = IsaMem /\ 0 \in IsaMapped
      BY <2>1, <2>3 DEF ISA!MSET, IsaMapped
    <3> QED BY <3>1
  <2> QED BY <2>2, <2>3
<1> QED BY <1>2, <1>3, <1>4 DEF IsaReset

(* A step that is none leaves the mapping alone. *)
LEMMA StutterMaps == UNCHANGED vars => UNCHANGED isaVars
<1> SUFFICES ASSUME UNCHANGED vars PROVE UNCHANGED isaVars
  OBVIOUS
<1> USE DEF vars, memVars, feVars, exVars, wbVars, busVars
<1>1. bus_addr' = bus_addr
  BY DEF bus_addr, IsLoadStore, Plus
<1>2. WB_value' = WB_value
  BY <1>1 DEF WB_value, bus_rdata, DeviceAt
<1>3. IsaX' = IsaX
  BY <1>2 DEF IsaX
<1>4. IsaMem' = IsaMem /\ IsaPc' = IsaPc
  BY DEF IsaMem, IsaPc, fetch_pc
<1> QED BY <1>3, <1>4 DEF isaVars

(* Whatever the program, the arithmetic, the sizes and the resets, every     *)
(* clock edge of the pipeline is an instruction of the sequential machine,   *)
(* invisible to it, a reset of it, or one of the departures CpuPipelinedIsa  *)
(* names: interlocks, forwarding, the fetch stop and the bus never show.     *)
THEOREM FollowsTheIsa == Spec => FollowsIsa
<1>1. FollowInv /\ [Next]_vars => [ISA!Next \/ IsaReset \/ Departs]_isaVars
  <2> SUFFICES ASSUME FollowInv, [Next]_vars
               PROVE  [ISA!Next \/ IsaReset \/ Departs]_isaVars
    OBVIOUS
  <2>1. CASE Tick
    BY <2>1, RetireEdge, QuietEdge DEF Tick, Departs
  <2>2. CASE Reset
    BY <2>2, ResetEdge
  <2>3. CASE UNCHANGED vars
    BY <2>3, StutterMaps
  <2> QED BY <2>1, <2>2, <2>3 DEF Next
<1> QED BY <1>1, FollowInvariant, PTL DEF Spec, FollowsIsa

(* A program that meets no departure, on a pipeline that starts from its     *)
(* power-on state and is not reset, runs exactly as on the sequential one.   *)
THEOREM ImplementsTheIsa == Spec /\ [][~Reset /\ ~Departs]_vars => ImplementsIsa
<1>1. Init => ISA!Init
  <2> SUFFICES ASSUME Init PROVE ISA!Init
    OBVIOUS
  <2>1. IsaPc = 0 /\ IsaX \in InitRegs
    BY DEF Init, IsaPc, IsaX, fetch_pc
  <2>2. progMEM \in [0 .. MemSize - 1 -> Word] /\ io \in Word
    BY InitType DEF TypeOK, MemType, BusType
  <2>3. IsaMem \in [IsaMapped -> Word]
    BY <2>2 DEF IsaMem, IsaMapped
  <2> QED BY <2>1, <2>3 DEF ISA!Init, ISA!Word, Word
<1>2. FollowInv /\ [Next]_vars /\ [~Reset /\ ~Departs]_vars => [ISA!Next]_isaVars
  <2> SUFFICES ASSUME FollowInv, [Next]_vars, [~Reset /\ ~Departs]_vars
               PROVE  [ISA!Next]_isaVars
    OBVIOUS
  <2>1. CASE UNCHANGED vars
    BY <2>1, StutterMaps
  <2>2. CASE Tick /\ ~Departs
    BY <2>2, RetireEdge, QuietEdge DEF Tick, Departs
  <2> QED BY <2>1, <2>2 DEF Next
<1> QED
  BY <1>1, <1>2, FollowInvariant, PTL
  DEF Spec, ImplementsIsa, ISA!Spec, isaVars, ISA!vars

-----------------------------------------------------------------------------
(* Co-simulation.  The programs leave the port alone, which the simulator     *)
(* does not have.                                                             *)

Memory == 0 .. MemSize - 1

(* The simulator has no port. *)
PortAccess == Retire /\ IsLoadStore(EX_insn) /\ bus_addr = PpAddr

-----------------------------------------------------------------------------
(* What an instruction makes of a program counter, registers and memory. *)

WordIn(m, a) == IF a \in Memory THEN m[a] ELSE 0

NextPc(i, p, r) ==
  CASE i.op = "BRANCH" ->
         IF Taken(i.f3, r[i.rs1], r[i.rs2]) THEN Plus(p, i.imm) ELSE Plus(p, 1)
    [] i.op = "JAL" -> Plus(p, i.imm)
    [] i.op = "JALR" -> Plus(r[i.rs1], i.imm)
    [] OTHER -> Plus(p, 1)

Result(i, p, r, m) ==
  CASE i.op = "OP" -> Alu(FALSE, i.f7, i.f3, r[i.rs1], r[i.rs2])
    [] i.op = "OP_IMM" -> Alu(TRUE, i.f7, i.f3, r[i.rs1], i.imm)
    [] i.op = "LOAD" -> WordIn(m, Plus(r[i.rs1], i.imm))
    [] i.op \in {"JAL", "JALR"} -> Plus(p, 1)
    [] i.op = "LUI" -> i.imm
    [] i.op = "AUIPC" -> Plus(p, i.imm)

NextX(i, p, r, m) ==
  IF i.op \in {"BRANCH", "STORE", "SYSTEM", "FENCE"} \/ i.rd = 0 THEN r
  ELSE [r EXCEPT ![i.rd] = Result(i, p, r, m)]

NextMem(i, r, m) ==
  IF i.op = "STORE" /\ Plus(r[i.rs1], i.imm) \in Memory
    THEN [m EXCEPT ![Plus(r[i.rs1], i.imm)] = r[i.rs2]] ELSE m

(* The simulator adds addresses as the processor does. *)
LEMMA SimPlus == \A a, b : Sim!Plus(a, b) = Plus(a, b)
  BY DEF Sim!Plus, Plus

(* The simulator computes it. *)
LEMMA SimComputes ==
  ASSUME NEW i \in Insn, Sim!Exec(i)
  PROVE  /\ simPc' = NextPc(i, simPc, simX)
         /\ simX' = NextX(i, simPc, simX, simMem)
         /\ simMem' = NextMem(i, simX, simMem)
<1> USE SimPlus
    DEF NextPc, NextX, NextMem, Result, WordIn, Memory, Sim!PcStep, Sim!RSET, Sim!MSET, Sim!M
<1>1. CASE Sim!ExecOp(i)
  BY <1>1 DEF Sim!ExecOp
<1>2. CASE Sim!ExecOpImm(i)
  BY <1>2 DEF Sim!ExecOpImm
<1>3. CASE Sim!ExecLoad(i)
  BY <1>3 DEF Sim!ExecLoad
<1>4. CASE Sim!ExecStore(i)
  BY <1>4 DEF Sim!ExecStore
<1>5. CASE Sim!ExecBranch(i)
  BY <1>5 DEF Sim!ExecBranch
<1>6. CASE Sim!ExecJal(i) \/ Sim!ExecJalr(i)
  BY <1>6 DEF Sim!ExecJal, Sim!ExecJalr
<1>7. CASE Sim!ExecUpper(i)
  BY <1>7 DEF Sim!ExecUpper
<1>8. CASE Sim!ExecSystem(i) \/ Sim!ExecOther(i)
  BY <1>8 DEF Sim!ExecSystem, Sim!ExecOther
<1> QED
  BY <1>1, <1>2, <1>3, <1>4, <1>5, <1>6, <1>7, <1>8 DEF Sim!Exec

(* What the pipeline's mapping shows of the memory. *)
LEMMA MemoryPart ==
  TypeOK => progMEM = [a \in Memory |-> IsaMem[a]]
  BY DEF TypeOK, MemType, IsaMem, IsaMapped, Memory

(* And so does the pipeline, seen where instructions leave EX. *)
LEMMA PipelineComputes ==
  ASSUME TypeOK, TypeOK', NEW i \in Insn, ISA!Exec(i),
         IsLoadStore(i) => Plus(IsaX[i.rs1], i.imm) # PpAddr
  PROVE  /\ IsaPc' = NextPc(i, IsaPc, IsaX)
         /\ IsaX' = NextX(i, IsaPc, IsaX, progMEM)
         /\ progMEM' = NextMem(i, IsaX, progMEM)
<1>1. /\ progMEM = [a \in Memory |-> IsaMem[a]] /\ progMEM' = [a \in Memory |-> IsaMem'[a]]
      /\ progMEM \in [Memory -> Word] /\ IsaMapped = Memory \cup {PpAddr}
      /\ IsaMem = [a \in IsaMapped |-> IsaMem[a]]
  <2>1. progMEM = [a \in Memory |-> IsaMem[a]]
    BY MemoryPart
  <2>2. progMEM' = [a \in Memory |-> IsaMem'[a]]
    BY DEF TypeOK, MemType, IsaMem, IsaMapped, Memory
  <2>3. progMEM \in [Memory -> Word]
    BY DEF TypeOK, MemType, Memory
  <2> QED BY <2>1, <2>2, <2>3 DEF IsaMapped, Memory, IsaMem
<1> USE <1>1, SamePlus DEF NextPc, NextX, NextMem, Result, ISA!PcStep, ISA!RSET
<1>2. CASE ISA!ExecOp(i)
  BY <1>2 DEF ISA!ExecOp
<1>3. CASE ISA!ExecOpImm(i)
  BY <1>3 DEF ISA!ExecOpImm
<1>4. CASE ISA!ExecLoad(i)
  BY <1>4 DEF ISA!ExecLoad, ISA!M, WordIn, IsLoadStore
<1>5. CASE ISA!ExecStore(i)
  BY <1>5 DEF ISA!ExecStore, ISA!MSET, IsLoadStore
<1>6. CASE ISA!ExecBranch(i)
  BY <1>6 DEF ISA!ExecBranch
<1>7. CASE ISA!ExecJal(i) \/ ISA!ExecJalr(i)
  BY <1>7 DEF ISA!ExecJal, ISA!ExecJalr
<1>8. CASE ISA!ExecUpper(i)
  BY <1>8 DEF ISA!ExecUpper
<1>9. CASE ISA!ExecSystem(i) \/ ISA!ExecOther(i)
  BY <1>9 DEF ISA!ExecSystem, ISA!ExecOther
<1> QED
  BY <1>2, <1>3, <1>4, <1>5, <1>6, <1>7, <1>8, <1>9 DEF ISA!Exec

-----------------------------------------------------------------------------
(* The two sides. *)

(* The simulator is where the pipeline will be once WB has completed. *)
Level == simPc = IsaPc /\ simX = IsaX /\ simMem = progMEM

(* It has yet to execute the instruction that is in WB. *)
Behind ==
  LET i == Decode[Sim!M(simPc)]
  IN /\ simPc = WB_pc /\ i.ok
     /\ IsaPc = NextPc(i, simPc, simX)
     /\ IsaX = NextX(i, simPc, simX, simMem)
     /\ progMEM = NextMem(i, simX, simMem)

(* While reset is held nothing is in the pipeline. *)
AtRest == ~EX_valid /\ ~EX_begin /\ ~DE_valid /\ ~WB_valid /\ FE_pc = 0

CoInv ==
  /\ simPc \in Word /\ simMem \in [Memory -> Word]
  /\ resets < MaxResets => AtRest
  /\ IF WB_valid THEN Behind ELSE Level
  /\ verdict = "equal"

(* An edge without an instruction in EX shows nothing. *)
LEMMA QuietMemory ==
  ASSUME FollowInv, Clock(FALSE), ~Retire
  PROVE  progMEM' = progMEM
<1>1. ~bus_wen
  BY AnsweredIsOpen DEF FollowInv, PipeInv, Retire, EX_open, EX_done, bus_wen
<1> QED BY <1>1 DEF Clock, MemoryClock

(* The simulator executes the instruction in WB, and is level with the       *)
(* pipeline before the edge; the test bench compares the two.                *)
LEMMA SimCatchesUp ==
  ASSUME FollowInv, CoInv, RunDut
  PROVE  /\ simPc' = IsaPc /\ simX' = IsaX /\ simMem' = progMEM
         /\ verdict' = "equal"
<1>1. Tick /\ Clock(FALSE)
  BY DEF RunDut, Tick
<1>2. instruction_complete <=> WB_valid
  BY AnsweredIsOpen DEF FollowInv, PipeInv, instruction_complete
<1>3. CASE ~WB_valid
  <2>1. UNCHANGED simVars
    BY <1>2, <1>3 DEF RunDut
  <2> QED BY <1>3, <2>1 DEF CoInv, Level, simVars
<1>4. CASE WB_valid
  <2> DEFINE i == Decode[Sim!M(simPc)]
  <2>1. Behind /\ i.ok
    BY <1>4 DEF CoInv, Behind
  <2>2. SimStep /\ verdict' = Compare(simPc, WB_pc, simX', registers')
    BY <1>2, <1>4 DEF RunDut
  <2>3. Sim!Exec(i)
    BY <2>1, <2>2 DEF SimStep, Sim!Step
  <2>4. i \in Insn
    <3>1. Sim!M(simPc) \in Word
      BY ZeroWord DEF CoInv, Sim!M, Memory
    <3> QED BY <3>1, DecodeAssumption
  <2>5. simPc' = IsaPc /\ simX' = IsaX /\ simMem' = progMEM
    <3> HIDE DEF i
    <3>1. /\ simPc' = NextPc(i, simPc, simX)
          /\ simX' = NextX(i, simPc, simX, simMem)
          /\ simMem' = NextMem(i, simX, simMem)
      BY <2>3, <2>4, SimComputes
    <3> QED BY <2>1, <3>1 DEF Behind, i
  <2>6. registers' = IsaX /\ simPc = WB_pc
    BY <1>1, <2>1, RegistersEdge DEF Behind
  <2> QED BY <2>2, <2>5, <2>6 DEF Compare
<1> QED BY <1>3, <1>4

(* An instruction that retires without departure was read from the memory    *)
(* both sides have, and is in WB after the edge.                             *)
LEMMA RetireMatches ==
  ASSUME FollowInv, FollowInv', Clock(FALSE), Retire, ~Departs, ~PortAccess,
         simPc' = IsaPc, simX' = IsaX, simMem' = progMEM
  PROVE  WB_valid' /\ Behind'
<1> USE DEF FollowInv, PipeInv
<1>1. ISA!Exec(EX_insn)
  BY RetireExecutes DEF Departs
<1>2. EX_insn \in Insn /\ EX_insn.ok /\ IsaPc = EX_pc /\ EX_valid /\ EX_done
  BY RetiringInsn, RetirePc DEF Retire, EX_open
<1>3. EX_pc \in Memory /\ EX_insn = Decode[progMEM[EX_pc]]
  BY <1>1 DEF Departs, StaleFetch, TypeOK, ExType, Memory, Word
<1>4. WB_valid' /\ WB_pc' = EX_pc
  BY <1>2, AnsweredIsOpen DEF Clock, ExecuteClock, flush_EX
<1>5. Decode[Sim!M(simPc)]' = EX_insn
  BY <1>2, <1>3 DEF Sim!M, Memory
<1>6. IsLoadStore(EX_insn) => Plus(IsaX[EX_insn.rs1], EX_insn.imm) # PpAddr
  <2> SUFFICES ASSUME IsLoadStore(EX_insn) PROVE bus_addr = Plus(IsaX[EX_insn.rs1], EX_insn.imm)
    BY DEF PortAccess
  <2> QED BY RetiringInsn DEF bus_addr, IsLoadStore
<1>7. /\ IsaPc' = NextPc(EX_insn, IsaPc, IsaX)
      /\ IsaX' = NextX(EX_insn, IsaPc, IsaX, progMEM)
      /\ progMEM' = NextMem(EX_insn, IsaX, progMEM)
  BY <1>1, <1>2, <1>6, PipelineComputes
<1>8. Behind'
  BY <1>2, <1>4, <1>5, <1>7 DEF Behind
<1> QED BY <1>4, <1>8

(* One turn of the test bench's loop. *)
LEMMA RunKeeps ==
  ASSUME FollowInv, FollowInv', CoInv, RunDut, ~Departs, ~PortAccess
  PROVE  CoInv'
<1>1. Clock(FALSE) /\ resets' = resets /\ resets = MaxResets
  BY DEF RunDut, Tick
<1>2. /\ simPc' = IsaPc /\ simX' = IsaX /\ simMem' = progMEM
      /\ verdict' = "equal"
  BY SimCatchesUp
<1>3. simPc' \in Word /\ simMem' \in [Memory -> Word]
  <2>1. IsaPc \in Word
    BY DEF FollowInv, PipeInv, TypeOK, FeType, ExType, WbType, IsaPc, fetch_pc
  <2> QED BY <1>2, <2>1 DEF FollowInv, PipeInv, TypeOK, MemType, Memory
<1>4. IF WB_valid' THEN Behind' ELSE Level'
  <2>1. CASE Retire
    BY <1>1, <1>2, <2>1, RetireMatches
  <2>2. CASE ~Retire
    <3>1. UNCHANGED isaVars /\ progMEM' = progMEM
      BY <1>1, <2>2, QuietEdge, QuietMemory DEF Departs
    <3>2. WB_valid' = FALSE
      BY <1>1, <2>2, RegistersEdge, AnsweredIsOpen
      DEF FollowInv, PipeInv, Retire, EX_open
    <3> QED BY <1>2, <3>1, <3>2 DEF Level, isaVars
  <2> QED BY <2>1, <2>2
<1> QED BY <1>1, <1>2, <1>3, <1>4 DEF CoInv

(* The reset both sides start with. *)
LEMMA ResetKeeps ==
  ASSUME FollowInv, CoInv, ResetDut
  PROVE  CoInv'
<1>1. Clock(TRUE) /\ resets < MaxResets /\ UNCHANGED simVars
  BY DEF ResetDut, Reset
<1>2. AtRest /\ Level
  BY <1>1 DEF CoInv, AtRest
<1>3. AtRest'
  BY <1>1 DEF Clock, FetchClock, DecodeClock, ExecuteClock, flush_FE, flush_DE,
     flush_EX, AtRest
<1>4. registers' = registers /\ progMEM' = progMEM
  BY <1>1, <1>2 DEF Clock, WritebackClock, flush_WB, MemoryClock, bus_wen, AtRest
<1>5. Level'
  BY <1>1, <1>2, <1>3, <1>4 DEF Level, AtRest, IsaPc, IsaX, fetch_pc, simVars
<1> QED BY <1>1, <1>3, <1>5 DEF CoInv, AtRest, simVars

(* A step that is none. *)
LEMMA StutterKeeps == CoInv /\ UNCHANGED coVars => CoInv'
<1> SUFFICES ASSUME CoInv, UNCHANGED coVars PROVE CoInv'
  OBVIOUS
<1>1. UNCHANGED isaVars /\ UNCHANGED vars /\ UNCHANGED simVars
  BY StutterMaps DEF coVars
<1>2. /\ IsaPc' = IsaPc /\ IsaX' = IsaX /\ progMEM' = progMEM
      /\ resets' = resets /\ WB_valid' = WB_valid /\ WB_pc' = WB_pc
      /\ simPc' = simPc /\ simX' = simX /\ simMem' = simMem /\ verdict' = verdict
      /\ AtRest' = AtRest
  BY <1>1 DEF isaVars, vars, memVars, wbVars, feVars, exVars, simVars, AtRest
<1>3. Level' = Level
  BY <1>2 DEF Level
<1>4. Behind' = Behind
  BY <1>2 DEF Behind, Sim!M, NextPc, NextX, NextMem, Result, WordIn
<1> QED BY <1>2, <1>3, <1>4 DEF CoInv

(* As long as the program meets none of the pipeline's departures and leaves *)
(* the port alone, simulator_equals_dut never reports a difference.          *)
THEOREM ReportsNone ==
  CoSpec /\ [][~Departs /\ ~PortAccess]_coVars => []ReportsNoDifference
<1>1. CoInit => Init /\ CoInv
  <2> SUFFICES ASSUME CoInit PROVE Init /\ CoInv
    OBVIOUS
  <2>1. Init
    BY DEF CoInit
  <2>2. AtRest
    BY <2>1 DEF Init, AtRest
  <2>3. Level
    BY <2>1, <2>2 DEF CoInit, Init, Level, AtRest, IsaPc, IsaX, fetch_pc
  <2>4. simPc \in Word /\ simMem \in [Memory -> Word]
    BY <2>1, ZeroWord, InitProgAssumption DEF CoInit, Init, Memory
  <2> QED BY <2>1, <2>2, <2>3, <2>4 DEF CoInv, CoInit, AtRest
<1>2. [CoNext]_coVars => [Next]_vars
  BY DEF CoNext, ResetDut, RunDut, Next, coVars
<1>3. /\ FollowInv /\ FollowInv' /\ CoInv /\ [CoNext]_coVars
      /\ [~Departs /\ ~PortAccess]_coVars
      => CoInv'
  <2> SUFFICES ASSUME FollowInv, FollowInv', CoInv, [CoNext]_coVars,
                      [~Departs /\ ~PortAccess]_coVars
               PROVE  CoInv'
    OBVIOUS
  <2>1. CASE UNCHANGED coVars
    BY <2>1, StutterKeeps
  <2>2. CASE ResetDut
    BY <2>2, ResetKeeps
  <2>3. CASE RunDut /\ ~Departs /\ ~PortAccess
    BY <2>3, RunKeeps
  <2> QED BY <2>1, <2>2, <2>3 DEF CoNext
<1>4. CoInv => ReportsNoDifference
  BY DEF CoInv, ReportsNoDifference
<1> QED
  BY <1>1, <1>2, <1>3, <1>4, FollowInvariant, PTL DEF CoSpec, Spec
=============================================================================

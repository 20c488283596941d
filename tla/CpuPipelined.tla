---------------------------- MODULE CpuPipelined ----------------------------
(***************************************************************************)
(* rtl/cpu_v2/cpu_pipelined.sv inside the SoC of its own test bench,        *)
(* rtl/cpu_v2/simulator/cpu_pl_soc.sv: a four-stage in-order pipeline       *)
(* (fetch FE, decode DE, execute EX, write back WB) that stalls on data     *)
(* dependencies, stops fetching behind jumps, forwards WB to DE, and talks  *)
(* over bus_hub_2_pl to its own memory and to one parallel output port.     *)
(*                                                                          *)
(* A step is one rising clock edge.  Registers keep their names; each       *)
(* always block is one conjunct of Clock, each wire an operator.  Data are  *)
(* abstracted as in Rv32: word addresses, decoded instruction fields, and  *)
(* operators for the arithmetic.  The byte lanes of sub-word accesses and   *)
(* the shift-and-subtract steps of the divider are left out; how long a     *)
(* division takes, and which operands its result belongs to, are not.       *)
(*                                                                          *)
(* A definition marked `mutant' is not the code: it is the slip the runs    *)
(* are shown to notice, kept next to the definition it would replace.       *)
(***************************************************************************)
EXTENDS Rv32

CONSTANTS
  MemSize,           \* words of progMEM (PROGROM_SIZE_W = MEMSIZE)
  PpAddr,            \* word address of parallel_output
  DivSteps,          \* clock edges a division takes once started (32)
  MaxResets,         \* bound on the number of clock edges with rst high
  Mag(_, _),         \* Mag(funct3, in): the magnitude a division starts from
  DivOut(_, _, _, _, _), \* DivOut(funct3, dividend, divisor, in1, in2)
  InitRegs,          \* register files the test bench may set up (-r, -e)
  InitProg,          \* memory images it may load
  ResetProg          \* bound: rst strikes only in programs among these

ASSUME MemAssumption ==
  /\ MemSize \in Nat \ {0}
  /\ MemSize <= WordMod
  /\ PpAddr \in MemSize .. WordMod - 1
ASSUME DivAssumption == DivSteps \in Nat \ {0} /\ MaxResets \in Nat
ASSUME MagAssumption == \A f3 \in 0 .. 7, a \in Word : Mag(f3, a) \in Word
ASSUME DivOutAssumption ==
  \A f3 \in 4 .. 7, n \in Word, d \in Word, a \in Word, b \in Word :
     DivOut(f3, n, d, a, b) \in Word
(* A division that runs on the magnitudes of its own operands computes what  *)
(* the instruction is to compute: ComputesAsSimulator of Alu.                *)
ASSUME DivisionAssumption ==
  \A f3 \in 4 .. 7, a \in Word, b \in Word :
     DivOut(f3, Mag(f3, a), Mag(f3, b), a, b) = Alu(FALSE, "M", f3, a, b)
ASSUME InitRegsAssumption ==
  InitRegs \subseteq {r \in [Reg -> Word] : r[0] = 0}
ASSUME InitProgAssumption == InitProg \subseteq [0 .. MemSize - 1 -> Word]

VARIABLES
  progMEM, progMEM_rdata, registers,
  FE_pc,
  DE_pc, DE_instruction_reg, DE_valid,
  EX_insn,             \* EX_instruction, EX_inst_is_*, EX_imm_*, EX_rd_idx
  EX_rs1, EX_rs2, EX_begin, EX_valid, EX_pc, EX_pc_unsafe,
  bitctr, dividend, divisor, division_done_latch,   \* alu0's divider
  WB_valid, WB_pc, WB_ex_writeback, WB_rd_idx, WB_pc_unsafe, WB_jump_pc,
  WB_is_load_store,
  dev_n_selected,      \* the hub's device of the previous cycle
  mem_done,            \* cpu_pl_soc's acknowledgement of a memory access
  pp_ready, io,        \* the parallel port
  resets               \* edges with rst high so far, or spared

memVars == <<progMEM, progMEM_rdata, mem_done>>
feVars == <<FE_pc, DE_pc, DE_instruction_reg, DE_valid>>
exVars == <<EX_insn, EX_rs1, EX_rs2, EX_begin, EX_valid, EX_pc, EX_pc_unsafe>>
divVars == <<bitctr, dividend, divisor, division_done_latch>>
wbVars == <<WB_valid, WB_pc, WB_ex_writeback, WB_rd_idx, WB_pc_unsafe,
            WB_jump_pc, WB_is_load_store>>
busVars == <<dev_n_selected, pp_ready, io>>
vars == <<memVars, registers, feVars, exVars, divVars, wbVars, busVars, resets>>

(* What a stage holds that has been flushed or was never filled: all flags   *)
(* and fields zero.                                                          *)
NoInsn == [ok |-> FALSE, op |-> "NONE", rd |-> 0, rs1 |-> 0, rs2 |-> 0,
           imm |-> 0, imm_i |-> 0, f3 |-> 0, f7 |-> "I"]

-----------------------------------------------------------------------------
(* A stage is flushed by reset only. *)
flush_FE(rst) == rst
flush_DE(rst) == rst
flush_EX_never(rst) == FALSE   \* mutant
flush_EX(rst) == rst
flush_WB(rst) == rst

-----------------------------------------------------------------------------
(* Bus: address and strobes of the instruction in EX, and what comes back    *)
(* one cycle later, when the access is in WB.                                *)

(* mem_active and the port's `active'; the hub prefers the memory. *)
DeviceAt(a) ==
  IF a < MemSize THEN "mem" ELSE IF a = PpAddr THEN "pp" ELSE "none"

bus_addr == IF IsLoadStore(EX_insn) THEN Plus(EX_rs1, EX_insn.imm) ELSE 0
bus_ren == EX_insn.op = "LOAD" /\ EX_valid
bus_wen == EX_insn.op = "STORE" /\ EX_valid

bus_done == dev_n_selected = "none" \/ mem_done \/ pp_ready

(* The hub selects by the registered device; cpu_pl_soc zeroes the memory's  *)
(* answer by the address now on the bus.                                     *)
bus_rdata_unregistered ==   \* mutant: selects by the current address
  CASE DeviceAt(bus_addr) = "mem" -> progMEM_rdata
    [] DeviceAt(bus_addr) = "pp" -> io
    [] DeviceAt(bus_addr) = "none" -> 0
bus_rdata ==
  CASE dev_n_selected = "mem" ->
         IF DeviceAt(bus_addr) = "mem" THEN progMEM_rdata ELSE 0
    [] dev_n_selected = "pp" -> io
    [] dev_n_selected = "none" -> 0

-----------------------------------------------------------------------------
(* Write back. *)

WB_open == WB_is_load_store /\ WB_valid => bus_done
WB_value == IF WB_is_load_store THEN bus_rdata ELSE WB_ex_writeback

-----------------------------------------------------------------------------
(* Execute: alu0's handshake, and the two results it feeds to WB. *)

EX_is_ALU == EX_insn.op \in {"OP", "OP_IMM"}
alu_op1 == EX_rs1
alu_op2 == IF EX_insn.op = "OP" THEN EX_rs2 ELSE EX_insn.imm_i
is_imm == EX_insn.op = "OP_IMM"

is_division == ~is_imm /\ EX_insn.f7 = "M" /\ EX_insn.f3 >= 4

division_done_early == bitctr = 1   \* mutant
division_done == bitctr = 0
alu_done == is_division => division_done /\ ~division_done_latch
alu_out ==
  IF is_division
    THEN DivOut(EX_insn.f3, dividend, divisor, alu_op1, alu_op2)
    ELSE Alu(is_imm, EX_insn.f7, EX_insn.f3, alu_op1, alu_op2)

EX_done ==
  \/ ~EX_valid
  \/ EX_is_ALU /\ alu_done
  \/ EX_insn.op \in {"LOAD", "STORE", "AUIPC", "BRANCH", "JAL", "JALR",
                     "SYSTEM", "LUI"}
EX_open == EX_done /\ WB_open
EX_has_writeback_store == EX_insn.op \notin {"BRANCH", "SYSTEM"}   \* mutant
EX_has_writeback == EX_insn.op \notin {"BRANCH", "STORE", "SYSTEM"}

EX_result ==
  CASE EX_is_ALU -> alu_out
    [] EX_insn.op = "LUI" -> EX_insn.imm
    [] EX_insn.op = "AUIPC" -> Plus(EX_pc, EX_insn.imm)
    [] EX_insn.op \in {"JAL", "JALR"} -> Plus(EX_pc, 1)
    [] OTHER -> 0

EX_jump_pc ==
  CASE EX_insn.op = "BRANCH" ->
         IF Taken(EX_insn.f3, EX_rs1, EX_rs2)
           THEN Plus(EX_pc, EX_insn.imm) ELSE Plus(EX_pc, 1)
    [] EX_insn.op = "JAL" -> Plus(EX_pc, EX_insn.imm)
    [] EX_insn.op = "JALR" -> Plus(EX_rs1, EX_insn.imm)
    [] OTHER -> WB_jump_pc

-----------------------------------------------------------------------------
(* Decode. *)

DE_insn == IF DE_valid THEN Decode[DE_instruction_reg] ELSE NoInsn

(* Bit 4 of the opcode: everything that may redirect the fetch. *)
Unsafe(i) == i.op \in {"BRANCH", "JAL", "JALR", "SYSTEM"}
DE_pc_unsafe == Unsafe(DE_insn)

DE_has_rs1 == DE_insn.op \notin {"JAL", "AUIPC"}
DE_has_rs2_store == DE_insn.op \in {"OP", "BRANCH"}   \* mutant
DE_has_rs2 == DE_insn.op \in {"OP", "STORE", "BRANCH"}

(* EX_rd_idx is bits 11:7, also of instructions that have no rd. *)
DependsOnBubble(r) == EX_insn.rd = r /\ r # 0   \* mutant
DependsOnEX(r) == EX_insn.rd = r /\ EX_valid /\ r # 0
DE_hazard ==
  \/ DE_has_rs1 /\ DependsOnEX(DE_insn.rs1)
  \/ DE_has_rs2 /\ DependsOnEX(DE_insn.rs2)
DE_open == EX_open /\ ~DE_hazard

(* Register forwarding. *)
ReadRegStale(r) == registers[r]   \* mutant
ReadReg(r) ==
  IF WB_rd_idx = r /\ WB_valid /\ WB_rd_idx # 0 THEN WB_value ELSE registers[r]

-----------------------------------------------------------------------------
(* Fetch. *)

unsafe_in_EX == EX_pc_unsafe   \* mutant
unsafe_in_DE == DE_pc_unsafe   \* mutant
unsafe_executing == DE_pc_unsafe \/ EX_pc_unsafe
fetch_pc == IF WB_pc_unsafe /\ WB_valid THEN WB_jump_pc ELSE FE_pc

FetchClock(rst) ==
  \/ /\ flush_FE(rst)
     /\ FE_pc' = 0
     /\ DE_pc' = 0
     /\ DE_valid' = FALSE
     /\ UNCHANGED DE_instruction_reg
  \/ /\ ~flush_FE(rst) /\ DE_open /\ ~unsafe_executing
     /\ DE_instruction_reg' = progMEM[fetch_pc % MemSize]
     /\ FE_pc' = Plus(fetch_pc, 1)
     /\ DE_pc' = fetch_pc
     /\ DE_valid' = TRUE
  \/ /\ ~flush_FE(rst) /\ DE_open /\ unsafe_executing
     /\ DE_valid' = FALSE
     /\ UNCHANGED <<FE_pc, DE_pc, DE_instruction_reg>>
  \/ /\ ~flush_FE(rst) /\ ~DE_open
     /\ UNCHANGED feVars

(* In a bubble EX_valid falls, but EX_insn and the operands keep the last    *)
(* instruction's values, and with them alu0's inputs and the bus address.    *)
DecodeClock(rst) ==
  \/ /\ flush_DE(rst)
     /\ EX_insn' = NoInsn
     /\ EX_rs1' = 0
     /\ EX_rs2' = 0
     /\ EX_pc' = 0
     /\ EX_begin' = FALSE
     /\ EX_valid' = FALSE
     /\ EX_pc_unsafe' = FALSE
  \/ /\ ~flush_DE(rst) /\ EX_open /\ DE_valid /\ ~DE_hazard
     /\ EX_insn' = DE_insn
     /\ EX_rs1' = ReadReg(DE_insn.rs1)
     /\ EX_rs2' = ReadReg(DE_insn.rs2)
     /\ EX_pc' = DE_pc
     /\ EX_begin' = TRUE
     /\ EX_valid' = DE_insn.ok
     /\ EX_pc_unsafe' = DE_pc_unsafe
  \/ /\ ~flush_DE(rst) /\ EX_open /\ ~(DE_valid /\ ~DE_hazard)
     /\ EX_begin' = FALSE
     /\ EX_valid' = FALSE
     /\ EX_pc_unsafe' = DE_pc_unsafe
     /\ UNCHANGED <<EX_insn, EX_rs1, EX_rs2, EX_pc>>
  \/ /\ ~flush_DE(rst) /\ ~EX_open
     /\ EX_begin' = FALSE
     /\ UNCHANGED <<EX_insn, EX_rs1, EX_rs2, EX_pc, EX_valid, EX_pc_unsafe>>

(* alu.sv is given rst and does not use it. *)
DividerClock ==
  /\ division_done_latch' = division_done
  /\ \/ /\ is_division /\ division_done /\ EX_begin
        /\ dividend' = Mag(EX_insn.f3, alu_op1)
        /\ divisor' = Mag(EX_insn.f3, alu_op2)
        /\ bitctr' = DivSteps
     \/ /\ is_division /\ ~division_done
        /\ bitctr' = bitctr - 1
        /\ UNCHANGED <<dividend, divisor>>
     \/ /\ ~is_division \/ (division_done /\ ~EX_begin)
        /\ UNCHANGED <<bitctr, dividend, divisor>>

ExecuteClock(rst) ==
  \/ /\ flush_EX(rst)
     /\ WB_valid' = FALSE
     /\ WB_pc' = 0
     /\ WB_ex_writeback' = 0
     /\ WB_rd_idx' = 0
     /\ WB_pc_unsafe' = FALSE
     /\ WB_jump_pc' = 0
     /\ WB_is_load_store' = FALSE
  \/ /\ ~flush_EX(rst) /\ WB_open /\ EX_done /\ EX_valid
     /\ WB_valid' = TRUE
     /\ WB_pc' = EX_pc
     /\ WB_ex_writeback' = EX_result
     /\ WB_rd_idx' = IF EX_has_writeback THEN EX_insn.rd ELSE 0
     /\ WB_pc_unsafe' = EX_pc_unsafe
     /\ WB_jump_pc' = EX_jump_pc
     /\ WB_is_load_store' = IsLoadStore(EX_insn)
  \/ /\ ~flush_EX(rst) /\ WB_open /\ ~(EX_done /\ EX_valid)
     /\ WB_valid' = FALSE
     /\ UNCHANGED <<WB_pc, WB_ex_writeback, WB_rd_idx, WB_pc_unsafe,
                    WB_jump_pc, WB_is_load_store>>
  \/ /\ ~flush_EX(rst) /\ ~WB_open
     /\ UNCHANGED wbVars

WritebackClock(rst) ==
  registers' = IF ~flush_WB(rst) /\ WB_valid /\ WB_rd_idx # 0
                 THEN [registers EXCEPT ![WB_rd_idx] = WB_value]
                 ELSE registers

(* The memory's second port, and cpu_pl_soc's acknowledgement of it.  rst    *)
(* does not gate the strobes.  The word read outside the memory is never     *)
(* used.                                                                     *)
MemoryClockReads ==   \* mutant: writes are not acknowledged
  LET active == DeviceAt(bus_addr) = "mem" IN
  /\ progMEM' = IF bus_wen /\ active
                  THEN [progMEM EXCEPT ![bus_addr] = EX_rs2] ELSE progMEM
  /\ progMEM_rdata' = progMEM[bus_addr % MemSize]
  /\ mem_done' = (bus_ren /\ active)
MemoryClock ==
  LET active == DeviceAt(bus_addr) = "mem" IN
  /\ progMEM' = IF bus_wen /\ active
                  THEN [progMEM EXCEPT ![bus_addr] = EX_rs2] ELSE progMEM
  /\ progMEM_rdata' = progMEM[bus_addr % MemSize]
  /\ mem_done' = ((bus_ren \/ bus_wen) /\ active)

PortClock ==
  LET active == DeviceAt(bus_addr) = "pp" IN
  /\ io' = IF bus_wen /\ active THEN EX_rs2 ELSE io
  /\ pp_ready' = ((bus_ren \/ bus_wen) /\ active)

HubClock == dev_n_selected' = DeviceAt(bus_addr)

-----------------------------------------------------------------------------
Clock(rst) ==
  /\ FetchClock(rst)
  /\ DecodeClock(rst)
  /\ DividerClock
  /\ ExecuteClock(rst)
  /\ WritebackClock(rst)
  /\ MemoryClock
  /\ PortClock
  /\ HubClock

Tick ==
  /\ Clock(FALSE)
  /\ UNCHANGED resets

Reset ==
  /\ resets < MaxResets
  /\ Clock(TRUE)
  /\ resets' = resets + 1

(* Power-on, as the initial values and Verilator's two-state simulation      *)
(* give it.                                                                  *)
Init ==
  /\ progMEM \in InitProg
  /\ registers \in InitRegs
  /\ progMEM_rdata = 0 /\ mem_done = FALSE
  /\ FE_pc = 0 /\ DE_pc = 0 /\ DE_instruction_reg = 0 /\ DE_valid = FALSE
  /\ EX_insn = NoInsn /\ EX_rs1 = 0 /\ EX_rs2 = 0 /\ EX_pc = 0
  /\ EX_begin = FALSE /\ EX_valid = FALSE /\ EX_pc_unsafe = FALSE
  /\ bitctr = 0 /\ dividend = 0 /\ divisor = 0 /\ division_done_latch = TRUE
  /\ WB_valid = FALSE /\ WB_pc = 0 /\ WB_ex_writeback = 0 /\ WB_rd_idx = 0
  /\ WB_pc_unsafe = FALSE /\ WB_jump_pc = 0 /\ WB_is_load_store = FALSE
  /\ dev_n_selected = "none" /\ pp_ready = FALSE /\ io = 0
  /\ resets = IF progMEM \in ResetProg THEN 0 ELSE MaxResets

Next == Tick \/ Reset

Spec == Init /\ [][Next]_vars

(* The clock keeps running; nothing obliges anyone to press reset. *)
FairSpec == Spec /\ WF_vars(Tick)
=============================================================================

---------------------------- MODULE CpuMultiCycle ----------------------------
(***************************************************************************)
(* rtl/cpu/cpu.sv inside rtl/soc_sim/soc_sim.sv: a processor that takes one *)
(* instruction at a time through fetch, decode, execute and write back, and *)
(* waits for the bus in fetch and execute.  bus_hub_2 passes address,       *)
(* strobes and answer through; behind it are memory.sv, which acknowledges  *)
(* an address it has seen, and sim_spram, which acknowledges a strobe.      *)
(*                                                                          *)
(* A step is one rising clock edge.  Data are abstracted as in Rv32, byte   *)
(* lanes of sub-word accesses are left out.  The divider is the one of      *)
(* CpuPipelined: which operands it runs on and how long.                    *)
(*                                                                          *)
(* A definition marked `mutant' is not the code: it is the slip the runs    *)
(* are shown to notice, kept next to the definition it would replace.       *)
(***************************************************************************)
EXTENDS Rv32

CONSTANTS
  MemSize,           \* words of memory, at address 0
  SpBase, SpSize,    \* first word and size of sim_spram
  DivSteps,          \* clock edges a division takes once started (32)
  MinReset,          \* clock edges rst is held: RESET_TIME, the debouncer
  MaxResets,         \* bound on the number of resets after the first
  Mag(_, _),         \* Mag(funct3, in): the magnitude a division starts from
  DivOut(_, _, _, _, _), \* DivOut(funct3, dividend, divisor, in1, in2)
  InitRegs,          \* register files the test bench may set up (-r, -e)
  InitProg           \* memory images it may load

ASSUME MemAssumption ==
  /\ MemSize \in Nat \ {0} /\ SpSize \in Nat \ {0}
  /\ SpBase \in MemSize .. WordMod /\ SpBase + SpSize <= WordMod
ASSUME DivAssumption == DivSteps \in Nat \ {0}
ASSUME ResetAssumption == MinReset \in Nat \ {0, 1} /\ MaxResets \in Nat
ASSUME MagAssumption == \A f3 \in 0 .. 7, a \in Word : Mag(f3, a) \in Word
ASSUME DivOutAssumption ==
  \A f3 \in 4 .. 7, n \in Word, d \in Word, a \in Word, b \in Word :
     DivOut(f3, n, d, a, b) \in Word
(* A division that runs on the magnitudes of its own operands computes what  *)
(* the instruction is to compute: ComputesAsSimulator of Alu.                *)
ASSUME DivisionAssumption ==
  \A f3 \in 4 .. 7, a \in Word, b \in Word :
     DivOut(f3, Mag(f3, a), Mag(f3, b), a, b) = Alu(FALSE, "M", f3, a, b)
ASSUME InitRegsAssumption ==
  InitRegs \subseteq {r \in [Reg -> Word] : r[0] = 0}
ASSUME InitProgAssumption == InitProg \subseteq [0 .. MemSize - 1 -> Word]

SpAddr == SpBase .. SpBase + SpSize - 1

VARIABLES
  state, pc, registers,
  insn,                  \* opcode, funct3, funct7, imm_*, rd
  rs1_value, rs2_value,
  alu_op1, alu_op2, alu_ready, loadstore_addr, branch_cond,
  instruction_sync,
  bitctr, dividend, divisor, division_done_latch,   \* alu0's divider
  memory, mem_rdata, xact_addr,                     \* mem
  spram, spram_rdata, spram_done,                   \* spram
  rst_edges,             \* edges of the current or last reset, up to MinReset
  resets                 \* resets after the first

divVars == <<bitctr, dividend, divisor, division_done_latch>>
memVars == <<memory, mem_rdata, xact_addr>>
spVars == <<spram, spram_rdata, spram_done>>
operandVars == <<insn, rs1_value, rs2_value>>
decodedVars == <<alu_op1, alu_op2, loadstore_addr, branch_cond>>
rstVars == <<rst_edges, resets>>
vars == <<state, pc, registers, operandVars, decodedVars, alu_ready,
          instruction_sync, divVars, memVars, spVars, rstVars>>

State == {"NONE", "FETCH", "DECODE", "EXEC", "WRITEBACK"}

-----------------------------------------------------------------------------
(* The bus: soc_sim's address map and the multiplexers of bus_hub_2, which   *)
(* prefers the memory and answers at once where there is no device.          *)

DeviceAt(a) ==
  IF a < MemSize THEN "mem" ELSE IF a \in SpAddr THEN "spram" ELSE "none"

bus_addr ==
  IF state # "FETCH" /\ IsLoadStore(insn) THEN loadstore_addr ELSE pc

bus_ren_idle ==   \* mutant: no read in write back
  (insn.op = "LOAD" /\ state = "EXEC") \/ state = "FETCH"
bus_ren ==
  (insn.op = "LOAD" /\ state = "EXEC") \/ state \in {"FETCH", "WRITEBACK"}
bus_wen == insn.op = "STORE" /\ state = "EXEC"

mem_done_always == TRUE   \* mutant
mem_done == xact_addr = bus_addr
bus_done ==
  CASE DeviceAt(bus_addr) = "mem" -> mem_done
    [] DeviceAt(bus_addr) = "spram" -> spram_done
    [] DeviceAt(bus_addr) = "none" -> TRUE
bus_rdata ==
  CASE DeviceAt(bus_addr) = "mem" -> mem_rdata
    [] DeviceAt(bus_addr) = "spram" -> spram_rdata
    [] DeviceAt(bus_addr) = "none" -> 0

-----------------------------------------------------------------------------
inst_is_ALU == insn.op \in {"OP", "OP_IMM"}
is_division == insn.op = "OP" /\ insn.f7 = "M" /\ insn.f3 >= 4
division_done == bitctr = 0
alu_done == is_division => division_done /\ ~division_done_latch
alu_out ==
  IF is_division THEN DivOut(insn.f3, dividend, divisor, alu_op1, alu_op2)
  ELSE Alu(insn.op = "OP_IMM", insn.f7, insn.f3, alu_op1, alu_op2)

jumping == insn.op \in {"JAL", "JALR"} \/ (insn.op = "BRANCH" /\ branch_cond)
pc_advanced == Plus(pc, 1)
pc_next ==
  IF ~jumping THEN pc_advanced
  ELSE Plus(IF insn.op = "JALR" THEN rs1_value ELSE pc, insn.imm)

inst_is_exec == (inst_is_ALU /\ ~alu_ready) \/ IsLoadStore(insn)
inst_has_writeback == insn.op \notin {"BRANCH", "STORE"}
writeback_value ==
  CASE insn.op = "LUI" -> insn.imm
    [] insn.op = "AUIPC" -> Plus(pc, insn.imm)
    [] insn.op \in {"JAL", "JALR"} -> pc_advanced
    [] inst_is_ALU -> alu_out
    [] insn.op = "LOAD" -> bus_rdata
    [] OTHER -> 0

exec_done_alu == inst_is_ALU /\ alu_done   \* mutant: the bus forgotten
exec_done == (inst_is_ALU /\ alu_done) \/ (IsLoadStore(insn) /\ bus_done)

-----------------------------------------------------------------------------
(* The state machine: one action per state, and rst. *)

Fetch ==
  /\ state = "FETCH"
  /\ instruction_sync' = FALSE
  /\ \/ /\ bus_done
        /\ insn' = Decode[bus_rdata]
        /\ rs1_value' = registers[insn'.rs1]
        /\ rs2_value' = registers[insn'.rs2]
        /\ state' = "DECODE"
     \/ /\ ~bus_done
        /\ UNCHANGED <<state, operandVars>>
  /\ UNCHANGED <<pc, registers, decodedVars, alu_ready>>

DecodeStage ==
  /\ state = "DECODE"
  /\ alu_op1' = rs1_value
  /\ alu_op2' = IF insn.op = "OP" THEN rs2_value ELSE insn.imm_i
  /\ loadstore_addr' =
       Plus(rs1_value, IF insn.op = "STORE" THEN insn.imm ELSE insn.imm_i)
  /\ branch_cond' = Taken(insn.f3, rs1_value, rs2_value)
  /\ alu_ready' = TRUE
  /\ state' = IF inst_is_exec THEN "EXEC" ELSE "WRITEBACK"
  /\ UNCHANGED <<pc, registers, operandVars, instruction_sync>>

Execute ==
  /\ state = "EXEC"
  /\ alu_ready' = FALSE
  /\ state' = IF exec_done THEN "WRITEBACK" ELSE "EXEC"
  /\ UNCHANGED <<pc, registers, operandVars, decodedVars, instruction_sync>>

Writeback ==
  /\ state = "WRITEBACK"
  /\ pc' = pc_next
  /\ registers' = IF inst_has_writeback /\ insn.rd # 0
                    THEN [registers EXCEPT ![insn.rd] = writeback_value]
                    ELSE registers
  /\ alu_ready' = FALSE
  /\ state' = "FETCH"
  /\ instruction_sync' = TRUE
  /\ UNCHANGED <<operandVars, decodedVars>>

(* The default branch: the state of power-on, no bit set. *)
NoState ==
  /\ state = "NONE"
  /\ state' = "FETCH"
  /\ UNCHANGED <<pc, registers, operandVars, decodedVars, alu_ready,
                 instruction_sync>>

CpuReset ==
  /\ state' = "FETCH"
  /\ pc' = 0
  /\ insn' = [insn EXCEPT !.rd = 0]
  /\ UNCHANGED <<registers, rs1_value, rs2_value, decodedVars, alu_ready,
                 instruction_sync>>

(* alu.sv is given rst and does not use it. *)
DividerClock ==
  /\ division_done_latch' = division_done
  /\ \/ /\ is_division /\ division_done /\ alu_ready
        /\ dividend' = Mag(insn.f3, alu_op1)
        /\ divisor' = Mag(insn.f3, alu_op2)
        /\ bitctr' = DivSteps
     \/ /\ is_division /\ ~division_done
        /\ bitctr' = bitctr - 1
        /\ UNCHANGED <<dividend, divisor>>
     \/ /\ ~is_division \/ (division_done /\ ~alu_ready)
        /\ UNCHANGED <<bitctr, dividend, divisor>>

MemoryClock ==
  IF DeviceAt(bus_addr) = "mem"
    THEN /\ memory' = IF bus_wen THEN [memory EXCEPT ![bus_addr] = rs2_value]
                      ELSE memory
         /\ mem_rdata' = IF bus_ren THEN memory[bus_addr] ELSE mem_rdata
         /\ xact_addr' = IF bus_ren \/ bus_wen THEN bus_addr ELSE xact_addr
    ELSE UNCHANGED memVars

SpramClock ==
  IF DeviceAt(bus_addr) = "spram"
    THEN /\ spram' = IF bus_wen THEN [spram EXCEPT ![bus_addr] = rs2_value]
                     ELSE spram
         /\ spram_rdata' = IF bus_wen THEN rs2_value
                           ELSE IF bus_ren THEN spram[bus_addr] ELSE spram_rdata
         /\ spram_done' = (bus_ren \/ bus_wen)
    ELSE spram_done' = FALSE /\ UNCHANGED <<spram, spram_rdata>>

-----------------------------------------------------------------------------
Devices == DividerClock /\ MemoryClock /\ SpramClock

Tick ==
  /\ rst_edges = MinReset
  /\ Fetch \/ DecodeStage \/ Execute \/ Writeback \/ NoState
  /\ Devices
  /\ UNCHANGED rstVars

(* rst has been pressed and is still held. *)
HoldReset ==
  /\ rst_edges < MinReset
  /\ rst_edges' = rst_edges + 1
  /\ CpuReset
  /\ Devices
  /\ UNCHANGED resets

PressReset ==
  /\ rst_edges = MinReset
  /\ resets < MaxResets
  /\ resets' = resets + 1
  /\ rst_edges' = 1
  /\ CpuReset
  /\ Devices

(* Power-on, as the initial values and Verilator's two-state simulation      *)
(* give it; the test bench starts with rst high.                             *)
Init ==
  /\ memory \in InitProg
  /\ registers \in InitRegs
  /\ state = "NONE" /\ pc = 0
  /\ insn = [ok |-> FALSE, op |-> "LOAD", rd |-> 0, rs1 |-> 0, rs2 |-> 0,
             imm |-> 0, imm_i |-> 0, f3 |-> 0, f7 |-> "I"]
  /\ rs1_value = 0 /\ rs2_value = 0
  /\ alu_op1 = 0 /\ alu_op2 = 0 /\ alu_ready = FALSE
  /\ loadstore_addr = 0 /\ branch_cond = FALSE /\ instruction_sync = FALSE
  /\ bitctr = 0 /\ dividend = 0 /\ divisor = 0 /\ division_done_latch = TRUE
  /\ mem_rdata = 0 /\ xact_addr = 0
  /\ spram = [a \in SpAddr |-> 0] /\ spram_rdata = 0 /\ spram_done = FALSE
  /\ rst_edges = 0 /\ resets = 0

Next == Tick \/ HoldReset \/ PressReset

Spec == Init /\ [][Next]_vars

(* The clock runs and a reset is released; nobody has to press it. *)
FairSpec == Spec /\ WF_vars(Tick \/ HoldReset)
=============================================================================

--------------------------- MODULE CpuPipelinedIsa ---------------------------
(***************************************************************************)
(* What the pipeline promises: seen at the edge where an instruction leaves *)
(* EX it is the sequential machine RvIsa.  This module gives the refinement *)
(* mapping, names the situations in which the code departs from RvIsa, and  *)
(* states the pipeline's own invariants.                                    *)
(***************************************************************************)
EXTENDS CpuPipelined

(* The instruction in EX is executed, for good, at the next edge. *)
Retire == EX_valid /\ EX_open

(* Registers once the result waiting in WB has been written. *)
IsaX ==
  IF WB_valid /\ WB_rd_idx # 0
    THEN [registers EXCEPT ![WB_rd_idx] = WB_value] ELSE registers

(* The oldest instruction that has not been executed yet.  EX_begin without *)
(* EX_valid is an illegal word on its way through EX.                        *)
IsaPc ==
  IF EX_valid \/ EX_begin THEN EX_pc
  ELSE IF DE_valid THEN DE_pc ELSE fetch_pc

(* One address space: the memory and, as a one-word segment, the port. *)
IsaMapped == (0 .. MemSize - 1) \cup {PpAddr}
IsaMem == [a \in IsaMapped |-> IF a = PpAddr THEN io ELSE progMEM[a]]

ISA == INSTANCE RvIsa WITH
         Mapped <- IsaMapped,
         InitX <- InitRegs,
         InitMem <- [IsaMapped -> Word],
         pc <- IsaPc, x <- IsaX, mem <- IsaMem

isaVars == <<IsaPc, IsaX, IsaMem>>


-----------------------------------------------------------------------------
(* Where the code departs from RvIsa, and what it does there instead. *)

(* ECALL, EBREAK and CSR instructions are marked unsafe, but WB_jump_pc is    *)
(* not computed for them: the fetch resumes at the last jump's target.       *)
SystemRedirects ==
  /\ Retire /\ EX_insn.op = "SYSTEM"
  /\ IsaPc' = WB_jump_pc
  /\ UNCHANGED <<IsaX, IsaMem>>

(* The instruction in EX puts an address outside the memory on the bus in    *)
(* the cycle in which the load in WB gets its answer from the memory.        *)
Overlap ==
  /\ WB_valid /\ WB_is_load_store /\ WB_rd_idx # 0
  /\ dev_n_selected = "mem"
  /\ DeviceAt(bus_addr) # "mem"

OverlappedLoadIsZero ==
  /\ Retire /\ EX_insn.op = "LOAD" /\ Overlap'
  /\ IsaPc' = Plus(EX_pc, 1)
  /\ IsaX' = [IsaX EXCEPT ![EX_insn.rd] = 0]
  /\ UNCHANGED IsaMem

(* The instruction was fetched before the store that overwrote it, or from   *)
(* an address the fetch wraps into the memory: EX runs what it was given.    *)
StaleFetch ==
  /\ Retire
  /\ EX_pc >= MemSize \/ EX_insn # Decode[progMEM[EX_pc]]
  /\ ISA!Exec(EX_insn)

(* The divider completes a run that was started with other operands.         *)
DividesOthersOperands ==
  /\ Retire /\ EX_insn.op = "OP" /\ is_division
  /\ \/ dividend # Mag(EX_insn.f3, alu_op1)
     \/ divisor # Mag(EX_insn.f3, alu_op2)
  /\ IsaPc' = Plus(EX_pc, 1)
  /\ \A r \in Reg \ {EX_insn.rd} : IsaX'[r] = IsaX[r]
  /\ UNCHANGED IsaMem

(* A word that is no instruction is skipped; RvIsa stops at it. *)
SkipsIllegal ==
  /\ EX_begin /\ ~EX_valid
  /\ IsaPc' = Plus(EX_pc, 1)
  /\ UNCHANGED <<IsaX, IsaMem>>

Departs ==
  \/ SystemRedirects \/ OverlappedLoadIsZero \/ StaleFetch
  \/ DividesOthersOperands \/ SkipsIllegal

(* Reset sends the machine to address 0; it costs at most the result in WB   *)
(* and lets at most the store in EX through.                                 *)
IsaReset ==
  /\ Reset
  /\ IsaPc' = 0
  /\ \E r \in Reg : \A s \in Reg \ {r} : IsaX'[s] = IsaX[s]
  /\ \E a \in IsaMapped : \A b \in IsaMapped \ {a} : IsaMem'[b] = IsaMem[b]

(* Every clock edge is an instruction of RvIsa, or invisible to it, or a     *)
(* reset, or one of the departures named above: interlocks, forwarding, the  *)
(* fetch stop behind jumps and the bus never show in any other way.          *)
FollowsIsa == [][ISA!Next \/ IsaReset \/ Departs]_isaVars

(* Programs that stay clear of the named situations run exactly as on RvIsa. *)
ImplementsIsa == ISA!Spec

-----------------------------------------------------------------------------
(* Invariants of the pipeline. *)

StageInsn == Insn \cup {NoInsn}

FeType ==
  /\ FE_pc \in Word /\ DE_pc \in Word /\ DE_instruction_reg \in Word
  /\ DE_valid \in BOOLEAN
ExType ==
  /\ EX_insn \in StageInsn /\ EX_rs1 \in Word /\ EX_rs2 \in Word
  /\ EX_pc \in Word
  /\ {EX_begin, EX_valid, EX_pc_unsafe} \subseteq BOOLEAN
DivType ==
  /\ bitctr \in 0 .. DivSteps /\ dividend \in Word /\ divisor \in Word
  /\ division_done_latch \in BOOLEAN
WbType ==
  /\ WB_pc \in Word /\ WB_ex_writeback \in Word /\ WB_jump_pc \in Word
  /\ WB_rd_idx \in Reg
  /\ {WB_valid, WB_pc_unsafe, WB_is_load_store} \subseteq BOOLEAN
MemType ==
  /\ progMEM \in [0 .. MemSize - 1 -> Word] /\ progMEM_rdata \in Word
  /\ registers \in [Reg -> Word]
BusType ==
  /\ dev_n_selected \in {"none", "pp", "mem"} /\ io \in Word
  /\ {mem_done, pp_ready} \subseteq BOOLEAN

(* Every register holds a value of its width. *)
TypeOK ==
  /\ FeType /\ ExType /\ DivType /\ WbType /\ MemType /\ BusType
  /\ resets \in 0 .. MaxResets

(* WB has no way to hold a redirect: the one cycle it is there the fetch     *)
(* takes it, and nothing younger is in the pipeline.                         *)
RedirectTaken ==
  WB_valid /\ WB_pc_unsafe =>
    /\ ~EX_valid /\ ~DE_valid
    /\ DE_open /\ ~unsafe_executing

(* cpu_arch.md: the write back stage is always open and never blocks. With   *)
(* the one-cycle devices of this SoC every access is acknowledged in WB, and *)
(* an access that no device takes is acknowledged by the hub itself          *)
(* (bus_hub_2_pl.sv:40).  bus.md:37 documents a hub that does not: behind it *)
(* WB would stay closed for good.                                            *)
WritebackNeverBlocks == WB_open

(* The operands of the instruction in EX are those of program order, for as  *)
(* long as it stays there.                                                   *)
OperandsCurrent ==
  EX_valid =>
    /\ EX_insn.op \notin {"JAL", "AUIPC"} => EX_rs1 = IsaX[EX_insn.rs1]
    /\ EX_insn.op \in {"OP", "STORE", "BRANCH"} => EX_rs2 = IsaX[EX_insn.rs2]

(* No instruction is fetched twice or dropped between two stages. *)
InOrder ==
  /\ EX_valid /\ DE_valid => DE_pc = Plus(EX_pc, 1) /\ ~EX_pc_unsafe
  /\ DE_valid => FE_pc = Plus(DE_pc, 1)
  /\ EX_valid /\ ~DE_valid => EX_pc_unsafe

(* Instructions keep being executed, whatever stalls, divisions, bubbles,    *)
(* redirects and resets meet, also behind an access that no device takes,    *)
(* which the hub acknowledges.  Only a FENCE stops the pipeline: EX opens    *)
(* for the opcodes it lists (cpu_pipelined.sv:324), and it is not of them.   *)
KeepsRetiring == []<>Retire \/ <>[](EX_valid /\ EX_insn.op = "FENCE")
=============================================================================

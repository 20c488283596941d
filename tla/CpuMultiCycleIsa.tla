-------------------------- MODULE CpuMultiCycleIsa ---------------------------
(***************************************************************************)
(* What the multi-cycle processor promises: it is the sequential machine    *)
(* RvIsa, an instruction taking effect at the edge at which it leaves write *)
(* back, a store at the first edge at which it is on the bus.               *)
(***************************************************************************)
EXTENDS CpuMultiCycle

(* The store in EXEC has been written: alu_ready is high in the first cycle  *)
(* of EXEC only.                                                             *)
Stored ==
  /\ insn.op = "STORE"
  /\ state = "WRITEBACK" \/ (state = "EXEC" /\ ~alu_ready)

Retire ==
  /\ rst_edges = MinReset
  /\ \/ state = "WRITEBACK" /\ insn.op # "STORE"
     \/ state = "EXEC" /\ insn.op = "STORE" /\ alu_ready

IsaPc == IF Stored THEN pc_advanced ELSE pc
IsaMapped == (0 .. MemSize - 1) \cup SpAddr
IsaMem == [a \in IsaMapped |-> IF a \in SpAddr THEN spram[a] ELSE memory[a]]

ISA == INSTANCE RvIsa WITH
         Mapped <- IsaMapped,
         InitX <- InitRegs,
         InitMem <- [IsaMapped -> Word],
         pc <- IsaPc, x <- registers, mem <- IsaMem

isaVars == <<IsaPc, registers, IsaMem>>

-----------------------------------------------------------------------------
(* Where the code departs from RvIsa, and what it does there instead. *)

(* instruction_length is not looked at: a word whose low bits are not 11     *)
(* runs as if they were.                                                     *)
ExecutesIllegal ==
  /\ Retire /\ ~insn.ok
  /\ ISA!Exec(insn)

(* inst_has_writeback excludes branches and stores only: a CSR instruction,  *)
(* and a FENCE with a register in bits 11:7, write zero to it.               *)
WritesZero ==
  /\ Retire /\ insn.op \in {"SYSTEM", "FENCE"} /\ insn.rd # 0
  /\ IsaPc' = pc_advanced
  /\ registers' = [registers EXCEPT ![insn.rd] = 0]
  /\ UNCHANGED IsaMem

(* sim_spram acknowledges the strobe of the edge before, and write back is   *)
(* such a strobe, for the address of the instruction it ends: code that runs *)
(* from there gets that word again.                                          *)
StaleFetch ==
  /\ Retire /\ pc \in SpAddr /\ insn # Decode[spram[pc]]
  /\ ISA!Exec(insn)

(* After a reset in EXEC the divider still runs for the instruction that was *)
(* there, or alu_ready is still high and a division is not waited for.       *)
DividesOthersOperands ==
  /\ resets > 0 /\ Retire /\ is_division
  /\ \/ bitctr # 0
     \/ dividend # Mag(insn.f3, alu_op1)
     \/ divisor # Mag(insn.f3, alu_op2)
  /\ IsaPc' = pc_advanced
  /\ \A r \in Reg \ {insn.rd} : registers'[r] = registers[r]
  /\ UNCHANGED IsaMem

Departs == ExecutesIllegal \/ WritesZero \/ StaleFetch \/ DividesOthersOperands

(* rst loses the instruction on its way, but not the store on the bus. *)
IsaReset ==
  /\ HoldReset \/ PressReset
  /\ IsaPc' = 0
  /\ UNCHANGED registers
  /\ IsaMem' = IF bus_wen THEN ISA!MSET(bus_addr, rs2_value) ELSE IsaMem

(* Every clock edge is an instruction of RvIsa, or invisible to it, or a     *)
(* reset, or one of the departures named above.                              *)
FollowsIsa == [][ISA!Next \/ IsaReset \/ Departs]_isaVars

-----------------------------------------------------------------------------

(* memory.sv acknowledges an address without being asked to read it, when it *)
(* is the one last accessed.  What it answers is nevertheless the word that  *)
(* is there now, also right after a store to it.                             *)
AcknowledgedIsCurrent ==
  rst_edges = MinReset =>
    /\ state = "FETCH" /\ DeviceAt(pc) = "mem" /\ mem_done =>
         mem_rdata = memory[pc]
    /\ state = "WRITEBACK" /\ insn.op = "LOAD"
         /\ DeviceAt(loadstore_addr) = "mem" =>
         mem_done /\ mem_rdata = memory[loadstore_addr]

(* Instructions keep being completed, FENCE and accesses that no device      *)
(* takes included: the latter because the hub acknowledges them              *)
(* (bus_hub_2.sv:51), where bus.md:37 documents one that does not.           *)
KeepsRetiring == []<>(state = "WRITEBACK")
=============================================================================

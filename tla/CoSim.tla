-------------------------------- MODULE CoSim --------------------------------
(***************************************************************************)
(* The co-simulation of rtl/cpu_v2/simulator/main.cpp: the clocked design   *)
(* and the software simulator run the same program side by side.  Whenever  *)
(* the write back stage completes an instruction the simulator executes     *)
(* one, and the program counter of that instruction and all registers are   *)
(* compared.  The memories are not (ck_mem is false).                       *)
(***************************************************************************)
EXTENDS CpuPipelined

VARIABLES
  simPc, simX, simMem,   \* the simulator's state
  verdict                \* what simulator_equals_dut found, "equal" so far

simVars == <<simPc, simX, simMem, verdict>>
coVars == <<vars, simVars>>

(* main.cpp gives the simulator the main memory and nothing else. *)
Sim == INSTANCE RvIsa WITH
         Mapped <- 0 .. MemSize - 1,
         InitX <- InitRegs,
         InitMem <- InitProg,
         pc <- simPc, x <- simX, mem <- simMem

(* Sampled before the edge, with WB_pc. *)
instruction_complete == WB_open /\ WB_valid

(* rv_simulator_step returns without effect at an illegal word. *)
SimStep ==
  \/ Sim!Step
  \/ /\ ~Decode[Sim!M(simPc)].ok
     /\ UNCHANGED <<simPc, simX, simMem>>

(* simulator_equals_dut, on the registers after the edge. *)
Compare(sim_prevpc, dut_prevpc, x, regs) ==
  IF sim_prevpc # dut_prevpc THEN "pc mismatch"
  ELSE IF x # regs THEN "register mismatch" ELSE "equal"

(* RESET_TIME half periods with rst high; the program and the registers were *)
(* copied to both sides.                                                     *)
ResetDut ==
  /\ Reset
  /\ UNCHANGED simVars

(* One turn of the while loop; it breaks at the first difference. *)
RunDut ==
  /\ resets = MaxResets
  /\ verdict = "equal"
  /\ Tick
  /\ \/ /\ ~instruction_complete
        /\ UNCHANGED simVars
     \/ /\ instruction_complete
        /\ SimStep
        /\ verdict' = Compare(simPc, WB_pc, simX', registers')

CoInit ==
  /\ Init
  /\ simPc = 0
  /\ simX = registers
  /\ simMem = progMEM
  /\ verdict = "equal"

CoNext == ResetDut \/ RunDut

CoSpec == CoInit /\ [][CoNext]_coVars

-----------------------------------------------------------------------------
(* simulator_equals_dut never reports a difference: the simulator is at the *)
(* instruction the design has just completed, and then all registers agree.  *)
ReportsNoDifference == verdict = "equal"
=============================================================================

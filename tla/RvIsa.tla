-------------------------------- MODULE RvIsa --------------------------------
(***************************************************************************)
(* The sequential machine of software/simulator: rv_simulator_step          *)
(* executes one instruction, whole, before it looks at the next one.  It is *)
(* what the project compares every processor with, so it is stated here as  *)
(* the abstract specification the processors are shown to implement.        *)
(*                                                                          *)
(* The module is only instantiated: what is assumed of its constants is     *)
(* assumed where they get their values.                                     *)
(***************************************************************************)
EXTENDS Rv32

CONSTANTS
  Mapped,   \* word addresses that some memory segment covers
  InitX,    \* register files the machine may start with
  InitMem   \* memory images it may start with

VARIABLES
  pc,    \* sim->pc
  x,     \* sim->x
  mem    \* the bytes of all segments, by word

vars == <<pc, x, mem>>

TypeOK ==
  /\ pc \in Word
  /\ x \in [Reg -> Word]
  /\ mem \in [Mapped -> Word]

-----------------------------------------------------------------------------
(* read_byte_fn: an address outside every segment reads as zero. *)
M(a) == IF a \in Mapped THEN mem[a] ELSE 0

(* write_byte_fn: a write outside every segment is dropped. *)
MSET(a, v) == IF a \in Mapped THEN [mem EXCEPT ![a] = v] ELSE mem

(* RSET: x0 is never written. *)
RSET(r, v) == IF r = 0 THEN x ELSE [x EXCEPT ![r] = v]

PcStep == pc' = Plus(pc, 1)

-----------------------------------------------------------------------------
(* One action per opcode case of rv_simulator_step.  The errors it returns   *)
(* within OP and OP_IMM are those of reserved encodings, which programs do   *)
(* not hold (Rv32.ReservedAssumption).                                       *)

ExecOp(i) ==
  /\ i.op = "OP"
  /\ x' = RSET(i.rd, Alu(FALSE, i.f7, i.f3, x[i.rs1], x[i.rs2]))
  /\ PcStep
  /\ UNCHANGED mem

ExecOpImm(i) ==
  /\ i.op = "OP_IMM"
  /\ x' = RSET(i.rd, Alu(TRUE, i.f7, i.f3, x[i.rs1], i.imm))
  /\ PcStep
  /\ UNCHANGED mem

ExecLoad(i) ==
  /\ i.op = "LOAD"
  /\ x' = RSET(i.rd, M(Plus(x[i.rs1], i.imm)))
  /\ PcStep
  /\ UNCHANGED mem

ExecStore(i) ==
  /\ i.op = "STORE"
  /\ mem' = MSET(Plus(x[i.rs1], i.imm), x[i.rs2])
  /\ PcStep
  /\ UNCHANGED x

ExecBranch(i) ==
  /\ i.op = "BRANCH"
  /\ \/ /\ Taken(i.f3, x[i.rs1], x[i.rs2])
        /\ pc' = Plus(pc, i.imm)
     \/ /\ ~Taken(i.f3, x[i.rs1], x[i.rs2])
        /\ PcStep
  /\ UNCHANGED <<x, mem>>

ExecJal(i) ==
  /\ i.op = "JAL"
  /\ x' = RSET(i.rd, Plus(pc, 1))
  /\ pc' = Plus(pc, i.imm)
  /\ UNCHANGED mem

ExecJalr(i) ==
  /\ i.op = "JALR"
  /\ pc' = Plus(x[i.rs1], i.imm)
  /\ x' = RSET(i.rd, Plus(pc, 1))
  /\ UNCHANGED mem

ExecUpper(i) ==
  /\ \/ /\ i.op = "LUI"
        /\ x' = RSET(i.rd, i.imm)
     \/ /\ i.op = "AUIPC"
        /\ x' = RSET(i.rd, Plus(pc, i.imm))
  /\ PcStep
  /\ UNCHANGED mem

(* ECALL, EBREAK and the CSR instructions: the callbacks are the embedding   *)
(* program's; the machine itself only moves on.                              *)
ExecSystem(i) ==
  /\ i.op = "SYSTEM"
  /\ PcStep
  /\ UNCHANGED <<x, mem>>

(* The final else: an error code is returned, but pc moves on. *)
ExecOther(i) ==
  /\ i.op = "FENCE"
  /\ PcStep
  /\ UNCHANGED <<x, mem>>

Exec(i) ==
  \/ ExecOp(i) \/ ExecOpImm(i) \/ ExecLoad(i) \/ ExecStore(i)
  \/ ExecBranch(i) \/ ExecJal(i) \/ ExecJalr(i) \/ ExecUpper(i)
  \/ ExecSystem(i) \/ ExecOther(i)

(* A word whose low bits are not 11 returns before anything changes. *)
Step ==
  /\ Decode[M(pc)].ok
  /\ Exec(Decode[M(pc)])

Init ==
  /\ pc = 0
  /\ x \in InitX
  /\ mem \in InitMem

Next == Step

Spec == Init /\ [][Next]_vars
=============================================================================

-------------------------------- MODULE Rv32 ---------------------------------
(***************************************************************************)
(* What the simulator and both processors share: words, instructions and    *)
(* the parameters that stand for the arithmetic.                            *)
(*                                                                          *)
(* Data are abstracted in two ways.  A word is a number below WordMod       *)
(* (2^32 in the code) and memory is addressed by words, so `pc + 4' is      *)
(* Plus(pc, 1).  An instruction word is mapped by Decode to its fields; what *)
(* arithmetic instructions and branch conditions compute is left to the     *)
(* operators Alu and Taken (Alu.tla has the arithmetic).                     *)
(***************************************************************************)
EXTENDS Integers

CONSTANTS
  WordMod,           \* number of values of a machine word
  Reg,               \* register numbers, 0 among them
  Decode,            \* the instruction each word encodes
  Alu(_, _, _, _, _),\* Alu(is_imm, funct7, funct3, in1, in2)
  Taken(_, _, _)     \* Taken(funct3, rs1, rs2): is the branch taken

Word == 0 .. WordMod - 1

(* OC_* of the opcodes a program may hold; FENCE (MISC_MEM) stands for       *)
(* every opcode rv_simulator_step has no case for.                           *)
Opcode == {"OP", "OP_IMM", "LOAD", "STORE", "BRANCH", "JAL", "JALR",
           "LUI", "AUIPC", "SYSTEM", "FENCE"}

(* ok: the two low bits are 11.  imm: the sign-extended immediate of the     *)
(* instruction's own format; imm_i: bits 31:20 read as an I-immediate.  f7   *)
(* is "M" when bits 31:25 are 0000001.                                       *)
Insn == [ok : BOOLEAN, op : Opcode, rd : Reg, rs1 : Reg, rs2 : Reg,
         imm : Word, imm_i : Word, f3 : 0 .. 7, f7 : {"I", "SUB", "M"}]

(* OP and OP_IMM encodings that RV32IM leaves open: rv_simulator_step returns *)
(* an error and steps over them (rv32i_simulator.c:153-174, 239-261), alu.sv  *)
(* computes something and writes it back.                                    *)
Reserved(i) ==
  \/ i.op = "OP" /\ i.f7 = "SUB" /\ i.f3 \notin {0, 5}
  \/ i.op = "OP_IMM" /\ i.f3 = 1 /\ i.f7 # "I"
  \/ i.op = "OP_IMM" /\ i.f3 = 5 /\ i.f7 = "M"

IsLoadStore(i) == i.op \in {"LOAD", "STORE"}

Plus(a, b) == (a + b) % WordMod

ASSUME WordAssumption == WordMod \in Nat \ {0}
ASSUME RegAssumption == 0 \in Reg
ASSUME DecodeAssumption == Decode \in [Word -> Insn]
(* Programs hold no reserved encoding: no compiler makes one. *)
ASSUME ReservedAssumption == \A w \in Word : ~ Reserved(Decode[w])
(* The immediate of these formats is the I-immediate. *)
ASSUME ImmediateAssumption ==
  \A w \in Word : Decode[w].op \in {"OP_IMM", "LOAD"} => Decode[w].imm = Decode[w].imm_i
ASSUME AluAssumption ==
  \A is_imm \in BOOLEAN, f7 \in {"I", "SUB", "M"}, f3 \in 0 .. 7,
     a \in Word, b \in Word : Alu(is_imm, f7, f3, a, b) \in Word
ASSUME TakenAssumption ==
  \A f3 \in 0 .. 7, a \in Word, b \in Word : Taken(f3, a, b) \in BOOLEAN
=============================================================================

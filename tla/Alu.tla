--------------------------------- MODULE Alu ---------------------------------
(***************************************************************************)
(* rtl/alu/alu.sv at the width of a word: the shifter, the multiplier, the  *)
(* comparisons and the divider behind one output, driven as the execute     *)
(* stage drives it, beside what rv_simulator_step computes for the same     *)
(* instruction.  XOR, OR and AND are the same operators in both languages,  *)
(* whatever they are, and so are parameters here.                           *)
(***************************************************************************)
EXTENDS Divider

CONSTANTS
  BitXor(_, _), BitOr(_, _), BitAnd(_, _),
  ImmBits,   \* width of imm_i (12 in the code)
  First,     \* what the execute stage may begin with
  Follow     \* what it may go on with

(* What EX gives the ALU: the instruction's fields and its operands. funct7  *)
(* is "SUB" for 0x20, which is SRA for the shifts, and "M" for 0x01.         *)
Kind == [is_imm : BOOLEAN, funct7 : {"I", "SUB", "M"}, funct3 : 0 .. 7]
Issue == [kind : Kind, in1 : Word, in2 : Word]

(* The instructions the simulator knows.  Bits 31:25 of an OP_IMM belong to  *)
(* the immediate unless it is a shift.                                       *)
Known(k) ==
  IF k.is_imm
    THEN CASE k.funct3 = 1 -> k.funct7 = "I"
           [] k.funct3 = 5 -> k.funct7 \in {"I", "SUB"}
           [] OTHER -> TRUE
    ELSE k.funct7 = "SUB" => k.funct3 \in {0, 5}

SignExtended == {i \in Word : i < Pow[ImmBits - 1] \/ i >= Pow[W] - Pow[ImmBits - 1]}
Issuable == {i \in Issue : Known(i.kind) /\ (i.kind.is_imm => i.in2 \in SignExtended)}

ASSUME IssueAssumption == First \subseteq Issuable /\ Follow \subseteq Issuable

VARIABLES
  ex,      \* the instruction and its operands
  ready,   \* EX_begin: its first cycle in EX
  valid    \* EX_valid; in a bubble alu.sv still sees the last instruction

vars == <<divVars, ex, ready, valid>>

-----------------------------------------------------------------------------
in1 == ex.in1
in2 == ex.in2
is_imm == ex.kind.is_imm
funct3 == ex.kind.funct3
funct7 == ex.kind.funct7

Value(bool) == IF bool THEN 1 ELSE 0
ToSigned(a) == IF Negative(a) THEN a - Pow[W] ELSE a

is_m_extension == ~is_imm /\ funct7 = "M"
is_division == is_m_extension /\ funct3 >= 4
is_division_signed == funct3 \in {4, 6}

(* A left shift is a right shift of the reversed word. *)
Bit(a, i) == (a \div Pow[i]) % 2
Reversed(a) ==
  LET first[k \in 0 .. W] ==   \* a's first k bits, reversed
        IF k = 0 THEN 0 ELSE 2 * first[k - 1] + Bit(a, k - 1)
  IN first[W]

(* $signed({ext & in[31], in}) >>> samt, its W low bits. *)
ShiftRight(in, ext, samt) ==
  ((IF ext THEN ToSigned(in) ELSE in) \div Pow[samt]) % Pow[W]

shifter_out ==
  LET samt == in2 % W IN   \* in2[4:0]
  IF funct3 = 1 THEN Reversed(ShiftRight(Reversed(in1), funct7 = "SUB", samt))
                ELSE ShiftRight(in1, funct7 = "SUB", samt)

(* Operands are sign-extended by one bit where they are signed. *)
mul_out ==
  ((IF funct3 \in {0, 1, 2} THEN ToSigned(in1) ELSE in1)
    * (IF funct3 \in {0, 1} THEN ToSigned(in2) ELSE in2)) % (Pow[W] * Pow[W])

remainder_out ==
  IF is_division_signed /\ Negative(in1) THEN Minus(remainder) ELSE remainder
quotient_out_negated ==   \* mutant: also when the divisor is zero
  IF is_division_signed /\ Negative(in1) # Negative(in2)
    THEN Minus(quotient) ELSE quotient
quotient_out ==
  IF is_division_signed /\ Negative(in1) # Negative(in2) /\ in2 # 0
    THEN Minus(quotient) ELSE quotient

done_first == is_division => division_done_posedge /\ ready   \* mutant
done == is_division => division_done_posedge

out ==
  CASE funct3 = 0 -> IF ~is_imm /\ funct7 = "SUB" THEN (in1 - in2) % Pow[W]
                     ELSE IF is_m_extension THEN mul_out % Pow[W]
                     ELSE (in1 + in2) % Pow[W]
    [] funct3 = 1 -> IF is_m_extension THEN mul_out \div Pow[W] ELSE shifter_out
    [] funct3 = 2 -> IF is_m_extension THEN mul_out \div Pow[W]
                     ELSE Value(ToSigned(in1) < ToSigned(in2))
    [] funct3 = 3 -> IF is_m_extension THEN mul_out \div Pow[W]
                     ELSE Value(in1 < in2)
    [] funct3 = 4 -> IF is_m_extension THEN quotient_out ELSE BitXor(in1, in2)
    [] funct3 = 5 -> IF is_m_extension THEN quotient_out ELSE shifter_out
    [] funct3 = 6 -> IF is_m_extension THEN remainder_out ELSE BitOr(in1, in2)
    [] funct3 = 7 -> IF is_m_extension THEN remainder_out ELSE BitAnd(in1, in2)

-----------------------------------------------------------------------------
(* One clock edge: the divider, and the execute stage behind its inputs. An  *)
(* instruction stays until alu.sv is done with it.                           *)

DividerClock == Clock(is_division, ready, is_division_signed, in1, in2)

Hold ==
  /\ valid /\ ~done
  /\ DividerClock
  /\ ready' = FALSE
  /\ UNCHANGED <<ex, valid>>

NextInstruction ==
  /\ valid => done
  /\ DividerClock
  /\ ex' \in Follow
  /\ ready' = TRUE
  /\ valid' = TRUE

Bubble ==
  /\ valid => done
  /\ DividerClock
  /\ ready' = FALSE
  /\ valid' = FALSE
  /\ UNCHANGED ex

Init ==
  /\ DivInit
  /\ ex \in First
  /\ ready = TRUE
  /\ valid = TRUE

Next == Hold \/ NextInstruction \/ Bubble

Spec == Init /\ [][Next]_vars
FairSpec == Spec /\ WF_vars(Next)

-----------------------------------------------------------------------------
(* rv_simulator_step's arithmetic on the same operands. *)

(* C division of int64_t rounds towards zero. *)
Quot(a, b) ==
  LET abs(v) == IF v < 0 THEN -v ELSE v
      q == abs(a) \div abs(b)
  IN IF (a < 0) = (b < 0) THEN q ELSE -q

(* sra(): a shift by the whole of its second argument, undefined in C from   *)
(* the word's width on.                                                      *)
SimSra(num, samt) ==
  num \div Pow[samt]
    + IF Negative(num) THEN Pow[W] - Pow[W - samt] ELSE 0

SimOp(k, a, b) ==
  CASE k.funct7 = "I" ->
        (CASE k.funct3 = 0 -> (a + b) % Pow[W]
           [] k.funct3 = 1 -> (a * Pow[b % W]) % Pow[W]
           [] k.funct3 = 2 -> Value(ToSigned(a) < ToSigned(b))
           [] k.funct3 = 3 -> Value(a < b)
           [] k.funct3 = 4 -> BitXor(a, b)
           [] k.funct3 = 5 -> a \div Pow[b % W]
           [] k.funct3 = 6 -> BitOr(a, b)
           [] k.funct3 = 7 -> BitAnd(a, b))
    [] k.funct7 = "SUB" ->
         IF k.funct3 = 0 THEN (a - b) % Pow[W] ELSE SimSra(a, b)
    [] k.funct7 = "M" ->
        (CASE k.funct3 = 0 -> (ToSigned(a) * ToSigned(b)) % Pow[W]
           [] k.funct3 = 1 -> ((ToSigned(a) * ToSigned(b)) \div Pow[W]) % Pow[W]
           [] k.funct3 = 2 -> ((ToSigned(a) * b) \div Pow[W]) % Pow[W]
           [] k.funct3 = 3 -> (a * b) \div Pow[W]
           [] k.funct3 = 4 -> IF b = 0 THEN Pow[W] - 1
                              ELSE Quot(ToSigned(a), ToSigned(b)) % Pow[W]
           [] k.funct3 = 5 -> IF b = 0 THEN Pow[W] - 1 ELSE a \div b
           [] k.funct3 = 6 ->
                IF b = 0 THEN a
                ELSE (ToSigned(a) - ToSigned(b)
                        * Quot(ToSigned(a), ToSigned(b))) % Pow[W]
           [] k.funct3 = 7 -> IF b = 0 THEN a ELSE a % b)

(* imm is s_imm_i; SLTIU alone compares with imm_i, before sign extension. *)
SimOpImm(k, a, imm) ==
  CASE k.funct3 = 1 -> (a * Pow[imm % W]) % Pow[W]
    [] k.funct3 = 3 -> Value(a < imm % Pow[ImmBits])
    [] k.funct3 = 5 -> IF k.funct7 = "SUB" THEN SimSra(a, imm % W)
                       ELSE a \div Pow[imm % W]
    [] OTHER -> SimOp([k EXCEPT !.funct7 = "I"], a, imm)

SimResult ==
  IF is_imm THEN SimOpImm(ex.kind, in1, in2) ELSE SimOp(ex.kind, in1, in2)

-----------------------------------------------------------------------------
is_sltiu == is_imm /\ funct3 = 3

(* SRA by W or more has no defined result in the simulator. *)
SimDefined == ~is_imm /\ funct7 = "SUB" /\ funct3 = 5 => in2 < W

(* What alu.sv presents with done is what the simulator computes, for every  *)
(* instruction but SLTIU; for a division this is many edges after its start. *)
ComputesAsSimulator ==
  valid /\ done /\ ~is_sltiu /\ SimDefined => out = SimResult

(* done is a pulse, but the instruction in EX never misses it. *)
AlwaysDone == valid /\ ready ~> valid /\ done
=============================================================================

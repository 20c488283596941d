----------------------------- MODULE MCPrograms ------------------------------
(***************************************************************************)
(* Values for the parameters of Rv32 in small instances: four registers, 32 *)
(* words of address space, and instruction words that are numbers of        *)
(* templates.                                                                *)
(***************************************************************************)
EXTENDS Rv32, Sequences, TLC

MCReg == 0 .. 3

I(op, rd, rs1, rs2, imm, f3, f7) ==
  [ok |-> TRUE, op |-> op, rd |-> rd, rs1 |-> rs1, rs2 |-> rs2,
   imm |-> imm % WordMod, imm_i |-> imm % WordMod, f3 |-> f3, f7 |-> f7]

(* Word w encodes Template[w + 1]. *)
Template == <<
  I("OP", 1, 1, 2, 0, 0, "I"),           \*  0 add x1,x1,x2
  I("OP", 2, 2, 1, 0, 0, "SUB"),         \*  1 sub x2,x2,x1
  I("OP", 1, 2, 3, 0, 4, "M"),           \*  2 div x1,x2,x3
  I("OP", 2, 1, 3, 0, 7, "M"),           \*  3 remu x2,x1,x3
  I("OP_IMM", 1, 0, 0, 5, 0, "I"),       \*  4 addi x1,x0,5
  I("OP_IMM", 2, 1, 0, 1, 0, "I"),       \*  5 addi x2,x1,1
  I("LOAD", 1, 0, 0, 5, 2, "I"),         \*  6 lw x1,[5]
  I("LOAD", 2, 1, 0, 0, 2, "I"),         \*  7 lw x2,(x1)
  I("LOAD", 2, 0, 0, 6, 4, "M"),         \*  8 lbu x2,[6], bits of a division
  I("LOAD", 3, 0, 0, 16, 2, "I"),        \*  9 lw x3,[port]
  I("STORE", 1, 0, 1, 5, 2, "I"),        \* 10 sw x1,[5]
  I("STORE", 2, 0, 2, 16, 2, "I"),       \* 11 sw x2,[port]
  I("STORE", 0, 1, 2, 0, 2, "I"),        \* 12 sw x2,(x1)
  I("BRANCH", 2, 1, 2, 2, 0, "I"),       \* 13 beq x1,x2,+2
  I("BRANCH", 2, 1, 0, 2, 1, "I"),       \* 14 bne x1,x0,+2
  I("BRANCH", 2, 2, 1, 2, 5, "M"),       \* 15 bge x2,x1,+2, bits of a division
  I("JAL", 1, 0, 0, 2, 0, "I"),          \* 16 jal x1,+2
  I("JAL", 0, 0, 0, -3, 0, "I"),         \* 17 jal x0,-3
  I("JALR", 2, 0, 0, 2, 0, "I"),         \* 18 jalr x2,2(x0)
  I("LUI", 1, 2, 0, 24, 0, "I"),         \* 19 lui x1,24
  I("AUIPC", 2, 0, 0, 4, 0, "I"),        \* 20 auipc x2,4
  I("OP_IMM", 1, 2, 0, 3, 6, "M"),       \* 21 ori x1,x2,3, bits of a division
  I("LOAD", 1, 0, 0, 24, 2, "I"),        \* 22 lw x1,[24], nothing there
  I("SYSTEM", 0, 0, 0, 0, 0, "I"),       \* 23 ecall
  I("FENCE", 0, 0, 0, 0, 0, "I"),        \* 24 fence
  [I("LOAD", 0, 0, 0, 0, 0, "I") EXCEPT !.ok = FALSE], \* 25 not an instruction
  I("JALR", 0, 1, 0, 0, 0, "I"),         \* 26 jalr x0,0(x1)
  I("OP", 3, 3, 2, 0, 6, "M"),           \* 27 rem x3,x3,x2
  I("JALR", 0, 0, 0, 16, 0, "I"),        \* 28 jalr x0,16(x0)
  I("SYSTEM", 2, 1, 0, 5, 1, "I") >>     \* 29 csrrw x2

MCDecode == [w \in Word |-> Template[(w % Len(Template)) + 1]]

(* Two's complement on words of WordMod values, and as much of alu.sv as the *)
(* templates use.                                                            *)
Neg(a) == a >= WordMod \div 2
Minus(a) == (WordMod - a) % WordMod
MCMag(f3, a) == IF f3 \in {4, 6} /\ Neg(a) THEN Minus(a) ELSE a
MCDivOut(f3, n, d, a, b) ==
  LET signed == f3 \in {4, 6}
      q == IF d = 0 THEN WordMod - 1 ELSE n \div d
      r == IF d = 0 THEN n ELSE n % d
  IN IF f3 \in {4, 5}
       THEN IF signed /\ Neg(a) # Neg(b) /\ b # 0 THEN Minus(q) ELSE q
       ELSE IF signed /\ Neg(a) THEN Minus(r) ELSE r
MCAlu(imm, f7, f3, a, b) ==
  IF ~imm /\ f7 = "M" /\ f3 >= 4
    THEN MCDivOut(f3, MCMag(f3, a), MCMag(f3, b), a, b)
    ELSE IF f3 = 0 /\ ~imm /\ f7 = "SUB" THEN (a + WordMod - b) % WordMod
    ELSE (a + b) % WordMod
Signed(a) == IF Neg(a) THEN a - WordMod ELSE a
MCTaken(f3, a, b) ==
  CASE f3 = 0 -> a = b
    [] f3 = 1 -> a # b
    [] f3 = 4 -> Signed(a) < Signed(b)
    [] f3 = 5 -> Signed(a) >= Signed(b)
    [] f3 = 6 -> a < b
    [] f3 = 7 -> a >= b
    [] OTHER -> FALSE

MCRegs == {(0 :> 0) @@ (1 :> 6) @@ (2 :> 13) @@ (3 :> 30)}

=============================================================================

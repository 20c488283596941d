-------------------------------- MODULE MCAlu --------------------------------
(***************************************************************************)
(* Words of four bits, immediates of three.  Every instruction with every   *)
(* pair of operands comes first; what follows it is one of a few, since all *)
(* it can inherit is the state the divider was left in.                     *)
(***************************************************************************)
EXTENDS Alu, Bitwise

MCXor(a, b) == a ^^ b
MCOr(a, b) == a | b
MCAnd(a, b) == a & b

MCPow == [k \in 0 .. W |-> 2 ^ k]

K(imm, f7, f3) == [is_imm |-> imm, funct7 |-> f7, funct3 |-> f3]
At(k, a, b) == [kind |-> k, in1 |-> a, in2 |-> b]

All == Issuable

Some == {At(K(FALSE, "M", 4), 8, 15), At(K(FALSE, "M", 7), 7, 0),
         At(K(FALSE, "M", 6), 9, 3), At(K(FALSE, "M", 5), 14, 4),
         At(K(FALSE, "I", 0), 7, 9), At(K(TRUE, "M", 6), 5, 2)}
=============================================================================

------------------------------- MODULE Divider -------------------------------
(***************************************************************************)
(* The divider inside rtl/alu/alu.sv: restoring division, one quotient bit  *)
(* per rising clock edge, on words of W bits (32 in the code).  Its inputs  *)
(* are free here: whatever an execute stage puts on them, at whatever time. *)
(* Alu.tla drives them the way the processors do.                           *)
(***************************************************************************)
EXTENDS Integers

CONSTANTS
  W,      \* width of a word
  Pow     \* Pow[k] = 2^k

ASSUME WidthAssumption == W \in Nat \ {0}
ASSUME PowAssumption ==
  /\ Pow \in [0 .. W -> Nat \ {0}]
  /\ Pow[0] = 1
  /\ \A k \in 0 .. W - 1 : Pow[k + 1] = 2 * Pow[k]

Word == 0 .. Pow[W] - 1

VARIABLES
  remainder, divisor, quotient, bitctr, division_done_latch,
  n, d     \* history: the magnitudes the running or last division started on

divVars == <<remainder, divisor, quotient, bitctr, division_done_latch, n, d>>

-----------------------------------------------------------------------------
Negative(in) == in >= Pow[W - 1]
Minus(in) == (Pow[W] - in) % Pow[W]

(* negative_dividend ? -in1 : in1, and the same for the divisor. *)
Magnitude(is_signed, in) == IF is_signed /\ Negative(in) THEN Minus(in) ELSE in

division_done_early == bitctr = 1   \* mutant
division_done == bitctr = 0
division_done_posedge == division_done /\ ~division_done_latch

(* divisor <= {0, remainder}: the next quotient bit is one. *)
Fits_strict == divisor < remainder   \* mutant
Fits == divisor <= remainder

Aligned(b) == b * Pow[W - 1]

Start(is_signed, in1, in2) ==
  /\ division_done
  /\ n' = Magnitude(is_signed, in1)
  /\ d' = Magnitude(is_signed, in2)
  /\ remainder' = n'
  /\ divisor' = Aligned(d')
  /\ quotient' = 0
  /\ bitctr' = W

Subtract ==
  /\ ~division_done
  /\ remainder' = IF Fits THEN remainder - divisor ELSE remainder
  /\ quotient' = (2 * quotient + IF Fits THEN 1 ELSE 0) % Pow[W]
  /\ divisor' = divisor \div 2
  /\ bitctr' = bitctr - 1
  /\ UNCHANGED <<n, d>>

(* The two always blocks of the divider at one clock edge. *)
Clock(is_division, ready, is_signed, in1, in2) ==
  /\ division_done_latch' = division_done
  /\ \/ is_division /\ ready /\ Start(is_signed, in1, in2)
     \/ is_division /\ Subtract
     \/ /\ ~is_division \/ (division_done /\ ~ready)
        /\ UNCHANGED <<remainder, divisor, quotient, bitctr, n, d>>

(* Until the first division the registers read as those of 0 / 1. *)
DivInit ==
  /\ remainder = 0 /\ divisor = 0 /\ quotient = 0 /\ bitctr = 0
  /\ division_done_latch = TRUE
  /\ n = 0 /\ d = 1

DivNext ==
  \E is_division, ready, is_signed \in BOOLEAN, in1, in2 \in Word :
     Clock(is_division, ready, is_signed, in1, in2)

DivSpec == DivInit /\ [][DivNext]_divVars

-----------------------------------------------------------------------------
(* Every register of the divider holds a value of its width: divisor is a    *)
(* double word, bitctr counts the bits still to come.                        *)
DivTypeOK ==
  /\ remainder \in Word /\ quotient \in Word
  /\ divisor \in 0 .. Pow[W] * Pow[W] - 1
  /\ bitctr \in 0 .. W
  /\ division_done_latch \in BOOLEAN
  /\ n \in Word /\ d \in Word

(* With bitctr quotient bits to go, dividend = quotient * divisor * 2^bitctr *)
(* + remainder, and the remainder is below divisor * 2^bitctr: the           *)
(* subtractions so far were the right ones, whatever the inputs did          *)
(* meanwhile.                                                                *)
LoopInvariant ==
  /\ n = quotient * (d * Pow[bitctr]) + remainder
  /\ d # 0 => remainder < d * Pow[bitctr]
  /\ divisor = IF bitctr = 0 THEN d \div 2 ELSE d * Pow[bitctr - 1]

(* A completed division: quotient and remainder of the magnitudes, and the   *)
(* values RISC-V asks for when the divisor is zero, an all-ones quotient and *)
(* the dividend as remainder.                                                *)
DividesCorrectly ==
  division_done =>
    /\ d # 0 => n = quotient * d + remainder /\ remainder < d
    /\ d = 0 => quotient = Pow[W] - 1 /\ remainder = n
=============================================================================

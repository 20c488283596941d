------------------------------ MODULE AluProofs ------------------------------
(***************************************************************************)
(* For words of every width: the divider computes quotient and remainder,   *)
(* whatever its inputs do while a division runs, and the ALU around it, as  *)
(* the execute stage drives it, presents what rv_simulator_step computes.   *)
(***************************************************************************)
EXTENDS Alu, WellFoundedInduction, TLAPS

-----------------------------------------------------------------------------
(* The divider. *)

(* LoopInvariant with what it takes to be inductive: the quotient has as     *)
(* many bits as steps were made, all ones when the divisor is zero.          *)
Inv ==
  /\ DivTypeOK
  /\ LoopInvariant
  /\ Pow[W - bitctr] * Pow[bitctr] = Pow[W]
  /\ d = 0 => quotient = Pow[W - bitctr] - 1

-----------------------------------------------------------------------------
(* Arithmetic. *)

(* A factor of two may stand with either factor.                             *)
LEMMA MoveTwo ==
  ASSUME NEW q \in Int, NEW e \in Int, NEW p \in Int
  PROVE  q * (e * (2 * p)) = (2 * q) * (e * p)
OBVIOUS

(* One more in a quotient is one more divisor.                               *)
LEMMA OneMore ==
  ASSUME NEW q \in Int, NEW e \in Int
  PROVE  (2 * q + 1) * e = (2 * q) * e + e
OBVIOUS

(* Products grow with their factors.                                         *)
LEMMA Monotone ==
  ASSUME NEW a \in Nat, NEW b \in Nat, NEW c \in Nat, a <= b
  PROVE  a * c <= b * c
OBVIOUS

(* Products of naturals are naturals, in either order.                       *)
LEMMA ProductNat ==
  ASSUME NEW a \in Nat, NEW b \in Nat
  PROVE  a * b \in Nat /\ b * a = a * b
OBVIOUS

(* Twice a factor is twice the product.                                      *)
LEMMA Double ==
  ASSUME NEW e \in Int, NEW p \in Int
  PROVE  e * (2 * p) = 2 * (e * p)
OBVIOUS

(* A value below the modulus is its own remainder. *)
LEMMA SmallMod ==
  ASSUME NEW a \in Nat, NEW m \in Nat, a < m
  PROVE  a % m = a
OBVIOUS
(* The powers of two up to W. *)
LEMMA Powers ==
  /\ Pow[0] = 1
  /\ \A k \in 0 .. W : Pow[k] \in Nat \ {0}
  /\ \A k \in 1 .. W : Pow[k] = 2 * Pow[k - 1]
  /\ W \in Nat \ {0}
<1>1. \A k \in 1 .. W : k - 1 \in 0 .. W - 1 /\ (k - 1) + 1 = k
  BY WidthAssumption
<1> QED BY <1>1, WidthAssumption, PowAssumption

(* The magnitude of a word is a word. *)
LEMMA MagnitudeWord ==
  ASSUME NEW s \in BOOLEAN, NEW in \in Word
  PROVE  Magnitude(s, in) \in Word
<1>1. Pow[W] \in Nat \ {0}
  BY Powers
<1>2. Minus(in) \in Word
  BY <1>1 DEF Minus, Word
<1> QED BY <1>2 DEF Magnitude

-----------------------------------------------------------------------------
(* Initially, as after 0 / 1. *)
LEMMA InitInv == DivInit => Inv
<1> SUFFICES ASSUME DivInit PROVE Inv
  OBVIOUS
<1> USE Powers DEF DivInit
<1>1. Pow[W] >= 2 /\ Pow[W] \in Nat
  <2>1. W \in 1 .. W /\ W - 1 \in 0 .. W
    OBVIOUS
  <2> QED BY <2>1
<1>2. DivTypeOK
  <2>1. Pow[W] * Pow[W] \in Nat \ {0}
    BY <1>1
  <2> QED BY <1>1, <2>1 DEF DivTypeOK, Word
<1>3. LoopInvariant
  BY DEF LoopInvariant
<1>4. Pow[W - bitctr] * Pow[bitctr] = Pow[W]
  BY <1>1
<1> QED BY <1>2, <1>3, <1>4 DEF Inv

(* A start, whatever the operands. *)
LEMMA StartInv ==
  ASSUME Inv, NEW s \in BOOLEAN, NEW a \in Word, NEW b \in Word,
         Start(s, a, b), division_done_latch' \in BOOLEAN
  PROVE  Inv'
<1> USE Powers
<1> DEFINE P == Pow[W]
           H == Pow[W - 1]
<1>1. P \in Nat /\ H \in Nat /\ P = 2 * H /\ H >= 1
  <2>1. W \in 1 .. W /\ W - 1 \in 0 .. W
    OBVIOUS
  <2> QED BY <2>1
<1>2. /\ n' \in Word /\ d' \in Word /\ remainder' = n'
      /\ divisor' = d' * H /\ quotient' = 0 /\ bitctr' = W
  BY MagnitudeWord DEF Start, Aligned
<1>3. d' \in Nat /\ d' < P /\ n' \in Nat /\ n' < P
  BY <1>1, <1>2 DEF Word
<1>4. d' * H \in 0 .. P * P - 1
  <2>1. d' * H <= P * H
    BY <1>1, <1>3, Monotone
  <2>2. H * P < P * P
    <3>1. P * P = 2 * (P * H)
      BY <1>1, Double
    <3>2. P * H >= 1 /\ P * H \in Nat /\ H * P = P * H
      <4>1. H \in Nat /\ P \in Nat /\ P >= 1 /\ H >= 1
        BY <1>1
      <4> HIDE DEF P, H
      <4>2. 1 * H <= P * H
        BY <4>1, Monotone
      <4> QED BY <4>1, <4>2, ProductNat
    <3> QED BY <3>1, <3>2
  <2>3. d' * H \in Nat /\ P * H = H * P /\ P * P \in Nat
    BY <1>1, <1>3, ProductNat
  <2> QED BY <2>1, <2>2, <2>3
<1>5. DivTypeOK'
  BY <1>1, <1>2, <1>4 DEF DivTypeOK, Word
<1>6. LoopInvariant'
  <2>1. n' = quotient' * (d' * Pow[bitctr']) + remainder'
    BY <1>1, <1>2, <1>3
  <2>2. ASSUME d' # 0 PROVE remainder' < d' * Pow[bitctr']
    <3>1. 1 * P <= d' * P
      BY <1>1, <1>3, <2>2, Monotone
    <3> QED BY <1>1, <1>2, <1>3, <3>1
  <2>3. divisor' = IF bitctr' = 0 THEN d' \div 2 ELSE d' * Pow[bitctr' - 1]
    BY <1>2
  <2> QED BY <2>1, <2>2, <2>3 DEF LoopInvariant
<1>7. Pow[W - bitctr'] * Pow[bitctr'] = Pow[W]
  BY <1>1, <1>2
<1>8. d' = 0 => quotient' = Pow[W - bitctr'] - 1
  BY <1>2
<1> QED BY <1>5, <1>6, <1>7, <1>8 DEF Inv

(* One quotient bit. *)
LEMMA SubtractInv ==
  ASSUME Inv, Subtract, division_done_latch' \in BOOLEAN
  PROVE  Inv'
<1> USE Powers
<1> DEFINE k == bitctr
           p == Pow[k - 1]
           P == Pow[W]
           S == Pow[W - k]
           e == d * p
<1>1. k \in 1 .. W /\ k - 1 \in 0 .. W /\ bitctr' = k - 1
  BY DEF Inv, DivTypeOK, Subtract, division_done
<1>2. /\ Pow[k] = 2 * p /\ p \in Nat \ {0} /\ P \in Nat \ {0}
      /\ S \in Nat \ {0} /\ Pow[W - (k - 1)] = 2 * S
  <2>1. W - k \in 0 .. W /\ W - (k - 1) \in 1 .. W /\ W - (k - 1) - 1 = W - k
    BY <1>1
  <2> QED BY <1>1, <2>1
<1>3. /\ remainder \in Nat /\ remainder < P /\ quotient \in Nat
      /\ n \in Nat /\ n < P /\ d \in Nat /\ d < P
  BY <1>2 DEF Inv, DivTypeOK, Word
<1>4. e \in Nat /\ divisor = e
  BY <1>1, <1>2, <1>3 DEF Inv, LoopInvariant
<1>5. n = (2 * quotient) * e + remainder
  <2>1. n = quotient * (d * (2 * p)) + remainder
    BY <1>2 DEF Inv, LoopInvariant
  <2> QED BY <1>2, <1>3, <2>1, MoveTwo
<1>6. d # 0 => remainder < 2 * e
  <2>1. d # 0 => remainder < d * (2 * p)
    BY <1>2 DEF Inv, LoopInvariant
  <2> QED BY <1>2, <1>3, <2>1, Double
<1>7. d # 0 => e >= 1
  <2>1. SUFFICES ASSUME d # 0 PROVE e >= 1
    OBVIOUS
  <2>2. 1 * p <= d * p
    BY <1>2, <1>3, <2>1, Monotone
  <2> QED BY <1>2, <1>3, <2>2
<1> DEFINE b == IF Fits THEN 1 ELSE 0
           q == 2 * quotient + b
           r == IF Fits THEN remainder - e ELSE remainder
<1>8. b \in {0, 1} /\ q \in Nat /\ r \in Nat /\ r <= remainder
  BY <1>3, <1>4 DEF Fits
<1>9. n = q * e + r
  <2>1. CASE Fits
    <3>1. q = 2 * quotient + 1 /\ r = remainder - e
      BY <2>1
    <3>2. (2 * quotient) * e \in Nat
      BY <1>3, <1>4
    <3>3. q * e = (2 * quotient) * e + e
      BY <1>3, <1>4, <3>1, OneMore
    <3> QED BY <1>3, <1>4, <1>5, <3>1, <3>2, <3>3
  <2>2. CASE ~Fits
    <3>1. q = 2 * quotient /\ r = remainder
      BY <1>3, <2>2
    <3> QED BY <1>5, <3>1
  <2> QED BY <2>1, <2>2
<1>10. d # 0 => r < e
  BY <1>3, <1>4, <1>6 DEF Fits
<1>11. d = 0 => e = 0 /\ Fits /\ q = 2 * S - 1
  <2>1. SUFFICES ASSUME d = 0 PROVE e = 0 /\ Fits /\ q = 2 * S - 1
    OBVIOUS
  <2>2. e = 0
    BY <1>2, <2>1
  <2>3. Fits
    BY <1>3, <1>4, <2>2 DEF Fits
  <2>4. quotient = S - 1
    BY <2>1 DEF Inv
  <2> QED BY <1>2, <2>2, <2>3, <2>4
<1>12. (2 * S) * p = P
  <2>1. S * (2 * p) = P
    BY <1>2 DEF Inv
  <2> QED BY <1>2, <2>1
<1>13. q < P
  <2>1. CASE d = 0
    <3>1. (2 * S) * 1 <= (2 * S) * p
      BY <1>2
    <3> QED BY <1>2, <1>11, <1>12, <2>1, <3>1
  <2>2. CASE d # 0
    <3>1. 1 * q <= e * q
      BY <1>4, <1>7, <1>8, <2>2, Monotone
    <3>2. e * q = q * e /\ q * e \in Nat
      BY <1>4, <1>8, ProductNat
    <3> QED BY <1>3, <1>8, <1>9, <3>1, <3>2
  <2> QED BY <2>1, <2>2
<1>14. /\ quotient' = q /\ remainder' = r /\ divisor' = divisor \div 2
       /\ n' = n /\ d' = d
  BY <1>2, <1>4, <1>8, <1>13, SmallMod DEF Subtract
<1>15. DivTypeOK'
  <2>1. divisor' \in 0 .. P * P - 1
    BY <1>4, <1>14 DEF Inv, DivTypeOK
  <2>2. n' \in Word /\ d' \in Word
    BY <1>14 DEF Inv, DivTypeOK
  <2>3. quotient' \in Word /\ remainder' \in Word
    BY <1>2, <1>3, <1>8, <1>13, <1>14 DEF Word
  <2> QED BY <1>1, <2>1, <2>2, <2>3 DEF DivTypeOK
<1>16. LoopInvariant'
  <2>1. divisor' = IF bitctr' = 0 THEN d' \div 2 ELSE d' * Pow[bitctr' - 1]
    <3>1. CASE k = 1
      BY <1>1, <1>2, <1>3, <1>4, <1>14, <3>1
    <3>2. CASE k # 1
      <4>1. k - 1 \in 1 .. W /\ k - 2 \in 0 .. W /\ (k - 1) - 1 = k - 2
        BY <1>1, <3>2
      <4>2. p = 2 * Pow[k - 2] /\ Pow[k - 2] \in Nat
        BY <4>1
      <4>3. e = 2 * (d * Pow[k - 2]) /\ d * Pow[k - 2] \in Nat
        BY <1>3, <4>2, Double
      <4> QED BY <1>1, <1>4, <1>14, <3>2, <4>1, <4>3
    <3> QED BY <3>1, <3>2
  <2> QED BY <1>1, <1>9, <1>10, <1>14, <2>1 DEF LoopInvariant
<1>17. Pow[W - bitctr'] * Pow[bitctr'] = Pow[W]
  BY <1>1, <1>2, <1>12
<1>18. d' = 0 => quotient' = Pow[W - bitctr'] - 1
  BY <1>1, <1>2, <1>11, <1>14
<1> QED BY <1>15, <1>16, <1>17, <1>18 DEF Inv

(* One clock edge. *)
LEMMA StepInv == Inv /\ [DivNext]_divVars => Inv'
<1> SUFFICES ASSUME Inv, [DivNext]_divVars PROVE Inv'
  OBVIOUS
<1>1. CASE UNCHANGED divVars
  BY <1>1 DEF divVars, Inv, DivTypeOK, LoopInvariant
<1>2. ASSUME NEW g \in BOOLEAN, NEW h \in BOOLEAN,
             NEW s \in BOOLEAN, NEW a \in Word, NEW b \in Word,
             Clock(g, h, s, a, b)
      PROVE  Inv'
  <2>1. division_done_latch' \in BOOLEAN
    BY <1>2 DEF Clock, division_done
  <2>2. CASE Start(s, a, b)
    BY <2>1, <2>2, StartInv
  <2>3. CASE Subtract
    BY <2>1, <2>3, SubtractInv
  <2>4. CASE UNCHANGED <<remainder, divisor, quotient, bitctr, n, d>>
    BY <2>1, <2>4 DEF Inv, DivTypeOK, LoopInvariant
  <2> QED BY <1>2, <2>2, <2>3, <2>4 DEF Clock
<1> QED BY <1>1, <1>2 DEF DivNext

(* The registers stay within their widths and keep the loop invariant,      *)
(* whatever instruction's operands reach alu.sv while it divides.           *)
THEOREM DividerInvariant == DivSpec => []Inv
BY InitInv, StepInv, PTL DEF DivSpec

(* At every edge the registers of the divider hold values of their widths (alu.sv:103). *)
THEOREM DividerTypeCorrect == DivSpec => []DivTypeOK
<1>1. Inv => DivTypeOK
  BY DEF Inv
<1> QED BY <1>1, DividerInvariant, PTL

(* A division that is over left quotient and remainder. *)
LEMMA InvDivides == Inv => DividesCorrectly
<1> SUFFICES ASSUME Inv, bitctr = 0 PROVE DividesCorrectly
  BY DEF DividesCorrectly, division_done
<1>1. Pow[0] = 1 /\ W - 0 = W
  BY Powers
<1>2. d \in Nat /\ d * 1 = d
  BY Powers DEF Inv, DivTypeOK, Word
<1>3. n = quotient * d + remainder /\ (d # 0 => remainder < d)
  BY <1>1, <1>2 DEF Inv, LoopInvariant
<1>4. d = 0 => quotient = Pow[W] - 1
  BY <1>1 DEF Inv
<1>5. d = 0 => remainder = n
  BY <1>3, Powers DEF Inv, DivTypeOK, Word
<1> QED BY <1>3, <1>4, <1>5 DEF DividesCorrectly

(* A completed division of words of any width W is the quotient and the      *)
(* remainder; a division by zero gives all ones and the dividend.            *)
THEOREM DivisionCorrect == DivSpec => []DividesCorrectly
BY InvDivides, DividerInvariant, PTL

-----------------------------------------------------------------------------
(* Quotients and remainders. *)

(* Quotient and remainder by a positive number. *)
LEMMA DivMod ==
  ASSUME NEW a \in Int, NEW b \in Nat \ {0}
  PROVE  /\ a \div b \in Int /\ a % b \in 0 .. b - 1
         /\ a = (a \div b) * b + (a % b)
OBVIOUS

(* They are the only ones. *)
LEMMA DivModUnique ==
  ASSUME NEW a \in Int, NEW b \in Nat \ {0}, NEW q \in Int, NEW r \in 0 .. b - 1,
         a = q * b + r
  PROVE  a \div b = q /\ a % b = r
<1> DEFINE p == a \div b
           s == a % b
<1>1. p \in Int /\ s \in 0 .. b - 1 /\ a = p * b + s
  BY DivMod
<1> HIDE DEF p, s
<1>2. (p - q) * b = r - s
  BY <1>1
<1>3. p - q < 1
  <2>1. SUFFICES ASSUME p - q >= 1 PROVE FALSE
    BY <1>1
  <2>2. 1 * b <= (p - q) * b
    BY <1>1, <2>1, Monotone
  <2> QED BY <1>1, <1>2, <2>2
<1>4. q - p < 1
  <2>1. SUFFICES ASSUME q - p >= 1 PROVE FALSE
    BY <1>1
  <2>2. 1 * b <= (q - p) * b
    BY <1>1, <2>1, Monotone
  <2>3. (q - p) * b = s - r
    BY <1>1
  <2> QED BY <1>1, <2>2, <2>3
<1>5. p = q /\ s = r
  BY <1>1, <1>2, <1>3, <1>4
<1> QED BY <1>5 DEF p, s

(* Products with a negative factor. *)
LEMMA MonotoneInt ==
  ASSUME NEW a \in Int, NEW b \in Int, NEW c \in Nat, a <= b
  PROVE  a * c <= b * c
OBVIOUS

(* A natural number's quotient is one, and no larger. *)
LEMMA DivNat ==
  ASSUME NEW a \in Nat, NEW b \in Nat \ {0}
  PROVE  a \div b \in Nat /\ a \div b <= a /\ (\A c \in Nat : a < c * b => a \div b < c)
<1> DEFINE q == a \div b
           r == a % b
<1>1. q \in Int /\ r \in 0 .. b - 1 /\ a = q * b + r
  BY DivMod
<1> HIDE DEF q, r
<1>2. q >= 0
  <2>1. SUFFICES ASSUME q <= 0 - 1 PROVE FALSE
    BY <1>1
  <2>2. q * b <= (0 - 1) * b
    BY <1>1, <2>1, MonotoneInt
  <2> QED BY <1>1, <2>2
<1>3. q <= a
  <2>1. 1 * q <= b * q
    BY <1>1, <1>2, Monotone
  <2>2. b * q = q * b
    BY <1>1
  <2> QED BY <1>1, <1>2, <2>1, <2>2
<1>4. ASSUME NEW c \in Nat, a < c * b PROVE q < c
  <2>1. SUFFICES ASSUME c <= q PROVE FALSE
    BY <1>1, <1>4
  <2>2. c * b <= q * b
    BY <1>1, <1>2, <2>1, Monotone
  <2>3. c * b \in Nat /\ q * b \in Nat
    BY <1>1, <1>2, ProductNat
  <2> QED BY <1>1, <1>4, <2>2, <2>3
<1> QED BY <1>1, <1>2, <1>3, <1>4 DEF q

(* A multiple of the modulus makes no difference. *)
LEMMA ModShift ==
  ASSUME NEW a \in Int, NEW k \in Int, NEW b \in Nat \ {0}
  PROVE  (a + k * b) % b = a % b /\ (a + k * b) \div b = a \div b + k
<1> DEFINE q == a \div b
           r == a % b
<1>1. q \in Int /\ r \in 0 .. b - 1 /\ a = q * b + r
  BY DivMod
<1> HIDE DEF q, r
<1>2. a + k * b = (q + k) * b + r
  BY <1>1
<1>3. a + k * b \in Int /\ q + k \in Int
  BY <1>1
<1>4. (a + k * b) \div b = q + k /\ (a + k * b) % b = r
  BY <1>1, <1>2, <1>3, DivModUnique
<1> QED BY <1>4 DEF q, r

(* The halves of a double word: what is cut from above makes no difference. *)
LEMMA Halves ==
  ASSUME NEW x \in Int, NEW P \in Nat \ {0}
  PROVE  /\ (x % (P * P)) % P = x % P
         /\ (x % (P * P)) \div P = (x \div P) % P
<1> DEFINE q == x \div P
           r == x % P
           u == q \div P
           v == q % P
<1>1. q \in Int /\ r \in 0 .. P - 1 /\ x = q * P + r
  BY DivMod
<1> HIDE DEF q, r
<1>2. u \in Int /\ v \in 0 .. P - 1 /\ q = u * P + v
  BY <1>1, DivMod
<1> HIDE DEF u, v
<1>3. P * P \in Nat \ {0} /\ v * P \in Nat
  BY <1>2
<1>4. v * P + r \in 0 .. P * P - 1
  <2>1. v * P <= (P - 1) * P
    BY <1>2, Monotone
  <2>2. (P - 1) * P = P * P - P
    OBVIOUS
  <2> QED BY <1>1, <1>2, <1>3, <2>1, <2>2
<1>5. x = u * (P * P) + (v * P + r)
  <2>1. q * P = u * (P * P) + v * P
    <3>1. q * P = (u * P) * P + v * P
      BY <1>2
    <3>2. (u * P) * P = u * (P * P)
      BY <1>2
    <3> QED BY <3>1, <3>2
  <2>2. u * (P * P) \in Int
    BY <1>2, <1>3
  <2> DEFINE A == u * (P * P)
             B == v * P
             C == q * P
  <2>3. A \in Int /\ B \in Int /\ C = A + B /\ x = C + r
    BY <1>1, <1>3, <2>1, <2>2
  <2> HIDE DEF A, B, C
  <2>4. x = A + (B + r)
    BY <1>1, <2>3
  <2> QED BY <2>4 DEF A, B
<1>6. x % (P * P) = v * P + r
  BY <1>2, <1>3, <1>4, <1>5, DivModUnique
<1>7. (v * P + r) % P = r /\ (v * P + r) \div P = v
  BY <1>1, <1>2, <1>3, DivModUnique
<1> QED BY <1>6, <1>7 DEF q, r, v

-----------------------------------------------------------------------------
(* Induction over the numbers, for sets of numbers. *)

(* A set of numbers has a least one. *)
LEMMA LeastNumber ==
  ASSUME NEW S, S \subseteq Nat, S # {}
  PROVE  \E k \in S : \A m \in S : k <= m
<1> DEFINE R == {p \in Nat \X Nat : p[1] < p[2]}
<1>1. IsWellFoundedOn(R, Nat)
  BY NatLessThanWellFounded DEF OpToRel
<1>2. \A a, b \in Nat : a < b => <<a, b>> \in R
  OBVIOUS
<1> HIDE DEF R
<1>3. PICK k \in S : \A m \in S : ~ (<<m, k>> \in R)
  BY <1>1, WFMin
<1>4. ASSUME NEW m \in S PROVE k <= m
  <2>1. ~ (m < k)
    BY <1>2, <1>3
  <2> QED BY <2>1
<1> QED BY <1>4

(* A set that holds zero and every successor of its members holds all numbers. *)
LEMMA SetInduction ==
  ASSUME NEW S, 0 \in S, \A k \in Nat : k \in S => k + 1 \in S
  PROVE  Nat \subseteq S
<1>1. SUFFICES ASSUME Nat \ S # {} PROVE FALSE
  OBVIOUS
<1>2. PICK k \in Nat \ S : \A m \in Nat \ S : k <= m
  BY <1>1, LeastNumber
<1>3. k # 0 /\ k - 1 \in Nat
  BY <1>2
<1>4. k - 1 \in S
  BY <1>2, <1>3
<1> QED BY <1>2, <1>3, <1>4

-----------------------------------------------------------------------------
(* Bits, and the reversal of a word. *)

(* Mirror(a)[k] is a's first k bits, reversed. *)
Mirrors(f, a) ==
  /\ f \in [0 .. W -> Nat]
  /\ f[0] = 0
  /\ \A k \in 1 .. W : f[k] = 2 * f[k - 1] + Bit(a, k - 1)
Mirror(a) == CHOOSE f : Mirrors(f, a)

(* Exponents add. *)
LEMMA PowersAdd ==
  \A j \in 0 .. W : \A i \in 0 .. W : i + j <= W => Pow[i + j] = Pow[i] * Pow[j]
<1> USE Powers
<1> DEFINE N == {j \in Nat : \A i \in 0 .. W : i + j <= W => Pow[i + j] = Pow[i] * Pow[j]}
<1>1. 0 \in N
  <2>1. ASSUME NEW i \in 0 .. W PROVE Pow[i + 0] = Pow[i] * Pow[0]
    <3>1. Pow[i] \in Nat /\ i + 0 = i
      OBVIOUS
    <3> QED BY <3>1
  <2> QED BY <2>1
<1>2. ASSUME NEW j \in Nat, j \in N PROVE j + 1 \in N
  <2> SUFFICES ASSUME NEW i \in 0 .. W, i + (j + 1) <= W
               PROVE Pow[i + (j + 1)] = Pow[i] * Pow[j + 1]
    OBVIOUS
  <2>1. Pow[i + j] = Pow[i] * Pow[j]
    BY <1>2
  <2>2. i + (j + 1) \in 1 .. W /\ (i + (j + 1)) - 1 = i + j /\ j + 1 \in 1 .. W /\ (j + 1) - 1 = j
    OBVIOUS
  <2>3. Pow[i + (j + 1)] = 2 * Pow[i + j] /\ Pow[j + 1] = 2 * Pow[j]
    BY <2>2
  <2>4. Pow[i] \in Nat /\ Pow[j] \in Nat
    BY <2>2
  <2> QED BY <2>1, <2>3, <2>4, Double
<1> HIDE DEF N
<1>3. Nat \subseteq N
  BY <1>1, <1>2, SetInduction
<1> QED BY <1>3 DEF N

(* A bit is zero or one. *)
LEMMA BitIs ==
  ASSUME NEW a \in Nat, NEW i \in 0 .. W
  PROVE  Bit(a, i) \in 0 .. 1
<1>1. a \div Pow[i] \in Nat
  BY Powers, DivNat
<1> QED BY <1>1 DEF Bit

(* Doubling a number moves its bits up. *)
LEMMA BitStep ==
  ASSUME NEW x \in Nat, NEW b \in 0 .. 1
  PROVE  /\ Bit(2 * x + b, 0) = b
         /\ \A i \in 0 .. W - 1 : Bit(2 * x + b, i + 1) = Bit(x, i)
<1> USE Powers
<1>1. (2 * x + b) \div 1 = 2 * x + b
  <2>1. 2 * x + b \in Int /\ 0 \in 0 .. 1 - 1 /\ 2 * x + b = (2 * x + b) * 1 + 0
    OBVIOUS
  <2> QED BY <2>1, DivModUnique
<1>2. (2 * x + b) % 2 = b
  <2>1. 2 * x + b \in Int /\ b \in 0 .. 2 - 1 /\ 2 * x + b = x * 2 + b
    OBVIOUS
  <2> QED BY <2>1, DivModUnique
<1>3. ASSUME NEW i \in 0 .. W - 1 PROVE Bit(2 * x + b, i + 1) = Bit(x, i)
  <2> DEFINE p == Pow[i]
             q == x \div p
             r == x % p
  <2>1. p \in Nat \ {0} /\ i + 1 \in 1 .. W /\ (i + 1) - 1 = i /\ Pow[i + 1] = 2 * p
    <3>1. i \in 0 .. W /\ i + 1 \in 1 .. W /\ (i + 1) - 1 = i
      OBVIOUS
    <3> QED BY <3>1
  <2> HIDE DEF p
  <2>2. q \in Int /\ r \in 0 .. p - 1 /\ x = q * p + r
    <3>1. p \in Nat \ {0}
      BY <2>1
    <3> QED BY <3>1, DivMod
  <2> HIDE DEF q, r
  <2>3. 2 * x + b = q * (2 * p) + (2 * r + b)
    BY <2>1, <2>2
  <2>4. 2 * x + b \in Int /\ 2 * p \in Nat \ {0} /\ 2 * r + b \in 0 .. 2 * p - 1
    BY <2>1, <2>2
  <2>5. (2 * x + b) \div (2 * p) = q
    BY <2>2, <2>3, <2>4, DivModUnique
  <2> QED BY <2>1, <2>5 DEF Bit, p, q
<1>4. Bit(2 * x + b, 0) = b
  BY <1>1, <1>2 DEF Bit
<1> QED BY <1>3, <1>4

(* The low k + 1 bits are the low k bits and one more. *)
LEMMA LowBits ==
  ASSUME NEW a \in Nat, NEW k \in 0 .. W - 1
  PROVE  a % Pow[k + 1] = (a % Pow[k]) + Bit(a, k) * Pow[k]
<1> DEFINE p == Pow[k]
           q == a \div p
           r == a % p
           u == q \div 2
           v == q % 2
<1>1. p \in Nat \ {0} /\ Pow[k + 1] = 2 * p
  <2>1. k \in 0 .. W /\ k + 1 \in 1 .. W /\ (k + 1) - 1 = k
    BY Powers
  <2> QED BY <2>1, Powers
<1> HIDE DEF p
<1>2. q \in Int /\ r \in 0 .. p - 1 /\ a = q * p + r
  <2>1. p \in Nat \ {0}
    BY <1>1
  <2> QED BY <2>1, DivMod
<1> HIDE DEF q, r
<1>3. u \in Int /\ v \in 0 .. 2 - 1 /\ q = u * 2 + v
  BY <1>2, DivMod
<1> HIDE DEF u, v
<1>4. a = u * (2 * p) + (v * p + r)
  BY <1>1, <1>2, <1>3
<1>5. v * p + r \in 0 .. 2 * p - 1
  BY <1>1, <1>2, <1>3
<1>6. a % (2 * p) = v * p + r
  <2>1. a \in Int /\ 2 * p \in Nat \ {0} /\ u \in Int
    BY <1>1, <1>3
  <2> QED BY <2>1, <1>4, <1>5, DivModUnique
<1>7. Bit(a, k) = v
  BY DEF Bit, v, q, p
<1> QED BY <1>1, <1>2, <1>3, <1>6, <1>7 DEF r, p

(* The reversed bits exist and are one sequence. *)
LEMMA MirrorExists ==
  ASSUME NEW a \in Nat
  PROVE  \E f : Mirrors(f, a)
<1> USE Powers
<1> DEFINE Upto(m, f) == f[0] = 0 /\ \A k \in 1 .. m : f[k] = 2 * f[k - 1] + Bit(a, k - 1)
           N == {m \in Nat : m <= W => \E f \in [0 .. W -> Nat] : Upto(m, f)}
<1>1. 0 \in N
  <2>1. [k \in 0 .. W |-> 0] \in [0 .. W -> Nat] /\ Upto(0, [k \in 0 .. W |-> 0])
    OBVIOUS
  <2> QED BY <2>1
<1>2. ASSUME NEW m \in Nat, m \in N PROVE m + 1 \in N
  <2> SUFFICES ASSUME m + 1 <= W PROVE \E g \in [0 .. W -> Nat] : Upto(m + 1, g)
    OBVIOUS
  <2>1. PICK f \in [0 .. W -> Nat] : Upto(m, f)
    BY <1>2
  <2> DEFINE new == 2 * f[m] + Bit(a, m)
             g == [f EXCEPT ![m + 1] = new]
  <2>2. new \in Nat
    <3>1. m \in 0 .. W /\ f[m] \in Nat
      OBVIOUS
    <3>2. Bit(a, m) \in 0 .. 1
      BY <3>1, BitIs
    <3> QED BY <3>1, <3>2
  <2> HIDE DEF new
  <2>3. g \in [0 .. W -> Nat]
    BY <2>2
  <2>4. g[m + 1] = new /\ \A k \in 0 .. m : g[k] = f[k]
    OBVIOUS
  <2> HIDE DEF g
  <2>5. ASSUME NEW k \in 1 .. m + 1 PROVE g[k] = 2 * g[k - 1] + Bit(a, k - 1)
    <3>1. CASE k = m + 1
      <4>1. k - 1 = m /\ m \in 0 .. m
        BY <3>1
      <4> QED BY <2>4, <3>1, <4>1 DEF new
    <3>2. CASE k # m + 1
      <4>1. k \in 1 .. m /\ k \in 0 .. m /\ k - 1 \in 0 .. m
        BY <3>2
      <4> QED BY <2>1, <2>4, <4>1
    <3> QED BY <3>1, <3>2
  <2>6. g[0] = 0
    BY <2>1, <2>4
  <2> QED BY <2>3, <2>5, <2>6
<1> HIDE DEF N
<1>3. Nat \subseteq N
  BY <1>1, <1>2, SetInduction
<1>4. W \in N /\ W <= W
  BY <1>3
<1>5. \E f \in [0 .. W -> Nat] : Upto(W, f)
  <2> HIDE DEF Upto
  <2> QED BY <1>4, Zenon DEF N
<1> QED BY <1>5 DEF Mirrors

(* So Mirror(a) is one, of numbers. *)
LEMMA MirrorIs ==
  ASSUME NEW a \in Nat
  PROVE  /\ Mirrors(Mirror(a), a)
         /\ \A k \in 0 .. W : Mirror(a)[k] \in Nat
<1>1. Mirrors(Mirror(a), a)
  BY MirrorExists DEF Mirror
<1> QED BY <1>1 DEF Mirrors

(* The recursion in Reversed computes it. *)
LEMMA ReversedIs ==
  ASSUME NEW a \in Nat
  PROVE  Reversed(a) = Mirror(a)[W]
<1> DEFINE Step(f) == [k \in 0 .. W |-> IF k = 0 THEN 0 ELSE 2 * f[k - 1] + Bit(a, k - 1)]
           F == CHOOSE f : f = Step(f)
           m == Mirror(a)
<1>1. Mirrors(m, a)
  BY MirrorIs
<1>2. m = Step(m)
  BY <1>1, Powers DEF Mirrors
<1>3. F = Step(F)
  <2> HIDE DEF Step
  <2> QED BY <1>2, Zenon
<1>4. Reversed(a) = F[W]
  BY DEF Reversed
<1> HIDE DEF F, m
<1>5. F[0] = 0 /\ \A k \in 1 .. W : F[k] = 2 * F[k - 1] + Bit(a, k - 1)
  <2>1. \A k \in 0 .. W : Step(F)[k] = IF k = 0 THEN 0 ELSE 2 * F[k - 1] + Bit(a, k - 1)
    OBVIOUS
  <2>2. \A k \in 0 .. W : F[k] = IF k = 0 THEN 0 ELSE 2 * F[k - 1] + Bit(a, k - 1)
    <3> HIDE DEF Step
    <3> QED BY <1>3, <2>1
  <2> QED BY <2>2, Powers
<1> DEFINE N == {k \in Nat : k <= W => F[k] = m[k]}
<1>6. 0 \in N
  BY <1>1, <1>5 DEF Mirrors
<1>7. ASSUME NEW k \in Nat, k \in N PROVE k + 1 \in N
  <2> SUFFICES ASSUME k + 1 <= W PROVE F[k + 1] = m[k + 1]
    OBVIOUS
  <2>1. k + 1 \in 1 .. W /\ (k + 1) - 1 = k /\ F[k] = m[k]
    BY <1>7, Powers
  <2>2. F[k + 1] = 2 * F[k] + Bit(a, k)
    BY <1>5, <2>1
  <2>3. m[k + 1] = 2 * m[k] + Bit(a, k)
    BY <1>1, <2>1 DEF Mirrors
  <2> QED BY <2>1, <2>2, <2>3
<1> HIDE DEF N
<1>8. Nat \subseteq N
  BY <1>6, <1>7, SetInduction
<1>9. W \in N
  BY <1>8, Powers
<1> QED BY <1>4, <1>9, Powers DEF N, m

(* k reversed bits make a number of k bits. *)
LEMMA MirrorBound ==
  ASSUME NEW a \in Nat
  PROVE  \A k \in 0 .. W : Mirror(a)[k] < Pow[k]
<1> USE Powers
<1> DEFINE m == Mirror(a)
           N == {k \in Nat : k <= W => m[k] < Pow[k]}
<1>1. Mirrors(m, a)
  BY MirrorIs
<1> HIDE DEF m
<1>2. 0 \in N
  BY <1>1 DEF Mirrors
<1>3. ASSUME NEW k \in Nat, k \in N PROVE k + 1 \in N
  <2> SUFFICES ASSUME k + 1 <= W PROVE m[k + 1] < Pow[k + 1]
    OBVIOUS
  <2>1. k + 1 \in 1 .. W /\ (k + 1) - 1 = k /\ k \in 0 .. W /\ m[k] < Pow[k]
    BY <1>3
  <2>2. m[k + 1] = 2 * m[k] + Bit(a, k) /\ Pow[k + 1] = 2 * Pow[k] /\ m[k] \in Nat
    BY <1>1, <2>1 DEF Mirrors
  <2>3. Bit(a, k) \in 0 .. 1 /\ Pow[k] \in Nat
    BY <2>1, BitIs
  <2> QED BY <2>1, <2>2, <2>3
<1> HIDE DEF N
<1>4. Nat \subseteq N
  BY <1>2, <1>3, SetInduction
<1> QED BY <1>4 DEF N, m

(* Shifting a reversed word right drops the bits that came last. *)
LEMMA MirrorShift ==
  ASSUME NEW a \in Nat
  PROVE  \A s \in 0 .. W : Mirror(a)[W] \div Pow[s] = Mirror(a)[W - s]
<1> USE Powers
<1> DEFINE m == Mirror(a)
           N == {s \in Nat : s <= W =>
                   \E r \in 0 .. Pow[s] - 1 : m[W] = m[W - s] * Pow[s] + r}
<1>1. Mirrors(m, a)
  BY MirrorIs
<1> HIDE DEF m
<1>2. 0 \in N
  <2>1. m[W] \in Nat
    BY <1>1 DEF Mirrors
  <2>2. W - 0 = W /\ 0 \in 0 .. Pow[0] - 1 /\ m[W] = m[W] * Pow[0] + 0
    BY <2>1
  <2> QED BY <2>2
<1>3. ASSUME NEW s \in Nat, s \in N PROVE s + 1 \in N
  <2> SUFFICES ASSUME s + 1 <= W
               PROVE \E r \in 0 .. Pow[s + 1] - 1 : m[W] = m[W - (s + 1)] * Pow[s + 1] + r
    OBVIOUS
  <2>1. PICK r \in 0 .. Pow[s] - 1 : m[W] = m[W - s] * Pow[s] + r
    BY <1>3
  <2> DEFINE k == W - (s + 1)
             x == m[k]
             b == Bit(a, k)
             p == Pow[s]
  <2>2. k \in 0 .. W /\ W - s \in 1 .. W /\ (W - s) - 1 = k /\ s + 1 \in 1 .. W /\ (s + 1) - 1 = s
        /\ s \in 0 .. W
    OBVIOUS
  <2>3. m[W - s] = 2 * x + b /\ x \in Nat /\ b \in 0 .. 1
    BY <1>1, <2>2, BitIs DEF Mirrors
  <2>4. Pow[s + 1] = 2 * p /\ p \in Nat \ {0}
    BY <2>2
  <2> HIDE DEF x, b, p
  <2>5. m[W] = x * (2 * p) + (b * p + r)
    <3>1. m[W] = (2 * x + b) * p + r
      BY <2>1, <2>3 DEF p
    <3> QED BY <2>1, <2>3, <2>4, <3>1 DEF p
  <2>6. b * p + r \in 0 .. 2 * p - 1
    BY <2>1, <2>3, <2>4 DEF p
  <2> QED BY <2>4, <2>5, <2>6 DEF x
<1> HIDE DEF N
<1>4. Nat \subseteq N
  BY <1>2, <1>3, SetInduction
<1>5. ASSUME NEW s \in 0 .. W PROVE m[W] \div Pow[s] = m[W - s]
  <2>0. s \in N /\ s <= W
    BY <1>4
  <2>1. PICK r \in 0 .. Pow[s] - 1 : m[W] = m[W - s] * Pow[s] + r
    BY <2>0 DEF N
  <2>2. m[W] \in Int /\ m[W - s] \in Int /\ Pow[s] \in Nat \ {0}
    BY <1>1 DEF Mirrors
  <2> QED BY <2>1, <2>2, DivModUnique
<1> QED BY <1>5 DEF m

(* Reversing 2 * x + b puts b on top. *)
LEMMA MirrorDouble ==
  ASSUME NEW x \in Nat, NEW b \in 0 .. 1
  PROVE  \A j \in 0 .. W - 1 : Mirror(2 * x + b)[j + 1] = b * Pow[j] + Mirror(x)[j]
<1> USE Powers
<1> DEFINE y == 2 * x + b
           g == Mirror(y)
           m == Mirror(x)
           N == {j \in Nat : j <= W - 1 => g[j + 1] = b * Pow[j] + m[j]}
<1>0. y \in Nat /\ Bit(y, 0) = b /\ \A i \in 0 .. W - 1 : Bit(y, i + 1) = Bit(x, i)
  <2>1. 2 * x + b \in Nat
    OBVIOUS
  <2> QED BY <2>1, BitStep, Zenon
<1> HIDE DEF y
<1>1. Mirrors(m, x) /\ Mirrors(g, y)
  BY <1>0, MirrorIs
<1> HIDE DEF m, g
<1>2. 0 \in N
  <2>1. 1 \in 1 .. W /\ 1 - 1 = 0 /\ g[1] = 2 * g[0] + Bit(y, 0)
    BY <1>1 DEF Mirrors
  <2>2. g[0] = 0 /\ m[0] = 0
    BY <1>1 DEF Mirrors
  <2> QED BY <1>0, <2>1, <2>2
<1>3. ASSUME NEW j \in Nat, j \in N PROVE j + 1 \in N
  <2> SUFFICES ASSUME j + 1 <= W - 1 PROVE g[(j + 1) + 1] = b * Pow[j + 1] + m[j + 1]
    OBVIOUS
  <2>1. j + 1 \in 1 .. W /\ (j + 1) - 1 = j /\ (j + 1) + 1 \in 1 .. W /\ ((j + 1) + 1) - 1 = j + 1
        /\ j \in 0 .. W - 1 /\ j \in 0 .. W
    OBVIOUS
  <2>2. g[(j + 1) + 1] = 2 * g[j + 1] + Bit(y, j + 1)
    BY <1>1, <2>1 DEF Mirrors
  <2>3. Bit(y, j + 1) = Bit(x, j)
    BY <1>0, <2>1
  <2>4. m[j + 1] = 2 * m[j] + Bit(x, j) /\ Pow[j + 1] = 2 * Pow[j] /\ m[j] \in Nat /\ Pow[j] \in Nat
    BY <1>1, <2>1 DEF Mirrors
  <2>5. g[j + 1] = b * Pow[j] + m[j]
    BY <1>3, <2>1
  <2>6. b * (2 * Pow[j]) = 2 * (b * Pow[j]) /\ b * Pow[j] \in Nat
    BY <2>4
  <2>7. Bit(x, j) \in 0 .. 1
    BY <2>1, BitIs
  <2> QED BY <2>2, <2>3, <2>4, <2>5, <2>6, <2>7
<1> HIDE DEF N
<1>4. Nat \subseteq N
  BY <1>2, <1>3, SetInduction
<1> QED BY <1>4 DEF N, m, g, y

(* Nothing reversed is nothing. *)
LEMMA MirrorZero == \A j \in 0 .. W : Mirror(0)[j] = 0
<1> USE Powers
<1> DEFINE m == Mirror(0)
           N == {j \in Nat : j <= W => m[j] = 0}
<1>1. Mirrors(m, 0)
  BY MirrorIs
<1> HIDE DEF m
<1>2. 0 \in N
  BY <1>1 DEF Mirrors
<1>3. ASSUME NEW j \in Nat, j \in N PROVE j + 1 \in N
  <2> SUFFICES ASSUME j + 1 <= W PROVE m[j + 1] = 0
    OBVIOUS
  <2>1. j + 1 \in 1 .. W /\ (j + 1) - 1 = j /\ j \in 0 .. W /\ m[j] = 0
    BY <1>3
  <2>2. m[j + 1] = 2 * m[j] + Bit(0, j)
    BY <1>1, <2>1 DEF Mirrors
  <2>3. 0 \div Pow[j] = 0
    <3>1. Pow[j] \in Nat \ {0} /\ 0 \in 0 .. Pow[j] - 1 /\ 0 = 0 * Pow[j] + 0
      BY <2>1
    <3> QED BY <3>1, DivModUnique
  <2>4. Bit(0, j) = 0
    BY <2>3 DEF Bit
  <2> QED BY <2>1, <2>2, <2>4
<1> HIDE DEF N
<1>4. Nat \subseteq N
  BY <1>2, <1>3, SetInduction
<1> QED BY <1>4 DEF N, m

(* Reversing k reversed bits in a longer word gives the bits back, moved up. *)
LEMMA MirrorTwice ==
  ASSUME NEW a \in Nat, NEW j \in 0 .. W
  PROVE  \A k \in 0 .. W - j : Mirror(Mirror(a)[k])[k + j] = Pow[j] * (a % Pow[k])
<1> USE Powers
<1> DEFINE m == Mirror(a)
           N == {k \in Nat : k <= W - j => Mirror(m[k])[k + j] = Pow[j] * (a % Pow[k])}
<1>1. Mirrors(m, a)
  BY MirrorIs
<1> HIDE DEF m
<1>2. 0 \in N
  <2>1. a % Pow[0] = 0
    BY DivMod
  <2>2. m[0] = 0 /\ 0 + j = j /\ Mirror(0)[j] = 0
    BY <1>1, MirrorZero DEF Mirrors
  <2>3. Pow[j] \in Nat
    OBVIOUS
  <2> QED BY <2>1, <2>2, <2>3
<1>3. ASSUME NEW k \in Nat, k \in N PROVE k + 1 \in N
  <2> SUFFICES ASSUME k + 1 <= W - j
               PROVE Mirror(m[k + 1])[(k + 1) + j] = Pow[j] * (a % Pow[k + 1])
    OBVIOUS
  <2> DEFINE b == Bit(a, k)
             x == m[k]
             r == a % Pow[k]
  <2>1. k + 1 \in 1 .. W /\ (k + 1) - 1 = k /\ k \in 0 .. W - 1 /\ k \in 0 .. W
        /\ k + j \in 0 .. W - 1 /\ (k + 1) + j = (k + j) + 1 /\ k + j \in 0 .. W
    OBVIOUS
  <2>2. m[k + 1] = 2 * x + b /\ x \in Nat /\ b \in 0 .. 1
    BY <1>1, <2>1, BitIs DEF Mirrors
  <2>3. Mirror(2 * x + b)[(k + j) + 1] = b * Pow[k + j] + Mirror(x)[k + j]
    BY <2>1, <2>2, MirrorDouble
  <2>4. Mirror(x)[k + j] = Pow[j] * r
    BY <1>3, <2>1
  <2>5. Pow[k + j] = Pow[k] * Pow[j]
    BY <2>1, PowersAdd
  <2>6. a % Pow[k + 1] = r + b * Pow[k]
    BY <2>1, LowBits
  <2>7. r \in Nat /\ Pow[k] \in Nat /\ Pow[j] \in Nat
    <3>1. Pow[k] \in Nat \ {0} /\ Pow[j] \in Nat /\ a \in Int
      BY <2>1
    <3>2. r \in 0 .. Pow[k] - 1
      BY <3>1, DivMod, Zenon
    <3> QED BY <3>1, <3>2
  <2> HIDE DEF b, x, r
  <2>8. b * (Pow[k] * Pow[j]) + Pow[j] * r = Pow[j] * (r + b * Pow[k])
    BY <2>2, <2>7
  <2> QED BY <2>1, <2>2, <2>3, <2>4, <2>5, <2>6, <2>8
<1> HIDE DEF N
<1>4. Nat \subseteq N
  BY <1>2, <1>3, SetInduction
<1> QED BY <1>4 DEF N, m

(* So a left shift may be made of a right shift and two reversals. *)
LEMMA LeftShift ==
  ASSUME NEW a \in Word, NEW s \in 0 .. W
  PROVE  /\ Reversed(a) \in Word
         /\ Reversed(Reversed(a) \div Pow[s]) = (a * Pow[s]) % Pow[W]
<1> USE Powers
<1> DEFINE m == Mirror(a)
           k == W - s
           P == Pow[W]
           p == Pow[k]
           t == Pow[s]
           q == a \div p
           r == a % p
<1>0. a \in Nat /\ k \in 0 .. W /\ k + s = W /\ P \in Nat \ {0} /\ W \in 0 .. W
      /\ p \in Nat \ {0} /\ t \in Nat \ {0}
  BY DEF Word
<1>1. Reversed(a) = m[W] /\ m[W] \in Nat /\ m[W] < P /\ m[k] \in Nat
  BY <1>0, ReversedIs, MirrorIs, MirrorBound
<1>2. m[W] \div t = m[k]
  BY <1>0, MirrorShift
<1>3. Reversed(m[k]) = Mirror(m[k])[k + s]
  BY <1>0, <1>1, ReversedIs
<1>4. Mirror(m[k])[k + s] = t * r
  BY <1>0, MirrorTwice
<1>5. P = p * t
  BY <1>0, PowersAdd
<1> HIDE DEF m, P, p, t, k
<1>6. q \in Int /\ r \in 0 .. p - 1 /\ a = q * p + r
  BY <1>0, DivMod
<1> HIDE DEF q, r
<1>7. a * t = q * P + t * r
  BY <1>0, <1>5, <1>6
<1>8. t * r \in 0 .. P - 1
  <2>1. (r + 1) * t <= p * t
    BY <1>0, <1>6, Monotone
  <2>2. (r + 1) * t = t * r + t /\ t * r \in Nat
    BY <1>0, <1>6
  <2> QED BY <1>0, <1>5, <2>1, <2>2
<1>9. (a * t) % P = t * r
  <2> DEFINE x == a * t
             y == t * r
  <2>1. x \in Int /\ P \in Nat \ {0} /\ q \in Int /\ y \in 0 .. P - 1 /\ x = q * P + y
    BY <1>0, <1>6, <1>7, <1>8
  <2> HIDE DEF x, y
  <2>2. x % P = y
    BY <2>1, DivModUnique
  <2> QED BY <2>2 DEF x, y
<1> QED BY <1>0, <1>1, <1>2, <1>3, <1>4, <1>9 DEF Word, P, t

-----------------------------------------------------------------------------
(* The shifter. *)

(* A word read as a signed number. *)
LEMMA SignedIs ==
  ASSUME NEW a \in Word
  PROVE  /\ Pow[W] \in Nat \ {0} /\ Pow[W - 1] \in Nat \ {0} /\ Pow[W] = 2 * Pow[W - 1]
         /\ a \in Nat /\ a < Pow[W] /\ ToSigned(a) \in Int
         /\ Negative(a) => ToSigned(a) = a - Pow[W] /\ ToSigned(a) < 0
         /\ ~ Negative(a) => ToSigned(a) = a /\ ToSigned(a) >= 0
<1>1. Pow[W] \in Nat \ {0} /\ Pow[W - 1] \in Nat \ {0} /\ Pow[W] = 2 * Pow[W - 1]
  <2>1. W \in 0 .. W /\ W - 1 \in 0 .. W /\ W \in 1 .. W
    BY Powers
  <2> QED BY <2>1, Powers
<1> QED BY <1>1 DEF Word, ToSigned, Negative

(* The two right shifts. *)
LEMMA RightShift ==
  ASSUME NEW a \in Word, NEW s \in 0 .. W, NEW ext \in BOOLEAN
  PROVE  ShiftRight(a, ext, s) = IF ext THEN SimSra(a, s) ELSE a \div Pow[s]
<1> DEFINE P == Pow[W]
           t == Pow[s]
           p == Pow[W - s]
           q == a \div t
           r == a % t
<1>1. P \in Nat \ {0} /\ t \in Nat \ {0} /\ p \in Nat \ {0} /\ P = p * t
  <2>1. W - s \in 0 .. W /\ (W - s) + s = W /\ W \in 0 .. W
    BY Powers
  <2>2. P = p * t
    BY <2>1, PowersAdd
  <2> QED BY <2>1, <2>2, Powers
<1>2. a \in Nat /\ a < P
  BY SignedIs
<1> HIDE DEF P, t, p
<1>3. q \in Nat /\ q < p /\ r \in 0 .. t - 1 /\ a = q * t + r
  <2>1. a \in Int /\ t \in Nat \ {0} /\ p \in Nat /\ a < p * t
    BY <1>1, <1>2
  <2>2. q \in Nat /\ q < p
    BY <1>2, <2>1, DivNat
  <2>3. q \in Int /\ r \in 0 .. t - 1 /\ a = q * t + r
    BY <2>1, DivMod
  <2> QED BY <2>2, <2>3
<1> HIDE DEF q, r
<1>4. p <= P /\ p * t \in Nat
  <2>1. 1 * p <= t * p
    BY <1>1, Monotone
  <2> QED BY <1>1, <2>1
<1>5. q % P = q
  BY <1>1, <1>3, <1>4, SmallMod
<1>6. CASE ext /\ Negative(a)
  <2>1. ToSigned(a) = a - P
    BY <1>6 DEF ToSigned, P
  <2>2. a - P = (q - p) * t + r
    BY <1>1, <1>3
  <2>3. a - P \in Int /\ q - p \in Int
    BY <1>1, <1>2, <1>3
  <2>4. (a - P) \div t = q - p
    BY <1>1, <1>3, <2>2, <2>3, DivModUnique
  <2>5. (q - p) % P = q + (P - p)
    <3> DEFINE x == q - p
               y == q + (P - p)
    <3>1. x = (-1) * P + y /\ x \in Int /\ -1 \in Int
      BY <1>1, <1>3
    <3>2. y \in 0 .. P - 1
      BY <1>1, <1>3, <1>4
    <3> HIDE DEF x, y
    <3>3. x % P = y
      BY <1>1, <3>1, <3>2, DivModUnique
    <3> QED BY <3>3 DEF x, y
  <2>6. ShiftRight(a, ext, s) = q + (P - p)
    BY <1>6, <2>1, <2>4, <2>5 DEF ShiftRight, P, t
  <2> QED BY <1>6, <2>6 DEF SimSra, P, p, q, t
<1>7. CASE ~ (ext /\ Negative(a))
  <2>1. ShiftRight(a, ext, s) = q
    BY <1>5, <1>7 DEF ShiftRight, ToSigned, P, q, t
  <2>2. q + 0 = q
    BY <1>3
  <2> QED BY <1>7, <2>1, <2>2 DEF SimSra, q, t
<1> QED BY <1>6, <1>7

(* The instruction and its operands. *)
LEMMA IssueIs ==
  ASSUME ex \in Issuable
  PROVE  /\ is_imm \in BOOLEAN /\ funct7 \in {"I", "SUB", "M"} /\ funct3 \in 0 .. 7
         /\ in1 \in Word /\ in2 \in Word
         /\ is_imm /\ funct3 = 1 => funct7 = "I"
         /\ is_imm /\ funct3 = 5 => funct7 \in {"I", "SUB"}
         /\ ~ is_imm /\ funct7 = "SUB" => funct3 \in {0, 5}
         /\ in2 % W \in 0 .. W /\ (in2 < W => in2 % W = in2)
<1>1. /\ is_imm \in BOOLEAN /\ funct7 \in {"I", "SUB", "M"} /\ funct3 \in 0 .. 7
      /\ in1 \in Word /\ in2 \in Word
  BY DEF Issuable, Issue, Kind, is_imm, funct7, funct3, in1, in2
<1>2. Known(ex.kind)
  BY DEF Issuable
<1>3. in2 \in Nat /\ W \in Nat \ {0}
  BY <1>1, SignedIs, Powers
<1>4. in2 % W \in 0 .. W - 1
  BY <1>3, DivMod
<1>5. in2 < W => in2 % W = in2
  BY <1>3, SmallMod
<1>6. in2 % W \in 0 .. W
  BY <1>3, <1>4
<1>7. /\ is_imm /\ funct3 = 1 => funct7 = "I"
      /\ is_imm /\ funct3 = 5 => funct7 \in {"I", "SUB"}
      /\ ~ is_imm /\ funct7 = "SUB" => funct3 \in {0, 5}
  BY <1>2 DEF Known, is_imm, funct7, funct3
<1> QED BY <1>1, <1>5, <1>6, <1>7

(* What the shifter puts out, for each of its operations. *)
LEMMA ShifterIs ==
  ASSUME ex \in Issuable, ~ is_m_extension
  PROVE  /\ funct3 = 1 => shifter_out = (in1 * Pow[in2 % W]) % Pow[W]
         /\ funct3 = 5 => shifter_out = IF funct7 = "SUB" THEN SimSra(in1, in2 % W)
                                        ELSE in1 \div Pow[in2 % W]
<1>1. in1 \in Word /\ in2 % W \in 0 .. W
  BY IssueIs
<1>2. ASSUME funct3 = 1 PROVE shifter_out = (in1 * Pow[in2 % W]) % Pow[W]
  <2>1. funct7 # "SUB"
    BY <1>2, IssueIs
  <2>2. Reversed(in1) \in Word
    BY <1>1, LeftShift
  <2>3. ShiftRight(Reversed(in1), FALSE, in2 % W) = Reversed(in1) \div Pow[in2 % W]
    BY <1>1, <2>2, RightShift
  <2>4. shifter_out = Reversed(ShiftRight(Reversed(in1), FALSE, in2 % W))
    BY <1>2, <2>1 DEF shifter_out
  <2>5. Reversed(Reversed(in1) \div Pow[in2 % W]) = (in1 * Pow[in2 % W]) % Pow[W]
    BY <1>1, LeftShift
  <2> QED BY <2>3, <2>4, <2>5
<1>3. ASSUME funct3 = 5
      PROVE  shifter_out = IF funct7 = "SUB" THEN SimSra(in1, in2 % W)
                           ELSE in1 \div Pow[in2 % W]
  <2>1. shifter_out = ShiftRight(in1, funct7 = "SUB", in2 % W)
    BY <1>3 DEF shifter_out
  <2>2. (funct7 = "SUB") \in BOOLEAN
    OBVIOUS
  <2> QED BY <1>1, <2>1, <2>2, RightShift, Zenon
<1> QED BY <1>2, <1>3

-----------------------------------------------------------------------------
(* The multiplier. *)
LEMMA MultiplierIs ==
  ASSUME ex \in Issuable, is_m_extension
  PROVE  /\ funct3 = 0 => mul_out % Pow[W] = (ToSigned(in1) * ToSigned(in2)) % Pow[W]
         /\ funct3 = 1 => mul_out \div Pow[W]
                            = ((ToSigned(in1) * ToSigned(in2)) \div Pow[W]) % Pow[W]
         /\ funct3 = 2 => mul_out \div Pow[W] = ((ToSigned(in1) * in2) \div Pow[W]) % Pow[W]
         /\ funct3 = 3 => mul_out \div Pow[W] = (in1 * in2) \div Pow[W]
<1> DEFINE P == Pow[W]
           s == ToSigned(in1)
           t == ToSigned(in2)
<1>1. /\ P \in Nat \ {0} /\ s \in Int /\ t \in Int
      /\ in1 \in Nat /\ in1 < P /\ in2 \in Nat /\ in2 < P
  BY IssueIs, SignedIs
<1>2. mul_out = ((IF funct3 \in {0, 1, 2} THEN s ELSE in1)
                  * (IF funct3 \in {0, 1} THEN t ELSE in2)) % (P * P)
  BY DEF mul_out
<1> HIDE DEF P, s, t
<1>3. s * t \in Int /\ s * in2 \in Int /\ in1 * in2 \in Nat
  BY <1>1
<1>4. CASE funct3 = 0 \/ funct3 = 1
  <2>1. mul_out = (s * t) % (P * P)
    BY <1>2, <1>4
  <2>2. mul_out % P = (s * t) % P /\ mul_out \div P = ((s * t) \div P) % P
    BY <1>1, <1>3, <2>1, Halves
  <2> QED BY <1>4, <2>2 DEF P, s, t
<1>5. CASE funct3 = 2
  <2>1. mul_out = (s * in2) % (P * P)
    BY <1>2, <1>5
  <2>2. mul_out \div P = ((s * in2) \div P) % P
    BY <1>1, <1>3, <2>1, Halves
  <2> QED BY <1>5, <2>2 DEF P, s
<1>6. CASE funct3 = 3
  <2>1. mul_out = (in1 * in2) % (P * P)
    BY <1>2, <1>6
  <2>2. in1 * in2 < P * P
    <3>1. in1 * in2 <= (P - 1) * in2
      BY <1>1, Monotone
    <3>2. in2 * P <= (P - 1) * P
      BY <1>1, Monotone
    <3>3. (P - 1) * in2 = in2 * P - in2 /\ (P - 1) * P = P * P - P /\ in2 * P \in Nat /\ P * P \in Nat
      BY <1>1
    <3> QED BY <1>1, <1>3, <3>1, <3>2, <3>3
  <2>3. P * P \in Nat
    BY <1>1
  <2>4. mul_out = in1 * in2
    BY <1>3, <2>1, <2>2, <2>3, SmallMod
  <2> QED BY <1>6, <2>4 DEF P
<1> QED BY <1>4, <1>5, <1>6

-----------------------------------------------------------------------------
(* The divider behind the output. *)

(* The negative of a word, and of the number it holds. *)
LEMMA MinusIs ==
  ASSUME NEW a \in Word
  PROVE  /\ a = 0 => Minus(a) = 0
         /\ a # 0 => Minus(a) = Pow[W] - a
         /\ (-a) % Pow[W] = Minus(a)
<1> DEFINE P == Pow[W]
<1>1. P \in Nat \ {0} /\ a \in Nat /\ a < P
  BY SignedIs
<1> HIDE DEF P
<1>2. CASE a = 0
  <2>1. P = 1 * P + 0 /\ 0 = 0 * P + 0 /\ 0 \in 0 .. P - 1
    BY <1>1
  <2>2. P % P = 0 /\ 0 % P = 0
    BY <1>1, <2>1, DivModUnique
  <2>3. P - a = P /\ -a = 0
    <3>1. -a = 0 - a
      BY <1>1
    <3>2. P - a = P /\ 0 - a = 0
      BY <1>1, <1>2
    <3> QED BY <3>1, <3>2, Zenon
  <2> QED BY <1>2, <2>2, <2>3 DEF Minus, P
<1>3. CASE a # 0
  <2> DEFINE x == P - a
             y == -a
  <2>1. x \in 0 .. P - 1 /\ x = 0 * P + x /\ y = (-1) * P + x /\ y \in Int /\ -1 \in Int /\ x \in Int
    BY <1>1, <1>3
  <2> HIDE DEF x, y
  <2>2. x % P = x /\ y % P = x
    BY <1>1, <2>1, DivModUnique
  <2> QED BY <1>3, <2>2 DEF Minus, P, x, y
<1> QED BY <1>2, <1>3

(* A division is made on magnitudes. *)
LEMMA MagnitudeIs ==
  ASSUME NEW a \in Word
  PROVE  /\ Magnitude(FALSE, a) = a
         /\ Magnitude(TRUE, a) \in Word
         /\ Magnitude(TRUE, a) = 0 <=> a = 0
         /\ Negative(a) => /\ ToSigned(a) = - Magnitude(TRUE, a) /\ ToSigned(a) < 0
                           /\ Minus(Magnitude(TRUE, a)) = a
         /\ ~ Negative(a) => ToSigned(a) = Magnitude(TRUE, a) /\ ToSigned(a) >= 0
<1> DEFINE P == Pow[W]
<1>1. /\ P \in Nat \ {0} /\ Pow[W - 1] \in Nat \ {0} /\ a \in Nat /\ a < P
      /\ Negative(a) => ToSigned(a) = a - P /\ ToSigned(a) < 0
      /\ ~ Negative(a) => ToSigned(a) = a /\ ToSigned(a) >= 0
      /\ Negative(a) => a # 0
  BY SignedIs DEF Negative
<1>2. Magnitude(FALSE, a) = a
  BY DEF Magnitude
<1>3. CASE Negative(a)
  <2>1. Magnitude(TRUE, a) = P - a
    BY <1>1, <1>3, MinusIs DEF Magnitude
  <2>2. P - a \in Word /\ P - a # 0 /\ P - (P - a) = a
    BY <1>1, <1>3 DEF Word
  <2>3. Minus(P - a) = a
    BY <2>2, MinusIs
  <2> DEFINE m == Magnitude(TRUE, a)
             t == ToSigned(a)
  <2>4. m = P - a /\ t = a - P /\ m \in Word /\ m # 0 /\ Minus(m) = a /\ t < 0
    BY <1>1, <1>3, <2>1, <2>2, <2>3
  <2> HIDE DEF m, t
  <2>5. t = -m
    BY <1>1, <2>4
  <2> QED BY <1>1, <1>2, <1>3, <2>4, <2>5 DEF m, t
<1>4. CASE ~ Negative(a)
  <2>1. Magnitude(TRUE, a) = a
    BY <1>4 DEF Magnitude
  <2> QED BY <1>1, <1>2, <1>4, <2>1
<1> QED BY <1>3, <1>4

(* The magnitude of a number. *)
Abs(v) == IF v < 0 THEN -v ELSE v

(* C's division divides magnitudes. *)
LEMMA QuotIs ==
  ASSUME NEW s \in Int, NEW t \in Int
  PROVE  Quot(s, t) = IF (s < 0) = (t < 0) THEN Abs(s) \div Abs(t)
                      ELSE -(Abs(s) \div Abs(t))
BY DEF Quot, Abs

(* What a completed division puts out, for each of its operations. *)
LEMMA DivisionIs ==
  ASSUME DivTypeOK, DividesCorrectly, division_done, ex \in Issuable, is_division,
         n = Magnitude(is_division_signed, in1), d = Magnitude(is_division_signed, in2)
  PROVE  /\ funct3 = 4 => quotient_out = IF in2 = 0 THEN Pow[W] - 1
                            ELSE Quot(ToSigned(in1), ToSigned(in2)) % Pow[W]
         /\ funct3 = 5 => quotient_out = IF in2 = 0 THEN Pow[W] - 1 ELSE in1 \div in2
         /\ funct3 = 6 => remainder_out = IF in2 = 0 THEN in1
                            ELSE (ToSigned(in1) - ToSigned(in2)
                                    * Quot(ToSigned(in1), ToSigned(in2))) % Pow[W]
         /\ funct3 = 7 => remainder_out = IF in2 = 0 THEN in1 ELSE in1 % in2
<1> DEFINE P == Pow[W]
           s == ToSigned(in1)
           t == ToSigned(in2)
           q == quotient
           r == remainder
<1>1. in1 \in Word /\ in2 \in Word /\ in1 \in Nat /\ in2 \in Nat /\ P \in Nat \ {0}
      /\ s \in Int /\ t \in Int /\ in1 < P /\ in2 < P
  BY IssueIs, SignedIs
<1>2. q \in Word /\ r \in Word /\ q \in Nat /\ q < P /\ r \in Nat /\ r < P
      /\ n \in Nat /\ d \in Nat
  BY <1>1 DEF DivTypeOK, Word
<1>3. d # 0 => n = q * d + r /\ r < d
  BY DEF DividesCorrectly
<1>4. d = 0 => q = P - 1 /\ r = n
  BY DEF DividesCorrectly
<1>5. ASSUME funct3 \in {5, 7}
      PROVE  /\ n = in1 /\ d = in2 /\ quotient_out = q /\ remainder_out = r
             /\ in2 # 0 => in1 \div in2 = q /\ in1 % in2 = r
  <2>1. ~ is_division_signed
    BY <1>5 DEF is_division_signed
  <2>2. n = in1 /\ d = in2
    BY <2>1 DEF Magnitude
  <2>3. quotient_out = q /\ remainder_out = r
    BY <2>1 DEF quotient_out, remainder_out
  <2>4. in2 # 0 => in1 \div in2 = q /\ in1 % in2 = r
    <3>1. SUFFICES ASSUME in2 # 0 PROVE in1 \div in2 = q /\ in1 % in2 = r
      OBVIOUS
    <3>2. in1 = q * in2 + r /\ r \in 0 .. in2 - 1 /\ in1 \in Int /\ in2 \in Nat \ {0} /\ q \in Int
      BY <1>1, <1>2, <1>3, <2>2, <3>1
    <3> HIDE DEF q, r
    <3> QED BY <3>2, DivModUnique
  <2> QED BY <2>2, <2>3, <2>4
<1>6. ASSUME funct3 \in {4, 6}
      PROVE  /\ in2 = 0 => quotient_out = P - 1 /\ remainder_out = in1
             /\ in2 # 0 => /\ quotient_out = Quot(s, t) % P
                           /\ remainder_out = (s - t * Quot(s, t)) % P
  <2>1. is_division_signed
    BY <1>6 DEF is_division_signed
  <2> DEFINE na == Negative(in1)
             nb == Negative(in2)
  <2>2. n = Magnitude(TRUE, in1) /\ d = Magnitude(TRUE, in2)
    BY <2>1
  <2>3. /\ d = 0 <=> in2 = 0
        /\ na => s = -n /\ s < 0 /\ Minus(n) = in1
        /\ ~ na => s = n /\ s >= 0
        /\ nb => t = -d /\ t < 0
        /\ ~ nb => t = d /\ t >= 0
    BY <1>1, <2>2, MagnitudeIs
  <2>4. /\ quotient_out = IF na # nb /\ in2 # 0 THEN Minus(q) ELSE q
        /\ remainder_out = IF na THEN Minus(r) ELSE r
    BY <2>1 DEF quotient_out, remainder_out
  <2>5. Minus(q) = (-q) % P /\ q = q % P /\ Minus(r) = (-r) % P /\ r = r % P
    BY <1>1, <1>2, MinusIs, SmallMod
  <2>6. na \in BOOLEAN /\ nb \in BOOLEAN
    BY DEF Negative
  <2>7. ASSUME in2 = 0 PROVE quotient_out = P - 1 /\ remainder_out = in1
    <3>1. q = P - 1 /\ r = n /\ quotient_out = q
      BY <1>4, <2>3, <2>4, <2>7
    <3>2. na => Minus(r) = in1
      BY <2>3, <3>1
    <3>3. ~ na => r = in1
      BY <2>2, <3>1 DEF Magnitude
    <3> QED BY <2>4, <3>1, <3>2, <3>3
  <2>8. ASSUME in2 # 0
        PROVE quotient_out = Quot(s, t) % P /\ remainder_out = (s - t * Quot(s, t)) % P
    <3> HIDE DEF P, s, t, q, r, na, nb
    <3>1. n = q * d + r /\ r < d /\ d \in Nat \ {0}
      BY <1>2, <1>3, <2>3, <2>8
    <3>2. s = n \/ s = -n
      BY <2>3
    <3>3. t = d \/ t = -d
      BY <2>3
    <3>4. Quot(s, t) = IF (s < 0) = (t < 0) THEN q ELSE -q
      <4>1. n \div d = q
        BY <1>2, <3>1, DivModUnique
      <4>2. Abs(s) = n /\ Abs(t) = d
        BY <1>1, <1>2, <2>3 DEF Abs
      <4> QED BY <1>1, <4>1, <4>2, QuotIs
    <3>5. ((s < 0) = (t < 0)) <=> (na <=> nb)
      BY <1>1, <2>3, <2>6
    <3>6. Quot(s, t) = IF na <=> nb THEN q ELSE -q
      BY <3>4, <3>5
    <3>7. quotient_out = Quot(s, t) % P
      BY <2>4, <2>5, <2>6, <2>8, <3>6
    <3>8. s - t * Quot(s, t) = IF na THEN -r ELSE r
      <4>1. q * d \in Int /\ d * q = q * d /\ (-d) * q = -(q * d) /\ d * (-q) = -(q * d) /\ (-d) * (-q) = q * d
        BY <1>2
      <4>2. CASE na /\ nb
        BY <1>2, <2>3, <3>1, <3>6, <4>1, <4>2
      <4>3. CASE na /\ ~ nb
        BY <1>2, <2>3, <3>1, <3>6, <4>1, <4>3
      <4>4. CASE ~ na /\ nb
        BY <1>2, <2>3, <3>1, <3>6, <4>1, <4>4
      <4>5. CASE ~ na /\ ~ nb
        BY <1>2, <2>3, <3>1, <3>6, <4>1, <4>5
      <4> QED BY <4>2, <4>3, <4>4, <4>5
    <3> QED BY <2>4, <2>5, <3>7, <3>8
  <2> QED BY <2>7, <2>8
<1>7. funct3 = 4 => quotient_out = IF in2 = 0 THEN P - 1 ELSE Quot(s, t) % P
  BY <1>6
<1>8. funct3 = 5 => quotient_out = IF in2 = 0 THEN P - 1 ELSE in1 \div in2
  <2>1. SUFFICES ASSUME funct3 = 5 PROVE quotient_out = IF in2 = 0 THEN P - 1 ELSE in1 \div in2
    OBVIOUS
  <2> QED BY <1>4, <1>5, <2>1
<1>9. funct3 = 6 => remainder_out = IF in2 = 0 THEN in1 ELSE (s - t * Quot(s, t)) % P
  BY <1>6
<1>10. funct3 = 7 => remainder_out = IF in2 = 0 THEN in1 ELSE in1 % in2
  <2>1. SUFFICES ASSUME funct3 = 7 PROVE remainder_out = IF in2 = 0 THEN in1 ELSE in1 % in2
    OBVIOUS
  <2> QED BY <1>4, <1>5, <2>1
<1> QED BY <1>7, <1>8, <1>9, <1>10

-----------------------------------------------------------------------------
(* The execute stage in front of alu.sv. *)

(* A division runs only for the instruction in EX, on the magnitudes of its  *)
(* operands, and its first cycle there finds the done pulse over.            *)
AluInv ==
  /\ Inv
  /\ ex \in Issuable /\ ready \in BOOLEAN /\ valid \in BOOLEAN
  /\ ready => valid /\ division_done_latch
  /\ bitctr # 0 => valid /\ is_division /\ ~ ready
  /\ valid /\ is_division /\ ~ ready =>
       n = Magnitude(is_division_signed, in1) /\ d = Magnitude(is_division_signed, in2)

(* The divider takes one of its own steps at every edge. *)
LEMMA ClockIsDivNext ==
  ASSUME ex \in Issuable, ready \in BOOLEAN, DividerClock
  PROVE  DivNext
<1>1. in1 \in Word /\ in2 \in Word
  BY IssueIs
<1>2. is_division \in BOOLEAN /\ is_division_signed \in BOOLEAN
  BY DEF is_division, is_m_extension, is_division_signed
<1> QED BY <1>1, <1>2 DEF DividerClock, DivNext

(* Initially no division runs. *)
LEMMA InitAluInv == Init => AluInv
<1> SUFFICES ASSUME Init PROVE AluInv
  OBVIOUS
<1>1. Inv
  BY InitInv DEF Init
<1>2. ex \in Issuable
  BY IssueAssumption DEF Init
<1> QED BY <1>1, <1>2 DEF AluInv, Init, DivInit

(* One clock edge of the ALU and the execute stage. *)
LEMMA StepAluInv == AluInv /\ [Next]_vars => AluInv'
<1> SUFFICES ASSUME AluInv, [Next]_vars PROVE AluInv'
  OBVIOUS
<1>1. CASE UNCHANGED vars
  <2>1. UNCHANGED divVars /\ UNCHANGED <<ex, ready, valid>>
    BY <1>1 DEF vars
  <2>2. Inv'
    BY <2>1, StepInv DEF AluInv
  <2>3. UNCHANGED <<n, d, bitctr, division_done_latch, ex, ready, valid>>
    BY <2>1 DEF divVars
  <2> QED BY <2>2, <2>3 DEF AluInv, is_division, is_m_extension, is_division_signed,
          is_imm, funct3, funct7, in1, in2, Magnitude, Negative, Minus
<1>2. ASSUME DividerClock PROVE Inv' /\ division_done_latch' = (bitctr = 0)
  <2>1. DivNext
    BY <1>2, ClockIsDivNext DEF AluInv
  <2> QED BY <1>2, <2>1, StepInv DEF AluInv, DividerClock, Clock, division_done
<1>3. ASSUME ex' = ex
      PROVE  /\ is_division' = is_division /\ is_division_signed' = is_division_signed
             /\ Magnitude(is_division_signed, in1)' = Magnitude(is_division_signed, in1)
             /\ Magnitude(is_division_signed, in2)' = Magnitude(is_division_signed, in2)
  BY <1>3 DEF is_division, is_m_extension, is_division_signed, is_imm, funct3, funct7, in1, in2,
         Magnitude, Negative, Minus
<1>4. ASSUME valid => done
      PROVE  bitctr = 0 /\ ~ (is_division /\ ready)
  BY <1>4 DEF AluInv, done, division_done_posedge, division_done
<1>5. CASE Hold
  <2>1. /\ valid /\ is_division /\ ex' = ex /\ ready' = FALSE /\ valid' = valid
        /\ DividerClock
    BY <1>5 DEF Hold, done
  <2>2. CASE Start(is_division_signed, in1, in2)
    <3>1. n' = Magnitude(is_division_signed, in1) /\ d' = Magnitude(is_division_signed, in2)
      BY <2>2 DEF Start
    <3> QED BY <1>2, <1>3, <2>1, <3>1 DEF AluInv
  <2>3. CASE Subtract
    <3>1. n' = n /\ d' = d /\ ~ ready
      BY <2>3 DEF Subtract, division_done, AluInv
    <3> QED BY <1>2, <1>3, <2>1, <3>1 DEF AluInv
  <2>4. CASE UNCHANGED <<remainder, divisor, quotient, bitctr, n, d>> /\ ~ ready
    BY <1>2, <1>3, <2>1, <2>4 DEF AluInv
  <2> QED BY <2>1, <2>2, <2>3, <2>4 DEF DividerClock, Clock
<1>6. CASE NextInstruction
  <2>1. bitctr' = 0
    BY <1>4, <1>6 DEF NextInstruction, DividerClock, Clock, Subtract, division_done
  <2>2. ex' \in Issuable /\ ready' = TRUE /\ valid' = TRUE
    BY <1>6, IssueAssumption DEF NextInstruction
  <2>3. division_done_latch' = TRUE /\ Inv'
    BY <1>2, <1>4, <1>6 DEF NextInstruction
  <2> QED BY <2>1, <2>2, <2>3 DEF AluInv
<1>7. CASE Bubble
  <2>1. bitctr' = 0
    BY <1>4, <1>7 DEF Bubble, DividerClock, Clock, Subtract, division_done
  <2>2. ex' = ex /\ ready' = FALSE /\ valid' = FALSE
    BY <1>7 DEF Bubble
  <2>3. Inv'
    BY <1>2, <1>7 DEF Bubble
  <2> QED BY <2>1, <2>2, <2>3 DEF AluInv
<1> QED BY <1>1, <1>5, <1>6, <1>7 DEF Next

(* A division runs only for the instruction in EX and on its operands. *)
THEOREM AluInvariant == Spec => []AluInv
BY InitAluInv, StepAluInv, PTL DEF Spec

(* What the execute stage does to the divider is what DivSpec lets inputs do. *)
THEOREM DividerDriven == Spec => DivSpec
<1>1. Init => DivInit
  BY DEF Init
<1>2. AluInv /\ [Next]_vars => [DivNext]_divVars
  <2> SUFFICES ASSUME AluInv, [Next]_vars PROVE [DivNext]_divVars
    OBVIOUS
  <2>1. CASE UNCHANGED vars
    BY <2>1 DEF vars
  <2>2. CASE Next
    <3>1. DividerClock
      BY <2>2 DEF Next, Hold, NextInstruction, Bubble
    <3> QED BY <3>1, ClockIsDivNext DEF AluInv
  <2> QED BY <2>1, <2>2
<1> QED BY <1>1, <1>2, AluInvariant, PTL DEF Spec, DivSpec

(* The whole of SimResult. *)
LEMMA Computes == AluInv => ComputesAsSimulator
<1> SUFFICES ASSUME AluInv, valid, done, ~ is_sltiu, SimDefined PROVE out = SimResult
  BY DEF ComputesAsSimulator
<1>1. ex \in Issuable
  BY DEF AluInv
<1>2. /\ is_imm \in BOOLEAN /\ funct7 \in {"I", "SUB", "M"} /\ funct3 \in 0 .. 7
      /\ is_imm /\ funct3 = 1 => funct7 = "I"
      /\ is_imm /\ funct3 = 5 => funct7 \in {"I", "SUB"}
      /\ ~ is_imm /\ funct7 = "SUB" => funct3 \in {0, 5}
      /\ in2 < W => in2 % W = in2
  BY <1>1, IssueIs
<1>3. ~ (is_imm /\ funct3 = 3)
  BY DEF is_sltiu
<1>4. CASE is_m_extension
  <2>1. /\ ~ is_imm /\ funct7 = "M"
        /\ SimResult = SimOp(ex.kind, in1, in2)
    BY <1>4 DEF is_m_extension, SimResult
  <2>2. ASSUME is_division
        PROVE  /\ DivTypeOK /\ DividesCorrectly /\ division_done
               /\ n = Magnitude(is_division_signed, in1)
               /\ d = Magnitude(is_division_signed, in2)
    <3>1. division_done /\ ~ ready
      BY <2>2 DEF done, division_done_posedge, AluInv
    <3>2. Inv
      BY DEF AluInv
    <3> QED BY <2>2, <3>1, <3>2, InvDivides DEF AluInv, Inv
  <2>3. funct3 >= 4 => is_division
    BY <1>4 DEF is_division
  <2>4. CASE funct3 = 0
    <3>1. out = mul_out % Pow[W]
      BY <1>4, <2>1, <2>4 DEF out
    <3>2. SimResult = (ToSigned(in1) * ToSigned(in2)) % Pow[W]
      BY <2>1, <2>4 DEF SimOp, funct3, funct7
    <3> QED BY <1>1, <1>4, <2>4, <3>1, <3>2, MultiplierIs
  <2>5. CASE funct3 = 1
    <3>1. out = mul_out \div Pow[W]
      BY <1>4, <2>5 DEF out
    <3>2. SimResult = ((ToSigned(in1) * ToSigned(in2)) \div Pow[W]) % Pow[W]
      BY <2>1, <2>5 DEF SimOp, funct3, funct7
    <3> QED BY <1>1, <1>4, <2>5, <3>1, <3>2, MultiplierIs
  <2>6. CASE funct3 = 2
    <3>1. out = mul_out \div Pow[W]
      BY <1>4, <2>6 DEF out
    <3>2. SimResult = ((ToSigned(in1) * in2) \div Pow[W]) % Pow[W]
      BY <2>1, <2>6 DEF SimOp, funct3, funct7
    <3> QED BY <1>1, <1>4, <2>6, <3>1, <3>2, MultiplierIs
  <2>7. CASE funct3 = 3
    <3>1. out = mul_out \div Pow[W]
      BY <1>4, <2>7 DEF out
    <3>2. SimResult = (in1 * in2) \div Pow[W]
      BY <2>1, <2>7 DEF SimOp, funct3, funct7
    <3> QED BY <1>1, <1>4, <2>7, <3>1, <3>2, MultiplierIs
  <2>8. CASE funct3 = 4
    <3>1. out = quotient_out
      BY <1>4, <2>8 DEF out
    <3>2. SimResult = IF in2 = 0 THEN Pow[W] - 1
                      ELSE Quot(ToSigned(in1), ToSigned(in2)) % Pow[W]
      BY <2>1, <2>8 DEF SimOp, funct3, funct7
    <3> QED BY <1>1, <2>2, <2>3, <2>8, <3>1, <3>2, DivisionIs
  <2>9. CASE funct3 = 5
    <3>1. out = quotient_out
      BY <1>4, <2>9 DEF out
    <3>2. SimResult = IF in2 = 0 THEN Pow[W] - 1 ELSE in1 \div in2
      BY <2>1, <2>9 DEF SimOp, funct3, funct7
    <3> QED BY <1>1, <2>2, <2>3, <2>9, <3>1, <3>2, DivisionIs
  <2>10. CASE funct3 = 6
    <3>1. out = remainder_out
      BY <1>4, <2>10 DEF out
    <3>2. SimResult = IF in2 = 0 THEN in1
                      ELSE (ToSigned(in1) - ToSigned(in2)
                              * Quot(ToSigned(in1), ToSigned(in2))) % Pow[W]
      BY <2>1, <2>10 DEF SimOp, funct3, funct7
    <3> QED BY <1>1, <2>2, <2>3, <2>10, <3>1, <3>2, DivisionIs
  <2>11. CASE funct3 = 7
    <3>1. out = remainder_out
      BY <1>4, <2>11 DEF out
    <3>2. SimResult = IF in2 = 0 THEN in1 ELSE in1 % in2
      BY <2>1, <2>11 DEF SimOp, funct3, funct7
    <3> QED BY <1>1, <2>2, <2>3, <2>11, <3>1, <3>2, DivisionIs
  <2> QED BY <1>2, <2>4, <2>5, <2>6, <2>7, <2>8, <2>9, <2>10, <2>11
<1>5. CASE ~ is_m_extension
  <2> DEFINE sub == ~ is_imm /\ funct7 = "SUB"
  <2>1. is_imm \/ funct7 \in {"I", "SUB"}
    BY <1>2, <1>5 DEF is_m_extension
  <2>2. CASE funct3 = 0
    <3>1. out = IF sub THEN (in1 - in2) % Pow[W] ELSE (in1 + in2) % Pow[W]
      BY <1>5, <2>2 DEF out
    <3>2. SimResult = IF sub THEN (in1 - in2) % Pow[W] ELSE (in1 + in2) % Pow[W]
      BY <2>1, <2>2 DEF SimResult, SimOpImm, SimOp, funct3, funct7, is_imm
    <3> QED BY <3>1, <3>2
  <2>3. CASE funct3 = 1
    <3>1. out = (in1 * Pow[in2 % W]) % Pow[W]
      BY <1>1, <1>5, <2>3, ShifterIs DEF out
    <3>2. funct7 = "I"
      BY <1>2, <2>1, <2>3
    <3>3. SimResult = (in1 * Pow[in2 % W]) % Pow[W]
      BY <2>3, <3>2 DEF SimResult, SimOpImm, SimOp, funct3, funct7, is_imm
    <3> QED BY <3>1, <3>3
  <2>4. CASE funct3 = 2
    <3>1. out = Value(ToSigned(in1) < ToSigned(in2))
      BY <1>5, <2>4 DEF out
    <3>2. is_imm \/ funct7 = "I"
      BY <1>2, <2>1, <2>4
    <3>3. SimResult = Value(ToSigned(in1) < ToSigned(in2))
      BY <2>4, <3>2 DEF SimResult, SimOpImm, SimOp, funct3, funct7, is_imm
    <3> QED BY <3>1, <3>3
  <2>5. CASE funct3 = 3
    <3>1. out = Value(in1 < in2)
      BY <1>5, <2>5 DEF out
    <3>2. ~ is_imm /\ funct7 = "I"
      BY <1>2, <1>3, <2>1, <2>5
    <3>3. SimResult = Value(in1 < in2)
      BY <2>5, <3>2 DEF SimResult, SimOp, funct3, funct7, is_imm
    <3> QED BY <3>1, <3>3
  <2>6. CASE funct3 = 4
    <3>1. out = BitXor(in1, in2)
      BY <1>5, <2>6 DEF out
    <3>2. is_imm \/ funct7 = "I"
      BY <1>2, <2>1, <2>6
    <3>3. SimResult = BitXor(in1, in2)
      BY <2>6, <3>2 DEF SimResult, SimOpImm, SimOp, funct3, funct7, is_imm
    <3> QED BY <3>1, <3>3
  <2>7. CASE funct3 = 5
    <3> DEFINE shifted == IF funct7 = "SUB" THEN SimSra(in1, in2 % W)
                          ELSE in1 \div Pow[in2 % W]
    <3>1. out = shifted
      BY <1>1, <1>5, <2>7, ShifterIs DEF out
    <3>2. CASE is_imm
      BY <2>7, <3>1, <3>2 DEF SimResult, SimOpImm, funct3, funct7
    <3>3. CASE ~ is_imm /\ funct7 = "I"
      BY <2>7, <3>1, <3>3 DEF SimResult, SimOp, funct3, funct7
    <3>4. CASE ~ is_imm /\ funct7 = "SUB"
      <4>1. in2 % W = in2
        BY <1>2, <2>7, <3>4 DEF SimDefined
      <4>2. SimResult = SimSra(in1, in2)
        BY <2>7, <3>4 DEF SimResult, SimOp, funct3, funct7
      <4> QED BY <3>1, <3>4, <4>1, <4>2
    <3> QED BY <2>1, <3>2, <3>3, <3>4
  <2>8. CASE funct3 = 6
    <3>1. out = BitOr(in1, in2)
      BY <1>5, <2>8 DEF out
    <3>2. is_imm \/ funct7 = "I"
      BY <1>2, <2>1, <2>8
    <3>3. SimResult = BitOr(in1, in2)
      BY <2>8, <3>2 DEF SimResult, SimOpImm, SimOp, funct3, funct7, is_imm
    <3> QED BY <3>1, <3>3
  <2>9. CASE funct3 = 7
    <3>1. out = BitAnd(in1, in2)
      BY <1>5, <2>9 DEF out
    <3>2. is_imm \/ funct7 = "I"
      BY <1>2, <2>1, <2>9
    <3>3. SimResult = BitAnd(in1, in2)
      BY <2>9, <3>2 DEF SimResult, SimOpImm, SimOp, funct3, funct7, is_imm
    <3> QED BY <3>1, <3>3
  <2> QED BY <1>2, <2>2, <2>3, <2>4, <2>5, <2>6, <2>7, <2>8, <2>9
<1> QED BY <1>4, <1>5

(* For words of every width, what alu.sv presents with done is what          *)
(* rv_simulator_step computes on the same operands (alu.sv:27-116), SLTIU    *)
(* and an SRA by a word's width or more apart.                               *)
THEOREM AluComputesAsSimulator == Spec => []ComputesAsSimulator
BY Computes, AluInvariant, PTL
=============================================================================

-------------------------- MODULE TextProgramsProofs --------------------------
(* The programs on the text screen, for a screen of every size, every font    *)
(* and every drawing: a frame that is not disturbed shows every cell's        *)
(* character in its colours, and the generation, the status and the picture.  *)
EXTENDS TextPrograms, WellFoundedInduction, TLAPS

(* Sequences. *)

(* Two sequences one after the other. *)
LEMMA Joined ==
  ASSUME NEW S, NEW s \in Seq(S), NEW t \in Seq(S)
  PROVE  /\ s \o t \in Seq(S) /\ Len(s \o t) = Len(s) + Len(t)
         /\ \A k \in 1 .. Len(s \o t) : (s \o t)[k] = IF k <= Len(s) THEN s[k] ELSE t[k - Len(s)]
<1>1. Len(s) \in Nat /\ Len(t) \in Nat /\ s \o t \in Seq(S) /\ Len(s \o t) = Len(s) + Len(t)
  OBVIOUS
<1>2. ASSUME NEW k \in 1 .. Len(s \o t) PROVE (s \o t)[k] = IF k <= Len(s) THEN s[k] ELSE t[k - Len(s)]
  BY <1>1
<1> QED BY <1>1, <1>2

(* A sequence is one of a larger set, too. *)
LEMMA Wider ==
  ASSUME NEW S, NEW T, NEW s \in Seq(S), S \subseteq T
  PROVE  s \in Seq(T)
OBVIOUS

(* One value. *)
LEMMA Single ==
  ASSUME NEW S, NEW b \in S
  PROVE  <<b>> \in Seq(S) /\ Len(<<b>>) = 1 /\ <<b>>[1] = b
OBVIOUS

(* One character behind a text and a number. *)
LEMMA OneBehind ==
  ASSUME NEW S, NEW u \in Seq(S), NEW d \in Seq(S), NEW b \in S
  PROVE  LET s == u \o d
             t == u \o (d \o <<b>>)
         IN  /\ t \in Seq(S) /\ Len(t) = Len(s) + 1
             /\ \A k \in 1 .. Len(t) : t[k] = IF k <= Len(s) THEN s[k] ELSE b
<1>1. PICK w, v, s, t : w = <<b>> /\ v = d \o w /\ s = u \o d /\ t = u \o v
  OBVIOUS
<1>2. w \in Seq(S) /\ Len(w) = 1 /\ w[1] = b
  BY <1>1, Single
<1>3. /\ v \in Seq(S) /\ Len(v) = Len(d) + 1
      /\ \A k \in 1 .. Len(v) : v[k] = IF k <= Len(d) THEN d[k] ELSE w[k - Len(d)]
  BY <1>1, <1>2, Joined
<1>4. /\ t \in Seq(S) /\ Len(t) = Len(u) + Len(v)
      /\ \A k \in 1 .. Len(t) : t[k] = IF k <= Len(u) THEN u[k] ELSE v[k - Len(u)]
  BY <1>1, <1>3, Joined
<1>5. /\ s \in Seq(S) /\ Len(s) = Len(u) + Len(d)
      /\ \A k \in 1 .. Len(s) : s[k] = IF k <= Len(u) THEN u[k] ELSE d[k - Len(u)]
  BY <1>1, Joined
<1>6. PICK l \in Nat, m \in Nat : l = Len(u) /\ m = Len(d)
  OBVIOUS
<1>7. ASSUME NEW k \in 1 .. l + m + 1 PROVE t[k] = IF k <= l + m THEN s[k] ELSE b
  <2>1. k \in 1 .. Len(t) /\ t[k] = IF k <= l THEN u[k] ELSE v[k - l]
    BY <1>3, <1>4, <1>6
  <2>2. CASE k <= l
    BY <1>5, <1>6, <2>1, <2>2
  <2>3. CASE k > l
    <3>1. PICK j \in 1 .. m + 1 : j = k - l
      BY <2>3
    <3>2. v[j] = IF j <= m THEN d[j] ELSE w[j - m]
      BY <1>3, <1>6
    <3>3. CASE j <= m
      <4>1. s[k] = d[j]
        BY <1>5, <1>6, <2>3, <3>1, <3>3
      <4> QED BY <2>1, <2>3, <3>1, <3>2, <3>3, <4>1
    <3>4. CASE j = m + 1
      BY <1>2, <2>1, <2>3, <3>1, <3>2, <3>4
    <3> QED BY <3>3, <3>4
  <2> QED BY <2>2, <2>3
<1>8. /\ t \in Seq(S) /\ Len(t) = Len(s) + 1
      /\ \A k \in 1 .. Len(t) : t[k] = IF k <= Len(s) THEN s[k] ELSE b
  <2>1. Len(t) = l + m + 1 /\ Len(s) = l + m
    BY <1>3, <1>4, <1>5, <1>6
  <2> QED BY <1>4, <1>7, <2>1
<1> QED BY <1>1, <1>8

-----------------------------------------------------------------------------
(* The cell of the screen at a pixel, and where a pixel lies in it. *)
Column == x \div FONT_W
Line == y \div FONT_H
Visible == x < SCREEN_W /\ y < SCREEN_H

(* The index is the cell of the pixel; behind the end of a line it is the     *)
(* first cell of the next one, and behind the last line one cell too many     *)
(* until the sync pulse clears it.                                            *)
Walking ==
  /\ x \in 0 .. LINE /\ y \in 0 .. SCREEN
  /\ screenbuffer_index =
       IF y < SCREEN_H
         THEN IF x < SCREEN_W THEN Line * COLS + Column ELSE ((y + 1) \div FONT_H) * COLS
         ELSE IF y < VS_STA \/ (y = VS_STA /\ x = 0) THEN ROWS * COLS ELSE 0

(* The word fetched ahead is the one the pixel's character is in. *)
Prefetched == stable /\ Visible => char_reg = Word(screenbuffer_index \div 4)

GpuInv == Walking /\ Prefetched

-----------------------------------------------------------------------------
(* Arithmetic. *)

(* The sizes of the screen. *)
LEMMA Sizes ==
  /\ COLS \in Nat \ {0} /\ ROWS \in Nat \ {0} /\ FONT_W \in Nat \ {0} /\ FONT_H \in Nat \ {0}
  /\ SCREEN_W \in Nat \ {0} /\ SCREEN_H \in Nat \ {0}
  /\ LINE \in Nat /\ SCREEN \in Nat /\ VS_STA \in Nat /\ VS_END \in Nat
  /\ LINE >= SCREEN_W /\ VS_STA >= SCREEN_H /\ VS_STA < VS_END /\ VS_END <= SCREEN
<1>1. \A a, b \in Nat \ {0} : a * b \in Nat \ {0}
  OBVIOUS
<1> QED BY <1>1, ScreenAssumption DEF SCREEN_W, SCREEN_H

(* Quotient and remainder. *)
LEMMA Division ==
  ASSUME NEW n \in Nat, NEW m \in Nat \ {0}
  PROVE  n \div m \in Nat /\ n % m \in 0 .. m - 1 /\ n = (n \div m) * m + (n % m)
OBVIOUS

(* Names for them. *)
LEMMA Divided ==
  ASSUME NEW n \in Nat, NEW m \in Nat \ {0}
  PROVE  \E q \in Nat, r \in 0 .. m - 1 : q = n \div m /\ r = n % m /\ n = q * m + r
<1>1. PICK q \in Nat : q = n \div m
  BY Division
<1>2. PICK r \in 0 .. m - 1 : r = n % m
  BY Division
<1>3. n = (n \div m) * m + (n % m)
  BY Division
<1>4. n = q * m + r
  BY <1>1, <1>2, <1>3
<1> QED BY <1>1, <1>2, <1>4

(* They are unique. *)
LEMMA Quotient ==
  ASSUME NEW m \in Nat \ {0}, NEW q \in Nat, NEW r \in 0 .. m - 1
  PROVE  q * m + r \in Nat /\ (q * m + r) \div m = q /\ (q * m + r) % m = r
<1>0. PICK n \in Nat : n = q * m + r
  <2>1. q * m \in Nat
    OBVIOUS
  <2> QED BY <2>1
<1> DEFINE p == n \div m
           s == n % m
<1>1. p \in Nat /\ s \in 0 .. m - 1 /\ n = p * m + s
  BY Division
<1> HIDE DEF p, s
<1>2. q * m \in Nat /\ p * m \in Nat
  BY <1>1
<1>3. ~ (p < q)
  <2> SUFFICES ASSUME p < q PROVE FALSE
    OBVIOUS
  <2>1. (q - p - 1) * m \in Nat
    BY <1>1
  <2>2. (q - p - 1) * m = q * m - p * m - m
    BY <1>1
  <2> QED BY <1>0, <1>1, <1>2, <2>1, <2>2
<1>4. ~ (q < p)
  <2> SUFFICES ASSUME q < p PROVE FALSE
    OBVIOUS
  <2>1. (p - q - 1) * m \in Nat
    BY <1>1
  <2>2. (p - q - 1) * m = p * m - q * m - m
    BY <1>1
  <2> QED BY <1>0, <1>1, <1>2, <2>1, <2>2
<1>5. p = q
  BY <1>1, <1>3, <1>4
<1>6. s = r
  BY <1>0, <1>1, <1>2, <1>5
<1> QED BY <1>0, <1>5, <1>6 DEF p, s

(* One point further. *)
LEMMA Successor ==
  ASSUME NEW n \in Nat, NEW m \in Nat \ {0}
  PROVE  (n + 1) \div m = IF n % m = m - 1 THEN n \div m + 1 ELSE n \div m
<1>1. PICK q \in Nat, r \in 0 .. m - 1 : q = n \div m /\ r = n % m /\ n = q * m + r
  BY Divided
<1>4. CASE r = m - 1
  <2>1. q * m \in Nat /\ (q + 1) * m = q * m + m
    OBVIOUS
  <2>2. PICK t \in Nat : t = q + 1
    OBVIOUS
  <2>3. n + 1 = t * m + 0 /\ 0 \in 0 .. m - 1
    BY <1>1, <1>4, <2>1, <2>2
  <2>4. (t * m + 0) \div m = t
    BY <2>3, Quotient
  <2> QED BY <1>1, <1>4, <2>2, <2>3, <2>4
<1>5. CASE r # m - 1
  <2>1. q * m \in Nat
    OBVIOUS
  <2>2. PICK t \in 0 .. m - 1 : t = r + 1
    BY <1>5
  <2>3. n + 1 = q * m + t
    BY <1>1, <2>1, <2>2
  <2>4. (q * m + t) \div m = q
    BY Quotient
  <2> QED BY <1>1, <1>5, <2>3, <2>4
<1> QED BY <1>4, <1>5

(* What lies before the end of n pieces of m lies in one of them. *)
LEMMA Within ==
  ASSUME NEW m \in Nat \ {0}, NEW n \in Nat \ {0}, NEW p \in 0 .. n * m - 1
  PROVE  /\ p \in Nat /\ p \div m \in 0 .. n - 1
         /\ p = n * m - 1 => p \div m = n - 1 /\ p % m = m - 1
<1>1. p \in Nat /\ n * m \in Nat
  OBVIOUS
<1>2. PICK q \in Nat, r \in 0 .. m - 1 : q = p \div m /\ r = p % m /\ p = q * m + r
  BY <1>1, Divided
<1>4. q * m \in Nat
  OBVIOUS
<1>5. q < n
  <2> SUFFICES ASSUME q >= n PROVE FALSE
    OBVIOUS
  <2>1. (q - n) * m \in Nat
    OBVIOUS
  <2>2. (q - n) * m = q * m - n * m
    OBVIOUS
  <2> QED BY <1>1, <1>2, <1>4, <2>1, <2>2
<1>6. CASE p = n * m - 1
  <2>1. PICK k \in Nat, t \in 0 .. m - 1 : k = n - 1 /\ t = m - 1
    OBVIOUS
  <2>2. k * m \in Nat /\ k * m = n * m - m
    BY <2>1
  <2>3. p = k * m + t
    BY <1>1, <1>6, <2>1, <2>2
  <2>4. (k * m + t) \div m = k /\ (k * m + t) % m = t
    BY Quotient
  <2> QED BY <1>1, <1>2, <1>5, <2>1, <2>3, <2>4
<1> QED BY <1>1, <1>2, <1>5, <1>6

(* Four is a positive number: what Division and Quotient say of it. *)
LEMMA Fours ==
  ASSUME NEW n \in Nat
  PROVE  n \div 4 \in Nat /\ n % 4 \in 0 .. 3 /\ n = (n \div 4) * 4 + (n % 4)
<1>1. PICK m \in Nat \ {0} : m = 4
  OBVIOUS
<1>2. n \div m \in Nat /\ n % m \in 0 .. m - 1 /\ n = (n \div m) * m + (n % m)
  BY Division
<1> QED BY <1>1, <1>2

(* A word of four characters ends with a pixel at the end of its fourth. *)
LEMMA WordEnds ==
  ASSUME NEW n \in Nat
  PROVE  n % (4 * FONT_W) = 4 * FONT_W - 1 <=> n % FONT_W = FONT_W - 1 /\ (n \div FONT_W) % 4 = 3
<1>0. PICK W \in Nat \ {0} : W = FONT_W
  BY Sizes
<1>1. PICK X \in Nat, c \in 0 .. W - 1 : X = n \div W /\ c = n % W /\ n = X * W + c
  BY Divided
<1>4. PICK p \in Nat, s \in 0 .. 3 : p = X \div 4 /\ s = X % 4 /\ X = p * 4 + s
  BY Fours
<1>7. s * W + c \in 0 .. 4 * W - 1 /\ (s * W + c = 4 * W - 1 <=> s = 3 /\ c = W - 1)
  <2>1. s = 0 \/ s = 1 \/ s = 2 \/ s = 3
    OBVIOUS
  <2> QED BY <2>1
<1>8. PICK V \in Nat \ {0} : V = 4 * W
  OBVIOUS
<1>9. PICK t \in 0 .. V - 1 : t = s * W + c
  BY <1>7, <1>8
<1>10. n = p * V + t
  <2>1. X * W = p * V + s * W
    BY <1>4, <1>8
  <2>2. PICK A \in Nat, B \in Nat : A = p * V /\ B = s * W
    <3>1. p * V \in Nat /\ s * W \in Nat
      OBVIOUS
    <3> QED BY <3>1
  <2>3. n = A + B + c /\ t = B + c
    BY <1>1, <1>9, <2>1, <2>2
  <2>4. n = A + t
    BY <2>2, <2>3
  <2> QED BY <2>2, <2>4
<1>11. (p * V + t) % V = t
  BY Quotient
<1>12. n % V = V - 1 <=> c = W - 1 /\ s = 3
  BY <1>7, <1>8, <1>9, <1>10, <1>11
<1> QED BY <1>0, <1>1, <1>4, <1>8, <1>12

(* The words of a line: a line is a whole number of them. *)
LEMMA InWords ==
  ASSUME NEW r \in 0 .. ROWS - 1, NEW c \in 0 .. COLS - 1
  PROVE  LET i == r * COLS + c
         IN  /\ i \in Cell
             /\ i \div 4 \in 0 .. SB_NWORDS - 1 /\ i % 4 = c % 4 /\ i = 4 * (i \div 4) + (i % 4)
             /\ (i + 1) \div 4 = IF c % 4 = 3 THEN i \div 4 + 1 ELSE i \div 4
<1>0. PICK C \in Nat \ {0}, R \in Nat \ {0} : C = COLS /\ R = ROWS
  BY Sizes
<1>1. PICK k \in Nat \ {0} : C = k * 4
  <2>1. C \div 4 \in Nat /\ C = (C \div 4) * 4 + (C % 4) /\ C % 4 = 0
    BY <1>0, Fours, ScreenAssumption
  <2> QED BY <2>1
<1>2. c \in Nat /\ r \in Nat /\ r <= R - 1 /\ c <= C - 1
  BY <1>0
<1>3. PICK p \in Nat, s \in 0 .. 3 : p = c \div 4 /\ s = c % 4 /\ c = p * 4 + s
  BY <1>2, Fours
<1>5. p <= k - 1
  BY <1>1, <1>2, <1>3
<1>6. r * k \in Nat /\ R * k \in Nat
  BY <1>2
<1>7. PICK w \in Nat : w = r * k + p /\ w <= R * k - 1
  <2>1. (R - 1 - r) * k \in Nat
    BY <1>2
  <2>2. (R - 1 - r) * k = R * k - k - r * k
    BY <1>2
  <2> QED BY <1>5, <1>6, <2>1, <2>2
<1>8. PICK i \in Nat : i = r * COLS + c /\ i = w * 4 + s
  <2>1. r * C = (r * k) * 4
    BY <1>1, <1>2
  <2> QED BY <1>0, <1>3, <1>6, <1>7, <2>1
<1>4. PICK m \in Nat \ {0} : m = 4
  OBVIOUS
<1>9. i \div 4 = w /\ i % 4 = s
  <2>1. s \in 0 .. m - 1
    BY <1>4
  <2>2. (w * m + s) \div m = w /\ (w * m + s) % m = s
    BY <2>1, Quotient
  <2> QED BY <1>4, <1>8, <2>2
<1>10. COLS * ROWS = (R * k) * 4 /\ SB_NWORDS = R * k
  <2>1. C * R = (R * k) * 4
    BY <1>1
  <2>2. PICK z \in Nat : z = R * k
    BY <1>6
  <2>3. 0 \in 0 .. m - 1
    BY <1>4
  <2>4. (z * m + 0) \div m = z
    BY <2>3, Quotient
  <2>5. C * R = z * m + 0
    BY <1>4, <2>1, <2>2
  <2> QED BY <1>0, <1>4, <2>1, <2>2, <2>4, <2>5 DEF SB_NWORDS
<1>11. i \in Cell
  BY <1>6, <1>7, <1>8, <1>10 DEF Cell
<1>12. (i + 1) \div 4 = IF i % 4 = 3 THEN i \div 4 + 1 ELSE i \div 4
  <2>1. (i + 1) \div m = IF i % m = m - 1 THEN i \div m + 1 ELSE i \div m
    BY Successor
  <2> QED BY <1>4, <2>1
<1>13. i \div 4 \in 0 .. SB_NWORDS - 1 /\ i % 4 = c % 4 /\ i = 4 * (i \div 4) + (i % 4)
  <2>1. w \in 0 .. R * k - 1 /\ i = 4 * w + s
    BY <1>6, <1>7, <1>8
  <2> QED BY <1>3, <1>9, <1>10, <2>1
<1> QED BY <1>8, <1>11, <1>12, <1>13
(* Where a pixel of the screen lies. *)
LEMMA Places ==
  ASSUME NEW X \in 0 .. SCREEN_W - 1, NEW Y \in 0 .. SCREEN_H - 1
  PROVE  /\ X \div FONT_W \in 0 .. COLS - 1 /\ Y \div FONT_H \in 0 .. ROWS - 1
         /\ X = SCREEN_W - 1 => X \div FONT_W = COLS - 1 /\ X % FONT_W = FONT_W - 1
         /\ Y = SCREEN_H - 1 => Y \div FONT_H = ROWS - 1 /\ Y % FONT_H = FONT_H - 1
<1>1. PICK m \in Nat \ {0}, n \in Nat \ {0} : m = FONT_W /\ n = COLS
  BY Sizes
<1>2. PICK a \in Nat \ {0}, b \in Nat \ {0} : a = FONT_H /\ b = ROWS
  BY Sizes
<1>3. X \in 0 .. n * m - 1 /\ Y \in 0 .. b * a - 1
  BY <1>1, <1>2 DEF SCREEN_W, SCREEN_H
<1>4. X \div m \in 0 .. n - 1 /\ (X = n * m - 1 => X \div m = n - 1 /\ X % m = m - 1)
  BY <1>3, Within
<1>5. Y \div a \in 0 .. b - 1 /\ (Y = b * a - 1 => Y \div a = b - 1 /\ Y % a = a - 1)
  BY <1>3, Within
<1> QED BY <1>1, <1>2, <1>4, <1>5 DEF SCREEN_W, SCREEN_H

-----------------------------------------------------------------------------
(* The digits of a number. *)

(* A set of numbers has a least one. *)
LEMMA LeastNumber ==
  ASSUME NEW S, S \subseteq Nat, S # {}
  PROVE  \E k \in S : \A m \in S : k <= m
<1> DEFINE R == {p \in Nat \X Nat : p[1] < p[2]}
<1>1. IsWellFoundedOn(R, Nat)
  BY NatLessThanWellFounded DEF OpToRel
<1>2. \A a, b \in Nat : a < b => <<a, b>> \in R
  OBVIOUS
<1> HIDE DEF R
<1>3. PICK k \in S : \A m \in S : ~ (<<m, k>> \in R)
  BY <1>1, WFMin
<1>4. ASSUME NEW m \in S PROVE k <= m
  <2>1. ~ (m < k)
    BY <1>2, <1>3
  <2> QED BY <2>1
<1> QED BY <1>4

(* A set of numbers that holds every number whose predecessors it holds holds all. *)
LEMMA SetInduction ==
  ASSUME NEW S, \A k \in Nat : (\A m \in Nat : m < k => m \in S) => k \in S
  PROVE  Nat \subseteq S
<1>1. SUFFICES ASSUME Nat \ S # {} PROVE FALSE
  OBVIOUS
<1>2. PICK k \in Nat \ S : \A m \in Nat \ S : k <= m
  BY <1>1, LeastNumber
<1>3. \A m \in Nat : m < k => m \in S
  BY <1>2
<1> QED BY <1>2, <1>3

(* The tens of a number, and its last digit. *)
LEMMA Tens ==
  ASSUME NEW k \in Nat
  PROVE  k \div 10 \in 0 .. k /\ k % 10 \in 0 .. 9 /\ (k >= 10 => k \div 10 < k)
OBVIOUS

(* The function Decimal defines by recursion. *)
Digit(d) == Io!ToString(d)
DigitsStep(n, f) ==
  [k \in 0 .. n |-> IF k < 10 THEN <<Digit(k)>> ELSE Append(f[k \div 10], Digit(k % 10))]

(* It exists. *)
LEMMA DigitsExist ==
  ASSUME NEW n \in Nat
  PROVE  \E f : f = DigitsStep(n, f)
<1> DEFINE N == {m \in Nat : \E f : f = DigitsStep(m, f)}
<1>1. ASSUME NEW m \in Nat, \A i \in Nat : i < m => i \in N PROVE m \in N
  <2>1. CASE m = 0
    <3>1. \A f : DigitsStep(0, f) = DigitsStep(0, 0)
      <4>1. \A f : \A k \in 0 .. 0 : DigitsStep(0, f)[k] = DigitsStep(0, 0)[k]
        BY DEF DigitsStep
      <4> QED BY <4>1 DEF DigitsStep
    <3>2. DigitsStep(0, 0) = DigitsStep(0, DigitsStep(0, 0))
      BY <3>1
    <3> QED BY <2>1, <3>2
  <2>2. CASE m # 0
    <3>1. PICK i \in Nat : m = i + 1 /\ i < m
      <4>1. m - 1 \in Nat /\ m = (m - 1) + 1
        BY <2>2
      <4> QED BY <4>1
    <3>2. PICK f : f = DigitsStep(i, f)
      BY <1>1, <3>1
    <3> DEFINE new == IF m < 10 THEN <<Digit(m)>> ELSE Append(f[m \div 10], Digit(m % 10))
               g == [k \in 0 .. m |-> IF k \in 0 .. i THEN f[k] ELSE new]
    <3>3. \A k \in 0 .. i : g[k] = f[k] /\ f[k] = DigitsStep(i, f)[k]
      <4> HIDE DEF new, DigitsStep
      <4> QED BY <3>1, <3>2
    <3>4. g[m] = new
      <4> HIDE DEF new
      <4> QED BY <3>1
    <3>5. ASSUME NEW k \in 0 .. m PROVE g[k] = DigitsStep(m, g)[k]
      <4>1. CASE k \in 0 .. i
        <5>1. k >= 10 => g[k \div 10] = f[k \div 10]
          <6>1. k \in Nat /\ k <= i
            BY <4>1, <3>1
          <6>2. k \div 10 \in 0 .. i
            BY <6>1, Tens
          <6> HIDE DEF g
          <6> QED BY <3>3, <6>2
        <5> HIDE DEF g
        <5> QED BY <3>3, <4>1, <5>1 DEF DigitsStep
      <4>2. CASE k \notin 0 .. i
        <5>1. k = m
          BY <4>2, <3>1
        <5>2. m >= 10 => g[m \div 10] = f[m \div 10]
          <6>1. m >= 10 => m \div 10 \in 0 .. i
            BY <3>1, Tens
          <6> HIDE DEF g
          <6> QED BY <3>3, <6>1
        <5> HIDE DEF g
        <5> QED BY <3>4, <5>1, <5>2 DEF DigitsStep
      <4> QED BY <4>1, <4>2
    <3>6. g = DigitsStep(m, g)
      <4>1. g = [k \in 0 .. m |-> g[k]]
        OBVIOUS
      <4>2. DigitsStep(m, g) = [k \in 0 .. m |-> DigitsStep(m, g)[k]]
        BY DEF DigitsStep
      <4> HIDE DEF g
      <4> QED BY <3>5, <4>1, <4>2
    <3> QED BY <3>6
  <2> QED BY <2>1, <2>2
<1> HIDE DEF N
<1>2. Nat \subseteq N
  BY <1>1, SetInduction
<1> QED BY <1>2 DEF N

(* Two of them are the same where both are defined. *)
LEMMA DigitsAgree ==
  ASSUME NEW n \in Nat, NEW f, f = DigitsStep(n, f),
         NEW m \in Nat, NEW g, g = DigitsStep(m, g)
  PROVE  \A k \in Nat : k <= n /\ k <= m => f[k] = g[k]
<1> DEFINE N == {k \in Nat : k <= n /\ k <= m => f[k] = g[k]}
<1>1. ASSUME NEW k \in Nat, \A i \in Nat : i < k => i \in N PROVE k \in N
  <2> SUFFICES ASSUME k <= n, k <= m PROVE f[k] = g[k]
    OBVIOUS
  <2>1. /\ f[k] = IF k < 10 THEN <<Digit(k)>> ELSE Append(f[k \div 10], Digit(k % 10))
        /\ g[k] = IF k < 10 THEN <<Digit(k)>> ELSE Append(g[k \div 10], Digit(k % 10))
    <3>1. \A h : \A i \in Nat : k <= i => DigitsStep(i, h)[k] =
                    IF k < 10 THEN <<Digit(k)>> ELSE Append(h[k \div 10], Digit(k % 10))
      BY DEF DigitsStep
    <3> QED BY <3>1
  <2>2. k >= 10 => f[k \div 10] = g[k \div 10]
    <3>1. k >= 10 => k \div 10 \in Nat /\ k \div 10 < k /\ k \div 10 <= n /\ k \div 10 <= m
      BY Tens
    <3> QED BY <1>1, <3>1
  <2> QED BY <2>1, <2>2
<1> HIDE DEF N
<1>2. Nat \subseteq N
  BY <1>1, SetInduction
<1> QED BY <1>2 DEF N

(* Decimal, as a recursion without a bound. *)
LEMMA DecimalIs ==
  ASSUME NEW n \in Nat
  PROVE  Io!Decimal(n) = IF n < 10 THEN <<Digit(n)>> ELSE Append(Io!Decimal(n \div 10), Digit(n % 10))
<1> DEFINE F(m) == CHOOSE f : f = DigitsStep(m, f)
<1>1. ASSUME NEW m \in Nat PROVE Io!Decimal(m) = F(m)[m]
  BY Zenon DEF Io!Decimal, Digit, DigitsStep
<1>2. ASSUME NEW m \in Nat PROVE F(m) = DigitsStep(m, F(m))
  BY DigitsExist, Zenon
<1> HIDE DEF F
<1>3. F(n)[n] = IF n < 10 THEN <<Digit(n)>> ELSE Append(F(n)[n \div 10], Digit(n % 10))
  <2>1. DigitsStep(n, F(n))[n] = IF n < 10 THEN <<Digit(n)>> ELSE Append(F(n)[n \div 10], Digit(n % 10))
    BY DEF DigitsStep
  <2> QED BY <1>2, <2>1
<1>4. F(n)[n \div 10] = Io!Decimal(n \div 10)
  <2>1. PICK m \in Nat : m = n \div 10 /\ m <= n
    BY Tens
  <2>2. F(n)[m] = F(m)[m]
    BY <1>2, <2>1, DigitsAgree
  <2> QED BY <1>1, <2>1, <2>2
<1> QED BY <1>1, <1>3, <1>4

(* The digits of a number are characters that can be printed. *)
LEMMA DecimalType ==
  ASSUME NEW n \in Nat
  PROVE  Io!Decimal(n) \in Seq(Printable) /\ Len(Io!Decimal(n)) \in Nat
<1> DEFINE N == {k \in Nat : Io!Decimal(k) \in Seq(Printable)}
<1>1. ASSUME NEW d \in 0 .. 9 PROVE Digit(d) \in Printable
  <2>1. Io!Decimal(d) = <<Digit(d)>> /\ Io!Decimal(d) \in Seq(Printable)
    BY DecimalIs, StatusAssumption
  <2>2. \A t : <<t>> \in Seq(Printable) => t \in Printable
    <3>1. ASSUME NEW t, <<t>> \in Seq(Printable) PROVE t \in Printable
      <4>1. <<t>>[1] \in Printable
        BY <3>1
      <4> QED BY <4>1
    <3> QED BY <3>1
  <2> QED BY <2>1, <2>2
<1>2. ASSUME NEW k \in Nat, \A m \in Nat : m < k => m \in N PROVE k \in N
  <2>1. CASE k < 10
    <3>1. k \in 0 .. 9
      BY <2>1
    <3>2. Io!Decimal(k) \in Seq(Printable)
      BY <3>1, StatusAssumption
    <3> QED BY <3>2
  <2>2. CASE ~ (k < 10)
    <3>1. PICK s \in Seq(Printable) : s = Io!Decimal(k \div 10)
      <4>1. k \div 10 \in Nat /\ k \div 10 < k
        BY <2>2, Tens
      <4> QED BY <1>2, <4>1
    <3>2. PICK c \in Printable : c = Digit(k % 10)
      BY <1>1, Tens
    <3>3. Io!Decimal(k) = Append(s, c)
      BY <2>2, <3>1, <3>2, DecimalIs
    <3> QED BY <3>3
  <2> QED BY <2>1, <2>2
<1> HIDE DEF N
<1>3. Nat \subseteq N
  BY <1>2, SetInduction
<1>4. Io!Decimal(n) \in Seq(Printable)
  BY <1>3 DEF N
<1> QED BY <1>4

(* A larger number has no fewer of them. *)
LEMMA DecimalGrows ==
  ASSUME NEW n \in Nat, NEW m \in Nat, m <= n
  PROVE  Len(Io!Decimal(m)) <= Len(Io!Decimal(n))
<1> DEFINE L(k) == Len(Io!Decimal(k))
           N == {k \in Nat : \A i \in 0 .. k : L(i) <= L(k)}
<1>1. ASSUME NEW k \in Nat PROVE L(k) \in Nat /\ L(k) = IF k < 10 THEN 1 ELSE L(k \div 10) + 1
  <2>1. CASE k < 10
    <3>1. Io!Decimal(k) = <<Digit(k)>>
      BY <2>1, DecimalIs
    <3> QED BY <2>1, <3>1
  <2>2. CASE ~ (k < 10)
    <3>1. PICK s \in Seq(Printable) : s = Io!Decimal(k \div 10)
      BY DecimalType, Tens
    <3>2. Io!Decimal(k) = Append(s, Digit(k % 10)) /\ Io!Decimal(k) \in Seq(Printable)
      BY <2>2, <3>1, DecimalIs, DecimalType
    <3>3. Len(Append(s, Digit(k % 10))) = Len(s) + 1 /\ Len(s) \in Nat
      OBVIOUS
    <3> QED BY <2>2, <3>1, <3>2, <3>3
  <2> QED BY <2>1, <2>2
<1> HIDE DEF L
<1>2. ASSUME NEW k \in Nat, \A j \in Nat : j < k => j \in N PROVE k \in N
  <2> SUFFICES ASSUME NEW i \in 0 .. k PROVE L(i) <= L(k)
    OBVIOUS
  <2>1. CASE i < 10
    <3>1. L(i) = 1 /\ L(k) \in Nat
      BY <1>1, <2>1
    <3>2. k >= 10 => L(k \div 10) \in Nat /\ L(k) = L(k \div 10) + 1
      BY <1>1, Tens
    <3>3. k < 10 => L(k) = 1
      BY <1>1
    <3> QED BY <3>1, <3>2, <3>3
  <2>2. CASE ~ (i < 10)
    <3>1. PICK j \in Nat, h \in Nat : j = k \div 10 /\ h = i \div 10 /\ j < k /\ h <= j
      <4>1. i \in Nat /\ i >= 10 /\ k >= 10 /\ i <= k
        BY <2>2
      <4>2. i \div 10 <= k \div 10
        BY <4>1
      <4> QED BY <4>1, <4>2, Tens
    <3>2. L(h) <= L(j)
      BY <1>2, <3>1
    <3>3. L(i) = L(h) + 1 /\ L(k) = L(j) + 1 /\ L(h) \in Nat /\ L(j) \in Nat
      BY <1>1, <2>2, <3>1
    <3> QED BY <3>2, <3>3
  <2> QED BY <2>1, <2>2
<1> HIDE DEF N
<1>3. Nat \subseteq N
  BY <1>2, SetInduction
<1> QED BY <1>3 DEF N, L

(* So every status fits the last line. *)
LEMMA NumberFits ==
  ASSUME NEW n \in 0 .. ClearAfter + 1
  PROVE  Io!Decimal(n) \in Seq(Printable) /\ Len(Status) + Len(Io!Decimal(n)) + 1 < COLS
<1>1. n \in Nat /\ ClearAfter + 1 \in Nat /\ n <= ClearAfter + 1
  BY ProgramAssumption
<1>2. Io!Decimal(n) \in Seq(Printable) /\ Len(Io!Decimal(n)) \in Nat
  BY <1>1, DecimalType
<1>3. Len(Io!Decimal(n)) <= Len(Io!Decimal(ClearAfter + 1)) /\ Len(Io!Decimal(ClearAfter + 1)) \in Nat
  BY <1>1, DecimalGrows, DecimalType
<1>4. Len(Status) \in Nat /\ COLS \in Nat
  BY StatusAssumption, ScreenAssumption
<1> QED BY <1>2, <1>3, <1>4, StatusAssumption

-----------------------------------------------------------------------------
(* A clock edge. *)

(* What every edge does to the controller: a store ends the stable time, and  *)
(* only the first fetch of a frame begins it.                                 *)
Tick ==
  /\ Position /\ screenbuffer_index' = NextIndex /\ char_reg' = Prefetch
  /\ stable' => screenbuffer' = screenbuffer /\ (stable \/ (x = LINE /\ y = SCREEN))

(* Every step is such an edge, whatever the program does in it. *)
LEMMA StepIsTick == ASSUME Next PROVE Tick
<1>1. CASE NoAccess
  BY <1>1 DEF NoAccess, Edge, Clock, Tick, NoStore
<1>2. CASE Fill
  BY <1>2 DEF Fill, Edge, Clock, Tick, StoreChar
<1>3. CASE BeginGeneration
  BY <1>3 DEF BeginGeneration, Edge, Clock, Tick, NoStore
<1>4. CASE Whiten
  <2> DEFINE p == Io!printchar(cur, Head(text))
             access == IF p.cell = 0 THEN NoStore ELSE StoreColor(p.cell - 1, <<White, Black>>)
  <2>1. Edge(access)
    BY <1>4 DEF Whiten
  <2>2. access.kind \in {"none", "color"}
    BY DEF NoStore, StoreColor
  <2> HIDE DEF access
  <2> QED BY <2>1, <2>2 DEF Edge, Clock, Tick
<1>5. CASE PrintChar
  <2> DEFINE p == Io!printchar(cur, Head(text))
             access == IF p.cell = 0 THEN NoStore ELSE StoreChar(p.cell - 1, Head(text))
  <2>1. Edge(access)
    BY <1>5 DEF PrintChar
  <2>2. access.kind \in {"none", "char"}
    BY DEF NoStore, StoreChar
  <2> HIDE DEF access
  <2> QED BY <2>1, <2>2 DEF Edge, Clock, Tick
<1>6. CASE Printed
  BY <1>6 DEF Printed, Edge, Clock, Tick, NoStore
<1>7. CASE Draw
  <2>1. Edge(DrawAccess)
    BY <1>7 DEF Draw
  <2> QED BY <2>1 DEF Edge, Clock, Tick
<1>8. CASE Compute
  BY <1>8 DEF Compute, Edge, Clock, Tick, NoStore
<1>9. CASE NextPicture
  BY <1>9 DEF NextPicture, Edge, Clock, Tick, NoStore
<1> QED BY <1>1, <1>2, <1>3, <1>4, <1>5, <1>6, <1>7, <1>8, <1>9 DEF Next, Program

(* The end of a line: the next line's first cell is already there. *)
LEMMA LineEndStep ==
  ASSUME Walking, Tick, x = LINE
  PROVE  Walking' /\ (Visible' => screenbuffer_index' = screenbuffer_index)
<1>1. x' = 0 /\ y' = (IF y = SCREEN THEN 0 ELSE y + 1) /\ blanking
  BY Sizes DEF Tick, Position, blanking, Walking
<1>2. screenbuffer_index' = IF ~ vsync THEN 0 ELSE screenbuffer_index
  BY <1>1 DEF Tick, NextIndex
<1>3. x' \in 0 .. LINE /\ y' \in 0 .. SCREEN /\ x' < SCREEN_W
  BY <1>1, Sizes DEF Walking
<1>4. Column' = 0 /\ Line' = y' \div FONT_H
  <2>1. PICK m \in Nat \ {0} : m = FONT_W
    BY Sizes
  <2>2. PICK q \in Nat, r \in 0 .. m - 1 : q = 0 /\ r = 0
    OBVIOUS
  <2>3. (q * m + r) \div m = q
    BY Quotient
  <2>4. q * m + r = 0
    BY <2>2
  <2>5. 0 \div m = 0
    BY <2>2, <2>3, <2>4
  <2> QED BY <1>1, <2>1, <2>5 DEF Column, Line
<1>5. CASE y < SCREEN_H
  <2>1. screenbuffer_index' = ((y + 1) \div FONT_H) * COLS /\ y' = y + 1
        /\ screenbuffer_index' = screenbuffer_index
    BY <1>1, <1>2, <1>5, Sizes DEF Walking, vsync
  <2>2. CASE y + 1 < SCREEN_H
    <3>1. (y + 1) \div FONT_H \in 0 .. ROWS - 1
      <4>1. PICK X \in 0 .. SCREEN_W - 1, Y \in 0 .. SCREEN_H - 1 : X = 0 /\ Y = y + 1
        BY <2>2, Sizes DEF Walking
      <4>2. Y \div FONT_H \in 0 .. ROWS - 1
        BY Places
      <4> QED BY <4>1, <4>2
    <3>2. PICK L \in Nat, N \in Nat : L = (y + 1) \div FONT_H /\ N = COLS
      BY <3>1, Sizes
    <3>3. L * N \in Nat /\ screenbuffer_index' = L * N + 0
      BY <2>1, <3>2
    <3> QED BY <1>3, <1>4, <2>1, <2>2, <3>2, <3>3 DEF Walking
  <2>3. CASE y + 1 >= SCREEN_H
    <3>1. y + 1 = SCREEN_H
      BY <1>5, <2>3, Sizes DEF Walking
    <3>2. (y + 1) \div FONT_H = ROWS
      <4>1. PICK m \in Nat \ {0} : m = FONT_H
        BY Sizes
      <4>2. PICK q \in Nat, r \in 0 .. m - 1 : q = ROWS /\ r = 0
        BY Sizes
      <4>3. (q * m + r) \div m = q
        BY Quotient
      <4>4. q * m \in Nat /\ y + 1 = q * m
        BY <3>1, <4>1, <4>2 DEF SCREEN_H
      <4> QED BY <4>1, <4>2, <4>3, <4>4
    <3> QED BY <1>1, <1>3, <2>1, <3>1, <3>2, Sizes DEF Walking, Visible
  <2> QED BY <2>2, <2>3, Sizes DEF Walking
<1>6. CASE y >= SCREEN_H
  <2>1. CASE y = SCREEN
    <3>1. screenbuffer_index' = 0 /\ screenbuffer_index = 0 /\ y' = 0
      BY <1>1, <1>2, <1>6, <2>1, Sizes DEF Walking
    <3>2. Line' = 0
      <4>1. PICK m \in Nat \ {0} : m = FONT_H
        BY Sizes
      <4>2. PICK q \in Nat, r \in 0 .. m - 1 : q = 0 /\ r = 0
        OBVIOUS
      <4>3. (q * m + r) \div m = q
        BY Quotient
      <4>4. q * m + r = 0
        BY <4>2
      <4> QED BY <1>4, <3>1, <4>1, <4>2, <4>3, <4>4
    <3>3. Line' * COLS + Column' = 0
      BY <1>4, <3>2, Sizes
    <3> QED BY <1>3, <3>1, <3>3, Sizes DEF Walking
  <2>2. CASE y # SCREEN
    <3>1. y' = y + 1 /\ y' >= SCREEN_H /\ ~ Visible'
      BY <1>1, <1>6, <2>2, Sizes DEF Walking, Visible
    <3>2. screenbuffer_index' = IF y' < VS_STA \/ (y' = VS_STA /\ x' = 0) THEN ROWS * COLS ELSE 0
      BY <1>1, <1>2, <1>6, <3>1, Sizes DEF Walking, vsync
    <3> QED BY <1>3, <3>1, <3>2, Sizes DEF Walking
  <2> QED BY <2>1, <2>2
<1> QED BY <1>5, <1>6, Sizes DEF Walking

(* A pixel of a line: on to the next cell at the end of this one, and back to *)
(* the first cell at the end of the line.                                     *)
LEMMA PixelStep ==
  ASSUME Walking, Tick, Visible
  PROVE  /\ Walking'
         /\ x + 1 < SCREEN_W =>
              screenbuffer_index' = IF x % FONT_W = FONT_W - 1 THEN screenbuffer_index + 1
                                                               ELSE screenbuffer_index
<1>1. x' = x + 1 /\ y' = y /\ x' \in 0 .. LINE /\ y' \in 0 .. SCREEN /\ y < SCREEN_H
  BY Sizes DEF Tick, Position, Walking, Visible
<1>2. PICK X \in 0 .. SCREEN_W - 1, Y \in 0 .. SCREEN_H - 1 : X = x /\ Y = y
  BY Sizes DEF Walking, Visible
<1>3. PICK N \in Nat \ {0}, W \in Nat \ {0}, H \in Nat \ {0} : N = COLS /\ W = FONT_W /\ H = FONT_H
  BY Sizes
<1>4. X \div FONT_W \in 0 .. COLS - 1 /\ Y \div FONT_H \in 0 .. ROWS - 1
  BY Places
<1>5. PICK C \in 0 .. N - 1, L \in Nat : C = X \div FONT_W /\ L = Y \div FONT_H
  BY <1>3, <1>4, Sizes
<1>6. L * N \in Nat /\ screenbuffer_index = L * N + C
  BY <1>2, <1>3, <1>5, <1>1 DEF Walking, Visible, Line, Column
<1>7. vsync /\ ~ blanking
  BY <1>1, Sizes DEF vsync, blanking, Walking, Visible
<1>8. X \in Nat /\ Y \in Nat
  BY Sizes
<1>9. (X + 1) \div W = IF X % W = W - 1 THEN X \div W + 1 ELSE X \div W
  BY <1>8, Successor
<1>10. (Y + 1) \div H = IF Y % H = H - 1 THEN Y \div H + 1 ELSE Y \div H
  BY <1>8, Successor
<1>11. CASE x + 1 < SCREEN_W
  <2>1. screenbuffer_index' = IF X % W = W - 1 THEN screenbuffer_index + 1 ELSE screenbuffer_index
    BY <1>2, <1>3, <1>7, <1>8, <1>11, Sizes DEF Tick, NextIndex
  <2>2. Column' = (IF X % W = W - 1 THEN C + 1 ELSE C) /\ Line' = L
    BY <1>1, <1>2, <1>3, <1>5, <1>9 DEF Column, Line
  <2>3. screenbuffer_index' = L * N + (IF X % W = W - 1 THEN C + 1 ELSE C)
    BY <1>5, <1>6, <2>1
  <2>4. screenbuffer_index' = Line' * COLS + Column'
    BY <1>3, <2>2, <2>3
  <2> QED BY <1>1, <1>2, <1>3, <1>11, <2>1, <2>4 DEF Walking
<1>12. CASE x + 1 >= SCREEN_W
  <2>1. X = SCREEN_W - 1 /\ C = N - 1 /\ X % W = W - 1
    <3>1. X = SCREEN_W - 1
      BY <1>2, <1>12, Sizes
    <3>2. X \div FONT_W = COLS - 1 /\ X % FONT_W = FONT_W - 1
      BY <3>1, Places
    <3> QED BY <1>3, <1>5, <3>1, <3>2
  <2>2. screenbuffer_index' = IF Y % H # H - 1 THEN screenbuffer_index - (N - 1) ELSE screenbuffer_index + 1
    BY <1>2, <1>3, <1>7, <2>1 DEF Tick, NextIndex
  <2>3. PICK M \in Nat : M = (Y + 1) \div H /\ M = IF Y % H = H - 1 THEN L + 1 ELSE L
    BY <1>3, <1>5, <1>10
  <2>4. (L + 1) * N = L * N + N
    OBVIOUS
  <2>5. screenbuffer_index' = M * N
    BY <1>6, <2>1, <2>2, <2>3, <2>4
  <2>6. screenbuffer_index' = ((y' + 1) \div FONT_H) * COLS
    BY <1>1, <1>2, <1>3, <2>3, <2>5
  <2> QED BY <1>1, <1>12, <2>6, Sizes DEF Walking
<1> QED BY <1>11, <1>12, Sizes DEF Walking

(* Between the last cell and the end of the line nothing moves, and the sync  *)
(* pulse takes the index back to the first cell.                              *)
LEMMA BlankStep ==
  ASSUME Walking, Tick, ~ Visible, x # LINE
  PROVE  Walking' /\ ~ Visible'
<1>1. x' = x + 1 /\ y' = y /\ x' \in 0 .. LINE /\ y' \in 0 .. SCREEN /\ blanking
  BY Sizes DEF Tick, Position, Walking, Visible, blanking
<1>2. screenbuffer_index' = IF ~ vsync THEN 0 ELSE screenbuffer_index
  BY <1>1 DEF Tick, NextIndex
<1>3. CASE y < SCREEN_H
  BY <1>1, <1>2, <1>3, Sizes DEF Walking, Visible, vsync
<1>4. CASE y >= SCREEN_H
  <2>1. screenbuffer_index' = IF y' < VS_STA \/ (y' = VS_STA /\ x' = 0) THEN ROWS * COLS ELSE 0
    BY <1>1, <1>2, <1>4, Sizes DEF Walking, vsync
  <2> QED BY <1>1, <1>4, <2>1, Sizes DEF Walking, Visible
<1> QED BY <1>3, <1>4, Sizes DEF Walking

(* The word fetched at the end of a word or a line is the one shown next. *)
LEMMA FetchStep ==
  ASSUME GpuInv, Tick
  PROVE  Prefetched'
<1> SUFFICES ASSUME stable', Visible' PROVE char_reg' = Word(screenbuffer_index \div 4)'
  BY DEF Prefetched
<1>1. screenbuffer' = screenbuffer /\ char_reg' = Prefetch
  BY DEF Tick
<1>2. \A i : Word(i)' = Word(i)
  BY <1>1 DEF Word, UndefinedWord
<1>3. Word(screenbuffer_index \div 4)' = Word(screenbuffer_index' \div 4)
  BY <1>1 DEF Word, UndefinedWord
<1>4. CASE x = LINE
  <2>1. screenbuffer_index' = screenbuffer_index
    BY <1>4, LineEndStep DEF GpuInv
  <2> QED BY <1>1, <1>3, <1>4, <2>1 DEF Prefetch
<1>5. CASE x # LINE
  <2>1. Visible /\ x + 1 < SCREEN_W /\ stable
    BY <1>5, Sizes DEF Tick, Position, Visible, GpuInv, Walking
  <2>2. PICK X \in 0 .. SCREEN_W - 1, Y \in 0 .. SCREEN_H - 1 : X = x /\ Y = y
    BY <2>1, Sizes DEF GpuInv, Walking, Visible
  <2>3. X \div FONT_W \in 0 .. COLS - 1 /\ Y \div FONT_H \in 0 .. ROWS - 1
    BY Places
  <2>4. PICK c \in 0 .. COLS - 1, r \in 0 .. ROWS - 1 : c = X \div FONT_W /\ r = Y \div FONT_H
    BY <2>3
  <2>5. PICK i : i = r * COLS + c
    OBVIOUS
  <2>6. i \div 4 \in Int /\ (i + 1) \div 4 = IF c % 4 = 3 THEN i \div 4 + 1 ELSE i \div 4
    BY <2>5, InWords
  <2>7. screenbuffer_index = i
    BY <2>1, <2>2, <2>4, <2>5 DEF GpuInv, Walking, Visible, Line, Column
  <2>8. X \in Nat
    BY Sizes
  <2>9. X % (4 * FONT_W) = 4 * FONT_W - 1 <=> X % FONT_W = FONT_W - 1 /\ c % 4 = 3
    BY <2>4, <2>8, WordEnds
  <2>10. screenbuffer_index' = IF X % FONT_W = FONT_W - 1 THEN i + 1 ELSE i
    BY <2>1, <2>2, <2>7, PixelStep DEF GpuInv
  <2>11. char_reg' = IF X % (4 * FONT_W) = 4 * FONT_W - 1 THEN Word(i \div 4 + 1) ELSE char_reg
    BY <1>1, <1>5, <2>2, <2>7 DEF Prefetch
  <2>12. char_reg = Word(i \div 4)
    BY <2>1, <2>7 DEF GpuInv, Prefetched
  <2>13. char_reg' = Word(screenbuffer_index' \div 4)
    <3>1. CASE X % FONT_W = FONT_W - 1 /\ c % 4 = 3
      BY <3>1, <2>6, <2>9, <2>10, <2>11
    <3>2. CASE X % FONT_W = FONT_W - 1 /\ c % 4 # 3
      BY <3>2, <2>6, <2>9, <2>10, <2>11, <2>12
    <3>3. CASE X % FONT_W # FONT_W - 1
      BY <3>3, <2>9, <2>10, <2>11, <2>12
    <3> QED BY <3>1, <3>2, <3>3
  <2> QED BY <1>3, <2>13
<1> QED BY <1>4, <1>5

(* Every step keeps the controller's invariant. *)
LEMMA GpuStep == GpuInv /\ [Next]_vars => GpuInv'
<1> SUFFICES ASSUME GpuInv, [Next]_vars PROVE GpuInv'
  OBVIOUS
<1>1. CASE Next
  <2>1. Tick
    BY <1>1, StepIsTick
  <2>2. Walking'
    BY <2>1, LineEndStep, PixelStep, BlankStep DEF GpuInv
  <2> QED BY <2>1, <2>2, FetchStep DEF GpuInv
<1>2. CASE UNCHANGED vars
  BY <1>2 DEF vars, gpu, GpuInv, Walking, Prefetched, Visible, Column, Line, Word, UndefinedWord
<1> QED BY <1>1, <1>2

(* It says that a frame that is not disturbed is right. *)
LEMMA GpuShows == GpuInv => FrameIsScreen
<1> SUFFICES ASSUME GpuInv, stable, ~ blanking
             PROVE  LET i == (y \div FONT_H) * COLS + x \div FONT_W
                    IN  pixel = colorbuffer[i][IF Glyph(screenbuffer[i], y % FONT_H, x % FONT_W) THEN 1 ELSE 2]
  BY DEF FrameIsScreen
<1>1. Visible
  BY DEF blanking, Visible
<1>2. PICK X \in 0 .. SCREEN_W - 1, Y \in 0 .. SCREEN_H - 1 : X = x /\ Y = y
  BY <1>1, Sizes DEF GpuInv, Walking, Visible
<1>3. X \div FONT_W \in 0 .. COLS - 1 /\ Y \div FONT_H \in 0 .. ROWS - 1
  BY Places
<1>4. PICK c \in 0 .. COLS - 1, r \in 0 .. ROWS - 1 : c = X \div FONT_W /\ r = Y \div FONT_H
  BY <1>3
<1>5. PICK i : i = r * COLS + c
  OBVIOUS
<1>6. i \div 4 \in 0 .. SB_NWORDS - 1 /\ i % 4 = c % 4 /\ i = 4 * (i \div 4) + (i % 4)
  BY <1>5, InWords
<1>7. screenbuffer_index = i
  BY <1>1, <1>2, <1>4, <1>5 DEF GpuInv, Walking, Visible, Line, Column
<1>8. PICK w \in Int, b \in 0 .. 3 : w = i \div 4 /\ b = i % 4
  <2>1. c \in Nat
    BY Sizes
  <2>2. c % 4 \in 0 .. 3
    BY <2>1, Fours
  <2> QED BY <1>6, <2>2
<1>9. char_reg = Word(w) /\ w < SB_NWORDS
  <2>1. SB_NWORDS \in Int
    BY Sizes DEF SB_NWORDS
  <2> QED BY <1>1, <1>6, <1>7, <1>8, <2>1 DEF GpuInv, Prefetched
<1>10. current_char = screenbuffer[i]
  BY <1>6, <1>7, <1>8, <1>9 DEF current_char, Word
<1> QED BY <1>2, <1>4, <1>5, <1>7, <1>10 DEF pixel, video

(* At the start the controller is at the first pixel, and nothing is stable. *)
LEMMA GpuStarts == Init => GpuInv
<1> SUFFICES ASSUME Init PROVE GpuInv
  OBVIOUS
<1>1. x = 0 /\ y = 0 /\ screenbuffer_index = 0 /\ stable = FALSE
  BY DEF Init, GpuInit
<1>2. \A m \in Nat \ {0} : 0 \div m = 0
  OBVIOUS
<1>3. Line = 0 /\ Column = 0
  BY <1>1, <1>2, Sizes DEF Line, Column
<1>4. Line * COLS + Column = 0
  BY <1>3, Sizes
<1> QED BY <1>1, <1>4, Sizes DEF GpuInv, Walking, Prefetched

(* A frame in which nothing is stored shows every pixel from the character    *)
(* and the colours of its cell (color_textmode_gpu.sv:161), on every screen.  *)
THEOREM FrameShowsScreen == Spec => []FrameIsScreen
<1>1. Spec => []GpuInv
  BY GpuStarts, GpuStep, PTL DEF Spec
<1> QED BY <1>1, GpuShows, PTL

-----------------------------------------------------------------------------
(* What the programs have done to the screen. *)

LineEnds == {"\r", "\n"}
CharLine == 0 .. ROWS - 1
CharColumn == 0 .. COLS - 1
Address(r, c) == r * COLS + c
Before(r, c) == c < cx \/ (c = cx /\ r < cy)

(* Where a program can be. *)
Phases ==
  /\ main \in Mains /\ cx \in CharColumn /\ cy \in CharLine
  /\ iter \in 0 .. ClearAfter + 1 /\ widest \in Nat
  /\ DOMAIN screenbuffer = Cell /\ DOMAIN colorbuffer = Cell
  /\ phase \in CASE main = "cgol"       -> {"begin", "print", "draw", "shown"}
                 [] main = "cgol_color" -> {"fill", "begin", "print", "put", "draw", "shown"}
                 [] main = "image_show" -> {"fill", "draw", "shown"}
  /\ phase \notin {"fill", "draw"} => cx = 0 /\ cy = 0
  /\ phase \in {"print", "put", "draw", "shown"} /\ main # "image_show" => Len(StatusLine) <= widest

(* The coloured programs' characters, but where a number has been printed. *)
Filled ==
  main # "cgol" =>
    \A r \in CharLine, c \in CharColumn :
      /\ phase = "fill" => Before(r, c)
      /\ main = "cgol_color" => r # ROWS - 1 \/ c > widest
      => screenbuffer[Address(r, c)] = "top"
Inked == main = "cgol" => \A i \in Cell : colorbuffer[i] = InitialColor

(* A character of the status in its cell. *)
StatusCell(k) ==
  /\ screenbuffer[Address(ROWS - 1, k)] = StatusLine[k + 1]
  /\ main = "cgol_color" => colorbuffer[Address(ROWS - 1, k)] = <<White, Black>>

(* How much of the status has been printed. *)
Done == Len(StatusLine) + 1 - Len(text)
Printing ==
  phase \in {"print", "put"} =>
    /\ text \in Seq(Printable \cup {behind}) /\ Len(text) <= Len(StatusLine) + 1
    /\ \A k \in 1 .. Len(text) :
         text[k] = IF Done + k <= Len(StatusLine) THEN StatusLine[Done + k] ELSE behind
    /\ cur.col = IF text = << >> /\ behind \in LineEnds THEN 0 ELSE Done
    /\ text # << >> => cur = [row |-> ROWS - 1, col |-> Done]
    /\ behind \notin LineEnds \/ text # << >> => \A k \in 0 .. Len(StatusLine) - 1 : k < Done => StatusCell(k)
    /\ phase = "put" =>
         /\ text # << >>
         /\ colorbuffer[Address(ROWS - 1, Done)] = <<White, Black>> \/ Done = Len(StatusLine)

(* The status stays while the cells are drawn. *)
StatusKept ==
  phase \in {"draw", "shown"} /\ main # "image_show" =>
    /\ cur.col = IF behind \in LineEnds THEN 0 ELSE Len(StatusLine) + 1
    /\ behind \notin LineEnds => \A k \in 0 .. Len(StatusLine) - 1 : StatusCell(k)

(* A cell as it should be drawn. *)
DrawnCell(r, c) ==
  CASE main = "cgol" ->
         screenbuffer[Address(r, c)] = HalfChar(get_cell(current, c, 2 * r), get_cell(current, c, 2 * r + 1))
    [] main = "cgol_color" ->
         colorbuffer[Address(r, c)] = <<LifeColor(c, 2 * r), LifeColor(c, 2 * r + 1)>>
    [] main = "image_show" ->
         colorbuffer[Address(r, c)] = <<Pictures[picture][2 * r * COLS + c], Pictures[picture][(2 * r + 1) * COLS + c]>>
Drawn ==
  phase \in {"draw", "shown"} =>
    \A r \in CharLine, c \in CharColumn :
      /\ phase = "draw" => Before(r, c)
      /\ main # "image_show" => r # ROWS - 1 \/ c >= Len(StatusLine)
      => DrawnCell(r, c)

ScreenInv == Phases /\ Filled /\ Inked /\ Printing /\ StatusKept /\ Drawn

(* The status changes only with the number. *)
LEMMA StatusSame == iter' = iter => StatusLine' = StatusLine
BY DEF StatusLine

(* One further around the screen. *)
LEMMA Cyclic ==
  ASSUME NEW n \in Nat \ {0}, NEW k \in 0 .. n - 1
  PROVE  (k + 1) % n = IF k = n - 1 THEN 0 ELSE k + 1
<1>1. CASE k = n - 1
  <2>1. PICK q \in Nat, r \in 0 .. n - 1 : q = 1 /\ r = 0
    OBVIOUS
  <2>2. (q * n + r) % n = r
    BY Quotient
  <2>3. q * n + r = k + 1
    BY <1>1, <2>1
  <2> QED BY <1>1, <2>1, <2>2, <2>3
<1>2. CASE k # n - 1
  <2>1. PICK q \in Nat, r \in 0 .. n - 1 : q = 0 /\ r = k + 1
    BY <1>2
  <2>2. (q * n + r) % n = r
    BY Quotient
  <2>3. q * n + r = k + 1
    BY <2>1
  <2> QED BY <1>2, <2>1, <2>2, <2>3
<1> QED BY <1>1, <1>2

(* Every cell has an address of its own. *)
LEMMA AddressUnique ==
  ASSUME NEW r \in CharLine, NEW c \in CharColumn, NEW s \in CharLine, NEW d \in CharColumn
  PROVE  /\ Address(r, c) \in Cell
         /\ Address(r, c) = Address(s, d) => r = s /\ c = d
<1>1. PICK N \in Nat \ {0} : N = COLS
  BY Sizes
<1>2. r \in Nat /\ s \in Nat /\ c \in 0 .. N - 1 /\ d \in 0 .. N - 1
  BY <1>1, Sizes DEF CharLine, CharColumn
<1>3. (r * N + c) \div N = r /\ (r * N + c) % N = c
  BY <1>2, Quotient
<1>4. (s * N + d) \div N = s /\ (s * N + d) % N = d
  BY <1>2, Quotient
<1>5. r * COLS + c \in Cell
  BY InWords DEF CharLine, CharColumn
<1> QED BY <1>1, <1>3, <1>4, <1>5 DEF Address, CharLine, CharColumn

(* An edge without a store leaves the screen alone. *)
LEMMA NoEdge == Edge(NoStore) => screenbuffer' = screenbuffer /\ colorbuffer' = colorbuffer
BY DEF Edge, Clock, NoStore

(* A character is stored and no colour. *)
LEMMA CharEdge ==
  ASSUME NEW i, NEW c, Edge(StoreChar(i, c))
  PROVE  screenbuffer' = [screenbuffer EXCEPT ![i] = c] /\ colorbuffer' = colorbuffer
BY DEF Edge, Clock, StoreChar

(* A colour is stored and no character. *)
LEMMA ColorEdge ==
  ASSUME NEW i, NEW c, Edge(StoreColor(i, c))
  PROVE  screenbuffer' = screenbuffer /\ colorbuffer' = [colorbuffer EXCEPT ![i] = c]
BY DEF Edge, Clock, StoreColor

(* Nothing of a cell's drawing changes with the other cells. *)
LEMMA DrawnSame ==
  ASSUME NEW r, NEW c, DrawnCell(r, c), UNCHANGED <<main, current, next, picture>>,
         screenbuffer'[Address(r, c)] = screenbuffer[Address(r, c)],
         colorbuffer'[Address(r, c)] = colorbuffer[Address(r, c)]
  PROVE  DrawnCell(r, c)'
BY DEF DrawnCell, Address, LifeColor, get_cell

(* The cells are drawn column by column. *)
LEMMA CursorStep ==
  ASSUME Phases, NextCell
  PROVE  /\ cx' \in CharColumn /\ cy' \in CharLine
         /\ LastCell => cx' = 0 /\ cy' = 0
         /\ \A r \in CharLine, c \in CharColumn :
              (LastCell \/ Before(r, c)') => Before(r, c) \/ (r = cy /\ c = cx)
<1>0. PICK N \in Nat \ {0}, M \in Nat \ {0} : N = COLS /\ M = ROWS
  BY Sizes
<1>1. PICK X \in 0 .. N - 1, Y \in 0 .. M - 1 : N = COLS /\ M = ROWS /\ X = cx /\ Y = cy
  BY <1>0 DEF Phases, CharColumn, CharLine
<1>2. (X + 1) % N = IF X = N - 1 THEN 0 ELSE X + 1
  BY Cyclic
<1>3. (Y + 1) % M = IF Y = M - 1 THEN 0 ELSE Y + 1
  BY Cyclic
<1>4. cy' = IF Y = M - 1 THEN 0 ELSE Y + 1
  BY <1>1, <1>3 DEF NextCell
<1>5. cx' = IF Y = M - 1 THEN IF X = N - 1 THEN 0 ELSE X + 1 ELSE X
  BY <1>1, <1>2, <1>4 DEF NextCell
<1>6. LastCell <=> X = N - 1 /\ Y = M - 1
  BY <1>1 DEF LastCell
<1>7. cx' \in CharColumn /\ cy' \in CharLine /\ (LastCell => cx' = 0 /\ cy' = 0)
  BY <1>1, <1>4, <1>5, <1>6 DEF CharColumn, CharLine
<1>8. ASSUME NEW r \in CharLine, NEW c \in CharColumn, LastCell \/ Before(r, c)'
      PROVE  Before(r, c) \/ (r = cy /\ c = cx)
  <2>1. r \in 0 .. M - 1 /\ c \in 0 .. N - 1
    BY <1>1 DEF CharColumn, CharLine
  <2>2. CASE LastCell
    BY <1>1, <1>6, <2>1, <2>2 DEF Before
  <2>3. CASE ~ LastCell
    <3>1. c < cx' \/ (c = cx' /\ r < cy')
      BY <1>8, <2>3 DEF Before
    <3> QED BY <1>1, <1>4, <1>5, <2>1, <3>1 DEF Before
  <2> QED BY <2>2, <2>3
<1> QED BY <1>7, <1>8

(* The program stands at the first cell whenever it begins to draw. *)
LEMMA NothingBefore ==
  ASSUME cx = 0, cy = 0, NEW r \in CharLine, NEW c \in CharColumn
  PROVE  ~ Before(r, c)
BY Sizes DEF Before, CharLine, CharColumn

(* A step that leaves the screen and the program as they are. *)
LEMMA ScreenSame ==
  ASSUME ScreenInv, UNCHANGED <<program, screenbuffer, colorbuffer>>
  PROVE  ScreenInv'
<1> USE DEF program, history
<1>1. StatusLine' = StatusLine
  BY StatusSame
<1>2. Phases'
  BY <1>1 DEF ScreenInv, Phases
<1>3. Filled' /\ Inked'
  BY DEF ScreenInv, Filled, Inked, Before, Address
<1>4. Printing' /\ StatusKept'
  BY <1>1 DEF ScreenInv, Printing, StatusKept, Done, StatusCell, Address
<1>5. ASSUME NEW r, NEW c PROVE DrawnCell(r, c)' = DrawnCell(r, c)
  BY DEF DrawnCell, Address, LifeColor, get_cell
<1>6. Drawn'
  BY <1>1, <1>5 DEF ScreenInv, Drawn, Before
<1> QED BY <1>2, <1>3, <1>4, <1>6 DEF ScreenInv

(* The program is at the last line and the status fits in it. *)
LEMMA StatusFits ==
  ASSUME Phases
  PROVE  /\ StatusLine \in Seq(Printable) /\ Len(StatusLine) \in Nat /\ Len(StatusLine) + 1 < COLS
         /\ \A k \in 1 .. Len(StatusLine) : StatusLine[k] \in Printable
<1>1. PICK n \in 0 .. ClearAfter + 1 : n = iter
  BY DEF Phases
<1>2. PICK d : d = Io!Decimal(n)
  OBVIOUS
<1>3. d \in Seq(Printable) /\ Len(Status) + Len(d) + 1 < COLS /\ Status \in Seq(Printable)
  BY <1>2, NumberFits, StatusAssumption
<1>4. PICK s : s = Status \o d
  OBVIOUS
<1>5. s \in Seq(Printable) /\ Len(s) = Len(Status) + Len(d)
  BY <1>3, <1>4
<1>6. StatusLine = s
  BY <1>1, <1>2, <1>4 DEF StatusLine
<1>7. Len(s) \in Nat /\ Len(d) \in Nat /\ Len(Status) \in Nat /\ \A k \in 1 .. Len(s) : s[k] \in Printable
  BY <1>3, <1>5
<1>8. Len(s) + 1 < COLS
  BY <1>3, <1>5, <1>7
<1> QED BY <1>5, <1>6, <1>7, <1>8

-----------------------------------------------------------------------------
(* The actions. *)

(* A cell gets its half-filled character. *)
LEMMA FillStep == ASSUME ScreenInv, Fill PROVE ScreenInv'
<1> USE DEF history
<1>1. PICK p : p = place
  OBVIOUS
<1>2. screenbuffer' = [screenbuffer EXCEPT ![p] = "top"] /\ colorbuffer' = colorbuffer
  <2>1. Edge(StoreChar(p, "top"))
    BY <1>1 DEF Fill
  <2> QED BY <2>1, CharEdge
<1>3. p = Address(cy, cx) /\ p \in Cell /\ cx \in CharColumn /\ cy \in CharLine
  <2>1. cx \in CharColumn /\ cy \in CharLine
    BY DEF ScreenInv, Phases
  <2>2. p = Address(cy, cx)
    BY <1>1, <2>1, Sizes DEF place, Address, CharColumn, CharLine
  <2> QED BY <2>1, <2>2, AddressUnique
<1>4. /\ cx' \in CharColumn /\ cy' \in CharLine
      /\ LastCell => cx' = 0 /\ cy' = 0
      /\ \A r \in CharLine, c \in CharColumn :
           (LastCell \/ Before(r, c)') => Before(r, c) \/ (r = cy /\ c = cx)
  BY CursorStep DEF ScreenInv, Fill
<1>5. StatusLine' = StatusLine
  BY StatusSame DEF Fill
<1>6. /\ main' = main /\ main \in {"cgol_color", "image_show"} /\ phase = "fill" /\ main \in Mains
      /\ phase' = IF ~ LastCell THEN "fill" ELSE IF main = "image_show" THEN "draw" ELSE "begin"
      /\ widest' = widest /\ iter' = iter
  BY ProgramAssumption DEF ScreenInv, Phases, Fill
<1>7. Phases'
  BY <1>2, <1>4, <1>5, <1>6 DEF ScreenInv, Phases
<1>8. Filled'
  <2> SUFFICES ASSUME NEW r \in CharLine, NEW c \in CharColumn,
                      phase' = "fill" => Before(r, c)',
                      main = "cgol_color" => r # ROWS - 1 \/ c > widest
               PROVE  screenbuffer'[Address(r, c)] = "top"
    BY <1>6 DEF Filled, Address
  <2>1. Before(r, c) \/ (r = cy /\ c = cx)
    BY <1>4, <1>6
  <2>2. Address(r, c) \in Cell
    BY AddressUnique
  <2>3. CASE r = cy /\ c = cx
    BY <1>2, <1>3, <2>2, <2>3 DEF ScreenInv, Phases
  <2>4. CASE Before(r, c)
    <3>1. screenbuffer[Address(r, c)] = "top"
      BY <1>6, <2>4 DEF ScreenInv, Filled
    <3> QED BY <1>2, <2>2, <3>1 DEF ScreenInv, Phases
  <2> QED BY <2>1, <2>3, <2>4
<1>9. Inked' /\ Printing' /\ StatusKept'
  BY <1>6 DEF Inked, Printing, StatusKept
<1>10. Drawn'
  <2> SUFFICES ASSUME NEW r \in CharLine, NEW c \in CharColumn, phase' = "draw", Before(r, c)' PROVE FALSE
    BY <1>6 DEF Drawn
  <2>1. cx' = 0 /\ cy' = 0
    BY <1>4, <1>6
  <2> QED BY <2>1, Sizes DEF Before, CharLine, CharColumn
<1> QED BY <1>7, <1>8, <1>9, <1>10 DEF ScreenInv

(* The status is handed to the console. *)
LEMMA BeginStep == ASSUME ScreenInv, BeginGeneration PROVE ScreenInv'
<1> USE DEF history
<1>1. screenbuffer' = screenbuffer /\ colorbuffer' = colorbuffer
  BY NoEdge DEF BeginGeneration
<1>2. StatusLine' = StatusLine
  BY StatusSame DEF BeginGeneration
<1>3. /\ UNCHANGED <<main, cx, cy, iter, current, next, picture>> /\ cx = 0 /\ cy = 0
      /\ main \in {"cgol", "cgol_color"} /\ phase = "begin" /\ phase' = "print"
  BY ProgramAssumption DEF ScreenInv, Phases, BeginGeneration
<1>4. PICK s : s = StatusLine
  OBVIOUS
<1>5. s \in Seq(Printable) /\ Len(s) \in Nat
  BY <1>4, StatusFits DEF ScreenInv
<1>6. widest \in Nat /\ widest' = IF Len(s) > widest THEN Len(s) ELSE widest
  BY <1>4 DEF ScreenInv, Phases, BeginGeneration
<1>7. Phases'
  BY <1>1, <1>2, <1>3, <1>4, <1>5, <1>6 DEF ScreenInv, Phases
<1>8. Filled' /\ Inked'
  <2>1. widest' >= widest /\ widest' \in Nat
    BY <1>5, <1>6
  <2>2. Inked'
    BY <1>1, <1>3 DEF ScreenInv, Inked
  <2> SUFFICES ASSUME NEW r \in CharLine, NEW c \in CharColumn, main # "cgol",
                      main = "cgol_color" => r # ROWS - 1 \/ c > widest'
               PROVE  screenbuffer'[Address(r, c)] = "top"
    BY <1>3, <2>2 DEF Filled, Address
  <2>3. c \in Nat
    BY Sizes DEF CharColumn
  <2> QED BY <1>1, <1>3, <1>6, <2>1, <2>3 DEF ScreenInv, Filled
<1>9. Printing'
  <2>1. PICK b \in Behind : behind' = b /\ text' = Status \o Io!print_integer(iter, b)
    BY DEF BeginGeneration
  <2>2. PICK n \in 0 .. ClearAfter + 1 : n = iter
    BY DEF ScreenInv, Phases
  <2>3. PICK S, u, d, t : S = Printable \cup {b} /\ u = Status /\ d = Io!Decimal(n) /\ t = u \o (d \o <<b>>)
    OBVIOUS
  <2>4. text' = t /\ s = u \o d
    <3>1. ~ (n < 0)
      OBVIOUS
    <3>2. Io!print_integer(n, b) = Io!Decimal(n) \o <<b>>
      BY <3>1 DEF Io!print_integer
    <3>3. s = Status \o d
      BY <1>4, <2>2, <2>3 DEF StatusLine
    <3> QED BY <2>1, <2>2, <2>3, <3>2, <3>3
  <2>8. t \in Seq(S) /\ Len(t) = Len(s) + 1
        /\ \A k \in 1 .. Len(t) : t[k] = IF k <= Len(s) THEN s[k] ELSE b
    <3>1. d \in Seq(Printable) /\ u \in Seq(Printable)
      BY <2>3, NumberFits, StatusAssumption
    <3>2. Printable \subseteq S /\ b \in S
      BY <2>3
    <3>3. d \in Seq(S) /\ u \in Seq(S)
      BY <3>1, <3>2, Wider
    <3>4. /\ u \o (d \o <<b>>) \in Seq(S) /\ Len(u \o (d \o <<b>>)) = Len(u \o d) + 1
          /\ \A k \in 1 .. Len(u \o (d \o <<b>>)) :
               (u \o (d \o <<b>>))[k] = IF k <= Len(u \o d) THEN (u \o d)[k] ELSE b
      BY <3>2, <3>3, OneBehind
    <3> QED BY <2>3, <2>4, <3>4
  <2>5. Done' = 0
    BY <1>2, <1>4, <1>5, <2>4, <2>8 DEF Done
  <2>6. t # << >>
    BY <1>5, <2>8
  <2>7. cur' = [row |-> ROWS - 1, col |-> 0]
    BY DEF BeginGeneration
  <2>9. /\ text' \in Seq(Printable \cup {behind'}) /\ Len(text') <= Len(s) + 1
        /\ \A k \in 1 .. Len(text') : text'[k] = IF k <= Len(s) THEN s[k] ELSE behind'
    BY <1>5, <2>1, <2>3, <2>4, <2>8
  <2> QED BY <1>2, <1>3, <1>4, <1>5, <2>4, <2>5, <2>6, <2>7, <2>9 DEF Printing
<1>10. StatusKept' /\ Drawn'
  BY <1>3 DEF StatusKept, Drawn
<1> QED BY <1>7, <1>8, <1>9, <1>10 DEF ScreenInv

(* What printing the next character does. *)
LEMMA Prints ==
  ASSUME Phases, Printing, phase \in {"print", "put"}, text # << >>
  PROVE  LET p == Io!printchar(cur, Head(text))
         IN  /\ Done \in 0 .. Len(StatusLine) /\ text \in Seq(Printable \cup {behind})
             /\ Len(text) = Len(StatusLine) + 1 - Done
             /\ Head(text) = IF Done < Len(StatusLine) THEN StatusLine[Done + 1] ELSE behind
             /\ Head(text) \in LineEnds =>
                  Done = Len(StatusLine) /\ behind \in LineEnds /\ p.cell = 0 /\ p.cur.col = 0
             /\ Head(text) \notin LineEnds =>
                  p.cell = Address(ROWS - 1, Done) + 1 /\ p.cur = [row |-> ROWS - 1, col |-> Done + 1]
<1>1. PICK L \in Nat, n \in Nat : L = Len(StatusLine) /\ n = Len(text)
  BY StatusFits DEF Printing
<1>2. n <= L + 1 /\ n > 0 /\ L + 1 < COLS /\ text \in Seq(Printable \cup {behind})
  BY <1>1, StatusFits DEF Printing
<1>3. PICK d \in 0 .. L : d = Done /\ n = L + 1 - d
  <2>1. PICK d \in 0 .. L : d = L + 1 - n
    <3>1. n <= L + 1 /\ n > 0
      BY <1>2
    <3>2. L + 1 - n \in 0 .. L
      BY <3>1
    <3> QED BY <3>2
  <2>2. Done = L + 1 - n
    BY <1>1 DEF Done
  <2> QED BY <1>1, <2>1, <2>2
<1>4. Head(text) = text[1] /\ 1 \in 1 .. Len(text)
  BY <1>1, <1>2
<1>5. Head(text) = IF d < L THEN StatusLine[d + 1] ELSE behind
  BY <1>1, <1>3, <1>4 DEF Printing
<1>6. Head(text) \in LineEnds => d = L /\ behind \in LineEnds
  <2>1. d < L => StatusLine[d + 1] \in Printable
    BY <1>1, <1>3, StatusFits
  <2> QED BY <1>3, <1>5, <2>1 DEF Printable, LineEnds
<1>7. cur = [row |-> ROWS - 1, col |-> d]
  BY <1>3 DEF Printing
<1>8. ASSUME Head(text) \in LineEnds
      PROVE  Io!printchar(cur, Head(text)).cell = 0 /\ Io!printchar(cur, Head(text)).cur.col = 0
  BY <1>7, <1>8 DEF Io!printchar, LineEnds
<1>9. ASSUME Head(text) \notin LineEnds
      PROVE  /\ Io!printchar(cur, Head(text)).cell = Address(ROWS - 1, d) + 1
             /\ Io!printchar(cur, Head(text)).cur = [row |-> ROWS - 1, col |-> d + 1]
  <2>1. ~ (d + 1 >= COLS)
    BY <1>2, <1>3, Sizes
  <2>2. [cur EXCEPT !.col = @ + 1] = [row |-> ROWS - 1, col |-> d + 1]
    BY <1>7
  <2>3. Io!Wrapped([row |-> ROWS - 1, col |-> d + 1]) = [row |-> ROWS - 1, col |-> d + 1]
    BY <2>1 DEF Io!Wrapped
  <2>4. Io!idx(cur) = Address(ROWS - 1, d)
    BY <1>7 DEF Io!idx, Address
  <2> QED BY <1>9, <2>2, <2>3, <2>4 DEF Io!printchar, LineEnds
<1> QED BY <1>1, <1>2, <1>3, <1>5, <1>6, <1>8, <1>9

(* The last line has its cells. *)
LEMMA LastLine ==
  ASSUME Phases, NEW k \in 0 .. Len(StatusLine)
  PROVE  ROWS - 1 \in CharLine /\ k \in CharColumn /\ Address(ROWS - 1, k) \in Cell
<1>1. ROWS - 1 \in CharLine
  BY Sizes DEF CharLine
<1>2. k \in CharColumn
  BY Sizes, StatusFits DEF CharColumn
<1> QED BY <1>1, <1>2, AddressUnique

(* A cell of the status gets its colours before its character. *)
LEMMA WhitenStep == ASSUME ScreenInv, Whiten PROVE ScreenInv'
<1> USE DEF history
<1>1. /\ UNCHANGED <<main, cx, cy, cur, text, current, next, iter, picture, history>>
      /\ phase = "print" /\ phase' = "put" /\ text # << >> /\ main = "cgol_color"
  BY DEF Whiten
<1>2. Phases /\ Filled /\ Printing
  BY DEF ScreenInv
<1>3. StatusLine' = StatusLine /\ Done' = Done
  BY <1>1, StatusSame DEF Done
<1>4. PICK ch, p : ch = Head(text) /\ p = Io!printchar(cur, Head(text))
  OBVIOUS
<1>0. PICK L \in Nat : L = Len(StatusLine)
  BY <1>2, StatusFits
<1>5. PICK d \in 0 .. L : L = Len(StatusLine) /\ d = Done
  <2>1. Len(StatusLine) \in Nat /\ Done \in 0 .. Len(StatusLine)
    BY <1>1, <1>2, Prints, StatusFits
  <2> QED BY <1>0, <2>1
<1>6. /\ ch \in LineEnds => d = L /\ p.cell = 0
      /\ ch \notin LineEnds => p.cell = Address(ROWS - 1, d) + 1
  BY <1>1, <1>2, <1>4, <1>5, Prints
<1>7. PICK a : a = Address(ROWS - 1, d)
  OBVIOUS
<1>8. a \in Cell /\ d \in CharColumn /\ ROWS - 1 \in CharLine
  BY <1>2, <1>5, <1>7, LastLine
<1>9. Edge(IF p.cell = 0 THEN NoStore ELSE StoreColor(p.cell - 1, <<White, Black>>))
  BY <1>4 DEF Whiten
<1>10. /\ screenbuffer' = screenbuffer
       /\ IF ch \in LineEnds THEN colorbuffer' = colorbuffer
                             ELSE colorbuffer' = [colorbuffer EXCEPT ![a] = <<White, Black>>]
  <2>1. CASE ch \in LineEnds
    <3>1. Edge(NoStore)
      BY <1>6, <1>9, <2>1
    <3> QED BY <2>1, <3>1, NoEdge
  <2>2. CASE ch \notin LineEnds
    <3>1. p.cell = a + 1 /\ a \in Int
      BY <1>6, <1>7, <1>8, <2>2, Sizes DEF Cell
    <3>2. p.cell - 1 = a /\ p.cell # 0
      BY <1>8, <3>1, Sizes DEF Cell
    <3>3. Edge(StoreColor(a, <<White, Black>>))
      BY <1>9, <3>2
    <3> QED BY <2>2, <3>3, ColorEdge
  <2> QED BY <2>1, <2>2
<1>11. Phases'
  BY <1>1, <1>2, <1>3, <1>10 DEF Phases
<1>12. Filled' /\ Inked'
  BY <1>1, <1>2, <1>10 DEF Filled, Inked, Address
<1>13. \A k \in 0 .. L - 1 : k < d => StatusCell(k)'
  <2> SUFFICES ASSUME NEW k \in 0 .. L - 1, k < d PROVE StatusCell(k)'
    OBVIOUS
  <2>1. StatusCell(k)
    BY <1>1, <1>2, <1>5 DEF Printing
  <2>2. k \in CharColumn /\ Address(ROWS - 1, k) \in Cell
    BY <1>2, <1>5, LastLine
  <2>3. Address(ROWS - 1, k) # a
    BY <1>7, <1>8, <2>2, AddressUnique
  <2>4. colorbuffer'[Address(ROWS - 1, k)] = colorbuffer[Address(ROWS - 1, k)]
    BY <1>2, <1>10, <2>2, <2>3 DEF Phases
  <2> QED BY <1>1, <1>3, <1>10, <2>1, <2>4 DEF StatusCell, Address
<1>14. colorbuffer'[a] = <<White, Black>> \/ d = L
  BY <1>2, <1>6, <1>8, <1>10 DEF Phases
<1>15. Printing'
  <2>1. /\ text \in Seq(Printable \cup {behind}) /\ Len(text) <= L + 1
        /\ \A k \in 1 .. Len(text) : text[k] = IF d + k <= L THEN StatusLine[d + k] ELSE behind
        /\ cur = [row |-> ROWS - 1, col |-> d]
    BY <1>1, <1>2, <1>5 DEF Printing
  <2> QED BY <1>1, <1>3, <1>5, <1>7, <1>13, <1>14, <2>1 DEF Printing, Address
<1>16. StatusKept' /\ Drawn'
  BY <1>1 DEF StatusKept, Drawn
<1> QED BY <1>11, <1>12, <1>15, <1>16 DEF ScreenInv

(* The next character of the status is in its cell, or ends the line. *)
LEMMA PrintStep == ASSUME ScreenInv, PrintChar PROVE ScreenInv'
<1> USE DEF history
<1>1. /\ UNCHANGED <<main, cx, cy, current, next, iter, picture, history>>
      /\ phase = (IF main = "cgol_color" THEN "put" ELSE "print") /\ phase' = "print"
      /\ text # << >> /\ text' = Tail(text) /\ main \in {"cgol", "cgol_color"}
  BY ProgramAssumption DEF PrintChar, ScreenInv, Phases
<1>2. Phases /\ Filled /\ Inked /\ Printing
  BY DEF ScreenInv
<1>3. StatusLine' = StatusLine
  BY <1>1, StatusSame
<1>4. PICK ch, p : ch = Head(text) /\ p = Io!printchar(cur, Head(text))
  OBVIOUS
<1>5. PICK L \in Nat : L = Len(StatusLine) /\ L <= widest
  BY <1>1, <1>2, StatusFits DEF Phases
<1>6. PICK d \in 0 .. L : d = Done
  <2>1. Done \in 0 .. L
    BY <1>1, <1>2, <1>5, Prints
  <2> QED BY <2>1
<1>7. /\ ch = IF d < L THEN StatusLine[d + 1] ELSE behind
      /\ ch \in LineEnds => d = L /\ behind \in LineEnds /\ p.cell = 0 /\ p.cur.col = 0
      /\ ch \notin LineEnds => p.cell = Address(ROWS - 1, d) + 1 /\ p.cur = [row |-> ROWS - 1, col |-> d + 1]
      /\ text \in Seq(Printable \cup {behind}) /\ Len(text) = L + 1 - d
  BY <1>1, <1>2, <1>4, <1>5, <1>6, Prints
<1>8. PICK a : a = Address(ROWS - 1, d)
  OBVIOUS
<1>9. a \in Cell /\ d \in CharColumn /\ ROWS - 1 \in CharLine
  BY <1>2, <1>5, <1>6, <1>8, LastLine
<1>10. cur' = p.cur /\ Edge(IF p.cell = 0 THEN NoStore ELSE StoreChar(p.cell - 1, ch))
  BY <1>4 DEF PrintChar
<1>11. /\ colorbuffer' = colorbuffer
       /\ IF ch \in LineEnds THEN screenbuffer' = screenbuffer
                             ELSE screenbuffer' = [screenbuffer EXCEPT ![a] = ch]
  <2>1. CASE ch \in LineEnds
    <3>1. Edge(NoStore)
      BY <1>7, <1>10, <2>1
    <3> QED BY <2>1, <3>1, NoEdge
  <2>2. CASE ch \notin LineEnds
    <3>1. p.cell = a + 1 /\ a \in Int
      BY <1>7, <1>8, <1>9, <2>2, Sizes DEF Cell
    <3>2. p.cell - 1 = a /\ p.cell # 0
      BY <1>9, <3>1, Sizes DEF Cell
    <3>3. Edge(StoreChar(a, ch))
      BY <1>10, <3>2
    <3> QED BY <2>2, <3>3, CharEdge
  <2> QED BY <2>1, <2>2
<1>12. Phases'
  BY <1>1, <1>2, <1>3, <1>11 DEF Phases
<1>13. Filled'
  <2> SUFFICES ASSUME NEW r \in CharLine, NEW c \in CharColumn, main = "cgol_color", r # ROWS - 1 \/ c > widest
               PROVE  screenbuffer'[Address(r, c)] = "top"
    BY <1>1 DEF Filled, Address
  <2>1. screenbuffer[Address(r, c)] = "top"
    BY <1>1, <1>2 DEF Filled
  <2>2. r # ROWS - 1 \/ c # d
    BY <1>2, <1>5 DEF Phases
  <2>3. Address(r, c) # a /\ Address(r, c) \in Cell
    BY <1>8, <1>9, <2>2, AddressUnique
  <2> QED BY <1>2, <1>11, <2>1, <2>3 DEF Phases
<1>14. Inked'
  BY <1>1, <1>2, <1>11 DEF Inked
<1>15. \A k \in 0 .. L - 1 : k < d => StatusCell(k)'
  <2> SUFFICES ASSUME NEW k \in 0 .. L - 1, k < d PROVE StatusCell(k)'
    OBVIOUS
  <2>1. StatusCell(k)
    BY <1>1, <1>2, <1>5, <1>6 DEF Printing
  <2>2. k \in CharColumn /\ Address(ROWS - 1, k) \in Cell
    BY <1>2, <1>5, LastLine
  <2>3. Address(ROWS - 1, k) # a
    BY <1>8, <1>9, <2>2, AddressUnique
  <2>4. screenbuffer'[Address(ROWS - 1, k)] = screenbuffer[Address(ROWS - 1, k)]
    BY <1>2, <1>11, <2>2, <2>3 DEF Phases
  <2> QED BY <1>1, <1>3, <1>11, <2>1, <2>4 DEF StatusCell, Address
<1>16. d < L => StatusCell(d)'
  <2> SUFFICES ASSUME d < L PROVE StatusCell(d)'
    OBVIOUS
  <2>1. screenbuffer'[a] = StatusLine[d + 1]
    BY <1>2, <1>7, <1>9, <1>11 DEF Phases
  <2>2. main = "cgol_color" => colorbuffer[a] = <<White, Black>>
    BY <1>1, <1>2, <1>5, <1>6, <1>8 DEF Printing
  <2> QED BY <1>1, <1>3, <1>8, <1>11, <2>1, <2>2 DEF StatusCell, Address
<1>17. PICK n \in Nat : n = L - d /\ Len(text) = n + 1
  <2>1. L - d \in Nat /\ Len(text) = (L - d) + 1
    BY <1>7
  <2> QED BY <2>1
<1>18. /\ text' \in Seq(Printable \cup {behind}) /\ Len(text') = n
       /\ \A k \in 1 .. n : text'[k] = text[k + 1]
  BY <1>1, <1>7, <1>17
<1>19. Done' = d + 1
  BY <1>3, <1>5, <1>17, <1>18 DEF Done
<1>20. \A k \in 1 .. Len(text') : text'[k] = IF Done' + k <= L THEN StatusLine[Done' + k] ELSE behind
  <2> SUFFICES ASSUME NEW k \in 1 .. n
               PROVE  text'[k] = IF (d + 1) + k <= L THEN StatusLine[(d + 1) + k] ELSE behind
    BY <1>18, <1>19
  <2>1. text[k + 1] = IF d + (k + 1) <= L THEN StatusLine[d + (k + 1)] ELSE behind
    BY <1>1, <1>2, <1>5, <1>6, <1>17 DEF Printing
  <2> QED BY <1>18, <2>1
<1>21. /\ cur'.col = IF text' = << >> /\ behind \in LineEnds THEN 0 ELSE d + 1
       /\ text' # << >> => cur' = [row |-> ROWS - 1, col |-> d + 1]
  <2>1. CASE ch \in LineEnds
    <3>1. n = 0 /\ behind \in LineEnds
      BY <1>7, <1>17, <2>1
    <3>2. text' = << >>
      BY <1>18, <3>1
    <3> QED BY <1>7, <1>10, <2>1, <3>1, <3>2
  <2>2. CASE ch \notin LineEnds
    <3>1. d = L => ch = behind
      BY <1>7
    <3>2. text' = << >> => d = L
      BY <1>17, <1>18
    <3> QED BY <1>7, <1>10, <2>2, <3>1, <3>2
  <2> QED BY <2>1, <2>2
<1>22. \A k \in 0 .. L - 1 : k < d + 1 => StatusCell(k)'
  BY <1>15, <1>16
<1>23. Printing'
  <2>1. Len(text') <= L + 1
    BY <1>17, <1>18
  <2> QED BY <1>1, <1>3, <1>5, <1>18, <1>19, <1>20, <1>21, <1>22, <2>1 DEF Printing
<1>24. StatusKept' /\ Drawn'
  BY <1>1 DEF StatusKept, Drawn
<1> QED BY <1>12, <1>13, <1>14, <1>23, <1>24 DEF ScreenInv

(* The status is complete when the drawing begins. *)
LEMMA PrintedStep == ASSUME ScreenInv, Printed PROVE ScreenInv'
<1> USE DEF history
<1>1. /\ UNCHANGED <<main, cx, cy, cur, text, current, next, iter, picture, history>>
      /\ phase = "print" /\ phase' = "draw" /\ text = << >> /\ main \in {"cgol", "cgol_color"}
  BY ProgramAssumption DEF Printed, ScreenInv, Phases
<1>2. Phases /\ Filled /\ Inked /\ Printing /\ cx = 0 /\ cy = 0
  BY <1>1 DEF ScreenInv, Phases
<1>3. screenbuffer' = screenbuffer /\ colorbuffer' = colorbuffer
  BY NoEdge DEF Printed
<1>4. StatusLine' = StatusLine
  BY <1>1, StatusSame
<1>5. Phases'
  BY <1>1, <1>2, <1>3, <1>4 DEF Phases
<1>6. Filled' /\ Inked' /\ Printing'
  BY <1>1, <1>2, <1>3 DEF Filled, Inked, Printing, Address
<1>7. PICK L \in Nat : L = Len(StatusLine)
  BY <1>2, StatusFits
<1>8. Done = L + 1
  BY <1>1, <1>7 DEF Done
<1>9. /\ cur.col = IF behind \in LineEnds THEN 0 ELSE L + 1
      /\ behind \notin LineEnds => \A k \in 0 .. L - 1 : StatusCell(k)
  BY <1>1, <1>2, <1>7, <1>8 DEF Printing
<1>10. StatusKept'
  BY <1>1, <1>3, <1>4, <1>7, <1>9 DEF StatusKept, StatusCell, Address
<1>11. Drawn'
  <2> SUFFICES ASSUME NEW r \in CharLine, NEW c \in CharColumn, Before(r, c)' PROVE FALSE
    BY <1>1 DEF Drawn
  <2>1. Before(r, c)
    BY <1>1 DEF Before
  <2> QED BY <1>2, <2>1, NothingBefore
<1> QED BY <1>5, <1>6, <1>10, <1>11 DEF ScreenInv

(* The next generation, and the number it has. *)
LEMMA ComputeStep == ASSUME ScreenInv, Compute PROVE ScreenInv'
<1> USE DEF history
<1>1. /\ UNCHANGED <<main, cx, cy, cur, text, picture, history>>
      /\ phase = "shown" /\ phase' = "begin" /\ main \in {"cgol", "cgol_color"}
      /\ iter' = IF iter <= ClearAfter THEN iter + 1 ELSE IF main = "cgol_color" THEN 1 ELSE iter
  BY ProgramAssumption DEF Compute, ScreenInv, Phases
<1>2. Phases /\ Filled /\ Inked
  BY DEF ScreenInv
<1>3. screenbuffer' = screenbuffer /\ colorbuffer' = colorbuffer
  BY NoEdge DEF Compute
<1>4. iter' \in 0 .. ClearAfter + 1
  BY <1>1, <1>2, ProgramAssumption DEF Phases
<1>5. Phases'
  BY <1>1, <1>2, <1>3, <1>4 DEF Phases
<1>6. Filled' /\ Inked'
  BY <1>1, <1>2, <1>3 DEF Filled, Inked, Address
<1>7. Printing' /\ StatusKept' /\ Drawn'
  BY <1>1 DEF Printing, StatusKept, Drawn
<1> QED BY <1>5, <1>6, <1>7 DEF ScreenInv

(* The next picture is drawn from the first cell on. *)
LEMMA PictureStep == ASSUME ScreenInv, NextPicture PROVE ScreenInv'
<1> USE DEF history
<1>1. /\ UNCHANGED <<main, cx, cy, cur, text, current, next, iter, history>>
      /\ phase = "shown" /\ phase' = "draw" /\ main = "image_show"
  BY DEF NextPicture
<1>2. Phases /\ Filled /\ cx = 0 /\ cy = 0
  BY <1>1 DEF ScreenInv, Phases
<1>3. screenbuffer' = screenbuffer /\ colorbuffer' = colorbuffer
  BY NoEdge DEF NextPicture
<1>4. Phases'
  BY <1>1, <1>2, <1>3 DEF Phases
<1>5. Filled' /\ Inked' /\ Printing' /\ StatusKept'
  BY <1>1, <1>2, <1>3 DEF Filled, Inked, Printing, StatusKept, Address
<1>6. Drawn'
  <2> SUFFICES ASSUME NEW r \in CharLine, NEW c \in CharColumn, Before(r, c)' PROVE FALSE
    BY <1>1 DEF Drawn
  <2>1. Before(r, c)
    BY <1>1 DEF Before
  <2> QED BY <1>2, <2>1, NothingBefore
<1> QED BY <1>4, <1>5, <1>6 DEF ScreenInv

(* A cell of the drawing, and what the program stores there. *)
LEMMA DrawStep == ASSUME ScreenInv, Draw PROVE ScreenInv'
<1> USE DEF history
<1>1. /\ UNCHANGED <<main, cur, text, current, next, iter, picture, history>>
      /\ phase = "draw" /\ phase' = IF LastCell THEN "shown" ELSE "draw"
      /\ main \in {"cgol", "cgol_color", "image_show"} /\ Edge(DrawAccess)
  BY ProgramAssumption DEF Draw, ScreenInv, Phases
<1>2. Phases /\ Filled /\ Inked /\ StatusKept /\ Drawn
  BY DEF ScreenInv
<1>3. /\ cx' \in CharColumn /\ cy' \in CharLine
      /\ LastCell => cx' = 0 /\ cy' = 0
      /\ \A r \in CharLine, c \in CharColumn :
           (LastCell \/ Before(r, c)') => Before(r, c) \/ (r = cy /\ c = cx)
  BY <1>2, CursorStep DEF Draw
<1>4. StatusLine' = StatusLine
  BY <1>1, StatusSame
<1>5. PICK p : p = Address(cy, cx)
  OBVIOUS
<1>6. p = place /\ p \in Cell /\ cx \in CharColumn /\ cy \in CharLine
  <2>1. cx \in CharColumn /\ cy \in CharLine
    BY <1>2 DEF Phases
  <2>2. p = place
    BY <1>5, <2>1, Sizes DEF place, Address, CharColumn, CharLine
  <2> QED BY <1>5, <2>1, <2>2, AddressUnique
<1>7. \A r \in CharLine, c \in CharColumn :
        /\ Address(r, c) \in Cell
        /\ ~ (r = cy /\ c = cx) => Address(r, c) # p
  BY <1>5, <1>6, AddressUnique
<1>8. PICK L \in Nat : L = Len(StatusLine)
  BY <1>2, StatusFits
(* The skipped cells are those of the status, and no other. *)
<1>9. main # "image_show" =>
        /\ InStatus => cy = ROWS - 1 /\ cx < L
        /\ ~ InStatus /\ behind \notin LineEnds => cy # ROWS - 1 \/ cx >= L
  <2> SUFFICES ASSUME main # "image_show"
               PROVE  /\ InStatus => cy = ROWS - 1 /\ cx < L
                      /\ ~ InStatus /\ behind \notin LineEnds => cy # ROWS - 1 \/ cx >= L
    OBVIOUS
  <2>1. cur.col = IF behind \in LineEnds THEN 0 ELSE L + 1
    BY <1>1, <1>2, <1>8 DEF StatusKept
  <2>2. cx \in Nat
    BY <1>6, Sizes DEF CharColumn
  <2> QED BY <2>1, <2>2 DEF InStatus
(* The store is the drawn cell, and leaves every other cell alone. *)
<1>10. /\ DOMAIN screenbuffer' = Cell /\ DOMAIN colorbuffer' = Cell
       /\ \A i \in Cell : i # p => screenbuffer'[i] = screenbuffer[i] /\ colorbuffer'[i] = colorbuffer[i]
       /\ main # "image_show" /\ InStatus => screenbuffer' = screenbuffer /\ colorbuffer' = colorbuffer
       /\ main = "cgol" => colorbuffer' = colorbuffer
       /\ main # "cgol" => screenbuffer' = screenbuffer
       /\ main = "image_show" \/ ~ InStatus => \A r, c : r = cy /\ c = cx => DrawnCell(r, c)'
  <2>1. CASE main # "image_show" /\ InStatus
    <3>1. Edge(NoStore)
      BY <1>1, <2>1 DEF DrawAccess
    <3> QED BY <1>2, <2>1, <3>1, NoEdge DEF Phases
  <2>2. CASE main = "cgol" /\ ~ InStatus
    <3>1. PICK h : h = HalfChar(get_cell(current, cx, 2 * cy), get_cell(current, cx, 2 * cy + 1))
      OBVIOUS
    <3>2. Edge(StoreChar(p, h))
      BY <1>1, <1>6, <2>2, <3>1 DEF DrawAccess
    <3>3. screenbuffer' = [screenbuffer EXCEPT ![p] = h] /\ colorbuffer' = colorbuffer
      BY <3>2, CharEdge
    <3>4. screenbuffer'[p] = h
      BY <1>2, <1>6, <3>3 DEF Phases
    <3>5. \A r, c : r = cy /\ c = cx => DrawnCell(r, c)'
      BY <1>1, <1>5, <2>2, <3>1, <3>4 DEF DrawnCell, Address, HalfChar, get_cell
    <3> QED BY <1>2, <2>2, <3>3, <3>5 DEF Phases
  <2>3. CASE main = "cgol_color" /\ ~ InStatus
    <3>1. PICK h : h = <<LifeColor(cx, 2 * cy), LifeColor(cx, 2 * cy + 1)>>
      OBVIOUS
    <3>2. Edge(StoreColor(p, h))
      BY <1>1, <1>6, <2>3, <3>1 DEF DrawAccess
    <3>3. colorbuffer' = [colorbuffer EXCEPT ![p] = h] /\ screenbuffer' = screenbuffer
      BY <3>2, ColorEdge
    <3>4. colorbuffer'[p] = h
      BY <1>2, <1>6, <3>3 DEF Phases
    <3>5. \A r, c : r = cy /\ c = cx => DrawnCell(r, c)'
      BY <1>1, <1>5, <2>3, <3>1, <3>4 DEF DrawnCell, Address, LifeColor, get_cell
    <3> QED BY <1>2, <2>3, <3>3, <3>5 DEF Phases
  <2>4. CASE main = "image_show"
    <3>1. PICK h : h = <<Pictures[picture][2 * cy * COLS + cx], Pictures[picture][(2 * cy + 1) * COLS + cx]>>
      OBVIOUS
    <3>2. Edge(StoreColor(p, h))
      BY <1>1, <1>6, <2>4, <3>1 DEF DrawAccess
    <3>3. colorbuffer' = [colorbuffer EXCEPT ![p] = h] /\ screenbuffer' = screenbuffer
      BY <3>2, ColorEdge
    <3>4. colorbuffer'[p] = h
      BY <1>2, <1>6, <3>3 DEF Phases
    <3>5. \A r, c : r = cy /\ c = cx => DrawnCell(r, c)'
      BY <1>1, <1>5, <2>4, <3>1, <3>4 DEF DrawnCell, Address
    <3> QED BY <1>2, <2>4, <3>3, <3>5 DEF Phases
  <2> QED BY <1>1, <2>1, <2>2, <2>3, <2>4
<1>11. Phases'
  BY <1>1, <1>2, <1>3, <1>4, <1>10 DEF Phases
<1>12. Filled' /\ Inked' /\ Printing'
  BY <1>1, <1>2, <1>10 DEF Filled, Inked, Printing, Address
<1>13. StatusKept'
  <2> SUFFICES ASSUME main # "image_show", behind \notin LineEnds, NEW k \in 0 .. L - 1 PROVE StatusCell(k)'
    BY <1>1, <1>2, <1>4, <1>8 DEF StatusKept
  <2>1. StatusCell(k) /\ k \in CharColumn /\ ROWS - 1 \in CharLine /\ Address(ROWS - 1, k) \in Cell
    BY <1>1, <1>2, <1>8, LastLine DEF StatusKept
  <2>2. InStatus \/ ~ (ROWS - 1 = cy /\ k = cx)
    BY <1>9
  <2>3. /\ screenbuffer'[Address(ROWS - 1, k)] = screenbuffer[Address(ROWS - 1, k)]
        /\ colorbuffer'[Address(ROWS - 1, k)] = colorbuffer[Address(ROWS - 1, k)]
    BY <1>7, <1>10, <2>1, <2>2
  <2> QED BY <1>1, <1>4, <2>1, <2>3 DEF StatusCell, Address
<1>14. Drawn'
  <2> SUFFICES ASSUME NEW r \in CharLine, NEW c \in CharColumn,
                      phase' = "draw" => Before(r, c)',
                      main # "image_show" => r # ROWS - 1 \/ c >= L
               PROVE  DrawnCell(r, c)'
    BY <1>1, <1>4, <1>8 DEF Drawn
  <2>1. Before(r, c) \/ (r = cy /\ c = cx)
    BY <1>1, <1>3
  <2>2. CASE r = cy /\ c = cx
    <3>1. main = "image_show" \/ ~ InStatus
      BY <1>9, <2>2, Sizes DEF CharColumn
    <3>2. \A i, k : i = cy /\ k = cx => DrawnCell(i, k)'
      BY <1>10, <3>1
    <3> QED BY <2>2, <3>2
  <2>3. CASE ~ (r = cy /\ c = cx)
    <3>1. DrawnCell(r, c)
      BY <1>1, <1>2, <1>8, <2>1, <2>3 DEF Drawn
    <3>2. Address(r, c) \in Cell /\ Address(r, c) # p
      BY <1>7, <2>3
    <3> QED BY <1>1, <1>10, <3>1, <3>2, DrawnSame
  <2> QED BY <2>2, <2>3
<1> QED BY <1>11, <1>12, <1>13, <1>14 DEF ScreenInv

(* Every step keeps what the screen shows. *)
LEMMA ScreenStep == ScreenInv /\ [Next]_vars => ScreenInv'
<1> SUFFICES ASSUME ScreenInv, [Next]_vars PROVE ScreenInv'
  OBVIOUS
<1>1. CASE NoAccess
  <2>1. screenbuffer' = screenbuffer /\ colorbuffer' = colorbuffer
    BY <1>1, NoEdge DEF NoAccess
  <2> QED BY <1>1, <2>1, ScreenSame DEF NoAccess
<1>2. CASE Fill
  BY <1>2, FillStep
<1>3. CASE BeginGeneration
  BY <1>3, BeginStep
<1>4. CASE Whiten
  BY <1>4, WhitenStep
<1>5. CASE PrintChar
  BY <1>5, PrintStep
<1>6. CASE Printed
  BY <1>6, PrintedStep
<1>7. CASE Draw
  BY <1>7, DrawStep
<1>8. CASE Compute
  BY <1>8, ComputeStep
<1>9. CASE NextPicture
  BY <1>9, PictureStep
<1>10. CASE UNCHANGED vars
  BY <1>10, ScreenSame DEF vars, gpu
<1> QED BY <1>1, <1>2, <1>3, <1>4, <1>5, <1>6, <1>7, <1>8, <1>9, <1>10 DEF Next, Program

(* At the start nothing is drawn yet. *)
LEMMA ScreenStarts == Init => ScreenInv
<1> SUFFICES ASSUME Init PROVE ScreenInv
  OBVIOUS
<1>1. /\ cx = 0 /\ cy = 0 /\ iter = 0 /\ widest = 0 /\ main \in Mains
      /\ phase = IF main = "cgol" THEN "begin" ELSE "fill"
      /\ main \in {"cgol", "cgol_color", "image_show"}
      /\ screenbuffer = [i \in Cell |-> Undefined] /\ colorbuffer = [i \in Cell |-> InitialColor]
  BY ProgramAssumption DEF Init, GpuInit
<1>2. 0 \in CharColumn /\ 0 \in CharLine /\ 0 \in 0 .. ClearAfter + 1
  BY Sizes, ProgramAssumption DEF CharColumn, CharLine
<1>3. Phases
  BY <1>1, <1>2 DEF Phases
<1>4. Filled
  BY <1>1, NothingBefore DEF Filled
<1>5. Inked /\ Printing /\ StatusKept /\ Drawn
  BY <1>1 DEF Inked, Printing, StatusKept, Drawn
<1> QED BY <1>3, <1>4, <1>5 DEF ScreenInv

(* Twice a number, divided. *)
LEMMA Halves ==
  ASSUME NEW n \in Nat, NEW m \in Nat \ {0}
  PROVE  (2 * n) \div m = 2 * (n \div m) + (IF 2 * (n % m) >= m THEN 1 ELSE 0)
<1>0. PICK q \in Nat, r \in 0 .. m - 1 : q = n \div m /\ r = n % m /\ n = q * m + r
  BY Divided
<1>1. q * m \in Nat
  OBVIOUS
<1>2. CASE 2 * r >= m
  <2>1. PICK p \in Nat, s \in 0 .. m - 1 : p = 2 * q + 1 /\ s = 2 * r - m
    <3>1. 2 * r - m \in 0 .. m - 1
      BY <1>2
    <3>2. 2 * q + 1 \in Nat
      OBVIOUS
    <3> QED BY <3>1, <3>2
  <2>2. p * m + s = 2 * n
    <3>1. p * m = 2 * (q * m) + m
      BY <2>1
    <3> QED BY <1>0, <1>1, <2>1, <3>1
  <2>3. (p * m + s) \div m = p
    BY Quotient
  <2> QED BY <1>0, <1>2, <2>1, <2>2, <2>3
<1>3. CASE ~ (2 * r >= m)
  <2>1. PICK p \in Nat, s \in 0 .. m - 1 : p = 2 * q /\ s = 2 * r
    BY <1>3
  <2>2. p * m + s = 2 * n
    <3>1. p * m = 2 * (q * m)
      BY <2>1
    <3> QED BY <1>0, <1>1, <2>1, <3>1
  <2>3. (p * m + s) \div m = p
    BY Quotient
  <2> QED BY <1>0, <1>3, <2>1, <2>2, <2>3
<1> QED BY <1>2, <1>3

(* The half of a cell a pixel lies in. *)
LEMMA HalfLine ==
  ASSUME NEW r \in Nat, NEW h \in {0, 1}
  PROVE  (2 * r + h) \div 2 = r
<1>1. PICK m \in Nat \ {0} : m = 2
  OBVIOUS
<1>2. h \in 0 .. m - 1
  BY <1>1
<1>3. (r * m + h) \div m = r
  BY <1>2, Quotient
<1> QED BY <1>1, <1>3

(* The drawn cells and the controller show the generation. *)
LEMMA ScreenShows == ScreenInv /\ GpuInv => ShowsGeneration
<1> SUFFICES ASSUME ScreenInv, GpuInv, stable, phase = "shown", ~ blanking
             PROVE  ShowsGeneration
  BY DEF ShowsGeneration
<1>1. PICK X \in 0 .. SCREEN_W - 1, Y \in 0 .. SCREEN_H - 1 : X = x /\ Y = y
  BY Sizes DEF GpuInv, Walking, blanking
<1>2. PICK c \in 0 .. COLS - 1, r \in 0 .. ROWS - 1 : c = X \div FONT_W /\ r = Y \div FONT_H
  BY Places
<1>3. PICK col \in 0 .. FONT_W - 1 : col = X % FONT_W
  <2>1. X \in Nat /\ FONT_W \in Nat \ {0}
    BY Sizes
  <2> QED BY <2>1, Division
<1>4. PICK row \in 0 .. FONT_H - 1, h \in {0, 1} :
        row = Y % FONT_H /\ h = (IF 2 * row >= FONT_H THEN 1 ELSE 0) /\ (2 * Y) \div FONT_H = 2 * r + h
  <2>1. PICK n \in Nat, m \in Nat \ {0} : n = Y /\ m = FONT_H
    BY Sizes
  <2>2. PICK q \in Nat, s \in 0 .. m - 1 : q = n \div m /\ s = n % m /\ n = q * m + s
    BY Divided
  <2>3. (2 * n) \div m = 2 * q + (IF 2 * s >= m THEN 1 ELSE 0)
    <3>1. (2 * n) \div m = 2 * (n \div m) + (IF 2 * (n % m) >= m THEN 1 ELSE 0)
      BY Halves
    <3> QED BY <2>2, <3>1
  <2> QED BY <1>2, <2>1, <2>2, <2>3
<1>5. r \in CharLine /\ c \in CharColumn /\ r \in Nat /\ c \in Nat
  BY Sizes DEF CharLine, CharColumn
<1>6. PICK i : i = Address(r, c)
  OBVIOUS
<1>7. pixel = colorbuffer[i][IF Glyph(screenbuffer[i], row, col) THEN 1 ELSE 2] /\ i \in Cell
  BY <1>1, <1>2, <1>3, <1>4, <1>5, <1>6, GpuShows, AddressUnique DEF FrameIsScreen, Address
<1>8. /\ ~ Glyph("none", row, col) /\ Glyph("both", row, col)
      /\ Glyph("top", row, col) <=> h = 0
      /\ Glyph("bottom", row, col) <=> h = 1
  <2>1. row \in Nat /\ FONT_H \in Nat
    BY Sizes
  <2> QED BY <1>4, <2>1, FontAssumption
<1>9. PICK L \in Nat, w \in Nat : L = Len(StatusLine) /\ w = widest
  BY StatusFits DEF ScreenInv, Phases
<1>10. /\ main \in {"cgol", "cgol_color", "image_show"} /\ L + 1 < COLS
       /\ main # "image_show" => L <= w
  BY <1>9, StatusFits, ProgramAssumption DEF ScreenInv, Phases
<1>11. (2 * r + h) \div 2 = r
  BY <1>5, HalfLine
<1>12. ASSUME main = "image_show" \/ r # ROWS - 1 \/ c >= (IF main = "cgol" THEN L ELSE w + 1)
       PROVE  pixel = Expected(c, 2 * r + h)
  <2>1. DrawnCell(r, c)
    <3>1. main # "image_show" => r # ROWS - 1 \/ c >= L
      BY <1>5, <1>10, <1>12
    <3> QED BY <1>5, <1>9, <3>1 DEF ScreenInv, Drawn
  <2>2. CASE main = "cgol"
    <3>1. colorbuffer[i] = InitialColor
      BY <1>7, <2>2 DEF ScreenInv, Inked
    <3>2. screenbuffer[i] = HalfChar(get_cell(current, c, 2 * r), get_cell(current, c, 2 * r + 1))
      BY <1>6, <2>1, <2>2 DEF DrawnCell
    <3>3. CASE h = 0
      <4>1. 2 * r + h = 2 * r
        BY <1>5, <3>3
      <4>2. Glyph(screenbuffer[i], row, col) <=> get_cell(current, c, 2 * r)
        BY <1>8, <3>2, <3>3 DEF HalfChar
      <4> QED BY <1>7, <2>2, <3>1, <4>1, <4>2 DEF Expected
    <3>4. CASE h = 1
      <4>1. Glyph(screenbuffer[i], row, col) <=> get_cell(current, c, 2 * r + 1)
        BY <1>8, <3>2, <3>4 DEF HalfChar
      <4> QED BY <1>7, <2>2, <3>1, <3>4, <4>1 DEF Expected
    <3> QED BY <3>3, <3>4
  <2>3. ASSUME main # "cgol" PROVE screenbuffer[i] = "top"
    <3>1. main = "cgol_color" => r # ROWS - 1 \/ c > w
      BY <1>5, <1>12, <2>3
    <3> QED BY <1>5, <1>6, <1>9, <2>3, <3>1 DEF ScreenInv, Filled
  <2>4. ASSUME main # "cgol" PROVE pixel = colorbuffer[i][h + 1]
    BY <1>7, <1>8, <2>3, <2>4
  <2>5. CASE main = "cgol_color"
    <3>1. colorbuffer[i] = <<LifeColor(c, 2 * r), LifeColor(c, 2 * r + 1)>>
      BY <1>6, <2>1, <2>5 DEF DrawnCell
    <3>2. pixel = LifeColor(c, 2 * r + h)
      <4>1. CASE h = 0
        <5>1. 2 * r + h = 2 * r
          BY <1>5, <4>1
        <5> QED BY <2>4, <2>5, <3>1, <4>1, <5>1
      <4>2. CASE h = 1
        BY <2>4, <2>5, <3>1, <4>2
      <4> QED BY <4>1, <4>2
    <3> QED BY <2>5, <3>2 DEF Expected
  <2>6. CASE main = "image_show"
    <3>1. colorbuffer[i] = <<Pictures[picture][2 * r * COLS + c], Pictures[picture][(2 * r + 1) * COLS + c]>>
      BY <1>6, <2>1, <2>6 DEF DrawnCell
    <3>2. CASE h = 0
      <4>1. 2 * r + h = 2 * r
        BY <1>5, <3>2
      <4> QED BY <2>4, <2>6, <3>1, <3>2, <4>1 DEF Expected
    <3>3. CASE h = 1
      BY <2>4, <2>6, <3>1, <3>3 DEF Expected
    <3> QED BY <3>2, <3>3
  <2> QED BY <1>10, <2>2, <2>5, <2>6
<1>13. ASSUME main # "image_show", r = ROWS - 1, c < L, behind \notin LineEnds
       PROVE  pixel = (IF main = "cgol" THEN InitialColor ELSE <<White, Black>>)
                        [IF Glyph(StatusLine[c + 1], row, col) THEN 1 ELSE 2]
  <2>1. StatusCell(c)
    BY <1>5, <1>9, <1>13 DEF ScreenInv, StatusKept
  <2>2. screenbuffer[i] = StatusLine[c + 1]
    BY <1>6, <1>13, <2>1 DEF StatusCell
  <2>3. colorbuffer[i] = IF main = "cgol" THEN InitialColor ELSE <<White, Black>>
    BY <1>6, <1>7, <1>10, <1>13, <2>1 DEF StatusCell, ScreenInv, Inked
  <2> QED BY <1>7, <2>2, <2>3
<1> QED
  <2>1. x \div FONT_W = c /\ (2 * y) \div FONT_H = 2 * r + h /\ x % FONT_W = col /\ y % FONT_H = row
    BY <1>1, <1>2, <1>3, <1>4
  <2> QED BY <1>9, <1>11, <1>12, <1>13, <2>1 DEF ShowsGeneration, LineEnds

(* The next frame after the drawing shows the generation or the picture, and  *)
(* in the last line the status (soc_io.c:59, cgol.c:72).                      *)
THEOREM ShowsGenerations == Spec => []ShowsGeneration
<1>1. Spec => []GpuInv
  BY GpuStarts, GpuStep, PTL DEF Spec
<1>2. Spec => []ScreenInv
  BY ScreenStarts, ScreenStep, PTL DEF Spec
<1> QED BY <1>1, <1>2, ScreenShows, PTL

==============================================================================

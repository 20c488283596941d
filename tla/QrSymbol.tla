------------------------------ MODULE QrSymbol ------------------------------
(***************************************************************************)
(* The drawing operations of qrcodegen.c on the grid of modules.  A grid   *)
(* is the set of its dark modules, <<x, y>> with the origin in the upper   *)
(* left corner; size is its width and height.                              *)
(***************************************************************************)
EXTENDS QrData, FiniteSets

SizeOf(version) == 4 * version + 17
Grid(size) == (0 .. size - 1) \X (0 .. size - 1)

fillRectangle(left, top, width, height) ==
  (left .. left + width - 1) \X (top .. top + height - 1)

-----------------------------------------------------------------------------
(* Function modules                                                        *)

getAlignmentPatternPositions(version) ==
  LET numAlign == version \div 7 + 2
      step == ((version * 8 + numAlign * 3 + 5) \div (numAlign * 4 - 4)) * 2
  IN  IF version = 1 THEN <<>>
      ELSE [i \in 1 .. numAlign |-> IF i = 1 THEN 6 ELSE version * 4 + 10 - (numAlign - i) * step]

\* The centres of the alignment patterns; the finder corners have none.
AlignmentCentres(version) ==
  LET pos == getAlignmentPatternPositions(version)
      n == Len(pos)
  IN  {<<pos[c[1]], pos[c[2]]>> : c \in ((1 .. n) \X (1 .. n)) \ {<<1, 1>>, <<1, n>>, <<n, 1>>}}

\* Every module within radius of a centre.
Around(centre, radius) ==
  fillRectangle(centre[1] - radius, centre[2] - radius, 2 * radius + 1, 2 * radius + 1)

initializeFunctionModules(version) ==
  LET size == SizeOf(version)
      marked == {fillRectangle(6, 0, 1, size), fillRectangle(0, 6, size, 1), fillRectangle(0, 0, 9, 9),
                 fillRectangle(size - 8, 0, 8, 9), fillRectangle(0, size - 8, 9, 8)}
                  \cup {Around(c, 2) : c \in AlignmentCentres(version)}
                  \cup IF version < 7 THEN {}
                       ELSE {fillRectangle(size - 11, 0, 3, 6), fillRectangle(0, size - 11, 6, 3)}
  IN  {m \in Grid(size) : \E area \in marked : m \in area}

\* value with n bits of its remainder by the polynomial appended.
WithRemainder(value, n, polynomial) ==
  2^n * value + Accumulate(LAMBDA rem, i : (2 * rem) ^^ ((rem \div 2^(n - 1)) * polynomial),
                           value, [i \in 1 .. n |-> i])

versionBits(version) == WithRemainder(version, 12, 7973)      \* 0x1F25

\* The distance of a module from a centre, in rings.
Ring(m, c) == LET dx == IF m[1] > c[1] THEN m[1] - c[1] ELSE c[1] - m[1]
                  dy == IF m[2] > c[2] THEN m[2] - c[2] ELSE c[2] - m[2]
              IN  IF dx > dy THEN dx ELSE dy

\* Timing patterns, finders, alignment patterns and version blocks; each
\* overwrites what the ones before it drew.
drawLightFunctionModules(dark, version) ==
  LET size == SizeOf(version)
      centres == AlignmentCentres(version)
      TimingLight(m) == \/ m[1] = 6 /\ m[2] \in 7 .. size - 8 /\ m[2] % 2 = 1
                        \/ m[2] = 6 /\ m[1] \in 7 .. size - 8 /\ m[1] % 2 = 1
      FinderLight(m) == \E c \in {<<3, 3>>, <<size - 4, 3>>, <<3, size - 4>>} : Ring(m, c) \in {2, 4}
      AlignmentLight(m) == \E c \in centres : Ring(m, c) = 1
      \* The bit of the version information a module shows, or -1.
      BlockBit(m) == IF m[1] \in size - 11 .. size - 9 /\ m[2] <= 5 THEN 3 * m[2] + m[1] - (size - 11)
                     ELSE IF m[2] \in size - 11 .. size - 9 /\ m[1] <= 5 THEN 3 * m[1] + m[2] - (size - 11)
                     ELSE -1
      bits == versionBits(version)
  IN  {m \in Grid(size) :
         IF version >= 7 /\ BlockBit(m) >= 0 THEN (bits \div 2^BlockBit(m)) % 2 = 1
         ELSE \/ m \in centres
              \/ m \in dark /\ ~TimingLight(m) /\ ~FinderLight(m) /\ ~AlignmentLight(m)}

\* Where bit i of the format information goes, in its two copies.
FormatCopy1 == [i \in 0 .. 14 |-> IF i <= 5 THEN <<8, i>>
                                  ELSE IF i <= 7 THEN <<8, i + 1>>
                                  ELSE IF i = 8 THEN <<7, 8>> ELSE <<14 - i, 8>>]
FormatCopy2(size) == [i \in 0 .. 14 |-> IF i < 8 THEN <<size - 1 - i, 8>> ELSE <<8, size - 15 + i>>]

FormatBits(ecl, mask) ==
  LET data == 8 * <<1, 0, 3, 2>>[ecl + 1] + mask
  IN  WithRemainder(data, 10, 1335) ^^ 21522                  \* 0x537, 0x5412

drawFormatBits(dark, size, ecl, mask) ==
  LET bits == FormatBits(ecl, mask)
      copy1 == FormatCopy1
      copy2 == FormatCopy2(size)
      cells == {copy1[i] : i \in 0 .. 14} \cup {copy2[i] : i \in 0 .. 14}
      ones == {i \in 0 .. 14 : (bits \div 2^i) % 2 = 1}
  IN  {m \in Grid(size) : \/ m = <<8, size - 8>>
                          \/ m \notin cells /\ m \in dark
                          \/ \E i \in ones : m \in {copy1[i], copy2[i]}}

-----------------------------------------------------------------------------
(* Codewords and masks                                                     *)

\* The modules in the order of the zigzag scan: pairs of columns from the
\* right, the timing column left out, upwards and downwards in turn.
ZigzagScan(size) ==
  [n \in 1 .. size * (size - 1) |->
     LET pair == (n - 1) \div (2 * size)
         right == IF size - 1 - 2 * pair > 6 THEN size - 1 - 2 * pair ELSE size - 2 - 2 * pair
         vert == ((n - 1) % (2 * size)) \div 2
         upward == ((right + 1) \div 2) % 2 = 0
     IN  <<right - ((n - 1) % 2), IF upward THEN size - 1 - vert ELSE vert>>]

\* The codeword bits go to the modules that are light before the scan.
drawCodewords(dark, size, words) ==
  LET free == SelectSeq(ZigzagScan(size), LAMBDA m : m \notin dark)
      bits == 8 * Len(words)
      drawn == {free[i] : i \in {b \in 1 .. (IF Len(free) < bits THEN Len(free) ELSE bits) :
                                   (words[(b + 7) \div 8] \div 2^(7 - ((b - 1) % 8))) % 2 = 1}}
  IN  {m \in Grid(size) : m \in dark \/ m \in drawn}

Inverted(mask, m) ==
  LET x == m[1]
      y == m[2]
  IN  CASE mask = 0 -> (x + y) % 2 = 0
        [] mask = 1 -> y % 2 = 0
        [] mask = 2 -> x % 3 = 0
        [] mask = 3 -> (x + y) % 3 = 0
        [] mask = 4 -> (x \div 3 + y \div 2) % 2 = 0
        [] mask = 5 -> ((x * y) % 2) + ((x * y) % 3) = 0
        [] mask = 6 -> (((x * y) % 2) + ((x * y) % 3)) % 2 = 0
        [] mask = 7 -> (((x + y) % 2) + ((x * y) % 3)) % 2 = 0

applyMask(functionModules, dark, size, mask) ==
  {m \in Grid(size) : (m \in dark) # (m \notin functionModules /\ Inverted(mask, m))}

-----------------------------------------------------------------------------
(* The penalty score                                                       *)

PENALTY_N1 == 3    PENALTY_N2 == 3    PENALTY_N3 == 40    PENALTY_N4 == 10

\* The lengths of the last seven runs, the latest first.
finderPenaltyAddHistory(run, history, size) ==
  <<IF history[1] = 0 THEN run + size ELSE run>> \o SubSeq(history, 1, 6)

finderPenaltyCountPatterns(history) ==
  LET n == history[2]
      core == n > 0 /\ history[3] = n /\ history[4] = 3 * n /\ history[5] = n /\ history[6] = n
  IN  (IF core /\ history[1] >= 4 * n /\ history[7] >= n THEN 1 ELSE 0)
        + (IF core /\ history[7] >= 4 * n /\ history[1] >= n THEN 1 ELSE 0)

finderPenaltyTerminateAndCount(dark, run, history, size) ==
  LET closed == IF dark THEN finderPenaltyAddHistory(run, history, size) ELSE history
  IN  finderPenaltyCountPatterns(
        finderPenaltyAddHistory((IF dark THEN 0 ELSE run) + size, closed, size))

\* The runs and finder-like patterns of one row or column.
LinePenalty(line) ==
  LET size == Len(line)
      Scan(s, dark) ==
        IF dark = s.dark
        THEN [s EXCEPT !.run = @ + 1,
                       !.score = @ + (IF s.run = 4 THEN PENALTY_N1 ELSE IF s.run > 4 THEN 1 ELSE 0)]
        ELSE LET history == finderPenaltyAddHistory(s.run, s.history, size)
                 patterns == IF s.dark THEN 0 ELSE finderPenaltyCountPatterns(history)
             IN  [dark |-> dark, run |-> 1, history |-> history, score |-> s.score + PENALTY_N3 * patterns]
      end == Accumulate(Scan, [dark |-> FALSE, run |-> 0, history |-> <<0, 0, 0, 0, 0, 0, 0>>, score |-> 0], line)
  IN  end.score + PENALTY_N3 * finderPenaltyTerminateAndCount(end.dark, end.run, end.history, size)

Row(dark, size, y) == [i \in 1 .. size |-> <<i - 1, y>> \in dark]
Column(dark, size, x) == [i \in 1 .. size |-> <<x, i - 1>> \in dark]

getPenaltyScore(dark, size) ==
  LET Sum(Score(_)) == Accumulate(LAMBDA total, i : total + Score(i - 1), 0, [i \in 1 .. size |-> i])
      blocks == Cardinality({m \in Grid(size - 1) :
                  \A c \in {<<m[1] + 1, m[2]>>, <<m[1], m[2] + 1>>, <<m[1] + 1, m[2] + 1>>} :
                    c \in dark <=> m \in dark})
      total == size * size
      excess == Cardinality(dark) * 20 - total * 10
      k == ((IF excess < 0 THEN -excess ELSE excess) + total - 1) \div total - 1
  IN  Sum(LAMBDA y : LinePenalty(Row(dark, size, y))) + Sum(LAMBDA x : LinePenalty(Column(dark, size, x)))
        + PENALTY_N2 * blocks + PENALTY_N4 * k

=============================================================================

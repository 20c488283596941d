------------------------------ MODULE QrReader ------------------------------
(***************************************************************************)
(* A reader of QR code symbols, written from the other end: it knows the   *)
(* symbol only by its modules and finds version, level, mask, codewords    *)
(* and segments in it, checking every check bit on the way.  What the      *)
(* encoder promises is stated with it.                                     *)
(***************************************************************************)
EXTENDS QrEncoder

-----------------------------------------------------------------------------
(* Where things are in a symbol of the size                                *)

VersionOf(size) == (size - 17) \div 4

AlignmentAxis(v) ==
  CASE v = 1        -> {}
    [] v \in 2 .. 6  -> {6, 4 * v + 10}
    [] v \in 7 .. 13 -> {6, 2 * v + 8, 4 * v + 10}
    [] v = 14       -> {6, 26, 46, 66}
    [] v = 32       -> {6, 34, 60, 86, 112, 138}
    [] v = 40       -> {6, 30, 58, 86, 114, 142, 170}

Apart(a, b) == IF a > b THEN a - b ELSE b - a
Finders(size) == {<<3, 3>>, <<size - 4, 3>>, <<3, size - 4>>}
Alignments(size) == LET axis == AlignmentAxis(VersionOf(size))
                    IN  (axis \X axis) \ {<<6, 6>>, <<6, size - 7>>, <<size - 7, 6>>}
\* What the patterns and the format and version information take up.
Finder(size, m) == \E c \in Finders(size) : Ring(m, c) <= 4
Alignment(size, m) == \E c \in Alignments(size) : Ring(m, c) <= 2
Timing(m) == m[1] = 6 \/ m[2] = 6
Format(size, m) == \/ m[1] = 8 /\ (m[2] <= 8 \/ m[2] >= size - 8)
                   \/ m[2] = 8 /\ (m[1] <= 8 \/ m[1] >= size - 8)
Version(size, m) == /\ VersionOf(size) >= 7
                    /\ \/ m[1] \in size - 11 .. size - 9 /\ m[2] <= 5
                       \/ m[2] \in size - 11 .. size - 9 /\ m[1] <= 5
Reserved(size) == {m \in Grid(size) : \/ Finder(size, m) \/ Alignment(size, m) \/ Timing(m)
                                     \/ Format(size, m) \/ Version(size, m)}

\* The patterns that do not depend on the content.
PatternsRight(dark, size) ==
  \A m \in Grid(size) :
    /\ Finder(size, m) => (m \in dark <=> \E c \in Finders(size) : Ring(m, c) \in {0, 1, 3})
    /\ Alignment(size, m) => (m \in dark <=> \E c \in Alignments(size) : Ring(m, c) \in {0, 2})
    /\ Timing(m) /\ ~Finder(size, m) /\ ~Alignment(size, m) => (m \in dark <=> (m[1] + m[2]) % 2 = 0)
    /\ m = <<8, size - 8>> => m \in dark

-----------------------------------------------------------------------------
(* Reading                                                                 *)

\* The remainder of a polynomial over GF(2), both given as numbers.
RECURSIVE PolyMod(_, _, _)
PolyMod(value, polynomial, degree) ==
  IF value < 2^degree THEN value
  ELSE LET top == CHOOSE n \in degree .. 31 : 2^n <= value /\ value < 2^(n + 1)
       IN  PolyMod(value ^^ (polynomial * 2^(top - degree)), polynomial, degree)

BitsAt(dark, cells) == [k \in DOMAIN cells |-> IF cells[k] \in dark THEN 1 ELSE 0]

\* Both copies of the format information, the most significant bit first.
FormatFields(size) ==
  <<  <<<<0, 8>>, <<1, 8>>, <<2, 8>>, <<3, 8>>, <<4, 8>>, <<5, 8>>, <<7, 8>>, <<8, 8>>, <<8, 7>>>>
        \o [k \in 1 .. 6 |-> <<8, 6 - k>>],
      [k \in 1 .. 7 |-> <<8, size - k>>] \o [k \in 1 .. 8 |-> <<size - 9 + k, 8>>] >>

ReadFormat(dark, size) ==
  {PolyMod(ValueOf(BitsAt(dark, FormatFields(size)[c])) ^^ 21522, 1335, 10) : c \in 1 .. 2}
FormatValues(dark, size) ==
  {(ValueOf(BitsAt(dark, FormatFields(size)[c])) ^^ 21522) \div 2^10 : c \in 1 .. 2}

VersionValues(dark, size) ==
  {ValueOf(BitsAt(dark, f)) : f \in
     {[k \in 1 .. 18 |-> <<size - 11 + ((18 - k) % 3), (18 - k) \div 3>>],
      [k \in 1 .. 18 |-> <<(18 - k) \div 3, size - 11 + ((18 - k) % 3)>>]}}

\* The place of a module in the reading order.
Rank(size, m) ==
  LET column == IF m[1] > 6 THEN size - 1 - m[1] ELSE size - 2 - m[1]
      pair == column \div 2
  IN  2 * (pair * size + (IF pair % 2 = 0 THEN size - 1 - m[2] ELSE m[2])) + (column % 2)

\* The codewords under the mask, in reading order.
ReadCodewords(dark, size, msk) ==
  LET data == Grid(size) \ Reserved(size)
      ranks == {Rank(size, m) : m \in data}
      ones == {Rank(size, m) : m \in {d \in data : (d \in dark) # Inverted(msk, d)}}
      order == SelectSeq([r \in 1 .. 2 * size * size |-> r - 1], LAMBDA r : r \in ranks)
  IN  Tuple([w \in 1 .. Len(order) \div 8 |->
               ValueOf([b \in 1 .. 8 |-> IF order[8 * (w - 1) + b] \in ones THEN 1 ELSE 0])],
            Len(order) \div 8)

\* The blocks of a symbol, each with its error correction codewords.
Blocks(words, blocks, eccLen) ==
  LET data == Len(words) - blocks * eccLen
      short == data \div blocks
      LengthOf(b) == IF b < blocks - (data % blocks) THEN short ELSE short + 1
      order == SelectSeq([n \in 1 .. blocks * (short + 1) |-> <<(n - 1) % blocks, (n - 1) \div blocks>>],
                         LAMBDA p : p[2] < LengthOf(p[1]))
      placed == [n \in 1 .. data |-> <<order[n][1], words[n]>>]
      Of == [b \in 0 .. blocks - 1 |-> SelectSeq(placed, LAMBDA p : p[1] = b)]
  IN  Tuple([b \in 1 .. blocks |->
               LET own == Of[b - 1]
               IN  [k \in DOMAIN own |-> own[k][2]] \o [k \in 1 .. eccLen |-> words[data + (k - 1) * blocks + b]]],
            blocks)

\* x times the n-th power of the generator element 2 of the field.
Twice(x) == IF x < 128 THEN 2 * x ELSE (2 * x) ^^ 285
TimesPower(x, n) == Accumulate(LAMBDA y, k : Twice(y), x, [k \in 1 .. n |-> k])

\* A block is a codeword when it is zero at the roots of the generator.
Syndrome(block, n) == Accumulate(LAMBDA s, w : TimesPower(s, n) ^^ w, 0, block)
IsCodeword(block, eccLen) == \A n \in 0 .. eccLen - 1 : Syndrome(block, n) = 0

\* How many bits numChars characters of a mode take.
DataBits(mode, numChars, rest) ==
  CASE mode = NUMERIC -> 10 * (numChars \div 3) + <<0, 4, 7>>[(numChars % 3) + 1]
    [] mode = ALPHANUMERIC -> 11 * (numChars \div 2) + 6 * (numChars % 2)
    [] mode = BYTES -> 8 * numChars
    [] mode = ECI -> IF rest[1] = 0 THEN 8 ELSE IF rest[2] = 0 THEN 16 ELSE 24

\* The segments of a bit string; what follows the last one is under "padding".
RECURSIVE Parse(_, _)
Parse(bits, v) ==
  IF Len(bits) < 4 \/ SubSeq(bits, 1, 4) = <<0, 0, 0, 0>>
  THEN [segs |-> <<>>, padding |-> bits]
  ELSE LET mode == ValueOf(SubSeq(bits, 1, 4))
           width == numCharCountBits(mode, v)
           numChars == ValueOf(SubSeq(bits, 5, 4 + width))
           body == SubSeq(bits, 5 + width, Len(bits))
           length == DataBits(mode, numChars, body)
           rest == Parse(SubSeq(body, length + 1, Len(body)), v)
       IN  [rest EXCEPT !.segs = <<Segment(mode, numChars, SubSeq(body, 1, length))>> \o @]

\* The characters of a segment.
TextOf(seg) ==
  LET Chunk(k, n) == SubSeq(seg.data, n * (k - 1) + 1, IF n * k > Len(seg.data) THEN Len(seg.data) ELSE n * k)
      last == seg.numChars
  IN  [k \in 1 .. seg.numChars |->
         CASE seg.mode = BYTES -> ValueOf(Chunk(k, 8))
           [] seg.mode = NUMERIC ->
                LET group == (k + 2) \div 3
                    after == (IF 3 * group > last THEN last ELSE 3 * group) - k
                IN  48 + ((ValueOf(Chunk(group, 10)) \div 10^after) % 10)
           [] seg.mode = ALPHANUMERIC ->
                LET group == (k + 1) \div 2
                    after == (IF 2 * group > last THEN last ELSE 2 * group) - k
                IN  ALPHANUMERIC_CHARSET[((ValueOf(Chunk(group, 11)) \div 45^after) % 45) + 1]]

-----------------------------------------------------------------------------
(* What the encoder promises                                               *)

Finished == pc \in {"print", "done"}

\* The finished symbol is what a reader needs to get the data back: every
\* pattern in place, both copies of the format and version information
\* intact, every block a codeword of the Reed-Solomon code, and after the
\* terminator nothing but the pad bytes; and what it reads is what the
\* caller passed to qrcodegen_encodeText, _encodeBinary or _encodeSegments.
SymbolDecodes ==
  Finished =>
    LET dark == qrcode.dark
        size == qrcode.size
        v == VersionOf(size)
        format == CHOOSE f \in FormatValues(dark, size) : TRUE
        level == <<1, 0, 3, 2>>[(format \div 8) + 1]
        eccLen == ECC_CODEWORDS_PER_BLOCK[level][v]
        blocks == Blocks(ReadCodewords(dark, size, format % 8), NUM_ERROR_CORRECTION_BLOCKS[level][v], eccLen)
        string == FlattenSeq([b \in DOMAIN blocks |->
                    FlattenSeq([k \in 1 .. Len(blocks[b]) - eccLen |-> Bits(blocks[b][k], 8)])])
        read == Parse(string, v)
        padded == (Len(string) - Len(read.padding) + 4 + 7) \div 8
    IN  /\ PatternsRight(dark, size)
        /\ ReadFormat(dark, size) = {0} /\ FormatValues(dark, size) = {format}
        /\ v >= 7 => /\ {PolyMod(n, 7973, 12) : n \in VersionValues(dark, size)} = {0}
                     /\ {n \div 2^12 : n \in VersionValues(dark, size)} = {v}
        /\ \A b \in DOMAIN blocks : IsCodeword(blocks[b], eccLen)
        /\ \A k \in DOMAIN read.padding :
             LET at == Len(string) - Len(read.padding) + k
                 byte == (at + 7) \div 8 - padded
             IN  read.padding[k] = IF byte <= 0 THEN 0
                                   ELSE Bits(IF byte % 2 = 1 THEN 236 ELSE 17, 8)[((at - 1) % 8) + 1]
        /\ IF job.api = "segments" THEN read.segs = job.data
           ELSE FlattenSeq([k \in DOMAIN read.segs |-> TextOf(read.segs[k])]) = job.data

\* Whether a version holds what the caller passed.
Holds(v, level) ==
  LET data == CASE job.api = "segments" -> job.data
                [] job.api = "binary"   -> <<makeBytes(job.data)>>
                [] job.api = "text"     -> IF job.data = <<>> THEN <<>> ELSE <<TextSegment(job.data)>>
  IN  getTotalBits(data, v) \in 0 .. 8 * getNumDataCodewords(v, level)

\* The version is the smallest of the asked range that holds the data, the
\* error correction is never below the asked level and, with boostEcl, the
\* highest the version allows; a call fails only when no version holds the
\* data or the text exceeds the buffer ("the smallest possible QR Code
\* version within the given range is automatically chosen", qrcodegen.h).
BestVersionAndLevel ==
  /\ Finished =>
       /\ Holds(version, ecl) /\ ecl >= job.ecl
       /\ \A v \in job.minVersion .. version - 1 : ~Holds(v, job.ecl)
       /\ IF job.boostEcl THEN \A level \in ecl + 1 .. HIGH : ~Holds(version, level) ELSE ecl = job.ecl
  /\ pc = "failed" => \A v \in job.minVersion .. job.maxVersion : ~Holds(v, job.ecl)

\* The penalty of the standard, from the picture: runs of five and more,
\* two-by-two blocks, patterns like a finder with room on one side, and the
\* balance of dark and light.
ReferencePenalty(dark, size) ==
  LET Lines == {<<d, n>> : d \in {"row", "column"}, n \in 0 .. size - 1}
      Dark(l, k) == (IF l[1] = "row" THEN <<k, l[2]>> ELSE <<l[2], k>>) \in dark
      \* Runs of one colour that cannot be extended.
      Runs(l) == {r \in (0 .. size - 1) \X (5 .. size) :
                    /\ r[1] + r[2] <= size
                    /\ \A k \in r[1] .. r[1] + r[2] - 1 : Dark(l, k) = Dark(l, r[1])
                    /\ r[1] > 0 => Dark(l, r[1] - 1) # Dark(l, r[1])
                    /\ r[1] + r[2] < size => Dark(l, r[1] + r[2]) # Dark(l, r[1])}
      Light(l, from, to) == \A k \in from .. to : ~Dark(l, k)
      Cores(l) == {c \in (0 .. size - 7) \X (1 .. size \div 7) :
                     LET n == c[2] IN
                     \A k \in -n .. 8 * n - 1 :
                        Dark(l, c[1] + k) <=> k \in 0 .. 7 * n - 1 /\ k \div n \in {0, 2, 3, 4, 6}}
      Patterns(l) == Cardinality({c \in Cores(l) : Light(l, c[1] - 4 * c[2], c[1] - 1)})
                       + Cardinality({c \in Cores(l) : Light(l, c[1] + 7 * c[2], c[1] + 11 * c[2] - 1)})
      LineSum(Score(_)) == MapThenSumSet(Score, Lines)
      twos == {m \in Grid(size - 1) : \E colour \in BOOLEAN :
                 \A dx, dy \in 0 .. 1 : (<<m[1] + dx, m[2] + dy>> \in dark) = colour}
      \* Steps of five per cent away from half dark.
      k == CHOOSE n \in 0 .. 9 : /\ Apart(20 * Cardinality(dark), 10 * size * size) <= (n + 1) * size * size
                                 /\ Apart(20 * Cardinality(dark), 10 * size * size) > n * size * size
  IN  LineSum(LAMBDA l : MapThenSumSet(LAMBDA r : r[2] - 2, Runs(l)))
        + 40 * LineSum(Patterns) + 3 * Cardinality(twos) + 10 * k

\* The mask of an automatic choice has the least penalty of the eight, the
\* first of equals.
BestMask ==
  pc = "print" /\ job.mask = Mask_AUTO =>
    LET size == qrcode.size
        data == {d \in Grid(size) : d \notin tempBuffer.dark}
        flipped == [m \in 0 .. 7 |-> {d \in data : Inverted(m, d) # Inverted(mask, d)}]
        Under(m) == WithFormat({d \in Grid(size) : (d \in qrcode.dark) # (d \in flipped[m])}, m)
        penalties == Tuple([m \in 1 .. 8 |-> ReferencePenalty(Under(m - 1), size)], 8)
    IN  \A m \in 0 .. 7 : /\ penalties[m + 1] >= penalties[mask + 1]
                          /\ m < mask => penalties[m + 1] > penalties[mask + 1]

\* printQr puts every module of the symbol on the screen: two to a cell, no
\* cell twice, inside the screen as long as the symbol fits it.
ScreenShowsSymbol ==
  pc = "done" /\ qrcode.size <= 57 =>
    /\ DOMAIN screen \subseteq 0 .. SCREENBUFFER_COLS * 30 - 1
    /\ \A m \in Grid(qrcode.size) :
         LET cell == screen[CellOf(m[1], m[2] \div 2)]
         IN  m \in qrcode.dark <=> (IF m[2] % 2 = 0 THEN cell % 2 = 1 ELSE cell \div 2 = 1)

=============================================================================

------------------------------- MODULE QrData -------------------------------
(***************************************************************************)
(* The arithmetic of qrcodegen.c: how a text becomes segments, how many    *)
(* bits they take in each version, how many a symbol holds, and the        *)
(* Reed-Solomon code over GF(2^8 / 0x11D).  Bit strings are sequences of   *)
(* 0 and 1, characters and codewords are numbers of 0 .. 255.              *)
(***************************************************************************)
EXTENDS Integers, Sequences, SequencesExt, Bitwise, SequenceFolds

Byte == 0 .. 255
INT16_MAX == 32767
LENGTH_OVERFLOW == -1

\* enum qrcodegen_Mode and enum qrcodegen_Ecc
NUMERIC == 1        ALPHANUMERIC == 2   BYTES == 4   KANJI == 8   ECI == 7
LOW == 0   MEDIUM == 1   QUARTILE == 2   HIGH == 3
VERSION_MIN == 1    VERSION_MAX == 40

Bits(val, numBits) == [i \in 1 .. numBits |-> (val \div 2^(numBits - i)) % 2]

ValueOf(bits) == Accumulate(LAMBDA n, b : 2 * n + b, 0, bits)

\* The largest buffer a symbol of the version needs, in bytes.
BUFFER_LEN_FOR_VERSION(n) == ((n * 4 + 17) * (n * 4 + 17) + 7) \div 8 + 1

-----------------------------------------------------------------------------
(* Segments                                                                *)

\* "0123456789ABCDEFGHIJKLMNOPQRSTUVWXYZ $%*+-./:" in ASCII
ALPHANUMERIC_CHARSET ==
  [i \in 1 .. 10 |-> 47 + i] \o [i \in 1 .. 26 |-> 64 + i]
    \o <<32, 36, 37, 42, 43, 45, 46, 47, 58>>

CharsetIndex(c) == CHOOSE i \in 0 .. 44 : ALPHANUMERIC_CHARSET[i + 1] = c

isNumeric(text) == \A i \in DOMAIN text : text[i] \in 48 .. 57
isAlphanumeric(text) == \A i \in DOMAIN text : Contains(ALPHANUMERIC_CHARSET, text[i])

calcSegmentBitLength(mode, numChars) ==
  LET result == CASE mode = NUMERIC      -> (numChars * 10 + 2) \div 3
                  [] mode = ALPHANUMERIC -> (numChars * 11 + 1) \div 2
                  [] mode = BYTES        -> numChars * 8
                  [] mode = KANJI        -> numChars * 13
                  [] mode = ECI          -> 24
  IN  IF numChars > INT16_MAX \/ result > INT16_MAX THEN LENGTH_OVERFLOW ELSE result

\* The bytes a segment's data takes; infinitely many when it is too long.
FitsBuffer(mode, numChars, bufLen) ==
  LET bitLength == calcSegmentBitLength(mode, numChars)
  IN  bitLength # LENGTH_OVERFLOW /\ (bitLength + 7) \div 8 <= bufLen

Segment(mode, numChars, data) == [mode |-> mode, numChars |-> numChars, data |-> data]

\* Groups of n characters, each group written as one number.
Groups(text, n) == [i \in 1 .. (Len(text) + n - 1) \div n |->
                      SubSeq(text, n * (i - 1) + 1, IF n * i > Len(text) THEN Len(text) ELSE n * i)]
Number(digits, base, Digit(_)) == Accumulate(LAMBDA n, c : base * n + Digit(c), 0, digits)

makeBytes(bytes) == Segment(BYTES, Len(bytes), FlattenSeq([i \in DOMAIN bytes |-> Bits(bytes[i], 8)]))

makeNumeric(text) ==
  Segment(NUMERIC, Len(text),
          FlattenSeq([i \in DOMAIN Groups(text, 3) |->
             LET group == Groups(text, 3)[i]
             IN  Bits(Number(group, 10, LAMBDA c : c - 48), 3 * Len(group) + 1)]))

makeAlphanumeric(text) ==
  Segment(ALPHANUMERIC, Len(text),
          FlattenSeq([i \in DOMAIN Groups(text, 2) |->
             LET group == Groups(text, 2)[i]
             IN  Bits(Number(group, 45, CharsetIndex), 5 * Len(group) + 1)]))

makeEci(assignVal) ==
  Segment(ECI, 0, CASE assignVal < 2^7     -> Bits(assignVal, 8)
                    [] assignVal \in 2^7 .. 2^14 - 1 -> Bits(2, 2) \o Bits(assignVal, 14)
                    [] assignVal \in 2^14 .. 999999  ->
                         Bits(6, 3) \o Bits(assignVal \div 2^10, 11) \o Bits(assignVal % 2^10, 10))

numCharCountBits(mode, version) ==
  LET i == (version + 7) \div 17 + 1
  IN  CASE mode = NUMERIC      -> <<10, 12, 14>>[i]
        [] mode = ALPHANUMERIC -> <<9, 11, 13>>[i]
        [] mode = BYTES        -> <<8, 16, 16>>[i]
        [] mode = KANJI        -> <<8, 10, 12>>[i]
        [] mode = ECI          -> 0

\* What the segments take in a symbol of the version, or LENGTH_OVERFLOW.
getTotalBits(segs, version) ==
  LET Add(total, seg) ==
        LET ccbits == numCharCountBits(seg.mode, version)
            result == total + 4 + ccbits + Len(seg.data)
        IN  IF total = LENGTH_OVERFLOW \/ seg.numChars >= 2^ccbits \/ result > INT16_MAX
            THEN LENGTH_OVERFLOW ELSE result
  IN  Accumulate(Add, 0, segs)

-----------------------------------------------------------------------------
(* What a symbol holds                                                     *)

ECC_CODEWORDS_PER_BLOCK == [ecl \in LOW .. HIGH |->
  CASE ecl = LOW -> <<7, 10, 15, 20, 26, 18, 20, 24, 30, 18, 20, 24, 26, 30, 22, 24, 28, 30, 28, 28,
                      28, 28, 30, 30, 26, 28, 30, 30, 30, 30, 30, 30, 30, 30, 30, 30, 30, 30, 30, 30>>
    [] ecl = MEDIUM -> <<10, 16, 26, 18, 24, 16, 18, 22, 22, 26, 30, 22, 22, 24, 24, 28, 28, 26, 26, 26,
                      26, 28, 28, 28, 28, 28, 28, 28, 28, 28, 28, 28, 28, 28, 28, 28, 28, 28, 28, 28>>
    [] ecl = QUARTILE -> <<13, 22, 18, 26, 18, 24, 18, 22, 20, 24, 28, 26, 24, 20, 30, 24, 28, 28, 26, 30,
                      28, 30, 30, 30, 30, 28, 30, 30, 30, 30, 30, 30, 30, 30, 30, 30, 30, 30, 30, 30>>
    [] ecl = HIGH -> <<17, 28, 22, 16, 22, 28, 26, 26, 24, 28, 24, 28, 22, 24, 24, 30, 28, 28, 26, 28,
                      30, 24, 30, 30, 30, 30, 30, 30, 30, 30, 30, 30, 30, 30, 30, 30, 30, 30, 30, 30>>]

NUM_ERROR_CORRECTION_BLOCKS == [ecl \in LOW .. HIGH |->
  CASE ecl = LOW -> <<1, 1, 1, 1, 1, 2, 2, 2, 2, 4, 4, 4, 4, 4, 6, 6, 6, 6, 7, 8,
                      8, 9, 9, 10, 12, 12, 12, 13, 14, 15, 16, 17, 18, 19, 19, 20, 21, 22, 24, 25>>
    [] ecl = MEDIUM -> <<1, 1, 1, 2, 2, 4, 4, 4, 5, 5, 5, 8, 9, 9, 10, 10, 11, 13, 14, 16,
                      17, 17, 18, 20, 21, 23, 25, 26, 28, 29, 31, 33, 35, 37, 38, 40, 43, 45, 47, 49>>
    [] ecl = QUARTILE -> <<1, 1, 2, 2, 4, 4, 6, 6, 8, 8, 8, 10, 12, 16, 12, 17, 16, 18, 21, 20,
                      23, 23, 25, 27, 29, 34, 34, 35, 38, 40, 43, 45, 48, 51, 53, 56, 59, 62, 65, 68>>
    [] ecl = HIGH -> <<1, 1, 2, 4, 4, 4, 5, 6, 8, 8, 11, 11, 16, 16, 18, 16, 19, 21, 25, 25,
                      25, 34, 30, 32, 35, 37, 40, 42, 45, 48, 51, 54, 57, 60, 63, 66, 70, 74, 77, 81>>]

getNumRawDataModules(ver) ==
  LET numAlign == ver \div 7 + 2
  IN  (16 * ver + 128) * ver + 64
        - (IF ver >= 2 THEN (25 * numAlign - 10) * numAlign - 55 ELSE 0)
        - (IF ver >= 7 THEN 36 ELSE 0)

getNumDataCodewords(version, ecl) ==
  getNumRawDataModules(version) \div 8
    - ECC_CODEWORDS_PER_BLOCK[ecl][version] * NUM_ERROR_CORRECTION_BLOCKS[ecl][version]

\* The data codewords: the segments, a terminator, zeros to the byte and the
\* pad bytes in turn.  (The code appends them bit by bit.)
DataCodewords(segs, version, ecl) ==
  LET capacity == 8 * getNumDataCodewords(version, ecl)
      string == FlattenSeq([i \in DOMAIN segs |->
                  Bits(segs[i].mode, 4) \o Bits(segs[i].numChars, numCharCountBits(segs[i].mode, version))
                    \o segs[i].data])
      terminator == IF capacity - Len(string) > 4 THEN 4 ELSE capacity - Len(string)
      length == Len(string) + terminator
      used == (length + 7) \div 8
      Bit(i) == IF i <= Len(string) THEN string[i] ELSE 0
  IN  [c \in 1 .. getNumDataCodewords(version, ecl) |->
         IF c <= used
         THEN ValueOf([b \in 1 .. 8 |-> Bit(8 * (c - 1) + b)])
         ELSE IF (c - used) % 2 = 1 THEN 236 ELSE 17]

-----------------------------------------------------------------------------
(* The Reed-Solomon code                                                   *)

\* Russian peasant multiplication in GF(2^8 / 0x11D)
reedSolomonMultiply(x, y) ==
  Accumulate(LAMBDA z, i : LET doubled == (2 * z) ^^ ((z \div 128) * 285)
                           IN  IF (y \div 2^i) % 2 = 1 THEN doubled ^^ x ELSE doubled,
             0, <<7, 6, 5, 4, 3, 2, 1, 0>>)

\* The generator polynomial (x - 1)(x - 2)...(x - 2^(degree-1)), the leading
\* coefficient left out.
reedSolomonComputeDivisor(degree) ==
  LET TimesRoot(poly, root) ==
        Tuple([j \in 1 .. degree |-> IF j < degree THEN reedSolomonMultiply(poly[j], root) ^^ poly[j + 1]
                                     ELSE reedSolomonMultiply(poly[j], root)], degree)
      first == Tuple([j \in 1 .. degree |-> IF j = degree THEN 1 ELSE 0], degree)
      product == Accumulate(LAMBDA p, i : [poly |-> TimesRoot(p.poly, p.root), root |-> reedSolomonMultiply(p.root, 2)],
                            [poly |-> first, root |-> 1], [i \in 1 .. degree |-> i])
  IN  product.poly

\* The remainder of data by generator: the error correction codewords.
reedSolomonComputeRemainder(data, generator) ==
  LET degree == Len(generator)
      Divide(result, byte) ==
        LET factor == byte ^^ result[1]
        IN  Tuple([j \in 1 .. degree |-> (IF j < degree THEN result[j + 1] ELSE 0)
                                           ^^ reedSolomonMultiply(generator[j], factor)], degree)
  IN  Accumulate(Divide, Tuple([j \in 1 .. degree |-> 0], degree), data)

=============================================================================

----------------------------- MODULE QrEncoder -----------------------------
(***************************************************************************)
(* One call of the QR code encoder by programs/qr_code, from the text to   *)
(* the cells of the text screen.  The two byte buffers the caller owns     *)
(* hold one thing after the other, and each step reads what an earlier one *)
(* left: qrcode the data codewords and then the modules, tempBuffer the    *)
(* segment's data, the codewords with error correction and then the map of *)
(* the function modules.  A buffer is a record with the fields that are    *)
(* meaningful at the time.                                                 *)
(***************************************************************************)
EXTENDS QrSymbol, TLC

CONSTANT Jobs   \* calls: [api, data, ecl, minVersion, maxVersion, mask, boostEcl]

Mask_AUTO == -1
SCREENBUFFER_COLS == 80

VARIABLES
  pc,           \* the step the encoder is at
  job,          \* the arguments of the call
  segs,         \* mode, numChars and data of each segment
  version, ecl, mask,
  i,            \* the loop over blocks, then over masks
  minPenalty,   \* the least penalty so far; -1 before the first mask
  qrcode, tempBuffer,
  screen        \* the cells printQr has written

vars == <<pc, job, segs, version, ecl, mask, i, minPenalty, qrcode, tempBuffer, screen>>

Invalid == [size |-> 0]                       \* qrcode[0] = 0
Symbol(size, dark) == [size |-> size, dark |-> dark]
\* What addEccAndInterleave has not written yet.
Unwritten == -1

Init ==
  /\ pc = "call" /\ job \in Jobs
  /\ segs = <<>> /\ version = 0 /\ ecl = job.ecl /\ mask = job.mask
  /\ i = 0 /\ minPenalty = -1
  /\ qrcode = Invalid /\ tempBuffer = [text |-> job.data] /\ screen = <<>>

Fail == pc' = "failed" /\ qrcode' = Invalid

\* The densest mode the whole text allows.
TextMode(text) == IF isNumeric(text) THEN NUMERIC ELSE IF isAlphanumeric(text) THEN ALPHANUMERIC ELSE BYTES
TextSegment(text) == CASE TextMode(text) = NUMERIC      -> makeNumeric(text)
                       [] TextMode(text) = ALPHANUMERIC -> makeAlphanumeric(text)
                       [] TextMode(text) = BYTES        -> makeBytes(text)

\* qrcodegen_encodeText: the segment's data are built in tempBuffer.
EncodeText ==
  LET text == job.data
      fits == FitsBuffer(TextMode(text), Len(text), BUFFER_LEN_FOR_VERSION(job.maxVersion))
      seg == TextSegment(text)
  IN  /\ pc = "call" /\ job.api = "text"
      /\ \/ /\ text = <<>>
            /\ pc' = "version"
            /\ UNCHANGED <<segs, qrcode, tempBuffer>>
         \/ /\ text # <<>> /\ ~fits
            /\ Fail
            /\ UNCHANGED <<segs, tempBuffer>>
         \/ /\ text # <<>> /\ fits
            /\ segs' = <<seg>> /\ tempBuffer' = [data |-> seg.data]
            /\ pc' = "version"
            /\ UNCHANGED qrcode
      /\ version' = job.minVersion
      /\ UNCHANGED <<job, ecl, mask, i, minPenalty, screen>>

\* qrcodegen_encodeBinary: the bytes are the segment's data where they are.
EncodeBinary ==
  /\ pc = "call" /\ job.api = "binary"
  /\ IF calcSegmentBitLength(BYTES, Len(job.data)) = LENGTH_OVERFLOW
     THEN Fail /\ UNCHANGED <<segs, tempBuffer>>
     ELSE /\ segs' = <<makeBytes(job.data)>> /\ tempBuffer' = [data |-> makeBytes(job.data).data]
          /\ pc' = "version"
          /\ UNCHANGED qrcode
  /\ version' = job.minVersion
  /\ UNCHANGED <<job, ecl, mask, i, minPenalty, screen>>

\* qrcodegen_encodeSegments(Advanced), with segments the caller made.
EncodeSegments ==
  /\ pc = "call" /\ job.api = "segments"
  /\ segs' = job.data /\ version' = job.minVersion /\ pc' = "version"
  /\ UNCHANGED <<job, ecl, mask, i, minPenalty, qrcode, tempBuffer, screen>>

Fits(v, level) == LET bits == getTotalBits(segs, v)
                  IN  bits # LENGTH_OVERFLOW /\ bits <= 8 * getNumDataCodewords(v, level)

\* One version of the search for the smallest.
TryVersion ==
  /\ pc = "version"
  /\ \/ /\ Fits(version, ecl)
        /\ pc' = "boost"
        /\ UNCHANGED <<version, qrcode>>
     \/ /\ ~Fits(version, ecl) /\ version < job.maxVersion
        /\ version' = version + 1
        /\ UNCHANGED <<pc, qrcode>>
     \/ /\ ~Fits(version, ecl) /\ version >= job.maxVersion
        /\ Fail
        /\ UNCHANGED version
  /\ UNCHANGED <<job, segs, ecl, mask, i, minPenalty, tempBuffer, screen>>

\* Mutant: the loop ends one level early.
BoostEcl_short ==
  /\ pc = "boost"
  /\ ecl' = Accumulate(LAMBDA level, up : IF job.boostEcl /\ Fits(version, up) THEN up ELSE level,
                       ecl, <<MEDIUM, QUARTILE>>)
  /\ pc' = "concatenate"
  /\ UNCHANGED <<job, segs, version, mask, i, minPenalty, qrcode, tempBuffer, screen>>

\* The loop over the higher levels, each taken when the data still fit.
BoostEcl ==
  /\ pc = "boost"
  /\ ecl' = Accumulate(LAMBDA level, up : IF job.boostEcl /\ Fits(version, up) THEN up ELSE level,
                       ecl, <<MEDIUM, QUARTILE, HIGH>>)
  /\ pc' = "concatenate"
  /\ UNCHANGED <<job, segs, version, mask, i, minPenalty, qrcode, tempBuffer, screen>>

\* The data a segment's pointer leads to: tempBuffer, or the caller's own.
DataOf(k) == IF job.api = "segments" THEN segs[k].data ELSE tempBuffer.data

Concatenate ==
  /\ pc = "concatenate"
  /\ qrcode' = [words |-> DataCodewords([k \in DOMAIN segs |-> [segs[k] EXCEPT !.data = DataOf(k)]],
                                        version, ecl)]
  /\ i' = 0
  /\ pc' = "ecc"
  /\ UNCHANGED <<job, segs, version, ecl, mask, minPenalty, tempBuffer, screen>>

rawCodewords == getNumRawDataModules(version) \div 8
numBlocks == NUM_ERROR_CORRECTION_BLOCKS[ecl][version]
blockEccLen == ECC_CODEWORDS_PER_BLOCK[ecl][version]
numShortBlocks == numBlocks - (rawCodewords % numBlocks)
shortBlockDataLen == rawCodewords \div numBlocks - blockEccLen

\* Mutant: the gap the short blocks leave is closed one codeword late.
DataIndex_late(b, j) == b + j * numBlocks - (IF j > shortBlockDataLen THEN numShortBlocks ELSE 0)
\* Where codeword j (from 0) of block b is stored.
DataIndex(b, j) == b + j * numBlocks - (IF j >= shortBlockDataLen THEN numShortBlocks ELSE 0)
EccIndex(b, j) == getNumDataCodewords(version, ecl) + b + j * numBlocks

\* One block of addEccAndInterleave.
AddEccBlock ==
  LET datLen == shortBlockDataLen + (IF i < numShortBlocks THEN 0 ELSE 1)
      start == i * shortBlockDataLen + (IF i < numShortBlocks THEN 0 ELSE i - numShortBlocks)
      dat == SubSeq(qrcode.words, start + 1, start + datLen)
      ecc == reedSolomonComputeRemainder(dat, reedSolomonComputeDivisor(blockEccLen))
      before == IF i = 0 THEN Tuple([k \in 1 .. rawCodewords |-> Unwritten], rawCodewords) ELSE tempBuffer.words
      copied == Accumulate(LAMBDA r, j : [r EXCEPT ![DataIndex(i, j - 1) + 1] = dat[j]],
                           before, [j \in 1 .. datLen |-> j])
  IN  /\ pc = "ecc" /\ i < numBlocks
      /\ tempBuffer' = [words |-> Accumulate(LAMBDA r, j : [r EXCEPT ![EccIndex(i, j - 1) + 1] = ecc[j]],
                                             copied, [j \in 1 .. blockEccLen |-> j])]
      /\ i' = i + 1
      /\ pc' = IF i + 1 = numBlocks THEN "function" ELSE "ecc"
      /\ UNCHANGED <<job, segs, version, ecl, mask, minPenalty, qrcode, screen>>

InitFunctionModules ==
  /\ pc = "function"
  /\ qrcode' = Symbol(SizeOf(version), initializeFunctionModules(version))
  /\ pc' = "codewords"
  /\ UNCHANGED <<job, segs, version, ecl, mask, i, minPenalty, tempBuffer, screen>>

DrawCodewords ==
  /\ pc = "codewords"
  /\ qrcode' = [qrcode EXCEPT !.dark = drawCodewords(@, qrcode.size, SubSeq(tempBuffer.words, 1, rawCodewords))]
  /\ pc' = "light"
  /\ UNCHANGED <<job, segs, version, ecl, mask, i, minPenalty, tempBuffer, screen>>

DrawLightFunctionModules ==
  /\ pc = "light"
  /\ qrcode' = [qrcode EXCEPT !.dark = drawLightFunctionModules(@, version)]
  /\ pc' = "map"
  /\ UNCHANGED <<job, segs, version, ecl, mask, i, minPenalty, tempBuffer, screen>>

\* tempBuffer is done with as codewords and becomes the map of the function modules.
MapFunctionModules ==
  /\ pc = "map"
  /\ tempBuffer' = Symbol(SizeOf(version), initializeFunctionModules(version))
  /\ i' = 0
  /\ pc' = IF mask = Mask_AUTO THEN "masks" ELSE "finish"
  /\ UNCHANGED <<job, segs, version, ecl, mask, minPenalty, qrcode, screen>>

Masked(dark, m) == applyMask(tempBuffer.dark, dark, qrcode.size, m)
WithFormat(dark, m) == drawFormatBits(dark, qrcode.size, ecl, m)

\* Mutant: a better mask does not become the one to beat.
TryMask_first ==
  LET tried == WithFormat(Masked(qrcode.dark, i), i)
      penalty == getPenaltyScore(tried, qrcode.size)
      better == minPenalty = -1 \/ penalty < minPenalty
  IN  /\ pc = "masks"
      /\ mask' = (IF better THEN i ELSE mask)
      /\ minPenalty' = (IF minPenalty = -1 THEN penalty ELSE minPenalty)
      /\ qrcode' = [qrcode EXCEPT !.dark = Masked(tried, i)]
      /\ i' = i + 1
      /\ pc' = IF i = 7 THEN "finish" ELSE "masks"
      /\ UNCHANGED <<job, segs, version, ecl, tempBuffer, screen>>

\* Mask i is put on, scored and taken off again; its format bits stay.
TryMask ==
  LET tried == WithFormat(Masked(qrcode.dark, i), i)
      penalty == getPenaltyScore(tried, qrcode.size)
      better == minPenalty = -1 \/ penalty < minPenalty
  IN  /\ pc = "masks"
      /\ mask' = (IF better THEN i ELSE mask)
      /\ minPenalty' = (IF better THEN penalty ELSE minPenalty)
      /\ qrcode' = [qrcode EXCEPT !.dark = Masked(tried, i)]
      /\ i' = i + 1
      /\ pc' = IF i = 7 THEN "finish" ELSE "masks"
      /\ UNCHANGED <<job, segs, version, ecl, tempBuffer, screen>>

ApplyMask ==
  /\ pc = "finish"
  /\ qrcode' = [qrcode EXCEPT !.dark = WithFormat(Masked(@, mask), mask)]
  /\ pc' = "print"
  /\ UNCHANGED <<job, segs, version, ecl, mask, i, minPenalty, tempBuffer, screen>>

\* qrcodegen_getModule: light outside the symbol.
getModule(x, y) == IF x \in 0 .. qrcode.size - 1 /\ y \in 0 .. qrcode.size - 1 /\ <<x, y>> \in qrcode.dark
                   THEN 1 ELSE 0

\* Mutant: the rows of the screen for its columns.
CellOf_rows(x, y_2) == (x + 1) + (y_2 + 1) * 30
CellOf(x, y_2) == (x + 1) + (y_2 + 1) * SCREENBUFFER_COLS

\* printQr of main.c: two modules to a cell of the text screen.
PrintQr ==
  LET size == qrcode.size
      cells == (0 .. size - 1) \X (0 .. size \div 2)
      Writers(c) == {x \in 0 .. size - 1 : \E y_2 \in 0 .. size \div 2 : c = CellOf(x, y_2)}
      last == [c \in {CellOf(m[1], m[2]) : m \in cells} |->
                 LET x == CHOOSE x \in Writers(c) : \A z \in Writers(c) : z <= x
                 IN  <<x, (c - x - 1) \div SCREENBUFFER_COLS - 1>>]
  IN  /\ pc = "print"
      /\ screen' = [c \in DOMAIN last |-> getModule(last[c][1], last[c][2] * 2)
                                            + 2 * getModule(last[c][1], last[c][2] * 2 + 1)]
      /\ pc' = "done"
      /\ UNCHANGED <<job, segs, version, ecl, mask, i, minPenalty, qrcode, tempBuffer>>

Next ==
  \/ EncodeText \/ EncodeBinary \/ EncodeSegments
  \/ TryVersion \/ BoostEcl \/ Concatenate \/ AddEccBlock
  \/ InitFunctionModules \/ DrawCodewords \/ DrawLightFunctionModules \/ MapFunctionModules
  \/ TryMask \/ ApplyMask \/ PrintQr

Spec == Init /\ [][Next]_vars

=============================================================================

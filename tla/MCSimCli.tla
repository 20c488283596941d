------------------------------ MODULE MCSimCli -------------------------------
(* Every program of two template instructions, traced or not, with and        *)
(* without dumps, interrupted anywhere; and files that are loaded and files   *)
(* the loader gets wrong. A byte has four bits and an instruction is its      *)
(* number in Templates times 4096, plus one.                                  *)
EXTENDS SimCli

I(op, rd, rs1, rs2, imm, size) ==
  [op |-> op, rd |-> rd, rs1 |-> rs1, rs2 |-> rs2, imm |-> imm, size |-> size]
Templates == <<
  I("STORE", 0, 2, 3, 0, 4),    \* across the end of memory
  I("STORE", 0, 0, 1, 4, 4),    \* over the second instruction
  I("STORE", 0, 2, 2, 1, 1),    \* the last byte
  I("LOAD", 3, 2, 0, 0, 4), I("LOAD", 0, 0, 0, 4, 2),
  I("OP_IMM", 3, 2, 0, 3000, 0), I("SYSTEM", 0, 0, 0, 0, 0), I("SYSTEM", 0, 0, 0, 1, 0),
  I("SYSTEM", 0, 0, 0, 2, 0), I("INVALID", 0, 0, 0, 0, 0), I("JALR", 0, 1, 0, 0, 0), I("JALR", 3, 2, 0, 0, 0) >>
Code(i) == i * 4096 + 1
MCDecode == [w \in {Code(i) : i \in 1 .. Len(Templates)} |-> Templates[w \div 4096]]

Raw(words) == [exists |-> TRUE, suffix |-> "bin",
               bytes |-> FlattenSeq([k \in DOMAIN words |-> BytesOf(words[k])])]
\* The digits of a word, most significant first.
Digits(w, base, n) == [k \in 1 .. n |-> (w \div base ^ (n - k)) % base]
Text(suffix, words, base, n, terminated) ==
  [exists |-> TRUE, suffix |-> suffix, lines |-> [k \in DOMAIN words |-> Digits(words[k], base, n)],
   terminated |-> terminated]

Sample == <<Code(6), Code(1), Code(11)>>
Programs == {Raw(<<Code(i), Code(j)>>) : i, j \in 1 .. Len(Templates)}
BinaryText == Text("txt", <<Code(6), Code(11)>>, 2, 16, TRUE)
NoLastNewline == Text("hex", Sample, 4, 8, FALSE)
ShortLine == Text("hex", <<57>>, 4, 6, TRUE)
MCFiles == Programs \cup
  { Text("hex", Sample, 4, 8, TRUE), Text("hex", Sample \o Sample, 4, 8, TRUE), Raw(Sample \o Sample),
    Raw(<< >>), [exists |-> FALSE, suffix |-> "bin"], BinaryText, NoLastNewline, ShortLine }
MCBinaryText == {BinaryText}

MCOptions == { [l |-> TRUE, o |-> TRUE, r |-> TRUE], [l |-> FALSE, o |-> TRUE, r |-> TRUE],
               [l |-> FALSE, o |-> FALSE, r |-> TRUE], [l |-> FALSE, o |-> TRUE, r |-> FALSE],
               [l |-> FALSE, o |-> FALSE, r |-> FALSE] }
MCDefaults == { [l |-> FALSE, o |-> FALSE, r |-> FALSE] }
==============================================================================

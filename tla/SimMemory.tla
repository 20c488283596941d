------------------------------ MODULE SimMemory ------------------------------
(* The memories of the software simulator and the loading of memory images,   *)
(* src/software/simulator/src/rv32i_simulator.{h,c}.                          *)
(*                                                                            *)
(* A byte is a number below ByteMod and a word is four of them, least         *)
(* significant first; addresses are words, so they wrap where uint32_t does.  *)
EXTENDS Integers, Sequences, SequencesExt, SequenceFolds

CONSTANTS ByteMod,  \* 256
          HexBase,  \* 16: two digits a byte
          LongMax   \* LONG_MAX, where strtol saturates

ASSUME LongAssumption == LongMax \in Nat
ASSUME ByteAssumption == HexBase \in Nat \ {0, 1} /\ ByteMod = HexBase * HexBase

Byte == 0 .. ByteMod - 1
WordMod == ByteMod * ByteMod * ByteMod * ByteMod
Word == 0 .. WordMod - 1
Plus(a, n) == (a + n) % WordMod

Pow256 == <<1, ByteMod, ByteMod * ByteMod, ByteMod * ByteMod * ByteMod>>

ByteOf(w, k) == (w \div Pow256[k]) % ByteMod
BytesOf(w) == [k \in 1 .. 4 |-> ByteOf(w, k)]
\* Of one to four bytes.
WordOf(bytes) ==
  LET digit(k) == IF k <= Len(bytes) THEN bytes[k] ELSE 0
  IN  digit(1) + ByteMod * (digit(2) + ByteMod * (digit(3) + ByteMod * digit(4)))

-----------------------------------------------------------------------------
(* Memory models. *)

rv_simulator_init_monolithic_memory(size) ==
  [type |-> "MONOLITHIC", size |-> size, data |-> [a \in 0 .. size - 1 |-> 0]]

rv_simulator_init_segmented_memory == [type |-> "SEGMENTED", segments |-> << >>]

add_segment(mem, start, size, readonly) ==
  [mem EXCEPT !.segments = Append(@,
     [start_address |-> start, size |-> size, readonly |-> readonly,
      data |-> [a \in 0 .. size - 1 |-> 0]])]

\* The end of a segment is computed in uint32_t, so a segment that reaches the
\* end of the address space contains nothing.
InSegment(segment, a) ==
  a >= segment.start_address /\ a < Plus(segment.start_address, segment.size)

\* 0 where the code returns -1.
find_segment(mem, a) == SelectInSeq(mem.segments, LAMBDA s : InSegment(s, a))

\* Mutant.
monolithic_read_wraps(mem, a) == mem.data[a % mem.size]

monolithic_read(mem, a) == IF a < mem.size THEN mem.data[a] ELSE 0
monolithic_write(mem, a, b) == IF a < mem.size THEN [mem EXCEPT !.data[a] = b] ELSE mem

segmented_read(mem, a) ==
  LET i == find_segment(mem, a)
  IN  IF i = 0 THEN 0 ELSE mem.segments[i].data[a - mem.segments[i].start_address]

segmented_write(mem, a, b) ==
  LET i == find_segment(mem, a)
  IN  IF i = 0 \/ mem.segments[i].readonly THEN mem
      ELSE [mem EXCEPT !.segments[i].data[a - mem.segments[i].start_address] = b]

read_byte(mem, a) ==
  IF mem.type = "MONOLITHIC" THEN monolithic_read(mem, a) ELSE segmented_read(mem, a)
write_byte(mem, a, b) ==
  IF mem.type = "MONOLITHIC" THEN monolithic_write(mem, a, b) ELSE segmented_write(mem, a, b)

total_memory_size(mem) ==
  IF mem.type = "MONOLITHIC" THEN mem.size
  ELSE Accumulate(LAMBDA acc, s : Plus(acc, s.size), 0, mem.segments)

-----------------------------------------------------------------------------
(* Loading. *)

\* Mutant.
monolithic_load_truncating(mem, data, offset) ==
  [mem |-> [mem EXCEPT !.data = [a \in DOMAIN @ |->
      IF a \in offset .. offset + Len(data) - 1 THEN data[a - offset + 1] ELSE @[a]]],
   failed |-> FALSE]

\* The memory after loading data at offset, and whether it failed.
monolithic_load(mem, data, offset) ==
  IF Plus(offset, Len(data)) > mem.size THEN [mem |-> mem, failed |-> TRUE]
  ELSE [mem |-> [mem EXCEPT !.data = [a \in DOMAIN @ |->
                   IF a \in offset .. offset + Len(data) - 1 THEN data[a - offset + 1] ELSE @[a]]],
        failed |-> FALSE]

segmented_load(mem, data, offset) ==
  [mem |-> Accumulate(LAMBDA m, i : segmented_write(m, Plus(offset, i - 1), data[i]),
                     mem, [i \in DOMAIN data |-> i]),
   failed |-> FALSE]

load_memory(mem, data, offset) ==
  IF mem.type = "MONOLITHIC" THEN monolithic_load(mem, data, offset)
                             ELSE segmented_load(mem, data, offset)

\* strtol on digits of the given base, kept in a uint32_t.
strtol(digits, base) ==
  LET Next(acc, d) == IF acc > (LongMax - d) \div base THEN LongMax ELSE acc * base + d
  IN  Accumulate(Next, 0, digits) % WordMod

\* The last character of every line is overwritten as if it were its newline.
LineText(file, i) ==
  IF i = Len(file.lines) /\ ~ file.terminated THEN Front(file.lines[i]) ELSE file.lines[i]

\* The type FILETYPE_AUTO finds; a text file of either kind is then read in
\* base 16, because the test of the kind is an assignment.
DetectedType(file) ==
  CASE file.suffix = "txt" -> "BINTXT" [] file.suffix = "hex" -> "HEXTXT" [] OTHER -> "RAW"
BaseOf(type) == HexBase

TextImage(file) ==
  LET number(i) == strtol(LineText(file, i), BaseOf(DetectedType(file)))
  IN  FlattenSeq([i \in 1 .. Len(file.lines) |-> BytesOf(number(i))])

ImageOf(file) == IF DetectedType(file) = "RAW" THEN file.bytes ELSE TextImage(file)

\* The characters of a text file, and the bytes malloc(filesize / 2) has room for.
FileSize(file) ==
  Accumulate(LAMBDA n, line : n + Len(line) + 1, IF file.terminated THEN 0 ELSE -1, file.lines)
BufferSize(file) == FileSize(file) \div 2
\* Every line writes four bytes, so lines of less than eight characters, newline
\* included, write past the buffer.
Overruns(file) == DetectedType(file) # "RAW" /\ Len(TextImage(file)) > BufferSize(file)

\* What has been read when memory is loaded from it: bytes beyond the buffer are
\* whatever the heap has made of them.
Contents(file) ==
  CASE ~ file.exists -> {<< >>}
    [] file.exists /\ ~ Overruns(file) -> {ImageOf(file)}
    [] OTHER ->
         LET text == TextImage(file)
         IN  {c \in [1 .. Len(text) -> Byte] : \A i \in 1 .. BufferSize(file) : c[i] = text[i]}

\* The memory after loading the contents of the file and the number the call
\* returns: -1 for a file that cannot be opened, -2 for one that does not fit,
\* else its size.
load_memory_from_file(mem, file, contents, offset) ==
  IF ~ file.exists THEN [mem |-> mem, result |-> -1]
  ELSE LET loaded == load_memory(mem, contents, offset)
       IN  [mem |-> loaded.mem, result |-> IF loaded.failed THEN -2 ELSE Len(contents)]

dump_memory(mem) == mem.data

==============================================================================

------------------------------- MODULE SimCli --------------------------------
(* The command line simulator, src/software/simulator/src/sim_cli.c: loading, *)
(* the run loop with its breakpoint prompt, the memory trace, the dumps, and  *)
(* the SIGINT handler, which dumps whatever there is at that moment and ends  *)
(* the program.  rv_simulator_step runs byte access by byte access, because   *)
(* the signal may arrive between two of them.                                 *)
EXTENDS SimMemory, FiniteSets

CONSTANTS Files,        \* memory images the program is called with
          memory_size,  \* -m
          StackTop,     \* 0x1800
          Decode,       \* the instructions: a function on the words that are one
          Options       \* records of which of -l, -o and -r are given

\* A word outside Decode is no instruction (its low bits are not 11); INVALID is
\* one of a reserved opcode, funct3 or funct7.
Reg == 0 .. 3
Ops == {"ILLEGAL", "INVALID", "SYSTEM", "JALR", "OP_IMM", "LOAD", "STORE"}
Insns == [op : Ops, rd : Reg, rs1 : Reg, rs2 : Reg, imm : Int, size : 0 .. 4]

\* Addresses and sizes are uint32_t; a load or a store has one, two or four bytes.
ASSUME MachineAssumption ==
  /\ memory_size \in 0 .. WordMod /\ StackTop \in Word
  /\ \A w \in DOMAIN Decode :
       Decode[w] \in Insns /\ (Decode[w].op \in {"LOAD", "STORE"} => Decode[w].size \in {1, 2, 4})

\* What a file holds is loaded as bytes.
ASSUME FileAssumption == \A f \in Files : f.exists => ImageOf(f) \in Seq(Byte)

\* memory_tracefile, memory_output_file and register_dump_file, NULL unless given.
ASSUME OptionAssumption == Options \subseteq [l : BOOLEAN, o : BOOLEAN, r : BOOLEAN]

MinusOne == WordMod - 1

VARIABLES
  phase,    \* where main() is
  file,     \* the memory image
  given,    \* the options
  pc, x,    \* sim
  mem,      \* sim.memory_interface.memory
  todo,     \* byte accesses the current instruction still makes
  got,      \* bytes it has read
  pending,  \* accesses made and not yet in the trace file
  trace,    \* the trace file
  numloaded,
  dump,     \* the memory and register dumps: [mem, x], <<>> when absent or truncated
  ref,      \* history: the machine after the last completed instruction
  image     \* history: the memory after loading

vars == <<phase, file, given, pc, x, mem, todo, got, pending, trace, numloaded, dump, ref, image>>
simulator == <<pc, x, mem, todo, got, pending>>
history == <<ref, image>>

NoMemory == << >>
Absent == << >>
NoDump == [mem |-> Absent, x |-> Absent]
Machine == [pc |-> pc, x |-> x, mem |-> mem]

Init ==
  /\ phase = "signal" /\ file \in Files /\ given \in Options
  /\ pc = 0 /\ x = [r \in Reg |-> 0] /\ mem = NoMemory
  /\ todo = << >> /\ got = << >> /\ pending = << >> /\ trace = << >>
  /\ numloaded = 0 /\ dump = NoDump
  /\ ref = [pc |-> 0, x |-> x, mem |-> mem] /\ image = NoMemory

\* rv_simulator_init, the memory, and the registers a program starts with.
Setup ==
  /\ phase = "signal" /\ phase' = "load"
  /\ mem' = rv_simulator_init_monolithic_memory(memory_size)
  /\ x' = [r \in Reg |-> CASE r = 1 -> MinusOne [] r = 2 -> StackTop [] OTHER -> 0]
  /\ UNCHANGED <<file, given, pc, todo, got, pending, trace, numloaded, dump, history>>

\* The result is not looked at: the program runs whether it was loaded or not.
Load ==
  /\ phase = "load" /\ phase' = "loop"
  /\ \E contents \in Contents(file) :
       LET loaded == load_memory_from_file(mem, file, contents, 0)
       IN  /\ mem' = loaded.mem
           /\ numloaded' = loaded.result
           /\ ref' = [pc |-> pc, x |-> x, mem |-> loaded.mem]
           /\ image' = loaded.mem
  /\ UNCHANGED <<file, given, pc, x, todo, got, pending, trace, dump>>

\* Writing past the buffer may end the program as well.
LoadCrashes ==
  /\ phase = "load" /\ file.exists /\ Overruns(file) /\ phase' = "crashed"
  /\ UNCHANGED <<file, given, simulator, trace, numloaded, dump, history>>

-----------------------------------------------------------------------------
(* rv_simulator_step. *)

Access(kind, a, v) == [kind |-> kind, addr |-> a, value |-> v]
Fetches(a) == [k \in 1 .. 4 |-> Access("fetch", Plus(a, k - 1), 0)]

Illegal == [op |-> "ILLEGAL", rd |-> 0, rs1 |-> 0, rs2 |-> 0, imm |-> 0, size |-> 0]
\* Mutant.
RSET_zero(r, v) == [x EXCEPT ![r] = v]

RSET(r, v) == IF r # 0 THEN [x EXCEPT ![r] = v] ELSE x
Insn(bytes) ==
  LET w == WordOf(bytes) IN IF w \in DOMAIN Decode THEN Decode[w] ELSE Illegal
Address(i, regs) == Plus(regs[i.rs1], i.imm)
Accesses(i) ==
  [k \in 1 .. i.size |->
     Access(IF i.op = "LOAD" THEN "r" ELSE "w", Plus(Address(i, x), k - 1), BytesOf(x[i.rs2])[k])]

\* The loop head: the program has returned, or the next instruction is fetched.
StartStep ==
  /\ phase = "loop"
  /\ IF pc = MinusOne THEN phase' = "close" /\ UNCHANGED todo
                      ELSE phase' = "fetch" /\ todo' = Fetches(pc)
  /\ got' = << >>
  /\ UNCHANGED <<file, given, pc, x, mem, pending, trace, numloaded, dump, history>>

\* One call of read_byte_fn or write_byte_fn, the traced ones up to the fprintf.
MakeAccess ==
  /\ phase \in {"fetch", "access"} /\ todo # << >> /\ pending = << >>
  /\ LET a == Head(todo)
         value == IF a.kind = "w" THEN a.value ELSE read_byte(mem, a.addr)
     IN  /\ mem' = IF a.kind = "w" THEN write_byte(mem, a.addr, a.value) ELSE mem
         /\ got' = IF a.kind = "w" THEN got ELSE Append(got, value)
         /\ pending' = IF given.l THEN <<Access(IF a.kind = "w" THEN "w" ELSE "r", a.addr, value)>> ELSE << >>
  /\ todo' = Tail(todo)
  /\ UNCHANGED <<phase, file, given, pc, x, trace, numloaded, dump, history>>

TraceAccess ==
  /\ phase \in {"fetch", "access"} /\ pending # << >>
  /\ trace' = trace \o pending /\ pending' = << >>
  /\ UNCHANGED <<phase, file, given, pc, x, mem, todo, got, numloaded, dump, history>>

\* History: a whole instruction at once on the machine m.
Whole(m) ==
  LET cell(a) == read_byte(m.mem, a)
      i == Insn([k \in 1 .. 4 |-> cell(Plus(m.pc, k - 1))])
      a == Address(i, m.x)
      next == [m EXCEPT !.pc = Plus(@, 4)]
      set(v) == IF i.rd = 0 THEN m.x ELSE [m.x EXCEPT ![i.rd] = v]
  IN  CASE i.op = "ILLEGAL" -> m
        [] i.op \in {"INVALID", "SYSTEM"} -> next
        [] i.op = "JALR" -> [m EXCEPT !.pc = a, !.x = set(Plus(m.pc, 4))]
        [] i.op = "OP_IMM" -> [next EXCEPT !.x = set(a)]
        [] i.op = "LOAD" ->
             [next EXCEPT !.x = set(WordOf([k \in 1 .. i.size |-> cell(Plus(a, k - 1))]))]
        [] i.op = "STORE" ->
             [next EXCEPT !.mem.data = [c \in DOMAIN @ |->
                LET k == (c - a) % WordMod IN IF k < i.size THEN ByteOf(m.x[i.rs2], k + 1) ELSE @[c]]]

\* The end of rv_simulator_step: its return value decides what main does next.
EndStep(result, newpc, newx) ==
  /\ phase' = CASE result > 0 -> "close" [] result < 0 -> "prompt" [] OTHER -> "loop"
  /\ pc' = newpc /\ x' = newx /\ got' = << >>
  /\ ref' = Whole(ref)
  /\ UNCHANGED <<file, given, mem, todo, pending, trace, numloaded, dump, image>>

Fetched == phase = "fetch" /\ todo = << >> /\ pending = << >>

\* RSET evaluates the value, the reads of a load included, only for a register
\* that keeps it.
Execute ==
  /\ Fetched
  /\ LET i == Insn(got)
     IN  CASE i.op = "ILLEGAL" -> EndStep(1, pc, x)
           [] i.op = "INVALID" -> EndStep(6, Plus(pc, 4), x)
           [] i.op = "SYSTEM" ->
                EndStep(CASE i.imm = 0 -> -2 [] i.imm = 1 -> -1 [] OTHER -> 5, Plus(pc, 4), x)
           [] i.op = "JALR" ->
                EndStep(0, Address(i, x), RSET(i.rd, Plus(pc, 4)))
           [] i.op = "OP_IMM" -> EndStep(0, Plus(pc, 4), RSET(i.rd, Address(i, x)))
           [] i.op = "LOAD" /\ i.rd = 0 -> EndStep(0, Plus(pc, 4), x)
           [] i.op = "STORE" \/ (i.op = "LOAD" /\ i.rd # 0) ->
                /\ phase' = "access" /\ todo' = Accesses(i)
                /\ got' = IF i.op = "LOAD" THEN <<i.rd>> ELSE << >>
                /\ UNCHANGED <<file, given, pc, x, mem, pending, trace, numloaded, dump, history>>

\* got holds the destination and then the bytes of a load, nothing of a store.
FinishAccess ==
  /\ phase = "access" /\ todo = << >> /\ pending = << >>
  /\ EndStep(0, Plus(pc, 4), IF got = << >> THEN x ELSE RSET(Head(got), WordOf(Tail(got))))

-----------------------------------------------------------------------------
(* The prompt, the end of main and the signal handler. *)

\* 'c' continues, 'd' dumps, any other key only prints.
Key(k) ==
  /\ phase = "prompt"
  /\ phase' = CASE k = "c" -> "loop" [] k = "d" -> "prompt_dump" [] OTHER -> "prompt"
  /\ UNCHANGED <<file, given, simulator, trace, numloaded, dump, history>>

PromptContinues == Key("c")
PromptDumps == Key("d")

CloseTrace ==
  /\ phase = "close" /\ phase' = "dump"
  /\ UNCHANGED <<file, given, simulator, trace, numloaded, dump, history>>

\* dump_sim: each file that was named is opened, which empties it, and then written.
Dumping == {"dump", "prompt_dump", "handler"}
DumpPhases ==
  [dump        |-> <<"dump", "dump_mem_open", "dump_mem", "dump_reg_open", "exited">>,
   prompt_dump |-> <<"prompt_dump", "prompt_dump_mem_open", "prompt_dump_mem", "prompt_dump_reg_open", "prompt">>,
   handler     |-> <<"handler", "handler_mem_open", "handler_mem", "handler_reg_open", "interrupted">>]

\* Mutant.
DumpStep_skipping(p) ==
  LET at == DumpPhases[p]
  IN  \/ phase = at[1] /\ given.o /\ phase' = at[2] /\ dump' = [dump EXCEPT !.mem = Absent]
      \/ phase = at[1] /\ ~ given.o /\ phase' = at[5] /\ UNCHANGED dump
      \/ phase = at[2] /\ phase' = at[3] /\ dump' = [dump EXCEPT !.mem = dump_memory(mem)]
      \/ phase = at[3] /\ given.r /\ phase' = at[4] /\ dump' = [dump EXCEPT !.x = Absent]
      \/ phase = at[3] /\ ~ given.r /\ phase' = at[5] /\ UNCHANGED dump
      \/ phase = at[4] /\ phase' = at[5] /\ dump' = [dump EXCEPT !.x = x]

DumpStep(p) ==
  LET at == DumpPhases[p]
  IN  \/ phase = at[1] /\ given.o /\ phase' = at[2] /\ dump' = [dump EXCEPT !.mem = Absent]
      \/ phase = at[1] /\ ~ given.o /\ phase' = at[3] /\ UNCHANGED dump
      \/ phase = at[2] /\ phase' = at[3] /\ dump' = [dump EXCEPT !.mem = dump_memory(mem)]
      \/ phase = at[3] /\ given.r /\ phase' = at[4] /\ dump' = [dump EXCEPT !.x = Absent]
      \/ phase = at[3] /\ ~ given.r /\ phase' = at[5] /\ UNCHANGED dump
      \/ phase = at[4] /\ phase' = at[5] /\ dump' = [dump EXCEPT !.x = x]

DumpSim ==
  /\ \E p \in Dumping : DumpStep(p)
  /\ UNCHANGED <<file, given, simulator, trace, numloaded, history>>

InHandler == phase \in {"handler", "handler_mem_open", "handler_mem", "handler_reg_open"}
Ended == phase \in {"exited", "interrupted", "crashed"}

\* SIGINT: the handler is installed before the memory exists.
Interrupt ==
  /\ ~ InHandler /\ ~ Ended
  /\ phase' = IF mem = NoMemory THEN "crashed" ELSE "handler"
  /\ UNCHANGED <<file, given, simulator, trace, numloaded, dump, history>>

Main == Setup \/ Load \/ LoadCrashes \/ StartStep \/ MakeAccess \/ TraceAccess \/ Execute \/ FinishAccess
        \/ CloseTrace \/ DumpSim
Next == Main \/ PromptContinues \/ PromptDumps \/ Interrupt
Terminated == Ended /\ UNCHANGED vars

\* The program runs; the user may type or interrupt at any time, or never.
Spec == Init /\ [][Next \/ Terminated]_vars /\ WF_vars(Main)

-----------------------------------------------------------------------------
(* Properties. *)

\* What a file says: a raw file its bytes, a text file one word a line in the
\* base of its kind, the most significant digit first.
Value(digits, base) == Accumulate(LAMBDA acc, d : acc * base + d, 0, digits)
Meaning(f) ==
  CASE f.suffix = "hex" -> FlattenSeq([i \in DOMAIN f.lines |-> BytesOf(Value(f.lines[i], HexBase))])
    [] f.suffix = "txt" -> FlattenSeq([i \in DOMAIN f.lines |-> BytesOf(Value(f.lines[i], 2))])
    [] OTHER -> f.bytes

Numeral == 0 .. HexBase - 1
\* A text file of hexadecimal words below 2^32, every line with its newline and
\* eight characters or more of them; or a raw file, or none.
Readable(f) ==
  f.exists =>
    /\ f.suffix # "txt" /\ Len(Meaning(f)) \in Nat /\ Len(Meaning(f)) < WordMod
    /\ f.suffix = "hex" =>
         /\ f.terminated /\ ~ Overruns(f) /\ f.lines \in Seq(Seq(Numeral))
         /\ \A i \in 1 .. Len(f.lines) :
              Value(f.lines[i], HexBase) <= LongMax /\ Value(f.lines[i], HexBase) < WordMod

LoadedAsMeant ==
  LET fits == file.exists /\ Len(Meaning(file)) <= memory_size
  IN  /\ numloaded = (IF ~ file.exists THEN -1 ELSE IF ~ fits THEN -2 ELSE Len(Meaning(file)))
      /\ \A a \in 0 .. memory_size - 1 :
           image.data[a] = IF fits /\ a < Len(Meaning(file)) THEN Meaning(file)[a + 1] ELSE 0

\* rv_simulator_load_memory_from_file (rv32i_simulator.c:581): a readable file
\* that fits is in memory from the first byte to the last with zeros behind it,
\* and its size is returned; of one that does not fit, or cannot be opened, not
\* one byte is loaded.  It says nothing of the files the loader gets wrong: of
\* binary digits (line 630, the next property), without a final newline (line
\* 640, the last digit is lost) or with lines too short for the buffer (line 644).
LoadsWhatFileSays == image # NoMemory /\ Readable(file) => LoadedAsMeant

\* The usage names program.[hex|bin|txt] (simulator/README.md:15), and a .txt is
\* announced as binary text (rv32i_simulator.c:596).  Violated: the test of the
\* kind is an assignment (rv32i_simulator.c:630), so the digits are read in base 16.
LoadsBinaryText == image # NoMemory /\ file.suffix = "txt" => LoadedAsMeant

\* The trace written by read_byte_fn and write_byte_fn (sim_cli.c:54): replayed
\* over the loaded image, dropping what lies outside the memory, every read
\* returns what the trace says and the memory comes out as it is, but for the
\* access in hand.  A trace cut short by SIGINT is still such a trace.
Replay(records) ==
  LET apply(s, r) ==
        IF r.addr >= memory_size THEN [s EXCEPT !.ok = @ /\ (r.kind = "r" => r.value = 0)]
        ELSE IF r.kind = "w" THEN [s EXCEPT !.data[r.addr] = r.value]
        ELSE [s EXCEPT !.ok = @ /\ s.data[r.addr] = r.value]
  IN  Accumulate(apply, [data |-> image.data, ok |-> TRUE], records)
TraceExplainsMemory ==
  given.l /\ image # NoMemory =>
    LET s == Replay(trace \o pending) IN s.ok /\ s.data = mem.data

\* dump_sim at the end of main and in signal_handler (sim_cli.c:22, 40): every
\* way out leaves the dumps that were asked for whole, and no others: without -o
\* and -r nothing is dumped, although the usage gives both a default.  After the
\* end of the program they are the machine after the last instruction; after
\* SIGINT the memory may besides hold some of the bytes of the one store that was
\* running, and nothing else.
DumpIsMachine ==
  /\ phase = "exited" =>
       dump = [mem |-> IF given.o THEN ref.mem.data ELSE Absent, x |-> IF given.r THEN ref.x ELSE Absent]
  /\ phase = "interrupted" /\ image # NoMemory =>
       /\ dump.x = IF given.r THEN ref.x ELSE Absent
       /\ IF given.o THEN \A a \in 0 .. memory_size - 1 :
                            dump.mem[a] \in {ref.mem.data[a], Whole(ref).mem.data[a]}
                     ELSE dump.mem = Absent

\* The loop of main and signal_handler (sim_cli.c:131, 40): a program that has
\* returned and an interrupt both end with the dumps that were asked for written.
EndsDumped ==
  ((phase = "loop" /\ pc = MinusOne) \/ phase = "handler")
    ~> (/\ phase \in {"exited", "interrupted"}
        /\ given.o => dump.mem # Absent
        /\ given.r => dump.x # Absent)

==============================================================================

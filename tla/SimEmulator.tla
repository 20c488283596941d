----------------------------- MODULE SimEmulator -----------------------------
(* The emulator, src/software/simulator/src/sim_emulator.c: the main thread   *)
(* executes the program, the window thread draws what it finds in the         *)
(* simulator's memory, byte by byte and without a lock, and either of them,   *)
(* the user closing the window or SIGINT sets EXIT.                           *)
(*                                                                            *)
(* A program is the sequence of operations it performs: stores, each a word   *)
(* or a byte written byte by byte by rv_simulator_step, EBREAK, ECALL, or the *)
(* loop that waits for the display's vsync flag.                              *)
EXTENDS SimMemory, SocIo, FiniteSets

CONSTANTS
  Programs,                          \* sequences of operations, the last one repeats
  Options,                           \* records: leds, vga, hub75, bootloader
  Image, Font,                       \* the program file and the font file
  LEDS_ADDR, SCREENBUFFER_BASE_ADDR, FONTRAM_BASE_ADDR, SPRAM_BASE_ADDR, MainSize, SpramSize,
  FONT_WIDTH, FONT_HEIGHT, ByteBits

PANEL_ROWS == HEIGHT
PANEL_COLS == WIDTH
\* The window's screen, which is not where the library has its own.
COLORBUFFER_BASE_ADDR == SCREENBUFFER_BASE_ADDR + COLS * ROWS

VARIABLES
  options, program,
  mem,     \* sim.memory_interface.memory
  freed,   \* rv_simulator_deinit has been called
  EXIT,
  mphase,  \* main(): setup, run, store, prompt, exit, join, ended
  op,      \* index of the program's current operation
  bytes,   \* bytes of its store still to be written
  wphase,  \* window thread: none, starting, loop, leds, hub75, vga, ended, failed
  pos,     \* reads of the section made so far
  sel,     \* buffer_select
  cell,    \* ch, rowbin and color while a character is drawn
  leds, panel, screen, \* what is on the windows
  still    \* history: memory has not changed since the section was begun

display == <<pos, sel, cell, leds, panel, screen>>
vars == <<options, program, mem, freed, EXIT, mphase, op, bytes, wphase, display, still>>

Operation == program[op]
Enabled(o) == o.leds \/ o.vga \/ o.hub75

-----------------------------------------------------------------------------
(* Setting up. *)

Segments(o) ==
  << <<0, MainSize>>, <<LEDS_ADDR, 4>>, <<SPRAM_BASE_ADDR, SpramSize>> >>
  \o (IF o.vga THEN << <<SCREENBUFFER_BASE_ADDR, COLS * ROWS>>, <<COLORBUFFER_BASE_ADDR, COLS * ROWS * 4>>,
                       <<FONTRAM_BASE_ADDR, ByteMod * FONT_HEIGHT>> >> ELSE << >>)
  \o (IF o.hub75 THEN << <<HUB75_BASE, (WIDTH * HEIGHT * HUB75_N_BUFFERS + 1) * 4>> >> ELSE << >>)

Memory(o) ==
  Accumulate(LAMBDA m, s : add_segment(m, s[1], s[2], FALSE), rv_simulator_init_segmented_memory, Segments(o))

WriteAll(m, stores) ==
  Accumulate(LAMBDA acc, s : segmented_load(acc, s.bytes, s.addr).mem, m, stores)

\* White on black for every character, the two bytes masked on their own.
InitialColors ==
  [i \in 1 .. COLS * ROWS |-> Store(COLORBUFFER_BASE_ADDR + 4 * (i - 1),
     <<COLOR_FG(WHITE), (WHITE \div ColorMod) % ColorMod>>)]

Loaded(o) ==
  LET loaded(m, file, offset) == load_memory_from_file(m, file, ImageOf(file), offset).mem
      program_loaded == loaded(Memory(o), Image, IF o.bootloader THEN SPRAM_BASE_ADDR ELSE 0)
  IN  IF o.vga THEN loaded(WriteAll(program_loaded, InitialColors), Font, FONTRAM_BASE_ADDR)
               ELSE program_loaded

\* The segments of main memory, LEDs, SPRAM, characters, colours, font and matrix.
Layout == Segments([vga |-> TRUE, hub75 |-> TRUE])
Within(segment, a) == segment[1] <= a /\ a < segment[1] + segment[2]
Displayed(a) == \E i \in {2, 4, 5, 6, 7} : Within(Layout[i], a)

\* What a store of the program shows: the calls of the library for the LEDs and
\* the matrix, and stores to the window's screen.  The characters and colours the
\* library stores on its own screen ("printed", "tinted") are elsewhere in memory,
\* like any other store.
IsCall(o) ==
  LET what == o.shows.what at == o.shows.at value == o.shows.value store == o.store IN
  \/ what = "leds" /\ value \in Byte /\ store = Store(LEDS_ADDR, <<value>>)
  \/ what = "select" /\ value \in 0 .. HUB75_N_BUFFERS - 1 /\ <<store>> = hub75_select_buffer(value)
  \/ /\ what = "pixel" /\ at \in (0 .. HEIGHT - 1) \X (0 .. WIDTH - 1) \X (0 .. HUB75_N_BUFFERS - 1)
     /\ value \in [1 .. 3 -> {v \in Byte : 2 * v \in Byte}]
     /\ <<store>> = hub75_set_pixel(at[1], at[2], at[3], hub75_color(value[1], value[2], value[3]))
  \/ /\ what = "char" /\ at \in 0 .. COLS * ROWS - 1
     /\ value \in Byte /\ FONT_HEIGHT * (value + 1) <= Len(Font.bytes)
     /\ store = Store(SCREENBUFFER_BASE_ADDR + at, <<value>>)
  \/ /\ what = "color" /\ at \in 0 .. COLS * ROWS - 1 /\ value \in (0 .. WHITE) \X (0 .. WHITE)
     /\ store = Store(COLORBUFFER_BASE_ADDR + 4 * at, BytesOf(COLOR_FG(value[1]) + COLOR_BG(value[2])))
  \/ what = "clear" /\ <<store>> = hub75_clear_vsync_flag
  \/ /\ what \in {"printed", "tinted", "other"} /\ store.addr \in Nat /\ store.bytes \in Seq(Byte)
     /\ \A k \in 1 .. Len(store.bytes) : ~ Displayed(store.addr + k - 1)
     /\ what = "printed" => store = Store(SCREENBUFFER + at, <<value>>)
     /\ what = "tinted" =>
          store = Store(COLORBUFFER + 4 * at, BytesOf(COLOR_FG(value[1]) + COLOR_BG(value[2])))

Blank == [leds |-> 0,
          panel |-> [p \in (0 .. PANEL_ROWS - 1) \X (0 .. PANEL_COLS - 1) |-> <<0, 0, 0>>],
          screen |-> [i \in 0 .. COLS * ROWS - 1 |->
                        [p \in (0 .. FONT_HEIGHT - 1) \X (0 .. FONT_WIDTH - 1) |-> 0]]]

ASSUME SizeAssumption ==
  /\ {COLS, ROWS, WIDTH, FONT_WIDTH, FONT_HEIGHT, ColorMod} \subseteq Nat \ {0}
  /\ HEIGHT = WIDTH /\ ColorMod <= ByteMod
  /\ Options \subseteq [leds : BOOLEAN, vga : BOOLEAN, hub75 : BOOLEAN, bootloader : BOOLEAN]
ASSUME LayoutAssumption ==
  \A i \in 1 .. 7 :
    /\ Layout[i] \in Nat \X Nat /\ Layout[i][1] + Layout[i][2] < WordMod
    /\ \A j \in 1 .. 7 : i # j => Layout[i][1] + Layout[i][2] <= Layout[j][1]
                                \/ Layout[j][1] + Layout[j][2] <= Layout[i][1]
\* The program is not loaded over a display, and the font is one of bytes.
ASSUME FileAssumption ==
  /\ Image.exists =>
       /\ ~ Overruns(Image) /\ ImageOf(Image) \in Seq(Byte)
       /\ \A o \in Options : \A i \in DOMAIN ImageOf(Image) :
            ~ Displayed(Plus(IF o.bootloader THEN SPRAM_BASE_ADDR ELSE 0, i - 1))
  /\ Font.exists /\ DetectedType(Font) = "RAW" /\ Font.bytes \in Seq(Byte)
  /\ FONT_HEIGHT <= Len(Font.bytes) /\ Len(Font.bytes) <= ByteMod * FONT_HEIGHT
\* A program ends in a loop that stores nothing.
ASSUME ProgramAssumption ==
  \A p \in Programs :
    /\ Len(p) \in Nat \ {0} /\ p[Len(p)].kind # "store"
    /\ \A i \in 1 .. Len(p) : /\ p[i].kind \in {"store", "vsync", "ebreak", "ecall", "other"}
                              /\ p[i].kind = "store" => IsCall(p[i])

Init ==
  /\ options \in Options /\ program \in Programs
  /\ mem = Loaded(options) /\ freed = FALSE /\ EXIT = FALSE
  /\ mphase = "setup" /\ op = 1 /\ bytes = << >>
  /\ wphase = "none" /\ pos = 0 /\ sel = 0 /\ cell = <<0, 0, 0>>
  /\ leds = Blank.leds /\ panel = Blank.panel /\ screen = Blank.screen
  /\ still = TRUE

CreateThread ==
  /\ mphase = "setup" /\ mphase' = "run"
  /\ wphase' = IF Enabled(options) THEN "starting" ELSE "none"
  /\ UNCHANGED <<options, program, mem, freed, EXIT, op, bytes, display, still>>

-----------------------------------------------------------------------------
(* The main thread. *)

Advance == op' = IF op = Len(program) THEN op ELSE op + 1

\* One rv_simulator_step, up to the first byte it stores.
Step ==
  /\ mphase = "run"
  /\ IF EXIT THEN mphase' = "exit" /\ UNCHANGED <<op, bytes>>
     ELSE CASE Operation.kind = "store" ->
                 mphase' = "store" /\ bytes' = Operation.store.bytes /\ UNCHANGED op
            [] Operation.kind = "vsync" ->
                 /\ mphase' = "run" /\ UNCHANGED bytes
                 /\ IF read_byte(mem, HUB75_VSYNC) # 0 THEN Advance ELSE UNCHANGED op
            [] Operation.kind = "ebreak" -> mphase' = "prompt" /\ Advance /\ UNCHANGED bytes
            [] Operation.kind \in {"ecall", "other"} -> mphase' = "run" /\ Advance /\ UNCHANGED bytes
  /\ UNCHANGED <<options, program, mem, freed, EXIT, wphase, display, still>>

WriteByte ==
  /\ mphase = "store" /\ bytes # << >>
  /\ LET s == Operation.store
         a == s.addr + Len(s.bytes) - Len(bytes)
     IN  /\ mem' = write_byte(mem, a, Head(bytes))
         /\ still' = (still /\ mem' = mem)
  /\ bytes' = Tail(bytes)
  /\ UNCHANGED <<options, program, freed, EXIT, mphase, op, wphase, display>>

StoreDone ==
  /\ mphase = "store" /\ bytes = << >>
  /\ mphase' = "run" /\ Advance
  /\ UNCHANGED <<options, program, mem, freed, EXIT, bytes, wphase, display, still>>

\* The prompt looks at EXIT only between two keys.
PromptKey(k) ==
  /\ mphase = "prompt"
  /\ mphase' = IF k = "c" \/ EXIT THEN "run" ELSE "prompt"
  /\ UNCHANGED <<options, program, mem, freed, EXIT, op, bytes, wphase, display, still>>

SetExit ==
  /\ mphase = "exit" /\ mphase' = "join" /\ EXIT' = TRUE
  /\ UNCHANGED <<options, program, mem, freed, op, bytes, wphase, display, still>>

Over == {"none", "ended", "failed"}
\* Mutant.
Joinable_any == TRUE

Joinable == wphase \in Over

\* pthread_join, then rv_simulator_deinit.
Join ==
  /\ mphase = "join" /\ Joinable
  /\ mphase' = "ended" /\ freed' = TRUE
  /\ UNCHANGED <<options, program, mem, EXIT, op, bytes, wphase, display, still>>

-----------------------------------------------------------------------------
(* The window thread. *)

Sections == (IF options.leds THEN <<"leds">> ELSE << >>) \o (IF options.hub75 THEN <<"hub75">> ELSE << >>)
            \o (IF options.vga THEN <<"vga">> ELSE << >>)
After(section) ==
  LET i == SelectInSeq(Sections, LAMBDA s : s = section)
  IN  IF i = Len(Sections) THEN "loop" ELSE Sections[i + 1]

\* SDL may refuse; the thread then returns and the program runs unseen.
OpenWindows ==
  /\ wphase = "starting" /\ wphase' \in {"loop", "failed"}
  /\ UNCHANGED <<options, program, mem, freed, EXIT, mphase, op, bytes, display, still>>

\* Mutant.
LoopHead_quit(quit) ==
  /\ wphase = "loop"
  /\ wphase' = IF quit THEN "ended" ELSE After("loop")
  /\ EXIT' = (EXIT \/ quit)
  /\ pos' = 0 /\ still' = TRUE
  /\ UNCHANGED <<options, program, mem, freed, mphase, op, bytes, sel, cell, leds, panel, screen>>

\* The loop's test and the event; e is the event SDL_PollEvent returns.
LoopHead(quit) ==
  /\ wphase = "loop"
  /\ wphase' = IF EXIT THEN "ended" ELSE After("loop")
  /\ EXIT' = (EXIT \/ quit)
  /\ pos' = 0 /\ still' = TRUE
  /\ UNCHANGED <<options, program, mem, freed, mphase, op, bytes, sel, cell, leds, panel, screen>>

Section(s, reads) ==
  /\ wphase = s
  /\ IF pos + 1 = reads THEN wphase' = After(s) /\ pos' = 0 ELSE wphase' = s /\ pos' = pos + 1
  /\ still' = IF pos = 0 THEN TRUE ELSE still
  /\ UNCHANGED <<options, program, mem, freed, EXIT, mphase, op, bytes>>

DrawLeds ==
  /\ Section("leds", 1)
  /\ leds' = read_byte(mem, LEDS_ADDR)
  /\ UNCHANGED <<sel, cell, panel, screen>>

\* (uint8_t)(255 * sqrt(c / 255))
hub75_colorcorrect(c) ==
  CHOOSE v \in Byte : v * v <= (ByteMod - 1) * c /\ (v + 1) * (v + 1) > (ByteMod - 1) * c

\* The pixel at the position, rotated by a quarter.
PixelRow(p) == (p \div 3) \div PANEL_COLS
PixelCol(p) == (p \div 3) % PANEL_COLS
\* Mutant.
PixelIndex_straight(r, c, buffer) == r * PANEL_ROWS + c + buffer * PANEL_ROWS * PANEL_COLS

PixelIndex(r, c, buffer) == (PANEL_ROWS - 1 - r) * PANEL_ROWS + c + buffer * PANEL_ROWS * PANEL_COLS

DrawHub75 ==
  /\ Section("hub75", 1 + 3 * PANEL_ROWS * PANEL_COLS)
  /\ IF pos = 0 THEN sel' = read_byte(mem, HUB75_CTL) /\ UNCHANGED panel
     ELSE LET r == PixelRow(pos - 1) c == PixelCol(pos - 1) component == (pos - 1) % 3
              value == read_byte(mem, HUB75_BASE + 4 * PixelIndex(r, c, sel) + component)
          IN  panel' = [panel EXCEPT ![<<r, c>>][component + 1] = hub75_colorcorrect((value * 2) % ByteMod)]
              /\ UNCHANGED sel
  /\ UNCHANGED <<cell, leds, screen>>

\* A character: its code, then for each row of the glyph its bits and for each
\* point of the row the two bytes of the colour.
RowReads == 1 + 2 * FONT_WIDTH
CellReads == 1 + FONT_HEIGHT * RowReads

LitColor(color) == color % ColorMod
DarkColor(color) == (color \div ColorMod) % ColorMod
Lit(rowbin, c) == (rowbin \div 2 ^ (ByteBits - 1 - c)) % 2 = 1

DrawVga ==
  /\ Section("vga", COLS * ROWS * CellReads)
  /\ LET i == pos \div CellReads
         q == pos % CellReads
         r == (q - 1) \div RowReads
         s == (q - 1) % RowReads
         at(a) == read_byte(mem, a)
         ch == cell[1] rowbin == cell[2] low == cell[3]
     IN  CASE q = 0 -> cell' = <<at(SCREENBUFFER_BASE_ADDR + i), 0, 0>> /\ UNCHANGED screen
           [] q > 0 /\ s = 0 ->
                cell' = <<ch, at(FONTRAM_BASE_ADDR + FONT_HEIGHT * ch + r), 0>> /\ UNCHANGED screen
           [] q > 0 /\ s % 2 = 1 -> cell' = <<ch, rowbin, at(COLORBUFFER_BASE_ADDR + 4 * i)>> /\ UNCHANGED screen
           [] OTHER ->
                LET color == low + ByteMod * at(COLORBUFFER_BASE_ADDR + 4 * i + 1)
                    c == (s - 1) \div 2
                IN  /\ screen' = [screen EXCEPT ![i][<<r, c>>] =
                           IF Lit(rowbin, c) THEN LitColor(color) ELSE DarkColor(color)]
                    /\ UNCHANGED cell
  /\ UNCHANGED <<sel, leds, panel>>

-----------------------------------------------------------------------------
Interrupt ==
  /\ mphase # "ended" /\ EXIT' = TRUE
  /\ UNCHANGED <<options, program, mem, freed, mphase, op, bytes, wphase, display, still>>

Main == CreateThread \/ Step \/ WriteByte \/ StoreDone \/ SetExit \/ Join
Window == OpenWindows \/ LoopHead(FALSE) \/ DrawLeds \/ DrawHub75 \/ DrawVga
CloseWindow == LoopHead(TRUE)
TypeKey == \E k \in {"c", "other"} : PromptKey(k)
Next == Main \/ Window \/ CloseWindow \/ TypeKey \/ Interrupt
Terminated == mphase = "ended" /\ Joinable /\ UNCHANGED vars

\* Both threads are scheduled; the prompt asks for a key, and gets one.
Spec == Init /\ [][Next \/ Terminated]_vars
        /\ WF_vars(Main) /\ WF_vars(Window) /\ WF_vars(TypeKey)

-----------------------------------------------------------------------------
(* Properties. *)

\* What the program has made visible, from the calls it has completed: a call is
\* a record with the kind of thing it changes.
LastCall(Test(_), default) ==
  LET calls == {i \in 1 .. op - 1 : program[i].kind = "store" /\ Test(program[i].shows)}
  IN  IF calls = {} THEN default ELSE program[Max(calls)].shows.value
Pixel(px, py, buffer) ==
  LastCall(LAMBDA s : s.what = "pixel" /\ s.at = <<px, py, buffer>>, <<0, 0, 0>>)
Selected == LastCall(LAMBDA s : s.what = "select", 0)
Character(i) == LastCall(LAMBDA s : s.what = "char" /\ s.at = i, 0)
Color(i) == LastCall(LAMBDA s : s.what = "color" /\ s.at = i, <<WHITE, 0>>)

ShowsLeds == leds' = LastCall(LAMBDA s : s.what = "leds", 0)
ShowsPanel ==
  \A r \in 0 .. PANEL_ROWS - 1, c \in 0 .. PANEL_COLS - 1 : \A k \in 1 .. 3 :
    panel'[<<r, c>>][k] = hub75_colorcorrect(2 * Pixel(PANEL_ROWS - 1 - r, c, Selected)[k])
ShowsScreen ==
  \A i \in DOMAIN screen : \A r \in 0 .. FONT_HEIGHT - 1, c \in 0 .. FONT_WIDTH - 1 :
    screen'[i][<<r, c>>] =
      Color(i)[IF Lit(Font.bytes[FONT_HEIGHT * Character(i) + r + 1], c) THEN 1 ELSE 2]

\* sdl_window_thread_fn (sim_emulator.c:68): a frame during which the program
\* wrote nothing shows what the program put there before: the LEDs, the selected
\* buffer of the matrix turned by a quarter, and of the window's screen each
\* character in its two colours.  The library's own screen is at another address
\* (soc_io.h:23; "TODO: Fix addressing of this", sim_emulator.c:305): what it
\* prints is main memory here and never shown.
Finishes(s) == wphase = s /\ wphase' # s /\ still' /\ mphase # "store"
FrameShowsProgram ==
  [][ /\ Finishes("leds") => ShowsLeds
      /\ Finishes("hub75") => ShowsPanel
      /\ Finishes("vga") => ShowsScreen ]_vars

\* main joins the window thread before it frees the simulator (sim_emulator.c:401),
\* whatever rv_simulator_deinit frees: of a segmented memory it is nothing yet.
NothingReadFreed == freed => wphase \in Over

\* EXIT ends both threads whoever sets it, wherever they are: at the prompt
\* after one more key (sim_emulator.c:365).
ThreadsEnd == EXIT ~> (mphase = "ended" /\ wphase \in Over)

==============================================================================

-------------------------- MODULE SimEmulatorProofs ---------------------------
(* The emulator's two threads and the simulator they share, for every program *)
(* and every choice of displays: the simulator is not read once it is freed,  *)
(* and a frame shows what the program has asked for.                          *)
EXTENDS SimEmulator, WellFoundedInduction, TLAPS

(* The simulator is freed by main's last step, with no window thread left     *)
(* that reads it, and main never starts another one.                          *)
FreedLast == freed => mphase = "ended" /\ wphase \in Over

(* A thread that is over does nothing. *)
LEMMA OverRests ==
  ASSUME Window \/ CloseWindow, wphase \in Over
  PROVE  FALSE
<1>1. wphase \notin {"starting", "loop", "leds", "hub75", "vga"}
  BY DEF Over
<1> QED BY <1>1 DEF Window, CloseWindow, OpenWindows, LoopHead, DrawLeds, DrawHub75, DrawVga, Section

(* Neither is main. *)
LEMMA EndedRests ==
  ASSUME Main \/ TypeKey, mphase = "ended"
  PROVE  FALSE
BY DEF Main, TypeKey, CreateThread, Step, WriteByte, StoreDone, SetExit, Join, PromptKey

(* The window thread reads memory, and never frees it. *)
LEMMA WindowKeeps == Window \/ CloseWindow => UNCHANGED <<freed, mphase>>
BY DEF Window, CloseWindow, OpenWindows, LoopHead, DrawLeds, DrawHub75, DrawVga, Section

(* Every step keeps it: only Join frees, and it waits for the window thread. *)
LEMMA FreedStep == FreedLast /\ [Next \/ Terminated]_vars => FreedLast'
<1> SUFFICES ASSUME FreedLast, [Next \/ Terminated]_vars PROVE FreedLast'
  OBVIOUS
<1>1. CASE Window \/ CloseWindow
  <2>1. UNCHANGED <<freed, mphase>>
    BY <1>1, WindowKeeps
  <2>2. ~ freed
    BY <1>1, OverRests DEF FreedLast
  <2> QED BY <2>1, <2>2 DEF FreedLast
<1>2. CASE Main \/ TypeKey
  <2>1. ~ freed
    BY <1>2, EndedRests DEF FreedLast
  <2>2. CASE Join
    BY <2>2 DEF Join, Joinable, FreedLast
  <2>3. CASE ~ Join
    <3>1. freed' = freed
      BY <1>2, <2>3 DEF Main, TypeKey, CreateThread, Step, WriteByte, StoreDone, SetExit, PromptKey
    <3> QED BY <2>1, <3>1 DEF FreedLast
  <2> QED BY <2>2, <2>3
<1>3. CASE Interrupt
  BY <1>3 DEF Interrupt, FreedLast, Over
<1>4. CASE UNCHANGED vars \/ Terminated
  BY <1>4 DEF vars, Terminated, FreedLast, Over
<1> QED BY <1>1, <1>2, <1>3, <1>4 DEF Next

(* The simulator's memory is not read after it is freed                       *)
(* (sim_emulator.c:397), whoever ends the program and wherever both threads   *)
(* are then.                                                                  *)
THEOREM NeverReadsFreed == Spec => []NothingReadFreed
<1>1. Init => FreedLast
  BY DEF Init, FreedLast
<1>2. FreedLast => NothingReadFreed
  BY DEF FreedLast, NothingReadFreed
<1> QED BY <1>1, <1>2, FreedStep, PTL DEF Spec

(* What the screen shows.  From here on: memory is what the program's stores   *)
(* have left in it (Stores), the windows are open that the options ask for    *)
(* (Windows), and an undisturbed frame has drawn, as far as it got, what is   *)
(* in memory (PanelDrawn, ScreenDrawn).                                       *)

(* What the memory's segments are. *)
Data == UNION {[0 .. s - 1 -> Byte] : s \in Nat}
Segment == [start_address : Nat, size : Nat, readonly : {FALSE}, data : Data]
Segmented == [type : {"SEGMENTED"}, segments : Seq(Segment)]

(* Memory with the segments that the options ask for. *)
ShapeFor(o, m) ==
  /\ m \in Segmented
  /\ Len(m.segments) = Len(Segments(o))
  /\ \A i \in 1 .. Len(m.segments) :
       /\ m.segments[i].start_address = Segments(o)[i][1] /\ m.segments[i].size = Segments(o)[i][2]
       /\ m.segments[i].data \in [0 .. m.segments[i].size - 1 -> Byte]
Shape(m) == ShapeFor(options, m)
MappedFor(o, a) == \E i \in 1 .. Len(Segments(o)) : Within(Segments(o)[i], a)
Mapped(a) == MappedFor(options, a)

(* A store of the program at a, and what is there after it.  *)
Covers(o, a) == o.kind = "store" /\ o.store.addr <= a /\ a < o.store.addr + Len(o.store.bytes)
Stored(o, a) == o.store.bytes[a - o.store.addr + 1]

(* The byte that the completed stores, those before n, have left at a. *)
Coverers(p, n, a) == {i \in 1 .. n - 1 : Covers(p[i], a)}
Left(o, p, n, a) ==
  IF Coverers(p, n, a) = {} THEN read_byte(Loaded(o), a) ELSE Stored(p[Max(Coverers(p, n, a))], a)

(* Memory m, while n is the current operation of program p: what the stores   *)
(* before it have left and, if it is a store, what it has stored: all but bs. *)
Kept(o, p, m, n, bs, storing) ==
  /\ ShapeFor(o, m) /\ n \in 1 .. Len(p) /\ bs \in Seq(Byte)
  /\ storing =>
       /\ p[n].kind = "store" /\ Len(bs) <= Len(p[n].store.bytes)
       /\ \A i \in 1 .. Len(bs) : bs[i] = p[n].store.bytes[Len(p[n].store.bytes) - Len(bs) + i]
  /\ \A a \in Nat : MappedFor(o, a) =>
       read_byte(m, a) =
         IF storing /\ Covers(p[n], a) /\ a < p[n].store.addr + (Len(p[n].store.bytes) - Len(bs))
         THEN Stored(p[n], a) ELSE Left(o, p, n, a)

Stores ==
  IF mphase = "store" THEN Kept(options, program, mem, op, bytes, TRUE)
                      ELSE Kept(options, program, mem, op, bytes, FALSE)

Windows ==
  /\ wphase \in {"none", "starting", "loop", "leds", "hub75", "vga", "ended", "failed"}
  /\ wphase = "leds" => options.leds
  /\ wphase = "hub75" => options.hub75
  /\ wphase = "vga" => options.vga
  /\ mphase = "setup" => wphase = "none"
  /\ pos \in Nat

Component(r, c, k, buffer) ==
  hub75_colorcorrect((read_byte(mem, HUB75_BASE + 4 * PixelIndex(r, c, buffer) + (k - 1)) * 2) % ByteMod)
Numbered(r, c, k) == 3 * (r * PANEL_COLS + c) + k
PanelShape(p) ==
  /\ DOMAIN p = (0 .. PANEL_ROWS - 1) \X (0 .. PANEL_COLS - 1)
  /\ \A r \in 0 .. PANEL_ROWS - 1, c \in 0 .. PANEL_COLS - 1 : DOMAIN p[<<r, c>>] = 1 .. 3
DrawnTo(n, p, buffer) ==
  \A r \in 0 .. PANEL_ROWS - 1, c \in 0 .. PANEL_COLS - 1, k \in 1 .. 3 :
    Numbered(r, c, k) < n => p[<<r, c>>][k] = Component(r, c, k, buffer)
PanelDrawn ==
  /\ PanelShape(panel)
  /\ wphase = "hub75" =>
      /\ pos < 1 + 3 * PANEL_ROWS * PANEL_COLS
      /\ still /\ pos > 0 => sel = read_byte(mem, HUB75_CTL) /\ DrawnTo(pos, panel, sel)

CharAt(i) == read_byte(mem, SCREENBUFFER_BASE_ADDR + i)
RowAt(i, r) == read_byte(mem, FONTRAM_BASE_ADDR + FONT_HEIGHT * CharAt(i) + r)
LowAt(i) == read_byte(mem, COLORBUFFER_BASE_ADDR + 4 * i)
HighAt(i) == read_byte(mem, COLORBUFFER_BASE_ADDR + 4 * i + 1)
Point(i, r, c) ==
  IF Lit(RowAt(i, r), c) THEN LitColor(LowAt(i) + ByteMod * HighAt(i)) ELSE DarkColor(LowAt(i) + ByteMod * HighAt(i))
\* Read number s of row r of character i, and the one that completes point c.
Spot(i, r, s) == i * CellReads + (1 + (r * RowReads + s))
Read(i, r, c) == Spot(i, r, 2 * c + 2)

ScreenShape(w) ==
  /\ DOMAIN w = 0 .. COLS * ROWS - 1
  /\ \A i \in 0 .. COLS * ROWS - 1 : DOMAIN w[i] = (0 .. FONT_HEIGHT - 1) \X (0 .. FONT_WIDTH - 1)
CellAt(n, data) ==
  \A i \in 0 .. COLS * ROWS - 1, r \in 0 .. FONT_HEIGHT - 1, s \in 0 .. RowReads - 1 :
    Spot(i, r, s) = n =>
      /\ data[1] = CharAt(i)
      /\ s > 0 => data[2] = RowAt(i, r)
      /\ s > 0 /\ s % 2 = 0 => data[3] = LowAt(i)
PaintedTo(n, w) ==
  \A i \in 0 .. COLS * ROWS - 1, r \in 0 .. FONT_HEIGHT - 1, c \in 0 .. FONT_WIDTH - 1 :
    Read(i, r, c) < n => w[i][<<r, c>>] = Point(i, r, c)
ScreenDrawn ==
  /\ ScreenShape(screen)
  /\ wphase = "vga" =>
       /\ pos < COLS * ROWS * CellReads
       /\ still /\ pos > 0 => CellAt(pos, cell) /\ PaintedTo(pos, screen)

(* Words have room for bytes. *)
LEMMA Words ==
  /\ ByteMod \in Nat \ {0} /\ WordMod \in Nat /\ WordMod > 4
  /\ 0 \in Byte /\ 0 \in Word /\ Byte \subseteq Int /\ Word \subseteq Int
  /\ \A k \in 1 .. 4 : Pow256[k] \in Nat \ {0}
<1>1. ByteMod \in Nat /\ ByteMod >= 4
  <2>1. (HexBase - 2) * (HexBase + 2) \in Nat
    BY ByteAssumption
  <2>2. (HexBase - 2) * (HexBase + 2) = HexBase * HexBase - 4
    BY ByteAssumption
  <2>3. HexBase * HexBase \in Nat
    BY ByteAssumption
  <2> QED BY <2>1, <2>2, <2>3, ByteAssumption
<1>2. ASSUME NEW a \in Nat, a >= 4
      PROVE  a * ByteMod \in Nat /\ a * ByteMod >= 16
  <2>1. (a - 4) * ByteMod \in Nat /\ (a - 4) * ByteMod = a * ByteMod - 4 * ByteMod
    BY <1>1, <1>2
  <2> QED BY <2>1, <1>1, <1>2
<1>3. ByteMod * ByteMod \in Nat /\ ByteMod * ByteMod >= 16
  BY <1>1, <1>2
<1>4. ByteMod * ByteMod * ByteMod \in Nat /\ ByteMod * ByteMod * ByteMod >= 16
  BY <1>2, <1>3
<1>5. WordMod \in Nat /\ WordMod >= 16
  BY <1>2, <1>4 DEF WordMod
<1>6. \A k \in 1 .. 4 : Pow256[k] \in Nat \ {0}
  BY <1>1, <1>3, <1>4 DEF Pow256
<1> QED BY <1>1, <1>5, <1>6 DEF Byte, Word

(* Two sequences one after the other. *)
LEMMA Joined ==
  ASSUME NEW T, NEW s \in Seq(T), NEW t \in Seq(T)
  PROVE  /\ s \o t \in Seq(T) /\ Len(s \o t) = Len(s) + Len(t)
         /\ \A k \in 1 .. Len(s \o t) : (s \o t)[k] = IF k <= Len(s) THEN s[k] ELSE t[k - Len(s)]
<1>1. Len(s) \in Nat /\ Len(t) \in Nat /\ s \o t \in Seq(T) /\ Len(s \o t) = Len(s) + Len(t)
  OBVIOUS
<1>2. ASSUME NEW k \in 1 .. Len(s \o t) PROVE (s \o t)[k] = IF k <= Len(s) THEN s[k] ELSE t[k - Len(s)]
  BY <1>1
<1> QED BY <1>1, <1>2

(* Three segments, three more or none, and one or none. *)
LEMMA Listed ==
  ASSUME NEW T, NEW a \in T, NEW b \in T, NEW c \in T, NEW d \in T, NEW e \in T, NEW f \in T, NEW g \in T,
         NEW vga \in BOOLEAN, NEW hub75 \in BOOLEAN
  PROVE  LET l == <<a, b, c>> \o (IF vga THEN <<d, e, f>> ELSE << >>) \o (IF hub75 THEN <<g>> ELSE << >>)
         IN  /\ Len(l) = 3 + (IF vga THEN 3 ELSE 0) + (IF hub75 THEN 1 ELSE 0)
             /\ l[1] = a /\ l[2] = b /\ l[3] = c
             /\ vga => l[4] = d /\ l[5] = e /\ l[6] = f
             /\ hub75 => l[IF vga THEN 7 ELSE 4] = g
<1> DEFINE u == <<a, b, c>>
           v == IF vga THEN <<d, e, f>> ELSE << >>
           w == IF hub75 THEN <<g>> ELSE << >>
<1>1. u \in Seq(T) /\ Len(u) = 3 /\ u[1] = a /\ u[2] = b /\ u[3] = c
  OBVIOUS
<1>2. v \in Seq(T) /\ Len(v) = (IF vga THEN 3 ELSE 0) /\ (vga => v[1] = d /\ v[2] = e /\ v[3] = f)
  <2>1. CASE vga
    BY <2>1
  <2>2. CASE ~ vga
    BY <2>2
  <2> QED BY <2>1, <2>2
<1>3. w \in Seq(T) /\ Len(w) = (IF hub75 THEN 1 ELSE 0) /\ (hub75 => w[1] = g)
  <2>1. CASE hub75
    BY <2>1
  <2>2. CASE ~ hub75
    BY <2>2
  <2> QED BY <2>1, <2>2
<1> HIDE DEF u, v, w
<1> DEFINE uv == u \o v
<1>4. /\ uv \in Seq(T) /\ Len(uv) = 3 + Len(v)
      /\ \A k \in 1 .. Len(uv) : uv[k] = IF k <= 3 THEN u[k] ELSE v[k - 3]
  <2>1. /\ u \o v \in Seq(T) /\ Len(u \o v) = Len(u) + Len(v)
        /\ \A k \in 1 .. Len(u \o v) : (u \o v)[k] = IF k <= Len(u) THEN u[k] ELSE v[k - Len(u)]
    BY <1>1, <1>2, Joined
  <2> QED BY <1>1, <2>1
<1> HIDE DEF uv
<1>5. /\ Len(uv \o w) = Len(uv) + Len(w)
      /\ \A k \in 1 .. Len(uv \o w) : (uv \o w)[k] = IF k <= Len(uv) THEN uv[k] ELSE w[k - Len(uv)]
  BY <1>3, <1>4, Joined
<1> DEFINE l == uv \o w
<1> HIDE DEF l
<1>6. /\ Len(l) = 3 + (IF vga THEN 3 ELSE 0) + (IF hub75 THEN 1 ELSE 0)
      /\ l[1] = a /\ l[2] = b /\ l[3] = c
      /\ vga => l[4] = d /\ l[5] = e /\ l[6] = f
      /\ hub75 => l[IF vga THEN 7 ELSE 4] = g
  <2>1. Len(l) = 3 + (IF vga THEN 3 ELSE 0) + (IF hub75 THEN 1 ELSE 0)
    BY <1>2, <1>3, <1>4, <1>5 DEF l
  <2>2. l[1] = a /\ l[2] = b /\ l[3] = c
    BY <1>1, <1>2, <1>3, <1>4, <1>5, <2>1 DEF l
  <2>3. vga => l[4] = d /\ l[5] = e /\ l[6] = f
    BY <1>2, <1>3, <1>4, <1>5, <2>1 DEF l
  <2>4. hub75 => l[IF vga THEN 7 ELSE 4] = g
    BY <1>2, <1>3, <1>4, <1>5, <2>1 DEF l
  <2> QED BY <2>1, <2>2, <2>3, <2>4
<1> QED BY <1>6 DEF l, uv, u, v, w

(* The segments of all displays, and those of the options. *)
LEMMA LayoutIs ==
  /\ Layout[1] = <<0, MainSize>> /\ Layout[2] = <<LEDS_ADDR, 4>> /\ Layout[3] = <<SPRAM_BASE_ADDR, SpramSize>>
  /\ Layout[4] = <<SCREENBUFFER_BASE_ADDR, COLS * ROWS>> /\ Layout[5] = <<COLORBUFFER_BASE_ADDR, COLS * ROWS * 4>>
  /\ Layout[6] = <<FONTRAM_BASE_ADDR, ByteMod * FONT_HEIGHT>>
  /\ Layout[7] = <<HUB75_BASE, (WIDTH * HEIGHT * HUB75_N_BUFFERS + 1) * 4>>
<1> DEFINE a == <<0, MainSize>>
           b == <<LEDS_ADDR, 4>>
           c == <<SPRAM_BASE_ADDR, SpramSize>>
           d == <<SCREENBUFFER_BASE_ADDR, COLS * ROWS>>
           e == <<COLORBUFFER_BASE_ADDR, COLS * ROWS * 4>>
           f == <<FONTRAM_BASE_ADDR, ByteMod * FONT_HEIGHT>>
           g == <<HUB75_BASE, (WIDTH * HEIGHT * HUB75_N_BUFFERS + 1) * 4>>
           T == {a, b, c, d, e, f, g}
<1>1. Layout = <<a, b, c>> \o (IF TRUE THEN <<d, e, f>> ELSE << >>) \o (IF TRUE THEN <<g>> ELSE << >>)
  BY DEF Layout, Segments
<1>2. a \in T /\ b \in T /\ c \in T /\ d \in T /\ e \in T /\ f \in T /\ g \in T
  OBVIOUS
<1> HIDE DEF a, b, c, d, e, f, g, T
<1>3. Layout[1] = a /\ Layout[2] = b /\ Layout[3] = c /\ Layout[4] = d /\ Layout[5] = e /\ Layout[6] = f /\ Layout[7] = g
  <2>1. \A vga, hub75 \in BOOLEAN :
          LET l == <<a, b, c>> \o (IF vga THEN <<d, e, f>> ELSE << >>) \o (IF hub75 THEN <<g>> ELSE << >>)
          IN  /\ l[1] = a /\ l[2] = b /\ l[3] = c
              /\ vga => l[4] = d /\ l[5] = e /\ l[6] = f
              /\ hub75 => l[IF vga THEN 7 ELSE 4] = g
    BY <1>2, Listed
  <2> QED BY <1>1, <2>1
<1> QED BY <1>3 DEF a, b, c, d, e, f, g

\* Where the segments of the options are in Layout.
Place(i) == IF ~ options.vga /\ i = 4 THEN 7 ELSE i
N == Len(Segments(options))

(* The segments that the options ask for are segments of the layout.          *)
LEMMA SegmentsAre ==
  ASSUME options \in Options
  PROVE  /\ N = 3 + (IF options.vga THEN 3 ELSE 0) + (IF options.hub75 THEN 1 ELSE 0)
         /\ \A i \in 1 .. N : Segments(options)[i] = Layout[Place(i)]
<1> DEFINE a == <<0, MainSize>>
           b == <<LEDS_ADDR, 4>>
           c == <<SPRAM_BASE_ADDR, SpramSize>>
           d == <<SCREENBUFFER_BASE_ADDR, COLS * ROWS>>
           e == <<COLORBUFFER_BASE_ADDR, COLS * ROWS * 4>>
           f == <<FONTRAM_BASE_ADDR, ByteMod * FONT_HEIGHT>>
           g == <<HUB75_BASE, (WIDTH * HEIGHT * HUB75_N_BUFFERS + 1) * 4>>
           T == {a, b, c, d, e, f, g}
<1>0. PICK vga \in BOOLEAN, hub75 \in BOOLEAN : vga = options.vga /\ hub75 = options.hub75
  BY SizeAssumption
<1>1. Segments(options) = <<a, b, c>> \o (IF vga THEN <<d, e, f>> ELSE << >>) \o (IF hub75 THEN <<g>> ELSE << >>)
  BY <1>0, Zenon DEF Segments
<1>2. a \in T /\ b \in T /\ c \in T /\ d \in T /\ e \in T /\ f \in T /\ g \in T
  OBVIOUS
<1>3. Layout[1] = a /\ Layout[2] = b /\ Layout[3] = c /\ Layout[4] = d /\ Layout[5] = e /\ Layout[6] = f /\ Layout[7] = g
  BY LayoutIs
<1> HIDE DEF a, b, c, d, e, f, g, T
<1> DEFINE l == Segments(options)
<1>4. /\ Len(l) = 3 + (IF vga THEN 3 ELSE 0) + (IF hub75 THEN 1 ELSE 0)
      /\ l[1] = a /\ l[2] = b /\ l[3] = c
      /\ vga => l[4] = d /\ l[5] = e /\ l[6] = f
      /\ hub75 => l[IF vga THEN 7 ELSE 4] = g
  <2>1. LET m == <<a, b, c>> \o (IF vga THEN <<d, e, f>> ELSE << >>) \o (IF hub75 THEN <<g>> ELSE << >>)
          IN  /\ Len(m) = 3 + (IF vga THEN 3 ELSE 0) + (IF hub75 THEN 1 ELSE 0)
              /\ m[1] = a /\ m[2] = b /\ m[3] = c
              /\ vga => m[4] = d /\ m[5] = e /\ m[6] = f
              /\ hub75 => m[IF vga THEN 7 ELSE 4] = g
    BY <1>2, Listed
  <2> QED BY <1>1, <2>1
<1> HIDE DEF l
<1>5. ASSUME NEW i \in 1 .. Len(l) PROVE l[i] = Layout[Place(i)]
  <2>1. i \in 1 .. 7
    BY <1>4
  <2>2. i = 1 \/ i = 2 \/ i = 3 \/ i = 4 \/ i = 5 \/ i = 6 \/ i = 7
    BY <2>1
  <2>3. Place(i) = IF ~ vga /\ i = 4 THEN 7 ELSE i
    BY <1>0 DEF Place
  <2>4. i = 4 => vga \/ hub75
    BY <1>4
  <2>5. i > 4 => vga
    BY <1>4
  <2>6. i = 7 => hub75
    BY <1>4
  <2> QED BY <1>3, <1>4, <2>2, <2>3, <2>4, <2>5, <2>6
<1> QED BY <1>0, <1>4, <1>5 DEF l, N

(* The segments that the options ask for share no address, and end before the *)
(* address space does.                                                        *)
LEMMA SegmentsFit ==
  ASSUME options \in Options
  PROVE  /\ N \in Nat
         /\ \A i \in 1 .. N : /\ Segments(options)[i] \in Nat \X Nat
                              /\ Segments(options)[i][1] + Segments(options)[i][2] < WordMod
         /\ \A i, j \in 1 .. N : \A a \in Nat :
              Within(Segments(options)[i], a) /\ Within(Segments(options)[j], a) => i = j
<1>1. N \in 0 .. 7 /\ (~ options.vga => N \in 0 .. 4)
  BY SegmentsAre
<1>2. \A i \in 1 .. N : Segments(options)[i] = Layout[Place(i)]
  BY SegmentsAre
<1>3. \A i \in 1 .. N : Place(i) \in 1 .. 7
  BY <1>1 DEF Place
<1>4. \A i, j \in 1 .. N : i # j => Place(i) # Place(j)
  BY <1>1 DEF Place
<1>5. \A i \in 1 .. 7 : Layout[i] \in Nat \X Nat /\ Layout[i][1] + Layout[i][2] < WordMod
  BY LayoutAssumption
<1>6. ASSUME NEW i \in 1 .. 7, NEW j \in 1 .. 7, NEW a \in Nat, Within(Layout[i], a), Within(Layout[j], a)
      PROVE  i = j
  <2>1. PICK p \in Nat, q \in Nat, r \in Nat, s \in Nat :
          p = Layout[i][1] /\ q = Layout[i][2] /\ r = Layout[j][1] /\ s = Layout[j][2]
    BY <1>5
  <2>2. i # j => p + q <= r \/ r + s <= p
    BY <2>1, LayoutAssumption, Zenon
  <2>3. p <= a /\ a < p + q /\ r <= a /\ a < r + s
    BY <1>6, <2>1, Zenon DEF Within
  <2> QED BY <2>2, <2>3
<1>7. ASSUME NEW i \in 1 .. N, NEW j \in 1 .. N, NEW a \in Nat,
             Within(Segments(options)[i], a), Within(Segments(options)[j], a)
      PROVE  i = j
  <2>1. Within(Layout[Place(i)], a) /\ Within(Layout[Place(j)], a)
    BY <1>2, <1>7, Zenon
  <2>2. Place(i) = Place(j)
    BY <1>3, <1>6, <2>1, Zenon
  <2> QED BY <1>4, <2>2, Zenon
<1>8. ASSUME NEW i \in 1 .. N
      PROVE  /\ Segments(options)[i] \in Nat \X Nat
             /\ Segments(options)[i][1] + Segments(options)[i][2] < WordMod
  BY <1>2, <1>3, <1>5, Zenon
<1>9. N \in Nat
  BY <1>1
<1> QED BY <1>7, <1>8, <1>9, Zenon

(* The one segment that an address is in, if any. *)
LEMMA FindIs ==
  ASSUME options \in Options, NEW m, Shape(m), NEW a \in Nat
  PROVE  /\ \A i \in 1 .. N : Within(Segments(options)[i], a) => find_segment(m, a) = i
         /\ ~ Mapped(a) => find_segment(m, a) = 0
<1> DEFINE I == {i \in 1 .. Len(m.segments) : InSegment(m.segments[i], a)}
<1>1. find_segment(m, a) = IF I # {} THEN Min(I) ELSE 0
  BY Zenon DEF find_segment, SelectInSeq
<1>2. Len(m.segments) = N
  BY Zenon DEF Shape, ShapeFor, N
<1>3. ASSUME NEW i \in 1 .. N PROVE InSegment(m.segments[i], a) <=> Within(Segments(options)[i], a)
  <2>1. PICK p \in Nat, q \in Nat : p = Segments(options)[i][1] /\ q = Segments(options)[i][2]
    BY SegmentsFit
  <2>2. p + q < WordMod
    BY <2>1, SegmentsFit
  <2>3. m.segments[i].start_address = p /\ m.segments[i].size = q
    BY <1>2, <2>1, Zenon DEF Shape, ShapeFor
  <2>4. Plus(p, q) = p + q
    <3>1. WordMod \in Nat
      BY Words
    <3> HIDE DEF WordMod
    <3> QED BY <2>2, <3>1 DEF Plus
  <2>5. InSegment(m.segments[i], a) <=> a >= p /\ a < p + q
    BY <2>3, <2>4, Zenon DEF InSegment
  <2>6. Within(Segments(options)[i], a) <=> p <= a /\ a < p + q
    BY <2>1, Zenon DEF Within
  <2> QED BY <2>5, <2>6
<1>4. I = {i \in 1 .. N : Within(Segments(options)[i], a)}
  BY <1>2, <1>3
<1> HIDE DEF I
<1>5. ASSUME NEW i \in 1 .. N, Within(Segments(options)[i], a) PROVE I = {i}
  BY <1>4, <1>5, SegmentsFit
<1>6. \A i \in 1 .. N : Min({i}) = i
  BY DEF Min
<1> QED BY <1>1, <1>4, <1>5, <1>6 DEF Mapped, MappedFor, N

(* Where the bytes are. *)
LEMMA ReadIs ==
  ASSUME options \in Options, NEW m, Shape(m), NEW a \in Nat
  PROVE  /\ \A i \in 1 .. N : Within(Segments(options)[i], a) =>
              /\ a - Segments(options)[i][1] \in 0 .. m.segments[i].size - 1
              /\ read_byte(m, a) = m.segments[i].data[a - Segments(options)[i][1]]
         /\ ~ Mapped(a) => read_byte(m, a) = 0
         /\ 0 \in Byte => read_byte(m, a) \in Byte
<1>1. m.type # "MONOLITHIC"
  BY DEF Shape, ShapeFor, Segmented
<1>2. \A i \in 1 .. N : i # 0
  OBVIOUS
<1>3. ASSUME NEW i \in 1 .. N, Within(Segments(options)[i], a)
      PROVE  /\ a - Segments(options)[i][1] \in 0 .. m.segments[i].size - 1
             /\ read_byte(m, a) = m.segments[i].data[a - Segments(options)[i][1]]
             /\ m.segments[i].data \in [0 .. m.segments[i].size - 1 -> Byte]
  <2>1. find_segment(m, a) = i
    BY <1>3, FindIs, Zenon
  <2>2. /\ m.segments[i].start_address = Segments(options)[i][1]
        /\ m.segments[i].size = Segments(options)[i][2]
        /\ m.segments[i].data \in [0 .. m.segments[i].size - 1 -> Byte]
    BY Zenon DEF Shape, ShapeFor, N
  <2>3. a - Segments(options)[i][1] \in 0 .. m.segments[i].size - 1
    <3>1. PICK p \in Nat, q \in Nat : p = Segments(options)[i][1] /\ q = Segments(options)[i][2]
      BY SegmentsFit
    <3>2. p <= a /\ a < p + q
      BY <1>3, <3>1, Zenon DEF Within
    <3>3. a - p \in 0 .. q - 1
      BY <3>2
    <3> QED BY <2>2, <3>1, <3>3, Zenon
  <2>4. read_byte(m, a) = m.segments[i].data[a - m.segments[i].start_address]
    BY <1>1, <1>2, <2>1, Zenon DEF read_byte, segmented_read
  <2> QED BY <2>2, <2>3, <2>4, Zenon
<1>4. ASSUME ~ Mapped(a) PROVE read_byte(m, a) = 0
  BY <1>1, <1>4, FindIs, Zenon DEF read_byte, segmented_read
<1>5. ASSUME Mapped(a), 0 \in Byte PROVE read_byte(m, a) \in Byte
  <2>1. PICK i \in 1 .. N : Within(Segments(options)[i], a)
    BY <1>5, Zenon DEF Mapped, MappedFor, N
  <2>2. \A D : \A f \in [D -> Byte] : \A x \in D : f[x] \in Byte
    BY Zenon
  <2>3. PICK f, D, x : f = m.segments[i].data /\ D = 0 .. m.segments[i].size - 1 /\ x = a - Segments(options)[i][1]
    OBVIOUS
  <2>4. f \in [D -> Byte] /\ x \in D /\ read_byte(m, a) = f[x]
    BY <1>3, <2>1, <2>3, Zenon
  <2> QED BY <2>2, <2>4, Zenon
<1> QED BY <1>3, <1>4, <1>5

(* A byte that is written is the byte that is read, and no other byte changes. *)
LEMMA Writes ==
  ASSUME options \in Options, NEW m, Shape(m), NEW a \in Nat, NEW b \in Byte
  PROVE  /\ Shape(write_byte(m, a, b))
         /\ \A c \in Nat : read_byte(write_byte(m, a, b), c) = IF c = a /\ Mapped(a) THEN b ELSE read_byte(m, c)
<1>1. m.type # "MONOLITHIC"
  BY DEF Shape, ShapeFor, Segmented
<1>2. CASE ~ Mapped(a)
  <2>1. write_byte(m, a, b) = m
    BY <1>1, <1>2, FindIs, Zenon DEF write_byte, segmented_write
  <2> QED BY <1>2, <2>1, Zenon
<1>3. CASE Mapped(a)
  <2>1. PICK i \in 1 .. N : Within(Segments(options)[i], a)
    BY <1>3, Zenon DEF Mapped, MappedFor, N
  <2>2. PICK seg, x : seg = m.segments[i] /\ x = a - Segments(options)[i][1]
    OBVIOUS
  <2>3. Len(m.segments) = N /\ N \in Nat /\ i # 0
    BY SegmentsFit DEF Shape, ShapeFor, N
  <2>4. /\ seg \in Segment
        /\ seg.start_address = Segments(options)[i][1] /\ seg.size = Segments(options)[i][2]
        /\ seg.data \in [0 .. seg.size - 1 -> Byte]
    BY <2>2, <2>3 DEF Shape, ShapeFor, Segmented
  <2>5. x \in 0 .. seg.size - 1
    BY <2>1, <2>2, ReadIs, Zenon
  <2> DEFINE changed == [seg EXCEPT !.data = [seg.data EXCEPT ![x] = b]]
             w == [m EXCEPT !.segments = [m.segments EXCEPT ![i] = changed]]
  <2>6. write_byte(m, a, b) = w
    <3>1. find_segment(m, a) = i
      BY <2>1, FindIs, Zenon
    <3>2. write_byte(m, a, b) = segmented_write(m, a, b)
      BY <1>1, Zenon DEF write_byte
    <3>3. ~ seg.readonly /\ x = a - seg.start_address
      BY <2>2, <2>4 DEF Segment
    <3>4. write_byte(m, a, b) = [m EXCEPT !.segments[i].data[a - m.segments[i].start_address] = b]
      BY <2>2, <2>3, <3>1, <3>2, <3>3, Zenon DEF segmented_write
    <3> QED BY <2>2, <3>3, <3>4
  <2>7. /\ changed \in Segment
        /\ changed.start_address = seg.start_address /\ changed.size = seg.size
        /\ changed.data \in [0 .. seg.size - 1 -> Byte]
        /\ changed.data[x] = b
        /\ \A y \in 0 .. seg.size - 1 : y # x => changed.data[y] = seg.data[y]
    <3>1. PICK g : g = [seg.data EXCEPT ![x] = b]
      OBVIOUS
    <3>2. /\ g \in [0 .. seg.size - 1 -> Byte] /\ g[x] = b
          /\ \A y \in 0 .. seg.size - 1 : y # x => g[y] = seg.data[y]
      BY <2>4, <2>5, <3>1
    <3>3. g \in Data
      BY <2>4, <3>2 DEF Data, Segment
    <3> HIDE DEF Data
    <3>4. changed = [seg EXCEPT !.data = g]
      BY <3>1
    <3> HIDE DEF changed
    <3>5. changed \in Segment /\ changed.start_address = seg.start_address /\ changed.size = seg.size /\ changed.data = g
      BY <2>4, <3>3, <3>4 DEF Segment
    <3> QED BY <3>2, <3>5, Zenon
  <2> HIDE DEF changed
  <2>8. /\ w \in Segmented /\ w.type # "MONOLITHIC" /\ Len(w.segments) = N /\ w.segments[i] = changed
        /\ \A j \in 1 .. N : j # i => w.segments[j] = m.segments[j]
    <3>1. m \in Segmented /\ m.segments \in Seq(Segment)
      BY DEF Shape, ShapeFor, Segmented
    <3>2. [m.segments EXCEPT ![i] = changed] \in Seq(Segment)
      BY <2>3, <2>7, <3>1
    <3>3. w.segments = [m.segments EXCEPT ![i] = changed] /\ w.type = "SEGMENTED" /\ w \in Segmented
      BY <3>1, <3>2 DEF Segmented
    <3> QED BY <2>3, <3>1, <3>3
  <2> HIDE DEF w
  <2>9. Shape(w)
    <3>1. ASSUME NEW j \in 1 .. N
          PROVE  /\ w.segments[j].start_address = Segments(options)[j][1]
                 /\ w.segments[j].size = Segments(options)[j][2]
                 /\ w.segments[j].data \in [0 .. w.segments[j].size - 1 -> Byte]
      <4>1. CASE j = i
        BY <2>4, <2>7, <2>8, <4>1, Zenon
      <4>2. CASE j # i
        BY <2>3, <2>8, <4>2, Zenon DEF Shape, ShapeFor
      <4> QED BY <4>1, <4>2
    <3> QED BY <2>8, <3>1, Zenon DEF Shape, ShapeFor, N
  <2>10. ASSUME NEW c \in Nat
         PROVE  read_byte(w, c) = IF c = a THEN b ELSE read_byte(m, c)
    <3>1. CASE ~ Mapped(c)
      <4>1. read_byte(w, c) = 0 /\ read_byte(m, c) = 0 /\ c # a
        BY <1>3, <2>9, <3>1, ReadIs, Zenon
      <4> QED BY <4>1
    <3>2. ASSUME NEW j \in 1 .. N, Within(Segments(options)[j], c)
          PROVE  read_byte(w, c) = IF c = a THEN b ELSE read_byte(m, c)
      <4>1. PICK y : y = c - Segments(options)[j][1]
        OBVIOUS
      <4>2. read_byte(w, c) = w.segments[j].data[y] /\ read_byte(m, c) = m.segments[j].data[y]
            /\ y \in 0 .. m.segments[j].size - 1
        BY <2>9, <3>2, <4>1, ReadIs, Zenon
      <4>3. CASE j # i
        <5>1. c # a
          BY <2>1, <3>2, <4>3, SegmentsFit, Zenon
        <5> QED BY <2>8, <4>2, <4>3, <5>1, Zenon
      <4>4. CASE j = i
        <5>1. Segments(options)[i][1] \in Nat
          BY SegmentsFit
        <5>2. c = a <=> y = x
          BY <2>2, <4>1, <4>4, <5>1
        <5> QED BY <2>2, <2>7, <2>8, <4>2, <4>4, <5>2, Zenon
      <4> QED BY <4>3, <4>4
    <3> QED BY <3>1, <3>2, Zenon DEF Mapped, MappedFor, N
  <2> QED BY <1>3, <2>6, <2>9, <2>10, Zenon
<1> QED BY <1>2, <1>3

(* Folds.  Induction over Nat in the form the provers can use: a set of       *)
(* numbers instead of a predicate.                                            *)

(* A set of numbers has a least one. *)
LEMMA LeastNumber ==
  ASSUME NEW S, S \subseteq Nat, S # {}
  PROVE  \E n \in S : \A m \in S : n <= m
<1> DEFINE R == {p \in Nat \X Nat : p[1] < p[2]}
<1>1. IsWellFoundedOn(R, Nat)
  BY NatLessThanWellFounded DEF OpToRel
<1>2. \A a, b \in Nat : a < b => <<a, b>> \in R
  OBVIOUS
<1> HIDE DEF R
<1>3. PICK n \in S : \A m \in S : ~ (<<m, n>> \in R)
  BY <1>1, WFMin
<1>4. \A m \in S : ~ (m < n)
  BY <1>2, <1>3
<1> QED BY <1>4

(* A set that holds zero and every successor of its members holds all numbers. *)
LEMMA SetInduction ==
  ASSUME NEW S, 0 \in S, \A n \in Nat : n \in S => n + 1 \in S
  PROVE  Nat \subseteq S
<1>1. SUFFICES ASSUME Nat \ S # {} PROVE FALSE
  OBVIOUS
<1>2. PICK n \in Nat \ S : \A m \in Nat \ S : n <= m
  BY <1>1, LeastNumber
<1>3. n # 0 /\ n - 1 \in Nat
  BY <1>2
<1>4. n - 1 \in S
  BY <1>2, <1>3
<1> QED BY <1>2, <1>3, <1>4

(* f is the fold of the function G over q: its partial results. *)
Folds(f, G, base, q) ==
  /\ f[0] = base
  /\ \A n \in 1 .. Len(q) : f[n] = G[<<f[n - 1], q[n]>>]

(* There is one, of the type of its operation. *)
LEMMA FoldExists ==
  ASSUME NEW S, NEW T, NEW G \in [S \X T -> S], NEW base \in S, NEW q \in Seq(T)
  PROVE  \E f \in [0 .. Len(q) -> S] : Folds(f, G, base, q)
<1> DEFINE Upto(n, f) == f[0] = base /\ \A m \in 1 .. n : f[m] = G[<<f[m - 1], q[m]>>]
           P == {n \in Nat : n <= Len(q) => \E f \in [0 .. n -> S] : Upto(n, f)}
<1>1. 0 \in P
  <2>1. [m \in 0 .. 0 |-> base] \in [0 .. 0 -> S] /\ Upto(0, [m \in 0 .. 0 |-> base])
    OBVIOUS
  <2> QED BY <2>1
<1>2. ASSUME NEW n \in Nat, n \in P PROVE n + 1 \in P
  <2> SUFFICES ASSUME n + 1 <= Len(q) PROVE \E g \in [0 .. n + 1 -> S] : Upto(n + 1, g)
    OBVIOUS
  <2>1. PICK f \in [0 .. n -> S] : Upto(n, f)
    BY <1>2
  <2> DEFINE g == [m \in 0 .. n + 1 |-> IF m <= n THEN f[m] ELSE G[<<f[n], q[n + 1]>>]]
  <2>2. f[n] \in S /\ q[n + 1] \in T
    OBVIOUS
  <2>3. G[<<f[n], q[n + 1]>>] \in S
    BY <2>2
  <2>4. g \in [0 .. n + 1 -> S]
    BY <2>3
  <2>5. g[0] = base /\ g[n + 1] = G[<<g[n], q[n + 1]>>]
    BY <2>1
  <2>6. \A m \in 1 .. n : g[m] = G[<<g[m - 1], q[m]>>]
    BY <2>1
  <2>7. \A m \in 1 .. n + 1 : m \in 1 .. n \/ m = n + 1
    OBVIOUS
  <2> HIDE DEF g
  <2>8. ASSUME NEW m \in 1 .. n + 1 PROVE g[m] = G[<<g[m - 1], q[m]>>]
    <3>1. CASE m \in 1 .. n
      BY <2>6, <3>1
    <3>2. CASE m = n + 1
      BY <2>5, <3>2
    <3> QED BY <3>1, <3>2, <2>7
  <2>9. Upto(n + 1, g)
    BY <2>5, <2>8
  <2> QED BY <2>4, <2>9
<1> HIDE DEF P
<1>3. Nat \subseteq P
  BY <1>1, <1>2, SetInduction
<1>4. Len(q) \in P
  BY <1>3
<1> USE DEF P
<1> QED BY <1>4 DEF Folds

(* So is what satisfies its equations wherever it has the type. *)
FoldsWithin(f, S, G, base, q) ==
  /\ f[0] = base
  /\ \A n \in 1 .. Len(q) : f[n - 1] \in S => f[n] = G[<<f[n - 1], q[n]>>]

(* What a recursive function accumulates is that fold.                        *)
LEMMA FoldIs ==
  ASSUME NEW S, NEW G, NEW base, NEW T, NEW q \in Seq(T),
         NEW f \in [0 .. Len(q) -> S], Folds(f, G, base, q),
         NEW acc, FoldsWithin(acc, S, G, base, q)
  PROVE  \A n \in 0 .. Len(q) : acc[n] = f[n]
<1> DEFINE P == {n \in Nat : n <= Len(q) => acc[n] = f[n]}
<1>1. 0 \in P
  BY DEF Folds, FoldsWithin
<1>2. ASSUME NEW n \in Nat, n \in P PROVE n + 1 \in P
  <2> SUFFICES ASSUME n + 1 <= Len(q) PROVE acc[n + 1] = f[n + 1]
    OBVIOUS
  <2>1. acc[n] = f[n] /\ f[n] \in S /\ n + 1 \in 1 .. Len(q) /\ n + 1 - 1 = n
    BY <1>2
  <2>2. f[n + 1] = G[<<f[n], q[n + 1]>>]
    BY <2>1 DEF Folds
  <2>3. acc[n + 1] = G[<<acc[n], q[n + 1]>>]
    BY <2>1 DEF FoldsWithin
  <2> QED BY <2>1, <2>2, <2>3
<1> HIDE DEF P
<1>3. Nat \subseteq P
  BY <1>1, <1>2, SetInduction
<1> QED BY <1>3 DEF P

(* An address plus anything is an address. *)
LEMMA PlusType == \A a, n \in Int : Plus(a, n) \in Nat
<1>1. \A z \in Int : z % WordMod \in 0 .. WordMod - 1
  BY Words
<1> QED BY <1>1, Words DEF Plus

(* A load writes one byte after the other. *)
Shaped == {x \in Segmented : Shape(x)}
Placed(m, data, offset, n) == segmented_write(m, Plus(offset, n - 1), data[n])
Laid(data, offset) ==
  [p \in Shaped \X (1 .. Len(data)) |-> Placed(p[1], data, offset, p[2])]

(* Writing one byte of a load keeps the segments.                             *)
LEMMA LaidType ==
  ASSUME options \in Options, NEW data \in Seq(Byte), NEW offset \in Nat
  PROVE  /\ Laid(data, offset) \in [Shaped \X (1 .. Len(data)) -> Shaped]
         /\ \A m \in Shaped, n \in 1 .. Len(data) :
              Laid(data, offset)[<<m, n>>] = write_byte(m, Plus(offset, n - 1), data[n])
<1> DEFINE S == Shaped
<1>1. ASSUME NEW m \in S, NEW n \in 1 .. Len(data)
      PROVE  /\ Placed(m, data, offset, n) = write_byte(m, Plus(offset, n - 1), data[n])
             /\ Placed(m, data, offset, n) \in S
  <2>1. m \in Segmented /\ Shape(m) /\ m.type # "MONOLITHIC"
    BY DEF Segmented, Shaped
  <2>2. Plus(offset, n - 1) \in Nat
    <3>1. PICK k \in Int : k = n - 1
      OBVIOUS
    <3>2. offset \in Int
      OBVIOUS
    <3> QED BY <3>1, <3>2, PlusType, Zenon
  <2>3. data[n] \in Byte
    OBVIOUS
  <2>4. Placed(m, data, offset, n) = write_byte(m, Plus(offset, n - 1), data[n])
    BY <2>1, Zenon DEF Placed, write_byte
  <2>5. Shape(Placed(m, data, offset, n))
    BY <2>1, <2>2, <2>3, <2>4, Writes, Zenon
  <2>6. Placed(m, data, offset, n) \in Segmented
    BY <2>5, Zenon DEF Shape, ShapeFor
  <2> QED BY <2>4, <2>5, <2>6 DEF Shaped
<1> HIDE DEF S
<1>2. [p \in S \X (1 .. Len(data)) |-> Placed(p[1], data, offset, p[2])] \in [S \X (1 .. Len(data)) -> S]
  BY <1>1
<1>3. \A m \in S, n \in 1 .. Len(data) :
        [p \in S \X (1 .. Len(data)) |-> Placed(p[1], data, offset, p[2])][<<m, n>>] = Placed(m, data, offset, n)
  OBVIOUS
<1> QED BY <1>1, <1>2, <1>3, Zenon DEF Laid, S

(* The memories of a load. *)
LoadsBy(f, m, data, offset) ==
  /\ f[0] = m
  /\ \A n \in 1 .. Len(data) : f[n] = write_byte(f[n - 1], Plus(offset, n - 1), data[n])
  /\ segmented_load(m, data, offset).mem = f[Len(data)]

(* A load is the fold of its bytes' writes.                                   *)
LEMMA LoadFolds ==
  ASSUME options \in Options, NEW m, Shape(m), NEW data \in Seq(Byte), NEW offset \in Nat
  PROVE  \E f \in [0 .. Len(data) -> Shaped] : LoadsBy(f, m, data, offset)
<1> DEFINE S == Shaped
           G == Laid(data, offset)
           T == 1 .. Len(data)
           q == [i \in DOMAIN data |-> i]
           Folded(f) ==
             [n \in 0 .. Len(q) |->
                IF n = 0 THEN m ELSE CHOOSE r \in {Placed(p, data, offset, q[n]) : p \in {f[n - 1]}} : TRUE]
           fold == CHOOSE f : f = Folded(f)
<1>1. segmented_load(m, data, offset).mem = fold[Len(q)]
  BY DEF segmented_load, Accumulate, Placed
<1>2. /\ q \in Seq(T) /\ Len(q) = Len(data) /\ Len(q) \in Nat
      /\ \A n \in 1 .. Len(q) : q[n] = n /\ q[n] \in T
  OBVIOUS
<1>3. G \in [S \X T -> S] /\ \A x \in S, n \in T : G[<<x, n>>] = Placed(x, data, offset, n)
      /\ G[<<x, n>>] = write_byte(x, Plus(offset, n - 1), data[n])
  <2>1. \A x \in S, n \in T : G[<<x, n>>] = Placed(x, data, offset, n)
    BY DEF Laid
  <2> QED BY <2>1, LaidType
<1>4. m \in S
  BY DEF Shape, ShapeFor, Shaped
<1> HIDE DEF S, G, q, T
<1>5. PICK f \in [0 .. Len(q) -> S] : Folds(f, G, m, q)
  BY <1>2, <1>3, <1>4, FoldExists
<1>6. \A v : (CHOOSE r \in {v} : TRUE) = v
  OBVIOUS
<1>7. \A n \in 1 .. Len(q) : f[n - 1] \in S /\ q[n] \in T
  BY <1>2
<1>8. f = Folded(f)
  <2>1. \A n \in 1 .. Len(q) : f[n] = Placed(f[n - 1], data, offset, q[n])
    BY <1>3, <1>5, <1>7, Zenon DEF Folds
  <2>2. \A n \in 0 .. Len(q) : f[n] = Folded(f)[n]
    BY <1>5, <1>6, <2>1 DEF Folds
  <2> QED BY <2>2
<1> HIDE DEF Folded
<1>9. fold = Folded(fold)
  BY <1>8, Zenon
<1> USE DEF Folded
<1>10. fold[0] = m /\ \A n \in 1 .. Len(q) : fold[n] = Placed(fold[n - 1], data, offset, q[n])
  <2>1. Len(q) \in Nat
    BY <1>2
  <2>2. \A n \in 0 .. Len(q) : fold[n] = Folded(fold)[n]
    BY <1>9
  <2> HIDE DEF fold
  <2> QED BY <1>6, <2>1, <2>2
<1> HIDE DEF Folded, fold
<1>11. ASSUME NEW n \in 1 .. Len(q), fold[n - 1] \in S
       PROVE  fold[n] = G[<<fold[n - 1], q[n]>>]
  BY <1>3, <1>7, <1>10, <1>11, Zenon
<1>12. \A n \in 0 .. Len(q) : fold[n] = f[n]
  <2>1. FoldsWithin(fold, S, G, m, q)
    BY <1>10, <1>11 DEF FoldsWithin
  <2> QED BY <1>2, <1>5, <2>1, FoldIs
<1>13. \A n \in 1 .. Len(data) : f[n] = write_byte(f[n - 1], Plus(offset, n - 1), data[n])
  <2>1. ASSUME NEW n \in 1 .. Len(q) PROVE f[n] = write_byte(f[n - 1], Plus(offset, n - 1), data[n])
    <3>1. f[n] = G[<<f[n - 1], n>>] /\ n \in T
      BY <1>2, <1>5, Zenon DEF Folds
    <3> QED BY <1>3, <1>7, <3>1, Zenon
  <2> QED BY <1>2, <2>1
<1>14. f[0] = m /\ segmented_load(m, data, offset).mem = f[Len(data)] /\ f \in [0 .. Len(data) -> S]
  BY <1>1, <1>2, <1>5, <1>12 DEF Folds
<1> QED BY <1>13, <1>14 DEF S, LoadsBy

(* What a load leaves: its bytes, if the addresses do not wrap, and nothing    *)
(* else changed.                                                              *)
Leaves(w, m, data, offset) ==
  /\ Shape(w)
  /\ \A c \in Nat : (\A i \in 1 .. Len(data) : Plus(offset, i - 1) # c) => read_byte(w, c) = read_byte(m, c)
  /\ offset + Len(data) < WordMod =>
       \A i \in 1 .. Len(data) : Mapped(offset + i - 1) => read_byte(w, offset + i - 1) = data[i]

(* After a load its bytes are where they were put, and nothing else changed.  *)
LEMMA Loads ==
  ASSUME options \in Options, NEW m, Shape(m), NEW data \in Seq(Byte), NEW offset \in Nat
  PROVE  Leaves(segmented_load(m, data, offset).mem, m, data, offset)
<1>1. PICK f \in [0 .. Len(data) -> Shaped] : LoadsBy(f, m, data, offset)
  BY LoadFolds
<1>2. ASSUME NEW n \in 0 .. Len(data) PROVE Shape(f[n])
  BY DEF Shaped
<1>3. ASSUME NEW n \in 1 .. Len(data), NEW c \in Nat
      PROVE  read_byte(f[n], c) = IF c = Plus(offset, n - 1) /\ Mapped(Plus(offset, n - 1)) THEN data[n]
                                  ELSE read_byte(f[n - 1], c)
  <2>1. PICK k \in 0 .. Len(data) : k = n - 1
    OBVIOUS
  <2>2. Plus(offset, k) \in Nat /\ data[n] \in Byte
    <3>1. offset \in Int /\ k \in Int /\ data[n] \in Byte
      OBVIOUS
    <3> QED BY <3>1, PlusType, Zenon
  <2>3. \A d \in Nat : read_byte(write_byte(f[k], Plus(offset, k), data[n]), d) =
          IF d = Plus(offset, k) /\ Mapped(Plus(offset, k)) THEN data[n] ELSE read_byte(f[k], d)
    BY <1>2, <2>2, Writes, Zenon
  <2>4. f[n] = write_byte(f[k], Plus(offset, k), data[n])
    BY <1>1, <2>1, Zenon DEF LoadsBy
  <2> QED BY <2>1, <2>3, <2>4, Zenon
<1> DEFINE Same(n) == \A c \in Nat :
              (\A i \in 1 .. n : Plus(offset, i - 1) # c) => read_byte(f[n], c) = read_byte(m, c)
           Put(n) == offset + Len(data) < WordMod =>
              \A i \in 1 .. n : Mapped(offset + i - 1) => read_byte(f[n], offset + i - 1) = data[i]
           P == {n \in Nat : n <= Len(data) => Same(n) /\ Put(n)}
<1>4. 0 \in P
  BY <1>1 DEF LoadsBy
<1>5. ASSUME NEW n \in Nat, n \in P PROVE n + 1 \in P
  <2> SUFFICES ASSUME n + 1 <= Len(data) PROVE Same(n + 1) /\ Put(n + 1)
    OBVIOUS
  <2>1. Same(n) /\ Put(n) /\ n + 1 \in 1 .. Len(data) /\ n + 1 - 1 = n
    BY <1>5
  <2>2. \A c \in Nat : read_byte(f[n + 1], c) = IF c = Plus(offset, n) /\ Mapped(Plus(offset, n)) THEN data[n + 1]
                                                ELSE read_byte(f[n], c)
    BY <1>3, <2>1
  <2>3. Same(n + 1)
    <3> SUFFICES ASSUME NEW c \in Nat, \A i \in 1 .. n + 1 : Plus(offset, i - 1) # c
                 PROVE  read_byte(f[n + 1], c) = read_byte(m, c)
      OBVIOUS
    <3>1. Plus(offset, n) # c
      <4>1. PICK i \in 1 .. n + 1 : i - 1 = n
        BY <2>1
      <4>2. Plus(offset, i - 1) # c
        OBVIOUS
      <4> QED BY <4>1, <4>2, Zenon
    <3>2. \A i \in 1 .. n : Plus(offset, i - 1) # c
      OBVIOUS
    <3> QED BY <2>1, <2>2, <3>1, <3>2, Zenon
  <2>4. Put(n + 1)
    <3> SUFFICES ASSUME offset + Len(data) < WordMod, NEW i \in 1 .. n + 1, Mapped(offset + i - 1)
                 PROVE  read_byte(f[n + 1], offset + i - 1) = data[i]
      OBVIOUS
    <3>1. Plus(offset, n) = offset + n
      <4>1. WordMod \in Nat /\ offset + n < WordMod
        BY Words
      <4> HIDE DEF WordMod
      <4> QED BY <4>1 DEF Plus
    <3>2. PICK a \in Nat : a = offset + i - 1
      OBVIOUS
    <3>3. CASE i = n + 1
      <4>1. a = Plus(offset, n)
        BY <3>1, <3>2, <3>3
      <4> QED BY <2>2, <3>2, <3>3, <4>1, Zenon
    <3>4. CASE i # n + 1
      <4>1. i \in 1 .. n /\ a # Plus(offset, n)
        BY <3>1, <3>2, <3>4
      <4>2. read_byte(f[n], a) = data[i]
        BY <2>1, <3>2, <4>1, Zenon
      <4> QED BY <2>2, <3>2, <4>1, <4>2, Zenon
    <3> QED BY <3>3, <3>4
  <2> QED BY <2>3, <2>4
<1> HIDE DEF P
<1>6. Nat \subseteq P
  BY <1>4, <1>5, SetInduction
<1>7. Len(data) \in Nat /\ Len(data) \in P
  BY <1>6
<1> USE DEF P
<1>8. Same(Len(data)) /\ Put(Len(data))
  BY <1>7
<1> QED BY <1>1, <1>2, <1>7, <1>8 DEF LoadsBy, Leaves

(* The memory with the first n segments, all zero. *)
Fresh(s) == [start_address |-> s[1], size |-> s[2], readonly |-> FALSE, data |-> [a \in 0 .. s[2] - 1 |-> 0]]
Built(q, n) == [type |-> "SEGMENTED", segments |-> [k \in 1 .. n |-> Fresh(q[k])]]

(* Adding a segment.                                                          *)
LEMMA OneMore ==
  ASSUME NEW q, NEW n \in Nat \ {0}
  PROVE  add_segment(Built(q, n - 1), q[n][1], q[n][2], FALSE) = Built(q, n)
<1> DEFINE s == [k \in 1 .. n - 1 |-> Fresh(q[k])]
           t == [k \in 1 .. n |-> Fresh(q[k])]
           T == {Fresh(q[k]) : k \in 1 .. n}
<1> HIDE DEF T
<1>1. \A k \in 1 .. n : Fresh(q[k]) \in T
  BY DEF T
<1>2. Append(s, Fresh(q[n])) = t
  <2>1. PICK e : e = Fresh(q[n])
    OBVIOUS
  <2>2. s \in Seq(T) /\ Len(s) = n - 1 /\ \A k \in 1 .. n - 1 : s[k] = Fresh(q[k])
    BY <1>1
  <2>3. t \in Seq(T) /\ Len(t) = n /\ \A k \in 1 .. n : t[k] = Fresh(q[k])
    BY <1>1
  <2>4. n \in 1 .. n
    OBVIOUS
  <2>5. e \in T
    BY <1>1, <2>1, <2>4
  <2> HIDE DEF s, t
  <2>6. /\ Append(s, e) \in Seq(T) /\ Len(Append(s, e)) = n
        /\ Append(s, e)[n] = e /\ \A k \in 1 .. n - 1 : Append(s, e)[k] = s[k]
    BY <2>2, <2>5
  <2>7. \A k \in 1 .. n : k \in 1 .. n - 1 \/ k = n
    OBVIOUS
  <2>8. \A k \in 1 .. n : Append(s, e)[k] = t[k]
    BY <2>1, <2>2, <2>3, <2>4, <2>6, <2>7, Zenon
  <2>9. \A u, v \in Seq(T) : Len(u) = Len(v) /\ (\A k \in 1 .. Len(u) : u[k] = v[k]) => u = v
    OBVIOUS
  <2> QED BY <2>1, <2>3, <2>6, <2>8, <2>9
<1>3. Built(q, n - 1) = [type |-> "SEGMENTED", segments |-> s] /\ Built(q, n) = [type |-> "SEGMENTED", segments |-> t]
  BY Zenon DEF Built
<1> HIDE DEF s, t
<1>4. add_segment([type |-> "SEGMENTED", segments |-> s], q[n][1], q[n][2], FALSE)
        = [type |-> "SEGMENTED", segments |-> Append(s, Fresh(q[n]))]
  <2>1. PICK m, e : m = [type |-> "SEGMENTED", segments |-> s] /\ e = Append(s, Fresh(q[n]))
    OBVIOUS
  <2>2. m.segments = s
    BY <2>1
  <2>3. add_segment(m, q[n][1], q[n][2], FALSE) = [m EXCEPT !.segments = e]
    <3>1. add_segment(m, q[n][1], q[n][2], FALSE) = [m EXCEPT !.segments = Append(m.segments, Fresh(q[n]))]
      BY DEF add_segment, Fresh
    <3> QED BY <2>1, <2>2, <3>1, Zenon
  <2>4. [m EXCEPT !.segments = e] = [type |-> "SEGMENTED", segments |-> e]
    <3>1. \A x, y : [[type |-> "SEGMENTED", segments |-> x] EXCEPT !.segments = y] = [type |-> "SEGMENTED", segments |-> y]
      OBVIOUS
    <3> QED BY <2>1, <3>1, Zenon
  <2> QED BY <2>1, <2>3, <2>4, Zenon
<1> QED BY <1>2, <1>3, <1>4, Zenon

(* A new memory has the segments, and is zero.                                *)
LEMMA MemoryIs ==
  ASSUME options \in Options, 0 \in Byte
  PROVE  Shape(Memory(options)) /\ \A a \in Nat : read_byte(Memory(options), a) = 0
<1> DEFINE q == Segments(options)
           first == rv_simulator_init_segmented_memory
           More(m, s) == add_segment(m, s[1], s[2], FALSE)
           Folded(f) ==
             [n \in 0 .. Len(q) |->
                IF n = 0 THEN first ELSE CHOOSE r \in {More(p, q[n]) : p \in {f[n - 1]}} : TRUE]
           fold == CHOOSE f : f = Folded(f)
           g == [n \in 0 .. Len(q) |-> Built(q, n)]
<1>1. Memory(options) = fold[Len(q)]
  BY DEF Memory, Accumulate
<1>2. Len(q) = N /\ N \in Nat
  BY SegmentsFit DEF N
<1> HIDE DEF q
<1>3. Built(q, 0) = first
  BY DEF Built, rv_simulator_init_segmented_memory
<1>4. \A n \in 1 .. Len(q) : More(Built(q, n - 1), q[n]) = Built(q, n)
  <2> SUFFICES ASSUME NEW n \in 1 .. Len(q) PROVE More(Built(q, n - 1), q[n]) = Built(q, n)
    OBVIOUS
  <2>1. n \in Nat \ {0}
    BY <1>2
  <2> QED BY <2>1, OneMore, Zenon
<1> HIDE DEF first, More
<1>5. \A v : (CHOOSE r \in {v} : TRUE) = v
  OBVIOUS
<1>6. g = Folded(g)
  <2>1. \A n \in 1 .. Len(q) : g[n] = More(g[n - 1], q[n])
    BY <1>2, <1>4
  <2>2. g[0] = first
    BY <1>2, <1>3
  <2>3. \A n \in 0 .. Len(q) : g[n] = Folded(g)[n]
    BY <1>2, <1>5, <2>1, <2>2
  <2> QED BY <2>3
<1> HIDE DEF Folded
<1>7. fold = Folded(fold)
  BY <1>6, Zenon
<1> USE DEF Folded
<1>8. fold[0] = first /\ \A n \in 1 .. Len(q) : fold[n] = More(fold[n - 1], q[n])
  <2>1. \A n \in 0 .. Len(q) : fold[n] = Folded(fold)[n]
    BY <1>7
  <2> HIDE DEF fold
  <2> QED BY <1>2, <1>5, <2>1
<1> HIDE DEF Folded, fold, g
<1> DEFINE P == {n \in Nat : n <= Len(q) => fold[n] = Built(q, n)}
<1>9. 0 \in P
  BY <1>3, <1>8
<1>10. ASSUME NEW n \in Nat, n \in P PROVE n + 1 \in P
  <2> SUFFICES ASSUME n + 1 <= Len(q) PROVE fold[n + 1] = Built(q, n + 1)
    OBVIOUS
  <2>1. fold[n] = Built(q, n) /\ n + 1 \in 1 .. Len(q) /\ n + 1 - 1 = n
    BY <1>2, <1>10
  <2>2. PICK k \in 1 .. Len(q) : k = n + 1 /\ k - 1 = n
    BY <2>1
  <2>3. fold[k] = More(fold[n], q[k]) /\ More(Built(q, n), q[k]) = Built(q, k)
    BY <1>4, <1>8, <2>2, Zenon
  <2> QED BY <2>1, <2>2, <2>3, Zenon
<1> HIDE DEF P
<1>11. Nat \subseteq P
  BY <1>9, <1>10, SetInduction
<1>12. Memory(options) = Built(q, N)
  BY <1>1, <1>2, <1>11 DEF P
<1>13. PICK m : m = Memory(options)
  OBVIOUS
<1>14. /\ m.type = "SEGMENTED" /\ m = [type |-> "SEGMENTED", segments |-> m.segments]
       /\ m.segments = [k \in 1 .. N |-> Fresh(q[k])]
  BY <1>12, <1>13 DEF Built
<1>15. ASSUME NEW k \in 1 .. N
       PROVE  /\ m.segments[k] \in Segment
              /\ m.segments[k].start_address = q[k][1] /\ m.segments[k].size = q[k][2]
              /\ m.segments[k].data \in [0 .. m.segments[k].size - 1 -> Byte]
              /\ \A x \in 0 .. m.segments[k].size - 1 : m.segments[k].data[x] = 0
  <2>1. PICK s \in Nat \X Nat : s = q[k]
    BY SegmentsFit DEF q
  <2>10. PICK z \in Nat, e \in Nat : z = s[1] /\ e = s[2]
    BY <2>1
  <2>2. PICK d : d = [a \in 0 .. e - 1 |-> 0]
    OBVIOUS
  <2>3. d \in [0 .. e - 1 -> Byte] /\ \A x \in 0 .. e - 1 : d[x] = 0
    BY <2>2
  <2>4. d \in Data
    BY <2>3 DEF Data
  <2>5. m.segments[k] = [start_address |-> z, size |-> e, readonly |-> FALSE, data |-> d]
    BY <1>14, <2>1, <2>2, <2>10 DEF Fresh
  <2> QED BY <2>1, <2>10, <2>3, <2>4, <2>5 DEF Segment
<1>16. m.segments \in Seq(Segment) /\ Len(m.segments) = N
  BY <1>2, <1>14, <1>15
<1>17. m \in Segmented
  BY <1>14, <1>16 DEF Segmented
<1>18. Shape(m)
  BY <1>15, <1>16, <1>17, Zenon DEF Shape, ShapeFor, N, q
<1>19. ASSUME NEW a \in Nat PROVE read_byte(m, a) = 0
  <2>1. CASE ~ Mapped(a)
    BY <1>18, <2>1, ReadIs, Zenon
  <2>2. ASSUME NEW k \in 1 .. N, Within(q[k], a) PROVE read_byte(m, a) = 0
    <3>1. PICK x : x = a - q[k][1]
      OBVIOUS
    <3>2. x \in 0 .. m.segments[k].size - 1 /\ read_byte(m, a) = m.segments[k].data[x]
      BY <1>18, <2>2, <3>1, ReadIs, Zenon DEF q
    <3> QED BY <1>15, <3>2, Zenon
  <2> QED BY <2>1, <2>2, Zenon DEF Mapped, MappedFor, N, q
<1> QED BY <1>13, <1>18, <1>19, Zenon

(* Numbers of things, and where they are. *)
LEMMA Sizes ==
  /\ COLS * ROWS \in Nat \ {0} /\ FONT_HEIGHT \in Nat \ {0} /\ FONT_WIDTH \in Nat \ {0} /\ ColorMod \in Nat \ {0}
  /\ WIDTH \in Nat \ {0} /\ HEIGHT = WIDTH
  /\ WHITE \in Byte /\ WHITE \div ColorMod = 0 /\ WHITE % ColorMod = WHITE /\ 0 \in Byte /\ 0 % ColorMod = 0
  /\ ByteMod \in Nat \ {0} /\ ColorMod <= ByteMod
<1>1. /\ COLS \in Nat \ {0} /\ ROWS \in Nat \ {0} /\ FONT_HEIGHT \in Nat \ {0} /\ FONT_WIDTH \in Nat \ {0}
      /\ ColorMod \in Nat \ {0} /\ WIDTH \in Nat \ {0} /\ HEIGHT = WIDTH /\ ColorMod <= ByteMod
  BY SizeAssumption
<1>2. \A a, b \in Nat \ {0} : a * b \in Nat \ {0}
  OBVIOUS
<1>3. WHITE \in 0 .. ColorMod - 1
  BY <1>1 DEF WHITE
<1>4. WHITE \div ColorMod = 0 /\ WHITE % ColorMod = WHITE /\ 0 % ColorMod = 0
  BY <1>1, <1>3
<1>5. ByteMod \in Nat \ {0}
  BY Words
<1> QED BY <1>1, <1>2, <1>3, <1>4, <1>5 DEF Byte

(* Where the displays are.                                                    *)
LEMMA Places ==
  /\ LEDS_ADDR \in Nat /\ SCREENBUFFER_BASE_ADDR \in Nat /\ COLORBUFFER_BASE_ADDR \in Nat /\ FONTRAM_BASE_ADDR \in Nat /\ HUB75_BASE \in Nat
  /\ COLORBUFFER_BASE_ADDR + COLS * ROWS * 4 < WordMod
  /\ FONTRAM_BASE_ADDR + ByteMod * FONT_HEIGHT < WordMod
<1>1. \A i \in 1 .. 7 : Layout[i] \in Nat \X Nat /\ Layout[i][1] + Layout[i][2] < WordMod
  BY LayoutAssumption
<1>2. /\ Layout[2][1] = LEDS_ADDR /\ Layout[4][1] = SCREENBUFFER_BASE_ADDR
      /\ Layout[5][1] = COLORBUFFER_BASE_ADDR /\ Layout[5][2] = COLS * ROWS * 4
      /\ Layout[6][1] = FONTRAM_BASE_ADDR /\ Layout[6][2] = ByteMod * FONT_HEIGHT
      /\ Layout[7][1] = HUB75_BASE
  BY LayoutIs
<1>3. \A i \in 1 .. 7 : Layout[i][1] \in Nat
  BY <1>1
<1> QED BY <1>1, <1>2, <1>3

(* The displays that the options ask for are in memory. *)
LEMMA MappedIs ==
  ASSUME options \in Options, NEW a \in Nat
  PROVE  /\ Within(Layout[2], a) => Mapped(a)
         /\ \A i \in {4, 5, 6} : options.vga /\ Within(Layout[i], a) => Mapped(a)
         /\ options.hub75 /\ Within(Layout[7], a) => Mapped(a)
<1>1. N = 3 + (IF options.vga THEN 3 ELSE 0) + (IF options.hub75 THEN 1 ELSE 0)
  BY SegmentsAre
<1>2. ASSUME NEW i \in 1 .. N, Within(Layout[Place(i)], a) PROVE Mapped(a)
  BY <1>2, SegmentsAre, Zenon DEF Mapped, MappedFor, N
<1>3. Within(Layout[2], a) => Mapped(a)
  <2>1. 2 \in 1 .. N /\ Place(2) = 2
    BY <1>1 DEF Place
  <2> QED BY <1>2, <2>1
<1>4. ASSUME NEW i \in {4, 5, 6}, options.vga, Within(Layout[i], a) PROVE Mapped(a)
  <2>1. i \in 1 .. N /\ Place(i) = i
    BY <1>1, <1>4 DEF Place
  <2> QED BY <1>2, <1>4, <2>1
<1>5. ASSUME options.hub75, Within(Layout[7], a) PROVE Mapped(a)
  <2>1. CASE options.vga
    <3>1. 7 \in 1 .. N /\ Place(7) = 7
      BY <1>1, <1>5, <2>1 DEF Place
    <3> QED BY <1>2, <1>5, <3>1
  <2>2. CASE ~ options.vga
    <3>1. 4 \in 1 .. N /\ Place(4) = 7
      BY <1>1, <1>5, <2>2 DEF Place
    <3> QED BY <1>2, <1>5, <3>1
  <2> QED BY <2>1, <2>2
<1> QED BY <1>3, <1>4, <1>5

(* The addresses of a display's bytes: in its segment and in no other. *)
LEMMA WithinIs ==
  ASSUME NEW a \in Nat
  PROVE  /\ Within(Layout[2], a) <=> LEDS_ADDR <= a /\ a < LEDS_ADDR + 4
         /\ Within(Layout[4], a) <=> SCREENBUFFER_BASE_ADDR <= a /\ a < SCREENBUFFER_BASE_ADDR + COLS * ROWS
         /\ Within(Layout[5], a) <=> COLORBUFFER_BASE_ADDR <= a /\ a < COLORBUFFER_BASE_ADDR + COLS * ROWS * 4
         /\ Within(Layout[6], a) <=> FONTRAM_BASE_ADDR <= a /\ a < FONTRAM_BASE_ADDR + ByteMod * FONT_HEIGHT
         /\ Within(Layout[7], a) <=> HUB75_BASE <= a /\ a < HUB75_BASE + (WIDTH * HEIGHT * HUB75_N_BUFFERS + 1) * 4
         /\ \A i, j \in 1 .. 7 : Within(Layout[i], a) /\ Within(Layout[j], a) => i = j
<1>1. /\ Layout[2][1] = LEDS_ADDR /\ Layout[2][2] = 4
      /\ Layout[4][1] = SCREENBUFFER_BASE_ADDR /\ Layout[4][2] = COLS * ROWS
      /\ Layout[5][1] = COLORBUFFER_BASE_ADDR /\ Layout[5][2] = COLS * ROWS * 4
      /\ Layout[6][1] = FONTRAM_BASE_ADDR /\ Layout[6][2] = ByteMod * FONT_HEIGHT
      /\ Layout[7][1] = HUB75_BASE /\ Layout[7][2] = (WIDTH * HEIGHT * HUB75_N_BUFFERS + 1) * 4
  BY LayoutIs
<1>2. ASSUME NEW i \in 1 .. 7, NEW j \in 1 .. 7, Within(Layout[i], a), Within(Layout[j], a)
      PROVE  i = j
  <2>1. Layout[i] \in Nat \X Nat /\ Layout[j] \in Nat \X Nat
    BY LayoutAssumption
  <2>2. PICK p \in Nat, q \in Nat, r \in Nat, s \in Nat :
          p = Layout[i][1] /\ q = Layout[i][2] /\ r = Layout[j][1] /\ s = Layout[j][2]
    BY <2>1
  <2>3. i # j => p + q <= r \/ r + s <= p
    BY <2>2, LayoutAssumption, Zenon
  <2>4. p <= a /\ a < p + q /\ r <= a /\ a < r + s
    BY <1>2, <2>2, Zenon DEF Within
  <2> QED BY <2>3, <2>4
<1> QED BY <1>1, <1>2, Zenon DEF Within

(* The colours of one character, and of all. *)
White == <<COLOR_FG(WHITE), (WHITE \div ColorMod) % ColorMod>>

(* The two bytes of a colour before any call: white on black.                 *)
LEMMA WhiteIs == White \in Seq(Byte) /\ Len(White) = 2 /\ White[1] = WHITE /\ White[2] = 0
<1>1. COLOR_FG(WHITE) = WHITE /\ (WHITE \div ColorMod) % ColorMod = 0
  BY Sizes, Zenon DEF COLOR_FG
<1>2. White = <<WHITE, 0>>
  BY <1>1, Zenon DEF White
<1>3. WHITE \in Byte /\ 0 \in Byte
  BY Sizes
<1> HIDE DEF WHITE
<1> QED BY <1>2, <1>3

(* Writing the colour of one character.                                       *)
LEMMA OneColor ==
  ASSUME options \in Options, options.vga, NEW m, Shape(m), NEW i \in 0 .. COLS * ROWS - 1
  PROVE  LET w == segmented_load(m, White, COLORBUFFER_BASE_ADDR + 4 * i).mem
         IN  /\ Shape(w)
             /\ read_byte(w, COLORBUFFER_BASE_ADDR + 4 * i) = WHITE /\ read_byte(w, COLORBUFFER_BASE_ADDR + 4 * i + 1) = 0
             /\ \A c \in Nat : c # COLORBUFFER_BASE_ADDR + 4 * i /\ c # COLORBUFFER_BASE_ADDR + 4 * i + 1
                  => read_byte(w, c) = read_byte(m, c)
<1>1. PICK n \in Nat, b \in Nat, a \in Nat : n = COLS * ROWS /\ b = COLORBUFFER_BASE_ADDR /\ a = COLORBUFFER_BASE_ADDR + 4 * i
  BY Sizes, Places
<1>2. a = b + 4 * i /\ i \in 0 .. n - 1 /\ b + n * 4 < WordMod /\ WordMod \in Nat
  BY <1>1, Places, Words
<1>3. a >= b /\ a + 1 < b + n * 4
  BY <1>2
<1>4. Mapped(a) /\ Mapped(a + 1)
  <2>1. Within(Layout[5], a) /\ Within(Layout[5], a + 1)
    BY <1>1, <1>3, WithinIs
  <2> QED BY <2>1, MappedIs
<1> HIDE DEF WordMod
<1>5. a + 2 < WordMod /\ Plus(a, 0) = a /\ Plus(a, 1) = a + 1
  BY <1>2, <1>3 DEF Plus
<1> DEFINE w == segmented_load(m, White, a).mem
<1>6. /\ Shape(w)
      /\ \A c \in Nat : (\A k \in 1 .. 2 : Plus(a, k - 1) # c) => read_byte(w, c) = read_byte(m, c)
      /\ a + 2 < WordMod => \A k \in 1 .. 2 : Mapped(a + k - 1) => read_byte(w, a + k - 1) = White[k]
  <2>1. Leaves(w, m, White, a)
    BY WhiteIs, Loads, Zenon
  <2> HIDE DEF w
  <2>2. PICK d : d = White
    OBVIOUS
  <2>3. Len(d) = 2
    BY <2>2, WhiteIs
  <2> QED BY <2>1, <2>2, <2>3, Zenon DEF Leaves
<1> HIDE DEF w
<1>7. a + 1 - 1 = a /\ a + 2 - 1 = a + 1 /\ 1 - 1 = 0 /\ 2 - 1 = 1 /\ 1 \in 1 .. 2 /\ 2 \in 1 .. 2
      /\ \A k \in 1 .. 2 : k = 1 \/ k = 2
  BY <1>1
<1>8. read_byte(w, a) = WHITE /\ read_byte(w, a + 1) = 0
  BY <1>4, <1>5, <1>6, <1>7, WhiteIs
<1>9. \A c \in Nat : c # a /\ c # a + 1 => read_byte(w, c) = read_byte(m, c)
  BY <1>5, <1>6, <1>7
<1> QED BY <1>1, <1>6, <1>8, <1>9, Zenon DEF w

Poured(m, s) == segmented_load(m, s.bytes, s.addr).mem
Whites == {Store(COLORBUFFER_BASE_ADDR + 4 * i, White) : i \in 0 .. COLS * ROWS - 1}
Pour == [p \in Shaped \X Whites |-> Poured(p[1], p[2])]

(* Writing all of them is the fold of these writes.                           *)
LEMMA ColorFolds ==
  ASSUME options \in Options, options.vga, NEW m, Shape(m)
  PROVE  \E f \in [0 .. COLS * ROWS -> Shaped] :
           /\ f[0] = m /\ WriteAll(m, InitialColors) = f[COLS * ROWS]
           /\ \A n \in 1 .. COLS * ROWS : f[n] = segmented_load(f[n - 1], White, COLORBUFFER_BASE_ADDR + 4 * (n - 1)).mem
<1> DEFINE q == InitialColors
           Folded(f) ==
             [n \in 0 .. Len(q) |->
                IF n = 0 THEN m ELSE CHOOSE r \in {Poured(p, q[n]) : p \in {f[n - 1]}} : TRUE]
           fold == CHOOSE f : f = Folded(f)
<1>1. WriteAll(m, InitialColors) = fold[Len(q)]
  BY DEF WriteAll, Accumulate, Poured
<1>2. PICK z \in Nat : z = COLS * ROWS
  BY Sizes
<1>3. q = [i \in 1 .. z |-> Store(COLORBUFFER_BASE_ADDR + 4 * (i - 1), White)]
  BY <1>2, Zenon DEF InitialColors, White
<1>4. ASSUME NEW n \in 1 .. z PROVE Store(COLORBUFFER_BASE_ADDR + 4 * (n - 1), White) \in Whites
  <2>1. PICK i \in 0 .. z - 1 : i = n - 1
    OBVIOUS
  <2> QED BY <1>2, <2>1, Zenon DEF Whites
<1> HIDE DEF q
<1>5. q \in Seq(Whites) /\ Len(q) = z
      /\ \A n \in 1 .. z : q[n] = Store(COLORBUFFER_BASE_ADDR + 4 * (n - 1), White) /\ q[n] \in Whites
  BY <1>3, <1>4
<1>6. ASSUME NEW x \in Shaped, NEW s \in Whites
      PROVE  Poured(x, s) \in Shaped
  <2>1. PICK i \in 0 .. COLS * ROWS - 1 : s = Store(COLORBUFFER_BASE_ADDR + 4 * i, White)
    BY Zenon DEF Whites
  <2>2. Poured(x, s) = segmented_load(x, White, COLORBUFFER_BASE_ADDR + 4 * i).mem
    BY <2>1 DEF Poured, Store
  <2>3. Shape(x)
    BY Zenon DEF Shaped
  <2>4. Shape(Poured(x, s))
    BY <2>2, <2>3, OneColor, Zenon
  <2>5. Poured(x, s) \in Segmented
    BY <2>4, Zenon DEF Shape, ShapeFor
  <2> QED BY <2>4, <2>5 DEF Shaped
<1>7. Pour \in [Shaped \X Whites -> Shaped] /\ \A x \in Shaped, s \in Whites : Pour[<<x, s>>] = Poured(x, s)
  BY <1>6 DEF Pour
<1>8. m \in Shaped
  BY DEF Shape, ShapeFor, Shaped
<1>9. PICK f \in [0 .. Len(q) -> Shaped] : Folds(f, Pour, m, q)
  BY <1>5, <1>7, <1>8, FoldExists
<1>10. \A v : (CHOOSE r \in {v} : TRUE) = v
  OBVIOUS
<1>11. \A n \in 1 .. Len(q) : f[n - 1] \in Shaped /\ q[n] \in Whites
  BY <1>5
<1>12. f = Folded(f)
  <2>1. \A n \in 1 .. Len(q) : f[n] = Poured(f[n - 1], q[n])
    BY <1>7, <1>9, <1>11, Zenon DEF Folds
  <2>2. \A n \in 0 .. Len(q) : f[n] = Folded(f)[n]
    BY <1>9, <1>10, <2>1 DEF Folds
  <2> QED BY <2>2
<1> HIDE DEF Folded
<1>13. fold = Folded(fold)
  BY <1>12, Zenon
<1> USE DEF Folded
<1>14. fold[0] = m /\ \A n \in 1 .. Len(q) : fold[n] = Poured(fold[n - 1], q[n])
  <2>1. Len(q) \in Nat
    BY <1>5
  <2>2. \A n \in 0 .. Len(q) : fold[n] = Folded(fold)[n]
    BY <1>13
  <2> HIDE DEF fold
  <2> QED BY <1>10, <2>1, <2>2
<1> HIDE DEF Folded, fold
<1>15. ASSUME NEW n \in 1 .. Len(q), fold[n - 1] \in Shaped
       PROVE  fold[n] = Pour[<<fold[n - 1], q[n]>>]
  BY <1>7, <1>11, <1>14, <1>15, Zenon
<1>16. \A n \in 0 .. Len(q) : fold[n] = f[n]
  <2>1. FoldsWithin(fold, Shaped, Pour, m, q)
    BY <1>14, <1>15 DEF FoldsWithin
  <2> QED BY <1>5, <1>9, <2>1, FoldIs
<1>17. ASSUME NEW n \in 1 .. z
       PROVE  f[n] = segmented_load(f[n - 1], White, COLORBUFFER_BASE_ADDR + 4 * (n - 1)).mem
  <2>1. PICK x, a : x = f[n - 1] /\ a = COLORBUFFER_BASE_ADDR + 4 * (n - 1)
    OBVIOUS
  <2>2. q[n] = Store(a, White) /\ f[n] = Poured(x, q[n])
    BY <1>5, <1>7, <1>9, <1>11, <2>1, Zenon DEF Folds
  <2>3. f[n] = segmented_load(x, White, a).mem
    BY <2>2 DEF Poured, Store
  <2> QED BY <2>1, <2>3, Zenon
<1>18. f[0] = m /\ WriteAll(m, InitialColors) = f[z] /\ f \in [0 .. z -> Shaped]
  BY <1>1, <1>5, <1>9, <1>16 DEF Folds
<1> QED BY <1>2, <1>17, <1>18, Zenon

(* White on black in every character, and nothing else changed. *)
LEMMA Colored ==
  ASSUME options \in Options, options.vga, NEW m, Shape(m)
  PROVE  LET w == WriteAll(m, InitialColors)
         IN  /\ Shape(w)
             /\ \A i \in 0 .. COLS * ROWS - 1 :
                  read_byte(w, COLORBUFFER_BASE_ADDR + 4 * i) = WHITE /\ read_byte(w, COLORBUFFER_BASE_ADDR + 4 * i + 1) = 0
             /\ \A c \in Nat : ~ Within(Layout[5], c) => read_byte(w, c) = read_byte(m, c)
<1>1. PICK z \in Nat : z = COLS * ROWS
  BY Sizes
<1>2. PICK b \in Nat : b = COLORBUFFER_BASE_ADDR
  BY Places
<1>3. PICK f \in [0 .. z -> Shaped] :
           /\ f[0] = m /\ WriteAll(m, InitialColors) = f[z]
           /\ \A n \in 1 .. z : f[n] = segmented_load(f[n - 1], White, b + 4 * (n - 1)).mem
  BY <1>1, <1>2, ColorFolds
<1>4. \A n \in 0 .. z : Shape(f[n])
  BY DEF Shaped
<1>5. ASSUME NEW n \in 0 .. z - 1
      PROVE  /\ read_byte(f[n + 1], b + 4 * n) = WHITE /\ read_byte(f[n + 1], b + 4 * n + 1) = 0
             /\ \A c \in Nat : c # b + 4 * n /\ c # b + 4 * n + 1 => read_byte(f[n + 1], c) = read_byte(f[n], c)
  <2>1. PICK k \in 1 .. z : k = n + 1 /\ k - 1 = n
    OBVIOUS
  <2>2. f[k] = segmented_load(f[n], White, b + 4 * n).mem
    BY <1>3, <2>1, Zenon
  <2>3. Shape(f[n]) /\ n \in 0 .. COLS * ROWS - 1
    BY <1>1, <1>4
  <2>4. PICK w, x : w = f[k] /\ x = f[n]
    OBVIOUS
  <2>5. w = segmented_load(x, White, COLORBUFFER_BASE_ADDR + 4 * n).mem /\ Shape(x)
    BY <1>2, <2>2, <2>3, <2>4, Zenon
  <2>6. /\ read_byte(w, COLORBUFFER_BASE_ADDR + 4 * n) = WHITE /\ read_byte(w, COLORBUFFER_BASE_ADDR + 4 * n + 1) = 0
        /\ \A c \in Nat : c # COLORBUFFER_BASE_ADDR + 4 * n /\ c # COLORBUFFER_BASE_ADDR + 4 * n + 1
             => read_byte(w, c) = read_byte(x, c)
    BY <2>3, <2>5, OneColor, Zenon
  <2> QED BY <1>2, <2>1, <2>4, <2>6, Zenon
<1> DEFINE Shown(n) == \A i \in 0 .. n - 1 : read_byte(f[n], b + 4 * i) = WHITE /\ read_byte(f[n], b + 4 * i + 1) = 0
           Same(n) == \A c \in Nat : ~ (b <= c /\ c < b + z * 4) => read_byte(f[n], c) = read_byte(m, c)
           P == {n \in Nat : n <= z => Shown(n) /\ Same(n)}
<1>6. 0 \in P
  BY <1>3
<1>7. ASSUME NEW n \in Nat, n \in P PROVE n + 1 \in P
  <2> SUFFICES ASSUME n + 1 <= z PROVE Shown(n + 1) /\ Same(n + 1)
    OBVIOUS
  <2>1. Shown(n) /\ Same(n) /\ n \in 0 .. z - 1
    BY <1>7
  <2>2. /\ read_byte(f[n + 1], b + 4 * n) = WHITE /\ read_byte(f[n + 1], b + 4 * n + 1) = 0
        /\ \A c \in Nat : c # b + 4 * n /\ c # b + 4 * n + 1 => read_byte(f[n + 1], c) = read_byte(f[n], c)
    BY <1>5, <2>1
  <2>3. ASSUME NEW i \in 0 .. n + 1 - 1
        PROVE  read_byte(f[n + 1], b + 4 * i) = WHITE /\ read_byte(f[n + 1], b + 4 * i + 1) = 0
    <3>1. CASE i = n
      BY <2>2, <3>1
    <3>2. CASE i # n
      <4>1. PICK c \in Nat, d \in Nat : c = b + 4 * i /\ d = b + 4 * i + 1
        OBVIOUS
      <4>2. i \in 0 .. n - 1 /\ c # b + 4 * n /\ c # b + 4 * n + 1 /\ d # b + 4 * n /\ d # b + 4 * n + 1
        BY <3>2, <4>1
      <4>3. read_byte(f[n], c) = WHITE /\ read_byte(f[n], d) = 0
        BY <2>1, <4>1, <4>2, Zenon
      <4> QED BY <2>2, <4>1, <4>2, <4>3, Zenon
    <3> QED BY <3>1, <3>2
  <2>4. ASSUME NEW c \in Nat, ~ (b <= c /\ c < b + z * 4) PROVE read_byte(f[n + 1], c) = read_byte(m, c)
    <3>1. c # b + 4 * n /\ c # b + 4 * n + 1
      BY <2>1, <2>4
    <3> QED BY <2>1, <2>2, <2>4, <3>1, Zenon
  <2> QED BY <2>3, <2>4
<1> HIDE DEF P
<1>8. Nat \subseteq P
  BY <1>6, <1>7, SetInduction
<1>9. Shown(z) /\ Same(z) /\ z \in 0 .. z
  BY <1>8 DEF P
<1>10. \A c \in Nat : ~ Within(Layout[5], c) => ~ (b <= c /\ c < b + z * 4)
  BY <1>1, <1>2, WithinIs, Zenon
<1> QED BY <1>1, <1>2, <1>3, <1>4, <1>9, <1>10, Zenon

(* Loading a file is loading its image, or nothing.                           *)
LEMMA FileLoads ==
  ASSUME NEW m, Shape(m), NEW file, NEW offset
  PROVE  load_memory_from_file(m, file, ImageOf(file), offset).mem =
           IF file.exists THEN segmented_load(m, ImageOf(file), offset).mem ELSE m
<1>1. m.type # "MONOLITHIC"
  BY DEF Shape, ShapeFor, Segmented
<1>2. load_memory(m, ImageOf(file), offset) = segmented_load(m, ImageOf(file), offset)
  BY <1>1, Zenon DEF load_memory
<1> HIDE DEF Shape, ShapeFor
<1>3. file.exists => load_memory_from_file(m, file, ImageOf(file), offset).mem = load_memory(m, ImageOf(file), offset).mem
  BY DEF load_memory_from_file
<1>4. ~ file.exists => load_memory_from_file(m, file, ImageOf(file), offset).mem = m
  BY DEF load_memory_from_file
<1> QED BY <1>2, <1>3, <1>4, Zenon

(* The program is nowhere on a display. *)
LEMMA ProgramLoaded ==
  ASSUME options \in Options
  PROVE  LET m == load_memory_from_file(Memory(options), Image, ImageOf(Image), IF options.bootloader THEN SPRAM_BASE_ADDR ELSE 0).mem
         IN  Shape(m) /\ \A a \in Nat : Displayed(a) => read_byte(m, a) = 0
<1> DEFINE off == IF options.bootloader THEN SPRAM_BASE_ADDR ELSE 0
           m == load_memory_from_file(Memory(options), Image, ImageOf(Image), off).mem
<1>1. Shape(Memory(options)) /\ \A a \in Nat : read_byte(Memory(options), a) = 0
  BY MemoryIs, Sizes, Zenon
<1>2. off \in Nat
  <2>1. Layout[3] \in Nat \X Nat /\ Layout[3] = <<SPRAM_BASE_ADDR, SpramSize>>
    BY LayoutIs, LayoutAssumption
  <2>2. SPRAM_BASE_ADDR \in Nat
    BY <2>1
  <2> QED BY <2>2
<1>3. Image.exists => ImageOf(Image) \in Seq(Byte) /\ \A i \in DOMAIN ImageOf(Image) : ~ Displayed(Plus(off, i - 1))
  BY FileAssumption, Zenon
<1> HIDE DEF off
<1>4. CASE ~ Image.exists
  <2>1. m = Memory(options)
    <3>1. \A x, file, offset : Shape(x) /\ ~ file.exists => load_memory_from_file(x, file, ImageOf(file), offset).mem = x
      BY FileLoads, Zenon
    <3> QED BY <1>1, <1>4, <3>1, Zenon
  <2> QED BY <1>1, <2>1, Zenon DEF off
<1>5. CASE Image.exists
  <2>1. PICK data \in Seq(Byte) : data = ImageOf(Image)
    BY <1>3, <1>5
  <2>2. Leaves(m, Memory(options), data, off)
    BY <1>1, <1>2, <1>5, <2>1, FileLoads, Loads, Zenon
  <2> HIDE DEF m
  <2>3. DOMAIN data = 1 .. Len(data)
    OBVIOUS
  <2>4. ASSUME NEW a \in Nat, Displayed(a) PROVE read_byte(m, a) = 0
    <3>1. \A i \in 1 .. Len(data) : Plus(off, i - 1) # a
      BY <1>3, <1>5, <2>1, <2>3, <2>4, Zenon
    <3> QED BY <1>1, <2>2, <3>1, Zenon DEF Leaves
  <2> QED BY <2>2, <2>4, Zenon DEF Leaves, m, off
<1> QED BY <1>4, <1>5

(* What the windows find before the program has stored anything. *)
LEMMA LoadedIs ==
  ASSUME options \in Options
  PROVE  /\ Shape(Loaded(options))
         /\ \A a \in Nat : Within(Layout[2], a) \/ Within(Layout[4], a) \/ Within(Layout[7], a)
              => read_byte(Loaded(options), a) = 0
         /\ options.vga =>
              /\ \A i \in 0 .. COLS * ROWS - 1 :
                   /\ read_byte(Loaded(options), COLORBUFFER_BASE_ADDR + 4 * i) = WHITE
                   /\ read_byte(Loaded(options), COLORBUFFER_BASE_ADDR + 4 * i + 1) = 0
              /\ \A k \in 1 .. Len(Font.bytes) : read_byte(Loaded(options), FONTRAM_BASE_ADDR + k - 1) = Font.bytes[k]
<1> DEFINE off == IF options.bootloader THEN SPRAM_BASE_ADDR ELSE 0
           m == load_memory_from_file(Memory(options), Image, ImageOf(Image), off).mem
           w == WriteAll(m, InitialColors)
           u == load_memory_from_file(w, Font, ImageOf(Font), FONTRAM_BASE_ADDR).mem
<1>1. Loaded(options) = IF options.vga THEN u ELSE m
  BY Zenon DEF Loaded
<1>2. Shape(m) /\ \A a \in Nat : Displayed(a) => read_byte(m, a) = 0
  BY ProgramLoaded, Zenon
<1>3. \A a \in Nat : Within(Layout[2], a) \/ Within(Layout[4], a) \/ Within(Layout[7], a) => Displayed(a)
  BY DEF Displayed
<1>4. CASE ~ options.vga
  BY <1>1, <1>2, <1>3, <1>4, Zenon
<1>5. CASE options.vga
  <2> HIDE DEF m
  <2>1. /\ Shape(w)
        /\ \A i \in 0 .. COLS * ROWS - 1 :
             read_byte(w, COLORBUFFER_BASE_ADDR + 4 * i) = WHITE /\ read_byte(w, COLORBUFFER_BASE_ADDR + 4 * i + 1) = 0
        /\ \A c \in Nat : ~ Within(Layout[5], c) => read_byte(w, c) = read_byte(m, c)
    BY <1>2, <1>5, Colored, Zenon
  <2> HIDE DEF w
  <2>2. PICK data \in Seq(Byte) : data = Font.bytes /\ data = ImageOf(Font) /\ Len(data) <= ByteMod * FONT_HEIGHT
    BY FileAssumption, Zenon DEF ImageOf
  <2>3. PICK base \in Nat, size \in Nat : base = FONTRAM_BASE_ADDR /\ size = ByteMod * FONT_HEIGHT /\ base + size < WordMod
    BY Places, Sizes
  <2>4. Leaves(u, w, data, base)
    <3>1. u = segmented_load(w, data, base).mem
      <4>1. \A x, file, offset : Shape(x) /\ file.exists
              => load_memory_from_file(x, file, ImageOf(file), offset).mem = segmented_load(x, ImageOf(file), offset).mem
        BY FileLoads, Zenon
      <4>2. Font.exists
        BY FileAssumption
      <4> QED BY <2>1, <2>2, <2>3, <4>1, <4>2, Zenon
    <3> HIDE DEF u
    <3> QED BY <2>1, <3>1, Loads, Zenon
  <2> HIDE DEF u
  <2>5. WordMod \in Nat /\ Len(data) \in Nat /\ base + Len(data) < WordMod
    <3>1. WordMod \in Nat
      BY Words
    <3> HIDE DEF WordMod
    <3> QED BY <2>2, <2>3, <3>1
  <2> HIDE DEF WordMod
  <2>6. ASSUME NEW k \in 1 .. Len(data)
        PROVE  /\ Within(Layout[6], base + k - 1) /\ Plus(base, k - 1) = base + k - 1
               /\ base + k - 1 \in Nat
    <3>1. PICK a \in Nat : a = base + k - 1
      OBVIOUS
    <3>2. base <= a /\ a < base + size /\ a < WordMod
      BY <2>2, <2>3, <2>5, <3>1
    <3>3. Within(Layout[6], a)
      BY <2>3, <3>2, WithinIs
    <3>4. Plus(base, k - 1) = a
      BY <2>5, <3>1, <3>2 DEF Plus
    <3> QED BY <3>1, <3>3, <3>4
  <2>7. ASSUME NEW k \in 1 .. Len(data) PROVE read_byte(u, base + k - 1) = data[k]
    <3>1. Mapped(base + k - 1)
      <4>1. \A a \in Nat : Within(Layout[6], a) => Mapped(a)
        BY <1>5, MappedIs
      <4> QED BY <2>6, <4>1, Zenon
    <3> QED BY <2>4, <2>5, <3>1, Zenon DEF Leaves
  <2>8. ASSUME NEW a \in Nat, ~ Within(Layout[6], a) PROVE read_byte(u, a) = read_byte(w, a)
    <3>1. \A k \in 1 .. Len(data) : Plus(base, k - 1) # a
      BY <2>6, <2>8, Zenon
    <3> QED BY <2>4, <3>1, Zenon DEF Leaves
  <2>9. ASSUME NEW a \in Nat, Within(Layout[2], a) \/ Within(Layout[4], a) \/ Within(Layout[7], a)
        PROVE  read_byte(u, a) = 0
    <3>1. ~ Within(Layout[5], a) /\ ~ Within(Layout[6], a)
      BY <2>9, WithinIs
    <3>2. Displayed(a)
      BY <1>3, <2>9
    <3> QED BY <1>2, <2>1, <2>8, <3>1, <3>2, Zenon
  <2>10. ASSUME NEW i \in 0 .. COLS * ROWS - 1
         PROVE  read_byte(u, COLORBUFFER_BASE_ADDR + 4 * i) = WHITE /\ read_byte(u, COLORBUFFER_BASE_ADDR + 4 * i + 1) = 0
    <3>1. PICK z \in Nat, b \in Nat : z = COLS * ROWS /\ b = COLORBUFFER_BASE_ADDR
      BY Sizes, Places
    <3>2. PICK a \in Nat, d \in Nat : a = b + 4 * i /\ d = b + 4 * i + 1
      BY <3>1
    <3>3. b <= a /\ a < b + z * 4 /\ b <= d /\ d < b + z * 4
      BY <3>1, <3>2
    <3>4. Within(Layout[5], a) /\ Within(Layout[5], d)
      BY <3>1, <3>3, WithinIs
    <3>5. ~ Within(Layout[6], a) /\ ~ Within(Layout[6], d)
      BY <3>4, WithinIs
    <3>6. read_byte(w, a) = WHITE /\ read_byte(w, d) = 0
      BY <2>1, <3>1, <3>2, Zenon
    <3> QED BY <2>8, <3>1, <3>2, <3>5, <3>6, Zenon
  <2>11. Shape(u)
    BY <2>4, Zenon DEF Leaves
  <2> QED BY <1>1, <1>5, <2>2, <2>3, <2>7, <2>9, <2>10, <2>11, Zenon DEF u
<1> QED BY <1>4, <1>5

-----------------------------------------------------------------------------
(* Numbers in mixed bases. *)
LEMMA Digits ==
  ASSUME NEW n \in Nat \ {0}, NEW a \in Nat, NEW b \in 0 .. n - 1
  PROVE  a * n + b \in Nat /\ (a * n + b) \div n = a /\ (a * n + b) % n = b
<1>1. PICK z \in Nat : z = a * n + b
  OBVIOUS
<1>2. PICK q \in Int, r \in 0 .. n - 1 : q = z \div n /\ r = z % n /\ z = q * n + r
  OBVIOUS
<1>3. (q - a) * n = q * n - a * n /\ (q - a) * n = b - r
  BY <1>1, <1>2
<1>4. q = a
  <2>1. ASSUME q - a >= 1 PROVE FALSE
    <3>1. (q - a - 1) * n \in Nat /\ (q - a - 1) * n = (q - a) * n - n
      BY <1>2, <2>1
    <3> QED BY <1>3, <3>1
  <2>2. ASSUME a - q >= 1 PROVE FALSE
    <3>1. (a - q - 1) * n \in Nat /\ (a - q - 1) * n = - ((q - a) * n) - n
      BY <1>2, <2>2
    <3> QED BY <1>3, <3>1
  <2> QED BY <2>1, <2>2
<1> QED BY <1>1, <1>2, <1>3, <1>4

(* A number of two digits is below the product of the bases.                  *)
LEMMA Below ==
  ASSUME NEW n \in Nat, NEW m \in Nat, NEW a \in 0 .. m - 1, NEW b \in 0 .. n - 1
  PROVE  a * n + b \in 0 .. m * n - 1
<1>1. (m - 1 - a) * n \in Nat /\ (m - 1 - a) * n = m * n - n - a * n /\ a * n \in Nat /\ m * n \in Nat
  OBVIOUS
<1> QED BY <1>1

(* Two numbers with the same value have the same digits. *)
LEMMA SameDigits ==
  ASSUME NEW n \in Nat \ {0}, NEW a \in Nat, NEW b \in 0 .. n - 1, NEW c \in Nat, NEW d \in 0 .. n - 1,
         a * n + b = c * n + d
  PROVE  a = c /\ b = d
<1>1. (a * n + b) \div n = a /\ (a * n + b) % n = b
  BY Digits
<1>2. (c * n + d) \div n = c /\ (c * n + d) % n = d
  BY Digits
<1> QED BY <1>1, <1>2, Zenon

-----------------------------------------------------------------------------
(* What each call of the library stores. *)
LEMMA SmallBytes == 0 \in Byte /\ 1 \in Byte
<1>1. HexBase \in Nat /\ HexBase >= 2 /\ ByteMod = HexBase * HexBase
  BY ByteAssumption
<1>2. (HexBase - 2) * HexBase \in Nat /\ (HexBase - 2) * HexBase = HexBase * HexBase - 2 * HexBase
  BY <1>1
<1> QED BY <1>1, <1>2 DEF Byte

IsStore(o, a, n) == o.store.addr = a /\ o.store.bytes \in Seq(Byte) /\ Len(o.store.bytes) = n

(* The LEDs: one byte.                                                        *)
LEMMA LedsCall ==
  ASSUME NEW o, IsCall(o), o.shows.what = "leds"
  PROVE  IsStore(o, LEDS_ADDR, 1) /\ o.store.bytes[1] = o.shows.value
<1>1. o.shows.value \in Byte /\ o.store = Store(LEDS_ADDR, <<o.shows.value>>)
  BY DEF IsCall
<1>2. o.store.addr = LEDS_ADDR /\ o.store.bytes = <<o.shows.value>>
  BY <1>1 DEF Store
<1>3. PICK v, b : v \in Byte /\ v = o.shows.value /\ b = o.store.bytes
  BY <1>1
<1>4. b = <<v>>
  BY <1>2, <1>3, Zenon
<1>5. b \in Seq(Byte) /\ Len(b) = 1 /\ b[1] = v
  BY <1>3, <1>4
<1> QED BY <1>2, <1>3, <1>5, Zenon DEF IsStore

(* Selecting a buffer: the first byte of the control word is its number.      *)
LEMMA SelectCall ==
  ASSUME NEW o, IsCall(o), o.shows.what = "select"
  PROVE  IsStore(o, HUB75_CTL, 4) /\ o.store.bytes[1] = o.shows.value /\ o.shows.value \in {0, 1}
<1>1. PICK v, s : v \in 0 .. HUB75_N_BUFFERS - 1 /\ v = o.shows.value /\ s = o.store /\ <<s>> = hub75_select_buffer(v)
  BY DEF IsCall
<1>2. hub75_select_buffer(v) = <<Store(HUB75_CTL, <<v, 0, 0, 0>>)>>
  BY <1>1 DEF hub75_select_buffer
<1>3. s = Store(HUB75_CTL, <<v, 0, 0, 0>>)
  BY <1>1, <1>2
<1>4. v \in {0, 1}
  BY <1>1 DEF HUB75_N_BUFFERS
<1>5. v \in Byte /\ 0 \in Byte
  BY <1>4, SmallBytes
<1>6. s.addr = HUB75_CTL /\ s.bytes = <<v, 0, 0, 0>>
  BY <1>3 DEF Store
<1> QED BY <1>1, <1>4, <1>5, <1>6 DEF IsStore

(* Clearing the flag: the byte after it.                                      *)
LEMMA ClearCall ==
  ASSUME NEW o, IsCall(o), o.shows.what = "clear"
  PROVE  IsStore(o, HUB75_CTL + 1, 1)
<1>1. PICK s : s = o.store /\ <<s>> = hub75_clear_vsync_flag
  BY DEF IsCall
<1>2. s = Store(HUB75_VSYNC, <<1>>)
  BY <1>1 DEF hub75_clear_vsync_flag
<1>3. s.addr = HUB75_CTL + 1 /\ s.bytes = <<1>>
  BY <1>2 DEF Store, HUB75_VSYNC
<1>4. 1 \in Byte
  BY SmallBytes
<1> QED BY <1>1, <1>3, <1>4 DEF IsStore

(* A pixel: the word of its place, a byte for each component.                 *)
LEMMA PixelCall ==
  ASSUME NEW o, IsCall(o), o.shows.what = "pixel"
  PROVE  \E px \in 0 .. HEIGHT - 1, py \in 0 .. WIDTH - 1, buffer \in 0 .. 1 :
           /\ o.shows.at = <<px, py, buffer>>
           /\ o.shows.value \in [1 .. 3 -> {v \in Byte : 2 * v \in Byte}]
           /\ IsStore(o, HUB75_BASE + 4 * (px * WIDTH + py + WIDTH * HEIGHT * buffer), 4)
           /\ \A k \in 1 .. 3 : o.store.bytes[k] = o.shows.value[k]
<1>1. PICK v, s, at : v = o.shows.value /\ s = o.store /\ at = o.shows.at
  OBVIOUS
<1>2. /\ at \in (0 .. HEIGHT - 1) \X (0 .. WIDTH - 1) \X (0 .. HUB75_N_BUFFERS - 1)
      /\ v \in [1 .. 3 -> {x \in Byte : 2 * x \in Byte}]
      /\ <<s>> = hub75_set_pixel(at[1], at[2], at[3], hub75_color(v[1], v[2], v[3]))
  BY <1>1 DEF IsCall
<1>3. PICK px \in 0 .. HEIGHT - 1, py \in 0 .. WIDTH - 1, buffer \in 0 .. 1 : at = <<px, py, buffer>>
  BY <1>2 DEF HUB75_N_BUFFERS
<1>4. at[1] = px /\ at[2] = py /\ at[3] = buffer
  BY <1>3
<1>5. <<s>> = hub75_set_pixel(px, py, buffer, <<v[1], v[2], v[3], 0>>)
  BY <1>2, <1>4 DEF hub75_color
<1>6. s = Store(PixelAddr(px, py, buffer), <<v[1], v[2], v[3], 0>>)
  BY <1>5 DEF hub75_set_pixel
<1>7. s.addr = PixelAddr(px, py, buffer) /\ s.bytes = <<v[1], v[2], v[3], 0>>
  BY <1>6 DEF Store
<1>8. PixelAddr(px, py, buffer) = HUB75_BASE + 4 * (px * WIDTH + py + WIDTH * HEIGHT * buffer)
  BY DEF PixelAddr, HUB75_N_BUFFERS
<1>9. PICK x \in Byte, y \in Byte, z \in Byte : x = v[1] /\ y = v[2] /\ z = v[3]
  BY <1>2
<1>10. 0 \in Byte
  BY Words
<1>11. s.bytes \in Seq(Byte) /\ Len(s.bytes) = 4 /\ \A k \in 1 .. 3 : s.bytes[k] = v[k]
  BY <1>7, <1>9, <1>10
<1> QED BY <1>1, <1>2, <1>3, <1>7, <1>8, <1>11, Zenon DEF IsStore

(* A character: the byte of its cell.                                         *)
LEMMA CharCall ==
  ASSUME NEW o, IsCall(o), o.shows.what = "char"
  PROVE  /\ o.shows.at \in 0 .. COLS * ROWS - 1 /\ IsStore(o, SCREENBUFFER_BASE_ADDR + o.shows.at, 1)
         /\ o.store.bytes[1] = o.shows.value
         /\ o.shows.value \in Byte /\ FONT_HEIGHT * (o.shows.value + 1) <= Len(Font.bytes)
<1>1. /\ o.shows.at \in 0 .. COLS * ROWS - 1 /\ o.shows.value \in Byte
      /\ FONT_HEIGHT * (o.shows.value + 1) <= Len(Font.bytes)
      /\ o.store = Store(SCREENBUFFER_BASE_ADDR + o.shows.at, <<o.shows.value>>)
  BY DEF IsCall
<1>2. o.store.addr = SCREENBUFFER_BASE_ADDR + o.shows.at /\ o.store.bytes = <<o.shows.value>>
  BY <1>1 DEF Store
<1>3. o.store.bytes \in Seq(Byte) /\ Len(o.store.bytes) = 1 /\ o.store.bytes[1] = o.shows.value
  <2>1. PICK v, b : v \in Byte /\ v = o.shows.value /\ b = o.store.bytes
    BY <1>1
  <2>2. b = <<v>>
    BY <1>2, <2>1, Zenon
  <2>3. b \in Seq(Byte) /\ Len(b) = 1 /\ b[1] = v
    BY <2>1, <2>2
  <2> QED BY <2>1, <2>3, Zenon
<1> QED BY <1>1, <1>2, <1>3 DEF IsStore

(* Two colours fit in two bytes. *)
LEMMA TwoColors ==
  ASSUME NEW fg \in 0 .. WHITE, NEW bg \in 0 .. WHITE
  PROVE  LET b == BytesOf(COLOR_FG(fg) + COLOR_BG(bg))
         IN  /\ b \in Seq(Byte) /\ Len(b) = 4
             /\ LitColor(b[1] + ByteMod * b[2]) = fg /\ DarkColor(b[1] + ByteMod * b[2]) = bg
<1>1. ColorMod \in Nat \ {0} /\ ByteMod \in Nat \ {0} /\ ColorMod <= ByteMod
      /\ fg \in 0 .. ColorMod - 1 /\ bg \in 0 .. ColorMod - 1
  BY Sizes DEF WHITE
<1>2. fg % ColorMod = fg /\ bg % ColorMod = bg
  BY <1>1
<1>3. PICK color \in Nat : color = bg * ColorMod + fg
  BY <1>1
<1>4. COLOR_FG(fg) + COLOR_BG(bg) = color
  BY <1>1, <1>2, <1>3 DEF COLOR_FG, COLOR_BG
<1>5. \A k \in 1 .. 4 : ByteOf(color, k) \in Byte
  <2>1. \A d \in Nat \ {0} : (color \div d) % ByteMod \in 0 .. ByteMod - 1
    BY <1>1
  <2> QED BY <2>1, Words DEF ByteOf, Byte
<1>6. PICK b : b = BytesOf(color)
  OBVIOUS
<1>7. b \in Seq(Byte) /\ Len(b) = 4 /\ b[1] = ByteOf(color, 1) /\ b[2] = ByteOf(color, 2)
  <2>1. b = [k \in 1 .. 4 |-> ByteOf(color, k)]
    BY <1>6 DEF BytesOf
  <2> HIDE DEF Byte
  <2> QED BY <1>5, <2>1
<1>8. ByteOf(color, 1) = color % ByteMod /\ ByteOf(color, 2) = (color \div ByteMod) % ByteMod
  BY <1>3 DEF ByteOf, Pow256
<1>9. b[1] + ByteMod * b[2] = color
  <2>1. PICK q \in Int, r \in 0 .. ByteMod - 1 : q = color \div ByteMod /\ r = color % ByteMod /\ color = q * ByteMod + r
    BY <1>1
  <2>2. q \in 0 .. ByteMod - 1
    <3>1. color <= ColorMod * ColorMod - 1
      BY <1>1, <1>3, Below
    <3>2. ColorMod * ColorMod <= ByteMod * ByteMod
      <4>1. (ByteMod - ColorMod) * (ByteMod + ColorMod) \in Nat
        BY <1>1
      <4>2. (ByteMod - ColorMod) * (ByteMod + ColorMod) = ByteMod * ByteMod - ColorMod * ColorMod
        BY <1>1
      <4>3. ByteMod * ByteMod \in Nat /\ ColorMod * ColorMod \in Nat
        BY <1>1
      <4> QED BY <4>1, <4>2, <4>3
    <3>3. q >= 0
      BY <1>1, <2>1
    <3>4. q < ByteMod
      <4> SUFFICES ASSUME q >= ByteMod PROVE FALSE
        BY <1>1, <2>1
      <4>1. (q - ByteMod) * ByteMod \in Nat /\ (q - ByteMod) * ByteMod = q * ByteMod - ByteMod * ByteMod
        BY <1>1, <2>1
      <4>2. ByteMod * ByteMod \in Nat /\ ColorMod * ColorMod \in Nat /\ q * ByteMod \in Int
        BY <1>1, <2>1
      <4> QED BY <1>3, <2>1, <3>1, <3>2, <4>1, <4>2
    <3> QED BY <1>1, <2>1, <3>3, <3>4
  <2>3. q % ByteMod = q
    BY <1>1, <2>2
  <2>4. b[1] = r /\ b[2] = q
    BY <1>7, <1>8, <2>1, <2>3, Zenon
  <2> QED BY <1>1, <2>1, <2>4
<1>10. color % ColorMod = fg /\ color \div ColorMod = bg
  BY <1>1, <1>3, Digits
<1>11. LitColor(color) = fg /\ DarkColor(color) = bg
  BY <1>2, <1>10, Zenon DEF LitColor, DarkColor
<1> QED BY <1>4, <1>6, <1>7, <1>9, <1>11, Zenon

(* A character's colours: the first two bytes of its word.                    *)
LEMMA ColorCall ==
  ASSUME NEW o, IsCall(o), o.shows.what = "color"
  PROVE  /\ o.shows.at \in 0 .. COLS * ROWS - 1 /\ IsStore(o, COLORBUFFER_BASE_ADDR + 4 * o.shows.at, 4)
         /\ LitColor(o.store.bytes[1] + ByteMod * o.store.bytes[2]) = o.shows.value[1]
         /\ DarkColor(o.store.bytes[1] + ByteMod * o.store.bytes[2]) = o.shows.value[2]
<1>1. /\ o.shows.at \in 0 .. COLS * ROWS - 1 /\ o.shows.value \in (0 .. WHITE) \X (0 .. WHITE)
      /\ o.store = Store(COLORBUFFER_BASE_ADDR + 4 * o.shows.at, BytesOf(COLOR_FG(o.shows.value[1]) + COLOR_BG(o.shows.value[2])))
  BY DEF IsCall
<1>2. PICK fg \in 0 .. WHITE, bg \in 0 .. WHITE : fg = o.shows.value[1] /\ bg = o.shows.value[2]
  BY <1>1
<1>3. /\ o.store.addr = COLORBUFFER_BASE_ADDR + 4 * o.shows.at
      /\ o.store.bytes = BytesOf(COLOR_FG(fg) + COLOR_BG(bg))
  BY <1>1, <1>2 DEF Store
<1>4. PICK b : b = o.store.bytes
  OBVIOUS
<1>5. /\ b \in Seq(Byte) /\ Len(b) = 4
      /\ LitColor(b[1] + ByteMod * b[2]) = fg /\ DarkColor(b[1] + ByteMod * b[2]) = bg
  <2>1. b = BytesOf(COLOR_FG(fg) + COLOR_BG(bg))
    BY <1>3, <1>4, Zenon
  <2> QED BY <2>1, TwoColors, Zenon
<1> QED BY <1>1, <1>2, <1>3, <1>4, <1>5, Zenon DEF IsStore

(* Any other store is outside the displays, the library's screen included.    *)
Elsewheres == {"printed", "tinted", "other"}
LEMMA OtherCall ==
  ASSUME NEW o, IsCall(o), o.shows.what \in Elsewheres
  PROVE  /\ o.store.addr \in Nat /\ o.store.bytes \in Seq(Byte)
         /\ \A k \in 1 .. Len(o.store.bytes) : ~ Displayed(o.store.addr + k - 1)
BY DEF IsCall, Elsewheres

Kinds == {"leds", "select", "clear", "pixel", "char", "color"} \cup Elsewheres
(* There are no other calls.                                                  *)
LEMMA CallKinds == ASSUME NEW o, IsCall(o) PROVE o.shows.what \in Kinds
BY DEF IsCall, Kinds, Elsewheres

(* A call stores bytes at an address. *)
LEMMA CallStores ==
  ASSUME NEW o, IsCall(o)
  PROVE  o.store.addr \in Nat /\ o.store.bytes \in Seq(Byte)
<1>1. /\ LEDS_ADDR \in Nat /\ SCREENBUFFER_BASE_ADDR \in Nat /\ COLORBUFFER_BASE_ADDR \in Nat /\ HUB75_BASE \in Nat
      /\ WIDTH \in Nat /\ HEIGHT \in Nat /\ HUB75_CTL \in Nat
  BY Places, Sizes DEF HUB75_CTL, HUB75_N_BUFFERS
<1>2. CASE o.shows.what = "leds"
  BY <1>1, <1>2, LedsCall DEF IsStore
<1>3. CASE o.shows.what = "select"
  BY <1>1, <1>3, SelectCall DEF IsStore
<1>4. CASE o.shows.what = "clear"
  BY <1>1, <1>4, ClearCall DEF IsStore
<1>5. CASE o.shows.what = "pixel"
  <2>1. PICK px \in 0 .. HEIGHT - 1, py \in 0 .. WIDTH - 1, buffer \in 0 .. 1 :
           IsStore(o, HUB75_BASE + 4 * (px * WIDTH + py + WIDTH * HEIGHT * buffer), 4)
    BY <1>5, PixelCall, Zenon
  <2>2. HUB75_BASE + 4 * (px * WIDTH + py + WIDTH * HEIGHT * buffer) \in Nat
    BY <1>1
  <2> QED BY <2>1, <2>2, Zenon DEF IsStore
<1>6. CASE o.shows.what = "char"
  BY <1>1, <1>6, CharCall DEF IsStore
<1>7. CASE o.shows.what = "color"
  BY <1>1, <1>7, ColorCall DEF IsStore
<1>8. CASE o.shows.what \in Elsewheres
  BY <1>8, OtherCall
<1> QED BY <1>2, <1>3, <1>4, <1>5, <1>6, <1>7, <1>8, CallKinds DEF Kinds

(* A program's stores are such calls, and its last operation is none.         *)
LEMMA ProgramCalls ==
  ASSUME program \in Programs
  PROVE  /\ Len(program) \in Nat \ {0} /\ program[Len(program)].kind # "store"
         /\ \A i \in 1 .. Len(program) :
              /\ program[i].kind \in {"store", "vsync", "ebreak", "ecall", "other"}
              /\ program[i].kind = "store" =>
                   /\ IsCall(program[i])
                   /\ program[i].store.addr \in Nat /\ program[i].store.bytes \in Seq(Byte)
<1>1. /\ Len(program) \in Nat \ {0} /\ program[Len(program)].kind # "store"
      /\ \A i \in 1 .. Len(program) : /\ program[i].kind \in {"store", "vsync", "ebreak", "ecall", "other"}
                                      /\ program[i].kind = "store" => IsCall(program[i])
  BY ProgramAssumption, Zenon
<1> QED BY <1>1, CallStores, Zenon

(* The last store of a byte decides. *)
LEMMA LeftNext ==
  ASSUME NEW o, NEW p, NEW n \in Nat \ {0}, NEW a
  PROVE  Left(o, p, n + 1, a) = IF Covers(p[n], a) THEN Stored(p[n], a) ELSE Left(o, p, n, a)
<1> DEFINE old == Coverers(p, n, a)
           new == Coverers(p, n + 1, a)
<1>1. \A i : i \in new <=> i \in old \/ (i = n /\ Covers(p[n], a))
  <2>1. \A i : i \in 1 .. n + 1 - 1 <=> i \in 1 .. n - 1 \/ i = n
    OBVIOUS
  <2> QED BY <2>1 DEF Coverers
<1>2. CASE ~ Covers(p[n], a)
  <2>1. new = old
    BY <1>1, <1>2
  <2> QED BY <1>2, <2>1, Zenon DEF Left
<1>3. CASE Covers(p[n], a)
  <2>1. n \in new
    BY <1>1, <1>3, Zenon
  <2>2. \A i \in new : i \in Int /\ n >= i
    BY <1>1 DEF Coverers
  <2>3. Max(new) = n
    BY <2>1, <2>2 DEF Max
  <2>4. new # {}
    BY <2>1
  <2> QED BY <1>3, <2>3, <2>4, Zenon DEF Left
<1> QED BY <1>2, <1>3

(* From a store to the next: an operation that stores nothing, ... *)
LEMMA KeptNext ==
  ASSUME NEW o, NEW p, NEW m, NEW n, NEW bs, Kept(o, p, m, n, bs, FALSE),
         p[n].kind # "store", Len(p) \in Nat
  PROVE  Kept(o, p, m, IF n = Len(p) THEN n ELSE n + 1, bs, FALSE)
<1>1. CASE n = Len(p)
  BY <1>1, Zenon
<1>2. CASE n # Len(p)
  <2>1. n \in Nat \ {0} /\ n + 1 \in 1 .. Len(p)
    BY <1>2 DEF Kept
  <2>2. \A a : Left(o, p, n + 1, a) = Left(o, p, n, a)
    <3>1. \A a : ~ Covers(p[n], a)
      BY Zenon DEF Covers
    <3> QED BY <2>1, <3>1, LeftNext, Zenon
  <2>3. Kept(o, p, m, n + 1, bs, FALSE)
    BY <2>1, <2>2, Zenon DEF Kept
  <2> QED BY <1>2, <2>3, Zenon
<1> QED BY <1>1, <1>2

(* ... the beginning of a store, ... *)
LEMMA KeptBegin ==
  ASSUME NEW o, NEW p, NEW m, NEW n, NEW bs, Kept(o, p, m, n, bs, FALSE),
         p[n].kind = "store", p[n].store.addr \in Nat, p[n].store.bytes \in Seq(Byte)
  PROVE  Kept(o, p, m, n, p[n].store.bytes, TRUE)
<1>1. PICK s \in Seq(Byte), b \in Nat : s = p[n].store.bytes /\ b = p[n].store.addr
  OBVIOUS
<1>2. Len(s) \in Nat /\ Len(s) <= Len(s) /\ \A i \in 1 .. Len(s) : s[i] = s[Len(s) - Len(s) + i]
  OBVIOUS
<1>3. ASSUME NEW a \in Nat, Covers(p[n], a) PROVE ~ (a < b + (Len(s) - Len(s)))
  <2>1. b <= a
    BY <1>1, <1>3, Zenon DEF Covers
  <2> QED BY <2>1
<1> QED BY <1>1, <1>2, <1>3, Zenon DEF Kept

(* ... each of its bytes, ... *)
LEMMA KeptWrite ==
  ASSUME options \in Options, NEW p, NEW m, NEW n, NEW bs, Kept(options, p, m, n, bs, TRUE), bs # << >>,
         p[n].store.addr \in Nat, p[n].store.bytes \in Seq(Byte)
  PROVE  Kept(options, p, write_byte(m, p[n].store.addr + Len(p[n].store.bytes) - Len(bs), Head(bs)),
              n, Tail(bs), TRUE)
<1>1. PICK s \in Seq(Byte), b \in Nat : s = p[n].store.bytes /\ b = p[n].store.addr
  OBVIOUS
<1>2. /\ Shape(m) /\ n \in 1 .. Len(p) /\ bs \in Seq(Byte) /\ p[n].kind = "store"
      /\ Len(bs) <= Len(s) /\ \A i \in 1 .. Len(bs) : bs[i] = s[Len(s) - Len(bs) + i]
      /\ \A a \in Nat : Mapped(a) =>
           read_byte(m, a) =
             IF Covers(p[n], a) /\ a < b + (Len(s) - Len(bs)) THEN Stored(p[n], a) ELSE Left(options, p, n, a)
  BY <1>1, Zenon DEF Kept, Shape, Mapped
<1>3. PICK t \in Seq(Byte), d \in Nat, v \in Byte :
        /\ t = Tail(bs) /\ d = Len(s) - Len(bs) /\ v = Head(bs) /\ v = s[d + 1] /\ d + 1 <= Len(s)
        /\ Len(t) = Len(bs) - 1 /\ Len(s) - Len(t) = d + 1 /\ \A i \in 1 .. Len(t) : t[i] = s[d + 1 + i]
  <2>1. Len(bs) \in Nat /\ Len(s) \in Nat /\ Len(bs) >= 1
    BY <1>2
  <2>2. Len(s) - Len(bs) \in Nat /\ Head(bs) = bs[1] /\ bs[1] \in Byte
    BY <1>2, <2>1
  <2>3. bs[1] = s[Len(s) - Len(bs) + 1]
    BY <1>2, <2>1
  <2>4. Tail(bs) \in Seq(Byte) /\ Len(Tail(bs)) = Len(bs) - 1 /\ \A i \in 1 .. Len(bs) - 1 : Tail(bs)[i] = bs[i + 1]
    BY <1>2, <2>1
  <2>5. ASSUME NEW i \in 1 .. Len(bs) - 1 PROVE Tail(bs)[i] = s[Len(s) - Len(bs) + 1 + i]
    <3>1. i + 1 \in 1 .. Len(bs) /\ Len(s) - Len(bs) + (i + 1) = Len(s) - Len(bs) + 1 + i
      BY <2>1
    <3> QED BY <1>2, <2>4, <3>1
  <2>6. PICK t \in Seq(Byte), d \in Nat, v \in Byte : t = Tail(bs) /\ d = Len(s) - Len(bs) /\ v = Head(bs)
    BY <2>2, <2>4
  <2>7. v = s[d + 1] /\ \A i \in 1 .. Len(bs) - 1 : t[i] = s[d + 1 + i]
    BY <2>2, <2>3, <2>5, <2>6, Zenon
  <2>8. d + 1 <= Len(s) /\ Len(t) = Len(bs) - 1 /\ Len(s) - Len(t) = d + 1
    BY <2>1, <2>4, <2>6
  <2> QED BY <2>6, <2>7, <2>8, Zenon
<1>4. p[n].store.addr + Len(p[n].store.bytes) - Len(bs) = b + d
  BY <1>1, <1>2, <1>3
<1> DEFINE w == write_byte(m, b + d, v)
<1>5. /\ Shape(w)
      /\ \A c \in Nat : read_byte(w, c) = IF c = b + d /\ Mapped(b + d) THEN v ELSE read_byte(m, c)
  <2>1. b + d \in Nat
    OBVIOUS
  <2> QED BY <1>2, <2>1, Writes, Zenon
<1> HIDE DEF w
<1>6. ASSUME NEW a \in Nat
      PROVE  /\ Covers(p[n], a) <=> b <= a /\ a < b + Len(s)
             /\ Stored(p[n], a) = s[a - b + 1]
  BY <1>1, <1>2, Zenon DEF Covers, Stored
<1>7. ASSUME NEW a \in Nat, Mapped(a)
      PROVE  read_byte(w, a) =
               IF Covers(p[n], a) /\ a < b + (d + 1) THEN Stored(p[n], a) ELSE Left(options, p, n, a)
  <2>1. CASE a = b + d
    <3>0. b <= a /\ a < b + Len(s) /\ a < b + (d + 1) /\ a - b + 1 = d + 1
      <4>1. d < Len(s) /\ Len(s) \in Nat
        BY <1>3
      <4>2. \A z \in Nat : d < z => b <= b + d /\ b + d < b + z /\ b + d < b + (d + 1) /\ (b + d) - b + 1 = d + 1
        OBVIOUS
      <4> QED BY <2>1, <4>1, <4>2, Zenon
    <3>1. Covers(p[n], a) /\ a < b + (d + 1) /\ a - b + 1 = d + 1
      BY <1>6, <3>0, Zenon
    <3>2. read_byte(w, a) = v
      BY <1>5, <1>7, <2>1, Zenon
    <3> QED BY <1>3, <1>6, <3>1, <3>2, Zenon
  <2>2. CASE a # b + d
    <3>1. a < b + (d + 1) <=> a < b + d
      BY <2>2
    <3>2. read_byte(w, a) = read_byte(m, a)
      BY <1>5, <2>2, Zenon
    <3> QED BY <1>2, <1>3, <1>7, <3>1, <3>2, Zenon
  <2> QED BY <2>1, <2>2
<1>8. Kept(options, p, w, n, t, TRUE)
  <2>1. Len(t) <= Len(s)
    BY <1>2, <1>3
  <2> QED BY <1>1, <1>2, <1>3, <1>5, <1>7, <2>1, Zenon DEF Kept, Shape, Mapped
<1> QED BY <1>3, <1>4, <1>8, Zenon DEF w

(* ... and its end. *)
LEMMA KeptDone ==
  ASSUME NEW o, NEW p, NEW m, NEW n, Kept(o, p, m, n, << >>, TRUE),
         p[Len(p)].kind # "store", Len(p) \in Nat, p[n].store.addr \in Nat, p[n].store.bytes \in Seq(Byte)
  PROVE  Kept(o, p, m, IF n = Len(p) THEN n ELSE n + 1, << >>, FALSE)
<1>1. PICK s \in Seq(Byte), b \in Nat : s = p[n].store.bytes /\ b = p[n].store.addr
  OBVIOUS
<1>2. /\ ShapeFor(o, m) /\ n \in 1 .. Len(p) /\ p[n].kind = "store"
      /\ \A a \in Nat : MappedFor(o, a) =>
           read_byte(m, a) =
             IF Covers(p[n], a) /\ a < b + (Len(s) - Len(<< >>)) THEN Stored(p[n], a) ELSE Left(o, p, n, a)
  BY <1>1, Zenon DEF Kept
<1>3. n # Len(p)
  BY <1>2, Zenon
<1>4. n \in Nat \ {0} /\ n + 1 \in 1 .. Len(p)
  BY <1>2, <1>3
<1>5. ASSUME NEW a \in Nat, MappedFor(o, a) PROVE read_byte(m, a) = Left(o, p, n + 1, a)
  <2>1. Covers(p[n], a) => a < b + (Len(s) - Len(<< >>))
    <3>1. Len(<< >>) = 0 /\ Len(s) \in Nat
      OBVIOUS
    <3>2. Covers(p[n], a) => a < b + Len(s)
      BY <1>1, Zenon DEF Covers
    <3> QED BY <3>1, <3>2
  <2> QED BY <1>2, <1>4, <1>5, <2>1, LeftNext, Zenon
<1>6. << >> \in Seq(Byte)
  OBVIOUS
<1>7. Kept(o, p, m, n + 1, << >>, FALSE)
  BY <1>2, <1>4, <1>5, <1>6, Zenon DEF Kept
<1> QED BY <1>3, <1>7, Zenon

(* Before the first operation memory holds what was loaded.                   *)
LEMMA KeptInit ==
  ASSUME options \in Options, program \in Programs
  PROVE  Kept(options, program, Loaded(options), 1, << >>, FALSE)
<1>1. Shape(Loaded(options)) /\ 1 \in 1 .. Len(program) /\ << >> \in Seq(Byte)
  BY LoadedIs, ProgramCalls
<1>2. ASSUME NEW a PROVE Left(options, program, 1, a) = read_byte(Loaded(options), a)
  <2>1. Coverers(program, 1, a) = {}
    BY DEF Coverers
  <2> QED BY <2>1, Zenon DEF Left
<1> QED BY <1>1, <1>2, Zenon DEF Kept, Shape

(* The steps that store nothing and advance nothing. *)
Quiet == CreateThread \/ SetExit \/ Join \/ TypeKey \/ Window \/ CloseWindow \/ Interrupt \/ Terminated

(* They do neither.                                                           *)
LEMMA QuietKeeps ==
  ASSUME Quiet \/ UNCHANGED vars
  PROVE  /\ UNCHANGED <<options, program, mem, op, bytes>>
         /\ mphase' = "store" <=> mphase = "store"
<1>1. CASE Window \/ CloseWindow
  BY <1>1 DEF Window, CloseWindow, OpenWindows, LoopHead, DrawLeds, DrawHub75, DrawVga, Section
<1>2. CASE CreateThread \/ SetExit \/ Join \/ TypeKey
  BY <1>2 DEF TypeKey, PromptKey, CreateThread, SetExit, Join
<1>3. CASE Interrupt \/ Terminated \/ UNCHANGED vars
  BY <1>3 DEF Interrupt, Terminated, vars
<1> QED BY <1>1, <1>2, <1>3 DEF Quiet

(* Every step keeps account of what the program has stored.                   *)
LEMMA StoresStep ==
  ASSUME options \in Options, program \in Programs, Stores, [Next \/ Terminated]_vars
  PROVE  Stores' /\ UNCHANGED <<options, program>>
<1>1. /\ Len(program) \in Nat /\ program[Len(program)].kind # "store"
      /\ \A i \in 1 .. Len(program) : program[i].kind = "store" =>
              program[i].store.addr \in Nat /\ program[i].store.bytes \in Seq(Byte)
  BY ProgramCalls
<1>2. op \in 1 .. Len(program)
  BY DEF Stores, Kept
<1>3. CASE Quiet \/ UNCHANGED vars
  <2>1. UNCHANGED <<options, program, mem, op, bytes>> /\ (mphase' = "store" <=> mphase = "store")
    BY <1>3, QuietKeeps
  <2> QED BY <2>1 DEF Stores
<1>4. CASE Step
  <2>1. UNCHANGED <<options, program, mem>> /\ mphase = "run"
    BY <1>4 DEF Step
  <2>2. Kept(options, program, mem, op, bytes, FALSE)
    BY <2>1 DEF Stores
  <2>3. CASE UNCHANGED <<op, bytes>> /\ mphase' # "store"
    BY <2>1, <2>2, <2>3 DEF Stores
  <2>4. CASE Operation.kind # "store" /\ Advance /\ UNCHANGED bytes /\ mphase' # "store"
    <3>1. Kept(options, program, mem, IF op = Len(program) THEN op ELSE op + 1, bytes, FALSE)
      BY <1>1, <2>2, <2>4, KeptNext, Zenon DEF Operation
    <3> QED BY <2>1, <2>4, <3>1 DEF Stores, Advance
  <2>5. CASE Operation.kind = "store" /\ mphase' = "store" /\ bytes' = Operation.store.bytes /\ op' = op
    <3>1. Kept(options, program, mem, op, program[op].store.bytes, TRUE)
      BY <1>1, <1>2, <2>2, <2>5, KeptBegin, Zenon DEF Operation
    <3> QED BY <2>1, <2>5, <3>1, Zenon DEF Stores, Operation
  <2>6. Operation.kind \in {"store", "vsync", "ebreak", "ecall", "other"}
    BY <1>2, ProgramCalls DEF Operation
  <2> QED BY <1>4, <2>1, <2>3, <2>4, <2>5, <2>6 DEF Step
<1>5. CASE WriteByte
  <2>1. UNCHANGED <<options, program, op>> /\ mphase = "store" /\ mphase' = "store" /\ bytes # << >> /\ bytes' = Tail(bytes)
        /\ mem' = write_byte(mem, Operation.store.addr + Len(Operation.store.bytes) - Len(bytes), Head(bytes))
    BY <1>5 DEF WriteByte
  <2>2. Kept(options, program, mem, op, bytes, TRUE)
    BY <2>1 DEF Stores
  <2>3. program[op].kind = "store"
    BY <2>2 DEF Kept
  <2>4. Kept(options, program, mem', op, bytes', TRUE)
    BY <1>1, <1>2, <2>1, <2>2, <2>3, KeptWrite, Zenon DEF Operation
  <2> QED BY <2>1, <2>4, Zenon DEF Stores
<1>6. CASE StoreDone
  <2>1. UNCHANGED <<options, program, mem, bytes>> /\ mphase = "store" /\ mphase' = "run" /\ bytes = << >> /\ Advance
    BY <1>6 DEF StoreDone
  <2>2. Kept(options, program, mem, op, << >>, TRUE)
    BY <2>1 DEF Stores
  <2>3. program[op].kind = "store"
    BY <2>2 DEF Kept
  <2>4. Kept(options, program, mem, IF op = Len(program) THEN op ELSE op + 1, << >>, FALSE)
    BY <1>1, <1>2, <2>2, <2>3, KeptDone, Zenon
  <2> QED BY <2>1, <2>4 DEF Stores, Advance
<1> QED BY <1>3, <1>4, <1>5, <1>6 DEF Next, Main, Quiet

(* Which bytes a store of a known place and length covers.                    *)
LEMMA CoversIs ==
  ASSUME NEW o, o.kind = "store", NEW s \in Nat, NEW n \in Nat, IsStore(o, s, n), NEW a \in Nat
  PROVE  /\ Covers(o, a) <=> s <= a /\ a < s + n
         /\ \A k \in Nat : a = s + k => Stored(o, a) = o.store.bytes[k + 1]
<1>1. o.store.addr = s /\ Len(o.store.bytes) = n
  BY Zenon DEF IsStore
<1>2. Covers(o, a) <=> s <= a /\ a < s + n
  BY <1>1, Zenon DEF Covers
<1>3. ASSUME NEW k \in Nat, a = s + k PROVE Stored(o, a) = o.store.bytes[k + 1]
  <2>1. a - s + 1 = k + 1
    BY <1>3
  <2>2. Stored(o, a) = o.store.bytes[a - s + 1]
    BY <1>1, Zenon DEF Stored
  <2> QED BY <2>1, <2>2, Zenon
<1> QED BY <1>2, <1>3

(* The matrix in numbers. *)
LEMMA MatrixIs ==
  /\ WIDTH * HEIGHT \in Nat \ {0} /\ HUB75_CTL \in Nat /\ HUB75_CTL = HUB75_BASE + 8 * (WIDTH * HEIGHT)
  /\ \A a \in Nat : Within(Layout[7], a) <=> HUB75_BASE <= a /\ a < HUB75_BASE + 8 * (WIDTH * HEIGHT) + 4
<1>1. PICK w \in Nat \ {0} : w = WIDTH /\ w = HEIGHT
  BY Sizes
<1>2. PICK s \in Nat \ {0} : s = WIDTH * HEIGHT
  BY <1>1
<1>3. HUB75_CTL = HUB75_BASE + s * 4 * 2
  BY <1>2, Zenon DEF HUB75_CTL, HUB75_N_BUFFERS
<1>4. \A a \in Nat : Within(Layout[7], a) <=> HUB75_BASE <= a /\ a < HUB75_BASE + (s * 2 + 1) * 4
  BY <1>2, WithinIs, Zenon DEF HUB75_N_BUFFERS
<1>5. PICK b \in Nat : b = HUB75_BASE
  BY Places
<1>6. s * 4 * 2 = 8 * s /\ (s * 2 + 1) * 4 = 8 * s + 4 /\ b + (8 * s + 4) = b + 8 * s + 4
  OBVIOUS
<1>7. b + 8 * s \in Nat
  OBVIOUS
<1> QED BY <1>2, <1>3, <1>4, <1>5, <1>6, <1>7, Zenon

(* A pixel's number, and that no other pixel has it. *)
Index(px, py, buffer) == px * WIDTH + py + WIDTH * HEIGHT * buffer

LEMMA IndexIs ==
  ASSUME NEW px \in 0 .. HEIGHT - 1, NEW py \in 0 .. WIDTH - 1, NEW buffer \in 0 .. 1
  PROVE  /\ Index(px, py, buffer) \in 0 .. 2 * (WIDTH * HEIGHT) - 1
         /\ \A qx \in 0 .. HEIGHT - 1, qy \in 0 .. WIDTH - 1, other \in 0 .. 1 :
              Index(px, py, buffer) = Index(qx, qy, other) => px = qx /\ py = qy /\ buffer = other
<1>1. PICK w \in Nat \ {0} : w = WIDTH /\ w = HEIGHT
  BY Sizes
<1>2. PICK s \in Nat \ {0} : s = WIDTH * HEIGHT /\ s = w * w
  BY <1>1
<1>3. ASSUME NEW x \in 0 .. w - 1, NEW y \in 0 .. w - 1, NEW b \in 0 .. 1
      PROVE  /\ x * w + y \in 0 .. s - 1
             /\ Index(x, y, b) = b * s + (x * w + y)
             /\ Index(x, y, b) \in 0 .. 2 * s - 1
  <2>1. x * w + y \in 0 .. s - 1
    BY <1>2, Below
  <2>2. Index(x, y, b) = x * w + y + s * b
    BY <1>1, <1>2, Zenon DEF Index
  <2>3. b = 0 \/ b = 1
    OBVIOUS
  <2> QED BY <2>1, <2>2, <2>3
<1>4. ASSUME NEW qx \in 0 .. w - 1, NEW qy \in 0 .. w - 1, NEW other \in 0 .. 1,
             Index(px, py, buffer) = Index(qx, qy, other)
      PROVE  px = qx /\ py = qy /\ buffer = other
  <2>0. px \in 0 .. w - 1 /\ py \in 0 .. w - 1
    BY <1>1
  <2>1. PICK m \in 0 .. s - 1, n \in 0 .. s - 1 : m = px * w + py /\ n = qx * w + qy
    BY <1>3, <2>0
  <2>2. buffer * s + m = other * s + n
    <3>1. Index(px, py, buffer) = buffer * s + (px * w + py)
      BY <1>3, <2>0, Zenon
    <3>2. Index(qx, qy, other) = other * s + (qx * w + qy)
      BY <1>3, Zenon
    <3> QED BY <1>4, <2>1, <3>1, <3>2, Zenon
  <2>3. buffer = other /\ m = n
    BY <2>2, SameDigits
  <2>4. px \in Nat /\ qx \in Nat /\ px * w + py = qx * w + qy
    BY <2>0, <2>1, <2>3
  <2>5. px = qx /\ py = qy
    BY <2>0, <2>4, SameDigits
  <2> QED BY <2>3, <2>5
<1> QED BY <1>1, <1>2, <1>3, <1>4, Zenon

(* Which kinds of call store where. *)
LEMMA RegionIs ==
  ASSUME NEW o, o.kind = "store", IsCall(o), NEW a \in Nat, Covers(o, a)
  PROVE  /\ Within(Layout[2], a) => o.shows.what = "leds"
         /\ Within(Layout[4], a) => o.shows.what = "char"
         /\ Within(Layout[5], a) => o.shows.what = "color"
         /\ ~ Within(Layout[6], a)
         /\ Within(Layout[7], a) => o.shows.what \in {"select", "clear", "pixel"}
<1>1. PICK led \in Nat, char \in Nat, color \in Nat, base \in Nat, s \in Nat \ {0}, z \in Nat :
        /\ led = LEDS_ADDR /\ char = SCREENBUFFER_BASE_ADDR /\ color = COLORBUFFER_BASE_ADDR /\ base = HUB75_BASE
        /\ s = WIDTH * HEIGHT /\ z = COLS * ROWS
  BY Places, Sizes, MatrixIs
<1>2. \A i, j \in 1 .. 7 : Within(Layout[i], a) /\ Within(Layout[j], a) => i = j
  BY WithinIs
<1>3. CASE o.shows.what = "leds"
  <2>1. led <= a /\ a < led + 1
    BY <1>1, <1>3, LedsCall, CoversIs
  <2>2. Within(Layout[2], a)
    BY <1>1, <2>1, WithinIs
  <2> QED BY <1>2, <1>3, <2>2
<1>4. CASE o.shows.what = "char"
  <2>1. PICK i \in 0 .. z - 1 : i = o.shows.at /\ IsStore(o, char + i, 1)
    BY <1>1, <1>4, CharCall, Zenon
  <2>2. char + i <= a /\ a < char + i + 1
    <3>1. PICK b \in Nat : b = char + i
      OBVIOUS
    <3>2. b <= a /\ a < b + 1
      BY <2>1, <3>1, CoversIs
    <3> QED BY <3>1, <3>2
  <2>3. char <= a /\ a < char + z
    BY <2>2
  <2>4. Within(Layout[4], a)
    BY <1>1, <2>3, WithinIs
  <2> QED BY <1>2, <1>4, <2>4
<1>5. CASE o.shows.what = "color"
  <2>1. PICK i \in 0 .. z - 1 : i = o.shows.at /\ IsStore(o, color + 4 * i, 4)
    BY <1>1, <1>5, ColorCall, Zenon
  <2>2. color + 4 * i <= a /\ a < color + 4 * i + 4
    BY <2>1, CoversIs
  <2>3. color <= a /\ a < color + z * 4
    BY <2>2
  <2>4. Within(Layout[5], a)
    BY <1>1, <2>3, WithinIs
  <2> QED BY <1>2, <1>5, <2>4
<1>6. CASE o.shows.what \in Elsewheres
  <2>1. PICK b \in Nat, n \in Nat : b = o.store.addr /\ n = Len(o.store.bytes) /\ b <= a /\ a < b + n
    BY <1>6, OtherCall DEF Covers
  <2>2. PICK k \in 1 .. n : a = b + k - 1
    <3>1. a - b + 1 \in 1 .. n /\ a = b + (a - b + 1) - 1
      BY <2>1
    <3> QED BY <3>1
  <2>3. ~ Displayed(a)
    BY <1>6, <2>1, <2>2, OtherCall, Zenon
  <2> QED BY <2>3 DEF Displayed
<1>7. CASE o.shows.what \in {"select", "clear", "pixel"}
  <2>1. Within(Layout[7], a)
    <3>1. PICK ctl \in Nat : ctl = HUB75_CTL /\ ctl = base + 8 * s
      BY <1>1, MatrixIs
    <3>2. CASE o.shows.what = "select"
      <4>1. ctl <= a /\ a < ctl + 4
        BY <3>1, <3>2, SelectCall, CoversIs
      <4>2. base <= a /\ a < base + 8 * s + 4
        BY <3>1, <4>1
      <4> QED BY <1>1, <4>2, MatrixIs, Zenon
    <3>3. CASE o.shows.what = "clear"
      <4>1. ctl + 1 <= a /\ a < ctl + 1 + 1
        BY <3>1, <3>3, ClearCall, CoversIs
      <4>2. base <= a /\ a < base + 8 * s + 4
        BY <3>1, <4>1
      <4> QED BY <1>1, <4>2, MatrixIs, Zenon
    <3>4. CASE o.shows.what = "pixel"
      <4>1. PICK px \in 0 .. HEIGHT - 1, py \in 0 .. WIDTH - 1, buffer \in 0 .. 1 :
              IsStore(o, base + 4 * Index(px, py, buffer), 4)
        BY <1>1, <3>4, PixelCall, Zenon DEF Index
      <4>2. PICK i \in 0 .. 2 * s - 1 : i = Index(px, py, buffer)
        BY <1>1, IndexIs
      <4>3. base + 4 * i <= a /\ a < base + 4 * i + 4
        BY <4>1, <4>2, CoversIs
      <4>4. base <= a /\ a < base + 8 * s + 4
        BY <4>3
      <4> QED BY <1>1, <4>4, MatrixIs, Zenon
    <3> QED BY <1>7, <3>2, <3>3, <3>4
  <2> QED BY <1>2, <1>7, <2>1
<1> QED BY <1>3, <1>4, <1>5, <1>6, <1>7, CallKinds DEF Kinds

(* Each byte that a window reads is stored by the calls that say they show it. *)
LEMMA LedsCover ==
  ASSUME NEW o, o.kind = "store", IsCall(o)
  PROVE  /\ Covers(o, LEDS_ADDR) <=> o.shows.what = "leds"
         /\ o.shows.what = "leds" => Stored(o, LEDS_ADDR) = o.shows.value
<1>1. PICK a \in Nat : a = LEDS_ADDR /\ Within(Layout[2], a)
  <2>1. LEDS_ADDR \in Nat
    BY Places
  <2> QED BY <2>1, WithinIs
<1>2. Covers(o, a) => o.shows.what = "leds"
  BY <1>1, RegionIs, Zenon
<1>3. ASSUME o.shows.what = "leds" PROVE Covers(o, a) /\ Stored(o, a) = o.shows.value
  <2>1. IsStore(o, a, 1) /\ o.store.bytes[1] = o.shows.value
    BY <1>1, <1>3, LedsCall, Zenon
  <2>2. a <= a /\ a < a + 1 /\ a = a + 0 /\ 0 + 1 = 1
    OBVIOUS
  <2>3. Stored(o, a) = o.store.bytes[0 + 1]
    BY <2>1, <2>2, CoversIs
  <2> QED BY <2>1, <2>2, <2>3, CoversIs
<1> QED BY <1>1, <1>2, <1>3, Zenon

(* The selected buffer.                                                       *)
LEMMA SelectCover ==
  ASSUME NEW o, o.kind = "store", IsCall(o)
  PROVE  /\ Covers(o, HUB75_CTL) <=> o.shows.what = "select"
         /\ o.shows.what = "select" => Stored(o, HUB75_CTL) = o.shows.value /\ o.shows.value \in {0, 1}
<1>1. PICK base \in Nat, s \in Nat \ {0}, a \in Nat :
        base = HUB75_BASE /\ s = WIDTH * HEIGHT /\ a = HUB75_CTL /\ a = base + 8 * s
  BY Places, MatrixIs
<1>2. Within(Layout[7], a)
  BY <1>1, MatrixIs
<1>3. ASSUME Covers(o, a) PROVE o.shows.what = "select"
  <2>1. o.shows.what \in {"select", "clear", "pixel"}
    BY <1>2, <1>3, RegionIs
  <2>2. ASSUME o.shows.what = "clear" PROVE FALSE
    <3>1. PICK b \in Nat : b = a + 1
      OBVIOUS
    <3>2. b <= a
      BY <1>1, <1>3, <2>2, <3>1, ClearCall, CoversIs
    <3> QED BY <3>1, <3>2
  <2>3. ASSUME o.shows.what = "pixel" PROVE FALSE
    <3>1. PICK px \in 0 .. HEIGHT - 1, py \in 0 .. WIDTH - 1, buffer \in 0 .. 1 :
            IsStore(o, base + 4 * Index(px, py, buffer), 4)
      BY <1>1, <2>3, PixelCall, Zenon DEF Index
    <3>2. PICK i \in 0 .. 2 * s - 1 : i = Index(px, py, buffer)
      BY <1>1, IndexIs
    <3>3. PICK b \in Nat : b = base + 4 * i
      OBVIOUS
    <3>4. a < b + 4
      BY <1>3, <3>1, <3>2, <3>3, CoversIs
    <3> QED BY <1>1, <3>3, <3>4
  <2> QED BY <2>1, <2>2, <2>3
<1>4. ASSUME o.shows.what = "select"
      PROVE  Covers(o, a) /\ Stored(o, a) = o.shows.value /\ o.shows.value \in {0, 1}
  <2>1. IsStore(o, a, 4) /\ o.store.bytes[1] = o.shows.value /\ o.shows.value \in {0, 1}
    BY <1>1, <1>4, SelectCall, Zenon
  <2>2. a <= a /\ a < a + 4 /\ a = a + 0 /\ 0 + 1 = 1
    OBVIOUS
  <2>3. Stored(o, a) = o.store.bytes[0 + 1]
    BY <2>1, <2>2, CoversIs
  <2> QED BY <2>1, <2>2, <2>3, CoversIs
<1> QED BY <1>1, <1>3, <1>4, Zenon

(* A component of a pixel.                                                    *)
LEMMA PixelCover ==
  ASSUME NEW o, o.kind = "store", IsCall(o),
         NEW px \in 0 .. HEIGHT - 1, NEW py \in 0 .. WIDTH - 1, NEW buffer \in 0 .. 1, NEW k \in 1 .. 3
  PROVE  LET a == HUB75_BASE + 4 * Index(px, py, buffer) + (k - 1)
             shown == o.shows.what = "pixel" /\ o.shows.at = <<px, py, buffer>>
         IN  /\ Covers(o, a) <=> shown
             /\ shown => Stored(o, a) = o.shows.value[k] /\ o.shows.value[k] \in {v \in Byte : 2 * v \in Byte}
<1>1. PICK base \in Nat, s \in Nat \ {0} : base = HUB75_BASE /\ s = WIDTH * HEIGHT
  BY Places, MatrixIs
<1>2. PICK i \in 0 .. 2 * s - 1 : i = Index(px, py, buffer)
  BY <1>1, IndexIs
<1>3. PICK a \in Nat, b \in Nat : b = base + 4 * i /\ a = base + 4 * i + (k - 1) /\ a = b + (k - 1)
  OBVIOUS
<1>4. Within(Layout[7], a)
  <2>1. base <= a /\ a < base + 8 * s + 4
    BY <1>3
  <2> QED BY <1>1, <2>1, MatrixIs, Zenon
<1>5. ASSUME Covers(o, a) PROVE o.shows.what = "pixel" /\ o.shows.at = <<px, py, buffer>>
  <2>1. o.shows.what \in {"select", "clear", "pixel"}
    BY <1>4, <1>5, RegionIs
  <2>2. PICK ctl \in Nat : ctl = HUB75_CTL /\ ctl = base + 8 * s
    BY <1>1, MatrixIs
  <2>3. a < ctl
    BY <1>2, <1>3, <2>2
  <2>4. ASSUME o.shows.what = "clear" PROVE FALSE
    <3>1. PICK c \in Nat : c = ctl + 1
      OBVIOUS
    <3>2. c <= a
      BY <1>5, <2>2, <2>4, <3>1, ClearCall, CoversIs
    <3> QED BY <2>3, <3>1, <3>2
  <2>5. ASSUME o.shows.what = "select" PROVE FALSE
    <3>1. ctl <= a
      BY <1>5, <2>2, <2>5, SelectCall, CoversIs
    <3> QED BY <2>3, <3>1
  <2>6. o.shows.what = "pixel"
    BY <2>1, <2>4, <2>5
  <2>7. PICK qx \in 0 .. HEIGHT - 1, qy \in 0 .. WIDTH - 1, other \in 0 .. 1 :
          o.shows.at = <<qx, qy, other>> /\ IsStore(o, base + 4 * Index(qx, qy, other), 4)
    BY <1>1, <2>6, PixelCall, Zenon DEF Index
  <2>8. PICK j \in 0 .. 2 * s - 1, c \in Nat : j = Index(qx, qy, other) /\ c = base + 4 * j
    <3>1. Index(qx, qy, other) \in 0 .. 2 * s - 1
      BY <1>1, IndexIs
    <3> QED BY <3>1
  <2>9. c <= a /\ a < c + 4
    BY <1>5, <2>7, <2>8, CoversIs
  <2>10. i = j
    <3>1. PICK d \in 0 .. 2 : d = k - 1 /\ a = b + d
      BY <1>3
    <3>2. 4 * j <= 4 * i + d /\ 4 * i + d < 4 * j + 4
      BY <1>3, <2>8, <2>9, <3>1
    <3>3. j \in Int /\ i \in Int
      BY <1>2, <2>8
    <3> QED BY ONLY <3>2, <3>3, d \in 0 .. 2
  <2>11. \A x \in 0 .. HEIGHT - 1, y \in 0 .. WIDTH - 1, n \in 0 .. 1 :
           Index(px, py, buffer) = Index(x, y, n) => px = x /\ py = y /\ buffer = n
    BY IndexIs
  <2>12. px = qx /\ py = qy /\ buffer = other
    BY <1>2, <2>7, <2>8, <2>10, <2>11, Zenon
  <2> QED BY <2>6, <2>7, <2>12, Zenon
<1>6. ASSUME o.shows.what = "pixel", o.shows.at = <<px, py, buffer>>
      PROVE  Covers(o, a) /\ Stored(o, a) = o.shows.value[k] /\ o.shows.value[k] \in {v \in Byte : 2 * v \in Byte}
  <2>1. PICK qx \in 0 .. HEIGHT - 1, qy \in 0 .. WIDTH - 1, other \in 0 .. 1 :
          /\ o.shows.at = <<qx, qy, other>>
          /\ o.shows.value \in [1 .. 3 -> {v \in Byte : 2 * v \in Byte}]
          /\ IsStore(o, base + 4 * Index(qx, qy, other), 4)
          /\ \A n \in 1 .. 3 : o.store.bytes[n] = o.shows.value[n]
    BY <1>1, <1>6, PixelCall, Zenon DEF Index
  <2>2. qx = px /\ qy = py /\ other = buffer
    BY <1>6, <2>1
  <2>3. IsStore(o, b, 4)
    BY <1>2, <1>3, <2>1, <2>2, Zenon
  <2>4. k - 1 \in Nat /\ b <= a /\ a < b + 4 /\ a = b + (k - 1) /\ (k - 1) + 1 = k
    BY <1>3
  <2>5. Covers(o, a) /\ Stored(o, a) = o.store.bytes[(k - 1) + 1]
    BY <2>3, <2>4, CoversIs
  <2>6. o.shows.value[k] \in {v \in Byte : 2 * v \in Byte}
    BY <2>1
  <2> QED BY <2>1, <2>4, <2>5, <2>6
<1> QED BY <1>1, <1>2, <1>3, <1>5, <1>6, Zenon

(* A character.                                                               *)
LEMMA CharCover ==
  ASSUME NEW o, o.kind = "store", IsCall(o), NEW i \in 0 .. COLS * ROWS - 1
  PROVE  LET shown == o.shows.what = "char" /\ o.shows.at = i
         IN  /\ Covers(o, SCREENBUFFER_BASE_ADDR + i) <=> shown
             /\ shown => Stored(o, SCREENBUFFER_BASE_ADDR + i) = o.shows.value
<1>1. PICK z \in Nat, base \in Nat : z = COLS * ROWS /\ base = SCREENBUFFER_BASE_ADDR
  BY Sizes, Places
<1>2. PICK a \in Nat : a = base + i
  BY <1>1
<1>3. Within(Layout[4], a)
  <2>1. base <= a /\ a < base + z
    BY <1>1, <1>2
  <2> QED BY <1>1, <2>1, WithinIs
<1>4. ASSUME Covers(o, a) PROVE o.shows.what = "char" /\ o.shows.at = i
  <2>1. o.shows.what = "char"
    BY <1>3, <1>4, RegionIs
  <2>2. PICK j \in 0 .. z - 1, b \in Nat : j = o.shows.at /\ b = base + j /\ IsStore(o, b, 1)
    <3>1. o.shows.at \in 0 .. z - 1 /\ IsStore(o, base + o.shows.at, 1)
      BY <1>1, <2>1, CharCall, Zenon
    <3> QED BY <3>1
  <2>3. b <= a /\ a < b + 1
    BY <1>4, <2>2, CoversIs
  <2>4. j = i
    BY <1>2, <2>2, <2>3
  <2> QED BY <2>1, <2>2, <2>4
<1>5. ASSUME o.shows.what = "char", o.shows.at = i PROVE Covers(o, a) /\ Stored(o, a) = o.shows.value
  <2>1. IsStore(o, a, 1) /\ o.store.bytes[1] = o.shows.value
    BY <1>1, <1>2, <1>5, CharCall, Zenon
  <2>2. a <= a /\ a < a + 1 /\ a = a + 0 /\ 0 + 1 = 1
    OBVIOUS
  <2>3. Stored(o, a) = o.store.bytes[0 + 1]
    BY <2>1, <2>2, CoversIs
  <2> QED BY <2>1, <2>2, <2>3, CoversIs
<1> QED BY <1>1, <1>2, <1>4, <1>5, Zenon

(* Both bytes of its colours.                                                 *)
LEMMA ColorCover ==
  ASSUME NEW o, o.kind = "store", IsCall(o), NEW i \in 0 .. COLS * ROWS - 1, NEW k \in {0, 1}
  PROVE  LET shown == o.shows.what = "color" /\ o.shows.at = i
         IN  /\ Covers(o, COLORBUFFER_BASE_ADDR + 4 * i + k) <=> shown
             /\ shown => Stored(o, COLORBUFFER_BASE_ADDR + 4 * i + k) = o.store.bytes[k + 1]
<1>1. PICK z \in Nat, base \in Nat : z = COLS * ROWS /\ base = COLORBUFFER_BASE_ADDR
  BY Sizes, Places
<1>2. PICK a \in Nat, c \in Nat : c = base + 4 * i /\ a = base + 4 * i + k /\ a = c + k
  BY <1>1
<1>3. Within(Layout[5], a)
  <2>1. base <= a /\ a < base + z * 4
    BY <1>1, <1>2
  <2> QED BY <1>1, <2>1, WithinIs
<1>4. ASSUME Covers(o, a) PROVE o.shows.what = "color" /\ o.shows.at = i
  <2>1. o.shows.what = "color"
    BY <1>3, <1>4, RegionIs
  <2>2. PICK j \in 0 .. z - 1, b \in Nat : j = o.shows.at /\ b = base + 4 * j /\ IsStore(o, b, 4)
    <3>1. o.shows.at \in 0 .. z - 1 /\ IsStore(o, base + 4 * o.shows.at, 4)
      BY <1>1, <2>1, ColorCall, Zenon
    <3> QED BY <3>1
  <2>3. b <= a /\ a < b + 4
    BY <1>4, <2>2, CoversIs
  <2>4. j = i
    BY <1>1, <1>2, <2>2, <2>3
  <2> QED BY <2>1, <2>2, <2>4
<1>5. ASSUME o.shows.what = "color", o.shows.at = i PROVE Covers(o, a) /\ Stored(o, a) = o.store.bytes[k + 1]
  <2>1. IsStore(o, c, 4)
    BY <1>1, <1>2, <1>5, ColorCall, Zenon
  <2>2. c <= a /\ a < c + 4 /\ a = c + k /\ k \in Nat
    BY <1>2
  <2>3. Covers(o, a)
    BY <2>1, <2>2, CoversIs
  <2>4. Stored(o, a) = o.store.bytes[k + 1]
    <3>1. o.store.addr = c
      BY <2>1, Zenon DEF IsStore
    <3>2. a - c + 1 = k + 1
      BY <2>2
    <3> QED BY <3>1, <3>2, Zenon DEF Stored
  <2> QED BY <2>3, <2>4, Zenon
<1> QED BY <1>1, <1>2, <1>4, <1>5, Zenon

(* What the windows read is what the last calls have shown. *)
LEMMA LargestIs ==
  ASSUME NEW n \in Nat, NEW S, S \subseteq 1 .. n, S # {}
  PROVE  Max(S) \in S
<1> DEFINE T == {m \in Nat : n - m \in S}
<1>1. \A x \in S : x \in Int /\ n - x \in Nat /\ n - (n - x) = x
  OBVIOUS
<1>2. \A x \in S : n - x \in T
  BY <1>1
<1>3. PICK t \in T : \A u \in T : t <= u
  <2>1. T \subseteq Nat /\ T # {}
    BY <1>2
  <2> QED BY <2>1, LeastNumber
<1>4. n - t \in S /\ \A y \in S : n - t >= y
  <2>1. t \in Nat /\ n - t \in S
    BY <1>3
  <2>2. ASSUME NEW y \in S PROVE n - t >= y
    <3>1. t <= n - y /\ y \in Int
      BY <1>1, <1>2, <1>3
    <3> QED BY <2>1, <3>1
  <2> QED BY <2>1, <2>2
<1> QED BY <1>4 DEF Max

(* Between two stores a byte is what the last store of it has left there.     *)
LEMMA ReadsLast ==
  ASSUME options \in Options, program \in Programs, Stores, mphase # "store", NEW a \in Nat, Mapped(a)
  PROVE  LET c == Coverers(program, op, a)
         IN  IF c = {} THEN read_byte(mem, a) = read_byte(Loaded(options), a)
             ELSE /\ Max(c) \in c /\ program[Max(c)].kind = "store" /\ IsCall(program[Max(c)])
                  /\ read_byte(mem, a) = Stored(program[Max(c)], a)
<1>1. Kept(options, program, mem, op, bytes, FALSE)
  BY DEF Stores
<1>2. read_byte(mem, a) = Left(options, program, op, a) /\ op \in 1 .. Len(program)
  BY <1>1, Zenon DEF Kept, Mapped
<1>3. CASE Coverers(program, op, a) = {}
  BY <1>2, <1>3, Zenon DEF Left
<1>4. CASE Coverers(program, op, a) # {}
  <2>1. PICK c : c = Coverers(program, op, a)
    OBVIOUS
  <2>2. Len(program) \in Nat
    BY ProgramCalls
  <2>3. c \subseteq 1 .. op - 1 /\ op - 1 \in Nat /\ c \subseteq 1 .. Len(program)
    BY <1>2, <2>1, <2>2 DEF Coverers
  <2>4. Max(c) \in c
    BY <1>4, <2>1, <2>3, LargestIs
  <2>5. Covers(program[Max(c)], a)
    BY <2>1, <2>4, Zenon DEF Coverers
  <2>6. program[Max(c)].kind = "store" /\ IsCall(program[Max(c)])
    BY <2>3, <2>4, <2>5, ProgramCalls, Zenon DEF Covers
  <2>7. read_byte(mem, a) = Stored(program[Max(c)], a)
    BY <1>2, <1>4, <2>1, Zenon DEF Left
  <2> QED BY <1>4, <2>1, <2>4, <2>6, <2>7, Zenon
<1> QED BY <1>3, <1>4

(* The completed calls of a kind, and those about one thing. *)
CallsOf(what) == {i \in 1 .. op - 1 : program[i].kind = "store" /\ program[i].shows.what = what}
CallsAt(what, at) ==
  {i \in 1 .. op - 1 : program[i].kind = "store" /\ program[i].shows.what = what /\ program[i].shows.at = at}

ShownOnly(what, a) == \A o : o.kind = "store" /\ IsCall(o) => (Covers(o, a) <=> o.shows.what = what)
ShownAt(what, at, a) ==
  \A o : o.kind = "store" /\ IsCall(o) => (Covers(o, a) <=> o.shows.what = what /\ o.shows.at = at)

(* The stores of a byte are the calls that say they show it.                  *)
LEMMA CoverersAre ==
  ASSUME program \in Programs, op \in 1 .. Len(program), NEW a, NEW what, NEW at
  PROVE  /\ ShownOnly(what, a) => Coverers(program, op, a) = CallsOf(what)
         /\ ShownAt(what, at, a) => Coverers(program, op, a) = CallsAt(what, at)
<1>1. \A i \in 1 .. op - 1 : i \in 1 .. Len(program)
  <2>1. Len(program) \in Nat
    BY ProgramCalls
  <2> QED BY <2>1
<1>2. \A i \in 1 .. op - 1 : program[i].kind = "store" => IsCall(program[i])
  BY <1>1, ProgramCalls, Zenon
<1>3. \A i \in 1 .. op - 1 : Covers(program[i], a) => program[i].kind = "store"
  BY Zenon DEF Covers
<1>4. ASSUME ShownOnly(what, a) PROVE Coverers(program, op, a) = CallsOf(what)
  <2>1. \A i \in 1 .. op - 1 : Covers(program[i], a) <=> program[i].kind = "store" /\ program[i].shows.what = what
    BY <1>2, <1>3, <1>4, Zenon DEF ShownOnly
  <2> QED BY <2>1 DEF Coverers, CallsOf
<1>5. ASSUME ShownAt(what, at, a) PROVE Coverers(program, op, a) = CallsAt(what, at)
  <2>1. \A i \in 1 .. op - 1 : Covers(program[i], a) <=>
           program[i].kind = "store" /\ program[i].shows.what = what /\ program[i].shows.at = at
    BY <1>2, <1>3, <1>5, Zenon DEF ShownAt
  <2> QED BY <2>1 DEF Coverers, CallsAt
<1> QED BY <1>4, <1>5, Zenon

(* The LEDs' byte is what the last call for them showed.                      *)
LEMMA LedsRead ==
  ASSUME options \in Options, program \in Programs, Stores, mphase # "store"
  PROVE  ShowsLeds <=> leds' = read_byte(mem, LEDS_ADDR)
<1>1. PICK a \in Nat : a = LEDS_ADDR /\ Within(Layout[2], a) /\ Mapped(a)
  <2>1. LEDS_ADDR \in Nat
    BY Places
  <2>2. Within(Layout[2], LEDS_ADDR)
    BY <2>1, WithinIs
  <2> QED BY <2>1, <2>2, MappedIs
<1>2. op \in 1 .. Len(program)
  BY DEF Stores, Kept
<1>3. PICK c : c = Coverers(program, op, a)
  OBVIOUS
<1>4. c = CallsOf("leds")
  <2>1. ShownOnly("leds", a)
    BY <1>1, LedsCover, Zenon DEF ShownOnly
  <2> QED BY <1>2, <1>3, <2>1, CoverersAre, Zenon
<1>5. LastCall(LAMBDA s : s.what = "leds", 0) = IF c = {} THEN 0 ELSE program[Max(c)].shows.value
  BY <1>4 DEF LastCall, CallsOf
<1>6. CASE c = {}
  <2>1. read_byte(mem, a) = 0
    BY <1>1, <1>3, <1>6, ReadsLast, LoadedIs, Zenon
  <2> QED BY <1>1, <1>5, <1>6, <2>1, Zenon DEF ShowsLeds
<1>7. CASE c # {}
  <2>1. /\ Max(c) \in c /\ program[Max(c)].kind = "store" /\ IsCall(program[Max(c)])
        /\ read_byte(mem, a) = Stored(program[Max(c)], a)
    BY <1>1, <1>3, <1>7, ReadsLast, Zenon
  <2>2. program[Max(c)].shows.what = "leds"
    BY <1>4, <2>1 DEF CallsOf
  <2>3. Stored(program[Max(c)], a) = program[Max(c)].shows.value
    BY <1>1, <2>1, <2>2, LedsCover, Zenon
  <2> QED BY <1>1, <1>5, <1>7, <2>1, <2>3, Zenon DEF ShowsLeds
<1> QED BY <1>6, <1>7

(* The control byte is the selected buffer.                                   *)
LEMMA SelectRead ==
  ASSUME options \in Options, program \in Programs, Stores, mphase # "store", options.hub75
  PROVE  read_byte(mem, HUB75_CTL) = Selected /\ Selected \in 0 .. 1
<1>1. PICK a \in Nat : a = HUB75_CTL /\ Within(Layout[7], a) /\ Mapped(a)
  <2>1. HUB75_CTL \in Nat /\ Within(Layout[7], HUB75_CTL)
    <3>1. PICK base \in Nat, s \in Nat \ {0}, a \in Nat :
            base = HUB75_BASE /\ s = WIDTH * HEIGHT /\ a = HUB75_CTL /\ a = base + 8 * s
      BY Places, MatrixIs
    <3> QED BY <3>1, MatrixIs
  <2> QED BY <2>1, MappedIs
<1>2. op \in 1 .. Len(program)
  BY DEF Stores, Kept
<1>3. PICK c : c = Coverers(program, op, a)
  OBVIOUS
<1>4. c = CallsOf("select")
  <2>1. ShownOnly("select", a)
    BY <1>1, SelectCover, Zenon DEF ShownOnly
  <2> QED BY <1>2, <1>3, <2>1, CoverersAre, Zenon
<1>5. Selected = IF c = {} THEN 0 ELSE program[Max(c)].shows.value
  BY <1>4 DEF Selected, LastCall, CallsOf
<1>6. CASE c = {}
  <2>1. read_byte(mem, a) = 0
    BY <1>1, <1>3, <1>6, ReadsLast, LoadedIs, Zenon
  <2>2. Selected = 0
    BY <1>5, <1>6, Zenon
  <2> QED BY <1>1, <2>1, <2>2
<1>7. CASE c # {}
  <2>1. /\ Max(c) \in c /\ program[Max(c)].kind = "store" /\ IsCall(program[Max(c)])
        /\ read_byte(mem, a) = Stored(program[Max(c)], a)
    BY <1>1, <1>3, <1>7, ReadsLast, Zenon
  <2>2. program[Max(c)].shows.what = "select"
    BY <1>4, <2>1 DEF CallsOf
  <2>3. Stored(program[Max(c)], a) = program[Max(c)].shows.value /\ program[Max(c)].shows.value \in {0, 1}
    BY <1>1, <2>1, <2>2, SelectCover, Zenon
  <2>4. Selected = program[Max(c)].shows.value
    BY <1>5, <1>7, Zenon
  <2> QED BY <1>1, <2>1, <2>3, <2>4
<1> QED BY <1>6, <1>7

(* A byte of a pixel is a component of its last colour.                       *)
LEMMA PixelRead ==
  ASSUME options \in Options, program \in Programs, Stores, mphase # "store", options.hub75,
         NEW px \in 0 .. HEIGHT - 1, NEW py \in 0 .. WIDTH - 1, NEW buffer \in 0 .. 1, NEW k \in 1 .. 3
  PROVE  /\ read_byte(mem, HUB75_BASE + 4 * Index(px, py, buffer) + (k - 1)) = Pixel(px, py, buffer)[k]
         /\ Pixel(px, py, buffer)[k] \in {v \in Byte : 2 * v \in Byte}
<1>1. PICK a \in Nat : /\ a = HUB75_BASE + 4 * Index(px, py, buffer) + (k - 1)
                       /\ Within(Layout[7], a) /\ Mapped(a)
  <2>1. PICK base \in Nat, s \in Nat \ {0} : base = HUB75_BASE /\ s = WIDTH * HEIGHT
    BY Places, MatrixIs
  <2>2. PICK i \in 0 .. 2 * s - 1 : i = Index(px, py, buffer)
    BY <2>1, IndexIs
  <2>3. PICK a \in Nat : a = base + 4 * i + (k - 1)
    OBVIOUS
  <2>4. base <= a /\ a < base + 8 * s + 4
    BY <2>3
  <2>5. Within(Layout[7], a)
    BY <2>1, <2>4, MatrixIs, Zenon
  <2> QED BY <2>1, <2>2, <2>3, <2>5, MappedIs
<1>2. op \in 1 .. Len(program)
  BY DEF Stores, Kept
<1>3. PICK c : c = Coverers(program, op, a)
  OBVIOUS
<1>4. \A o : o.kind = "store" /\ IsCall(o) /\ o.shows.what = "pixel" /\ o.shows.at = <<px, py, buffer>>
               => Stored(o, a) = o.shows.value[k] /\ o.shows.value[k] \in {v \in Byte : 2 * v \in Byte}
  BY <1>1, PixelCover, Zenon
<1>5. c = CallsAt("pixel", <<px, py, buffer>>)
  <2>1. ShownAt("pixel", <<px, py, buffer>>, a)
    <3>1. ASSUME NEW o, o.kind = "store", IsCall(o)
          PROVE  Covers(o, a) <=> o.shows.what = "pixel" /\ o.shows.at = <<px, py, buffer>>
      <4>1. Covers(o, HUB75_BASE + 4 * Index(px, py, buffer) + (k - 1))
              <=> o.shows.what = "pixel" /\ o.shows.at = <<px, py, buffer>>
        BY <3>1, PixelCover
      <4>2. Covers(o, HUB75_BASE + 4 * Index(px, py, buffer) + (k - 1)) = Covers(o, a)
        BY <1>1, Zenon
      <4> QED BY <4>1, <4>2
    <3> QED BY <3>1, Zenon DEF ShownAt
  <2> QED BY <1>2, <1>3, <2>1, CoverersAre, Zenon
<1>6. Pixel(px, py, buffer) = IF c = {} THEN <<0, 0, 0>> ELSE program[Max(c)].shows.value
  BY <1>5 DEF Pixel, LastCall, CallsAt
<1>7. CASE c = {}
  <2>1. read_byte(mem, a) = 0
    BY <1>1, <1>3, <1>7, ReadsLast, LoadedIs, Zenon
  <2>2. Pixel(px, py, buffer) = <<0, 0, 0>>
    BY <1>6, <1>7, Zenon
  <2>3. Pixel(px, py, buffer)[k] = 0
    BY <2>2
  <2>4. 0 \in {v \in Byte : 2 * v \in Byte}
    BY SmallBytes
  <2> QED BY <1>1, <2>1, <2>3, <2>4, Zenon
<1>8. CASE c # {}
  <2>1. /\ Max(c) \in c /\ program[Max(c)].kind = "store" /\ IsCall(program[Max(c)])
        /\ read_byte(mem, a) = Stored(program[Max(c)], a)
    BY <1>1, <1>3, <1>8, ReadsLast, Zenon
  <2>2. program[Max(c)].shows.what = "pixel" /\ program[Max(c)].shows.at = <<px, py, buffer>>
    BY <1>5, <2>1 DEF CallsAt
  <2>3. Pixel(px, py, buffer) = program[Max(c)].shows.value
    BY <1>6, <1>8, Zenon
  <2> QED BY <1>1, <1>4, <2>1, <2>2, <2>3, Zenon
<1> QED BY <1>7, <1>8

(* The code of a character, and its glyph is in the font.                     *)
LEMMA CharRead ==
  ASSUME options \in Options, program \in Programs, Stores, mphase # "store", options.vga,
         NEW i \in 0 .. COLS * ROWS - 1
  PROVE  /\ CharAt(i) = Character(i)
         /\ Character(i) \in Nat /\ FONT_HEIGHT * (Character(i) + 1) <= Len(Font.bytes)
<1>1. PICK a \in Nat : a = SCREENBUFFER_BASE_ADDR + i /\ Within(Layout[4], a) /\ Mapped(a)
  <2>1. PICK z \in Nat, base \in Nat : z = COLS * ROWS /\ base = SCREENBUFFER_BASE_ADDR
    BY Sizes, Places
  <2>2. PICK a \in Nat : a = base + i
    BY <2>1
  <2>3. base <= a /\ a < base + z
    BY <2>1, <2>2
  <2>4. Within(Layout[4], a)
    BY <2>1, <2>3, WithinIs
  <2> QED BY <2>1, <2>2, <2>4, MappedIs
<1>2. op \in 1 .. Len(program)
  BY DEF Stores, Kept
<1>3. PICK c : c = Coverers(program, op, a)
  OBVIOUS
<1>4. \A o : o.kind = "store" /\ IsCall(o) /\ o.shows.what = "char" /\ o.shows.at = i => Stored(o, a) = o.shows.value
  BY <1>1, CharCover, Zenon
<1>5. c = CallsAt("char", i)
  <2>1. ShownAt("char", i, a)
    BY <1>1, CharCover, Zenon DEF ShownAt
  <2> QED BY <1>2, <1>3, <2>1, CoverersAre, Zenon
<1>6. Character(i) = IF c = {} THEN 0 ELSE program[Max(c)].shows.value
  BY <1>5 DEF Character, LastCall, CallsAt
<1>7. CASE c = {}
  <2>1. read_byte(mem, a) = 0
    BY <1>1, <1>3, <1>7, ReadsLast, LoadedIs, Zenon
  <2>2. Character(i) = 0
    BY <1>6, <1>7, Zenon
  <2>3. FONT_HEIGHT <= Len(Font.bytes) /\ FONT_HEIGHT * (0 + 1) = FONT_HEIGHT
    BY FileAssumption, Sizes
  <2>4. CharAt(i) = 0
    BY <1>1, <2>1, Zenon DEF CharAt
  <2> QED BY <2>2, <2>3, <2>4
<1>8. CASE c # {}
  <2>1. /\ Max(c) \in c /\ program[Max(c)].kind = "store" /\ IsCall(program[Max(c)])
        /\ read_byte(mem, a) = Stored(program[Max(c)], a)
    BY <1>1, <1>3, <1>8, ReadsLast, Zenon
  <2>2. program[Max(c)].shows.what = "char" /\ program[Max(c)].shows.at = i
    BY <1>5, <2>1 DEF CallsAt
  <2>3. Character(i) = program[Max(c)].shows.value
    BY <1>6, <1>8, Zenon
  <2>4. program[Max(c)].shows.value \in Byte /\ FONT_HEIGHT * (program[Max(c)].shows.value + 1) <= Len(Font.bytes)
    BY <2>1, <2>2, CharCall, Zenon
  <2>5. CharAt(i) = Character(i)
    BY <1>1, <1>4, <2>1, <2>2, <2>3, Zenon DEF CharAt
  <2>6. \A b \in Byte : b \in Nat
    BY DEF Byte
  <2> QED BY <2>3, <2>4, <2>5, <2>6, Zenon
<1> QED BY <1>7, <1>8

(* No call stores over the font. *)
LEMMA FontRead ==
  ASSUME options \in Options, program \in Programs, Stores, mphase # "store", options.vga,
         NEW k \in 1 .. Len(Font.bytes)
  PROVE  read_byte(mem, FONTRAM_BASE_ADDR + k - 1) = Font.bytes[k]
<1>1. PICK a \in Nat : a = FONTRAM_BASE_ADDR + k - 1 /\ Within(Layout[6], a) /\ Mapped(a)
  <2>1. PICK base \in Nat, z \in Nat : base = FONTRAM_BASE_ADDR /\ z = ByteMod * FONT_HEIGHT
    BY Places, Sizes
  <2>2. Len(Font.bytes) <= z /\ Len(Font.bytes) \in Nat
    BY <2>1, FileAssumption
  <2>3. PICK a \in Nat : a = base + k - 1
    BY <2>2
  <2>4. base <= a /\ a < base + z
    BY <2>2, <2>3
  <2>5. Within(Layout[6], a)
    BY <2>1, <2>4, WithinIs
  <2> QED BY <2>1, <2>3, <2>5, MappedIs
<1>2. PICK c : c = Coverers(program, op, a)
  OBVIOUS
<1>3. c = {}
  <2>1. ASSUME c # {} PROVE FALSE
    <3>1. Max(c) \in c /\ program[Max(c)].kind = "store" /\ IsCall(program[Max(c)])
      BY <1>1, <1>2, <2>1, ReadsLast, Zenon
    <3>2. Covers(program[Max(c)], a)
      BY <1>2, <3>1 DEF Coverers
    <3> QED BY <1>1, <3>1, <3>2, RegionIs, Zenon
  <2> QED BY <2>1
<1>4. read_byte(mem, a) = read_byte(Loaded(options), a)
  BY <1>1, <1>2, <1>3, ReadsLast, Zenon
<1> QED BY <1>1, <1>4, LoadedIs, Zenon

(* The two colours of a character.                                            *)
LEMMA ColorRead ==
  ASSUME options \in Options, program \in Programs, Stores, mphase # "store", options.vga,
         NEW i \in 0 .. COLS * ROWS - 1
  PROVE  /\ LitColor(LowAt(i) + ByteMod * HighAt(i)) = Color(i)[1]
         /\ DarkColor(LowAt(i) + ByteMod * HighAt(i)) = Color(i)[2]
<1>1. PICK a \in Nat, b \in Nat :
        /\ a = COLORBUFFER_BASE_ADDR + 4 * i + 0 /\ Within(Layout[5], a) /\ Mapped(a)
        /\ b = COLORBUFFER_BASE_ADDR + 4 * i + 1 /\ Within(Layout[5], b) /\ Mapped(b)
        /\ a = COLORBUFFER_BASE_ADDR + 4 * i
  <2>1. PICK z \in Nat, base \in Nat : z = COLS * ROWS /\ base = COLORBUFFER_BASE_ADDR
    BY Sizes, Places
  <2>2. PICK a \in Nat, b \in Nat : a = base + 4 * i + 0 /\ b = base + 4 * i + 1 /\ a = base + 4 * i
    BY <2>1
  <2>3. base <= a /\ a < base + z * 4 /\ base <= b /\ b < base + z * 4
    BY <2>1, <2>2
  <2>4. Within(Layout[5], a) /\ Within(Layout[5], b)
    BY <2>1, <2>3, WithinIs
  <2>5. Mapped(a) /\ Mapped(b)
    BY <2>4, MappedIs
  <2> QED BY <2>1, <2>2, <2>4, <2>5
<1>2. op \in 1 .. Len(program)
  BY DEF Stores, Kept
<1>3. PICK c : c = Coverers(program, op, a)
  OBVIOUS
<1>4. \A o : o.kind = "store" /\ IsCall(o) /\ o.shows.what = "color" /\ o.shows.at = i =>
               Stored(o, a) = o.store.bytes[0 + 1] /\ Stored(o, b) = o.store.bytes[1 + 1]
  <2>1. 0 \in {0, 1} /\ 1 \in {0, 1}
    OBVIOUS
  <2> QED BY <1>1, <2>1, ColorCover, Zenon
<1>5. c = CallsAt("color", i)
  <2>1. 0 \in {0, 1}
    OBVIOUS
  <2>2. ShownAt("color", i, a)
    BY <1>1, <2>1, ColorCover, Zenon DEF ShownAt
  <2> QED BY <1>2, <1>3, <2>2, CoverersAre, Zenon
<1>6. c = Coverers(program, op, b)
  <2>1. 1 \in {0, 1}
    OBVIOUS
  <2>2. ShownAt("color", i, b)
    BY <1>1, <2>1, ColorCover, Zenon DEF ShownAt
  <2> QED BY <1>2, <1>5, <2>2, CoverersAre, Zenon
<1>7. Color(i) = IF c = {} THEN <<WHITE, 0>> ELSE program[Max(c)].shows.value
  BY <1>5 DEF Color, LastCall, CallsAt
<1>8. LowAt(i) = read_byte(mem, a) /\ HighAt(i) = read_byte(mem, b)
  BY <1>1, Zenon DEF LowAt, HighAt
<1>9. CASE c = {}
  <2>1. read_byte(mem, a) = WHITE /\ read_byte(mem, b) = 0
    BY <1>1, <1>3, <1>6, <1>9, ReadsLast, LoadedIs, Zenon
  <2>2. Color(i) = <<WHITE, 0>>
    BY <1>7, <1>9, Zenon
  <2>3. PICK w \in Nat : w = WHITE
    BY Sizes DEF Byte
  <2>4. w + ByteMod * 0 = w
    BY Sizes
  <2>5. LitColor(WHITE + ByteMod * 0) = WHITE /\ DarkColor(WHITE + ByteMod * 0) = 0
    BY <2>3, <2>4, Sizes, Zenon DEF LitColor, DarkColor
  <2> QED BY <1>8, <2>1, <2>2, <2>5
<1>10. CASE c # {}
  <2>1. /\ Max(c) \in c /\ program[Max(c)].kind = "store" /\ IsCall(program[Max(c)])
        /\ read_byte(mem, a) = Stored(program[Max(c)], a) /\ read_byte(mem, b) = Stored(program[Max(c)], b)
    BY <1>1, <1>3, <1>6, <1>10, ReadsLast, Zenon
  <2>2. program[Max(c)].shows.what = "color" /\ program[Max(c)].shows.at = i
    BY <1>5, <2>1 DEF CallsAt
  <2>3. PICK o : o = program[Max(c)]
    OBVIOUS
  <2>4. Color(i) = o.shows.value
    BY <1>7, <1>10, <2>3, Zenon
  <2>5. LowAt(i) = o.store.bytes[1] /\ HighAt(i) = o.store.bytes[2]
    <3>1. Stored(o, a) = o.store.bytes[0 + 1] /\ Stored(o, b) = o.store.bytes[1 + 1]
      BY <1>4, <2>1, <2>2, <2>3, Zenon
    <3>2. 0 + 1 = 1 /\ 1 + 1 = 2
      OBVIOUS
    <3> QED BY <1>8, <2>1, <2>3, <3>1, <3>2, Zenon
  <2> QED BY <2>1, <2>2, <2>3, <2>4, <2>5, ColorCall, Zenon
<1> QED BY <1>9, <1>10

(* The window thread goes from one enabled section to the next. *)
LEMMA AfterIs ==
  ASSUME options \in Options, NEW s
  PROVE  /\ After(s) \in {"loop", "leds", "hub75", "vga"}
         /\ After(s) = "leds" => options.leds
         /\ After(s) = "hub75" => options.hub75
         /\ After(s) = "vga" => options.vga
<1> DEFINE q == Sections
<1>1. /\ Len(q) \in Nat
      /\ \A i \in 1 .. Len(q) : /\ q[i] \in {"leds", "hub75", "vga"}
                                /\ q[i] = "leds" => options.leds
                                /\ q[i] = "hub75" => options.hub75
                                /\ q[i] = "vga" => options.vga
  BY DEF Sections
<1> DEFINE I == {i \in 1 .. Len(q) : q[i] = s}
           found == SelectInSeq(q, LAMBDA t : t = s)
<1>2. found = IF I # {} THEN Min(I) ELSE 0
  BY DEF SelectInSeq
<1>3. After(s) = IF found = Len(q) THEN "loop" ELSE q[found + 1]
  BY DEF After
<1> HIDE DEF q, found
<1>4. found \in 0 .. Len(q)
  <2>1. CASE I = {}
    BY <1>1, <1>2, <2>1
  <2>2. CASE I # {}
    <3>1. I \subseteq Nat
      BY <1>1
    <3>2. PICK n \in I : \A m \in I : n <= m
      BY <2>2, <3>1, LeastNumber
    <3>3. Min(I) \in I
      BY <3>2 DEF Min
    <3>4. found \in I
      BY <1>2, <2>2, <3>3
    <3> QED BY <1>1, <3>4
  <2> QED BY <2>1, <2>2
<1>5. CASE found = Len(q)
  BY <1>3, <1>5
<1>6. CASE found # Len(q)
  <2>1. PICK j \in 1 .. Len(q) : j = found + 1
    BY <1>1, <1>4, <1>6
  <2> QED BY <1>1, <1>3, <1>6, <2>1
<1> QED BY <1>5, <1>6

(* Every step keeps it there, and its reads are counted from 0.               *)
LEMMA WindowsStep ==
  ASSUME options \in Options, program \in Programs, Stores, Windows, [Next \/ Terminated]_vars, options' = options
  PROVE  Windows'
<1>1. CASE CreateThread
  BY <1>1 DEF CreateThread, display, Windows
<1>2. CASE Step
  <2>1. Operation.kind \in {"store", "vsync", "ebreak", "ecall", "other"}
    BY ProgramCalls DEF Stores, Kept, Operation
  <2>2. UNCHANGED <<wphase, pos>> /\ mphase' # "setup"
    BY <1>2, <2>1 DEF Step, display
  <2> QED BY <2>2 DEF Windows
<1>8. CASE WriteByte \/ StoreDone \/ SetExit \/ Join \/ TypeKey
  <2>1. UNCHANGED <<wphase, pos>> /\ mphase' # "setup"
    BY <1>8 DEF WriteByte, StoreDone, SetExit, Join, TypeKey, PromptKey, display
  <2> QED BY <2>1 DEF Windows
<1>3. CASE Interrupt \/ Terminated \/ UNCHANGED vars
  BY <1>3 DEF Interrupt, Terminated, vars, display, Windows
<1>4. CASE OpenWindows
  BY <1>4 DEF OpenWindows, display, Windows
<1>5. ASSUME NEW quit, LoopHead(quit) PROVE Windows'
  BY <1>5, AfterIs DEF LoopHead, Windows
<1>6. ASSUME NEW s \in {"leds", "hub75", "vga"}, NEW reads, Section(s, reads) PROVE Windows'
  BY <1>6, AfterIs DEF Section, Windows
<1>7. CASE DrawLeds \/ DrawHub75 \/ DrawVga
  BY <1>6, <1>7 DEF DrawLeds, DrawHub75, DrawVga
<1> QED BY <1>1, <1>2, <1>3, <1>4, <1>5, <1>7, <1>8 DEF Next, Main, Window, CloseWindow

(* Dividing a number into its digits. *)
LEMMA Split ==
  ASSUME NEW n \in Nat \ {0}, NEW m \in Nat, NEW a \in 0 .. m * n - 1
  PROVE  \E d \in 0 .. m - 1, e \in 0 .. n - 1 : d = a \div n /\ e = a % n /\ a = d * n + e
<1>1. PICK d \in Int, e \in 0 .. n - 1 : d = a \div n /\ e = a % n /\ a = n * d + e
  <2>1. m * n \in Int
    OBVIOUS
  <2> QED BY <2>1
<1>2. a \in Nat /\ a < m * n
  <2>1. m * n \in Int
    OBVIOUS
  <2> QED BY <2>1
<1>3. d >= 0
  <2>1. ASSUME d <= -1 PROVE FALSE
    <3>1. n * d <= - n
      BY <2>1
    <3> QED BY <1>1, <1>2, <3>1
  <2> QED BY <2>1
<1>4. d < m
  <2>1. ASSUME m <= d PROVE FALSE
    <3>1. m * n <= n * d
      BY <2>1
    <3> QED BY <1>1, <1>2, <3>1
  <2> QED BY <2>1
<1>5. n * d = d * n
  OBVIOUS
<1>6. d \in 0 .. m - 1 /\ e \in 0 .. n - 1 /\ a = d * n + e
  BY <1>1, <1>3, <1>4, <1>5
<1> QED BY <1>1, <1>6, Zenon

(* The panel in numbers.                                                      *)
LEMMA PanelSizes ==
  /\ PANEL_COLS \in Nat \ {0} /\ PANEL_ROWS \in Nat \ {0} /\ PANEL_ROWS * PANEL_COLS \in Nat \ {0}
  /\ 3 * PANEL_ROWS * PANEL_COLS = (PANEL_ROWS * PANEL_COLS) * 3
<1>1. PICK w \in Nat \ {0} : w = PANEL_COLS /\ w = PANEL_ROWS
  BY Sizes DEF PANEL_COLS, PANEL_ROWS
<1>2. w * w \in Nat \ {0} /\ 3 * w * w = (w * w) * 3
  OBVIOUS
<1> QED BY <1>1, <1>2, Zenon

(* The number of a component, from 1, is that of no other. *)
LEMMA NumberedIs ==
  ASSUME NEW r \in 0 .. PANEL_ROWS - 1, NEW c \in 0 .. PANEL_COLS - 1, NEW k \in 1 .. 3
  PROVE  /\ Numbered(r, c, k) \in 1 .. 3 * PANEL_ROWS * PANEL_COLS
         /\ \A y \in 0 .. PANEL_ROWS - 1, x \in 0 .. PANEL_COLS - 1, j \in 1 .. 3 :
              Numbered(y, x, j) = Numbered(r, c, k) => y = r /\ x = c /\ j = k
<1>1. PICK w \in Nat \ {0}, h \in Nat \ {0}, z \in Nat \ {0} :
        w = PANEL_COLS /\ h = PANEL_ROWS /\ z = h * w /\ 3 * PANEL_ROWS * PANEL_COLS = z * 3
  BY PanelSizes
<1>2. ASSUME NEW y \in 0 .. h - 1, NEW x \in 0 .. w - 1
      PROVE  y * w + x \in 0 .. z - 1
  BY <1>1, Below
<1>3. r \in 0 .. h - 1 /\ c \in 0 .. w - 1
  BY <1>1
<1>4. PICK n \in 0 .. z - 1 : n = r * w + c
  BY <1>2, <1>3
<1>5. Numbered(r, c, k) = 3 * n + k
  BY <1>1, <1>4, Zenon DEF Numbered
<1>6. ASSUME NEW y \in 0 .. h - 1, NEW x \in 0 .. w - 1, NEW j \in 1 .. 3, Numbered(y, x, j) = Numbered(r, c, k)
      PROVE  y = r /\ x = c /\ j = k
  <2>1. PICK m \in 0 .. z - 1 : m = y * w + x
    BY <1>2
  <2>2. Numbered(y, x, j) = 3 * m + j
    BY <1>1, <2>1, Zenon DEF Numbered
  <2>3. m = n /\ j = k
    BY <1>5, <1>6, <2>2
  <2>4. y \in Nat /\ r \in Nat /\ y * w + x = r * w + c
    BY <1>3, <1>4, <2>1, <2>3
  <2>5. y = r /\ x = c
    BY <1>3, <2>4, SameDigits
  <2> QED BY <2>3, <2>5
<1> QED BY <1>1, <1>5, <1>6

(* One step of the section. *)
LEMMA PanelPoint ==
  ASSUME Windows, PanelDrawn, DrawHub75
  PROVE  /\ PanelShape(panel') /\ UNCHANGED mem
         /\ still' => sel' = read_byte(mem, HUB75_CTL) /\ DrawnTo(pos + 1, panel', sel')
<1>1. /\ wphase = "hub75" /\ UNCHANGED mem /\ pos \in Nat /\ pos < 1 + 3 * PANEL_ROWS * PANEL_COLS
      /\ still' = IF pos = 0 THEN TRUE ELSE still
  BY DEF DrawHub75, Section, PanelDrawn, Windows
<1>2. CASE pos = 0
  <2>1. panel' = panel /\ sel' = read_byte(mem, HUB75_CTL)
    BY <1>2 DEF DrawHub75
  <2>2. ASSUME NEW b PROVE DrawnTo(0 + 1, panel', b)
    <3>1. \A n \in 1 .. 3 * PANEL_ROWS * PANEL_COLS : ~ (n < 0 + 1)
      BY PanelSizes
    <3>2. \A r \in 0 .. PANEL_ROWS - 1, c \in 0 .. PANEL_COLS - 1, k \in 1 .. 3 : ~ (Numbered(r, c, k) < 0 + 1)
      BY <3>1, NumberedIs, Zenon
    <3> QED BY <3>2, Zenon DEF DrawnTo
  <2> QED BY <1>1, <1>2, <2>1, <2>2, Zenon DEF PanelDrawn
<1>3. CASE pos # 0
  <2>1. PICK w \in Nat \ {0}, h \in Nat \ {0}, z \in Nat \ {0} :
          w = PANEL_COLS /\ h = PANEL_ROWS /\ z = h * w /\ 3 * PANEL_ROWS * PANEL_COLS = z * 3
    BY PanelSizes
  <2>2. pos - 1 \in 0 .. z * 3 - 1
    BY <1>1, <1>3, <2>1
  <2>3. PICK n \in 0 .. z - 1, e \in 0 .. 2 : n = (pos - 1) \div 3 /\ e = (pos - 1) % 3 /\ pos - 1 = n * 3 + e
    <3>1. 3 \in Nat \ {0} /\ 3 - 1 = 2
      OBVIOUS
    <3>2. \E n \in 0 .. z - 1, e \in 0 .. 3 - 1 : n = (pos - 1) \div 3 /\ e = (pos - 1) % 3 /\ pos - 1 = n * 3 + e
      BY <2>2, <3>1, Split, Zenon
    <3> QED BY <3>1, <3>2, Zenon
  <2>4. PICK r \in 0 .. h - 1, c \in 0 .. w - 1 : r = n \div w /\ c = n % w /\ n = r * w + c
    <3>1. n \in 0 .. h * w - 1 /\ h \in Nat
      BY <2>1
    <3> QED BY <3>1, Split, Zenon
  <2>5. PICK k \in 1 .. 3 : k = e + 1 /\ k - 1 = e
    OBVIOUS
  <2>6. Numbered(r, c, k) = pos
    <3>1. Numbered(r, c, k) = 3 * n + k
      BY <2>1, <2>4, Zenon DEF Numbered
    <3> QED BY <1>1, <2>3, <2>5, <3>1
  <2>7. PixelRow(pos - 1) = r /\ PixelCol(pos - 1) = c
    BY <2>1, <2>3, <2>4, Zenon DEF PixelRow, PixelCol
  <2>8. sel' = sel /\ panel' = [panel EXCEPT ![<<r, c>>][k] = Component(r, c, k, sel)]
    <3>1. /\ sel' = sel
          /\ panel' =
               [panel EXCEPT ![<<PixelRow(pos - 1), PixelCol(pos - 1)>>][((pos - 1) % 3) + 1] =
                  hub75_colorcorrect((read_byte(mem, HUB75_BASE
                    + 4 * PixelIndex(PixelRow(pos - 1), PixelCol(pos - 1), sel) + ((pos - 1) % 3)) * 2) % ByteMod)]
      BY <1>3 DEF DrawHub75
    <3>2. Component(r, c, k, sel) =
            hub75_colorcorrect((read_byte(mem, HUB75_BASE + 4 * PixelIndex(r, c, sel) + e) * 2) % ByteMod)
      BY <2>5, Zenon DEF Component
    <3> QED BY <2>3, <2>5, <2>7, <3>1, <3>2
  <2>9. \A y \in 0 .. PANEL_ROWS - 1, x \in 0 .. PANEL_COLS - 1 :
          /\ <<y, x>> # <<r, c>> => panel'[<<y, x>>] = panel[<<y, x>>]
          /\ panel'[<<r, c>>] = [panel[<<r, c>>] EXCEPT ![k] = Component(r, c, k, sel)]
    BY <2>1, <2>8 DEF PanelDrawn, PanelShape
  <2>10. PanelShape(panel')
    <3>1. DOMAIN panel' = DOMAIN panel
      BY <2>8
    <3>2. ASSUME NEW y \in 0 .. PANEL_ROWS - 1, NEW x \in 0 .. PANEL_COLS - 1
          PROVE  DOMAIN panel'[<<y, x>>] = DOMAIN panel[<<y, x>>]
      <4>1. CASE <<y, x>> = <<r, c>>
        BY <2>9, <4>1
      <4>2. CASE <<y, x>> # <<r, c>>
        BY <2>9, <4>2
      <4> QED BY <4>1, <4>2
    <3> QED BY <3>1, <3>2 DEF PanelDrawn, PanelShape
  <2>11. ASSUME still' PROVE sel = read_byte(mem, HUB75_CTL) /\ DrawnTo(pos + 1, panel', sel)
    <3>1. sel = read_byte(mem, HUB75_CTL) /\ DrawnTo(pos, panel, sel)
      BY <1>1, <1>3, <2>11 DEF PanelDrawn
    <3>2. ASSUME NEW y \in 0 .. PANEL_ROWS - 1, NEW x \in 0 .. PANEL_COLS - 1, NEW j \in 1 .. 3,
                 Numbered(y, x, j) < pos + 1
          PROVE  panel'[<<y, x>>][j] = Component(y, x, j, sel)
      <4>1. CASE y = r /\ x = c /\ j = k
        <5>1. k \in DOMAIN panel[<<r, c>>]
          BY <2>1 DEF PanelDrawn, PanelShape
        <5> QED BY <2>9, <4>1, <5>1
      <4>2. CASE ~ (y = r /\ x = c /\ j = k)
        <5>1. Numbered(y, x, j) # pos
          <6>1. \A a \in 0 .. PANEL_ROWS - 1, b \in 0 .. PANEL_COLS - 1, i \in 1 .. 3 :
                  Numbered(a, b, i) = Numbered(r, c, k) => a = r /\ b = c /\ i = k
            BY <2>1, NumberedIs
          <6> QED BY <2>6, <4>2, <6>1, Zenon
        <5>2. Numbered(y, x, j) \in Nat
          <6>1. \A i \in 1 .. 3 * PANEL_ROWS * PANEL_COLS : i \in Nat
            BY PanelSizes
          <6> QED BY <6>1, NumberedIs, Zenon
        <5>3. Numbered(y, x, j) < pos
          BY <1>1, <3>2, <5>1, <5>2
        <5>4. panel[<<y, x>>][j] = Component(y, x, j, sel)
          BY <3>1, <5>3 DEF DrawnTo
        <5>5. panel'[<<y, x>>][j] = panel[<<y, x>>][j]
          <6>1. CASE <<y, x>> = <<r, c>>
            <7>1. j # k /\ j \in DOMAIN panel[<<y, x>>]
              BY <4>2, <6>1 DEF PanelDrawn, PanelShape
            <7> QED BY <2>9, <6>1, <7>1
          <6>2. CASE <<y, x>> # <<r, c>>
            BY <2>9, <6>2
          <6> QED BY <6>1, <6>2
        <5> QED BY <5>4, <5>5
      <4> QED BY <4>1, <4>2
    <3> QED BY <3>1, <3>2 DEF DrawnTo
  <2> QED BY <1>1, <2>8, <2>10, <2>11
<1> QED BY <1>2, <1>3

(* A step of the program leaves the windows alone, and what they read too     *)
(* while still holds.                                                         *)
Aside == Main \/ TypeKey \/ Interrupt \/ Terminated \/ UNCHANGED vars
LEMMA AsideKeeps ==
  ASSUME Aside
  PROVE  /\ UNCHANGED display
         /\ wphase' \in {wphase, "none", "starting"} /\ (mphase # "setup" => wphase' = wphase)
         /\ still' => still /\ mem' = mem
<1>1. CASE CreateThread
  BY <1>1 DEF CreateThread
<1>2. CASE Step
  BY <1>2 DEF Step
<1>5. CASE StoreDone \/ SetExit \/ Join \/ TypeKey
  BY <1>5 DEF StoreDone, SetExit, Join, TypeKey, PromptKey
<1>3. CASE WriteByte
  BY <1>3 DEF WriteByte
<1>4. CASE Interrupt \/ Terminated \/ UNCHANGED vars
  BY <1>4 DEF Interrupt, Terminated, vars, display
<1> QED BY <1>1, <1>2, <1>3, <1>4, <1>5 DEF Aside, Main

(* Outside its section the panel is left alone, and each section starts at    *)
(* its first read.                                                            *)
LEMMA OutsidePanel ==
  ASSUME OpenWindows \/ LoopHead(TRUE) \/ LoopHead(FALSE) \/ DrawLeds \/ DrawVga
  PROVE  panel' = panel /\ (wphase' = "hub75" => pos' = 0)
<1>1. CASE OpenWindows
  BY <1>1 DEF OpenWindows, display
<1>2. CASE LoopHead(TRUE) \/ LoopHead(FALSE)
  BY <1>2 DEF LoopHead
<1>3. CASE DrawLeds \/ DrawVga
  BY <1>3 DEF DrawLeds, DrawVga, Section
<1> QED BY <1>1, <1>2, <1>3

(* Every step keeps the panel drawn up to the reads made.                     *)
LEMMA PanelStep ==
  ASSUME Windows, PanelDrawn, [Next \/ Terminated]_vars
  PROVE  PanelDrawn'
<1>1. CASE Aside
  <2>1. UNCHANGED <<panel, pos, sel>> /\ (wphase' = "hub75" => wphase = "hub75") /\ (still' => still /\ mem' = mem)
    BY <1>1, AsideKeeps DEF display
  <2>2. still' => \A n, p, b : DrawnTo(n, p, b) => DrawnTo(n, p, b)'
    BY <2>1 DEF DrawnTo, Component
  <2> QED BY <2>1, <2>2 DEF PanelDrawn, PanelShape, DrawnTo, Component
<1>2. CASE OpenWindows \/ LoopHead(TRUE) \/ LoopHead(FALSE) \/ DrawLeds \/ DrawVga
  <2>1. panel' = panel /\ (wphase' = "hub75" => pos' = 0)
    BY <1>2, OutsidePanel
  <2>2. 0 < 1 + 3 * PANEL_ROWS * PANEL_COLS
    BY PanelSizes
  <2> QED BY <2>1, <2>2 DEF PanelDrawn, PanelShape
<1>3. CASE DrawHub75
  <2>1. /\ PanelShape(panel') /\ mem' = mem
        /\ still' => sel' = read_byte(mem, HUB75_CTL) /\ DrawnTo(pos + 1, panel', sel')
    BY <1>3, PanelPoint
  <2>2. CASE pos + 1 = 1 + 3 * PANEL_ROWS * PANEL_COLS
    <3>1. pos' = 0 /\ 0 < 1 + 3 * PANEL_ROWS * PANEL_COLS
      BY <1>3, <2>2, PanelSizes DEF DrawHub75, Section
    <3> QED BY <2>1, <3>1 DEF PanelDrawn, PanelShape
  <2>3. CASE pos + 1 # 1 + 3 * PANEL_ROWS * PANEL_COLS
    <3>1. PICK z \in Nat : z = 3 * PANEL_ROWS * PANEL_COLS
      BY PanelSizes
    <3>2. pos' = pos + 1 /\ wphase = "hub75" /\ pos \in Nat /\ pos < 1 + z
      BY <1>3, <2>3, <3>1 DEF DrawHub75, Section, PanelDrawn, Windows
    <3>3. pos' < 1 + 3 * PANEL_ROWS * PANEL_COLS
      BY <2>3, <3>1, <3>2
    <3>4. still' => sel' = read_byte(mem', HUB75_CTL) /\ DrawnTo(pos, panel, sel)'
      BY <2>1, <3>2 DEF DrawnTo, Component
    <3> QED BY <2>1, <3>3, <3>4 DEF PanelDrawn, PanelShape
  <2> QED BY <2>2, <2>3
<1> QED BY <1>1, <1>2, <1>3 DEF Aside, Next, Window, CloseWindow

(* When the section ends, every component has been drawn. *)
LEMMA PanelShows ==
  ASSUME options \in Options, program \in Programs, Stores, Windows, PanelDrawn, [Next \/ Terminated]_vars,
         Finishes("hub75")
  PROVE  ShowsPanel
<1>1. wphase = "hub75" /\ wphase' # "hub75" /\ still' /\ mphase # "store" /\ mphase # "setup" /\ options.hub75
  BY DEF Finishes, Windows
<1>2. DrawHub75
  <2>1. ~ Aside
    BY <1>1, AsideKeeps
  <2>2. ~ (OpenWindows \/ LoopHead(TRUE) \/ LoopHead(FALSE) \/ DrawLeds \/ DrawVga)
    BY <1>1 DEF OpenWindows, LoopHead, DrawLeds, DrawVga, Section
  <2> QED BY <2>1, <2>2 DEF Aside, Next, Window, CloseWindow
<1>3. pos + 1 = 1 + 3 * PANEL_ROWS * PANEL_COLS
  BY <1>1, <1>2 DEF DrawHub75, Section
<1>4. sel' = Selected /\ Selected \in 0 .. 1 /\ DrawnTo(pos + 1, panel', sel')
  BY <1>1, <1>2, PanelPoint, SelectRead
<1>5. PICK b \in 0 .. 1 : b = Selected /\ b = sel'
  BY <1>4
<1>6. PICK w \in Nat \ {0} : w = PANEL_ROWS /\ w = PANEL_COLS /\ w = WIDTH /\ w = HEIGHT
  BY Sizes DEF PANEL_ROWS, PANEL_COLS
<1>7. ASSUME NEW r \in 0 .. PANEL_ROWS - 1, NEW c \in 0 .. PANEL_COLS - 1, NEW k \in 1 .. 3
      PROVE  panel'[<<r, c>>][k] = hub75_colorcorrect(2 * Pixel(PANEL_ROWS - 1 - r, c, Selected)[k])
  <2>1. panel'[<<r, c>>][k] = Component(r, c, k, b)
    <3>1. PICK z \in Nat : z = 3 * PANEL_ROWS * PANEL_COLS
      BY PanelSizes
    <3>2. Numbered(r, c, k) < pos + 1
      BY <1>3, <3>1, NumberedIs
    <3> QED BY <1>4, <1>5, <3>2 DEF DrawnTo
  <2>2. PICK y \in 0 .. HEIGHT - 1, x \in 0 .. WIDTH - 1 : y = PANEL_ROWS - 1 - r /\ x = c
    BY <1>6
  <2>3. PixelIndex(r, c, b) = Index(y, x, b)
    <3>1. PixelIndex(r, c, b) = y * w + x + b * w * w /\ Index(y, x, b) = y * w + x + w * w * b
      BY <1>6, <2>2, Zenon DEF PixelIndex, Index
    <3>2. b = 0 \/ b = 1
      OBVIOUS
    <3>3. b * w * w = w * w * b
      BY <3>2
    <3> QED BY <3>1, <3>3, Zenon
  <2>4. PICK v \in Byte : v = Pixel(y, x, b)[k] /\ 2 * v \in Byte
    BY <1>1, PixelRead
  <2>5. read_byte(mem, HUB75_BASE + 4 * PixelIndex(r, c, b) + (k - 1)) = v
    <3>1. read_byte(mem, HUB75_BASE + 4 * Index(y, x, b) + (k - 1)) = v
      BY <1>1, <2>4, PixelRead
    <3> QED BY <2>3, <3>1, Zenon
  <2>6. (v * 2) % ByteMod = 2 * v
    BY <2>4, Sizes DEF Byte
  <2>7. Component(r, c, k, b) = hub75_colorcorrect(2 * v)
    BY <2>5, <2>6, Zenon DEF Component
  <2> QED BY <1>5, <2>1, <2>2, <2>4, <2>7, Zenon
<1> QED BY <1>7, Zenon DEF ShowsPanel

(* The screen in numbers.                                                     *)
LEMMA ScreenSizes ==
  \E z \in Nat \ {0}, h \in Nat \ {0}, w \in Nat \ {0}, t \in Nat \ {0}, n \in Nat \ {0} :
    /\ z = COLS * ROWS /\ h = FONT_HEIGHT /\ w = FONT_WIDTH
    /\ t = RowReads /\ t = 1 + 2 * w /\ n = CellReads /\ n = 1 + h * t
<1>1. PICK z \in Nat \ {0}, h \in Nat \ {0}, w \in Nat \ {0} : z = COLS * ROWS /\ h = FONT_HEIGHT /\ w = FONT_WIDTH
  BY Sizes
<1>2. PICK t \in Nat \ {0} : t = 1 + 2 * w
  OBVIOUS
<1>3. t = RowReads
  BY <1>1, <1>2, Zenon DEF RowReads
<1>4. PICK n \in Nat \ {0} : n = 1 + h * t
  OBVIOUS
<1>5. n = CellReads
  BY <1>1, <1>3, <1>4, Zenon DEF CellReads
<1> QED BY <1>1, <1>2, <1>3, <1>4, <1>5

(* The reads of a character are its code and the spots of its rows. *)
LEMMA SpotIs ==
  ASSUME NEW i \in 0 .. COLS * ROWS - 1, NEW r \in 0 .. FONT_HEIGHT - 1, NEW s \in 0 .. RowReads - 1
  PROVE  \E b \in 0 .. CellReads - 2 :
           /\ Spot(i, r, s) = i * CellReads + (1 + b) /\ Spot(i, r, s) \in 1 .. COLS * ROWS * CellReads - 1
           /\ b = r * RowReads + s /\ b \div RowReads = r /\ b % RowReads = s
           /\ Spot(i, r, s) \div CellReads = i /\ Spot(i, r, s) % CellReads = 1 + b
<1>1. PICK z \in Nat \ {0}, h \in Nat \ {0}, w \in Nat \ {0}, t \in Nat \ {0}, n \in Nat \ {0} :
        /\ z = COLS * ROWS /\ h = FONT_HEIGHT /\ w = FONT_WIDTH
        /\ t = RowReads /\ t = 1 + 2 * w /\ n = CellReads /\ n = 1 + h * t
  BY ScreenSizes
<1>2. i \in 0 .. z - 1 /\ i \in Nat /\ r \in 0 .. h - 1 /\ r \in Nat /\ s \in 0 .. t - 1
  BY <1>1
<1>3. r * t + s \in 0 .. h * t - 1 /\ (r * t + s) \div t = r /\ (r * t + s) % t = s
  BY <1>2, Below, Digits
<1>4. PICK b \in 0 .. n - 2 : b = r * t + s /\ b \div t = r /\ b % t = s
  <2>1. h * t \in Int /\ h * t - 1 = n - 2
    BY <1>1
  <2> QED BY <1>3, <2>1
<1>5. PICK d \in 0 .. n - 1 : d = 1 + b /\ d # 0
  OBVIOUS
<1>6. i * n + d \in 0 .. z * n - 1 /\ (i * n + d) \div n = i /\ (i * n + d) % n = d
  BY <1>2, Below, Digits
<1>7. Spot(i, r, s) = i * n + d
  BY <1>1, <1>4, <1>5, Zenon DEF Spot
<1>8. i * n \in Nat /\ z * n \in Nat
  BY <1>2
<1>9. i * n + d \in 1 .. z * n - 1
  BY <1>5, <1>6, <1>8
<1> QED BY <1>1, <1>4, <1>5, <1>6, <1>7, <1>9, Zenon

(* No two spots are the same read.                                            *)
LEMMA SpotsDiffer ==
  ASSUME NEW i \in 0 .. COLS * ROWS - 1, NEW r \in 0 .. FONT_HEIGHT - 1, NEW s \in 0 .. RowReads - 1,
         NEW j \in 0 .. COLS * ROWS - 1, NEW y \in 0 .. FONT_HEIGHT - 1, NEW x \in 0 .. RowReads - 1,
         Spot(i, r, s) = Spot(j, y, x)
  PROVE  i = j /\ r = y /\ s = x
<1>1. PICK b \in 0 .. CellReads - 2 :
           /\ b \div RowReads = r /\ b % RowReads = s
           /\ Spot(i, r, s) \div CellReads = i /\ Spot(i, r, s) % CellReads = 1 + b
  BY SpotIs
<1>2. PICK c \in 0 .. CellReads - 2 :
           /\ c \div RowReads = y /\ c % RowReads = x
           /\ Spot(j, y, x) \div CellReads = j /\ Spot(j, y, x) % CellReads = 1 + c
  BY SpotIs
<1>3. 1 + b = 1 + c
  BY <1>1, <1>2, Zenon
<1>4. PICK m \in Nat \ {0} : m = CellReads
  BY ScreenSizes
<1>5. b = c
  BY <1>3, <1>4
<1> QED BY <1>1, <1>2, <1>5, Zenon

(* The read of a character's code is no spot.                                 *)
LEMMA StartIsNoSpot ==
  ASSUME NEW j \in Nat,
         NEW i \in 0 .. COLS * ROWS - 1, NEW r \in 0 .. FONT_HEIGHT - 1, NEW s \in 0 .. RowReads - 1
  PROVE  Spot(i, r, s) # j * CellReads
<1>1. PICK n \in Nat \ {0} : n = CellReads
  BY ScreenSizes
<1>2. PICK b \in 0 .. n - 2 : Spot(i, r, s) % n = 1 + b
  BY <1>1, SpotIs
<1>3. (j * n) % n = 0
  <2>1. 0 \in 0 .. n - 1 /\ j * n + 0 = j * n
    OBVIOUS
  <2>2. (j * n + 0) % n = 0
    BY <2>1, Digits
  <2> QED BY <2>1, <2>2, Zenon
<1>4. 1 + b # 0
  OBVIOUS
<1> QED BY <1>1, <1>2, <1>3, <1>4, Zenon

(* Every read is one or the other. *)
LEMMA ReadsAre ==
  ASSUME NEW n \in Nat, n < COLS * ROWS * CellReads
  PROVE  \/ \E i \in 0 .. COLS * ROWS - 1 : n = i * CellReads /\ n \div CellReads = i /\ n % CellReads = 0
         \/ \E i \in 0 .. COLS * ROWS - 1, r \in 0 .. FONT_HEIGHT - 1, s \in 0 .. RowReads - 1 : n = Spot(i, r, s)
<1>1. PICK z \in Nat \ {0}, h \in Nat \ {0}, w \in Nat \ {0}, t \in Nat \ {0}, m \in Nat \ {0} :
        /\ z = COLS * ROWS /\ h = FONT_HEIGHT /\ w = FONT_WIDTH
        /\ t = RowReads /\ t = 1 + 2 * w /\ m = CellReads /\ m = 1 + h * t
  BY ScreenSizes
<1>2. n \in 0 .. z * m - 1
  <2>1. PICK k \in Nat : k = z * m
    OBVIOUS
  <2>2. n < k
    BY <1>1, <2>1, Zenon
  <2>3. n \in 0 .. k - 1
    BY <2>2
  <2> QED BY <2>1, <2>3, Zenon
<1>3. PICK i \in 0 .. z - 1, q \in 0 .. m - 1 : i = n \div m /\ q = n % m /\ n = i * m + q
  BY <1>2, Split
<1>4. CASE q = 0
  <2>1. n = i * m
    BY <1>3, <1>4
  <2> QED BY <1>1, <1>3, <1>4, <2>1, Zenon
<1>5. CASE q # 0
  <2>1. q - 1 \in 0 .. h * t - 1
    <3>1. PICK k \in Nat : k = h * t
      OBVIOUS
    <3> QED BY <1>1, <1>5, <3>1
  <2>2. PICK r \in 0 .. h - 1, s \in 0 .. t - 1 :
          r = (q - 1) \div t /\ s = (q - 1) % t /\ q - 1 = r * t + s
    <3>1. h \in Nat
      OBVIOUS
    <3> QED BY <2>1, <3>1, Split, Zenon
  <2>3. q = 1 + (q - 1)
    OBVIOUS
  <2>4. n = Spot(i, r, s)
    BY <1>1, <1>3, <2>2, <2>3, Zenon DEF Spot
  <2> QED BY <1>1, <2>4, Zenon
<1> QED BY <1>4, <1>5

(* The read after a spot. *)
LEMMA NextSpot ==
  ASSUME NEW i \in 0 .. COLS * ROWS - 1, NEW r \in 0 .. FONT_HEIGHT - 1, NEW s \in 0 .. RowReads - 1
  PROVE  IF s + 1 < RowReads THEN s + 1 \in 0 .. RowReads - 1 /\ Spot(i, r, s) + 1 = Spot(i, r, s + 1)
         ELSE IF r + 1 < FONT_HEIGHT
              THEN r + 1 \in 0 .. FONT_HEIGHT - 1 /\ 0 \in 0 .. RowReads - 1 /\ Spot(i, r, s) + 1 = Spot(i, r + 1, 0)
              ELSE i + 1 \in Nat /\ Spot(i, r, s) + 1 = (i + 1) * CellReads
<1>1. PICK z \in Nat \ {0}, h \in Nat \ {0}, w \in Nat \ {0}, t \in Nat \ {0}, n \in Nat \ {0} :
        /\ z = COLS * ROWS /\ h = FONT_HEIGHT /\ w = FONT_WIDTH
        /\ t = RowReads /\ t = 1 + 2 * w /\ n = CellReads /\ n = 1 + h * t
  BY ScreenSizes
<1>2. i \in Nat /\ r \in 0 .. h - 1 /\ s \in 0 .. t - 1
  BY <1>1
<1>3. PICK a \in Nat, b \in Nat : a = i * n /\ b = r * t
  BY <1>2
<1>4. Spot(i, r, s) = a + (1 + (b + s))
  BY <1>1, <1>3, Zenon DEF Spot
<1>5. CASE s + 1 < t
  <2>1. Spot(i, r, s + 1) = a + (1 + (b + (s + 1)))
    BY <1>1, <1>3, Zenon DEF Spot
  <2>2. s + 1 \in 0 .. t - 1 /\ a + (1 + (b + s)) + 1 = a + (1 + (b + (s + 1)))
    BY <1>2, <1>5
  <2> QED BY <1>1, <1>4, <1>5, <2>1, <2>2, Zenon
<1>6. CASE ~ (s + 1 < t) /\ r + 1 < h
  <2>1. Spot(i, r + 1, 0) = a + (1 + ((r + 1) * t + 0))
    BY <1>1, <1>3, Zenon DEF Spot
  <2>2. (r + 1) * t = b + t
    BY <1>2, <1>3
  <2>3. /\ r + 1 \in 0 .. h - 1 /\ 0 \in 0 .. t - 1
        /\ a + (1 + (b + s)) + 1 = a + (1 + ((b + t) + 0))
    BY <1>2, <1>6
  <2> QED BY <1>1, <1>4, <1>6, <2>1, <2>2, <2>3, Zenon
<1>7. CASE ~ (s + 1 < t) /\ ~ (r + 1 < h)
  <2>1. s + 1 = t /\ r + 1 = h
    BY <1>2, <1>7
  <2>2. h * t = b + t
    BY <1>2, <1>3, <2>1
  <2>3. (i + 1) * n = a + n
    BY <1>2, <1>3
  <2>4. i + 1 \in Nat /\ a + (1 + (b + s)) + 1 = a + n
    BY <1>1, <1>2, <2>1, <2>2
  <2> QED BY <1>1, <1>4, <1>7, <2>3, <2>4, Zenon
<1> QED BY <1>1, <1>5, <1>6, <1>7, Zenon

(* The first spot follows it.                                                 *)
LEMMA FirstSpot ==
  ASSUME NEW i \in 0 .. COLS * ROWS - 1
  PROVE  0 \in 0 .. FONT_HEIGHT - 1 /\ 0 \in 0 .. RowReads - 1 /\ i * CellReads + 1 = Spot(i, 0, 0)
<1>1. PICK z \in Nat \ {0}, h \in Nat \ {0}, w \in Nat \ {0}, t \in Nat \ {0}, n \in Nat \ {0} :
        /\ z = COLS * ROWS /\ h = FONT_HEIGHT /\ w = FONT_WIDTH
        /\ t = RowReads /\ t = 1 + 2 * w /\ n = CellReads /\ n = 1 + h * t
  BY ScreenSizes
<1>2. 0 * t + 0 = 0 /\ 1 + 0 = 1 /\ 0 \in 0 .. h - 1 /\ 0 \in 0 .. t - 1
  OBVIOUS
<1> QED BY <1>1, <1>2, Zenon DEF Spot

(* The colour's low byte is read at the odd reads of a row, and its high byte *)
(* completes a point at the even ones.                                        *)
LEMMA PointAt ==
  ASSUME NEW s \in 0 .. RowReads - 1, s # 0
  PROVE  /\ s % 2 = 1 => \A c \in Int : 2 * c + 2 # s
         /\ s % 2 # 1 => s % 2 = 0 /\ (s - 1) \div 2 \in 0 .. FONT_WIDTH - 1 /\ 2 * ((s - 1) \div 2) + 2 = s
<1>1. PICK w \in Nat \ {0} : w = FONT_WIDTH /\ RowReads = 1 + 2 * w
  BY ScreenSizes
<1>2. s \in 1 .. 2 * w
  BY <1>1
<1> QED BY <1>1, <1>2

(* Every point is completed by an even read of its row.                       *)
LEMMA PointIs ==
  ASSUME NEW c \in 0 .. FONT_WIDTH - 1
  PROVE  2 * c + 2 \in 0 .. RowReads - 1 /\ 2 * c + 2 # 0 /\ (2 * c + 2) % 2 = 0
<1>1. PICK w \in Nat \ {0} : w = FONT_WIDTH /\ RowReads = 1 + 2 * w
  BY ScreenSizes
<1> QED BY <1>1

(* What one read does, where it is. *)
Reads(i, q, r, s) ==
  LET dot == (s - 1) \div 2 color == cell[3] + ByteMod * HighAt(i)
  IN  IF q = 0 THEN cell' = <<CharAt(i), 0, 0>> /\ screen' = screen
      ELSE IF s = 0
           THEN /\ cell' = <<cell[1], read_byte(mem, FONTRAM_BASE_ADDR + FONT_HEIGHT * cell[1] + r), 0>>
                /\ screen' = screen
      ELSE IF s % 2 = 1
           THEN cell' = <<cell[1], cell[2], LowAt(i)>> /\ screen' = screen
           ELSE /\ cell' = cell
                /\ screen' = [screen EXCEPT ![i][<<r, dot>>] =
                                IF Lit(cell[2], dot) THEN LitColor(color) ELSE DarkColor(color)]

LEMMA VgaReads ==
  ASSUME DrawVga, NEW i, NEW q \in Nat, NEW r, NEW s, i = pos \div CellReads, q = pos % CellReads,
         r = (q - 1) \div RowReads, s = (q - 1) % RowReads
  PROVE  Reads(i, q, r, s)
<1>0. q # 0 => q > 0
  OBVIOUS
<1>1. CASE q = 0
  BY <1>1 DEF DrawVga, CharAt, Reads
<1>2. CASE q # 0 /\ s = 0
  BY <1>0, <1>2 DEF DrawVga, Reads
<1>3. CASE q # 0 /\ s # 0 /\ s % 2 = 1
  BY <1>0, <1>3 DEF DrawVga, LowAt, Reads
<1>4. CASE q # 0 /\ s # 0 /\ s % 2 # 1
  BY <1>0, <1>4 DEF DrawVga, HighAt, Reads
<1> QED BY <1>1, <1>2, <1>3, <1>4

(* What a read of the section leaves as it was.                               *)
LEMMA VgaSection ==
  ASSUME DrawVga
  PROVE  /\ wphase = "vga" /\ UNCHANGED <<mem, panel, leds>>
         /\ still' /\ pos # 0 => still
         /\ IF pos + 1 = COLS * ROWS * CellReads THEN wphase' = After("vga") /\ pos' = 0
            ELSE wphase' = "vga" /\ pos' = pos + 1
BY DEF DrawVga, Section

(* Reading a character's code. *)
LEMMA PaintStart ==
  ASSUME Windows, ScreenDrawn, DrawVga,
         NEW i \in 0 .. COLS * ROWS - 1, pos = i * CellReads, pos \div CellReads = i, pos % CellReads = 0
  PROVE  screen' = screen /\ (still' => CellAt(pos + 1, cell') /\ PaintedTo(pos + 1, screen))
<1>1. cell' = <<CharAt(i), 0, 0>> /\ screen' = screen
  <2>1. PICK q \in Nat : q = 0
    OBVIOUS
  <2>2. PICK r, s : r = (q - 1) \div RowReads /\ s = (q - 1) % RowReads
    OBVIOUS
  <2>3. Reads(i, q, r, s)
    BY <2>1, <2>2, VgaReads, Zenon
  <2> QED BY <2>1, <2>3 DEF Reads
<1>2. pos \in Nat /\ i \in Nat
  BY DEF Windows
<1>3. ASSUME NEW j \in 0 .. COLS * ROWS - 1, NEW r \in 0 .. FONT_HEIGHT - 1, NEW s \in 0 .. RowReads - 1,
             Spot(j, r, s) = pos + 1
      PROVE  cell'[1] = CharAt(j) /\ s = 0
  <2>1. 0 \in 0 .. FONT_HEIGHT - 1 /\ 0 \in 0 .. RowReads - 1 /\ Spot(j, r, s) = Spot(i, 0, 0)
    BY <1>3, FirstSpot, Zenon
  <2>2. j = i /\ s = 0
    BY <2>1, SpotsDiffer
  <2> QED BY <1>1, <2>2
<1>4. CellAt(pos + 1, cell')
  BY <1>3 DEF CellAt
<1>5. ASSUME still', NEW j \in 0 .. COLS * ROWS - 1, NEW r \in 0 .. FONT_HEIGHT - 1, NEW c \in 0 .. FONT_WIDTH - 1,
             Read(j, r, c) < pos + 1
      PROVE  screen[j][<<r, c>>] = Point(j, r, c)
  <2>1. 2 * c + 2 \in 0 .. RowReads - 1
    BY PointIs
  <2>2. Read(j, r, c) # pos
    BY <1>2, <2>1, StartIsNoSpot, Zenon DEF Read
  <2>3. Read(j, r, c) \in Nat \ {0}
    <3>1. PICK m \in Nat : m = COLS * ROWS * CellReads
      BY ScreenSizes
    <3>2. Spot(j, r, 2 * c + 2) \in 1 .. m - 1
      BY <2>1, <3>1, SpotIs
    <3> QED BY <3>2 DEF Read
  <2>4. Read(j, r, c) < pos /\ pos > 0
    BY <1>2, <1>5, <2>2, <2>3
  <2>5. PaintedTo(pos, screen)
    BY <1>5, <2>4, VgaSection DEF ScreenDrawn
  <2> QED BY <2>4, <2>5 DEF PaintedTo
<1>6. still' => PaintedTo(pos + 1, screen)
  BY <1>5 DEF PaintedTo
<1> QED BY <1>1, <1>4, <1>6

(* What is in a spot's character stays to the next. *)
LEMMA CellNext ==
  ASSUME NEW i \in 0 .. COLS * ROWS - 1, NEW r \in 0 .. FONT_HEIGHT - 1, NEW s \in 0 .. RowReads - 1,
         NEW data, data[1] = CharAt(i), data[2] = RowAt(i, r), (s + 1) % 2 = 0 => data[3] = LowAt(i)
  PROVE  CellAt(Spot(i, r, s) + 1, data)
<1>1. SUFFICES ASSUME NEW j \in 0 .. COLS * ROWS - 1, NEW y \in 0 .. FONT_HEIGHT - 1, NEW x \in 0 .. RowReads - 1,
                      Spot(j, y, x) = Spot(i, r, s) + 1
               PROVE  data[1] = CharAt(j) /\ (x > 0 => data[2] = RowAt(j, y)) /\ (x > 0 /\ x % 2 = 0 => data[3] = LowAt(j))
  BY DEF CellAt
<1>2. CASE s + 1 < RowReads
  <2>1. s + 1 \in 0 .. RowReads - 1 /\ Spot(j, y, x) = Spot(i, r, s + 1)
    BY <1>1, <1>2, NextSpot, Zenon
  <2>2. j = i /\ y = r /\ x = s + 1
    BY <2>1, SpotsDiffer
  <2> QED BY <2>2
<1>3. CASE ~ (s + 1 < RowReads) /\ r + 1 < FONT_HEIGHT
  <2>1. r + 1 \in 0 .. FONT_HEIGHT - 1 /\ 0 \in 0 .. RowReads - 1 /\ Spot(j, y, x) = Spot(i, r + 1, 0)
    BY <1>1, <1>3, NextSpot, Zenon
  <2>2. j = i /\ x = 0
    BY <2>1, SpotsDiffer
  <2> QED BY <2>2
<1>4. CASE ~ (s + 1 < RowReads) /\ ~ (r + 1 < FONT_HEIGHT)
  <2>1. i + 1 \in Nat /\ Spot(j, y, x) = (i + 1) * CellReads
    BY <1>1, <1>4, NextSpot, Zenon
  <2> QED BY <2>1, StartIsNoSpot, Zenon
<1> QED BY <1>2, <1>3, <1>4

(* Reading a row of a glyph, or one of the two bytes of a colour.             *)
LEMMA PaintSpot ==
  ASSUME Windows, ScreenDrawn, DrawVga,
         NEW i \in 0 .. COLS * ROWS - 1, NEW r \in 0 .. FONT_HEIGHT - 1, NEW s \in 0 .. RowReads - 1,
         pos = Spot(i, r, s)
  PROVE  ScreenShape(screen') /\ (still' => CellAt(pos + 1, cell') /\ PaintedTo(pos + 1, screen'))
<1>1. PICK b \in Nat : /\ b = r * RowReads + s /\ b \div RowReads = r /\ b % RowReads = s
                       /\ pos \div CellReads = i /\ pos % CellReads = 1 + b
  <2>1. PICK n \in Nat \ {0} : n = CellReads
    BY ScreenSizes
  <2>2. PICK b \in 0 .. n - 2 : /\ b = r * RowReads + s /\ b \div RowReads = r /\ b % RowReads = s
                                /\ pos \div CellReads = i /\ pos % CellReads = 1 + b
    BY <2>1, SpotIs
  <2>3. b \in Nat
    BY <2>2
  <2> QED BY <2>2, <2>3, Zenon
<1>2. PICK q \in Nat : q = 1 + b /\ q - 1 = b /\ q > 0 /\ q # 0
  OBVIOUS
<1>3. i = pos \div CellReads /\ q = pos % CellReads /\ r = (q - 1) \div RowReads /\ s = (q - 1) % RowReads
  BY <1>1, <1>2, Zenon
<1>11. Reads(i, q, r, s)
  BY <1>3, VgaReads, Zenon
<1>4. pos \in Nat \ {0}
  <2>1. PICK m \in Nat : m = COLS * ROWS * CellReads
    BY ScreenSizes
  <2>2. pos \in 1 .. m - 1
    BY <2>1, SpotIs
  <2> QED BY <2>2
<1>5. ScreenShape(screen)
  BY DEF ScreenDrawn
<1>6. ASSUME still'
      PROVE  /\ CellAt(pos, cell) /\ PaintedTo(pos, screen)
             /\ cell[1] = CharAt(i)
             /\ s # 0 => cell[2] = RowAt(i, r)
             /\ s # 0 /\ s % 2 = 0 => cell[3] = LowAt(i)
  <2>1. CellAt(pos, cell) /\ PaintedTo(pos, screen)
    BY <1>4, <1>6, VgaSection DEF ScreenDrawn
  <2>2. s # 0 => s > 0
    OBVIOUS
  <2> QED BY <2>1, <2>2 DEF CellAt
<1>7. ASSUME still', ~ (s # 0 /\ s % 2 = 0) PROVE PaintedTo(pos + 1, screen)
  <2>1. SUFFICES ASSUME NEW j \in 0 .. COLS * ROWS - 1, NEW y \in 0 .. FONT_HEIGHT - 1, NEW c \in 0 .. FONT_WIDTH - 1,
                        Read(j, y, c) < pos + 1
                 PROVE  screen[j][<<y, c>>] = Point(j, y, c)
    BY DEF PaintedTo
  <2>2. 2 * c + 2 \in 0 .. RowReads - 1 /\ 2 * c + 2 # 0 /\ (2 * c + 2) % 2 = 0
    BY PointIs
  <2>3. Read(j, y, c) # pos
    BY <1>7, <2>2, SpotsDiffer DEF Read
  <2>4. Read(j, y, c) \in Nat
    <3>1. PICK m \in Nat : m = COLS * ROWS * CellReads
      BY ScreenSizes
    <3>2. Spot(j, y, 2 * c + 2) \in 1 .. m - 1
      BY <2>2, <3>1, SpotIs
    <3> QED BY <3>2 DEF Read
  <2>5. Read(j, y, c) < pos
    BY <1>4, <2>1, <2>3, <2>4
  <2> QED BY <1>6, <1>7, <2>5 DEF PaintedTo
<1>8. CASE s = 0
  <2>1. /\ cell' = <<cell[1], read_byte(mem, FONTRAM_BASE_ADDR + FONT_HEIGHT * cell[1] + r), 0>>
        /\ screen' = screen
    BY <1>2, <1>8, <1>11 DEF Reads
  <2>2. ASSUME still' PROVE CellAt(pos + 1, cell')
    <3>1. cell'[1] = CharAt(i) /\ cell'[2] = RowAt(i, r)
      BY <1>6, <2>1, <2>2 DEF RowAt
    <3>2. ~ ((s + 1) % 2 = 0)
      BY <1>8
    <3> QED BY <3>1, <3>2, CellNext, Zenon
  <2> QED BY <1>5, <1>7, <1>8, <2>1, <2>2
<1>9. CASE s # 0 /\ s % 2 = 1
  <2>1. cell' = <<cell[1], cell[2], LowAt(i)>> /\ screen' = screen
    BY <1>2, <1>9, <1>11 DEF Reads
  <2>2. ASSUME still' PROVE CellAt(pos + 1, cell')
    <3>1. cell'[1] = CharAt(i) /\ cell'[2] = RowAt(i, r) /\ cell'[3] = LowAt(i)
      BY <1>6, <1>9, <2>1, <2>2
    <3> QED BY <3>1, CellNext, Zenon
  <2> QED BY <1>5, <1>7, <1>9, <2>1, <2>2
<1>10. CASE s # 0 /\ s % 2 # 1
  <2>1. PICK c \in 0 .. FONT_WIDTH - 1 : c = (s - 1) \div 2 /\ 2 * c + 2 = s
    BY <1>10, PointAt
  <2>2. s % 2 = 0 /\ (s + 1) % 2 # 0
    BY <1>10
  <2> DEFINE color == cell[3] + ByteMod * HighAt(i)
             dot == IF Lit(cell[2], c) THEN LitColor(color) ELSE DarkColor(color)
  <2>3. cell' = cell /\ screen' = [screen EXCEPT ![i][<<r, c>>] = dot]
    BY <1>2, <1>10, <1>11, <2>1 DEF Reads
  <2>4. still' => dot = Point(i, r, c)
    BY <1>6, <1>10, <2>2 DEF Point
  <2> HIDE DEF dot
  <2>5. DOMAIN screen' = DOMAIN screen
    BY <2>3
  <2>6. /\ screen'[i] = [screen[i] EXCEPT ![<<r, c>>] = dot]
        /\ \A j \in 0 .. COLS * ROWS - 1 : j # i => screen'[j] = screen[j]
    BY <1>5, <2>3 DEF ScreenShape
  <2>7. ScreenShape(screen')
    <3>1. \A j \in 0 .. COLS * ROWS - 1 : DOMAIN screen'[j] = DOMAIN screen[j]
      BY <2>6
    <3> QED BY <1>5, <2>5, <3>1 DEF ScreenShape
  <2>8. Read(i, r, c) = pos
    BY <2>1, Zenon DEF Read
  <2>9. ASSUME still' PROVE CellAt(pos + 1, cell')
    <3>1. cell'[1] = CharAt(i) /\ cell'[2] = RowAt(i, r)
      BY <1>6, <1>10, <2>3, <2>9
    <3> QED BY <2>2, <3>1, CellNext, Zenon
  <2>10. ASSUME still', NEW j \in 0 .. COLS * ROWS - 1, NEW y \in 0 .. FONT_HEIGHT - 1, NEW x \in 0 .. FONT_WIDTH - 1,
                Read(j, y, x) < pos + 1
         PROVE  screen'[j][<<y, x>>] = Point(j, y, x)
    <3>1. <<r, c>> \in DOMAIN screen[i] /\ <<y, x>> \in DOMAIN screen[j]
      BY <1>5 DEF ScreenShape
    <3>2. CASE j = i /\ y = r /\ x = c
      BY <2>4, <2>6, <2>10, <3>1, <3>2
    <3>3. CASE ~ (j = i /\ y = r /\ x = c)
      <4>1. 2 * x + 2 \in 0 .. RowReads - 1 /\ x \in Int /\ c \in Int
        BY PointIs
      <4>2. Read(j, y, x) # pos
        <5>1. Spot(j, y, 2 * x + 2) = Spot(i, r, s) => j = i /\ y = r /\ 2 * x + 2 = s
          BY <4>1, SpotsDiffer
        <5>2. 2 * x + 2 = s => x = c
          BY <2>1, <4>1
        <5> QED BY <3>3, <5>1, <5>2, Zenon DEF Read
      <4>3. Read(j, y, x) \in Nat
        <5>1. PICK m \in Nat : m = COLS * ROWS * CellReads
          BY ScreenSizes
        <5>2. Spot(j, y, 2 * x + 2) \in 1 .. m - 1
          BY <4>1, <5>1, SpotIs
        <5> QED BY <5>2 DEF Read
      <4>4. Read(j, y, x) < pos
        BY <1>4, <2>10, <4>2, <4>3
      <4>5. screen[j][<<y, x>>] = Point(j, y, x)
        BY <1>6, <2>10, <4>4 DEF PaintedTo
      <4>6. screen'[j][<<y, x>>] = screen[j][<<y, x>>]
        BY <2>6, <3>1, <3>3
      <4> QED BY <4>5, <4>6
    <3> QED BY <3>2, <3>3
  <2>11. still' => PaintedTo(pos + 1, screen')
    BY <2>10 DEF PaintedTo
  <2> QED BY <2>7, <2>9, <2>11
<1> QED BY <1>8, <1>9, <1>10

(* One step of the section. *)
LEMMA ScreenPoint ==
  ASSUME Windows, ScreenDrawn, DrawVga
  PROVE  ScreenShape(screen') /\ (still' => CellAt(pos + 1, cell') /\ PaintedTo(pos + 1, screen'))
<1>1. pos \in Nat /\ pos < COLS * ROWS * CellReads /\ ScreenShape(screen)
  BY VgaSection DEF Windows, ScreenDrawn
<1>2. CASE \E i \in 0 .. COLS * ROWS - 1 : pos = i * CellReads /\ pos \div CellReads = i /\ pos % CellReads = 0
  <2>1. screen' = screen /\ (still' => CellAt(pos + 1, cell') /\ PaintedTo(pos + 1, screen))
    BY <1>2, PaintStart, Zenon
  <2> QED BY <1>1, <2>1
<1>3. CASE \E i \in 0 .. COLS * ROWS - 1, r \in 0 .. FONT_HEIGHT - 1, s \in 0 .. RowReads - 1 : pos = Spot(i, r, s)
  BY <1>3, PaintSpot, Zenon
<1> QED BY <1>1, <1>2, <1>3, ReadsAre, Zenon

(* Outside its section the screen is left alone.                              *)
LEMMA OutsideScreen ==
  ASSUME OpenWindows \/ LoopHead(TRUE) \/ LoopHead(FALSE) \/ DrawLeds \/ DrawHub75
  PROVE  screen' = screen /\ (wphase' = "vga" => pos' = 0)
<1>1. CASE OpenWindows
  BY <1>1 DEF OpenWindows, display
<1>2. CASE LoopHead(TRUE) \/ LoopHead(FALSE)
  BY <1>2 DEF LoopHead
<1>3. CASE DrawLeds \/ DrawHub75
  BY <1>3 DEF DrawLeds, DrawHub75, Section
<1> QED BY <1>1, <1>2, <1>3

(* Every step keeps the screen drawn up to the reads made.                    *)
LEMMA ScreenStep ==
  ASSUME Windows, ScreenDrawn, [Next \/ Terminated]_vars
  PROVE  ScreenDrawn'
<1>0. PICK z \in Nat \ {0} : z = COLS * ROWS * CellReads
  <2>1. PICK a \in Nat \ {0}, b \in Nat \ {0} : a = COLS * ROWS /\ b = CellReads
    BY ScreenSizes
  <2>2. a * b \in Nat \ {0}
    OBVIOUS
  <2> QED BY <2>1, <2>2
<1>1. CASE Aside
  <2>1. UNCHANGED <<screen, pos, cell>> /\ (wphase' = "vga" => wphase = "vga") /\ (still' => still /\ mem' = mem)
    BY <1>1, AsideKeeps DEF display
  <2>2. ASSUME still', CellAt(pos, cell), PaintedTo(pos, screen)
        PROVE  CellAt(pos, cell)' /\ PaintedTo(pos, screen)'
    BY <2>1, <2>2 DEF CellAt, PaintedTo, Point, CharAt, RowAt, LowAt, HighAt
  <2> QED BY <2>1, <2>2 DEF ScreenDrawn, ScreenShape
<1>2. CASE OpenWindows \/ LoopHead(TRUE) \/ LoopHead(FALSE) \/ DrawLeds \/ DrawHub75
  <2>1. screen' = screen /\ (wphase' = "vga" => pos' = 0)
    BY <1>2, OutsideScreen
  <2> QED BY <1>0, <2>1 DEF ScreenDrawn, ScreenShape
<1>3. CASE DrawVga
  <2>1. ScreenShape(screen') /\ (still' => CellAt(pos + 1, cell') /\ PaintedTo(pos + 1, screen'))
    BY <1>3, ScreenPoint
  <2>2. CASE pos + 1 = COLS * ROWS * CellReads
    <3>1. pos' = 0
      BY <1>3, <2>2, VgaSection
    <3> QED BY <1>0, <2>1, <3>1 DEF ScreenDrawn, ScreenShape
  <2>3. CASE pos + 1 # COLS * ROWS * CellReads
    <3>1. pos' = pos + 1 /\ mem' = mem /\ pos \in Nat /\ pos < z
      BY <1>0, <1>3, <2>3, VgaSection DEF Windows, ScreenDrawn
    <3>2. pos' < COLS * ROWS * CellReads
      BY <1>0, <2>3, <3>1
    <3>3. ASSUME still' PROVE CellAt(pos, cell)' /\ PaintedTo(pos, screen)'
      BY <2>1, <3>1, <3>3 DEF CellAt, PaintedTo, Point, CharAt, RowAt, LowAt, HighAt
    <3> QED BY <2>1, <3>2, <3>3 DEF ScreenDrawn, ScreenShape
  <2> QED BY <2>2, <2>3
<1> QED BY <1>1, <1>2, <1>3 DEF Aside, Next, Window, CloseWindow

(* When the section ends, every point has been drawn. *)
LEMMA ScreenShown ==
  ASSUME options \in Options, program \in Programs, Stores, Windows, ScreenDrawn, [Next \/ Terminated]_vars,
         Finishes("vga")
  PROVE  ShowsScreen
<1>1. wphase = "vga" /\ wphase' # "vga" /\ still' /\ mphase # "store" /\ mphase # "setup" /\ options.vga
  BY DEF Finishes, Windows
<1>2. DrawVga
  <2>1. ~ Aside
    BY <1>1, AsideKeeps
  <2>2. ~ (OpenWindows \/ LoopHead(TRUE) \/ LoopHead(FALSE) \/ DrawLeds \/ DrawHub75)
    BY <1>1 DEF OpenWindows, LoopHead, DrawLeds, DrawHub75, Section
  <2> QED BY <2>1, <2>2 DEF Aside, Next, Window, CloseWindow
<1>3. pos + 1 = COLS * ROWS * CellReads
  BY <1>1, <1>2, VgaSection
<1>4. PaintedTo(pos + 1, screen')
  BY <1>1, <1>2, ScreenPoint
<1>5. DOMAIN screen = 0 .. COLS * ROWS - 1
  BY DEF ScreenDrawn, ScreenShape
<1>6. ASSUME NEW i \in 0 .. COLS * ROWS - 1, NEW r \in 0 .. FONT_HEIGHT - 1, NEW c \in 0 .. FONT_WIDTH - 1
      PROVE  screen'[i][<<r, c>>] = Color(i)[IF Lit(Font.bytes[FONT_HEIGHT * Character(i) + r + 1], c) THEN 1 ELSE 2]
  <2>1. screen'[i][<<r, c>>] = Point(i, r, c)
    <3>1. 2 * c + 2 \in 0 .. RowReads - 1
      BY PointIs
    <3>2. PICK z \in Nat : z = COLS * ROWS * CellReads
      BY ScreenSizes
    <3>3. Spot(i, r, 2 * c + 2) \in 1 .. z - 1
      BY <3>1, <3>2, SpotIs
    <3>4. Read(i, r, c) < pos + 1
      BY <1>3, <3>2, <3>3 DEF Read
    <3> QED BY <1>4, <3>4 DEF PaintedTo
  <2>2. /\ CharAt(i) = Character(i)
        /\ Character(i) \in Nat /\ FONT_HEIGHT * (Character(i) + 1) <= Len(Font.bytes)
    BY <1>1, CharRead, Zenon
  <2>3. RowAt(i, r) = Font.bytes[FONT_HEIGHT * Character(i) + r + 1]
    <3>1. PICK h \in Nat \ {0}, n \in Nat, l \in Nat :
            h = FONT_HEIGHT /\ n = Character(i) /\ l = Len(Font.bytes) /\ h * (n + 1) <= l
      BY <2>2, Sizes, FileAssumption
    <3>2. PICK a \in Nat : a = h * n /\ h * (n + 1) = a + h
      OBVIOUS
    <3>3. r \in 0 .. h - 1
      BY <3>1
    <3>4. PICK k \in 1 .. l : k = a + r + 1
      <4>1. a + h <= l
        BY <3>1, <3>2, Zenon
      <4> QED BY <3>3, <4>1
    <3>5. PICK b \in Nat : b = FONTRAM_BASE_ADDR
      BY Places
    <3>6. read_byte(mem, b + k - 1) = Font.bytes[k]
      BY <1>1, <3>1, <3>5, FontRead, Zenon
    <3>7. b + a + r = b + k - 1
      BY <3>3, <3>4
    <3> QED BY <2>2, <3>1, <3>2, <3>4, <3>5, <3>6, <3>7, Zenon DEF RowAt
  <2>4. /\ LitColor(LowAt(i) + ByteMod * HighAt(i)) = Color(i)[1]
        /\ DarkColor(LowAt(i) + ByteMod * HighAt(i)) = Color(i)[2]
    BY <1>1, ColorRead, Zenon
  <2>5. CASE Lit(RowAt(i, r), c)
    BY <2>1, <2>3, <2>4, <2>5 DEF Point
  <2>6. CASE ~ Lit(RowAt(i, r), c)
    BY <2>1, <2>3, <2>4, <2>6 DEF Point
  <2> QED BY <2>5, <2>6
<1> QED BY <1>5, <1>6 DEF ShowsScreen

(* The LEDs' section is a single read.                                        *)
LEMMA LedsShow ==
  ASSUME options \in Options, program \in Programs, Stores, Windows, [Next \/ Terminated]_vars, Finishes("leds")
  PROVE  ShowsLeds
<1>1. wphase = "leds" /\ wphase' # "leds" /\ mphase # "store" /\ mphase # "setup"
  BY DEF Finishes, Windows
<1>2. DrawLeds
  <2>1. ~ Aside
    BY <1>1, AsideKeeps
  <2>2. ~ (OpenWindows \/ LoopHead(TRUE) \/ LoopHead(FALSE) \/ DrawHub75 \/ DrawVga)
    BY <1>1 DEF OpenWindows, LoopHead, DrawHub75, DrawVga, Section
  <2> QED BY <2>1, <2>2 DEF Aside, Next, Window, CloseWindow
<1>3. leds' = read_byte(mem, LEDS_ADDR)
  BY <1>2 DEF DrawLeds
<1> QED BY <1>1, <1>3, LedsRead

-----------------------------------------------------------------------------
(* The inductive invariant: memory holds what the program has stored, the     *)
(* windows hold what the section has read of it so far.                       *)
Drawing ==
  /\ options \in Options /\ program \in Programs
  /\ Stores /\ Windows /\ PanelDrawn /\ ScreenDrawn

(* It holds at first.                                                         *)
LEMMA DrawingInit == Init => Drawing
<1> SUFFICES ASSUME Init PROVE Drawing
  OBVIOUS
<1>1. options \in Options /\ program \in Programs /\ mphase = "setup" /\ wphase = "none" /\ pos = 0
  BY DEF Init
<1>2. Stores
  BY <1>1, KeptInit DEF Init, Stores
<1>3. panel = Blank.panel /\ screen = Blank.screen
  BY DEF Init
<1>4. PanelShape(panel) /\ ScreenShape(screen)
  <2>1. \A r \in 0 .. PANEL_ROWS - 1, c \in 0 .. PANEL_COLS - 1 : panel[<<r, c>>] = <<0, 0, 0>>
    BY <1>3 DEF Blank
  <2>2. DOMAIN <<0, 0, 0>> = 1 .. 3
    OBVIOUS
  <2>3. DOMAIN panel = (0 .. PANEL_ROWS - 1) \X (0 .. PANEL_COLS - 1)
    BY <1>3 DEF Blank
  <2> QED BY <1>3, <2>1, <2>2, <2>3 DEF Blank, PanelShape, ScreenShape
<1> QED BY <1>1, <1>2, <1>4 DEF Drawing, Windows, PanelDrawn, ScreenDrawn

(* Every step keeps it.                                                       *)
LEMMA DrawingStep ==
  ASSUME Drawing, [Next \/ Terminated]_vars
  PROVE  Drawing'
BY StoresStep, WindowsStep, PanelStep, ScreenStep DEF Drawing

Shown ==
  /\ Finishes("leds") => ShowsLeds
  /\ Finishes("hub75") => ShowsPanel
  /\ Finishes("vga") => ShowsScreen
(* A step that ends a section shows what the property says.                   *)
LEMMA DrawingShows ==
  ASSUME Drawing, [Next \/ Terminated]_vars
  PROVE  Shown
BY LedsShow, PanelShows, ScreenShown DEF Drawing, Shown

(* A frame during which the program wrote nothing shows what its stores put   *)
(* there: the LEDs and the selected buffer turned by a quarter by the calls   *)
(* of the library, and each character of the window's own screen in its two   *)
(* colours (sim_emulator.c:68), for every program of such stores, every       *)
(* layout, font, panel and screen.  What the library prints is not on that    *)
(* screen and changes nothing of what is shown.                               *)
THEOREM ShowsProgram == Spec => FrameShowsProgram
<1>1. Drawing /\ [Next \/ Terminated]_vars => Drawing'
  BY DrawingStep
<1>2. Drawing /\ [Next \/ Terminated]_vars => [Shown]_vars
  BY DrawingShows
<1>3. Spec => [][Shown]_vars
  BY <1>1, <1>2, DrawingInit, PTL DEF Spec
<1> QED BY <1>3 DEF FrameShowsProgram, Shown
==============================================================================

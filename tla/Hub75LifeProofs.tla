--------------------------- MODULE Hub75LifeProofs ---------------------------
(* The demonstration on the LED matrix, for a panel of every size, every      *)
(* number of screens in a frame and every drawing: what is shifted out, what  *)
(* a frame without a swap shows, and that no frame sees three drawings.       *)
EXTENDS Hub75Life, FiniteSetTheorems, TLAPS

Lows == 0 .. ROWS_2 - 1
Rows == 0 .. PANEL_ROWS - 1
Cols == 0 .. PANEL_COLS - 1

USE PanelAssumption, ProgramAssumption

(* What every state is made of. *)
TypeOK ==
  /\ buffer \in [0 .. 2 * BUFFER_SIZE - 1 -> Color]
  /\ control \in {0, 1} /\ visible_buf = control
  /\ rdata \in BOOLEAN /\ vsync_clear_clk \in BOOLEAN /\ vsync_flag \in BOOLEAN
  /\ vsync_sync \in BOOLEAN \X BOOLEAN
  /\ h_state \in {"RL", "RH", "SHIFT"}
  /\ row_2 \in Lows /\ col \in Cols /\ pwm_step \in 0 .. PWM_STEPS - 1
  /\ buffer_read \in Color /\ had_pl \in BOOLEAN /\ pix_low_reg \in Color
  /\ phase \in {"draw", "select", "poll", "test", "clear", "compute"}
  /\ x \in Rows /\ y \in Cols /\ current \in Map /\ iter \in Nat
  /\ images \in Map \X Map /\ swaps \in 0 .. 3 /\ lit \in [Pixels -> Nat]

(* A clear of the flag is under way. *)
Clearing == vsync_clear_clk \/ vsync_sync[1] \/ vsync_sync[2]

(* The flag against the selections of the frame: the program leaves its wait  *)
(* only after the flag was up, and a flag that let it through is cleared      *)
(* before it selects again, unless the frame ended meanwhile.                 *)
OneFlagPerSwap ==
  /\ phase \in {"poll", "test", "clear"} => ~ Clearing
  /\ phase = "select" => ~ vsync_clear_clk /\ ~ vsync_sync[1]
  /\ phase = "draw" => ~ vsync_clear_clk
  /\ swaps <= 2
  /\ swaps = 2 => /\ phase \in {"poll", "test"} /\ ~ vsync_flag
                  /\ phase = "test" => ~ rdata
  /\ swaps = 1 /\ phase \in {"compute", "draw", "select"} => Clearing \/ ~ vsync_flag

At(b, r, c) == buffer[pixel_index(r, c, b)]

(* The displayed buffer holds the selected drawing, the other one as much of  *)
(* the current generation as has been drawn.                                  *)
Buffers ==
  /\ \A r \in Rows, c \in Cols : At(visible_buf, r, c) = ColorOf(images[2], r, c)
  /\ phase # "draw" => x = 0 /\ y = 0
  /\ phase \in {"draw", "select"} =>
       \A r \in Rows, c \in Cols :
         phase = "select" \/ r < x \/ (r = x /\ c < y) =>
           At(1 - visible_buf, r, c) = ColorOf(current, r, c)

(* The pixels read ahead.  One read before a swap is of the drawing selected  *)
(* before, and the program has not come to the next selection yet.            *)
ReadAhead ==
  /\ h_state = "RH" =>
       /\ had_pl
       /\ \/ buffer_read = ColorOf(images[2], row_2, col)
          \/ buffer_read = ColorOf(images[1], row_2, col) /\ swaps > 0 /\ phase = "poll"
  /\ h_state = "SHIFT" =>
       /\ ~ had_pl
       /\ \E i \in 1 .. 2 : pix_low_reg = ColorOf(images[i], row_2, col) /\ (i = 2 \/ swaps > 0)
       /\ \E i \in 1 .. 2 :
            buffer_read = ColorOf(images[i], row_2 + ROWS_2, col) /\ (i = 2 \/ swaps > 0)

(* A pixel of the current screen that has been shifted out. *)
Passed(p) ==
  LET r == IF p[1] < ROWS_2 THEN p[1] ELSE p[1] - ROWS_2
  IN  r < row_2 \/ (r = row_2 /\ p[2] < col)
Least(a, b) == IF a < b THEN a ELSE b

(* A frame that has not been disturbed so far is lit as the drawing says. *)
LitSoFar ==
  swaps = 0 =>
    \A p \in Pixels : lit[p] = Least(ColorOf(images[2], p[1], p[2]),
                                     IF Passed(p) THEN pwm_step + 1 ELSE pwm_step)

PanelInv == TypeOK /\ OneFlagPerSwap /\ Buffers /\ ReadAhead /\ LitSoFar

-----------------------------------------------------------------------------
(* Arithmetic: rows, addresses and cells. *)

(* The panel is two halves of ROWS_2 rows.                                   *)
LEMMA Halves ==
  /\ ROWS_2 \in Nat \ {0} /\ PANEL_ROWS = 2 * ROWS_2
  /\ 0 \in Lows /\ 0 \in Rows /\ 0 \in Cols
  /\ \A r \in Lows : r \in Rows /\ r + ROWS_2 \in Rows
BY DEF ROWS_2, Lows, Rows, Cols

(* The line of a table an index falls in, and what is left of it. *)
LEMMA RowMajor ==
  ASSUME NEW n \in Nat, NEW m \in Nat, NEW a \in 0 .. n - 1, NEW b \in 0 .. m - 1
  PROVE  a * m + b \in 0 .. n * m - 1
<1>1. a * m \in Nat /\ n * m \in Nat
  OBVIOUS
<1>2. (a + 1) * m <= n * m
  <2>1. n - (a + 1) \in Nat /\ m \in Nat
    OBVIOUS
  <2>2. (n - (a + 1)) * m \in Nat
    BY <2>1
  <2>3. (n - (a + 1)) * m = n * m - (a + 1) * m
    OBVIOUS
  <2> QED BY <2>2, <2>3, <1>1
<1>3. (a + 1) * m = a * m + m
  OBVIOUS
<1> QED BY <1>1, <1>2, <1>3

(* A place in a table has one row and one column.                            *)
LEMMA RowMajorUnique ==
  ASSUME NEW m \in Nat, NEW a \in Nat, NEW b \in 0 .. m - 1, NEW c \in Nat, NEW d \in 0 .. m - 1,
         a * m + b = c * m + d
  PROVE  a = c /\ b = d
<1>0. a * m \in Nat /\ c * m \in Nat
  OBVIOUS
<1>1. ASSUME NEW i \in Nat, NEW j \in Nat, i < j
      PROVE  i * m + m <= j * m
  <2>1. (j - (i + 1)) * m \in Nat
    BY <1>1
  <2>2. (j - (i + 1)) * m = j * m - (i * m + m)
    OBVIOUS
  <2>3. i * m \in Nat /\ j * m \in Nat
    OBVIOUS
  <2> QED BY <2>1, <2>2, <2>3
<1>2. ~ (a < c)
  BY <1>0, <1>1
<1>3. ~ (c < a)
  BY <1>0, <1>1
<1>4. a = c
  BY <1>2, <1>3
<1> QED BY <1>0, <1>4

(* The two buffers of pixels, one address to a pixel of a buffer. *)
LEMMA PixelAddress ==
  /\ BUFFER_SIZE \in Nat
  /\ \A b \in {0, 1}, r \in Rows, c \in Cols : pixel_index(r, c, b) \in 0 .. 2 * BUFFER_SIZE - 1
<1>1. BUFFER_SIZE \in Nat
  BY DEF BUFFER_SIZE
<1>2. ASSUME NEW b \in {0, 1}, NEW r \in Rows, NEW c \in Cols
      PROVE  pixel_index(r, c, b) \in 0 .. 2 * BUFFER_SIZE - 1
  <2>1. r * PANEL_COLS + c \in 0 .. BUFFER_SIZE - 1
    BY RowMajor DEF Rows, Cols, BUFFER_SIZE
  <2>2. BUFFER_SIZE * 0 = 0 /\ BUFFER_SIZE * 1 = BUFFER_SIZE
    BY <1>1
  <2>3. CASE b = 0
    BY <1>1, <2>1, <2>2, <2>3 DEF pixel_index
  <2>4. CASE b = 1
    BY <1>1, <2>1, <2>2, <2>4 DEF pixel_index
  <2> QED BY <2>3, <2>4
<1> QED BY <1>1, <1>2

(* No two pixels of the buffers share an address.                            *)
LEMMA PixelAddressUnique ==
  ASSUME NEW b \in {0, 1}, NEW r \in Rows, NEW c \in Cols,
         NEW e \in {0, 1}, NEW s \in Rows, NEW d \in Cols,
         pixel_index(r, c, b) = pixel_index(s, d, e)
  PROVE  b = e /\ r = s /\ c = d
<1>1. BUFFER_SIZE \in Nat /\ BUFFER_SIZE * 0 = 0 /\ BUFFER_SIZE * 1 = BUFFER_SIZE
  BY DEF BUFFER_SIZE
<1>2. r * PANEL_COLS + c \in 0 .. BUFFER_SIZE - 1 /\ s * PANEL_COLS + d \in 0 .. BUFFER_SIZE - 1
  BY RowMajor DEF Rows, Cols, BUFFER_SIZE
<1>3. b = e
  <2>1. CASE b = 0 /\ e = 1
    BY <1>1, <1>2, <2>1 DEF pixel_index
  <2>2. CASE b = 1 /\ e = 0
    BY <1>1, <1>2, <2>2 DEF pixel_index
  <2> QED BY <2>1, <2>2
<1>4. BUFFER_SIZE * b \in Nat
  BY <1>1
<1>5. r * PANEL_COLS + c = s * PANEL_COLS + d
  BY <1>2, <1>3, <1>4 DEF pixel_index
<1> QED BY <1>3, <1>5, RowMajorUnique DEF Rows, Cols

(* What the raster reads: the low pixel in RL, the high one in RH. *)
LEMMA ReadAddress ==
  ASSUME TypeOK
  PROVE  /\ h_state # "RH" => buffer_read_addr = pixel_index(row_2, col, visible_buf)
         /\ h_state = "RH" => buffer_read_addr = pixel_index(row_2 + ROWS_2, col, visible_buf)
<1>1. buffer_select = visible_buf
  BY DEF TypeOK, buffer_select
<1>2. BUFFER_SIZE \in Nat /\ visible_buf \in {0, 1}
  BY PixelAddress DEF TypeOK
<1>3. buffer_select * BUFFER_SIZE = BUFFER_SIZE * visible_buf
  BY <1>1, <1>2
<1>4. row_2 \in Nat /\ ROWS_2 \in Nat /\ col \in Nat
  BY Halves DEF TypeOK, Lows, Cols
<1>5. (row_2 + ROWS_2) * PANEL_COLS = row_2 * PANEL_COLS + ROWS_2 * PANEL_COLS
  BY <1>4
<1>6. /\ row_2 * PANEL_COLS \in Nat /\ ROWS_2 * PANEL_COLS \in Nat /\ BUFFER_SIZE * visible_buf \in Nat
  BY <1>2, <1>4
<1>7. ASSUME h_state # "RH" PROVE buffer_read_addr = pixel_index(row_2, col, visible_buf)
  BY <1>3, <1>4, <1>6, <1>7 DEF buffer_read_addr, pixel_index
<1>8. ASSUME h_state = "RH" PROVE buffer_read_addr = pixel_index(row_2 + ROWS_2, col, visible_buf)
  <2>1. buffer_read_addr = BUFFER_SIZE * visible_buf + ROWS_2 * PANEL_COLS + row_2 * PANEL_COLS + col
    BY <1>3, <1>8 DEF buffer_read_addr
  <2> QED BY <2>1, <1>4, <1>5, <1>6 DEF pixel_index
<1> QED BY <1>7, <1>8

(* The counters of the drawing loops. *)
LEMMA Counts ==
  ASSUME NEW n \in Nat \ {0}, NEW a \in 0 .. n - 1
  PROVE  (a + 1) % n = IF a = n - 1 THEN 0 ELSE a + 1
<1>1. CASE a = n - 1
  BY <1>1
<1>2. CASE a # n - 1
  <2>1. a + 1 \in 0 .. n - 1
    BY <1>2
  <2> QED BY <1>2, <2>1
<1> QED BY <1>1, <1>2

(* Drawings are maps, and an empty map is black. *)
LEMMA Colours ==
  /\ Empty \in Map
  /\ \A m \in Map : NextMap(HoldCells(m)) \in Map
  /\ \A m, r, c : ColorOf(m, r, c) \in Color /\ ColorOf(m, r, c) \in 0 .. PWM_STEPS
  /\ \A r \in Rows, c \in Cols : ColorOf(Empty, r, c) = Black
<1>1. Empty \in Map
  BY DEF Empty, Map
<1>2. ASSUME NEW m \in Map PROVE NextMap(HoldCells(m)) \in Map
  <2> DEFINE H == HoldCells(m)
  <2>1. H \in Map
    BY DEF HoldCells, Map
  <2> HIDE DEF H
  <2>2. NextMap(H) \in Map
    BY <2>1 DEF NextMap, Map
  <2> QED BY <2>2 DEF H
<1>3. ASSUME NEW m, NEW r, NEW c
      PROVE  ColorOf(m, r, c) \in Color /\ ColorOf(m, r, c) \in 0 .. PWM_STEPS
  BY DEF ColorOf
<1>4. ASSUME NEW r \in Rows, NEW c \in Cols PROVE ColorOf(Empty, r, c) = Black
  <2>1. cell_i(r, c) = c * CELL_COLS + r
    BY DEF cell_i, Rows, Cols
  <2>2. c * CELL_COLS + r \in 0 .. CELL_ROWS * CELL_COLS - 1
    BY RowMajor DEF Rows, Cols
  <2>3. ~ get_cell(Empty, r, c)
    BY <2>1, <2>2 DEF get_cell, Empty
  <2> QED BY <2>3 DEF ColorOf
<1> QED BY <1>1, <1>2, <1>3, <1>4

-----------------------------------------------------------------------------
(* Types. *)

(* The accesses the program makes. *)
Accesses ==
  {Idle, ReadVsync, ClearVsync}
    \cup {WritePixel(i, c) : i \in 0 .. 2 * BUFFER_SIZE - 1, c \in Color}
    \cup {WriteControl(n) : n \in {0, 1}}

DriverOK ==
  /\ buffer \in [0 .. 2 * BUFFER_SIZE - 1 -> Color]
  /\ control \in {0, 1}
  /\ rdata \in BOOLEAN /\ vsync_clear_clk \in BOOLEAN /\ vsync_flag \in BOOLEAN
  /\ vsync_sync \in BOOLEAN \X BOOLEAN
  /\ h_state \in {"RL", "RH", "SHIFT"}
  /\ row_2 \in Lows /\ col \in Cols /\ pwm_step \in 0 .. PWM_STEPS - 1
  /\ buffer_read \in Color /\ had_pl \in BOOLEAN /\ pix_low_reg \in Color

(* A clock edge keeps the driver's registers in range whatever the access. *)
LEMMA BusTypes ==
  ASSUME TypeOK, NEW access \in Accesses, BusClock(access)
  PROVE  /\ buffer' \in [0 .. 2 * BUFFER_SIZE - 1 -> Color]
         /\ control' \in {0, 1} /\ rdata' \in BOOLEAN /\ vsync_clear_clk' \in BOOLEAN
<1>1. CASE access \in {Idle, ReadVsync, ClearVsync}
  BY <1>1 DEF TypeOK, BusClock, Idle, ReadVsync, ClearVsync
<1>2. ASSUME NEW i \in 0 .. 2 * BUFFER_SIZE - 1, NEW c \in Color, access = WritePixel(i, c)
      PROVE  /\ buffer' \in [0 .. 2 * BUFFER_SIZE - 1 -> Color]
             /\ control' \in {0, 1} /\ rdata' \in BOOLEAN /\ vsync_clear_clk' \in BOOLEAN
  BY <1>2 DEF TypeOK, BusClock, WritePixel
<1>3. ASSUME NEW n \in {0, 1}, access = WriteControl(n)
      PROVE  /\ buffer' \in [0 .. 2 * BUFFER_SIZE - 1 -> Color]
             /\ control' \in {0, 1} /\ rdata' \in BOOLEAN /\ vsync_clear_clk' \in BOOLEAN
  BY <1>3 DEF TypeOK, BusClock, WriteControl
<1> QED BY <1>1, <1>2, <1>3 DEF Accesses

(* The state machine stays within its states, the panel and the steps.       *)
LEMMA RasterTypes ==
  ASSUME TypeOK, RasterClock
  PROVE  /\ h_state' \in {"RL", "RH", "SHIFT"}
         /\ row_2' \in Lows /\ col' \in Cols /\ pwm_step' \in 0 .. PWM_STEPS - 1
         /\ buffer_read' \in Color /\ had_pl' \in BOOLEAN /\ pix_low_reg' \in Color
<1>1. h_state' \in {"RL", "RH", "SHIFT"} /\ had_pl' \in BOOLEAN /\ pix_low_reg' \in Color
  BY DEF RasterClock, TypeOK
<1>2. row_2' \in Lows
  <2>1. ROWS_2 \in Nat \ {0} /\ row_2 \in 0 .. ROWS_2 - 1
    BY Halves DEF TypeOK, Lows
  <2>2. CASE LastPixel /\ row_2 = ROWS_2 - 1
    <3>1. row_2' = 0
      BY <2>2 DEF RasterClock, EndOfScreen
    <3> QED BY <2>1, <3>1 DEF Lows
  <2>3. CASE LastPixel /\ row_2 # ROWS_2 - 1
    <3>1. row_2' = row_2 + 1
      BY <2>3 DEF RasterClock, EndOfScreen
    <3> QED BY <2>1, <2>3, <3>1 DEF Lows
  <2>4. CASE ~ LastPixel
    <3>1. row_2' = row_2
      BY <2>4 DEF RasterClock, EndOfScreen
    <3> QED BY <2>1, <3>1 DEF Lows
  <2> QED BY <2>2, <2>3, <2>4
<1>3. col' \in Cols
  BY DEF RasterClock, TypeOK, Cols, LastPixel
<1>4. pwm_step' \in 0 .. PWM_STEPS - 1
  BY DEF RasterClock, TypeOK, EndOfFrame
<1>5. buffer_read' \in Color
  <2>1. row_2 \in Rows /\ row_2 + ROWS_2 \in Rows /\ col \in Cols /\ visible_buf \in {0, 1}
    BY Halves DEF TypeOK
  <2>2. buffer_read_addr \in 0 .. 2 * BUFFER_SIZE - 1
    <3>1. CASE h_state = "RH"
      BY <2>1, <3>1, ReadAddress, PixelAddress
    <3>2. CASE h_state # "RH"
      BY <2>1, <3>2, ReadAddress, PixelAddress
    <3> QED BY <3>1, <3>2
  <2>3. buffer_read' = buffer[buffer_read_addr]
    BY DEF RasterClock
  <2> QED BY <2>2, <2>3 DEF TypeOK
<1> QED BY <1>1, <1>2, <1>3, <1>4, <1>5

(* Any edge keeps the types of the driver and of the history.                *)
LEMMA EdgeTypes ==
  ASSUME TypeOK, NEW access \in Accesses, NEW selected \in BOOLEAN, Edge(access, selected)
  PROVE  /\ DriverOK'
         /\ images' \in Map \X Map /\ swaps' \in 0 .. 3 /\ lit' \in [Pixels -> Nat]
<1>0. BusClock(access) /\ FlagClock /\ RasterClock
  BY DEF Edge, Clock
<1>1. vsync_sync' \in BOOLEAN \X BOOLEAN
  BY <1>0 DEF FlagClock, TypeOK
<1>2. vsync_flag' \in BOOLEAN
  BY <1>0 DEF FlagClock
<1>3. DriverOK'
  BY <1>0, <1>1, <1>2, BusTypes, RasterTypes DEF DriverOK
<1>4. images' \in Map \X Map
  BY DEF Edge, TypeOK
<1>5. swaps' \in 0 .. 3
  BY DEF Edge, TypeOK
<1>6. lit' \in [Pixels -> Nat]
  <2>1. LitNow \in [Pixels -> Nat]
    BY DEF LitNow, TypeOK
  <2> QED BY <2>1 DEF Edge
<1> QED BY <1>3, <1>4, <1>5, <1>6

(* What each access does to the registers the bus clocks. *)
LEMMA AccessKinds ==
  /\ Idle \in Accesses /\ ReadVsync \in Accesses /\ ClearVsync \in Accesses
  /\ \A i \in 0 .. 2 * BUFFER_SIZE - 1, c \in Color : WritePixel(i, c) \in Accesses
  /\ \A n \in {0, 1} : WriteControl(n) \in Accesses
<1>1. Idle \in Accesses /\ ReadVsync \in Accesses /\ ClearVsync \in Accesses
  BY DEF Accesses
<1>2. ASSUME NEW i \in 0 .. 2 * BUFFER_SIZE - 1, NEW c \in Color PROVE WritePixel(i, c) \in Accesses
  BY DEF Accesses
<1>3. ASSUME NEW n \in {0, 1} PROVE WriteControl(n) \in Accesses
  BY DEF Accesses
<1> QED BY <1>1, <1>2, <1>3

(* What an edge without an access does to the registers the bus writes.      *)
LEMMA IdleEdge ==
  ASSUME NEW selected, Edge(Idle, selected)
  PROVE  buffer' = buffer /\ control' = control /\ vsync_clear_clk' = FALSE /\ rdata' = rdata
BY DEF Edge, Clock, BusClock, Idle

(* The same with a read of the flag.                                         *)
LEMMA ReadEdge ==
  ASSUME NEW selected, Edge(ReadVsync, selected)
  PROVE  buffer' = buffer /\ control' = control /\ vsync_clear_clk' = FALSE /\ rdata' = vsync_flag
BY DEF Edge, Clock, BusClock, ReadVsync

(* The same with a clear of the flag.                                        *)
LEMMA ClearEdge ==
  ASSUME NEW selected, Edge(ClearVsync, selected)
  PROVE  buffer' = buffer /\ control' = control /\ vsync_clear_clk' = TRUE
BY DEF Edge, Clock, BusClock, ClearVsync

(* The same with a store of a pixel.                                         *)
LEMMA PixelEdge ==
  ASSUME NEW i, NEW c, NEW selected, Edge(WritePixel(i, c), selected)
  PROVE  buffer' = [buffer EXCEPT ![i] = c] /\ control' = control /\ vsync_clear_clk' = FALSE
BY DEF Edge, Clock, BusClock, WritePixel

(* The same with a store of the control register.                            *)
LEMMA ControlEdge ==
  ASSUME NEW n, NEW selected, Edge(WriteControl(n), selected)
  PROVE  buffer' = buffer /\ control' = n /\ vsync_clear_clk' = FALSE
BY DEF Edge, Clock, BusClock, WriteControl

(* Where the program can go, and with which access. *)
LEMMA ActionTypes ==
  ASSUME TypeOK, Next
  PROVE  /\ \E access \in Accesses, selected \in BOOLEAN : Edge(access, selected)
         /\ phase' \in {"draw", "select", "poll", "test", "clear", "compute"}
         /\ x' \in Rows /\ y' \in Cols /\ current' \in Map /\ iter' \in Nat
         /\ visible_buf' = control'
<1>1. CASE NoAccess
  <2>1. Edge(Idle, FALSE) /\ UNCHANGED program
    BY <1>1 DEF NoAccess
  <2>2. control' = control
    BY <2>1, IdleEdge
  <2> QED BY <2>1, <2>2, AccessKinds DEF program, TypeOK
<1>2. CASE DrawPixel
  <2> DEFINE i == pixel_index(x, y, 1 - visible_buf)
             c == ColorOf(current, x, y)
  <2>1. i \in 0 .. 2 * BUFFER_SIZE - 1 /\ c \in Color
    <3>1. 1 - visible_buf \in {0, 1} /\ x \in Rows /\ y \in Cols
      BY DEF TypeOK
    <3> QED BY <3>1, PixelAddress, Colours
  <2>2. Edge(WritePixel(i, c), FALSE)
    BY <1>2 DEF DrawPixel
  <2> HIDE DEF i, c
  <2>3. WritePixel(i, c) \in Accesses
    BY <2>1, AccessKinds
  <2>4. y' \in Cols /\ x' \in Rows
    <3>1. (y + 1) % CELL_ROWS \in Cols /\ (x + 1) % CELL_COLS \in Rows
      BY Counts DEF TypeOK, Rows, Cols
    <3> QED BY <1>2, <3>1 DEF DrawPixel, TypeOK
  <2>5. control' = control
    BY <2>2, PixelEdge
  <2>6. /\ phase' \in {"draw", "select", "poll", "test", "clear", "compute"}
        /\ current' \in Map /\ iter' \in Nat /\ visible_buf' = visible_buf
    BY <1>2 DEF DrawPixel, TypeOK
  <2> QED BY <2>2, <2>3, <2>4, <2>5, <2>6 DEF TypeOK
<1>3. CASE SwapBuffers
  <2>1. Edge(WriteControl(visible_buf'), TRUE)
    BY <1>3 DEF SwapBuffers
  <2>0. visible_buf' \in {0, 1}
    <3>1. visible_buf' = 1 - visible_buf
      BY <1>3 DEF SwapBuffers
    <3> QED BY <3>1 DEF TypeOK
  <2>2. WriteControl(visible_buf') \in Accesses
    BY <2>0, AccessKinds
  <2>3. control' = visible_buf'
    BY <2>1, ControlEdge
  <2> QED BY <1>3, <2>1, <2>2, <2>3 DEF SwapBuffers, TypeOK
<1>4. CASE PollVsync
  <2>1. Edge(ReadVsync, FALSE)
    BY <1>4 DEF PollVsync
  <2>2. control' = control
    BY <2>1, ReadEdge
  <2> QED BY <1>4, <2>1, <2>2, AccessKinds DEF PollVsync, TypeOK
<1>5. CASE TestVsync
  <2>1. Edge(Idle, FALSE)
    BY <1>5 DEF TestVsync
  <2>2. control' = control
    BY <2>1, IdleEdge
  <2> QED BY <1>5, <2>1, <2>2, AccessKinds DEF TestVsync, TypeOK
<1>6. CASE ClearFlag
  <2>1. Edge(ClearVsync, FALSE)
    BY <1>6 DEF ClearFlag
  <2>2. control' = control
    BY <2>1, ClearEdge
  <2> QED BY <1>6, <2>1, <2>2, AccessKinds DEF ClearFlag, TypeOK
<1>7. CASE Compute
  <2>1. current' \in Map
    BY <1>7, Colours DEF Compute, TypeOK
  <2>2. iter' \in Nat
    BY <1>7 DEF Compute, TypeOK
  <2>3. Edge(Idle, FALSE)
    BY <1>7 DEF Compute
  <2>4. control' = control
    BY <2>3, IdleEdge
  <2> QED BY <1>7, <2>1, <2>2, <2>3, <2>4, AccessKinds DEF Compute, TypeOK
<1> QED BY <1>1, <1>2, <1>3, <1>4, <1>5, <1>6, <1>7 DEF Next, Program

(* Every step keeps the types.                                               *)
LEMMA TypeStep == TypeOK /\ [Next]_vars => TypeOK'
<1>1. ASSUME TypeOK, Next PROVE TypeOK'
  <2>1. PICK access \in Accesses, selected \in BOOLEAN : Edge(access, selected)
    BY <1>1, ActionTypes
  <2>2. DriverOK' /\ images' \in Map \X Map /\ swaps' \in 0 .. 3 /\ lit' \in [Pixels -> Nat]
    BY <1>1, <2>1, EdgeTypes
  <2> QED BY <1>1, <2>2, ActionTypes DEF TypeOK, DriverOK
<1>2. ASSUME TypeOK, UNCHANGED vars PROVE TypeOK'
  <2>1. /\ UNCHANGED <<buffer, control, visible_buf, rdata, vsync_clear_clk, vsync_flag, vsync_sync>>
        /\ UNCHANGED <<h_state, row_2, col, pwm_step, buffer_read, had_pl, pix_low_reg>>
        /\ UNCHANGED <<phase, x, y, current, iter, images, swaps, lit>>
    BY <1>2 DEF vars, driver, program, history, raster
  <2> QED BY <1>2, <2>1 DEF TypeOK
<1> QED BY <1>1, <1>2

(* The invariant holds at the start.                                         *)
LEMMA Starts == Init => PanelInv
<1> SUFFICES ASSUME Init PROVE PanelInv
  OBVIOUS
<1>1. BUFFER_SIZE \in Nat
  BY PixelAddress
<1>2. TypeOK
  <2>1. Black \in Color /\ 0 \in Lows /\ 0 \in Cols /\ 0 \in Rows /\ Empty \in Map
    BY Halves, Colours
  <2>2. buffer \in [0 .. 2 * BUFFER_SIZE - 1 -> Color]
    BY <2>1 DEF Init, DriverInit
  <2>3. lit \in [Pixels -> Nat] /\ images \in Map \X Map
    BY <2>1 DEF Init
  <2>4. pwm_step \in 0 .. PWM_STEPS - 1
    BY DEF Init, DriverInit
  <2>5. DriverInit
    BY DEF Init
  <2>6. /\ control \in {0, 1} /\ rdata \in BOOLEAN /\ vsync_clear_clk \in BOOLEAN /\ vsync_flag \in BOOLEAN
        /\ h_state \in {"RL", "RH", "SHIFT"} /\ row_2 \in Lows /\ col \in Cols
        /\ buffer_read \in Color /\ had_pl \in BOOLEAN /\ pix_low_reg \in Color
    BY <2>1, <2>5 DEF DriverInit
  <2>7. vsync_sync \in BOOLEAN \X BOOLEAN
    BY <2>5 DEF DriverInit
  <2>8. visible_buf = control
    BY <2>5 DEF DriverInit, Init
  <2>9. x \in Rows /\ y \in Cols /\ current \in Map /\ iter \in Nat /\ swaps \in 0 .. 3 /\ phase = "draw"
    BY <2>1 DEF Init
  <2> QED BY <2>2, <2>3, <2>4, <2>6, <2>7, <2>8, <2>9 DEF TypeOK
<1>3. OneFlagPerSwap
  BY DEF Init, DriverInit, OneFlagPerSwap
<1>4. Buffers
  <2>1. \A b \in {0, 1}, r \in Rows, c \in Cols : At(b, r, c) = Black
    BY PixelAddress DEF Init, DriverInit, At
  <2>2. ASSUME NEW r \in Rows, NEW c \in Cols PROVE At(visible_buf, r, c) = ColorOf(images[2], r, c)
    BY <2>1, Colours DEF Init
  <2>3. \A r \in Rows, c \in Cols : ~ (phase = "select" \/ r < x \/ (r = x /\ c < y))
    BY DEF Init, Rows, Cols
  <2>4. phase = "draw"
    BY DEF Init
  <2> QED BY <2>2, <2>3, <2>4 DEF Buffers
<1>5. ReadAhead
  BY DEF Init, DriverInit, ReadAhead
<1>6. LitSoFar
  <2>1. ASSUME NEW p \in Pixels
        PROVE  lit[p] = Least(ColorOf(images[2], p[1], p[2]), IF Passed(p) THEN pwm_step + 1 ELSE pwm_step)
    <3>1. ~ Passed(p)
      BY Halves DEF Passed, Pixels, Init, DriverInit
    <3>2. lit[p] = 0 /\ pwm_step = 0
      BY DEF Init, DriverInit
    <3>3. ColorOf(images[2], p[1], p[2]) \in Nat
      BY Colours
    <3> QED BY <3>1, <3>2, <3>3 DEF Least
  <2> QED BY <2>1 DEF LitSoFar
<1> QED BY <1>2, <1>3, <1>4, <1>5, <1>6 DEF PanelInv

-----------------------------------------------------------------------------
(* The raster's three states. *)

(* The edge that asks for the pixel of the lower half.                       *)
LEMMA MovesRL ==
  ASSUME TypeOK, RasterClock, h_state = "RL"
  PROVE  /\ h_state' = "RH" /\ had_pl' = TRUE /\ ~ EndOfFrame
         /\ row_2' = row_2 /\ col' = col /\ pwm_step' = pwm_step
         /\ buffer_read' = At(visible_buf, row_2, col)
<1>1. ~ LastPixel /\ ~ EndOfScreen /\ ~ EndOfFrame
  BY DEF LastPixel, EndOfScreen, EndOfFrame
<1>2. buffer_read' = buffer[buffer_read_addr]
  BY DEF RasterClock
<1>3. buffer_read' = At(visible_buf, row_2, col)
  BY <1>2, ReadAddress DEF At
<1> QED BY <1>1, <1>3 DEF RasterClock

(* The edge that asks for the other one and keeps the first.                 *)
LEMMA MovesRH ==
  ASSUME TypeOK, RasterClock, h_state = "RH"
  PROVE  /\ h_state' = "SHIFT" /\ had_pl' = FALSE /\ ~ EndOfFrame
         /\ row_2' = row_2 /\ col' = col /\ pwm_step' = pwm_step
         /\ buffer_read' = At(visible_buf, row_2 + ROWS_2, col)
         /\ had_pl => pix_low_reg' = buffer_read
<1>1. ~ LastPixel /\ ~ EndOfScreen /\ ~ EndOfFrame
  BY DEF LastPixel, EndOfScreen, EndOfFrame
<1>2. buffer_read' = buffer[buffer_read_addr]
  BY DEF RasterClock
<1>3. buffer_read' = At(visible_buf, row_2 + ROWS_2, col)
  BY <1>2, ReadAddress DEF At
<1> QED BY <1>1, <1>3 DEF RasterClock

(* A pixel, a line, a screen or a frame has ended. *)
LEMMA MovesSHIFT ==
  ASSUME TypeOK, RasterClock, h_state = "SHIFT"
  PROVE  /\ h_state' = "RL"
         /\ \/ /\ ~ EndOfFrame /\ col # PANEL_COLS - 1
               /\ col' = col + 1 /\ row_2' = row_2 /\ pwm_step' = pwm_step
            \/ /\ ~ EndOfFrame /\ col = PANEL_COLS - 1 /\ row_2 # ROWS_2 - 1
               /\ col' = 0 /\ row_2' = row_2 + 1 /\ pwm_step' = pwm_step
            \/ /\ ~ EndOfFrame /\ col = PANEL_COLS - 1 /\ row_2 = ROWS_2 - 1
               /\ col' = 0 /\ row_2' = 0 /\ pwm_step' = pwm_step + 1
            \/ /\ EndOfFrame /\ col' = 0 /\ row_2' = 0 /\ pwm_step' = 0
<1>0. h_state' = "RL"
  BY DEF RasterClock
<1>1. CASE ~ LastPixel
  <2>1. ~ EndOfScreen /\ ~ EndOfFrame /\ col # PANEL_COLS - 1
    BY <1>1 DEF LastPixel, EndOfScreen, EndOfFrame
  <2> QED BY <1>0, <1>1, <2>1 DEF RasterClock
<1>2. CASE LastPixel /\ ~ EndOfScreen
  <2>1. ~ EndOfFrame /\ col = PANEL_COLS - 1 /\ row_2 # ROWS_2 - 1
    BY <1>2 DEF LastPixel, EndOfScreen, EndOfFrame
  <2> QED BY <1>0, <1>2, <2>1 DEF RasterClock
<1>3. CASE LastPixel /\ EndOfScreen /\ ~ EndOfFrame
  <2>1. col = PANEL_COLS - 1 /\ row_2 = ROWS_2 - 1
    BY <1>3 DEF LastPixel, EndOfScreen
  <2> QED BY <1>0, <1>3, <2>1 DEF RasterClock
<1>4. CASE LastPixel /\ EndOfScreen /\ EndOfFrame
  BY <1>0, <1>4 DEF RasterClock
<1> QED BY <1>1, <1>2, <1>3, <1>4

(* A clear passes through two registers; the end of a frame sets the flag whatever it meets. *)
LEMMA FlagMoves ==
  ASSUME TypeOK, NEW access, NEW selected \in BOOLEAN, Edge(access, selected)
  PROVE  /\ (vsync_sync'[1] <=> vsync_clear_clk) /\ (vsync_sync'[2] <=> vsync_sync[1])
         /\ EndOfFrame => swaps' = 0
         /\ ~ EndOfFrame => /\ (vsync_flag' <=> vsync_flag /\ ~ vsync_sync[2])
                            /\ swaps' = IF selected /\ swaps < 3 THEN swaps + 1 ELSE swaps
<1>1. FlagClock
  BY DEF Edge, Clock
<1>2. (vsync_sync'[1] <=> vsync_clear_clk) /\ (vsync_sync'[2] <=> vsync_sync[1])
  BY <1>1 DEF FlagClock
<1>3. EndOfFrame => swaps' = 0
  BY DEF Edge
<1>4. ASSUME ~ EndOfFrame
      PROVE  /\ (vsync_flag' <=> vsync_flag /\ ~ vsync_sync[2])
             /\ swaps' = IF selected /\ swaps < 3 THEN swaps + 1 ELSE swaps
  <2>1. (vsync_flag' <=> vsync_flag /\ ~ vsync_sync[2])
    BY <1>1, <1>4 DEF FlagClock
  <2> QED BY <1>4, <2>1 DEF Edge
<1> QED BY <1>2, <1>3, <1>4

-----------------------------------------------------------------------------
(* The flag. *)

(* Only SwapBuffers selects. *)
LEMMA Selecting ==
  ASSUME TypeOK, Next
  PROVE  \E access \in Accesses :
           \/ Edge(access, FALSE)
           \/ phase = "select" /\ phase' = "poll" /\ Edge(access, TRUE)
<1>1. CASE SwapBuffers
  <2>1. visible_buf' \in {0, 1}
    BY <1>1 DEF SwapBuffers, TypeOK
  <2>2. WriteControl(visible_buf') \in Accesses
    BY <2>1, AccessKinds
  <2> QED BY <1>1, <2>2 DEF SwapBuffers
<1>2. CASE DrawPixel
  <2> DEFINE a == WritePixel(pixel_index(x, y, 1 - visible_buf), ColorOf(current, x, y))
  <2>1. a \in Accesses
    <3>1. 1 - visible_buf \in {0, 1} /\ x \in Rows /\ y \in Cols
      BY DEF TypeOK
    <3> QED BY <3>1, PixelAddress, Colours, AccessKinds
  <2>2. Edge(a, FALSE)
    BY <1>2 DEF DrawPixel
  <2> HIDE DEF a
  <2> QED BY <2>1, <2>2
<1>3. CASE NoAccess \/ PollVsync \/ TestVsync \/ ClearFlag \/ Compute
  BY <1>3, AccessKinds DEF NoAccess, PollVsync, TestVsync, ClearFlag, Compute
<1> QED BY <1>1, <1>2, <1>3 DEF Next, Program

(* Every step keeps the relation of flag and swaps.                          *)
LEMMA FlagStep ==
  ASSUME TypeOK, OneFlagPerSwap, Next
  PROVE  OneFlagPerSwap'
<1> USE DEF OneFlagPerSwap, Clearing
<1>0. /\ swaps \in 0 .. 2
      /\ rdata \in BOOLEAN /\ vsync_clear_clk \in BOOLEAN /\ vsync_flag \in BOOLEAN
      /\ vsync_sync[1] \in BOOLEAN /\ vsync_sync[2] \in BOOLEAN
  BY DEF TypeOK
<1>1. CASE NoAccess
  <2>1. Edge(Idle, FALSE) /\ phase' = phase
    BY <1>1 DEF NoAccess, program
  <2>2. vsync_clear_clk' = FALSE /\ rdata' = rdata
    BY <2>1, IdleEdge
  <2>3. CASE EndOfFrame
    <3>1. /\ (vsync_sync'[1] <=> vsync_clear_clk) /\ (vsync_sync'[2] <=> vsync_sync[1])
          /\ swaps' = 0
      BY <2>1, <2>3, FlagMoves
    <3> QED BY <1>0, <2>1, <2>2, <3>1
  <2>4. CASE ~ EndOfFrame
    <3>1. /\ (vsync_sync'[1] <=> vsync_clear_clk) /\ (vsync_sync'[2] <=> vsync_sync[1])
          /\ (vsync_flag' <=> vsync_flag /\ ~ vsync_sync[2])
          /\ swaps' = swaps
      BY <2>1, <2>4, FlagMoves
    <3> QED BY <1>0, <2>1, <2>2, <3>1
  <2> QED BY <2>3, <2>4
<1>2. CASE DrawPixel
  <2>1. PICK i, c : Edge(WritePixel(i, c), FALSE)
    BY <1>2 DEF DrawPixel
  <2>2. phase = "draw" /\ phase' \in {"draw", "select"}
    BY <1>2 DEF DrawPixel
  <2>3. vsync_clear_clk' = FALSE
    BY <2>1, PixelEdge
  <2>4. CASE EndOfFrame
    <3>1. /\ (vsync_sync'[1] <=> vsync_clear_clk) /\ (vsync_sync'[2] <=> vsync_sync[1])
          /\ swaps' = 0
      BY <2>1, <2>4, FlagMoves
    <3> QED BY <1>0, <2>1, <2>2, <2>3, <3>1
  <2>5. CASE ~ EndOfFrame
    <3>1. /\ (vsync_sync'[1] <=> vsync_clear_clk) /\ (vsync_sync'[2] <=> vsync_sync[1])
          /\ (vsync_flag' <=> vsync_flag /\ ~ vsync_sync[2])
          /\ swaps' = swaps
      BY <1>0, <2>1, <2>5, FlagMoves
    <3> QED BY <1>0, <2>1, <2>2, <2>3, <3>1
  <2> QED BY <2>4, <2>5
<1>3. CASE SwapBuffers
  <2>1. Edge(WriteControl(visible_buf'), TRUE) /\ phase = "select" /\ phase' = "poll"
    BY <1>3 DEF SwapBuffers
  <2>2. vsync_clear_clk' = FALSE
    BY <2>1, ControlEdge
  <2>3. CASE EndOfFrame
    <3>1. /\ (vsync_sync'[1] <=> vsync_clear_clk) /\ (vsync_sync'[2] <=> vsync_sync[1])
          /\ swaps' = 0
      BY <2>1, <2>3, FlagMoves
    <3> QED BY <1>0, <2>1, <2>2, <3>1
  <2>4. CASE ~ EndOfFrame
    <3>1. /\ (vsync_sync'[1] <=> vsync_clear_clk) /\ (vsync_sync'[2] <=> vsync_sync[1])
          /\ (vsync_flag' <=> vsync_flag /\ ~ vsync_sync[2])
      BY <2>1, <2>4, FlagMoves
    <3>2. swaps' = swaps + 1
      BY <1>0, <2>1, <2>4 DEF Edge
    <3> QED BY <1>0, <2>1, <2>2, <3>1, <3>2
  <2> QED BY <2>3, <2>4
<1>4. CASE PollVsync
  <2>1. Edge(ReadVsync, FALSE) /\ phase = "poll" /\ phase' = "test"
    BY <1>4 DEF PollVsync
  <2>2. vsync_clear_clk' = FALSE /\ rdata' = vsync_flag
    BY <2>1, ReadEdge
  <2>3. CASE EndOfFrame
    <3>1. /\ (vsync_sync'[1] <=> vsync_clear_clk) /\ (vsync_sync'[2] <=> vsync_sync[1])
          /\ swaps' = 0
      BY <2>1, <2>3, FlagMoves
    <3> QED BY <1>0, <2>1, <2>2, <3>1
  <2>4. CASE ~ EndOfFrame
    <3>1. /\ (vsync_sync'[1] <=> vsync_clear_clk) /\ (vsync_sync'[2] <=> vsync_sync[1])
          /\ (vsync_flag' <=> vsync_flag /\ ~ vsync_sync[2])
          /\ swaps' = swaps
      BY <1>0, <2>1, <2>4, FlagMoves
    <3> QED BY <1>0, <2>1, <2>2, <3>1
  <2> QED BY <2>3, <2>4
<1>5. CASE TestVsync
  <2>1. Edge(Idle, FALSE) /\ phase = "test" /\ phase' = IF rdata THEN "clear" ELSE "poll"
    BY <1>5 DEF TestVsync
  <2>2. vsync_clear_clk' = FALSE /\ rdata' = rdata
    BY <2>1, IdleEdge
  <2>3. CASE EndOfFrame
    <3>1. /\ (vsync_sync'[1] <=> vsync_clear_clk) /\ (vsync_sync'[2] <=> vsync_sync[1])
          /\ swaps' = 0
      BY <2>1, <2>3, FlagMoves
    <3> QED BY <1>0, <2>1, <2>2, <3>1
  <2>4. CASE ~ EndOfFrame
    <3>1. /\ (vsync_sync'[1] <=> vsync_clear_clk) /\ (vsync_sync'[2] <=> vsync_sync[1])
          /\ (vsync_flag' <=> vsync_flag /\ ~ vsync_sync[2])
          /\ swaps' = swaps
      BY <1>0, <2>1, <2>4, FlagMoves
    <3> QED BY <1>0, <2>1, <2>2, <3>1
  <2> QED BY <2>3, <2>4
<1>6. CASE ClearFlag
  <2>1. Edge(ClearVsync, FALSE) /\ phase = "clear" /\ phase' = "compute"
    BY <1>6 DEF ClearFlag
  <2>2. vsync_clear_clk' = TRUE
    BY <2>1, ClearEdge
  <2>3. CASE EndOfFrame
    <3>1. /\ (vsync_sync'[1] <=> vsync_clear_clk) /\ (vsync_sync'[2] <=> vsync_sync[1])
          /\ swaps' = 0
      BY <2>1, <2>3, FlagMoves
    <3> QED BY <1>0, <2>1, <2>2, <3>1
  <2>4. CASE ~ EndOfFrame
    <3>1. /\ (vsync_sync'[1] <=> vsync_clear_clk) /\ (vsync_sync'[2] <=> vsync_sync[1])
          /\ (vsync_flag' <=> vsync_flag /\ ~ vsync_sync[2])
          /\ swaps' = swaps
      BY <1>0, <2>1, <2>4, FlagMoves
    <3> QED BY <1>0, <2>1, <2>2, <3>1
  <2> QED BY <2>3, <2>4
<1>7. CASE Compute
  <2>1. Edge(Idle, FALSE) /\ phase = "compute" /\ phase' = "draw"
    BY <1>7 DEF Compute
  <2>2. vsync_clear_clk' = FALSE
    BY <2>1, IdleEdge
  <2>3. CASE EndOfFrame
    <3>1. /\ (vsync_sync'[1] <=> vsync_clear_clk) /\ (vsync_sync'[2] <=> vsync_sync[1])
          /\ swaps' = 0
      BY <2>1, <2>3, FlagMoves
    <3> QED BY <1>0, <2>1, <2>2, <3>1
  <2>4. CASE ~ EndOfFrame
    <3>1. /\ (vsync_sync'[1] <=> vsync_clear_clk) /\ (vsync_sync'[2] <=> vsync_sync[1])
          /\ (vsync_flag' <=> vsync_flag /\ ~ vsync_sync[2])
          /\ swaps' = swaps
      BY <1>0, <2>1, <2>4, FlagMoves
    <3> QED BY <1>0, <2>1, <2>2, <3>1
  <2> QED BY <2>3, <2>4
<1> QED BY <1>1, <1>2, <1>3, <1>4, <1>5, <1>6, <1>7 DEF Next, Program

-----------------------------------------------------------------------------
(* The two buffers. *)

(* A step that writes no pixel and selects nothing leaves the buffers as they *)
(* are; it may only forget what has been drawn.                               *)
LEMMA BuffersKept ==
  ASSUME TypeOK, Buffers,
         buffer' = buffer, visible_buf' = visible_buf, images' = images, x' = x, y' = y,
         \/ phase' = phase /\ current' = current
         \/ phase # "draw" /\ phase' # "select"
  PROVE  Buffers'
<1>1. \A b, r, c : At(b, r, c)' = At(b, r, c)
  BY DEF At, pixel_index
<1>2. \A r \in Rows, c \in Cols : At(visible_buf, r, c)' = ColorOf(images[2], r, c)'
  BY <1>1 DEF Buffers, ColorOf
<1>3. phase' # "draw" => x' = 0 /\ y' = 0
  BY DEF Buffers
<1>4. ASSUME phase' \in {"draw", "select"}, NEW r \in Rows, NEW c \in Cols,
             phase' = "select" \/ r < x' \/ (r = x' /\ c < y')
      PROVE  At(1 - visible_buf, r, c)' = ColorOf(current, r, c)'
  <2>1. phase' = phase /\ current' = current
    BY <1>4 DEF Buffers, Rows, Cols
  <2> QED BY <1>1, <1>4, <2>1 DEF Buffers, ColorOf
<1> QED BY <1>2, <1>3, <1>4 DEF Buffers

(* The pixel drawn is the next one of the hidden buffer and nothing else. *)
LEMMA BuffersDraw ==
  ASSUME TypeOK, Buffers, DrawPixel
  PROVE  Buffers'
<1> DEFINE h == 1 - visible_buf
           i == pixel_index(x, y, h)
           k == ColorOf(current, x, y)
<1>1. Edge(WritePixel(i, k), FALSE)
  BY DEF DrawPixel
<1>2. buffer' = [buffer EXCEPT ![i] = k]
  BY <1>1, PixelEdge
<1>3. /\ images' = images /\ visible_buf' = visible_buf /\ current' = current
      /\ phase = "draw" /\ phase' = IF x' = 0 /\ y' = 0 THEN "select" ELSE "draw"
  BY <1>1 DEF DrawPixel, Edge
<1>4. h \in {0, 1} /\ visible_buf \in {0, 1} /\ h # visible_buf /\ x \in Rows /\ y \in Cols
  BY DEF TypeOK
<1>5. DOMAIN buffer = 0 .. 2 * BUFFER_SIZE - 1 /\ i \in DOMAIN buffer
  BY <1>4, PixelAddress DEF TypeOK
<1>6. \A b \in {0, 1}, r \in Rows, c \in Cols :
        buffer'[pixel_index(r, c, b)] = IF b = h /\ r = x /\ c = y THEN k ELSE At(b, r, c)
  <2>1. ASSUME NEW b \in {0, 1}, NEW r \in Rows, NEW c \in Cols
        PROVE  buffer'[pixel_index(r, c, b)] = IF b = h /\ r = x /\ c = y THEN k ELSE At(b, r, c)
    <3>1. At(b, r, c) = buffer[pixel_index(r, c, b)]
      BY DEF At
    <3>2. pixel_index(r, c, b) = i => b = h /\ r = x /\ c = y
      BY <1>4, PixelAddressUnique
    <3>3. pixel_index(r, c, b) \in DOMAIN buffer
      BY <1>5, PixelAddress
    <3> HIDE DEF i, k, h
    <3>4. CASE pixel_index(r, c, b) = i
      BY <1>2, <1>5, <3>1, <3>2, <3>4
    <3>5. CASE pixel_index(r, c, b) # i
      <4>1. ~ (b = h /\ r = x /\ c = y)
        BY <3>5 DEF i
      <4> QED BY <1>2, <1>5, <3>1, <3>3, <3>5, <4>1
    <3> QED BY <3>4, <3>5
  <2> QED BY <2>1
<1>7. \A r \in Rows, c \in Cols : At(visible_buf, r, c)' = ColorOf(images[2], r, c)'
  <2> HIDE DEF i, k, h
  <2>1. ASSUME NEW r \in Rows, NEW c \in Cols PROVE At(visible_buf, r, c)' = ColorOf(images[2], r, c)'
    <3>1. At(visible_buf, r, c)' = At(visible_buf, r, c)
      <4>1. At(visible_buf, r, c)' = buffer'[pixel_index(r, c, visible_buf)]
        BY <1>3 DEF At, pixel_index
      <4> QED BY <1>4, <1>6, <4>1
    <3>2. ColorOf(images[2], r, c)' = ColorOf(images[2], r, c)
      BY <1>3 DEF ColorOf
    <3> QED BY <3>1, <3>2 DEF Buffers
  <2> QED BY <2>1
<1>8. /\ y' = IF y = PANEL_COLS - 1 THEN 0 ELSE y + 1
      /\ x' = IF y' = 0 THEN IF x = PANEL_ROWS - 1 THEN 0 ELSE x + 1 ELSE x
  <2>1. /\ (y + 1) % CELL_ROWS = IF y = PANEL_COLS - 1 THEN 0 ELSE y + 1
        /\ (x + 1) % CELL_COLS = IF x = PANEL_ROWS - 1 THEN 0 ELSE x + 1
    BY <1>4, Counts DEF Rows, Cols
  <2> QED BY <2>1 DEF DrawPixel
<1>9. phase' # "draw" => x' = 0 /\ y' = 0
  BY <1>3
<1>10. ASSUME NEW r \in Rows, NEW c \in Cols,
              phase' = "select" \/ r < x' \/ (r = x' /\ c < y')
       PROVE  At(1 - visible_buf, r, c)' = ColorOf(current, r, c)'
  <2>1. r < x \/ (r = x /\ c < y) \/ (r = x /\ c = y)
    BY <1>3, <1>4, <1>8, <1>10 DEF Rows, Cols
  <2>2. ColorOf(current, r, c)' = ColorOf(current, r, c)
    BY <1>3 DEF ColorOf
  <2>3. At(1 - visible_buf, r, c)' = buffer'[pixel_index(r, c, h)]
    BY <1>3 DEF At, pixel_index
  <2>5. r < x \/ (r = x /\ c < y) => At(h, r, c) = ColorOf(current, r, c)
    BY <1>3 DEF Buffers
  <2>6. h \in {0, 1} /\ (r = x /\ c = y => ColorOf(current, r, c) = k)
    BY <1>4
  <2>7. buffer'[pixel_index(r, c, h)] = IF r = x /\ c = y THEN k ELSE At(h, r, c)
    BY <1>6, <2>6
  <2> HIDE DEF i, h, k
  <2> QED BY <2>1, <2>2, <2>3, <2>5, <2>6, <2>7
<1> QED BY <1>7, <1>9, <1>10 DEF Buffers

(* Every step keeps the relation of the two buffers and the drawings.        *)
LEMMA BuffersStep ==
  ASSUME TypeOK, Buffers, Next
  PROVE  Buffers'
<1>1. CASE NoAccess
  <2>1. Edge(Idle, FALSE) /\ UNCHANGED program
    BY <1>1 DEF NoAccess
  <2>2. buffer' = buffer /\ images' = images
    BY <2>1, IdleEdge DEF Edge
  <2>3. phase' = phase /\ x' = x /\ y' = y /\ visible_buf' = visible_buf /\ current' = current
    BY <2>1 DEF program
  <2> QED BY <2>2, <2>3, BuffersKept
<1>2. CASE DrawPixel
  BY <1>2, BuffersDraw
<1>3. CASE SwapBuffers
  <2>1. /\ Edge(WriteControl(visible_buf'), TRUE) /\ phase = "select" /\ phase' = "poll"
        /\ visible_buf' = 1 - visible_buf /\ x' = x /\ y' = y
    BY <1>3 DEF SwapBuffers
  <2>2. buffer' = buffer /\ images'[2] = current
    BY <2>1, ControlEdge DEF Edge
  <2>3. ASSUME NEW r \in Rows, NEW c \in Cols PROVE At(visible_buf, r, c)' = ColorOf(images[2], r, c)'
    <3>1. At(1 - visible_buf, r, c) = ColorOf(current, r, c)
      BY <2>1 DEF Buffers
    <3>2. At(visible_buf, r, c)' = At(1 - visible_buf, r, c)
      BY <2>1, <2>2 DEF At, pixel_index
    <3>3. ColorOf(images[2], r, c)' = ColorOf(current, r, c)
      BY <2>2 DEF ColorOf
    <3> QED BY <3>1, <3>2, <3>3
  <2>4. x' = 0 /\ y' = 0
    BY <2>1 DEF Buffers
  <2> QED BY <2>1, <2>3, <2>4 DEF Buffers
<1>4. CASE PollVsync
  <2>1. Edge(ReadVsync, FALSE)
    BY <1>4 DEF PollVsync
  <2>2. buffer' = buffer /\ images' = images
    BY <2>1, ReadEdge DEF Edge
  <2> QED BY <1>4, <2>2, BuffersKept DEF PollVsync
<1>5. CASE TestVsync
  <2>1. Edge(Idle, FALSE)
    BY <1>5 DEF TestVsync
  <2>2. buffer' = buffer /\ images' = images
    BY <2>1, IdleEdge DEF Edge
  <2>3. phase = "test" /\ phase' \in {"clear", "poll"}
    BY <1>5 DEF TestVsync
  <2> QED BY <1>5, <2>2, <2>3, BuffersKept DEF TestVsync
<1>6. CASE ClearFlag
  <2>1. Edge(ClearVsync, FALSE)
    BY <1>6 DEF ClearFlag
  <2>2. buffer' = buffer /\ images' = images
    BY <2>1, ClearEdge DEF Edge
  <2> QED BY <1>6, <2>2, BuffersKept DEF ClearFlag
<1>7. CASE Compute
  <2>1. Edge(Idle, FALSE)
    BY <1>7 DEF Compute
  <2>2. buffer' = buffer /\ images' = images
    BY <2>1, IdleEdge DEF Edge
  <2> QED BY <1>7, <2>2, BuffersKept DEF Compute
<1> QED BY <1>1, <1>2, <1>3, <1>4, <1>5, <1>6, <1>7 DEF Next, Program

-----------------------------------------------------------------------------
(* The pixels read ahead and the lamps. *)

(* The drawings a step of the program leaves selected. *)
LEMMA Selected ==
  ASSUME TypeOK, OneFlagPerSwap, Next
  PROVE  /\ RasterClock
         /\ \/ /\ images' = images
               /\ ~ EndOfFrame => swaps' = swaps
            \/ /\ phase = "select" /\ phase' = "poll" /\ images'[1] = images[2]
               /\ ~ EndOfFrame => swaps' > 0
<1>1. PICK access \in Accesses : \/ Edge(access, FALSE)
                                 \/ phase = "select" /\ phase' = "poll" /\ Edge(access, TRUE)
  BY Selecting
<1>2. CASE Edge(access, FALSE)
  <2>1. images' = images /\ (~ EndOfFrame => swaps' = swaps)
    BY <1>2 DEF Edge
  <2> QED BY <1>2, <2>1 DEF Edge, Clock
<1>3. CASE phase = "select" /\ phase' = "poll" /\ Edge(access, TRUE)
  <2>1. images'[1] = images[2]
    BY <1>3 DEF Edge
  <2>2. swaps \in 0 .. 2
    BY DEF TypeOK, OneFlagPerSwap
  <2>3. ~ EndOfFrame => swaps' = swaps + 1
    BY <1>3, <2>2 DEF Edge
  <2> QED BY <1>3, <2>1, <2>2, <2>3 DEF Edge, Clock
<1> QED BY <1>1, <1>2, <1>3

(* Every step keeps the pixels read ahead those of the visible drawing.      *)
LEMMA ReadAheadStep ==
  ASSUME TypeOK, OneFlagPerSwap, Buffers, ReadAhead, Next
  PROVE  ReadAhead'
<1>0. RasterClock
  BY Selected
<1>1. CASE h_state = "RL"
  <2>1. /\ h_state' = "RH" /\ had_pl' = TRUE /\ ~ EndOfFrame
        /\ row_2' = row_2 /\ col' = col /\ buffer_read' = At(visible_buf, row_2, col)
    BY <1>0, <1>1, MovesRL
  <2>2. row_2 \in Rows /\ col \in Cols
    BY Halves DEF TypeOK
  <2>3. buffer_read' = ColorOf(images[2], row_2, col)
    BY <2>1, <2>2 DEF Buffers
  <2>4. CASE images' = images
    <3>1. buffer_read' = ColorOf(images[2], row_2, col)'
      BY <2>1, <2>3, <2>4 DEF ColorOf
    <3> QED BY <2>1, <3>1 DEF ReadAhead
  <2>5. CASE phase' = "poll" /\ images'[1] = images[2] /\ swaps' > 0
    <3>1. buffer_read' = ColorOf(images[1], row_2, col)'
      BY <2>1, <2>3, <2>5 DEF ColorOf
    <3> QED BY <2>1, <2>5, <3>1 DEF ReadAhead
  <2> QED BY <2>1, <2>4, <2>5, Selected
<1>2. CASE h_state = "RH"
  <2>1. /\ h_state' = "SHIFT" /\ had_pl' = FALSE /\ ~ EndOfFrame
        /\ row_2' = row_2 /\ col' = col /\ buffer_read' = At(visible_buf, row_2 + ROWS_2, col)
        /\ had_pl => pix_low_reg' = buffer_read
    BY <1>0, <1>2, MovesRH
  <2>2. row_2 + ROWS_2 \in Rows /\ col \in Cols
    BY Halves DEF TypeOK
  <2>3. buffer_read' = ColorOf(images[2], row_2 + ROWS_2, col)
    BY <2>1, <2>2 DEF Buffers
  <2>4. /\ pix_low_reg' = buffer_read
        /\ \/ buffer_read = ColorOf(images[2], row_2, col)
           \/ buffer_read = ColorOf(images[1], row_2, col) /\ swaps > 0 /\ phase = "poll"
    BY <1>2, <2>1 DEF ReadAhead
  <2>5. CASE images' = images /\ swaps' = swaps
    <3>1. \A i, r, c : ColorOf(images[i], r, c)' = ColorOf(images[i], r, c)
      BY <2>5 DEF ColorOf
    <3>2. /\ buffer_read' = ColorOf(images[2], row_2 + ROWS_2, col)'
          /\ ColorOf(images[2], row_2, col)' = ColorOf(images[2], row_2, col)
          /\ ColorOf(images[1], row_2, col)' = ColorOf(images[1], row_2, col)
      BY <2>1, <2>3, <2>5 DEF ColorOf
    <3>3. \E i \in 1 .. 2 : (pix_low_reg = ColorOf(images[i], row_2, col) /\ (i = 2 \/ swaps > 0))'
      BY <2>4, <2>5, <3>2
    <3>4. \E i \in 1 .. 2 : (buffer_read = ColorOf(images[i], row_2 + ROWS_2, col) /\ (i = 2 \/ swaps > 0))'
      BY <3>2
    <3> QED BY <2>1, <3>3, <3>4 DEF ReadAhead
  <2>6. CASE phase = "select" /\ images'[1] = images[2] /\ swaps' > 0
    <3>1. /\ buffer_read' = ColorOf(images[1], row_2 + ROWS_2, col)'
          /\ pix_low_reg' = ColorOf(images[1], row_2, col)'
      BY <2>1, <2>3, <2>4, <2>6 DEF ColorOf
    <3>2. \E i \in 1 .. 2 : (pix_low_reg = ColorOf(images[i], row_2, col) /\ (i = 2 \/ swaps > 0))'
      BY <2>6, <3>1
    <3>3. \E i \in 1 .. 2 : (buffer_read = ColorOf(images[i], row_2 + ROWS_2, col) /\ (i = 2 \/ swaps > 0))'
      BY <2>6, <3>1
    <3> QED BY <2>1, <3>2, <3>3 DEF ReadAhead
  <2> QED BY <2>1, <2>5, <2>6, Selected
<1>3. CASE h_state = "SHIFT"
  <2>1. h_state' = "RL"
    BY <1>0, <1>3, MovesSHIFT
  <2> QED BY <2>1 DEF ReadAhead
<1> QED BY <1>1, <1>2, <1>3 DEF TypeOK

(* The two pixels a shift adds to the lamps. *)
Shifted(p) == p = <<row_2, col>> \/ p = <<row_2 + ROWS_2, col>>

(* Shifting a pixel out lights it once if its colour is above the step.      *)
LEMMA ShiftLights ==
  ASSUME TypeOK, ReadAhead, LitSoFar, swaps = 0, h_state = "SHIFT", NEW p \in Pixels
  PROVE  LitNow[p] = Least(ColorOf(images[2], p[1], p[2]),
                           IF Passed(p) \/ Shifted(p) THEN pwm_step + 1 ELSE pwm_step)
<1> DEFINE k == ColorOf(images[2], p[1], p[2])
<1>1. lit[p] = Least(k, IF Passed(p) THEN pwm_step + 1 ELSE pwm_step)
  BY DEF LitSoFar
<1>2. /\ pix_low = ColorOf(images[2], row_2, col)
      /\ pix_high = ColorOf(images[2], row_2 + ROWS_2, col)
  BY DEF ReadAhead, TypeOK, pix_low, pix_high
<1>3. k \in Nat /\ pwm_step \in Nat
  BY Colours DEF TypeOK
<1>4. LitNow[p] = lit[p] + (IF On(p) THEN 1 ELSE 0)
  BY DEF LitNow
<1>5. row_2 \in Nat /\ ROWS_2 \in Nat \ {0} /\ row_2 < ROWS_2
  BY Halves DEF TypeOK, Lows
<1>6. CASE Shifted(p)
  <2>1. On(p) <=> k > pwm_step
    <3>1. CASE p = <<row_2, col>>
      BY <1>2, <1>5, <3>1 DEF On
    <3>2. CASE p = <<row_2 + ROWS_2, col>>
      BY <1>2, <1>5, <3>2 DEF On
    <3> QED BY <1>6, <3>1, <3>2 DEF Shifted
  <2>2. ~ Passed(p)
    BY <1>5, <1>6 DEF Shifted, Passed, TypeOK, Cols
  <2> HIDE DEF k
  <2>3. LitNow[p] = Least(k, pwm_step + 1)
    BY <1>1, <1>3, <1>4, <2>1, <2>2 DEF Least
  <2> QED BY <1>6, <2>3 DEF k
<1>7. CASE ~ Shifted(p)
  <2>1. ~ On(p)
    BY <1>7 DEF Shifted, On
  <2>2. lit[p] \in Nat
    BY DEF TypeOK
  <2> QED BY <1>1, <1>4, <1>7, <2>1, <2>2
<1> QED BY <1>6, <1>7

(* At the end of a line, of a screen and of a frame. *)
LEMMA LitStep ==
  ASSUME TypeOK, OneFlagPerSwap, ReadAhead, LitSoFar, Next
  PROVE  LitSoFar'
<1> SUFFICES ASSUME swaps' = 0, NEW p \in Pixels
             PROVE  lit'[p] = Least(ColorOf(images[2], p[1], p[2]),
                                    IF Passed(p) THEN pwm_step + 1 ELSE pwm_step)'
  BY DEF LitSoFar, Pixels
<1>1. RasterClock
  BY Selected
<1>2. lit' = IF EndOfFrame THEN [q \in Pixels |-> 0] ELSE LitNow
  BY Selecting DEF Edge
<1>3. row_2 \in Nat /\ ROWS_2 \in Nat \ {0} /\ row_2 < ROWS_2 /\ col \in Cols /\ pwm_step \in Nat
  BY Halves DEF TypeOK, Lows
<1>4. p[1] \in 0 .. 2 * ROWS_2 - 1 /\ p[2] \in Cols /\ p = <<p[1], p[2]>>
  BY Halves DEF Pixels, Cols
<1>5. CASE EndOfFrame
  <2>1. row_2' = 0 /\ col' = 0 /\ pwm_step' = 0
    BY <1>1, <1>5, MovesSHIFT DEF EndOfFrame, EndOfScreen, LastPixel
  <2>2. ~ Passed(p)'
    BY <1>3, <1>4, <2>1 DEF Passed, Cols
  <2>3. ColorOf(images'[2], p[1], p[2]) \in Nat
    BY Colours
  <2>4. lit'[p] = 0
    BY <1>2, <1>5
  <2> QED BY <2>1, <2>2, <2>3, <2>4 DEF Least, ColorOf
<1>6. CASE ~ EndOfFrame
  <2>1. swaps = 0 /\ images' = images /\ lit' = LitNow
    BY <1>2, <1>6, Selected
  <2>2. ColorOf(images[2], p[1], p[2])' = ColorOf(images[2], p[1], p[2])
    BY <2>1 DEF ColorOf
  <2>3. CASE h_state # "SHIFT"
    <3>1. row_2' = row_2 /\ col' = col /\ pwm_step' = pwm_step
      BY <1>1, <2>3, MovesRL, MovesRH DEF TypeOK
    <3>2. Passed(p)' <=> Passed(p)
      BY <3>1 DEF Passed
    <3>3. LitNow[p] = lit[p]
      BY <2>3 DEF LitNow, TypeOK
    <3> QED BY <2>1, <2>2, <3>1, <3>2, <3>3 DEF LitSoFar
  <2>4. CASE h_state = "SHIFT"
    <3>1. LitNow[p] = Least(ColorOf(images[2], p[1], p[2]),
                            IF Passed(p) \/ Shifted(p) THEN pwm_step + 1 ELSE pwm_step)
      BY <2>1, <2>4, ShiftLights
    <3>2. CASE pwm_step' = pwm_step
      <4>1. \/ col # PANEL_COLS - 1 /\ col' = col + 1 /\ row_2' = row_2
            \/ col = PANEL_COLS - 1 /\ row_2 # ROWS_2 - 1 /\ col' = 0 /\ row_2' = row_2 + 1
        BY <1>1, <1>3, <1>6, <2>4, <3>2, MovesSHIFT
      <4>2. Passed(p)' <=> Passed(p) \/ Shifted(p)
        BY <1>3, <1>4, <4>1 DEF Passed, Shifted, Cols
      <4> QED BY <2>1, <2>2, <3>1, <3>2, <4>2
    <3>3. CASE pwm_step' # pwm_step
      <4>1. /\ col = PANEL_COLS - 1 /\ row_2 = ROWS_2 - 1
            /\ col' = 0 /\ row_2' = 0 /\ pwm_step' = pwm_step + 1
        BY <1>1, <1>6, <2>4, <3>3, MovesSHIFT
      <4>2. ~ Passed(p)' /\ (Passed(p) \/ Shifted(p))
        BY <1>3, <1>4, <4>1 DEF Passed, Shifted, Cols
      <4> QED BY <2>1, <2>2, <3>1, <4>1, <4>2
    <3> QED BY <3>2, <3>3
  <2> QED BY <2>3, <2>4
<1> QED BY <1>5, <1>6

-----------------------------------------------------------------------------
(* The theorems. *)

(* Every step keeps the invariant.                                           *)
LEMMA InvariantStep == PanelInv /\ [Next]_vars => PanelInv'
<1>1. ASSUME PanelInv, Next PROVE PanelInv'
  BY <1>1, TypeStep, FlagStep, BuffersStep, ReadAheadStep, LitStep DEF PanelInv
<1>2. ASSUME PanelInv, UNCHANGED vars PROVE PanelInv'
  <2>1. /\ UNCHANGED <<buffer, control, visible_buf, rdata, vsync_clear_clk, vsync_flag, vsync_sync>>
        /\ UNCHANGED <<h_state, row_2, col, pwm_step, buffer_read, had_pl, pix_low_reg>>
        /\ UNCHANGED <<phase, x, y, current, iter, images, swaps, lit>>
    BY <1>2 DEF vars, driver, program, history, raster
  <2>2. TypeOK'
    BY <1>2, TypeStep DEF PanelInv
  <2>3. OneFlagPerSwap'
    BY <1>2, <2>1 DEF PanelInv, OneFlagPerSwap, Clearing
  <2>4. Buffers'
    BY <1>2, <2>1, BuffersKept DEF PanelInv
  <2>5. ReadAhead'
    BY <1>2, <2>1 DEF PanelInv, ReadAhead, ColorOf
  <2>6. LitSoFar'
    BY <1>2, <2>1 DEF PanelInv, LitSoFar, ColorOf, Passed
  <2> QED BY <2>2, <2>3, <2>4, <2>5, <2>6 DEF PanelInv
<1> QED BY <1>1, <1>2

(* The driver and the program keep what they must remember of each other. *)
THEOREM PanelInvariant == Spec => []PanelInv
<1>1. Init => PanelInv
  BY Starts
<1>2. PanelInv /\ [Next]_vars => PanelInv'
  BY InvariantStep
<1> QED BY <1>1, <1>2, PTL DEF Spec

(* No frame sees more than two selections: a flag left from before lets one   *)
(* through, and its late clear never a second one.                            *)
THEOREM NoThirdSwap == Spec => []AtMostTwoSwaps
<1>1. PanelInv => AtMostTwoSwaps
  BY DEF PanelInv, OneFlagPerSwap, AtMostTwoSwaps
<1> QED BY <1>1, PanelInvariant, PTL

(* Every pixel shifted out is that of a drawing completed before it was       *)
(* selected, although the buffers are swapped at any clock edge.              *)
THEOREM ShowsFinished == Spec => []ShowsFinishedDrawings
<1>1. PanelInv => ShowsFinishedDrawings
  BY DEF PanelInv, TypeOK, ReadAhead, ShowsFinishedDrawings, pix_low, pix_high
<1> QED BY <1>1, PanelInvariant, PTL

(* A frame without a swap lights every pixel as often as its colour says.     *)
THEOREM FrameShowsGeneration == Spec => []FrameIsGeneration
<1>1. ASSUME PanelInv, EndOfFrame, swaps = 0, NEW p \in Pixels
      PROVE  LitNow[p] = ColorOf(images[2], p[1], p[2])
  <2>1. h_state = "SHIFT" /\ col = PANEL_COLS - 1 /\ row_2 = ROWS_2 - 1 /\ pwm_step = PWM_STEPS - 1
    BY <1>1 DEF EndOfFrame, EndOfScreen, LastPixel
  <2>2. LitNow[p] = Least(ColorOf(images[2], p[1], p[2]),
                          IF Passed(p) \/ Shifted(p) THEN pwm_step + 1 ELSE pwm_step)
    BY <1>1, <2>1, ShiftLights DEF PanelInv
  <2>3. p[1] \in 0 .. 2 * ROWS_2 - 1 /\ p[2] \in Cols /\ p = <<p[1], p[2]>>
    BY Halves DEF Pixels, Cols
  <2>4. Passed(p) \/ Shifted(p)
    BY <2>1, <2>3, Halves DEF Passed, Shifted, Cols
  <2>5. ColorOf(images[2], p[1], p[2]) \in 0 .. PWM_STEPS /\ pwm_step + 1 = PWM_STEPS
    BY <2>1, Colours
  <2> QED BY <2>2, <2>4, <2>5 DEF Least
<1>2. PanelInv => FrameIsGeneration
  BY <1>1 DEF FrameIsGeneration
<1> QED BY <1>2, PanelInvariant, PTL

-----------------------------------------------------------------------------
(* The program computes the rule. *)

(* Quotient and remainder are unique.                                        *)
LEMMA QuotientRemainder ==
  ASSUME NEW m \in Nat \ {0}, NEW a \in Nat, NEW b \in 0 .. m - 1
  PROVE  (a * m + b) % m = b /\ (a * m + b) \div m = a
<1> DEFINE n == a * m + b
           q == n \div m
           r == n % m
<1>1. n \in Nat /\ a * m \in Nat
  OBVIOUS
<1> HIDE DEF n
<1>2. q \in Nat /\ r \in 0 .. m - 1 /\ n = q * m + r
  BY <1>1
<1> HIDE DEF q, r
<1>3. a * m + b = q * m + r
  BY <1>2 DEF n
<1>4. a = q /\ b = r
  BY <1>2, <1>3, RowMajorUnique
<1> QED BY <1>4 DEF n, q, r

(* What cell_i makes of a coordinate. *)
Wrapped(v, n) ==
  LET w == IF v < 0 THEN v + n ELSE v
  IN  IF w >= n THEN w - n ELSE w

(* The neighbour that cell_i wraps to is the torus's. *)
LEMMA Wrapping ==
  ASSUME NEW X \in Columns, NEW Y \in Lines, NEW dx \in -1 .. 1, NEW dy \in -1 .. 1
  PROVE  /\ Toward(<<X, Y>>, <<dx, dy>>) \in Cells
         /\ cell_i(X + dx, Y + dy) =
              Toward(<<X, Y>>, <<dx, dy>>)[2] * CELL_COLS + Toward(<<X, Y>>, <<dx, dy>>)[1]
<1> USE CellAssumption
<1>0. X \in Int /\ Y \in Int /\ Columns \subseteq Int /\ Lines \subseteq Int
  BY DEF Columns, Lines
<1>1. ASSUME NEW n \in Nat \ {0}, NEW a \in 0 .. n - 1, NEW d \in -1 .. 1
      PROVE  (a + d) % n \in 0 .. n - 1 /\ (a + d) % n = Wrapped(a + d, n)
  <2>1. CASE a + d = -1
    <3>1. (-1) % n = n - 1
      OBVIOUS
    <3> QED BY <2>1, <3>1 DEF Wrapped
  <2>2. CASE a + d = n
    <3>1. n % n = 0
      OBVIOUS
    <3> QED BY <2>2, <3>1 DEF Wrapped
  <2>3. CASE a + d \in 0 .. n - 1
    <3>1. (a + d) % n = a + d
      BY <2>3
    <3> QED BY <2>3, <3>1 DEF Wrapped
  <2> QED BY <2>1, <2>2, <2>3
<1>2. (X + dx) % CELL_COLS \in Columns /\ (X + dx) % CELL_COLS = Wrapped(X + dx, CELL_COLS)
  BY <1>1 DEF Columns
<1>3. (Y + dy) % CELL_ROWS \in Lines /\ (Y + dy) % CELL_ROWS = Wrapped(Y + dy, CELL_ROWS)
  BY <1>1 DEF Lines
<1>4. PICK a \in Columns : a = (X + dx) % CELL_COLS
  BY <1>2
<1>5. PICK b \in Lines : b = (Y + dy) % CELL_ROWS
  BY <1>3
<1>6. Toward(<<X, Y>>, <<dx, dy>>) = <<a, b>>
  BY <1>4, <1>5 DEF Toward
<1>7. cell_i(X + dx, Y + dy) = b * CELL_COLS + a
  <2>1. cell_i(X + dx, Y + dy) = Wrapped(Y + dy, CELL_ROWS) * CELL_COLS + Wrapped(X + dx, CELL_COLS)
    BY Zenon DEF cell_i, Wrapped
  <2>2. Wrapped(X + dx, CELL_COLS) = a /\ Wrapped(Y + dy, CELL_ROWS) = b
    BY <1>2, <1>3, <1>4, <1>5
  <2> QED BY <2>1, <2>2
<1> QED BY <1>6, <1>7 DEF Cells

(* The counted elements of a set that has grown by one. *)
LEMMA CountOneMore ==
  ASSUME NEW N, NEW S, NEW e, IsFiniteSet(N \cap S), e \notin S
  PROVE  /\ IsFiniteSet(N \cap (S \cup {e}))
         /\ Cardinality(N \cap (S \cup {e})) = Cardinality(N \cap S) + (IF e \in N THEN 1 ELSE 0)
<1>1. Cardinality(N \cap S) \in Nat
  BY FS_CardinalityType
<1>2. CASE e \in N
  <2>1. N \cap (S \cup {e}) = (N \cap S) \cup {e}
    BY <1>2
  <2> QED BY <1>2, <2>1, FS_AddElement
<1>3. CASE e \notin N
  <2>1. N \cap (S \cup {e}) = N \cap S
    BY <1>3
  <2> QED BY <1>1, <1>3, <2>1
<1> QED BY <1>2, <1>3

(* The eight directions, counted in the order of count_neighbors. *)
LEMMA CountDirections ==
  ASSUME NEW N, N \subseteq Directions
  PROVE  Cardinality(N) =
           LET n(dx, dy) == IF <<dx, dy>> \in N THEN 1 ELSE 0
           IN  n(-1, -1) + n(-1, 0) + n(-1, 1) + n(0, -1) + n(0, 1) + n(1, -1) + n(1, 0) + n(1, 1)
<1> DEFINE D0 == {}
           D1 == D0 \cup {<<-1, -1>>}
           D2 == D1 \cup {<<-1, 0>>}
           D3 == D2 \cup {<<-1, 1>>}
           D4 == D3 \cup {<<0, -1>>}
           D5 == D4 \cup {<<0, 1>>}
           D6 == D5 \cup {<<1, -1>>}
           D7 == D6 \cup {<<1, 0>>}
           D8 == D7 \cup {<<1, 1>>}
           n(e) == IF e \in N THEN 1 ELSE 0
<1>0. N = N \cap D8
  <2>1. \A d \in Directions : d \in D8
    BY DEF Directions
  <2> QED BY <2>1
<1>1. IsFiniteSet(N \cap D1) /\ Cardinality(N \cap D1) = n(<<-1, -1>>)
  <2>1. IsFiniteSet(N \cap D0) /\ Cardinality(N \cap D0) = 0
    <3>1. N \cap D0 = {}
      OBVIOUS
    <3> QED BY <3>1, FS_EmptySet
  <2>2. <<-1, -1>> \notin D0
    OBVIOUS
  <2> HIDE DEF D0
  <2>3. /\ IsFiniteSet(N \cap D1)
        /\ Cardinality(N \cap D1) = Cardinality(N \cap D0) + n(<<-1, -1>>)
    <3>1. IsFiniteSet(N \cap D0)
      BY <2>1
    <3>2. D1 = D0 \cup {<<-1, -1>>}
      OBVIOUS
    <3> HIDE DEF D1
    <3>3. /\ IsFiniteSet(N \cap (D0 \cup {<<-1, -1>>}))
          /\ Cardinality(N \cap (D0 \cup {<<-1, -1>>}))
               = Cardinality(N \cap D0) + (IF <<-1, -1>> \in N THEN 1 ELSE 0)
      BY <2>2, <3>1, CountOneMore
    <3> QED BY <3>2, <3>3
  <2> HIDE DEF D1
  <2> QED BY <2>1, <2>3
<1>2. IsFiniteSet(N \cap D2) /\ Cardinality(N \cap D2) = Cardinality(N \cap D1) + n(<<-1, 0>>)
  <2>1. <<-1, 0>> \notin D1
    OBVIOUS
  <2> HIDE DEF D1
  <2> QED BY <1>1, <2>1, CountOneMore
<1>3. IsFiniteSet(N \cap D3) /\ Cardinality(N \cap D3) = Cardinality(N \cap D2) + n(<<-1, 1>>)
  <2>1. <<-1, 1>> \notin D2
    OBVIOUS
  <2> HIDE DEF D2
  <2> QED BY <1>2, <2>1, CountOneMore
<1>4. IsFiniteSet(N \cap D4) /\ Cardinality(N \cap D4) = Cardinality(N \cap D3) + n(<<0, -1>>)
  <2>1. <<0, -1>> \notin D3
    OBVIOUS
  <2> HIDE DEF D3
  <2> QED BY <1>3, <2>1, CountOneMore
<1>5. IsFiniteSet(N \cap D5) /\ Cardinality(N \cap D5) = Cardinality(N \cap D4) + n(<<0, 1>>)
  <2>1. <<0, 1>> \notin D4
    OBVIOUS
  <2> HIDE DEF D4
  <2> QED BY <1>4, <2>1, CountOneMore
<1>6. IsFiniteSet(N \cap D6) /\ Cardinality(N \cap D6) = Cardinality(N \cap D5) + n(<<1, -1>>)
  <2>1. <<1, -1>> \notin D5
    OBVIOUS
  <2> HIDE DEF D5
  <2> QED BY <1>5, <2>1, CountOneMore
<1>7. IsFiniteSet(N \cap D7) /\ Cardinality(N \cap D7) = Cardinality(N \cap D6) + n(<<1, 0>>)
  <2>1. <<1, 0>> \notin D6
    OBVIOUS
  <2> HIDE DEF D6
  <2> QED BY <1>6, <2>1, CountOneMore
<1>8. IsFiniteSet(N \cap D8) /\ Cardinality(N \cap D8) = Cardinality(N \cap D7) + n(<<1, 1>>)
  <2>1. <<1, 1>> \notin D7
    OBVIOUS
  <2> HIDE DEF D7
  <2> QED BY <1>7, <2>1, CountOneMore
<1>9. Cardinality(N) = n(<<-1, -1>>) + n(<<-1, 0>>) + n(<<-1, 1>>) + n(<<0, -1>>)
                       + n(<<0, 1>>) + n(<<1, -1>>) + n(<<1, 0>>) + n(<<1, 1>>)
  <2> HIDE DEF D0, D1, D2, D3, D4, D5, D6, D7, D8, n
  <2> QED BY <1>0, <1>1, <1>2, <1>3, <1>4, <1>5, <1>6, <1>7, <1>8
<1> QED BY <1>9

(* The function of the held map is the map with the held cells alive. *)
LEMMA Holding ==
  ASSUME NEW m \in Map
  PROVE  HoldCells(m) \in Map /\ Alive(HoldCells(m)) = Alive(m) \cup Held
<1> USE CellAssumption
<1>1. HoldCells(m) \in Map
  BY DEF HoldCells, Map
<1>2. ASSUME NEW c \in Cells
      PROVE  c \in Alive(HoldCells(m)) <=> c \in Alive(m) \/ c \in Held
  <2> DEFINE i == c[2] * CELL_COLS + c[1]
  <2>1. c[1] \in Columns /\ c[2] \in Lines /\ c = <<c[1], c[2]>>
    BY DEF Cells
  <2>2. i \in 0 .. CELL_ROWS * CELL_COLS - 1
    BY <2>1, RowMajor DEF Columns, Lines
  <2>3. ASSUME NEW h \in Held PROVE cell_i(h[1], h[2]) = i <=> h = c
    <3>1. h[1] \in Columns /\ h[2] \in Lines /\ h = <<h[1], h[2]>>
      OBVIOUS
    <3>2. cell_i(h[1], h[2]) = h[2] * CELL_COLS + h[1]
      BY <3>1 DEF cell_i, Columns, Lines
    <3>3. h[2] * CELL_COLS + h[1] = c[2] * CELL_COLS + c[1] => h[2] = c[2] /\ h[1] = c[1]
      BY <2>1, <3>1, RowMajorUnique DEF Columns, Lines
    <3> QED BY <2>1, <3>1, <3>2, <3>3
  <2>4. HoldCells(m)[i] <=> m[i] \/ c \in Held
    <3> HIDE DEF i
    <3>1. HoldCells(m)[i] = (m[i] \/ \E h \in Held : cell_i(h[1], h[2]) = i)
      BY <2>2 DEF HoldCells, Map
    <3> QED BY <2>3, <3>1
  <2> QED BY <2>4 DEF Alive
<1>3. Held \subseteq Cells
  BY DEF Cells
<1> QED BY <1>1, <1>2, <1>3 DEF Alive

(* One generation on, a cell lives if the rule says so. *)
LEMMA Rules ==
  ASSUME NEW m \in Map
  PROVE  Alive(NextMap(m)) = Rule(Alive(m))
<1> USE CellAssumption
<1>1. ASSUME NEW X \in Columns, NEW Y \in Lines
      PROVE  <<X, Y>> \in Alive(NextMap(m)) <=> <<X, Y>> \in Rule(Alive(m))
  <2> DEFINE c == <<X, Y>>
             i == Y * CELL_COLS + X
             N == {d \in Directions : Toward(c, d) \in Alive(m)}
  <2>1. i \in DOMAIN m /\ DOMAIN m = 0 .. CELL_ROWS * CELL_COLS - 1
    BY RowMajor DEF Columns, Lines, Map
  <2>2. i % CELL_COLS = X /\ i \div CELL_COLS = Y
    BY QuotientRemainder DEF Columns, Lines
  <2>3. ASSUME NEW dx \in -1 .. 1, NEW dy \in -1 .. 1, <<dx, dy>> # <<0, 0>>
        PROVE  get_cell(m, X + dx, Y + dy) <=> <<dx, dy>> \in N
    <3>1. <<dx, dy>> \in Directions
      BY <2>3 DEF Directions
    <3>2. /\ Toward(c, <<dx, dy>>) \in Cells
          /\ cell_i(X + dx, Y + dy) = Toward(c, <<dx, dy>>)[2] * CELL_COLS + Toward(c, <<dx, dy>>)[1]
      BY Wrapping
    <3> HIDE DEF c
    <3> QED BY <3>1, <3>2 DEF get_cell, Alive
  <2>4. count_neighbors(m, X, Y) = Cardinality(N)
    <3> DEFINE n(dx, dy) == IF <<dx, dy>> \in N THEN 1 ELSE 0
               g(dx, dy) == IF get_cell(m, X + dx, Y + dy) THEN 1 ELSE 0
    <3>1. N \subseteq Directions
      OBVIOUS
    <3> HIDE DEF N
    <3>2. Cardinality(N) = n(-1, -1) + n(-1, 0) + n(-1, 1) + n(0, -1) + n(0, 1) + n(1, -1) + n(1, 0) + n(1, 1)
      BY <3>1, CountDirections
    <3>3. count_neighbors(m, X, Y) =
            g(-1, -1) + g(-1, 0) + g(-1, 1) + g(0, -1) + g(0, 1) + g(1, -1) + g(1, 0) + g(1, 1)
      BY DEF count_neighbors
    <3>4. /\ g(-1, -1) = n(-1, -1) /\ g(-1, 0) = n(-1, 0) /\ g(-1, 1) = n(-1, 1) /\ g(0, -1) = n(0, -1)
          /\ g(0, 1) = n(0, 1) /\ g(1, -1) = n(1, -1) /\ g(1, 0) = n(1, 0) /\ g(1, 1) = n(1, 1)
      BY <2>3
    <3> HIDE DEF n, g
    <3> QED BY <3>2, <3>3, <3>4
  <2>5. c \in Cells /\ c[1] = X /\ c[2] = Y
    BY DEF Cells
  <2>6. NextMap(m)[i] <=> LET n == Cardinality(N) IN IF m[i] THEN n = 2 \/ n = 3 ELSE n = 3
    <3> HIDE DEF N, i
    <3> QED BY <2>1, <2>2, <2>4 DEF NextMap
  <2>7. c \in Alive(NextMap(m)) <=> NextMap(m)[i]
    BY <2>5 DEF Alive
  <2>8. c \in Alive(m) <=> m[i]
    BY <2>5 DEF Alive
  <2>9. c \in Rule(Alive(m)) <=> LET n == Cardinality(N) IN n = 3 \/ (n = 2 /\ c \in Alive(m))
    BY <2>5 DEF Rule
  <2> HIDE DEF c, i, N
  <2>10. c \in Alive(NextMap(m)) <=> c \in Rule(Alive(m))
    BY <2>6, <2>7, <2>8, <2>9
  <2> QED BY <2>10 DEF c
<1>2. Alive(NextMap(m)) \subseteq Cells /\ Rule(Alive(m)) \subseteq Cells
  BY DEF Alive, Rule
<1>3. \A c \in Cells : c \in Alive(NextMap(m)) <=> c \in Rule(Alive(m))
  BY <1>1 DEF Cells
<1> QED BY <1>2, <1>3

(* One round of main() is one step of the rule from the held cells, on every  *)
(* torus; past the demonstration's end nothing is left but them.              *)
THEOREM ComputesRule == Spec => FollowsRule
<1>1. ASSUME TypeOK, [Next]_vars, current' # current
      PROVE  \/ iter <= ClearAfter /\ Alive(current') = Rule(Alive(current) \cup Held)
             \/ iter > ClearAfter /\ Alive(current') = {}
  <2>1. Compute
    BY <1>1 DEF Next, Program, NoAccess, DrawPixel, SwapBuffers, PollVsync, TestVsync, ClearFlag,
                vars, program
  <2>2. current' = IF iter > ClearAfter THEN Empty ELSE NextMap(HoldCells(current))
    BY <2>1 DEF Compute
  <2>3. Alive(Empty) = {}
    <3>1. \A c \in Cells : ~ Empty[c[2] * CELL_COLS + c[1]]
      <4>1. ASSUME NEW X \in Columns, NEW Y \in Lines PROVE ~ Empty[Y * CELL_COLS + X]
        BY CellAssumption, RowMajor DEF Columns, Lines, Empty
      <4> QED BY <4>1 DEF Cells
    <3> QED BY <3>1 DEF Alive
  <2>4. Alive(NextMap(HoldCells(current))) = Rule(Alive(current) \cup Held)
    BY <1>1, Holding, Rules DEF TypeOK
  <2>5. iter \in Nat /\ ClearAfter \in Nat
    BY <1>1 DEF TypeOK
  <2> QED BY <2>2, <2>3, <2>4, <2>5
<1>2. PanelInv => TypeOK
  BY DEF PanelInv
<1> QED BY <1>1, <1>2, PanelInvariant, PTL DEF Spec, FollowsRule

==============================================================================

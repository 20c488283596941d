-------------------------------- MODULE SocIo --------------------------------
(* The support library, src/software/library/soc_io.{h,c}, as the stores its  *)
(* functions make: a store is an address and the bytes written from there on, *)
(* the lowest first.  The SPI functions are in Bootloader.                     *)
EXTENDS Integers, Sequences, SequencesExt, SequenceFolds

CONSTANTS
  COLS, ROWS,               \* SCREENBUFFER_COLS, SCREENBUFFER_ROWS
  WIDTH, HEIGHT,            \* HUB75_MATRIX_WIDTH, HUB75_MATRIX_HEIGHT
  SCREENBUFFER, HUB75_BASE, \* addresses
  COLOR_SUPPORTED,
  ColorMod                  \* colours of a character: 2^6

HUB75_N_BUFFERS == 2
COLORBUFFER == SCREENBUFFER + COLS * ROWS
HUB75_CTL == HUB75_BASE + WIDTH * HEIGHT * 4 * HUB75_N_BUFFERS
HUB75_VSYNC == HUB75_CTL + 1

COLOR_FG(b) == b % ColorMod
COLOR_BG(b) == (b % ColorMod) * ColorMod
WHITE == ColorMod - 1

Store(a, bytes) == [addr |-> a, bytes |-> bytes]

-----------------------------------------------------------------------------
(* The text console: a cursor [row, col], and what printing stores.           *)

Home == [row |-> 0, col |-> 0]
NextRow(row) == (row + 1) % ROWS
idx(cur) == cur.row * COLS + cur.col

\* The cursor at the end of a line goes to the start of the next.
Wrapped(cur) == IF cur.col >= COLS THEN [row |-> NextRow(cur.row), col |-> 0] ELSE cur

\* The cursor after c, and the cell it is stored in: 0 for none, else idx + 1.
printchar(cur, c) ==
  CASE c = "\r" -> [cur |-> [cur EXCEPT !.col = 0], cell |-> 0]
    [] c = "\n" -> [cur |-> [row |-> NextRow(cur.row), col |-> 0], cell |-> 0]
    [] OTHER    -> [cur |-> Wrapped([cur EXCEPT !.col = @ + 1]), cell |-> idx(cur) + 1]

\* The characters print_integer hands to printn: the sign, the digits, and one
\* more than it has written, whatever lies behind str.
Decimal(n) ==
  LET digits[k \in 0 .. n] == IF k < 10 THEN <<ToString(k)>> ELSE Append(digits[k \div 10], ToString(k % 10))
  IN  digits[n]
print_integer(n, behind) ==
  (IF n < 0 THEN <<"-">> \o Decimal(- n) ELSE Decimal(n)) \o <<behind>>

-----------------------------------------------------------------------------
(* The LED matrix. *)

hub75_color(r, g, b) == <<r, g, b, 0>>

\* A word store of a pixel; buffers beyond the last are the last.
PixelAddr(px, py, buffer) ==
  LET buf == IF buffer >= HUB75_N_BUFFERS THEN HUB75_N_BUFFERS - 1 ELSE buffer
  IN  HUB75_BASE + 4 * (px * WIDTH + py + WIDTH * HEIGHT * buf)
hub75_set_pixel(px, py, buffer, color) == <<Store(PixelAddr(px, py, buffer), color)>>

\* Another buffer than the two is not selected.
hub75_select_buffer(n) ==
  IF n \in 0 .. HUB75_N_BUFFERS - 1 THEN <<Store(HUB75_CTL, <<n, 0, 0, 0>>)>> ELSE << >>

hub75_clear_vsync_flag == <<Store(HUB75_VSYNC, <<1>>)>>
hub75_gamma_correct(c, max) == (c * c) \div max
==============================================================================

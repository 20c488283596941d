---------------------------- MODULE TextPrograms -----------------------------
(* Programs that show something on the text screen while it is being walked   *)
(* over: cgol.c, which draws two cells of a generation as one character, and  *)
(* cgol_color.c and image_show.c, which draw them as its two colours.  A step *)
(* is an edge of the clock, with a store of the program or without one.       *)
EXTENDS TextModeGpu, Life, Sequences

CONSTANTS
  Mains,          \* the programs started
  Status,         \* the text before the number, "Step: "
  Behind,         \* what may lie behind str in print_integer
  ClearAfter,     \* 10000
  Pictures,       \* the images, functions from half cells to colours
  White, Red, Black

Io == INSTANCE SocIo WITH
  WIDTH <- 1, HEIGHT <- 1, SCREENBUFFER <- 0, HUB75_BASE <- 0, COLOR_SUPPORTED <- FALSE, ColorMod <- 2

VARIABLES
  main, phase,    \* the program and where it is
  cx, cy,         \* the cell it draws next: x, y_2
  cur, text,      \* the cursor of the console, and what is still to be printed
  current, next,  \* the maps
  iter,           \* counted up to ClearAfter + 1
  picture,        \* the image shown
  behind,         \* history: what lay behind the last number
  widest,         \* history: the length of the longest status line so far
  stable          \* history: nothing was stored since the frame's first fetch

history == <<behind, widest>>
program == <<main, phase, cx, cy, cur, text, current, next, iter, picture, history>>
vars == <<gpu, program, stable>>

ASSUME ProgramAssumption ==
  /\ CELL_COLS = COLS /\ CELL_ROWS = 2 * ROWS
  /\ Mains \subseteq {"cgol", "cgol_color", "image_show"} /\ ClearAfter \in Nat

\* Characters 0 to 3 of the font, spleen-8x16.bdf, are the halves of a cell.
ASSUME FontAssumption ==
  \A row \in 0 .. FONT_H - 1, col \in 0 .. FONT_W - 1 :
    /\ ~ Glyph("none", row, col) /\ Glyph("both", row, col)
    /\ Glyph("top", row, col) <=> 2 * row < FONT_H
    /\ Glyph("bottom", row, col) <=> 2 * row >= FONT_H

\* "Step: " and five digits are of 80 columns, and none of them moves the cursor elsewhere.
Printable == Char \ {"\r", "\n"}
ASSUME StatusAssumption ==
  /\ Status \in Seq(Printable)
  /\ \A d \in 0 .. 9 : Io!Decimal(d) \in Seq(Printable)
  /\ Len(Status) + Len(Io!Decimal(ClearAfter + 1)) + 1 < COLS

Init ==
  /\ GpuInit
  /\ main \in Mains /\ phase = IF main = "cgol" THEN "begin" ELSE "fill"
  /\ cx = 0 /\ cy = 0 /\ cur = Io!Home /\ text = << >>
  /\ current = Empty /\ next = Empty /\ iter = 0 /\ picture = 1
  /\ stable = FALSE /\ widest = 0 /\ behind = CHOOSE c \in Behind : TRUE

\* A clock edge.
Edge(access) ==
  /\ Clock(access)
  /\ stable' = IF x = LINE /\ y = SCREEN THEN access.kind = "none" ELSE stable /\ access.kind = "none"

NoAccess == Edge(NoStore) /\ UNCHANGED program

-----------------------------------------------------------------------------
(* Drawing, column by column. *)

NextCell ==
  /\ cy' = (cy + 1) % ROWS
  /\ cx' = IF cy' = 0 THEN (cx + 1) % COLS ELSE cx
LastCell == cx = COLS - 1 /\ cy = ROWS - 1
place == cx + cy * COLS

\* Characters 0 to 3 of the font: which halves are filled.
HalfChar(high, low) == IF high THEN (IF low THEN "both" ELSE "top") ELSE IF low THEN "bottom" ELSE "none"

\* Mutant: the character too many is discounted twice.
InStatus_narrow == cy = ROWS - 1 /\ cx < cur.col - 2

\* The cells of the status line are left alone.
InStatus == cy = ROWS - 1 /\ cx < cur.col - 1

LifeColor(X, Y) ==
  IF get_cell(current, X, Y) THEN White ELSE IF get_cell(next, X, Y) THEN Red ELSE Black

DrawAccess ==
  CASE main = "cgol" ->
         IF InStatus THEN NoStore
         ELSE StoreChar(place, HalfChar(get_cell(current, cx, 2 * cy), get_cell(current, cx, 2 * cy + 1)))
    [] main = "cgol_color" ->
         IF InStatus THEN NoStore
         ELSE StoreColor(place, <<LifeColor(cx, 2 * cy), LifeColor(cx, 2 * cy + 1)>>)
    [] main = "image_show" ->
         StoreColor(place, <<Pictures[picture][2 * cy * COLS + cx], Pictures[picture][(2 * cy + 1) * COLS + cx]>>)

\* The colours' programs first make every character fill its upper half.
Fill ==
  /\ phase = "fill" /\ Edge(StoreChar(place, "top")) /\ NextCell
  /\ phase' = IF ~ LastCell THEN "fill" ELSE IF main = "image_show" THEN "draw" ELSE "begin"
  /\ UNCHANGED <<main, cur, text, current, next, iter, picture, history>>

\* The number's digits and the text before it.
StatusLine == Status \o Io!Decimal(iter)

\* print("Step: "); print_integer(iter)
BeginGeneration ==
  /\ phase = "begin" /\ phase' = "print"
  /\ cur' = [row |-> ROWS - 1, col |-> 0]
  /\ \E c \in Behind : behind' = c /\ text' = Status \o Io!print_integer(iter, c)
  /\ widest' = IF Len(StatusLine) > widest THEN Len(StatusLine) ELSE widest
  /\ Edge(NoStore) /\ UNCHANGED <<main, cx, cy, current, next, iter, picture>>

\* A store in the screen buffer, and before it, in a library for the colour
\* screen, one of white in the colour buffer.
Whiten ==
  /\ phase = "print" /\ text # << >> /\ main = "cgol_color" /\ phase' = "put"
  /\ LET p == Io!printchar(cur, Head(text))
     IN  Edge(IF p.cell = 0 THEN NoStore ELSE StoreColor(p.cell - 1, <<White, Black>>))
  /\ UNCHANGED <<main, cx, cy, cur, text, current, next, iter, picture, history>>

PrintChar ==
  /\ phase = IF main = "cgol_color" THEN "put" ELSE "print"
  /\ text # << >> /\ text' = Tail(text) /\ phase' = "print"
  /\ LET p == Io!printchar(cur, Head(text))
     IN  /\ cur' = p.cur
         /\ Edge(IF p.cell = 0 THEN NoStore ELSE StoreChar(p.cell - 1, Head(text)))
  /\ UNCHANGED <<main, cx, cy, current, next, iter, picture, history>>

Printed ==
  /\ phase = "print" /\ text = << >> /\ phase' = "draw"
  /\ Edge(NoStore) /\ UNCHANGED <<main, cx, cy, cur, text, current, next, iter, picture, history>>

Draw ==
  /\ phase = "draw" /\ Edge(DrawAccess) /\ NextCell
  /\ phase' = IF LastCell THEN "shown" ELSE "draw"
  /\ UNCHANGED <<main, cur, text, current, next, iter, picture, history>>

\* The next generation from the held cells; cgol_color.c starts counting anew.
Compute ==
  /\ phase = "shown" /\ main # "image_show" /\ phase' = "begin"
  /\ next' = HoldCells(current)
  /\ current' = IF iter > ClearAfter THEN Empty ELSE NextMap(next')
  /\ iter' = IF iter <= ClearAfter THEN iter + 1 ELSE IF main = "cgol_color" THEN 1 ELSE iter
  /\ Edge(NoStore) /\ UNCHANGED <<main, cx, cy, cur, text, picture, history>>

NextPicture ==
  /\ phase = "shown" /\ main = "image_show" /\ phase' = "draw"
  /\ picture' = (picture % Len(Pictures)) + 1
  /\ Edge(NoStore) /\ UNCHANGED <<main, cx, cy, cur, text, current, next, iter, history>>

Program ==
  Fill \/ BeginGeneration \/ Whiten \/ PrintChar \/ Printed \/ Draw \/ Compute \/ NextPicture
Next == NoAccess \/ Program

Spec == Init /\ [][Next]_vars

-----------------------------------------------------------------------------
(* Properties. *)

\* A frame in which nothing is stored shows every pixel of every cell from the
\* cell's character and colours, at the ends of words, lines and of the screen
\* too (color_textmode_gpu.sv:161).
FrameIsScreen ==
  stable /\ ~ blanking =>
    LET i == (y \div FONT_H) * COLS + x \div FONT_W
    IN  pixel = colorbuffer[i][IF Glyph(screenbuffer[i], y % FONT_H, x % FONT_W) THEN 1 ELSE 2]

\* What the half cell should look like once it is drawn.
Expected(X, Y) ==
  CASE main = "cgol" -> IF get_cell(current, X, Y) THEN InitialColor[1] ELSE InitialColor[2]
    [] main = "cgol_color" -> LifeColor(X, Y)
    [] main = "image_show" -> Pictures[picture][Y * COLS + X]

\* The next frame shows the generation or the image and, in the last line, the
\* text and the number, although print_integer prints a character too many
\* over a cell (soc_io.c:59, cgol.c:72).  Two things may go wrong: if that
\* character ends the line, the status is drawn over, and cgol_color.c does not
\* give the cell under it its half-filled character back, nor, when it counts
\* anew, the cells of the longer numbers.
ShowsGeneration ==
  stable /\ phase = "shown" /\ ~ blanking =>
    LET X == x \div FONT_W
        Y == (2 * y) \div FONT_H
        right == IF main = "cgol" THEN Len(StatusLine) ELSE widest + 1
        ink == IF main = "cgol" THEN InitialColor ELSE <<White, Black>>
    IN  IF main = "image_show" \/ Y \div 2 # ROWS - 1 \/ X >= right THEN pixel = Expected(X, Y)
        ELSE X < Len(StatusLine) /\ behind \notin {"\r", "\n"} =>
               pixel = ink[IF Glyph(StatusLine[X + 1], y % FONT_H, x % FONT_W) THEN 1 ELSE 2]

==============================================================================

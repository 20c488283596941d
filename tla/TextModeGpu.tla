----------------------------- MODULE TextModeGpu -----------------------------
(* The text mode video controller of the UPduino SoC,                         *)
(* src/rtl/graphics/rtl/color_textmode_gpu.sv: it walks over the pixels of    *)
(* the screen, fetches the characters four at a time, one word ahead, and     *)
(* shows each in the two colours of its cell.  A step is an edge of the pixel *)
(* clock, which is the processor's clock too (soc_upduino.sv:72); access is   *)
(* what the bus does in that cycle.                                           *)
EXTENDS Integers

CONSTANTS
  COLS, ROWS, FONT_W, FONT_H,
  LINE, SCREEN, VS_STA, VS_END,  \* last pixel and line, lines of the sync pulse
  Char, Undefined,               \* contents of a character, and of no word
  ColorPair,                     \* contents of a colour: <<foreground, background>>
  InitialColor,
  Glyph(_, _, _)                 \* the font ROM: character, row, column

SCREEN_W == COLS * FONT_W
SCREEN_H == ROWS * FONT_H
SB_NWORDS == (COLS * ROWS) \div 4
Cell == 0 .. COLS * ROWS - 1

ASSUME ScreenAssumption ==
  /\ {COLS, ROWS, FONT_W, FONT_H} \subseteq Nat \ {0} /\ {LINE, SCREEN, VS_STA} \subseteq Nat
  /\ COLS % 4 = 0 /\ LINE >= SCREEN_W /\ VS_STA >= SCREEN_H /\ VS_END \in VS_STA + 1 .. SCREEN
  /\ Undefined \notin Char

VARIABLES x, y, screenbuffer_index, char_reg, screenbuffer, colorbuffer

gpu == <<x, y, screenbuffer_index, char_reg, screenbuffer, colorbuffer>>

NoStore == [kind |-> "none"]
StoreChar(i, c) == [kind |-> "char", index |-> i, value |-> c]
StoreColor(i, c) == [kind |-> "color", index |-> i, value |-> c]

UndefinedWord == [b \in 0 .. 3 |-> Undefined]

\* After a reset; what is on the screen is left from before it.
GpuInit ==
  /\ x = 0 /\ y = 0 /\ screenbuffer_index = 0 /\ char_reg = UndefinedWord
  /\ screenbuffer = [i \in Cell |-> Undefined] /\ colorbuffer = [i \in Cell |-> InitialColor]

vsync == ~ (VS_STA <= y /\ y < VS_END)
blanking == ~ (x < SCREEN_W /\ y < SCREEN_H)

Position ==
  /\ x' = IF x = LINE THEN 0 ELSE x + 1
  /\ y' = IF x = LINE THEN (IF y = SCREEN THEN 0 ELSE y + 1) ELSE y

\* On to the next cell, and at the end of a line back to the first one, unless
\* it was the last line of the characters.
NextIndex ==
  IF ~ vsync THEN 0
  ELSE IF blanking THEN screenbuffer_index
  ELSE IF x = SCREEN_W - 1 /\ y % FONT_H # FONT_H - 1 THEN screenbuffer_index - (COLS - 1)
  ELSE IF x % FONT_W = FONT_W - 1 THEN screenbuffer_index + 1
  ELSE screenbuffer_index

Word(i) == IF i < SB_NWORDS THEN [b \in 0 .. 3 |-> screenbuffer[4 * i + b]] ELSE UndefinedWord

\* Mutant: the end of a line fetches one word ahead as well.
Prefetch_ahead ==
  IF x = LINE \/ x % (4 * FONT_W) = 4 * FONT_W - 1 THEN Word(screenbuffer_index \div 4 + 1)
  ELSE char_reg

\* The last pixel of a word fetches the next one; the end of a line the word
\* its next line begins with.
Prefetch ==
  IF x = LINE THEN Word(screenbuffer_index \div 4)
  ELSE IF x % (4 * FONT_W) = 4 * FONT_W - 1 THEN Word(screenbuffer_index \div 4 + 1)
  ELSE char_reg

Clock(access) ==
  /\ Position
  /\ screenbuffer_index' = NextIndex /\ char_reg' = Prefetch
  /\ screenbuffer' = IF access.kind = "char" THEN [screenbuffer EXCEPT ![access.index] = access.value]
                                             ELSE screenbuffer
  /\ colorbuffer' = IF access.kind = "color" THEN [colorbuffer EXCEPT ![access.index] = access.value]
                                             ELSE colorbuffer

\* red, green and blue while not blanking.
current_char == char_reg[screenbuffer_index % 4]
video == Glyph(current_char, y % FONT_H, x % FONT_W)
pixel == LET color == colorbuffer[screenbuffer_index] IN IF video THEN color[1] ELSE color[2]

==============================================================================

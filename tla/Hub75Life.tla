------------------------------ MODULE Hub75Life ------------------------------
(* The double-buffered demonstration program                                  *)
(* src/software/programs/test_embedded/ecp5_cgol.c on the LED matrix driver:  *)
(* it draws a generation into the buffer that is not displayed, selects it,   *)
(* waits for the end of a frame, clears the flag and computes the next one.   *)
(* Between two of its bus accesses any number of clock edges may pass.        *)
EXTENDS Hub75Driver, Life

CONSTANTS Bright,     \* the colour of a living cell, 64
          ClearAfter  \* 10000 iterations

ASSUME ProgramAssumption ==
  /\ CELL_COLS = PANEL_ROWS /\ CELL_ROWS = PANEL_COLS /\ ClearAfter \in Nat
  /\ Bright \in Color /\ Bright <= PWM_STEPS /\ Black <= PWM_STEPS   \* 64 and 0 of 128

VARIABLES
  phase,       \* where main() is
  x, y,        \* the pixel it draws next
  visible_buf,
  current,
  iter,        \* counted up to ClearAfter + 1
  images,      \* history: the generations selected last but one and last
  swaps,       \* history: selections since the frame began, counted up to 3
  lit          \* history: screens of the frame in which each pixel was lit

program == <<phase, x, y, visible_buf, current, iter>>
history == <<images, swaps, lit>>
vars == <<driver, program, history>>

ColorOf(map, r, c) == IF get_cell(map, r, c) THEN Bright ELSE Black
Pixels == (0 .. PANEL_ROWS - 1) \X (0 .. PANEL_COLS - 1)

Init ==
  /\ DriverInit
  /\ phase = "draw" /\ x = 0 /\ y = 0 /\ visible_buf = 0 /\ current = Empty /\ iter = 0
  /\ images = <<Empty, Empty>> /\ swaps = 0 /\ lit = [p \in Pixels |-> 0]

\* lit after the two pixels shifted out in this cycle.
On(p) == \/ p = <<row_2, col>> /\ pix_low > pwm_step
         \/ p = <<row_2 + ROWS_2, col>> /\ pix_high > pwm_step
LitNow == [p \in Pixels |-> lit[p] + (IF h_state = "SHIFT" /\ On(p) THEN 1 ELSE 0)]

\* A clock edge with the given access; selected says whether it swaps buffers.
Edge(access, selected) ==
  /\ Clock(access)
  /\ images' = IF selected THEN <<images[2], current>> ELSE images
  /\ swaps' = IF EndOfFrame THEN 0 ELSE IF selected /\ swaps < 3 THEN swaps + 1 ELSE swaps
  /\ lit' = IF EndOfFrame THEN [p \in Pixels |-> 0] ELSE LitNow

NoAccess == Edge(Idle, FALSE) /\ UNCHANGED program

pixel_index(px, py, buf) == px * PANEL_COLS + py + BUFFER_SIZE * buf

\* Mutant: draws into the buffer on display.
DrawPixel_visible ==
  /\ phase = "draw"
  /\ Edge(WritePixel(pixel_index(x, y, visible_buf), ColorOf(current, x, y)), FALSE)
  /\ y' = (y + 1) % CELL_ROWS
  /\ x' = IF y' = 0 THEN (x + 1) % CELL_COLS ELSE x
  /\ phase' = IF x' = 0 /\ y' = 0 THEN "select" ELSE "draw"
  /\ UNCHANGED <<visible_buf, current, iter>>

DrawPixel ==
  /\ phase = "draw"
  /\ Edge(WritePixel(pixel_index(x, y, 1 - visible_buf), ColorOf(current, x, y)), FALSE)
  /\ y' = (y + 1) % CELL_ROWS
  /\ x' = IF y' = 0 THEN (x + 1) % CELL_COLS ELSE x
  /\ phase' = IF x' = 0 /\ y' = 0 THEN "select" ELSE "draw"
  /\ UNCHANGED <<visible_buf, current, iter>>

SwapBuffers ==
  /\ phase = "select" /\ phase' = "poll"
  /\ visible_buf' = 1 - visible_buf
  /\ Edge(WriteControl(visible_buf'), TRUE)
  /\ UNCHANGED <<x, y, current, iter>>

\* hub75_get_vsync_flag: the load, and the branch on what it returned.
PollVsync ==
  /\ phase = "poll" /\ phase' = "test"
  /\ Edge(ReadVsync, FALSE)
  /\ UNCHANGED <<x, y, visible_buf, current, iter>>

TestVsync ==
  /\ phase = "test" /\ phase' = IF rdata THEN "clear" ELSE "poll"
  /\ Edge(Idle, FALSE)
  /\ UNCHANGED <<x, y, visible_buf, current, iter>>

ClearFlag ==
  /\ phase = "clear" /\ phase' = "compute"
  /\ Edge(ClearVsync, FALSE)
  /\ UNCHANGED <<x, y, visible_buf, current, iter>>

Compute ==
  /\ phase = "compute" /\ phase' = "draw"
  /\ current' = IF iter > ClearAfter THEN Empty ELSE NextMap(HoldCells(current))
  /\ iter' = IF iter > ClearAfter THEN iter ELSE iter + 1
  /\ Edge(Idle, FALSE)
  /\ UNCHANGED <<x, y, visible_buf>>

Program == DrawPixel \/ SwapBuffers \/ PollVsync \/ TestVsync \/ ClearFlag \/ Compute
Next == NoAccess \/ Program

\* The clock runs, and the processor goes on.
Spec == Init /\ [][Next]_vars /\ WF_vars(Next) /\ WF_vars(Program)

-----------------------------------------------------------------------------
(* Properties. *)

\* Although the buffer is swapped in the middle of a frame
\* (hub75_driver.sv:45), a pixel on its way to the panel is always that of a
\* generation drawn to the end, the selected one or the one before.
ShowsFinishedDrawings ==
  h_state = "SHIFT" =>
    /\ \E i \in 1 .. 2 : pix_low = ColorOf(images[i], row_2, col)
    /\ \E i \in 1 .. 2 : pix_high = ColorOf(images[i], row_2 + ROWS_2, col)

\* A frame without a swap is the selected generation, every pixel lit in as
\* many screens of the frame as its colour says (hub75_driver.sv:163).
FrameIsGeneration ==
  EndOfFrame /\ swaps = 0 =>
    \A p \in Pixels : LitNow[p] = ColorOf(images[2], p[1], p[2])

\* The vsync flag (hub75_driver.sv:197, ecp5_cgol.c:92): it may be left from
\* an earlier frame and let one swap through, never a second one in the same
\* frame, although its clear arrives late and may meet the end of a frame.
AtMostTwoSwaps == swaps <= 2

\* No end of frame is lost: the program always comes to show the next generation.
KeepsShowing == []<>(phase = "select")

\* One step of main() is one step of the rule from the held cells, and nothing
\* but them is left once the demonstration is over (ecp5_cgol.c:97).
FollowsRule ==
  [][current' # current =>
       \/ iter <= ClearAfter /\ Alive(current') = Rule(Alive(current) \cup Held)
       \/ iter > ClearAfter /\ Alive(current') = {}]_vars
==============================================================================

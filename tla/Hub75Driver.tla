----------------------------- MODULE Hub75Driver -----------------------------
(* The LED matrix driver, src/rtl/fpga/hub75_driver.sv: two frame buffers     *)
(* written over the bus, the raster that reads one of them, and the flag that *)
(* says a frame has ended.  A step is an edge of the clock, which in soc_ecp5 *)
(* drives both sides; access is what the bus does in that cycle.              *)
EXTENDS Naturals, Integers

CONSTANTS PANEL_ROWS, PANEL_COLS, PWM_STEPS,
          Color, Black

ASSUME PanelAssumption ==
  /\ PANEL_COLS \in Nat \ {0} /\ PWM_STEPS \in Nat \ {0}
  /\ PANEL_ROWS \in Nat \ {0} /\ PANEL_ROWS % 2 = 0   \* two halves, scanned together
  /\ Black \in Color /\ Color \subseteq Nat
ROWS_2 == PANEL_ROWS \div 2
BUFFER_SIZE == PANEL_ROWS * PANEL_COLS

VARIABLES
  buffer,           \* both frame buffers
  control,          \* bit 0 selects the displayed one
  rdata,            \* the flag as the bus last read it
  vsync_clear_clk, vsync_sync, vsync_flag,
  h_state, row_2, col, pwm_step,
  buffer_read, had_pl, pix_low_reg

raster == <<h_state, row_2, col, pwm_step>>
driver == <<buffer, control, rdata, vsync_clear_clk, vsync_sync, vsync_flag, raster,
            buffer_read, had_pl, pix_low_reg>>

Idle == [kind |-> "idle"]
WritePixel(i, c) == [kind |-> "pixel", index |-> i, color |-> c]
WriteControl(n) == [kind |-> "control", value |-> n]
ClearVsync == [kind |-> "clear"]
ReadVsync == [kind |-> "read"]

DriverInit ==
  /\ buffer = [i \in 0 .. 2 * BUFFER_SIZE - 1 |-> Black] /\ control = 0 /\ rdata = FALSE
  /\ vsync_clear_clk = FALSE /\ vsync_sync = <<FALSE, FALSE>> /\ vsync_flag = FALSE
  /\ h_state = "RL" /\ row_2 = 0 /\ col = 0 /\ pwm_step = 0
  /\ buffer_read = Black /\ had_pl = FALSE /\ pix_low_reg = Black

buffer_select == control % 2
LastPixel == h_state = "SHIFT" /\ col = PANEL_COLS - 1
EndOfScreen == LastPixel /\ row_2 = ROWS_2 - 1
EndOfFrame == EndOfScreen /\ pwm_step = PWM_STEPS - 1

\* Mutant: the halves of the panel exchanged.
buffer_read_addr_low ==
  buffer_select * BUFFER_SIZE + (IF h_state = "RL" THEN ROWS_2 * PANEL_COLS ELSE 0)
    + row_2 * PANEL_COLS + col

\* {buffer_select, h_state == RH, row_2, col}
buffer_read_addr ==
  buffer_select * BUFFER_SIZE + (IF h_state = "RH" THEN ROWS_2 * PANEL_COLS ELSE 0)
    + row_2 * PANEL_COLS + col

\* The pixels on R0..B0 and R1..B1 while the panel's clock is high.
pix_low == IF had_pl THEN buffer_read ELSE pix_low_reg
pix_high == buffer_read

BusClock(access) ==
  /\ buffer' = IF access.kind = "pixel" THEN [buffer EXCEPT ![access.index] = access.color] ELSE buffer
  /\ control' = IF access.kind = "control" THEN access.value ELSE control
  /\ vsync_clear_clk' = (access.kind = "clear")
  /\ rdata' = IF access.kind \in {"control", "clear", "read"} THEN vsync_flag ELSE rdata

\* Mutant: the flag is never cleared.
FlagClock_lost ==
  /\ vsync_sync' = <<vsync_clear_clk, vsync_sync[1]>>
  /\ vsync_flag' = (EndOfFrame \/ vsync_flag)
\* Mutant: the flag is not held.
FlagClock_pulse ==
  /\ vsync_sync' = <<vsync_clear_clk, vsync_sync[1]>>
  /\ vsync_flag' = EndOfFrame

\* The clear arrives through two registers; the end of a frame wins over it.
FlagClock ==
  /\ vsync_sync' = <<vsync_clear_clk, vsync_sync[1]>>
  /\ vsync_flag' = (EndOfFrame \/ (vsync_flag /\ ~ vsync_sync[2]))

RasterClock ==
  /\ h_state' = CASE h_state = "RL" -> "RH" [] h_state = "RH" -> "SHIFT" [] OTHER -> "RL"
  /\ col' = IF LastPixel THEN 0 ELSE IF h_state = "SHIFT" THEN col + 1 ELSE col
  /\ row_2' = IF EndOfScreen THEN 0 ELSE IF LastPixel THEN row_2 + 1 ELSE row_2
  /\ pwm_step' = IF EndOfFrame THEN 0 ELSE IF EndOfScreen THEN pwm_step + 1 ELSE pwm_step
  /\ buffer_read' = buffer[buffer_read_addr]
  /\ had_pl' = (h_state = "RL")
  /\ pix_low_reg' = IF had_pl THEN buffer_read ELSE pix_low_reg

Clock(access) == BusClock(access) /\ FlagClock /\ RasterClock

==============================================================================

---------------------------- MODULE SpiController ----------------------------
(* The SPI controller, src/rtl/fpga/spi.sv.  A step is an edge of clk; access *)
(* is what the bus does in that cycle.                                        *)
EXTENDS Integers

CONSTANT BITS  \* of a transfer: 8
ASSUME BitsAssumption == BITS \in 1 .. 15

VARIABLES
  control, dataout, datain,
  clock_spi, clk_counter, txstart_prev,
  spi_state, bits_remaining, spi_clock_gate, shift_in, shift_out, prev_clock_spi

registers == <<control, dataout, datain>>
clockgen == <<clock_spi, clk_counter, txstart_prev>>
transaction == <<spi_state, bits_remaining, spi_clock_gate, shift_in, shift_out, prev_clock_spi>>
controller == <<registers, clockgen, transaction>>

Full == 2 ^ BITS
Idle == [kind |-> "idle"]
WriteControl(n) == [kind |-> "control", value |-> n]
WriteData(n) == [kind |-> "data", value |-> n]

\* Control decoding.
tx_start == control % 2 = 1
hw_cs_n == (control \div 2) % 2 = 1
clkdivider == control \div 4
spi_finished == spi_state = "DONE"

\* Pins; the device is selected while cs is low.
sclk == clock_spi /\ spi_clock_gate
data_tx == shift_out \div (Full \div 2)
cs == ~ hw_cs_n

clock_spi_posedge == clock_spi /\ ~ prev_clock_spi
clock_spi_negedge == ~ clock_spi /\ prev_clock_spi

ControllerInit ==
  /\ control = 0 /\ dataout = 0 /\ datain = 0
  /\ clock_spi = FALSE /\ clk_counter = 0 /\ txstart_prev = FALSE
  /\ spi_state = "IDLE" /\ bits_remaining = 0 /\ spi_clock_gate = FALSE
  /\ shift_in = 0 /\ shift_out = 0 /\ prev_clock_spi = FALSE

BusClock(access) ==
  /\ control' = IF access.kind = "control" THEN access.value ELSE control
  /\ dataout' = IF access.kind = "data" THEN access.value ELSE dataout

\* Mutant: a half period is one edge too long.
ClockGen_slow ==
  LET over == clk_counter > clkdivider
      start == tx_start /\ ~ txstart_prev
  IN
  /\ txstart_prev' = tx_start
  /\ clk_counter' = IF start THEN clkdivider ELSE IF over THEN 0 ELSE clk_counter + 1
  /\ clock_spi' = IF start THEN TRUE ELSE IF over THEN ~ clock_spi ELSE clock_spi

\* A rising tx_start restarts the clock with a high phase at its end.
ClockGen ==
  LET over == clk_counter >= clkdivider
      start == tx_start /\ ~ txstart_prev
  IN
  /\ txstart_prev' = tx_start
  /\ clk_counter' = IF start THEN clkdivider ELSE IF over THEN 0 ELSE clk_counter + 1
  /\ clock_spi' = IF start THEN TRUE ELSE IF over THEN ~ clock_spi ELSE clock_spi

Rest ==
  /\ spi_state = "IDLE"
  /\ IF clock_spi_negedge /\ tx_start
     THEN /\ spi_state' = "TRANSCEIVING" /\ spi_clock_gate' = TRUE
          /\ bits_remaining' = BITS /\ shift_out' = dataout /\ shift_in' = 0
     ELSE spi_clock_gate' = FALSE /\ UNCHANGED <<spi_state, bits_remaining, shift_out, shift_in>>
  /\ UNCHANGED datain

\* Mutant: the last bit is not waited for.
Transceive_short(data_rx) ==
  /\ spi_state = "TRANSCEIVING"
  /\ IF bits_remaining = 1 /\ clock_spi_negedge
     THEN /\ spi_state' = "DONE" /\ spi_clock_gate' = FALSE
          /\ shift_out' = 0 /\ datain' = shift_in /\ UNCHANGED <<bits_remaining, shift_in>>
     ELSE /\ shift_out' = IF clock_spi_negedge THEN (shift_out * 2) % Full ELSE shift_out
          /\ shift_in' = IF clock_spi_posedge THEN (shift_in * 2 + data_rx) % Full ELSE shift_in
          /\ bits_remaining' = IF clock_spi_posedge THEN (bits_remaining - 1) % 16 ELSE bits_remaining
          /\ UNCHANGED <<spi_state, spi_clock_gate, datain>>

\* Mutant: the end is missed.
Transceive_over(data_rx) ==
  /\ spi_state = "TRANSCEIVING"
  /\ IF bits_remaining = 15 /\ clock_spi_negedge
     THEN /\ spi_state' = "DONE" /\ spi_clock_gate' = FALSE
          /\ shift_out' = 0 /\ datain' = shift_in /\ UNCHANGED <<bits_remaining, shift_in>>
     ELSE /\ shift_out' = IF clock_spi_negedge THEN (shift_out * 2) % Full ELSE shift_out
          /\ shift_in' = IF clock_spi_posedge THEN (shift_in * 2 + data_rx) % Full ELSE shift_in
          /\ bits_remaining' = IF clock_spi_posedge THEN (bits_remaining - 1) % 16 ELSE bits_remaining
          /\ UNCHANGED <<spi_state, spi_clock_gate, datain>>

\* Out on the falling edge, in on the rising one, the highest bit first.
Transceive(data_rx) ==
  /\ spi_state = "TRANSCEIVING"
  /\ IF bits_remaining = 0 /\ clock_spi_negedge
     THEN /\ spi_state' = "DONE" /\ spi_clock_gate' = FALSE
          /\ shift_out' = 0 /\ datain' = shift_in /\ UNCHANGED <<bits_remaining, shift_in>>
     ELSE /\ shift_out' = IF clock_spi_negedge THEN (shift_out * 2) % Full ELSE shift_out
          /\ shift_in' = IF clock_spi_posedge THEN (shift_in * 2 + data_rx) % Full ELSE shift_in
          /\ bits_remaining' = IF clock_spi_posedge THEN (bits_remaining - 1) % 16 ELSE bits_remaining
          /\ UNCHANGED <<spi_state, spi_clock_gate, datain>>

Finish ==
  /\ spi_state = "DONE"
  /\ spi_state' = IF tx_start THEN "DONE" ELSE "IDLE"
  /\ UNCHANGED <<datain, bits_remaining, spi_clock_gate, shift_in, shift_out>>

Clock(access, data_rx) ==
  /\ BusClock(access) /\ ClockGen
  /\ Rest \/ Transceive(data_rx) \/ Finish
  /\ prev_clock_spi' = clock_spi

\* What a bus and a device may do in a cycle.
BusAccess == {Idle} \cup {WriteControl(n) : n \in Nat} \cup {WriteData(n) : n \in 0 .. Full - 1}
ControllerNext == \E access \in BusAccess, data_rx \in 0 .. 1 : Clock(access, data_rx)
ControllerSpec == ControllerInit /\ [][ControllerNext]_controller

\* No register leaves its width: a transfer is over before the count of its
\* bits, at zero, could be decremented once more (spi.sv:149).
ControllerTypeOK ==
  /\ control \in Nat /\ {dataout, datain, shift_in, shift_out} \subseteq 0 .. Full - 1
  /\ {clock_spi, txstart_prev, spi_clock_gate, prev_clock_spi} \subseteq BOOLEAN
  /\ clk_counter \in Nat /\ bits_remaining \in 0 .. BITS
  /\ spi_state \in {"IDLE", "TRANSCEIVING", "DONE"}
==============================================================================

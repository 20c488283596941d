------------------------- MODULE SpiControllerProofs -------------------------
(* The SPI controller, and the programs of Bootloader over it.                *)
(*                                                                            *)
(* Under any driver and any device, whatever the bus writes, and whenever, the *)
(* bit counter never wraps and sclk rests between transfers.  Under the       *)
(* programs that read the flash, whatever the image and the time between the  *)
(* accesses: a transfer is started only at rest, every byte received is the   *)
(* one that the flash sent, and the copy in memory is the image.              *)
EXTENDS Bootloader, TLAPS

\* The clock reaches the pin in a transfer only, so that a driver may move cs
\* and the divider between transfers without clocking the device.
GateInTransfer == spi_clock_gate <=> spi_state = "TRANSCEIVING"

\* With no bit left clk has seen the high phase of the clock: the next edge
\* of spi_clk is the falling one that ends the transfer.
LastPhase == spi_state = "TRANSCEIVING" /\ bits_remaining = 0 => prev_clock_spi

ControllerInv == ControllerTypeOK /\ GateInTransfer /\ LastPhase

-----------------------------------------------------------------------------
(* A shift register has at least two values.                                 *)
LEMMA FullType == Full \in Nat \ {0, 1}
<1>1. CASE BITS = 1
  <2>1. 2 ^ 1 = 2  OBVIOUS
  <2>2. QED  BY <1>1, <2>1 DEF Full
<1>2. CASE BITS = 2
  <2>1. 2 ^ 2 = 4  OBVIOUS
  <2>2. QED  BY <1>2, <2>1 DEF Full
<1>3. CASE BITS = 3
  <2>1. 2 ^ 3 = 8  OBVIOUS
  <2>2. QED  BY <1>3, <2>1 DEF Full
<1>4. CASE BITS = 4
  <2>1. 2 ^ 4 = 16  OBVIOUS
  <2>2. QED  BY <1>4, <2>1 DEF Full
<1>5. CASE BITS = 5
  <2>1. 2 ^ 5 = 32  OBVIOUS
  <2>2. QED  BY <1>5, <2>1 DEF Full
<1>6. CASE BITS = 6
  <2>1. 2 ^ 6 = 64  OBVIOUS
  <2>2. QED  BY <1>6, <2>1 DEF Full
<1>7. CASE BITS = 7
  <2>1. 2 ^ 7 = 128  OBVIOUS
  <2>2. QED  BY <1>7, <2>1 DEF Full
<1>8. CASE BITS = 8
  <2>1. 2 ^ 8 = 256  OBVIOUS
  <2>2. QED  BY <1>8, <2>1 DEF Full
<1>9. CASE BITS = 9
  <2>1. 2 ^ 9 = 512  OBVIOUS
  <2>2. QED  BY <1>9, <2>1 DEF Full
<1>10. CASE BITS = 10
  <2>1. 2 ^ 10 = 1024  OBVIOUS
  <2>2. QED  BY <1>10, <2>1 DEF Full
<1>11. CASE BITS = 11
  <2>1. 2 ^ 11 = 2048  OBVIOUS
  <2>2. QED  BY <1>11, <2>1 DEF Full
<1>12. CASE BITS = 12
  <2>1. 2 ^ 12 = 4096  OBVIOUS
  <2>2. QED  BY <1>12, <2>1 DEF Full
<1>13. CASE BITS = 13
  <2>1. 2 ^ 13 = 8192  OBVIOUS
  <2>2. QED  BY <1>13, <2>1 DEF Full
<1>14. CASE BITS = 14
  <2>1. 2 ^ 14 = 16384  OBVIOUS
  <2>2. QED  BY <1>14, <2>1 DEF Full
<1>15. CASE BITS = 15
  <2>1. 2 ^ 15 = 32768  OBVIOUS
  <2>2. QED  BY <1>15, <2>1 DEF Full
<1>16. QED  BY <1>1, <1>2, <1>3, <1>4, <1>5, <1>6, <1>7, <1>8, <1>9, <1>10, <1>11, <1>12, <1>13, <1>14, <1>15,
             BitsAssumption

(* What is cut to the width of a register fits in it.                        *)
LEMMA Remainders == \A a \in Nat : a % Full \in 0 .. Full - 1
BY FullType

(* So does a register after a shift.                                         *)
LEMMA Shifted ==
  ASSUME NEW w \in 0 .. Full - 1, NEW b \in 0 .. 1
  PROVE  (w * 2 + b) % Full \in 0 .. Full - 1 /\ (w * 2) % Full \in 0 .. Full - 1
<1>1. w * 2 + b \in Nat /\ w * 2 \in Nat  BY FullType
<1>2. QED  BY <1>1, Remainders

(* The invariant holds at the start.                                         *)
LEMMA InitInv == ControllerInit => ControllerInv
<1>1. 0 \in 0 .. Full - 1  BY FullType
<1>2. 0 \in 0 .. BITS  BY BitsAssumption
<1>3. ASSUME ControllerInit PROVE ControllerTypeOK
  BY <1>1, <1>2, <1>3 DEF ControllerInit, ControllerTypeOK
<1>4. ControllerInit => GateInTransfer /\ LastPhase
  BY DEF ControllerInit, GateInTransfer, LastPhase
<1>5. QED  BY <1>3, <1>4 DEF ControllerInv

-----------------------------------------------------------------------------
(* An access keeps the types of the registers it writes.                     *)
LEMMA BusTypes ==
  ASSUME ControllerTypeOK, NEW access \in BusAccess, BusClock(access)
  PROVE  control' \in Nat /\ dataout' \in 0 .. Full - 1
<1>1. CASE access = Idle
  BY <1>1 DEF BusClock, Idle, ControllerTypeOK
<1>2. CASE \E n \in Nat : access = WriteControl(n)
  BY <1>2 DEF BusClock, WriteControl, ControllerTypeOK
<1>3. CASE \E n \in 0 .. Full - 1 : access = WriteData(n)
  BY <1>3 DEF BusClock, WriteData, ControllerTypeOK
<1>4. QED  BY <1>1, <1>2, <1>3 DEF BusAccess

(* The clock generator keeps the types of its own.                           *)
LEMMA ClockTypes ==
  ASSUME ControllerTypeOK, ClockGen
  PROVE  clock_spi' \in BOOLEAN /\ clk_counter' \in Nat /\ txstart_prev' \in BOOLEAN
<1>1. clkdivider \in Nat  BY DEF ControllerTypeOK, clkdivider
<1>2. clk_counter \in Nat /\ clock_spi \in BOOLEAN  BY DEF ControllerTypeOK
<1>3. clk_counter' \in {clkdivider, 0, clk_counter + 1}  BY DEF ClockGen
<1>4. clk_counter' \in Nat  BY <1>1, <1>2, <1>3
<1>5. clock_spi' \in {TRUE, ~ clock_spi, clock_spi}  BY Zenon DEF ClockGen
<1>6. txstart_prev' = tx_start  BY Zenon DEF ClockGen
<1>7. tx_start \in BOOLEAN  BY Zenon DEF tx_start
<1>8. QED  BY <1>2, <1>4, <1>5, <1>6, <1>7

\* What the transaction leaves in its registers.
TransactionOK ==
  /\ {datain, shift_in, shift_out} \subseteq 0 .. Full - 1
  /\ bits_remaining \in 0 .. BITS
  /\ spi_state \in {"IDLE", "TRANSCEIVING", "DONE"}
  /\ spi_clock_gate \in BOOLEAN

(* At rest: a start loads the count and opens the gate.                      *)
LEMMA RestKeeps ==
  ASSUME ControllerInv, Rest, prev_clock_spi' = clock_spi
  PROVE  TransactionOK' /\ GateInTransfer' /\ LastPhase'
<1>1. BITS \in Nat \ {0}  BY BitsAssumption
<1> USE DEF ControllerInv, ControllerTypeOK, GateInTransfer, LastPhase, TransactionOK, Rest
<1>2. CASE clock_spi_negedge /\ tx_start
  BY <1>1, <1>2, FullType
<1>3. CASE ~ (clock_spi_negedge /\ tx_start)
  BY <1>3
<1>4. QED  BY <1>2, <1>3

(* In a transfer: the count falls with rising edges and ends it on a falling one. *)
LEMMA TransceiveKeeps ==
  ASSUME ControllerInv, NEW data_rx \in 0 .. 1, Transceive(data_rx), prev_clock_spi' = clock_spi
  PROVE  TransactionOK' /\ GateInTransfer' /\ LastPhase'
<1> USE DEF ControllerInv, ControllerTypeOK, GateInTransfer, LastPhase
<1>1. CASE bits_remaining = 0 /\ clock_spi_negedge
  <2>1. /\ spi_state' = "DONE" /\ spi_clock_gate' = FALSE /\ shift_out' = 0 /\ datain' = shift_in
        /\ UNCHANGED <<bits_remaining, shift_in>>
    BY <1>1 DEF Transceive
  <2>2. 0 \in 0 .. Full - 1  BY FullType
  <2>3. QED  BY <2>1, <2>2 DEF TransactionOK
<1>2. CASE ~ (bits_remaining = 0 /\ clock_spi_negedge)
  <2>1. /\ shift_out' = IF clock_spi_negedge THEN (shift_out * 2) % Full ELSE shift_out
        /\ shift_in' = IF clock_spi_posedge THEN (shift_in * 2 + data_rx) % Full ELSE shift_in
        /\ bits_remaining' = IF clock_spi_posedge THEN (bits_remaining - 1) % 16 ELSE bits_remaining
        /\ spi_state = "TRANSCEIVING"
        /\ UNCHANGED <<spi_state, spi_clock_gate, datain>>
    BY <1>2 DEF Transceive
  <2>2. {datain, shift_in, shift_out}' \subseteq 0 .. Full - 1
    BY <2>1, Shifted
  <2>3. clock_spi_posedge => bits_remaining \in 1 .. BITS
    BY <2>1 DEF clock_spi_posedge
  <2>4. bits_remaining' \in 0 .. BITS
    BY <2>1, <2>3, BitsAssumption
  <2>5. LastPhase'
    <3>1. SUFFICES ASSUME bits_remaining' = 0 PROVE clock_spi
      OBVIOUS
    <3>2. CASE clock_spi_posedge
      BY <3>2 DEF clock_spi_posedge
    <3>3. CASE ~ clock_spi_posedge
      BY <3>1, <3>3, <2>1, <1>2 DEF clock_spi_negedge
    <3>4. QED  BY <3>2, <3>3
  <2>6. QED  BY <2>1, <2>2, <2>4, <2>5 DEF TransactionOK
<1>3. QED  BY <1>1, <1>2

(* After a transfer the gate is closed.                                      *)
LEMMA FinishKeeps ==
  ASSUME ControllerInv, Finish
  PROVE  TransactionOK' /\ GateInTransfer' /\ LastPhase'
BY DEF ControllerInv, ControllerTypeOK, GateInTransfer, LastPhase, TransactionOK, Finish

(* Every step keeps the invariant.                                           *)
LEMMA StepInv == ControllerInv /\ [ControllerNext]_controller => ControllerInv'
<1>1. CASE UNCHANGED controller
  BY <1>1 DEF ControllerInv, ControllerTypeOK, GateInTransfer, LastPhase,
              controller, registers, clockgen, transaction
<1>2. ASSUME ControllerInv, NEW access \in BusAccess, NEW data_rx \in 0 .. 1, Clock(access, data_rx)
      PROVE  ControllerInv'
  <2>1. BusClock(access) /\ ClockGen /\ prev_clock_spi' = clock_spi
    BY <1>2 DEF Clock
  <2>2. TransactionOK' /\ GateInTransfer' /\ LastPhase'
    BY <1>2, <2>1, RestKeeps, TransceiveKeeps, FinishKeeps DEF Clock
  <2>3. control' \in Nat /\ dataout' \in 0 .. Full - 1
    BY <1>2, <2>1, BusTypes DEF ControllerInv
  <2>4. clock_spi' \in BOOLEAN /\ clk_counter' \in Nat /\ txstart_prev' \in BOOLEAN
    BY <1>2, <2>1, ClockTypes DEF ControllerInv
  <2>5. prev_clock_spi' \in BOOLEAN
    BY <1>2, <2>1 DEF ControllerInv, ControllerTypeOK
  <2>6. QED  BY <2>2, <2>3, <2>4, <2>5 DEF ControllerInv, ControllerTypeOK, TransactionOK
<1>3. QED  BY <1>1, <1>2 DEF ControllerNext

\* Under every driver and device the controller keeps its registers in their
\* widths; the counter of bits, decremented on every rising edge of spi_clk,
\* does not pass zero (spi.sv:149 and 159).
THEOREM ControllerTypeCorrect == ControllerSpec => []ControllerTypeOK
<1>1. ControllerInv => ControllerTypeOK  BY DEF ControllerInv
<1>2. QED  BY InitInv, StepInv, <1>1, PTL DEF ControllerSpec

\* Between transfers sclk is low, whatever the driver writes to the control
\* register (spi.sv:120).
THEOREM ClockRests == ControllerSpec => [](spi_state # "TRANSCEIVING" => ~ sclk)
<1>1. ControllerInv => (spi_state # "TRANSCEIVING" => ~ sclk)
  BY DEF ControllerInv, GateInTransfer, sclk
<1>2. QED  BY InitInv, StepInv, <1>1, PTL DEF ControllerSpec

-----------------------------------------------------------------------------
(* A program over the controller: its state, and the pace of both.           *)

Divider == IF main = "flash_test" THEN 1 ELSE 0
Calls == {"divider", "select", "deselect", "transfer"}
Parts == {"command", "header", "rest", "data"}
Begun == op = "transfer" /\ step >= 4
Held == op \in {"transfer", "deselect", "panic"}

Driven ==
  /\ op \in Calls \cup {"jump", "panic", "end"}
  /\ part \in Parts
  /\ since \in Nat /\ si \in Int /\ k \in Nat /\ step \in 1 .. 5
  /\ op \in {"select", "deselect"} => step \in 1 .. 2
  /\ op \notin {"select", "deselect", "transfer"} => step = 1
  /\ control = (IF op = "divider" THEN 0 ELSE 4 * Divider)
                 + (IF Held THEN 2 ELSE 0) + (IF Begun THEN 1 ELSE 0)
  /\ op \in {"select", "deselect"} /\ step = 2 => control_orig = control
  /\ op = "transfer" /\ step >= 3 => control_orig = 4 * Divider + 2
  /\ op = "transfer" /\ part = "command" => k \in 0 .. 4

Gap == MinGap + 1
Elapsed ==
  CASE op = "transfer" /\ step = 4 -> since
    [] op = "transfer" /\ step = 5 -> Gap + since
    [] Held /\ step = 1 -> 2 * Gap + since
    [] Held /\ step = 2 -> 3 * Gap + CallGap + since
    [] OTHER -> 4 * Gap + CallGap + since

Active == spi_state = "TRANSCEIVING"
Starting == spi_state = "IDLE" /\ tx_start
Rising == clock_spi /\ ~ prev_clock_spi
Fresh == clock_spi # prev_clock_spi
Toggle == Divider - clk_counter + 1
Left ==
  IF clock_spi
  THEN Toggle + 2 * (bits_remaining - IF Rising THEN 1 ELSE 0) * (Divider + 1) + 1
  ELSE IF bits_remaining = 0 THEN 1 ELSE Toggle + (2 * bits_remaining - 1) * (Divider + 1) + 1

\* The program sets tx_start: the clock is restarted on the next edge.
Restart == step = 4 /\ since = 0

\* The clock of a transfer that is under way.
Phase ==
  /\ clk_counter \in 0 .. Divider
  /\ Fresh => clk_counter = 0 \/ (clock_spi /\ clk_counter = Divider /\ bits_remaining = BITS)
  /\ ~ Fresh => clk_counter = 1
  /\ (prev_clock_spi => bits_remaining < BITS) /\ (bits_remaining = 0 => prev_clock_spi)

Turning ==
  /\ tx_start => (txstart_prev <=> ~ Restart)
  /\ ~ tx_start /\ txstart_prev => step = 1 /\ since = 0
  /\ Restart => spi_state = "IDLE"
Entering ==
  /\ Starting => step = 4 /\ since \in 0 .. 2
  /\ Starting /\ since = 1 => clock_spi /\ clk_counter = Divider
  /\ Starting /\ since = 2 => ~ clock_spi /\ prev_clock_spi /\ clk_counter = 0
UnderWay == Active => Phase /\ Elapsed + Left <= 35
Ending == spi_finished /\ ~ tx_start => Elapsed <= 36 \/ (step = 1 /\ since = 0)
Serving == Begun /\ step = 4 => Starting \/ (Active /\ since + Left >= 17) \/ since >= 17

Timing ==
  /\ clk_counter \in 0 .. clkdivider
  /\ Turning /\ Entering /\ UnderWay /\ Ending /\ Serving

\* The number of bytes exchanged since the flash was selected.
Index == CASE part = "command" -> k [] part \in {"header", "data"} -> 5 + k [] part = "rest" -> 5 + HEADER + k
Started == Index + IF Begun THEN 1 ELSE 0
Exchanged == IF Active \/ Starting THEN Started - 1 ELSE Started

\* The bits of the transfer under way that the controller has sampled, and
\* those it has shifted; the bits the flash has seen and those it has taken.
Sampled == IF Active THEN 8 - bits_remaining ELSE 0
Shifts == Sampled - IF prev_clock_spi THEN 1 ELSE 0
Seen == 8 * Exchanged + Sampled
Taken == Seen + IF Active /\ Rising THEN 1 ELSE 0

High == ((si + 1) \div 256) % 256
Low == (si + 1) % 256
Base == (High * 256 + Low) * SECTOR

\* The highest bits of a byte, the bytes of the command, and what the flash
\* has of them after n bits.
Bit(x, i) == (x \div 2 ^ i) % 2
Out(x, s) == (x * 2 ^ s) % 256
Top(x, s) == x \div 2 ^ (8 - s)
Sent(h, l, j) == IF j = 0 THEN 3 ELSE IF j = 1 THEN h ELSE IF j = 2 THEN l ELSE 0
Prior(h, l, j) == IF j = 1 THEN 0 ELSE IF j = 2 THEN h ELSE h * 256 + l
CmdAfter(n) == IF n < 8 THEN Top(3, n) ELSE 3
AddrAfter(h, l, n) ==
  IF n < 8 THEN 0
  ELSE IF n < 32 THEN Prior(h, l, n \div 8) * 2 ^ (n % 8) + Top(Sent(h, l, n \div 8), n % 8)
  ELSE (h * 256 + l) * 256

\* The byte of the flash at i, and bit n of those from base.
Byte(file, i) == IF i < SECTOR + Len(file) THEN FlashImage(file)[i + 1] ELSE Erased
BitOf(file, base, n) == Bit(Byte(file, base + n \div 8), 7 - (n % 8))

Selected ==
  IF ~ Held THEN flash = Deselected
  ELSE /\ flash.bits = Taken /\ flash.cmd = CmdAfter(Taken) /\ flash.addr = AddrAfter(High, Low, Taken)
       /\ Seen >= 32 /\ ~ (Active /\ clock_spi /\ prev_clock_spi) => flash.out = BitOf(image, Base, Seen - 32)
Shifting ==
  Held /\ Active =>
    /\ Exchanged <= 3 => shift_out = Out(Sent(High, Low, Exchanged), Shifts)
    /\ Exchanged >= 4 => shift_in = Top(Byte(image, Base + Exchanged - 4), Sampled)
Received == Held /\ Exchanged >= 5 => datain = Byte(image, Base + Exchanged - 5)
Prepared ==
  /\ op = "transfer" /\ step >= 2 /\ part = "command" => dataout = Command
  /\ op = "transfer" /\ part = "header" => k < HEADER

Exchange == (Held /\ Active => Started >= 1) /\ Selected /\ Shifting /\ Received /\ Prepared

Copying ==
  op = "transfer" /\ step = 5 /\ part # "command" => rx = Byte(image, Base + Index - 5)

(* What the controller makes of the control register. *)
LEMMA Decoded ==
  ASSUME Driven
  PROVE  /\ tx_start <=> Begun
         /\ hw_cs_n <=> Held
         /\ clkdivider = IF op = "divider" THEN 0 ELSE Divider
         /\ Divider \in {0, 1}
<1>1. PICK u \in {0, 1} : u = Divider
  BY DEF Divider
<1>2. PICK a \in {0, 1}, b \in {0, 1}, c \in {0, 1} :
        /\ a = (IF op = "divider" THEN 0 ELSE u)
        /\ b = (IF Held THEN 1 ELSE 0)
        /\ c = (IF Begun THEN 1 ELSE 0)
  <2>1. \A q : (IF q THEN 1 ELSE 0) \in {0, 1} /\ (IF q THEN 0 ELSE u) \in {0, 1}
    OBVIOUS
  <2> QED BY <2>1
<1>3. control = 4 * a + 2 * b + c
  BY <1>1, <1>2 DEF Driven, Begun, Held
<1>4. control % 2 = c /\ (control \div 2) % 2 = b /\ control \div 4 = a
  <2>1. a = 0 \/ a = 1
    OBVIOUS
  <2>2. b = 0 \/ b = 1
    OBVIOUS
  <2>3. c = 0 \/ c = 1
    OBVIOUS
  <2> QED BY <1>3, <2>1, <2>2, <2>3
<1> QED BY <1>1, <1>2, <1>4 DEF tx_start, hw_cs_n, clkdivider

(* The command bytes are bytes. *)
LEMMA CommandByteType ==
  ASSUME Driven, op = "transfer", part = "command"
  PROVE  Command \in 0 .. 255
<1>1. k \in {0, 1, 2, 3, 4} /\ si \in Int
  BY DEF Driven
<1>2. (si + 1) % 256 \in 0 .. 255 /\ (si + 1) \div 256 \in Int
  BY <1>1
<1>3. ((si + 1) \div 256) % 256 \in 0 .. 255
  BY <1>2
<1> QED BY <1>1, <1>2, <1>3 DEF Command

(* What a step of the program does to the transfer: nothing, it starts one,  *)
(* takes the byte, ends the start, or makes another access.                  *)
Waits == op' = op /\ step' = step /\ since' = IF Running THEN since + 1 ELSE 0
Starts == op = "transfer" /\ step = 3 /\ op' = op /\ step' = 4
Takes == op = "transfer" /\ step = 4 /\ op' = op /\ step' = 5
Ends == op = "transfer" /\ step = 5 /\ op' \in {"transfer", "deselect", "panic"} /\ step' = 1
Others ==
  /\ ~ Begun /\ ~ Begun'
  /\ step = 1 => since >= CallGap + MinGap
  /\ \/ op' = op /\ step' = step + 1
     \/ ~ Held /\ op # "divider" /\ op' = "transfer" /\ step' = 1 /\ step = 2
     \/ op = "divider" /\ op' = "select" /\ step' = 1
     \/ op = "deselect" /\ step = 2 /\ op' \in {"select", "jump", "end"} /\ step' = 1

Drives ==
  \/ Waits
  \/ (Starts \/ Takes \/ Ends \/ Others) /\ since >= MinGap /\ since' = 0

(* What the bus does to the two registers a program writes. *)
LEMMA Written ==
  ASSUME NEW value
  PROVE  /\ Edge(Idle) => control' = control /\ dataout' = dataout
         /\ Edge(WriteControl(value)) => control' = value /\ dataout' = dataout
         /\ Edge(WriteData(value)) => control' = control /\ dataout' = value
BY DEF Edge, Clock, BusClock, Idle, WriteControl, WriteData

(* The controller takes a step of its own. *)
Clocked == \E access \in BusAccess : Edge(access)

(* Every access of a program is one the controller allows.                   *)
LEMMA Accesses ==
  /\ Edge(Idle) => Clocked
  /\ \A value \in Nat : Edge(WriteControl(value)) => Clocked
  /\ BITS = 8 /\ \A value \in 0 .. 255 : Edge(WriteData(value)) => Clocked
<1>1. Full = 256 /\ BITS = 8
  <2>1. 2 ^ 8 = 256
    OBVIOUS
  <2> QED BY <2>1, FlashAssumption DEF Full
<1>2. Edge(Idle) => Clocked
  BY DEF Clocked, BusAccess
<1>3. \A value \in Nat : Edge(WriteControl(value)) => Clocked
  BY DEF Clocked, BusAccess
<1>4. \A value \in 0 .. 255 : Edge(WriteData(value)) => Clocked
  <2>1. 0 .. 255 = 0 .. Full - 1
    BY <1>1
  <2> QED BY <2>1 DEF Clocked, BusAccess
<1> QED BY <1>1, <1>2, <1>3, <1>4

(* Every access leaves the control register as the next one expects it. *)
LEMMA ProgramStep ==
  ASSUME Driven, main \in Mains, Next
  PROVE  Driven' /\ main' = main /\ Drives /\ Clocked
<1> USE GapAssumption
<1>0. PICK D \in {0, 1} : Divider = D /\ (main' = main => Divider' = D)
  BY DEF Divider
<1>1. CASE Wait
  <2>1. UNCHANGED <<main, image, program>> /\ Edge(Idle) /\ control' = control /\ Clocked
    BY <1>1, Written, Accesses DEF Wait
  <2>2. since' = IF Running THEN since + 1 ELSE 0
    BY <1>1 DEF Wait
  <2>3. UNCHANGED <<op, step, part, k, si, control_orig, main>>
    BY <2>1 DEF program
  <2>4. Driven'
    BY <2>1, <2>2, <2>3, <1>0 DEF Driven, Calls, Parts, Held, Begun
  <2>5. Drives
    BY <2>2, <2>3 DEF Drives, Waits
  <2> QED BY <2>1, <2>3, <2>4, <2>5
<1>2. CASE SetDivider
  <2>1. /\ op = "divider" /\ step = 1 /\ Ready /\ since' = 0 /\ main' = main
        /\ op' = "select" /\ step' = 1 /\ UNCHANGED <<part, k, si>>
    BY <1>2 DEF SetDivider, At
  <2>2. (IF main = "flash_test" THEN 4 ELSE 0) = 4 * D /\ 4 * D \in Nat
    BY <1>0 DEF Divider
  <2>3. control' = 4 * D /\ Clocked
    BY <1>2, <2>2, Written, Accesses DEF SetDivider
  <2>4. Driven'
    BY <1>0, <2>1, <2>3 DEF Driven, Calls, Parts, Held, Begun
  <2>5. since >= CallGap + MinGap /\ since >= MinGap
    BY <2>1 DEF Ready, Begins, Driven
  <2>6. Drives
    BY <2>1, <2>5 DEF Drives, Others, Begun, Held
  <2> QED BY <2>1, <2>3, <2>4, <2>6
<1>3. CASE LoadControl
  <2>1. /\ (op \in {"select", "deselect"} /\ step = 1) \/ (op = "transfer" /\ step = 2)
        /\ Ready /\ since' = 0 /\ main' = main /\ control_orig' = control
        /\ op' = op /\ step' = step + 1 /\ UNCHANGED <<part, k, si>>
    BY <1>3 DEF LoadControl, At, NextStep
  <2>3. control' = control /\ Clocked
    BY <1>3, Written, Accesses DEF LoadControl
  <2>4. Driven'
    BY <1>0, <2>1, <2>3 DEF Driven, Calls, Parts, Held, Begun
  <2>5. (step = 1 => since >= CallGap + MinGap) /\ since >= MinGap
    BY <2>1 DEF Ready, Begins, Driven
  <2>6. ~ Begun /\ ~ Begun'
    BY <2>1 DEF Begun
  <2>7. Others
    BY <2>1, <2>5, <2>6 DEF Others
  <2>8. Drives
    BY <2>1, <2>5, <2>7 DEF Drives
  <2> QED BY <2>1, <2>3, <2>4, <2>8
<1>4. CASE Select
  <2>1. /\ op = "select" /\ step = 2 /\ Ready /\ since' = 0 /\ main' = main
        /\ op' = "transfer" /\ step' = 1 /\ part' = "command" /\ k' = 0 /\ si' = si
    BY <1>4 DEF Select, At
  <2>2. control_orig = 4 * D
    BY <1>0, <2>1 DEF Driven, Held, Begun
  <2>3. (control_orig \div 2) % 2 = 0 /\ control_orig + 2 \in Nat
    BY <1>0, <2>2
  <2>4. control' = 4 * D + 2 /\ Clocked
    BY <1>4, <2>2, <2>3, Written, Accesses DEF Select
  <2>5. Driven'
    BY <1>0, <2>1, <2>4 DEF Driven, Calls, Parts, Held, Begun
  <2>6. Drives
    BY <2>1 DEF Drives, Others, Begun, Held, Ready, Begins, Driven
  <2> QED BY <2>1, <2>4, <2>5, <2>6
<1>5. CASE Deselect
  <2>1. /\ op = "deselect" /\ step = 2 /\ Ready /\ since' = 0 /\ main' = main
        /\ op' \in {"select", "jump", "end"} /\ step' = 1 /\ si' = si + 1 /\ UNCHANGED <<part, k>>
    BY <1>5 DEF Deselect, At
  <2>2. control_orig = 4 * D + 2
    BY <1>0, <2>1 DEF Driven, Held, Begun
  <2>3. (control_orig \div 2) % 2 = 1 /\ control_orig - 2 \in Nat
    BY <1>0, <2>2
  <2>4. control' = 4 * D /\ Clocked
    BY <1>5, <2>2, <2>3, Written, Accesses DEF Deselect
  <2>5. Driven'
    BY <1>0, <2>1, <2>4 DEF Driven, Calls, Parts, Held, Begun
  <2>6. Drives
    BY <2>1 DEF Drives, Others, Begun, Held, Ready, Begins, Driven
  <2> QED BY <2>1, <2>4, <2>5, <2>6
<1>6. CASE Transmit
  <2>1. /\ op = "transfer" /\ step = 1 /\ Ready /\ since' = 0 /\ main' = main
        /\ op' = op /\ step' = 2 /\ UNCHANGED <<part, k, si, control_orig>>
    BY <1>6 DEF Transmit, At, NextStep
  <2>2. (IF part = "command" THEN Command ELSE 255) \in 0 .. 255
    BY <2>1, CommandByteType
  <2>3. control' = control /\ Clocked
    BY <1>6, <2>2, Written, Accesses DEF Transmit
  <2>4. Driven'
    BY <1>0, <2>1, <2>3 DEF Driven, Calls, Parts, Held, Begun
  <2>5. since >= CallGap + MinGap /\ since >= MinGap
    BY <2>1 DEF Ready, Begins, Driven
  <2>6. Drives
    BY <2>1, <2>5 DEF Drives, Others, Begun, Held
  <2> QED BY <2>1, <2>3, <2>4, <2>6
<1>7. CASE SetTx
  <2>1. /\ op = "transfer" /\ step = 3 /\ Ready /\ since' = 0 /\ main' = main
        /\ op' = op /\ step' = 4 /\ UNCHANGED <<part, k, si, control_orig>>
    BY <1>7 DEF SetTx, At, NextStep
  <2>2. control_orig = 4 * D + 2
    BY <1>0, <2>1 DEF Driven
  <2>3. control_orig % 2 = 0 /\ control_orig + 1 \in Nat
    BY <1>0, <2>2
  <2>4. control' = 4 * D + 3 /\ Clocked
    BY <1>0, <1>7, <2>2, <2>3, Written, Accesses DEF SetTx
  <2>5. Driven'
    BY <1>0, <2>1, <2>2, <2>4 DEF Driven, Calls, Parts, Held, Begun
  <2>6. Drives
    BY <2>1 DEF Drives, Starts, Ready, Begins, Driven
  <2> QED BY <2>1, <2>4, <2>5, <2>6
<1>8. CASE LoadRx
  <2>1. /\ op = "transfer" /\ step = 4 /\ Ready /\ since' = 0 /\ main' = main
        /\ op' = op /\ step' = 5 /\ UNCHANGED <<part, k, si, control_orig>>
    BY <1>8 DEF LoadRx, At, NextStep
  <2>3. control' = control /\ Clocked
    BY <1>8, Written, Accesses DEF LoadRx
  <2>4. Driven'
    BY <1>0, <2>1, <2>3 DEF Driven, Calls, Parts, Held, Begun
  <2>6. Drives
    BY <2>1 DEF Drives, Takes, Ready, Begins, Driven
  <2> QED BY <2>1, <2>3, <2>4, <2>6
<1>9. CASE CommandByte \/ HeaderByte \/ RestByte \/ DataByte
  <2>1. /\ op = "transfer" /\ step = 5 /\ Ready /\ since' = 0 /\ main' = main
        /\ step' = 1 /\ Edge(WriteControl(control_orig))
    BY <1>9 DEF CommandByte, HeaderByte, RestByte, DataByte, ClearTx, At
  <2>2. op' \in {"transfer", "deselect", "panic"}
    BY <1>9, <2>1 DEF CommandByte, HeaderByte, RestByte, DataByte
  <2>3. /\ part' \in Parts /\ si' = si /\ k' \in Nat
        /\ op' = "transfer" /\ part' = "command" => k' \in 0 .. 4
    <3>1. CASE CommandByte
      BY <2>1, <3>1 DEF CommandByte, Driven, CommandLength, Parts
    <3>2. CASE HeaderByte
      BY <2>1, <3>2 DEF HeaderByte, ClearTx, Driven, Parts
    <3>3. CASE RestByte
      BY <2>1, <3>3 DEF RestByte, ClearTx, Driven, Parts
    <3>4. CASE DataByte
      BY <2>1, <3>4 DEF DataByte, ClearTx, Driven, Parts
    <3> QED BY <1>9, <3>1, <3>2, <3>3, <3>4
  <2>4. control_orig = 4 * D + 2 /\ control_orig \in Nat
    BY <1>0, <2>1 DEF Driven
  <2>5. control' = 4 * D + 2 /\ Clocked
    BY <2>1, <2>4, Written, Accesses
  <2>6. Driven'
    BY <1>0, <2>1, <2>2, <2>3, <2>5 DEF Driven, Calls, Parts, Held, Begun
  <2>7. Drives
    BY <2>1, <2>2 DEF Drives, Ends, Ready, Begins, Driven
  <2> QED BY <2>1, <2>5, <2>6, <2>7
<1> QED BY <1>1, <1>2, <1>3, <1>4, <1>5, <1>6, <1>7, <1>8, <1>9 DEF Next, Access

(* What is left of the transfer never takes longer than the program.         *)
LEMMA ElapsedType == Driven => Elapsed \in Nat
<1> USE GapAssumption
<1> SUFFICES ASSUME Driven PROVE Elapsed \in Nat
  OBVIOUS
<1>1. since \in Nat /\ Gap \in Nat /\ CallGap \in Nat
  BY DEF Driven, Gap
<1>2. /\ since \in Nat /\ Gap + since \in Nat /\ 2 * Gap + since \in Nat
      /\ 3 * Gap + CallGap + since \in Nat /\ 4 * Gap + CallGap + since \in Nat
  BY <1>1
<1> HIDE DEF Gap
<1> QED BY <1>2 DEF Elapsed

(* It stays a number.                                                        *)
LEMMA ElapsedTypeNext == Driven' => Elapsed' \in Nat
<1>1. (Driven => Elapsed \in Nat)'
  BY ElapsedType, PTL
<1> QED BY <1>1

(* A step of the program takes it at most one edge further.                  *)
LEMMA ElapsedStep ==
  ASSUME Driven, Driven', Drives
  PROVE  Elapsed' <= Elapsed + 1
<1> USE GapAssumption
<1>1. since \in Nat /\ since' \in Nat /\ Elapsed' \in Nat
  BY ElapsedTypeNext DEF Driven
<1>2. CASE Waits
  <2>1. /\ op' = op /\ step' = step /\ since' <= since + 1 /\ (Held' <=> Held)
    BY <1>1, <1>2 DEF Waits, Held
  <2> QED BY <1>1, <2>1 DEF Elapsed, Gap
<1>3. CASE Starts
  BY <1>1, <1>3, ElapsedType DEF Elapsed, Starts, Drives, Waits
<1>4. CASE Takes /\ since >= MinGap /\ since' = 0
  BY <1>1, <1>4 DEF Elapsed, Takes, Gap
<1>5. CASE Ends /\ since >= MinGap /\ since' = 0
  BY <1>1, <1>5 DEF Elapsed, Ends, Gap, Held
<1>6. CASE Others /\ since >= MinGap /\ since' = 0
  <2>1. Elapsed' <= 4 * Gap + CallGap
    BY <1>1, <1>6 DEF Elapsed, Gap
  <2>2. CASE ~ Held
    <3>1. Elapsed = 4 * Gap + CallGap + since
      BY <2>2 DEF Elapsed, Held
    <3> QED BY <1>1, <2>1, <3>1 DEF Gap
  <2>3. CASE Held /\ op' = op /\ step' = step + 1
    BY <1>1, <1>6, <2>3 DEF Elapsed, Others, Held, Begun, Gap, Driven
  <2>4. CASE op = "deselect" /\ step = 2
    BY <1>1, <1>6, <2>1, <2>4 DEF Elapsed, Held, Gap
  <2> QED BY <1>6, <2>2, <2>3, <2>4 DEF Others, Held
<1> QED BY <1>2, <1>3, <1>4, <1>5, <1>6 DEF Drives

-----------------------------------------------------------------------------
(* The controller under such a program.                                      *)

(* What a step of the controller does to its clock, under such a program.    *)
Ticks ==
  /\ Divider \in {0, 1} /\ Divider' = Divider
  /\ clkdivider = (IF op = "divider" THEN 0 ELSE Divider)
  /\ clkdivider' = (IF op' = "divider" THEN 0 ELSE Divider)
  /\ (tx_start <=> Begun) /\ (tx_start' <=> Begun')
  /\ bits_remaining \in 0 .. 8 /\ bits_remaining' \in 0 .. 8 /\ clk_counter \in 0 .. 1
  /\ clock_spi \in BOOLEAN /\ prev_clock_spi \in BOOLEAN /\ txstart_prev \in BOOLEAN
  /\ spi_state \in {"IDLE", "TRANSCEIVING", "DONE"}
  /\ clk_counter' = (IF Restart THEN clkdivider ELSE IF clk_counter >= clkdivider THEN 0 ELSE clk_counter + 1)
  /\ clock_spi' = (IF Restart THEN TRUE ELSE IF clk_counter >= clkdivider THEN ~ clock_spi ELSE clock_spi)
  /\ txstart_prev' = tx_start /\ prev_clock_spi' = clock_spi
  /\ Rest \/ Finish \/ \E data_rx \in 0 .. 1 : Transceive(data_rx)

(* What the controller makes of the register after a step.                   *)
LEMMA DecodedNext ==
  Driven' => /\ tx_start' <=> Begun'
             /\ clkdivider' = IF op' = "divider" THEN 0 ELSE Divider'
<1>1. Driven => (tx_start <=> Begun) /\ clkdivider = IF op = "divider" THEN 0 ELSE Divider
  BY Decoded
<1>2. (Driven => (tx_start <=> Begun) /\ clkdivider = IF op = "divider" THEN 0 ELSE Divider)'
  BY <1>1, PTL
<1> QED BY <1>2

(* A step of the controller is one of these.                                 *)
LEMMA Ticking ==
  ASSUME Driven, Driven', main' = main, flash.out \in 0 .. 1, Clocked,
         ControllerInv, ControllerInv', Timing
  PROVE  Ticks
<1>1. Divider \in {0, 1} /\ Divider' = Divider
  BY DEF Divider
<1>2. /\ tx_start <=> Begun
      /\ clkdivider = IF op = "divider" THEN 0 ELSE Divider
  BY Decoded
<1>3. /\ tx_start' <=> Begun'
      /\ clkdivider' = IF op' = "divider" THEN 0 ELSE Divider'
  BY DecodedNext
<1>4. /\ bits_remaining \in 0 .. 8 /\ bits_remaining' \in 0 .. 8
      /\ clock_spi \in BOOLEAN /\ prev_clock_spi \in BOOLEAN /\ txstart_prev \in BOOLEAN
      /\ spi_state \in {"IDLE", "TRANSCEIVING", "DONE"}
  BY FlashAssumption DEF ControllerInv, ControllerTypeOK
<1>5. clk_counter \in 0 .. 1
  BY <1>1, <1>2 DEF Timing
<1>6. ClockGen /\ prev_clock_spi' = clock_spi /\ (Rest \/ Finish \/ \E data_rx \in 0 .. 1 : Transceive(data_rx))
  BY DEF Clocked, Edge, Clock
<1>7. tx_start /\ ~ txstart_prev <=> Restart
  BY <1>2 DEF Timing, Turning, Restart, Driven, Begun, Calls
<1>8. /\ clk_counter' = (IF Restart THEN clkdivider ELSE IF clk_counter >= clkdivider THEN 0 ELSE clk_counter + 1)
      /\ clock_spi' = (IF Restart THEN TRUE ELSE IF clk_counter >= clkdivider THEN ~ clock_spi ELSE clock_spi)
      /\ txstart_prev' = tx_start
  BY <1>6, <1>7, Zenon DEF ClockGen
<1> QED BY <1>1, <1>2, <1>3, <1>4, <1>5, <1>6, <1>8 DEF Ticks

(* What is left of a transfer is a number of edges.                          *)
LEMMA LeftType ==
  ASSUME Ticks, Phase
  PROVE  Left \in Nat
<1>0. PICK D \in {0, 1} : D = Divider
  BY DEF Ticks
<1>1. /\ bits_remaining \in 0 .. 8 /\ clk_counter \in 0 .. D
      /\ clock_spi \in BOOLEAN /\ prev_clock_spi \in BOOLEAN
      /\ Rising => bits_remaining > 0
  BY <1>0 DEF Ticks, Phase, Rising
<1>2. CASE clock_spi
  BY <1>0, <1>1, <1>2 DEF Left, Toggle, Rising
<1>3. CASE ~ clock_spi
  BY <1>0, <1>1, <1>3 DEF Left, Toggle
<1> QED BY <1>2, <1>3

(* A transfer under way comes one edge nearer to its end, or ends.           *)
LEMMA ActiveStep ==
  ASSUME Ticks, Active, Phase, ~ Restart, clkdivider = Divider
  PROVE  /\ Left \in Nat
         /\ \/ spi_state' = "DONE" /\ Left = 1
            \/ Active' /\ Phase' /\ Left' = Left - 1
<1>0. PICK D \in {0, 1} : D = Divider /\ Divider' = D /\ clkdivider = D
  BY DEF Ticks
<1>1. PICK data_rx \in 0 .. 1 : Transceive(data_rx)
  BY DEF Ticks, Active, Rest, Finish
<1>2. /\ bits_remaining \in 0 .. 8 /\ bits_remaining' \in 0 .. 8 /\ clk_counter \in 0 .. 1 /\ BITS = 8
      /\ clock_spi \in BOOLEAN /\ prev_clock_spi \in BOOLEAN /\ txstart_prev \in BOOLEAN
      /\ clk_counter' = (IF clk_counter >= D THEN 0 ELSE clk_counter + 1)
      /\ clock_spi' = (IF clk_counter >= D THEN ~ clock_spi ELSE clock_spi)
      /\ prev_clock_spi' = clock_spi
  BY <1>0, FlashAssumption DEF Ticks
<1>3. Left \in Nat
  BY LeftType
<1>4. CASE bits_remaining = 0 /\ ~ clock_spi /\ prev_clock_spi
  <2>1. spi_state' = "DONE"
    BY <1>1, <1>4 DEF Transceive, clock_spi_negedge
  <2>2. Left = 1
    BY <1>4 DEF Left
  <2> QED BY <1>3, <2>1, <2>2
<1>5. CASE ~ (bits_remaining = 0 /\ ~ clock_spi /\ prev_clock_spi)
  <2>1. /\ bits_remaining' = IF Rising THEN (bits_remaining - 1) % 16 ELSE bits_remaining
        /\ spi_state' = spi_state
    BY <1>1, <1>5 DEF Transceive, clock_spi_negedge, clock_spi_posedge, Rising
  <2>2. Rising => bits_remaining > 0
    BY <1>2 DEF Phase, Rising
  <2>3. bits_remaining' = IF Rising THEN bits_remaining - 1 ELSE bits_remaining
    BY <1>2, <2>1, <2>2
  <2>4. Phase' /\ Left' = Left - 1
    <3> DEFINE b == bits_remaining
    <3>0. /\ prev_clock_spi' = clock_spi
          /\ clock_spi = TRUE \/ clock_spi = FALSE
          /\ prev_clock_spi = TRUE \/ prev_clock_spi = FALSE
      BY <1>2, Zenon
    <3>4. clk_counter >= D => clock_spi' = ~ clock_spi
      BY <1>2, Zenon
    <3>5. ~ (clk_counter >= D) => clock_spi' = clock_spi
      BY <1>2, Zenon
    <3>6. clk_counter >= D => clk_counter = D /\ clk_counter' = 0
      BY <1>0, <1>2 DEF Phase
    <3>1. CASE clk_counter >= D /\ clock_spi = TRUE
      <4>1. clk_counter' = 0 /\ clock_spi' = FALSE /\ prev_clock_spi' = TRUE /\ clk_counter = D
        BY <3>0, <3>1, <3>4, <3>6, Zenon
      <4>2. CASE prev_clock_spi = TRUE
        <5>1. b' = b /\ b < 8
          BY <1>2, <2>3, <4>2 DEF Rising, Phase
        <5>2. Left = 2 + (IF D = 0 THEN 2 * b ELSE 4 * b)
          BY <1>0, <1>2, <3>1, <4>1, <4>2 DEF Left, Toggle, Rising
        <5>3. Left' = IF b = 0 THEN 1 ELSE IF D = 0 THEN 2 * b + 1 ELSE 4 * b + 1
          BY <1>0, <1>2, <4>1, <5>1 DEF Left, Toggle, Rising
        <5>4. Phase'
          <6>1. b \in 0 .. 8 /\ BITS = 8
            BY <1>2
          <6>2. Fresh'
            BY <4>1 DEF Fresh
          <6>3. b' \in 0 .. 7
            BY <5>1, <6>1
          <6> QED BY <1>0, <4>1, <6>1, <6>2, <6>3 DEF Phase
        <5>5. Left' = Left - 1
          BY <1>0, <1>2, <5>1, <5>2, <5>3
        <5> QED BY <5>4, <5>5
      <4>3. CASE prev_clock_spi = FALSE
        <5>1. b' = b - 1 /\ b > 0
          BY <1>2, <2>2, <2>3, <3>1, <4>3 DEF Rising
        <5>2. Left = 2 + (IF D = 0 THEN 2 * b - 2 ELSE 4 * b - 4)
          BY <1>0, <1>2, <3>1, <4>1, <4>3 DEF Left, Toggle, Rising
        <5>3. Left' = IF b = 1 THEN 1 ELSE IF D = 0 THEN 2 * b - 1 ELSE 4 * b - 3
          BY <1>0, <1>2, <4>1, <5>1 DEF Left, Toggle, Rising
        <5>4. Phase'
          <6>1. b \in 0 .. 8 /\ BITS = 8
            BY <1>2
          <6>2. Fresh'
            BY <4>1 DEF Fresh
          <6>3. b' \in 0 .. 7
            BY <5>1, <6>1
          <6> QED BY <1>0, <4>1, <6>1, <6>2, <6>3 DEF Phase
        <5>5. Left' = Left - 1
          BY <1>0, <1>2, <5>1, <5>2, <5>3
        <5> QED BY <5>4, <5>5
      <4> QED BY <3>0, <4>2, <4>3
    <3>2. CASE clk_counter >= D /\ clock_spi = FALSE
      <4>1. clk_counter' = 0 /\ clock_spi' = TRUE /\ prev_clock_spi' = FALSE /\ clk_counter = D
        BY <3>0, <3>2, <3>4, <3>6, Zenon
      <4>2. b' = b /\ b > 0
        BY <1>2, <1>5, <2>3, <3>0, <3>2 DEF Rising, Phase
      <4>3. Left = 1 + (2 * b - 1) * (D + 1) + 1
        BY <1>0, <1>2, <3>2, <4>1, <4>2 DEF Left, Toggle
      <4>4. Left' = D + 1 + 2 * (b - 1) * (D + 1) + 1
        BY <1>0, <1>2, <4>1, <4>2 DEF Left, Toggle, Rising
      <4> QED BY <1>0, <1>2, <4>1, <4>2, <4>3, <4>4 DEF Phase, Fresh
    <3>3. CASE ~ (clk_counter >= D)
      <4>1. /\ clk_counter = 0 /\ D = 1 /\ clk_counter' = 1
            /\ clock_spi' = clock_spi /\ prev_clock_spi' = clock_spi
        BY <1>0, <1>2, <3>0, <3>3, <3>5
      <4>2. Fresh
        BY <1>0, <4>1 DEF Phase
      <4>3. CASE clock_spi = TRUE
        <5>1. prev_clock_spi = FALSE /\ b' = b - 1 /\ b > 0
          BY <1>2, <2>2, <2>3, <3>0, <4>2, <4>3 DEF Rising, Fresh
        <5>2. Left = 2 + 4 * (b - 1) + 1
          BY <1>0, <1>2, <4>1, <4>3, <5>1 DEF Left, Toggle, Rising
        <5>3. Left' = 1 + 4 * (b - 1) + 1
          BY <1>0, <1>2, <4>1, <4>3, <5>1 DEF Left, Toggle, Rising
        <5> QED BY <1>0, <1>2, <4>1, <4>3, <5>1, <5>2, <5>3 DEF Phase, Fresh
      <4>4. CASE clock_spi = FALSE
        <5>1. prev_clock_spi = TRUE /\ b' = b /\ b > 0 /\ b < 8
          BY <1>2, <1>5, <2>3, <3>0, <4>2, <4>4 DEF Rising, Fresh, Phase
        <5>2. Left = 2 + (2 * b - 1) * 2 + 1
          BY <1>0, <1>2, <4>1, <4>4, <5>1 DEF Left, Toggle
        <5>3. Left' = 1 + (2 * b - 1) * 2 + 1
          BY <1>0, <1>2, <4>1, <4>4, <5>1 DEF Left, Toggle
        <5>4. Phase'
          BY <1>0, <1>2, <4>1, <4>4, <5>1 DEF Phase, Fresh
        <5> QED BY <1>2, <5>2, <5>3, <5>4
      <4> QED BY <3>0, <4>3, <4>4
    <3> QED BY <3>0, <3>1, <3>2, <3>3
  <2> QED BY <1>3, <2>1, <2>4 DEF Active
<1> QED BY <1>4, <1>5

(* Where a step of the program begins and ends tx_start.                     *)
LEMMA Turns ==
  ASSUME Driven, Driven', Drives
  PROVE  /\ Restart' <=> Starts
         /\ Begun' /\ ~ Begun => Starts
         /\ Begun' /\ Begun => ~ Restart' /\ ((Waits /\ since' = since + 1) \/ (Takes /\ since >= MinGap))
         /\ Begun /\ ~ Begun' => step' = 1 /\ since' = 0
         /\ Begun' => op' = "transfer" /\ step' \in {4, 5}
         /\ Begun => op = "transfer" /\ step \in {4, 5}
         /\ op' = "divider" => op = "divider"
<1>1. /\ since \in Nat /\ since' \in Nat /\ step \in 1 .. 5 /\ step' \in 1 .. 5
      /\ step = 4 => op = "transfer"
      /\ step' = 4 => op' = "transfer"
  BY DEF Driven, Calls
<1>2. CASE Waits
  <2>1. (step = 4 => since' = since + 1) /\ (Begun => since' = since + 1) /\ (Begun' <=> Begun)
    BY <1>1, <1>2 DEF Waits, Running, Begun
  <2>2. op' = op /\ step' = step
    BY <1>2 DEF Waits
  <2>3. ~ Restart' /\ ~ Starts
    BY <1>1, <2>1, <2>2 DEF Starts, Restart
  <2>4. Begun => op = "transfer" /\ step \in {4, 5}
    BY <1>1 DEF Begun
  <2>5. Begun' => op' = "transfer" /\ step' \in {4, 5}
    BY <2>1, <2>2, <2>4
  <2>6. op' = "divider" => op = "divider"
    BY <2>2
  <2>7. (Restart' <=> Starts) /\ ~ (Begun' /\ ~ Begun) /\ ~ (Begun /\ ~ Begun')
    BY <2>1, <2>3
  <2>8. Begun' /\ Begun => ~ Restart' /\ Waits /\ since' = since + 1
    BY <1>2, <2>1, <2>3
  <2> QED BY <2>4, <2>5, <2>6, <2>7, <2>8
<1>3. CASE Starts /\ since' = 0
  BY <1>1, <1>3 DEF Starts, Begun, Restart
<1>4. CASE Takes /\ since >= MinGap /\ since' = 0
  BY <1>1, <1>4 DEF Takes, Begun, Restart, Starts
<1>5. CASE Ends /\ since' = 0
  BY <1>1, <1>5 DEF Ends, Begun, Restart, Starts
<1>6. CASE Others
  BY <1>1, <1>6 DEF Others, Begun, Restart, Starts
<1> QED BY <1>2, <1>3, <1>4, <1>5, <1>6 DEF Drives

(* The program starts a transfer when the controller is at rest.             *)
LEMMA RestsAtStart ==
  ASSUME Driven, Timing, Ticks, Starts
  PROVE  spi_state = "IDLE" /\ ~ Begun /\ spi_state' = "IDLE"
<1> USE GapAssumption
<1>1. Elapsed >= 37
  <2>1. Elapsed = 4 * Gap + CallGap + since
    BY DEF Elapsed, Starts, Held
  <2> QED BY <2>1 DEF Gap, Driven
<1>2. step = 3 /\ ~ Begun /\ ~ tx_start
  BY DEF Starts, Begun, Ticks
<1>3. spi_state # "DONE"
  BY <1>1, <1>2, ElapsedType DEF Timing, Ending, spi_finished
<1>5. ~ Active
  <2>1. SUFFICES ASSUME Active PROVE FALSE
    OBVIOUS
  <2>2. Left \in Nat /\ Elapsed \in Nat
    BY <2>1, LeftType, ElapsedType DEF Timing, UnderWay
  <2>3. Elapsed + Left <= 35
    BY <2>1 DEF Timing, UnderWay
  <2> QED BY <1>1, <2>2, <2>3
<1>6. spi_state = "IDLE"
  BY <1>3, <1>5 DEF Ticks, Active
<1> QED BY <1>2, <1>6 DEF Ticks, Rest, Finish, Transceive

(* Where the clock stands in the first edge of a transfer.                   *)
LEMMA Entered ==
  ASSUME Divider' \in {0, 1}, bits_remaining' = 8, prev_clock_spi' = FALSE, clk_counter' = Divider',
         \/ clock_spi' = TRUE
         \/ clock_spi' = FALSE /\ Divider' = 1
  PROVE  Phase' /\ Left' = IF Divider' = 0 THEN 16 ELSE IF clock_spi' THEN 30 ELSE 32
<1>0. PICK D \in {0, 1} : Divider' = D /\ clk_counter' = D /\ BITS = 8
  BY FlashAssumption
<1>1. Toggle' = 1
  BY <1>0 DEF Toggle
<1>2. CASE clock_spi' = TRUE
  <2>1. Rising'
    BY <1>2 DEF Rising
  <2>2. Fresh'
    BY <1>2 DEF Fresh
  <2>3. Left' = 1 + 14 * (D + 1) + 1
    BY <1>0, <1>1, <1>2, <2>1 DEF Left
  <2>4. Phase'
    BY <1>0, <1>2, <2>2 DEF Phase
  <2> QED BY <1>0, <1>2, <2>3, <2>4
<1>3. CASE clock_spi' = FALSE /\ Divider' = 1
  <2>1. ~ Fresh'
    BY <1>3 DEF Fresh
  <2>2. Left' = 1 + 15 * 2 + 1
    BY <1>1, <1>3 DEF Left
  <2>3. Phase'
    BY <1>0, <1>3, <2>1 DEF Phase
  <2> QED BY <1>3, <2>2, <2>3
<1> QED BY <1>2, <1>3

(* A controller at rest: it begins the transfer that the program starts.     *)
LEMMA RestTiming ==
  ASSUME Driven, Driven', Drives, Ticks, Timing, Rest
  PROVE  Entering' /\ UnderWay' /\ Ending' /\ Serving'
<1> USE GapAssumption
<1>0. PICK D \in {0, 1} : D = Divider /\ D = Divider'
  BY DEF Ticks
<1>1. /\ Elapsed \in Nat /\ Elapsed' \in Nat /\ Elapsed' <= Elapsed + 1
      /\ since \in Nat /\ since' \in Nat /\ BITS = 8
      /\ (tx_start <=> Begun) /\ (tx_start' <=> Begun')
  BY ElapsedType, ElapsedTypeNext, ElapsedStep, FlashAssumption DEF Driven, Ticks
<1>2. CASE ~ Begun
  <2>1. spi_state' = "IDLE" /\ ~ Active' /\ ~ spi_finished'
    BY <1>1, <1>2 DEF Rest, Active, spi_finished
  <2>2. Begun' => step' = 4 /\ since' = 0
    BY <1>2, Turns DEF Restart
  <2> QED BY <1>1, <2>1, <2>2 DEF Entering, UnderWay, Ending, Serving, Starting
<1>3. CASE Begun
  <2>1. step = 4 /\ since \in 0 .. 2 /\ op = "transfer" /\ clkdivider = D /\ Elapsed = since
    BY <1>0, <1>1, <1>3 DEF Timing, Entering, Starting, Rest, Begun, Ticks, Elapsed
  <2>2. Begun' => \/ op' = op /\ step' = 4 /\ since' = since + 1
                  \/ step' = 5 /\ since = 2
    BY <1>3, <2>1, Turns DEF Waits, Takes
  <2>3. CASE clock_spi_negedge
    <3>1. spi_state' = "TRANSCEIVING" /\ bits_remaining' = 8
      BY <1>1, <1>3, <2>3 DEF Rest
    <3>2. clock_spi = FALSE /\ prev_clock_spi = TRUE /\ prev_clock_spi' = FALSE
      BY <2>3, Zenon DEF clock_spi_negedge, Ticks
    <3>3. CASE since = 0
      <4>1. clk_counter' = D /\ clock_spi' = TRUE
        BY <1>0, <2>1, <3>3 DEF Ticks, Restart
      <4>2. Phase' /\ Left' \in {16, 30}
        BY <1>0, <3>1, <3>2, <4>1, Entered
      <4>6. Active' /\ ~ Starting' /\ ~ spi_finished'
        BY <3>1 DEF Active, Starting, spi_finished
      <4>9. PICK l \in Nat, e \in Nat : l = Left' /\ 16 <= l /\ l <= 32 /\ e = Elapsed' /\ e <= 0 + 1
        BY <1>1, <2>1, <3>3, <4>2
      <4>10. e <= 3 /\ l <= 32 /\ 16 <= l
        BY <4>9
      <4>11. e + l <= 35 /\ 1 + l >= 17 /\ 3 + l >= 17
        BY <4>10
      <4>7. UnderWay'
        <5>1. e + l <= 35
          BY <4>11
        <5> QED BY <4>2, <4>9, <5>1 DEF UnderWay
      <4>8. Serving'
        <5>1. Begun' /\ step' = 4 => since' = 1
          BY <2>2, <3>3
        <5>2. 1 + l >= 17
          BY <4>11
        <5> QED BY <4>6, <4>9, <5>1, <5>2 DEF Serving
      <4> QED BY <4>6, <4>7, <4>8 DEF Entering, Ending
    <3>4. CASE since = 1
      BY <1>1, <1>3, <2>1, <3>2, <3>4 DEF Timing, Entering, Starting, Rest
    <3>5. CASE since = 2
      <4>1. clk_counter = 0
        BY <1>1, <1>3, <3>5 DEF Timing, Entering, Starting, Rest
      <4>2. clk_counter' = D
        BY <1>0, <2>1, <3>5, <4>1 DEF Ticks, Restart
      <4>3. clock_spi' = IF D = 0 THEN ~ clock_spi ELSE clock_spi
        BY <1>0, <2>1, <3>5, <4>1 DEF Ticks, Restart
      <4>4. clock_spi' = TRUE \/ (clock_spi' = FALSE /\ D = 1)
        BY <3>2, <4>3
      <4>5. Phase' /\ Left' \in {16, 30, 32}
        BY <1>0, <3>1, <3>2, <4>2, <4>4, Entered
      <4>6. Active' /\ ~ Starting' /\ ~ spi_finished'
        BY <3>1 DEF Active, Starting, spi_finished
      <4>9. PICK l \in Nat, e \in Nat : l = Left' /\ 16 <= l /\ l <= 32 /\ e = Elapsed' /\ e <= 2 + 1
        BY <1>1, <2>1, <3>5, <4>5
      <4>10. e <= 3 /\ l <= 32 /\ 16 <= l
        BY <4>9
      <4>11. e + l <= 35 /\ 1 + l >= 17 /\ 3 + l >= 17
        BY <4>10
      <4>7. UnderWay'
        <5>1. e + l <= 35
          BY <4>11
        <5> QED BY <4>5, <4>9, <5>1 DEF UnderWay
      <4>8. Serving'
        <5>1. Begun' /\ step' = 4 => since' = 3
          BY <2>2, <3>5
        <5>2. 3 + l >= 17
          BY <4>11
        <5> QED BY <4>6, <4>9, <5>1, <5>2 DEF Serving
      <4> QED BY <4>6, <4>7, <4>8 DEF Entering, Ending
    <3> QED BY <2>1, <3>3, <3>4, <3>5
  <2>4. CASE ~ clock_spi_negedge
    <3>1. spi_state' = "IDLE" /\ ~ Active' /\ ~ spi_finished'
      BY <2>4 DEF Rest, Active, spi_finished
    <3>2. since = 0 => clk_counter' = D /\ clock_spi'
      BY <1>0, <2>1 DEF Ticks, Restart
    <3>3. since = 1 => clk_counter = D /\ clock_spi = TRUE
      BY <1>0, <1>1, <1>3 DEF Timing, Entering, Starting, Rest, Ticks
    <3>4. since = 1 => clk_counter' = 0 /\ ~ clock_spi' /\ prev_clock_spi'
      <4>1. SUFFICES ASSUME since = 1 PROVE clk_counter' = 0 /\ ~ clock_spi' /\ prev_clock_spi'
        OBVIOUS
      <4>2. ~ Restart /\ clk_counter >= clkdivider
        BY <1>0, <2>1, <3>3, <4>1 DEF Restart
      <4>3. clk_counter' = 0 /\ clock_spi' = ~ clock_spi /\ prev_clock_spi' = clock_spi
        BY <4>2, Zenon DEF Ticks
      <4> QED BY <3>3, <4>1, <4>3
    <3>5. since # 2
      BY <1>1, <1>3, <2>4 DEF Timing, Entering, Starting, Rest, clock_spi_negedge
    <3> QED BY <1>0, <1>1, <2>1, <2>2, <3>1, <3>2, <3>4, <3>5 DEF Entering, UnderWay, Ending, Serving, Starting
  <2> QED BY <2>3, <2>4
<1> QED BY <1>2, <1>3

(* A transfer under way.                                                     *)
LEMMA ActiveTiming ==
  ASSUME Driven, Driven', Drives, Ticks, Timing, Active
  PROVE  Entering' /\ UnderWay' /\ Ending' /\ Serving'
<1> USE GapAssumption
<1>1. Phase /\ Elapsed + Left <= 35 /\ Left \in Nat
  BY LeftType DEF Timing, UnderWay
<1>2. PICK E \in Nat, F \in Nat, L \in Nat, t \in Nat, u \in Nat :
        E = Elapsed /\ F = Elapsed' /\ L = Left /\ t = since /\ u = since'
  BY <1>1, ElapsedType, ElapsedTypeNext DEF Driven
<1>3. F <= E + 1 /\ E + L <= 35
  BY <1>1, <1>2, ElapsedStep
<1>4. E <= 35
  BY <1>3
<1>5. ~ Restart
  BY DEF Timing, Turning, Active
<1>6. clkdivider = Divider
  <2>1. SUFFICES ASSUME op = "divider" PROVE FALSE
    BY DEF Ticks
  <2>2. Elapsed = 4 * Gap + CallGap + since
    BY <2>1 DEF Elapsed, Held
  <2> QED BY <1>2, <1>4, <2>2 DEF Gap
<1>7. ~ Starts
  BY RestsAtStart DEF Active
<1>8. Begun' /\ step' = 4 => /\ step = 4 /\ u = t + 1
                             /\ t + L >= 17 \/ t >= 17
  BY <1>2, <1>7, Turns DEF Timing, Serving, Waits, Takes, Active, Starting
<1>9. CASE spi_state' = "DONE" /\ Left = 1
  <2>1. ~ Starting' /\ ~ Active'
    BY <1>9 DEF Starting, Active
  <2>2. L = 1 /\ F <= 36
    BY <1>2, <1>3, <1>9
  <2>3. Begun' /\ step' = 4 => u >= 17
    BY <1>8, <2>2
  <2>4. Ending'
    BY <1>2, <2>2 DEF Ending
  <2>5. Serving'
    BY <1>2, <2>3 DEF Serving
  <2> QED BY <2>1, <2>4, <2>5 DEF Entering, UnderWay
<1>10. CASE Active' /\ Phase' /\ Left' = Left - 1
  <2>1. ~ Starting' /\ ~ spi_finished'
    BY <1>10 DEF Starting, Active, spi_finished
  <2>2. Left' = L - 1
    BY <1>2, <1>10
  <2>3. F + (L - 1) <= 35
    BY <1>3
  <2>4. UnderWay'
    BY <1>2, <1>10, <2>2, <2>3 DEF UnderWay
  <2>5. Begun' /\ step' = 4 => u + (L - 1) >= 17 \/ u >= 17
    BY <1>8
  <2>6. Serving'
    BY <1>2, <1>10, <2>2, <2>5 DEF Serving
  <2> QED BY <2>1, <2>4, <2>6 DEF Entering, Ending
<1> QED BY <1>1, <1>5, <1>6, <1>9, <1>10, ActiveStep

(* A transfer that is over, until tx_start is taken back.                    *)
LEMMA DoneTiming ==
  ASSUME Driven, Driven', Drives, Ticks, Timing, Finish
  PROVE  Entering' /\ UnderWay' /\ Ending' /\ Serving'
<1>1. spi_state = "DONE" /\ ~ Active /\ ~ Starting /\ (tx_start <=> Begun) /\ (tx_start' <=> Begun')
  BY DEF Finish, Active, Starting, Ticks
<1>2. ~ Starts
  BY <1>1, RestsAtStart
<1>3. Begun' => Begun
  BY <1>2, Turns
<1>4. ~ Active' /\ ~ Starting'
  BY <1>1, <1>3 DEF Finish, Active, Starting
<1>5. Ending'
  BY <1>1, Turns DEF Finish, Ending, spi_finished
<1>6. Serving'
  <2>1. SUFFICES ASSUME Begun', step' = 4 PROVE since' >= 17
    BY DEF Serving
  <2>2. step = 4 /\ since' = since + 1 /\ since >= 17 /\ since \in Nat
    BY <1>1, <1>2, <1>3, <2>1, Turns DEF Timing, Serving, Waits, Takes, Driven
  <2> QED BY <2>2
<1> QED BY <1>4, <1>5, <1>6 DEF Entering, UnderWay

(* The program and the controller keep pace.                                 *)
LEMMA TimingStep ==
  ASSUME Driven, Driven', Drives, Ticks, Timing
  PROVE  Timing'
<1>1. Entering' /\ UnderWay' /\ Ending' /\ Serving'
  BY RestTiming, ActiveTiming, DoneTiming DEF Ticks, Transceive, Active
<1>2. clk_counter' \in 0 .. clkdivider'
  <2>1. clkdivider <= clkdivider' /\ clkdivider \in {0, 1} /\ clkdivider' \in {0, 1}
    BY Turns DEF Ticks
  <2>2. clk_counter' \in 0 .. clkdivider
    BY <2>1 DEF Ticks, Timing
  <2> QED BY <2>1, <2>2
<1>3. Turning'
  <2>1. tx_start' <=> Begun'
    BY DEF Ticks
  <2>2. txstart_prev' <=> Begun
    BY DEF Ticks
  <2>3. Restart' => spi_state' = "IDLE" /\ ~ Begun
    BY RestsAtStart, Turns
  <2>4. Begun' => (Begun <=> ~ Restart')
    BY <2>3, Turns
  <2>5. ~ Begun' /\ Begun => step' = 1 /\ since' = 0
    BY Turns
  <2> QED BY <2>1, <2>2, <2>3, <2>4, <2>5 DEF Turning
<1> QED BY <1>1, <1>2, <1>3 DEF Timing

-----------------------------------------------------------------------------
(* The flash and what is in it.                                              *)

(* The weights of the bytes of a field.                                      *)
LEMMA Weights == \A i \in 0 .. 3 : 256 ^ i \in Nat \ {0} /\ 256 ^ (i + 1) = 256 * 256 ^ i
<1>1. 256 ^ 0 = 1
  OBVIOUS
<1>2. 256 ^ 1 = 256
  OBVIOUS
<1>3. 256 ^ 2 = 65536
  OBVIOUS
<1>4. 256 ^ 3 = 16777216
  OBVIOUS
<1>5. 256 ^ 4 = 4294967296
  OBVIOUS
<1>6. TAKE i \in 0 .. 3
<1>7. CASE i = 0
  BY <1>1, <1>2, <1>7
<1>8. CASE i = 1
  BY <1>2, <1>3, <1>8
<1>9. CASE i = 2
  BY <1>3, <1>4, <1>9
<1>10. CASE i = 3
  BY <1>4, <1>5, <1>10
<1> QED BY <1>7, <1>8, <1>9, <1>10

(* A number's bytes.                                                         *)
LEMMA LittleType ==
  ASSUME NEW n \in Nat
  PROVE  Little(n) \in Seq(0 .. 255) /\ Len(Little(n)) = FIELD_BYTES
<1>1. FIELD_BYTES \in Nat /\ FIELD_BYTES <= 4
  BY SectorAssumption
<1>2. \A i \in 1 .. FIELD_BYTES : (n \div 256 ^ (i - 1)) % 256 \in 0 .. 255
  <2>1. TAKE i \in 1 .. FIELD_BYTES
  <2>2. i - 1 \in 0 .. 3
    BY <1>1
  <2>3. PICK w \in Nat \ {0} : w = 256 ^ (i - 1)
    BY <2>2, Weights
  <2>4. n \div w \in Nat
    BY <2>3
  <2>5. (n \div w) % 256 \in 0 .. 255
    BY <2>4
  <2> QED BY <2>3, <2>5
<1>3. Little(n) \in [1 .. FIELD_BYTES -> 0 .. 255]
  BY <1>2 DEF Little
<1> QED BY <1>1, <1>3

(* An element of a sequence.                                                 *)
LEMMA Element ==
  ASSUME NEW S, NEW s \in Seq(S), NEW i \in 1 .. Len(s)
  PROVE  s[i] \in S
OBVIOUS

(* Two sequences behind each other.                                          *)
LEMMA Joined ==
  ASSUME NEW S, NEW s \in Seq(S), NEW t \in Seq(S)
  PROVE  /\ s \o t \in Seq(S) /\ Len(s \o t) = Len(s) + Len(t)
         /\ Len(s) \in Nat /\ Len(t) \in Nat
         /\ \A i \in 1 .. Len(s) : (s \o t)[i] = s[i]
         /\ \A i \in 1 .. Len(t) : (s \o t)[Len(s) + i] = t[i]
<1>1. s \o t \in Seq(S) /\ Len(s \o t) = Len(s) + Len(t)
  OBVIOUS
<1>2. Len(s) \in Nat /\ Len(t) \in Nat
  OBVIOUS
<1>3. \A i \in 1 .. Len(s) : (s \o t)[i] = s[i]
  OBVIOUS
<1>4. \A i \in 1 .. Len(t) : (s \o t)[Len(s) + i] = t[i]
  OBVIOUS
<1> QED BY <1>1, <1>2, <1>3, <1>4

(* The image of the flash: a header, a sector's padding, the data.           *)
LEMMA ImageShape ==
  ASSUME NEW data \in Images
  PROVE  /\ data \in Seq(0 .. 255) /\ Len(data) \in Nat
         /\ FlashImage(data) \in Seq(0 .. 255)
         /\ Len(FlashImage(data)) = SECTOR + Len(data)
         /\ \A i \in 1 .. FIELD_BYTES :
              /\ FlashImage(data)[i] = Little(Len(data) \div SECTOR + 1)[i]
              /\ FlashImage(data)[FIELD_BYTES + i] = Little(Len(data))[i]
         /\ \A i \in 1 .. Len(data) : FlashImage(data)[SECTOR + i] = data[i]
<1>0. /\ SECTOR \in Nat \ {0} /\ FIELD_BYTES \in Nat \ {0} /\ HEADER = 2 * FIELD_BYTES /\ SECTOR >= HEADER
      /\ SECTOR - HEADER \in Nat
  BY SectorAssumption DEF HEADER
<1>1. data \in Seq(0 .. 255) /\ Len(data) \in Nat
  BY ImageAssumption
<1>2. Len(data) \div SECTOR + 1 \in Nat
  BY <1>0, <1>1
<1> DEFINE A == Little(Len(data) \div SECTOR + 1)
           B == Little(Len(data))
           C == [i \in 1 .. SECTOR - HEADER |-> 255]
<1>3. /\ A \in Seq(0 .. 255) /\ Len(A) = FIELD_BYTES
      /\ B \in Seq(0 .. 255) /\ Len(B) = FIELD_BYTES
  BY <1>1, <1>2, LittleType
<1>4. C \in Seq(0 .. 255) /\ Len(C) = SECTOR - HEADER
  <2>1. C \in [1 .. SECTOR - HEADER -> 0 .. 255]
    OBVIOUS
  <2> QED BY <1>0, <2>1
<1>5. FlashImage(data) = A \o B \o C \o data
  BY DEF FlashImage
<1> HIDE DEF A, B, C
<1>6. /\ A \o B \in Seq(0 .. 255) /\ Len(A \o B) = HEADER
      /\ \A i \in 1 .. FIELD_BYTES : (A \o B)[i] = A[i] /\ (A \o B)[FIELD_BYTES + i] = B[i]
  <2>1. /\ A \o B \in Seq(0 .. 255) /\ Len(A \o B) = Len(A) + Len(B)
        /\ \A i \in 1 .. Len(A) : (A \o B)[i] = A[i]
        /\ \A i \in 1 .. Len(B) : (A \o B)[Len(A) + i] = B[i]
    BY <1>3, Joined
  <2> QED BY <1>0, <1>3, <2>1
<1> DEFINE AB == A \o B
<1>7. /\ AB \o C \in Seq(0 .. 255) /\ Len(AB \o C) = SECTOR
      /\ \A i \in 1 .. HEADER : (AB \o C)[i] = AB[i]
  <2>0. AB \in Seq(0 .. 255) /\ Len(AB) = HEADER
    BY <1>6
  <2> HIDE DEF AB
  <2>2. \A s, t \in Seq(0 .. 255) :
          /\ s \o t \in Seq(0 .. 255) /\ Len(s \o t) = Len(s) + Len(t)
          /\ \A i \in 1 .. Len(s) : (s \o t)[i] = s[i]
          /\ \A i \in 1 .. Len(t) : (s \o t)[Len(s) + i] = t[i]
    BY Joined
  <2>1. /\ AB \o C \in Seq(0 .. 255) /\ Len(AB \o C) = Len(AB) + Len(C)
        /\ \A i \in 1 .. Len(AB) : (AB \o C)[i] = AB[i]
    BY <1>4, <2>0, <2>2, Zenon
  <2> QED BY <1>0, <1>4, <2>0, <2>1
<1> DEFINE ABC == AB \o C
<1>8. /\ ABC \o data \in Seq(0 .. 255) /\ Len(ABC \o data) = SECTOR + Len(data)
      /\ \A i \in 1 .. SECTOR : (ABC \o data)[i] = ABC[i]
      /\ \A i \in 1 .. Len(data) : (ABC \o data)[SECTOR + i] = data[i]
  <2>0. ABC \in Seq(0 .. 255) /\ Len(ABC) = SECTOR
    BY <1>7
  <2> HIDE DEF ABC, AB
  <2>2. data \in Seq(0 .. 255)
    BY <1>1
  <2>1. /\ ABC \o data \in Seq(0 .. 255) /\ Len(ABC \o data) = Len(ABC) + Len(data)
        /\ \A i \in 1 .. Len(ABC) : (ABC \o data)[i] = ABC[i]
        /\ \A i \in 1 .. Len(data) : (ABC \o data)[Len(ABC) + i] = data[i]
    <3>1. \A s, t \in Seq(0 .. 255) :
            /\ s \o t \in Seq(0 .. 255) /\ Len(s \o t) = Len(s) + Len(t)
            /\ \A i \in 1 .. Len(s) : (s \o t)[i] = s[i]
            /\ \A i \in 1 .. Len(t) : (s \o t)[Len(s) + i] = t[i]
      BY Joined
    <3>2. ABC \in Seq(0 .. 255)
      BY <2>0
    <3> QED BY <2>2, <3>1, <3>2, Zenon
  <2> QED BY <1>0, <1>1, <2>0, <2>1
<1>9. \A i \in 1 .. FIELD_BYTES : FlashImage(data)[i] = A[i] /\ FlashImage(data)[FIELD_BYTES + i] = B[i]
  <2>1. TAKE i \in 1 .. FIELD_BYTES
  <2>2. i \in 1 .. HEADER /\ i \in 1 .. SECTOR /\ FIELD_BYTES + i \in 1 .. HEADER /\ FIELD_BYTES + i \in 1 .. SECTOR
    BY <1>0
  <2> QED BY <1>5, <1>6, <1>7, <1>8, <2>2
<1> QED BY <1>1, <1>5, <1>8, <1>9 DEF A, B

(* The flash holds bytes.                                                    *)
LEMMA StoredType ==
  ASSUME image \in Images, NEW i \in Nat
  PROVE  Stored(i) \in 0 .. 255
<1>1. FlashImage(image) \in Seq(0 .. 255) /\ Len(FlashImage(image)) = SECTOR + Len(image) /\ Len(image) \in Nat
  BY ImageShape
<1>2. CASE i < SECTOR + Len(image)
  <2>1. i + 1 \in 1 .. Len(FlashImage(image))
    BY <1>1, <1>2, SectorAssumption
  <2>2. FlashImage(image)[i + 1] \in 0 .. 255
    <3> DEFINE f == FlashImage(image)
    <3>1. f \in Seq(0 .. 255) /\ i + 1 \in 1 .. Len(f)
      BY <1>1, <2>1
    <3> HIDE DEF f
    <3>3. f[i + 1] \in 0 .. 255
      BY <3>1, Element
    <3> QED BY <3>3 DEF f
  <2> QED BY <1>2, <2>2 DEF Stored
<1>3. CASE ~ (i < SECTOR + Len(image))
  BY <1>3 DEF Stored, Erased
<1> QED BY <1>2, <1>3

-----------------------------------------------------------------------------
(* Program and controller keep pace.                                         *)

FlashType == flash \in [bits : Nat, cmd : Nat, addr : Nat, out : 0 .. 1]

(* The weights of the bits of a byte.                                        *)
LEMMA Powers ==
  /\ 2 ^ 0 = 1 /\ 2 ^ 1 = 2 /\ 2 ^ 2 = 4 /\ 2 ^ 3 = 8
  /\ 2 ^ 4 = 16 /\ 2 ^ 5 = 32 /\ 2 ^ 6 = 64 /\ 2 ^ 7 = 128 /\ 2 ^ 8 = 256
<1>1. 2 ^ 0 = 1 /\ 2 ^ 1 = 2 /\ 2 ^ 2 = 4 /\ 2 ^ 3 = 8
  OBVIOUS
<1>2. 2 ^ 4 = 16 /\ 2 ^ 5 = 32 /\ 2 ^ 6 = 64 /\ 2 ^ 7 = 128
  OBVIOUS
<1>3. 2 ^ 8 = 256
  OBVIOUS
<1> QED BY <1>1, <1>2, <1>3

(* The weights are positive.                                                 *)
LEMMA PowerType == \A s \in 0 .. 8 : 2 ^ s \in Nat \ {0}
<1>1. TAKE s \in 0 .. 8
<1>2. CASE s = 0
  BY <1>2, Powers
<1>3. CASE s = 1
  BY <1>3, Powers
<1>4. CASE s = 2
  BY <1>4, Powers
<1>5. CASE s = 3
  BY <1>5, Powers
<1>6. CASE s = 4
  BY <1>6, Powers
<1>7. CASE s = 5
  BY <1>7, Powers
<1>8. CASE s = 6
  BY <1>8, Powers
<1>9. CASE s = 7
  BY <1>9, Powers
<1>10. CASE s = 8
  BY <1>10, Powers
<1> QED BY <1>2, <1>3, <1>4, <1>5, <1>6, <1>7, <1>8, <1>9, <1>10

(* A bit of a byte.                                                          *)
LEMMA AnswerType ==
  ASSUME image \in Images, NEW addr \in Nat, NEW n \in Nat
  PROVE  Answer(addr, n) \in 0 .. 1
<1>1. (addr \div 256) * SECTOR + (addr % 256) + (n \div 8) \in Nat
  <2>1. addr \div 256 \in Nat /\ addr % 256 \in Nat /\ n \div 8 \in Nat /\ SECTOR \in Nat
    BY SectorAssumption
  <2>2. (addr \div 256) * SECTOR \in Nat
    BY <2>1
  <2> QED BY <2>1, <2>2
<1>2. PICK b \in 0 .. 255 : b = Stored((addr \div 256) * SECTOR + (addr % 256) + (n \div 8))
  BY <1>1, StoredType
<1>3. PICK w \in Nat \ {0} : w = 2 ^ (7 - (n % 8))
  <2>1. PICK s \in 0 .. 8 : s = 7 - (n % 8)
    OBVIOUS
  <2> QED BY <2>1, PowerType
<1>4. b \div w \in Nat
  OBVIOUS
<1>5. (b \div w) % 2 \in 0 .. 1
  BY <1>4
<1> QED BY <1>2, <1>3, <1>5 DEF Answer

(* The flash keeps the types of its registers.                               *)
LEMMA FlashTypeStep ==
  ASSUME image \in Images, FlashType, FlashSees, ControllerInv'
  PROVE  FlashType'
<1>1. data_tx' \in 0 .. 1
  <2>1. 256 \div 2 = 128 /\ Full = 256
    <3>1. 2 ^ 8 = 256
      OBVIOUS
    <3> QED BY <3>1, FlashAssumption DEF Full
  <2>2. shift_out' \in 0 .. 255
    BY <2>1 DEF ControllerInv, ControllerTypeOK
  <2>3. PICK v \in 0 .. 255 : v = shift_out'
    BY <2>2
  <2>4. v \div 128 \in 0 .. 1
    OBVIOUS
  <2> QED BY <2>1, <2>3, <2>4 DEF data_tx
<1>2. /\ flash.bits \in Nat /\ flash.cmd \in Nat /\ flash.addr \in Nat /\ flash.out \in 0 .. 1
  BY DEF FlashType
<1>3. flash.bits >= 32 => Answer(flash.addr, flash.bits - 32) \in 0 .. 1
  BY <1>2, AnswerType
<1>4. CASE cs'
  BY <1>4 DEF FlashSees, FlashType, Deselected
<1>5. CASE ~ cs' /\ sclk' /\ ~ sclk
  <2>1. flash' = [flash EXCEPT !.bits = @ + 1,
                              !.cmd  = IF flash.bits < 8 THEN @ * 2 + data_tx' ELSE @,
                              !.addr = IF flash.bits \in 8 .. 31 THEN @ * 2 + data_tx' ELSE @]
    BY <1>5 DEF FlashSees
  <2>2. /\ flash.bits + 1 \in Nat /\ flash.cmd * 2 + data_tx' \in Nat /\ flash.addr * 2 + data_tx' \in Nat
    BY <1>1, <1>2
  <2> QED BY <1>2, <2>1, <2>2 DEF FlashType
<1>6. CASE ~ cs' /\ ~ (sclk' /\ ~ sclk) /\ sclk /\ ~ sclk' /\ flash.cmd = 3 /\ flash.bits >= 32
  BY <1>3, <1>6 DEF FlashSees, FlashType
<1>7. CASE ~ cs' /\ ~ (sclk' /\ ~ sclk) /\ ~ (sclk /\ ~ sclk' /\ flash.cmd = 3 /\ flash.bits >= 32)
  <2>1. flash' = flash
    BY <1>7 DEF FlashSees
  <2> QED BY <2>1 DEF FlashType
<1> QED BY <1>4, <1>5, <1>6, <1>7

-----------------------------------------------------------------------------
\* The inductive invariant of a program that drives the controller.
PaceInv == main \in Mains /\ image \in Images /\ Driven /\ ControllerInv /\ FlashType /\ Timing

(* The invariant of the timing holds at the start, ...                       *)
LEMMA PaceInit == Init => PaceInv
<1> SUFFICES ASSUME Init PROVE PaceInv
  OBVIOUS
<1>1. ControllerInv
  BY InitInv DEF Init
<1>2. Driven
  BY DEF Init, ControllerInit, Driven, Held, Begun, Calls, Parts
<1>3. FlashType
  BY DEF Init, Deselected, FlashType
<1>4. clkdivider = 0 /\ ~ tx_start
  BY DEF Init, ControllerInit, clkdivider, tx_start
<1>5. Timing
  BY <1>4 DEF Init, ControllerInit, Timing, Turning, Entering, UnderWay, Ending, Serving,
              Active, Starting, Restart, Begun, spi_finished
<1> QED BY <1>1, <1>2, <1>3, <1>5 DEF PaceInv, Init

\* What a step of the loader is, under the invariant.
Pace == /\ Driven' /\ main' = main /\ image' = image /\ Drives /\ Ticks
        /\ \E access \in BusAccess : Edge(access)

(* ... every step keeps it, ...                                              *)
LEMMA PaceStep ==
  ASSUME PaceInv, Next
  PROVE  PaceInv' /\ Pace
<1>1. Driven /\ main \in Mains /\ image \in Images /\ ControllerInv /\ FlashType /\ Timing
  BY DEF PaceInv
<1>2. Driven' /\ main' = main /\ Drives /\ Clocked
  BY <1>1, ProgramStep
<1>3. image' = image
  BY DEF Next, Access, Wait, SetDivider, LoadControl, Select, Deselect, Transmit, SetTx, LoadRx,
         CommandByte, HeaderByte, RestByte, DataByte, ClearTx, At
<1>4. flash.out \in 0 .. 1
  BY <1>1 DEF FlashType
<1>5. PICK access \in BusAccess : Edge(access)
  BY <1>2 DEF Clocked
<1>6. ControllerInv'
  BY <1>1, <1>4, <1>5, StepInv DEF Edge, ControllerNext
<1>7. FlashType'
  BY <1>1, <1>5, <1>6, FlashTypeStep DEF Edge
<1>8. Ticks
  BY <1>1, <1>2, <1>4, <1>6, Ticking
<1>9. Timing'
  BY <1>1, <1>2, <1>8, TimingStep
<1> QED BY <1>1, <1>2, <1>3, <1>5, <1>6, <1>7, <1>8, <1>9 DEF PaceInv, Pace

(* ... and so does a step that changes nothing.                              *)
LEMMA PaceStutter == PaceInv /\ UNCHANGED vars => PaceInv'
<1> SUFFICES ASSUME PaceInv, UNCHANGED vars PROVE PaceInv'
  OBVIOUS
<1> USE DEF vars, controller, registers, clockgen, transaction, program
<1>1. /\ main' = main /\ image' = image /\ since' = since /\ flash' = flash
      /\ UNCHANGED <<op, step, part, k, si, control_orig, control, spi_state, clk_counter, txstart_prev>>
      /\ UNCHANGED <<clock_spi, prev_clock_spi, bits_remaining>>
  OBVIOUS
<1>2. ControllerInv'
  BY StepInv DEF PaceInv
<1>3. FlashType'
  BY <1>1 DEF PaceInv, FlashType
<1>4. Driven'
  BY <1>1 DEF PaceInv, Driven, Divider, Held, Begun
<1>5. Timing'
  BY <1>1 DEF PaceInv, Timing, Turning, Entering, UnderWay, Ending, Serving, Active, Starting, Restart, Begun,
              spi_finished, tx_start, clkdivider, Elapsed, Left, Phase, Fresh, Rising, Toggle, Divider, Held
<1> QED BY <1>1, <1>2, <1>3, <1>4, <1>5 DEF PaceInv

\* However long the instructions between the accesses take, within the gaps,
\* the program and the controller keep pace.
THEOREM LoaderKeepsPace == Spec => []PaceInv
<1>1. PaceInv /\ [Next]_vars => PaceInv'
  BY PaceStep, PaceStutter
<1> QED BY PaceInit, <1>1, PTL DEF Spec

\* The controller's registers stay in their widths, under the loader.
THEOREM LoaderTypeCorrect == Spec => []ControllerTypeOK
<1>1. PaceInv => ControllerTypeOK
  BY DEF PaceInv, ControllerInv
<1> QED BY LoaderKeepsPace, <1>1, PTL

\* The loader sets tx_start only when the controller is at rest: a start in
\* a transfer would restart the clock within a byte (spi.sv:93).
THEOREM StartsWhenIdle == Spec => StartsAtRest
<1>1. PaceInv /\ [Next]_vars => [tx_start' /\ ~ tx_start => spi_state = "IDLE"]_vars
  <2>1. SUFFICES ASSUME PaceInv, Next, tx_start', ~ tx_start PROVE spi_state = "IDLE"
    OBVIOUS
  <2>2. Driven /\ Timing /\ Driven' /\ Drives /\ Ticks
    BY <2>1, PaceStep DEF PaceInv, Pace
  <2>3. Begun' /\ ~ Begun
    BY <2>1, <2>2 DEF Ticks
  <2>4. Starts
    BY <2>2, <2>3, Turns
  <2> QED BY <2>2, <2>4, RestsAtStart
<1> QED BY LoaderKeepsPace, <1>1, PTL DEF Spec, StartsAtRest

\* The loader and the flash are a bus and a device that the controller's own
\* specification allows.
THEOREM LoaderDrivesController == Spec => ControllerSpec
<1>1. PaceInv /\ [Next]_vars => [ControllerNext]_controller
  <2>1. CASE UNCHANGED vars
    BY <2>1 DEF vars
  <2>2. ASSUME PaceInv, Next PROVE ControllerNext
    <3>1. flash.out \in 0 .. 1
      BY <2>2 DEF PaceInv, FlashType
    <3>2. PICK access \in BusAccess : Edge(access)
      BY <2>2, PaceStep DEF Pace
    <3> QED BY <3>1, <3>2 DEF ControllerNext, Edge
  <2> QED BY <2>1, <2>2
<1>2. Init => ControllerInit
  BY DEF Init
<1> QED BY LoaderKeepsPace, <1>1, <1>2, PTL DEF Spec, ControllerSpec

-----------------------------------------------------------------------------
(* Bits and bytes.                                                           *)

(* Each weight is twice the one before.                                      *)
LEMMA PowerStep == \A s \in 0 .. 7 : 2 ^ (s + 1) = 2 * 2 ^ s
<1>1. TAKE s \in 0 .. 7
<1>2. CASE s = 0
  BY <1>2, Powers
<1>3. CASE s = 1
  BY <1>3, Powers
<1>4. CASE s = 2
  BY <1>4, Powers
<1>5. CASE s = 3
  BY <1>5, Powers
<1>6. CASE s = 4
  BY <1>6, Powers
<1>7. CASE s = 5
  BY <1>7, Powers
<1>8. CASE s = 6
  BY <1>8, Powers
<1>9. CASE s = 7
  BY <1>9, Powers
<1> QED BY <1>2, <1>3, <1>4, <1>5, <1>6, <1>7, <1>8, <1>9

(* One bit more of a byte.                                                   *)
LEMMA TopNext ==
  ASSUME NEW x \in 0 .. 255, NEW s \in 0 .. 7
  PROVE  /\ Top(x, s) \in 0 .. 127
         /\ Top(x, s + 1) = 2 * Top(x, s) + Bit(x, 7 - s)
<1>1. 8 - (s + 1) = 7 - s
  OBVIOUS
<1>2. CASE s = 0
  BY <1>2, Powers DEF Top, Bit
<1>3. CASE s = 1
  BY <1>3, Powers DEF Top, Bit
<1>4. CASE s = 2
  BY <1>4, Powers DEF Top, Bit
<1>5. CASE s = 3
  BY <1>5, Powers DEF Top, Bit
<1>6. CASE s = 4
  BY <1>6, Powers DEF Top, Bit
<1>7. CASE s = 5
  BY <1>7, Powers DEF Top, Bit
<1>8. CASE s = 6
  BY <1>8, Powers DEF Top, Bit
<1>9. CASE s = 7
  BY <1>9, Powers DEF Top, Bit
<1> QED BY <1>2, <1>3, <1>4, <1>5, <1>6, <1>7, <1>8, <1>9

(* None of the bits, and all of them.                                        *)
LEMMA TopEnds ==
  ASSUME NEW x \in 0 .. 255
  PROVE  Top(x, 0) = 0 /\ Top(x, 8) = x
BY Powers DEF Top, Bit

(* The shift register shows the bits of a byte, the highest first.           *)
LEMMA ShiftNext ==
  ASSUME NEW x \in 0 .. 255, NEW s \in 0 .. 7
  PROVE  /\ Out(x, s) \in 0 .. 255
         /\ Out(x, s) \div 128 = Bit(x, 7 - s)
         /\ (Out(x, s) * 2) % 256 = Out(x, s + 1)
<1>2. CASE s = 0
  BY <1>2, Powers DEF Out, Bit
<1>3. CASE s = 1
  BY <1>3, Powers DEF Out, Bit
<1>4. CASE s = 2
  BY <1>4, Powers DEF Out, Bit
<1>5. CASE s = 3
  BY <1>5, Powers DEF Out, Bit
<1>6. CASE s = 4
  BY <1>6, Powers DEF Out, Bit
<1>7. CASE s = 5
  BY <1>7, Powers DEF Out, Bit
<1>8. CASE s = 6
  BY <1>8, Powers DEF Out, Bit
<1>9. CASE s = 7
  BY <1>9, Powers DEF Out, Bit
<1> QED BY <1>2, <1>3, <1>4, <1>5, <1>6, <1>7, <1>8, <1>9

(* The place of a bit, and that of the next.                                 *)
LEMMA BitPlace ==
  ASSUME NEW j \in Nat, NEW s \in 0 .. 7
  PROVE  /\ (8 * j + s) \div 8 = j /\ (8 * j + s) % 8 = s
         /\ s = 7 => (8 * j + s + 1) \div 8 = j + 1 /\ (8 * j + s + 1) % 8 = 0
         /\ s < 7 => (8 * j + s + 1) \div 8 = j /\ (8 * j + s + 1) % 8 = s + 1
OBVIOUS

(* The command consists of bytes.                                            *)
LEMMA SentType ==
  ASSUME NEW h \in 0 .. 255, NEW l \in 0 .. 255, NEW j \in Nat
  PROVE  Sent(h, l, j) \in 0 .. 255
BY DEF Sent

(* What the flash has after n bits, and after b.                             *)
TakesBit(h, l, n, b) ==
  /\ CmdAfter(n + 1) = IF n < 8 THEN CmdAfter(n) * 2 + b ELSE CmdAfter(n)
  /\ AddrAfter(h, l, n + 1) = IF n \in 8 .. 31 THEN AddrAfter(h, l, n) * 2 + b ELSE AddrAfter(h, l, n)

LEMMA CommandBit ==
  ASSUME NEW h \in 0 .. 255, NEW l \in 0 .. 255, NEW j \in Nat, NEW s \in 0 .. 7,
         NEW b \in 0 .. 1, j <= 3 => b = Bit(Sent(h, l, j), 7 - s)
  PROVE  TakesBit(h, l, 8 * j + s, b)
<1> DEFINE n == 8 * j + s
           c == Sent(h, l, j)
<1>1. n \in Nat /\ n \div 8 = j /\ n % 8 = s
      /\ (s = 7 => (n + 1) \div 8 = j + 1 /\ (n + 1) % 8 = 0)
      /\ (s < 7 => (n + 1) \div 8 = j /\ (n + 1) % 8 = s + 1)
      /\ (n < 8 <=> j = 0) /\ (n \in 8 .. 31 <=> j \in 1 .. 3) /\ (n >= 32 <=> j >= 4)
  BY BitPlace
<1>2. c \in 0 .. 255
  BY SentType
<1>3. Top(c, s) \in 0 .. 127 /\ (j <= 3 => Top(c, s + 1) = 2 * Top(c, s) + b)
  BY <1>2, TopNext
<1>4. Top(c, 8) = c /\ \A j2 \in Nat : Top(Sent(h, l, j2), 0) = 0
  BY <1>2, SentType, TopEnds
<1>5. PICK p \in Nat \ {0} : p = 2 ^ s /\ 2 ^ (s + 1) = 2 * p
  <2>1. s \in 0 .. 8
    OBVIOUS
  <2> QED BY <2>1, PowerType, PowerStep
<1>6. PICK t \in Nat, u \in Nat : t = Top(c, s) /\ u = Top(c, s + 1) /\ (j <= 3 => u = 2 * t + b)
  <2>1. PICK t \in Nat : t = Top(c, s)
    BY <1>3
  <2>2. s + 1 < 8 => Top(c, s + 1) \in 0 .. 127
    <3>1. s + 1 < 8 => s + 1 \in 0 .. 7
      OBVIOUS
    <3> QED BY <1>2, <3>1, TopNext
  <2>3. Top(c, s + 1) \in Nat
    <3>1. CASE s = 7
      BY <1>2, <1>4, <3>1
    <3>2. CASE s < 7
      BY <2>2, <3>2
    <3> QED BY <3>1, <3>2
  <2> QED BY <1>3, <2>1, <2>3
<1>7. j = 0 => c = 3
  BY DEF Sent
<1> HIDE DEF n, c
<1>8. CmdAfter(n + 1) = IF n < 8 THEN CmdAfter(n) * 2 + b ELSE CmdAfter(n)
  <2>1. CASE j = 0 /\ s < 7
    <3>1. n = s
      BY <2>1 DEF n
    <3>2. CmdAfter(n + 1) = u /\ CmdAfter(n) = t
      BY <1>6, <1>7, <2>1, <3>1 DEF CmdAfter
    <3> QED BY <1>1, <1>6, <2>1, <3>2
  <2>2. CASE j = 0 /\ s = 7
    <3>1. n = 7
      BY <2>2 DEF n
    <3>2. CmdAfter(n + 1) = 3 /\ CmdAfter(n) = t
      BY <1>6, <1>7, <2>2, <3>1 DEF CmdAfter
    <3>3. u = 3
      BY <1>4, <1>6, <1>7, <2>2
    <3> QED BY <1>1, <1>6, <2>2, <3>2, <3>3
  <2>3. CASE j # 0
    BY <1>1, <2>3 DEF CmdAfter
  <2> QED BY <2>1, <2>2, <2>3
<1>9. AddrAfter(h, l, n + 1) = IF n \in 8 .. 31 THEN AddrAfter(h, l, n) * 2 + b ELSE AddrAfter(h, l, n)
  <2>1. CASE j = 0
    <3>1. n = s /\ ~ (n \in 8 .. 31) /\ AddrAfter(h, l, n) = 0
      BY <2>1 DEF n, AddrAfter
    <3>2. CASE s < 7
      BY <3>1, <3>2 DEF AddrAfter
    <3>3. CASE s = 7
      <4>1. n + 1 = 8 /\ 8 \div 8 = 1 /\ 8 % 8 = 0
        BY <3>1, <3>3
      <4>2. Top(Sent(h, l, 1), 0) = 0 /\ Prior(h, l, 1) = 0
        BY <1>4 DEF Prior
      <4>3. AddrAfter(h, l, 8) = Prior(h, l, 1) * 2 ^ 0 + Top(Sent(h, l, 1), 0)
        BY <4>1 DEF AddrAfter
      <4> QED BY <3>1, <4>1, <4>2, <4>3, Powers
    <3> QED BY <3>2, <3>3
  <2>2. CASE j >= 4
    BY <1>1, <2>2 DEF AddrAfter
  <2>3. CASE j \in 1 .. 3
    <3>0. PICK q \in Nat : q = Prior(h, l, j)
      BY <2>3 DEF Prior
    <3>1. AddrAfter(h, l, n) = q * p + t
      <4>1. AddrAfter(h, l, n) = Prior(h, l, n \div 8) * 2 ^ (n % 8) + Top(Sent(h, l, n \div 8), n % 8)
        BY <1>1, <2>3 DEF AddrAfter
      <4>2. AddrAfter(h, l, n) = Prior(h, l, j) * 2 ^ s + Top(Sent(h, l, j), s)
        BY <1>1, <4>1
      <4> QED BY <1>5, <1>6, <3>0, <4>2 DEF c
    <3>2. (q * p + t) * 2 + b = q * (2 * p) + u
      <4>1. (q * p) * 2 = q * (2 * p)
        OBVIOUS
      <4>2. PICK m \in Nat : m = q * p
        OBVIOUS
      <4> QED BY <1>6, <2>3, <4>1, <4>2
    <3>3. AddrAfter(h, l, n + 1) = q * (2 * p) + u
      <4>1. CASE s < 7
        <5>1. n + 1 < 32 /\ n + 1 >= 8 /\ n + 1 \in Nat
          BY <1>1, <2>3, <4>1 DEF n
        <5> QED BY <1>1, <1>5, <1>6, <3>0, <4>1, <5>1 DEF AddrAfter, c
      <4>2. CASE s = 7
        <5>1. 2 * p = 256 /\ u = c
          BY <1>4, <1>5, <1>6, <4>2, Powers
        <5>2. CASE j < 3
          <6>1. n + 1 < 32 /\ n + 1 >= 8 /\ n + 1 \in Nat
            BY <1>1, <2>3, <4>2, <5>2 DEF n
          <6>2. AddrAfter(h, l, n + 1) = Prior(h, l, j + 1)
            <7>1. AddrAfter(h, l, n + 1) = Prior(h, l, (n + 1) \div 8) * 2 ^ ((n + 1) % 8)
                                              + Top(Sent(h, l, (n + 1) \div 8), (n + 1) % 8)
              BY <6>1 DEF AddrAfter
            <7>2. AddrAfter(h, l, n + 1) = Prior(h, l, j + 1) * 2 ^ 0 + Top(Sent(h, l, j + 1), 0)
              BY <1>1, <4>2, <7>1
            <7>3. Prior(h, l, j + 1) \in Nat /\ Top(Sent(h, l, j + 1), 0) = 0
              BY <1>4 DEF Prior
            <7> QED BY <7>2, <7>3, Powers
          <6>3. Prior(h, l, j + 1) = q * 256 + c
            BY <2>3, <3>0, <5>2 DEF Prior, c, Sent
          <6> QED BY <5>1, <6>2, <6>3
        <5>3. CASE j = 3
          <6>1. n + 1 = 32
            BY <4>2, <5>3 DEF n
          <6>2. q = h * 256 + l /\ c = 0
            BY <3>0, <5>3 DEF Prior, c, Sent
          <6> QED BY <5>1, <6>1, <6>2 DEF AddrAfter
        <5> QED BY <2>3, <5>2, <5>3
      <4> QED BY <4>1, <4>2
    <3> QED BY <1>1, <2>3, <3>1, <3>2, <3>3
  <2> QED BY <2>1, <2>2, <2>3
<1> QED BY <1>8, <1>9 DEF n, TakesBit

-----------------------------------------------------------------------------
(* What flash and controller exchange.                                       *)

(* The bytes are counted from zero.                                          *)
LEMMA IndexType == Driven => Index \in Nat
<1>1. HEADER \in Nat
  BY SectorAssumption DEF HEADER
<1> QED BY <1>1 DEF Driven, Parts, Index

(* Which byte the next transfer is for.                                      *)
Counts ==
  /\ Prepared'
  /\ Held /\ Held' => si' = si /\ Index' = Index + IF Ends THEN 1 ELSE 0
  /\ ~ Held /\ Held' => op' = "transfer" /\ step' = 1 /\ part' = "command" /\ k' = 0

(* A step counts a byte when its transfer ends, and prepares the next one.   *)
LEMMA ProgramData ==
  ASSUME Driven, Prepared, Next
  PROVE  Counts
<1>0. op = "transfer" /\ step >= 2 /\ part = "command" => dataout = Command
  BY DEF Prepared
<1>a. op = "transfer" /\ part = "header" => k < HEADER
  BY DEF Prepared
<1>b. step \in 1 .. 5 /\ k \in Nat /\ Index \in Nat /\ part \in Parts
  BY IndexType DEF Driven
<1>1. CASE Wait \/ LoadControl \/ SetTx \/ LoadRx
  <2>1. UNCHANGED <<op, part, k, si>> /\ dataout' = dataout /\ (op = "transfer" /\ step' >= 2 => step >= 2)
    BY <1>1, <1>b, Written DEF Wait, LoadControl, SetTx, LoadRx, NextStep, program, At
  <2>2. ~ Ends
    BY <1>1, <1>b DEF Ends, Wait, LoadControl, SetTx, LoadRx, NextStep, program, At
  <2>3. Index' = Index /\ Command' = Command /\ (Held' <=> Held)
    BY <2>1 DEF Index, Command, Held
  <2>4. Prepared'
    BY <1>0, <1>a, <2>1, <2>3 DEF Prepared
  <2> QED BY <1>b, <2>1, <2>2, <2>3, <2>4 DEF Counts
<1>2. CASE SetDivider
  <2>1. op' = "select" /\ ~ Held'
    BY <1>2 DEF SetDivider, Held
  <2> QED BY <2>1 DEF Counts, Prepared
<1>3. CASE Deselect
  <2>1. op' \in {"end", "select", "jump"} /\ ~ Held'
    BY <1>3 DEF Deselect, Held
  <2> QED BY <2>1 DEF Counts, Prepared
<1>4. CASE Select
  <2>1. op' = "transfer" /\ step' = 1 /\ part' = "command" /\ k' = 0 /\ ~ Held
    BY <1>4 DEF Select, Held, At
  <2> QED BY <2>1 DEF Counts, Prepared
<1>5. CASE Transmit
  <2>1. UNCHANGED <<op, part, k, si>> /\ op = "transfer" /\ step' = 2
    BY <1>5 DEF Transmit, NextStep, At
  <2>2. ~ Ends
    BY <1>5 DEF Ends, Transmit, At
  <2>3. Index' = Index /\ Command' = Command /\ (Held' <=> Held)
    BY <2>1 DEF Index, Command, Held
  <2>4. part = "command" => dataout' = Command
    BY <1>5, Written DEF Transmit
  <2>5. Prepared'
    BY <1>a, <2>1, <2>3, <2>4 DEF Prepared
  <2> QED BY <1>b, <2>1, <2>2, <2>3, <2>5 DEF Counts
<1>6. CASE CommandByte
  <2>1. op = "transfer" /\ step = 5 /\ part = "command" /\ op' = op /\ step' = 1 /\ si' = si
    BY <1>6 DEF CommandByte, ClearTx, At
  <2>2. k \in 0 .. 4
    BY <2>1 DEF Driven
  <2>3. \/ k < 4 /\ k' = k + 1 /\ part' = "command"
        \/ k = 4 /\ k' = 0 /\ part' \in {"header", "data"}
    BY <1>6, <2>1, <2>2 DEF CommandByte, CommandLength
  <2>4. Index' = Index + 1
    BY <2>1, <2>2, <2>3 DEF Index
  <2>5. HEADER > 0
    BY SectorAssumption DEF HEADER
  <2>6. Ends
    BY <2>1 DEF Ends
  <2> QED BY <2>1, <2>3, <2>4, <2>5, <2>6 DEF Counts, Prepared, Held
<1>7. CASE HeaderByte
  <2>1. op = "transfer" /\ step = 5 /\ part = "header" /\ op' \in {"transfer", "panic", "deselect"} /\ step' = 1 /\ si' = si
    BY <1>7 DEF HeaderByte, ClearTx, At
  <2>2. k < HEADER /\ HEADER \in Nat
    BY <1>a, <2>1, SectorAssumption DEF HEADER
  <2>3. \/ k + 1 < HEADER /\ k' = k + 1 /\ part' = "header"
        \/ k + 1 = HEADER /\ k' = 0 /\ part' = "rest"
    <3>1. CASE k + 1 < HEADER
      BY <1>7, <2>1, <3>1 DEF HeaderByte
    <3>2. CASE ~ (k + 1 < HEADER)
      <4>1. k + 1 = HEADER
        BY <1>b, <2>2, <3>2
      <4> QED BY <1>7, <3>2, <4>1 DEF HeaderByte
    <3> QED BY <3>1, <3>2
  <2>4. Index' = Index + 1
    BY <1>b, <2>1, <2>2, <2>3 DEF Index
  <2>6. Ends
    BY <2>1 DEF Ends
  <2> QED BY <2>1, <2>3, <2>4, <2>6 DEF Counts, Prepared, Held
<1>8. CASE RestByte \/ DataByte
  <2>1. /\ op = "transfer" /\ step = 5 /\ part \in {"rest", "data"} /\ op' \in {"transfer", "deselect"}
        /\ step' = 1 /\ si' = si /\ part' = part /\ k' = k + 1
    BY <1>8 DEF RestByte, DataByte, ClearTx, At
  <2>2. HEADER \in Nat
    BY SectorAssumption DEF HEADER
  <2>4. Index' = Index + 1
    BY <1>b, <2>1, <2>2 DEF Index
  <2>6. Ends
    BY <2>1 DEF Ends
  <2> QED BY <2>1, <2>4, <2>6 DEF Counts, Prepared, Held
<1> QED BY <1>1, <1>2, <1>3, <1>4, <1>5, <1>6, <1>7, <1>8 DEF Next, Access

(* Bytes and bits of the flash.                                              *)
LEMMA ByteType ==
  ASSUME image \in Images, NEW i \in Nat
  PROVE  Byte(image, i) = Stored(i) /\ Byte(image, i) \in 0 .. 255
<1>1. Byte(image, i) = Stored(i)
  BY DEF Byte, Stored
<1> QED BY <1>1, StoredType

(* A bit of a stream of bytes, the highest of each first.                    *)
LEMMA BitIs ==
  ASSUME image \in Images, NEW base \in Nat, NEW e \in Nat, NEW s \in 0 .. 7
  PROVE  BitOf(image, base, 8 * e + s) = Bit(Byte(image, base + e), 7 - s)
<1>1. (8 * e + s) \div 8 = e /\ (8 * e + s) % 8 = s
  BY BitPlace
<1> QED BY <1>1 DEF BitOf

(* The flash answers with the bytes of the sector addressed.                 *)
LEMMA AnswerIs ==
  ASSUME image \in Images, NEW a \in Nat, NEW n \in Nat
  PROVE  Answer(a * 256, n) = BitOf(image, a * SECTOR, n)
<1>1. (a * 256) \div 256 = a /\ (a * 256) % 256 = 0
  OBVIOUS
<1>2. a * SECTOR \in Nat /\ n \div 8 \in Nat
  BY SectorAssumption
<1>3. a * SECTOR + 0 + (n \div 8) = a * SECTOR + (n \div 8) /\ a * SECTOR + (n \div 8) \in Nat
  BY <1>2
<1>4. Answer(a * 256, n) = Bit(Stored(a * SECTOR + (n \div 8)), 7 - (n % 8))
  BY <1>1, <1>3 DEF Answer, Bit
<1> QED BY <1>3, <1>4, ByteType DEF BitOf

\* It has taken n bits of the command for the sector at h and l, and answers
\* with a bit of that sector.
Holds(h, l, n) == flash.bits = n /\ flash.cmd = CmdAfter(n) /\ flash.addr = AddrAfter(h, l, n)
Answers(h, l, n) == n >= 32 => flash.out = BitOf(image, (h * 256 + l) * SECTOR, n - 32)

(* What the flash makes of a rising edge.                                    *)
LEMMA RiseSeen ==
  ASSUME FlashType, FlashSees, ~ cs', sclk', ~ sclk, NEW b \in 0 .. 1, b = data_tx',
         NEW h \in 0 .. 255, NEW l \in 0 .. 255, NEW n \in Nat, Holds(h, l, n), TakesBit(h, l, n, b)
  PROVE  Holds(h, l, n + 1)' /\ flash'.out = flash.out
<1>1. flash' = [flash EXCEPT !.bits = @ + 1,
                             !.cmd  = IF flash.bits < 8 THEN @ * 2 + b ELSE @,
                             !.addr = IF flash.bits \in 8 .. 31 THEN @ * 2 + b ELSE @]
  BY DEF FlashSees
<1>2. /\ flash'.bits = flash.bits + 1 /\ flash'.out = flash.out
      /\ flash'.cmd = IF flash.bits < 8 THEN flash.cmd * 2 + b ELSE flash.cmd
      /\ flash'.addr = IF flash.bits \in 8 .. 31 THEN flash.addr * 2 + b ELSE flash.addr
  BY <1>1 DEF FlashType
<1>3. flash.bits = n /\ flash.cmd = CmdAfter(n) /\ flash.addr = AddrAfter(h, l, n)
  BY DEF Holds
<1>4. flash'.bits = n + 1 /\ flash'.cmd = CmdAfter(n + 1) /\ flash'.addr = AddrAfter(h, l, n + 1)
  BY <1>2, <1>3 DEF TakesBit
<1> QED BY <1>2, <1>4 DEF Holds

(* On a falling edge it answers with the next bit.                           *)
LEMMA FallSeen ==
  ASSUME image \in Images, image' = image, FlashType, FlashSees, ~ cs', sclk, ~ sclk',
         NEW h \in 0 .. 255, NEW l \in 0 .. 255, NEW n \in Nat, Holds(h, l, n)
  PROVE  Holds(h, l, n)' /\ Answers(h, l, n)'
<1>1. CASE n >= 32
  <2>1. flash.bits = n /\ flash.cmd = 3 /\ flash.addr = (h * 256 + l) * 256
    BY <1>1 DEF Holds, CmdAfter, AddrAfter
  <2>2. flash' = [flash EXCEPT !.out = Answer(flash.addr, flash.bits - 32)]
    BY <1>1, <2>1 DEF FlashSees
  <2>3. PICK m \in Nat : m = n - 32
    BY <1>1
  <2>4. flash' = [flash EXCEPT !.out = Answer((h * 256 + l) * 256, m)]
    BY <2>1, <2>2, <2>3
  <2>5. PICK a \in Nat : a = h * 256 + l
    OBVIOUS
  <2>6. Answer(a * 256, m) = BitOf(image, a * SECTOR, m)
    BY AnswerIs
  <2>7. flash'.out = BitOf(image, (h * 256 + l) * SECTOR, m)
    BY <2>4, <2>5, <2>6 DEF FlashType
  <2>8. flash'.bits = flash.bits /\ flash'.cmd = flash.cmd /\ flash'.addr = flash.addr
    BY <2>4 DEF FlashType
  <2>9. Holds(h, l, n)'
    BY <2>8 DEF Holds
  <2>10. Answers(h, l, n)'
    BY <2>3, <2>7 DEF Answers, BitOf, Byte
  <2> QED BY <2>9, <2>10
<1>2. CASE ~ (n >= 32)
  <2>1. flash' = flash
    BY <1>2 DEF FlashSees, Holds
  <2> QED BY <1>2, <2>1 DEF Holds, Answers
<1> QED BY <1>1, <1>2

(* Without an edge it does nothing.                                          *)
LEMMA StillSeen ==
  ASSUME FlashSees, ~ cs', sclk <=> sclk'
  PROVE  flash' = flash
BY DEF FlashSees

(* The flash is selected while the program holds it.                         *)
LEMMA ChipSelect == Driven' => (cs' <=> ~ Held')
<1>1. Driven => (cs <=> ~ Held)
  BY Decoded DEF cs
<1>2. (Driven => (cs <=> ~ Held))'
  BY <1>1, PTL
<1> QED BY <1>2

(* No transfer is under way while the flash is not selected.                 *)
LEMMA QuietOutside ==
  ASSUME Driven, Timing, Ticks, ~ Held
  PROVE  ~ Active /\ ~ Begun /\ ~ Starting /\ ~ Active'
<1> USE GapAssumption
<1>1. SUFFICES ~ Active
  BY DEF Ticks, Begun, Held, Starting, Active, Rest, Finish, Transceive
<1>2. SUFFICES ASSUME Active PROVE FALSE
  OBVIOUS
<1>3. Elapsed = 4 * Gap + CallGap + since
  BY DEF Elapsed, Held
<1>4. Elapsed >= 37
  BY <1>3 DEF Gap, Driven
<1>5. Left \in Nat /\ Elapsed \in Nat /\ Elapsed + Left <= 35
  BY <1>2, LeftType, ElapsedType DEF Timing, UnderWay
<1> QED BY <1>4, <1>5

(* The count of the transfers begun grows with each start.                   *)
LEMMA HeldKept ==
  ASSUME PaceInv, Pace, Counts, Held, Held'
  PROVE  si' = si /\ Started \in Nat /\ Started' = Started + IF Starts THEN 1 ELSE 0
<1>1. si' = si /\ Index' = Index + IF Ends THEN 1 ELSE 0
  BY DEF Counts
<1>2. Driven /\ Driven' /\ Drives
  BY DEF PaceInv, Pace
<1>3. PICK i \in Nat : i = Index
  BY <1>2, IndexType
<1>4. Started = i + IF Begun THEN 1 ELSE 0
  BY <1>3 DEF Started
<1>5. Started' = i + (IF Ends THEN 1 ELSE 0) + IF Begun' THEN 1 ELSE 0
  BY <1>1, <1>3 DEF Started
<1>6. CASE Starts
  BY <1>1, <1>3, <1>4, <1>5, <1>6 DEF Starts, Begun, Ends
<1>7. CASE Ends
  BY <1>1, <1>3, <1>4, <1>5, <1>7 DEF Starts, Begun, Ends
<1>8. CASE ~ Starts /\ ~ Ends
  <2>1. Begun' <=> Begun
    <3>1. step \in 1 .. 5
      BY <1>2 DEF Driven
    <3>2. CASE Waits
      BY <3>2 DEF Waits, Begun
    <3>3. CASE Takes
      BY <3>3 DEF Takes, Begun
    <3>4. CASE Others
      BY <3>4 DEF Others
    <3> QED BY <1>2, <1>8, <3>2, <3>3, <3>4 DEF Drives
  <2> QED BY <1>1, <1>3, <1>4, <1>5, <1>8, <2>1
<1> QED BY <1>6, <1>7, <1>8

(* The number of bytes exchanged grows when a transfer is over.              *)
LEMMA Counted ==
  ASSUME PaceInv, PaceInv', Pace, Counts, Held, Held', Active => Started >= 1
  PROVE  /\ Exchanged \in Nat
         /\ Exchanged' = Exchanged + IF Active /\ ~ Active' THEN 1 ELSE 0
         /\ Active' => Started' >= 1
<1>1. Driven /\ Driven' /\ Drives /\ Timing /\ Timing' /\ Ticks
  BY DEF PaceInv, Pace
<1>2. PICK n \in Nat, m \in Nat :
        n = Started /\ m = Started' /\ m = n + IF Starts THEN 1 ELSE 0
  <2>1. Started \in Nat /\ Started' = Started + IF Starts THEN 1 ELSE 0
    BY HeldKept
  <2> QED BY <2>1
<1>3. Begun => n >= 1
  <2>1. Index \in Nat
    BY <1>1, IndexType
  <2> QED BY <1>2, <2>1 DEF Started
<1>4. (tx_start <=> Begun) /\ (tx_start' <=> Begun')
  BY <1>1 DEF Ticks
<1>5. CASE Active
  <2>1. ~ Starts
    BY <1>1, <1>5, RestsAtStart DEF Active
  <2>2. ~ Starting' /\ ~ Starting /\ n >= 1
    BY <1>1, <1>2, <1>5 DEF Ticks, Active, Starting, Rest, Finish, Transceive
  <2> QED BY <1>2, <1>5, <2>1, <2>2 DEF Exchanged
<1>6. CASE Starting
  <2>1. ~ Starts /\ Begun /\ ~ Active
    BY <1>1, <1>4, <1>6, RestsAtStart DEF Starting, Active
  <2>2. Active' \/ Starting'
    <3>1. SUFFICES ASSUME ~ Active' PROVE Starting'
      OBVIOUS
    <3>2. spi_state' = "IDLE" /\ ~ clock_spi_negedge
      BY <1>1, <1>6, <3>1 DEF Ticks, Active, Starting, Rest, Finish, Transceive
    <3>3. step = 4 /\ since \in 0 .. 2
      BY <1>1, <1>6 DEF Timing, Entering
    <3>4. since # 2
      BY <1>1, <1>6, <3>2 DEF Timing, Entering, clock_spi_negedge
    <3>5. since < MinGap
      BY <3>3, <3>4, GapAssumption
    <3>6. Waits
      BY <1>1, <2>1, <3>3, <3>5, GapAssumption DEF Drives, Others
    <3>7. Begun'
      BY <2>1, <3>6 DEF Waits, Begun
    <3> QED BY <1>4, <3>2, <3>7 DEF Starting
  <2> QED BY <1>2, <1>3, <2>1, <2>2, <1>6 DEF Exchanged
<1>7. CASE ~ Active /\ ~ Starting
  <2>1. ~ Active'
    BY <1>1, <1>7 DEF Ticks, Active, Starting, Rest, Finish, Transceive
  <2>2. CASE Starts
    <3>1. spi_state' = "IDLE" /\ Begun'
      BY <1>1, <2>2, RestsAtStart DEF Starts, Begun
    <3>2. Starting'
      BY <1>4, <3>1 DEF Starting
    <3> QED BY <1>2, <1>7, <2>1, <2>2, <3>2 DEF Exchanged
  <2>3. CASE ~ Starts
    <3>1. Begun' => Begun
      BY <1>1, <2>3, Turns
    <3>2. Begun => spi_state = "DONE" /\ spi_state' = "DONE"
      BY <1>1, <1>4, <1>7 DEF Ticks, Active, Starting, Rest, Finish, Transceive
    <3>3. ~ Starting'
      BY <1>4, <3>1, <3>2 DEF Starting
    <3> QED BY <1>2, <1>7, <2>1, <2>3, <3>3 DEF Exchanged
  <2> QED BY <2>1, <2>2, <2>3
<1> QED BY <1>5, <1>6, <1>7

(* What the cases of a step of a selected flash share.                       *)
Wired ==
  /\ Held /\ Held' /\ ~ cs' /\ image \in Images /\ image' = image
  /\ High \in 0 .. 255 /\ Low \in 0 .. 255 /\ Base = (High * 256 + Low) * SECTOR
  /\ High' = High /\ Low' = Low /\ Base' = Base
  /\ (sclk <=> clock_spi /\ Active) /\ (sclk' <=> clock_spi' /\ Active')
  /\ clock_spi \in BOOLEAN /\ clock_spi' \in BOOLEAN /\ prev_clock_spi \in BOOLEAN /\ prev_clock_spi' = clock_spi
  /\ Exchanged \in Nat /\ Exchanged' = Exchanged + IF Active /\ ~ Active' THEN 1 ELSE 0
  /\ bits_remaining \in 0 .. 8 /\ bits_remaining' \in 0 .. 8 /\ BITS = 8 /\ Full = 256
  /\ shift_out' \in 0 .. 255 /\ data_tx' = shift_out' \div 128
  /\ FlashType /\ FlashSees
  /\ Rest \/ Finish \/ Transceive(flash.out)
  /\ Active => Phase

(* The invariants and a step give all of that.                               *)
LEMMA Wiring ==
  ASSUME PaceInv, PaceInv', Pace, Counts, Held, Held', Active => Started >= 1
  PROVE  Wired
<1>1. Driven /\ Driven' /\ Drives /\ Timing /\ Timing' /\ Ticks /\ ControllerInv /\ ControllerInv' /\ FlashType
  BY DEF PaceInv, Pace
<1>2. Held /\ Held' /\ ~ cs' /\ image \in Images /\ image' = image
  BY <1>1, ChipSelect DEF PaceInv, Pace
<1>3. /\ High \in 0 .. 255 /\ Low \in 0 .. 255 /\ Base = (High * 256 + Low) * SECTOR
      /\ High' = High /\ Low' = Low /\ Base' = Base
  <2>1. si' = si
    BY HeldKept
  <2>2. PICK n \in Int : n = si + 1
    BY <1>1 DEF Driven
  <2>3. n % 256 \in 0 .. 255 /\ n \div 256 \in Int
    OBVIOUS
  <2>4. (n \div 256) % 256 \in 0 .. 255
    BY <2>3
  <2> QED BY <2>1, <2>2, <2>3, <2>4 DEF High, Low, Base
<1>4. (sclk <=> clock_spi /\ Active) /\ (sclk' <=> clock_spi' /\ Active')
  BY <1>1 DEF ControllerInv, GateInTransfer, sclk, Active
<1>5. /\ clock_spi \in BOOLEAN /\ clock_spi' \in BOOLEAN /\ prev_clock_spi \in BOOLEAN /\ prev_clock_spi' = clock_spi
      /\ bits_remaining \in 0 .. 8 /\ bits_remaining' \in 0 .. 8
  BY <1>1 DEF Ticks, ControllerInv, ControllerTypeOK
<1>6. Exchanged \in Nat /\ Exchanged' = Exchanged + IF Active /\ ~ Active' THEN 1 ELSE 0
  BY Counted
<1>7. BITS = 8 /\ Full = 256 /\ Full \div 2 = 128
  BY FlashAssumption, Powers DEF Full
<1>8. shift_out' \in 0 .. 255 /\ data_tx' = shift_out' \div 128
  BY <1>1, <1>7 DEF data_tx, ControllerInv, ControllerTypeOK
<1>9. FlashSees /\ (Rest \/ Finish \/ Transceive(flash.out))
  BY DEF Pace, Edge, Clock
<1>10. Active => Phase
  BY <1>1 DEF Timing, UnderWay
<1> QED BY <1>1, <1>2, <1>3, <1>4, <1>5, <1>6, <1>7, <1>8, <1>9, <1>10 DEF Wired

(* Between transfers nothing moves.                                          *)
LEMMA QuietExchange ==
  ASSUME Wired, Selected, Received, ~ Active, ~ Active'
  PROVE  Selected' /\ Shifting' /\ Received'
<1>1. datain' = datain
  BY DEF Wired, Rest, Finish, Transceive, Active
<1>2. flash' = flash
  BY StillSeen DEF Wired
<1>3. Exchanged' = Exchanged /\ Exchanged \in Nat
  BY DEF Wired
<1>4. Sampled = 0 /\ Sampled' = 0
  BY DEF Sampled
<1>5. Seen' = Seen /\ Taken = Seen /\ Taken' = Seen /\ Seen \in Nat
  BY <1>3, <1>4 DEF Seen, Taken
<1>6. Selected'
  BY <1>2, <1>5 DEF Selected, Wired
<1>7. Received'
  BY <1>1, <1>3 DEF Received, Wired
<1> QED BY <1>6, <1>7 DEF Shifting

(* The last falling edge: the byte is whole.                                 *)
LEMMA LeaveExchange ==
  ASSUME Wired, Selected, Shifting, Received, Active, ~ Active'
  PROVE  Selected' /\ Shifting' /\ Received'
<1>1. /\ bits_remaining = 0 /\ clock_spi_negedge /\ datain' = shift_in
  BY DEF Wired, Rest, Finish, Transceive, Active
<1>2. ~ clock_spi /\ prev_clock_spi
  BY <1>1 DEF clock_spi_negedge
<1>3. flash' = flash
  BY <1>2, StillSeen DEF Wired
<1>4. PICK e \in Nat : e = Exchanged /\ Exchanged' = e + 1
  BY DEF Wired
<1>5. Sampled = 8 /\ Sampled' = 0
  BY <1>1 DEF Sampled
<1>6. Seen = 8 * e + 8 /\ Taken = Seen /\ Seen' = 8 * e + 8 /\ Taken' = 8 * e + 8
  BY <1>2, <1>4, <1>5 DEF Seen, Taken, Rising
<1>7. Selected'
  BY <1>2, <1>3, <1>6 DEF Selected, Wired
<1>8. Received'
  <2>1. SUFFICES ASSUME e + 1 >= 5 PROVE datain' = Byte(image, Base + (e + 1) - 5)
    BY <1>4 DEF Received, Wired
  <2>2. shift_in = Top(Byte(image, Base + e - 4), 8)
    BY <1>4, <1>5, <2>1 DEF Shifting, Wired
  <2>3. Base \in Nat
    <3>1. SECTOR \in Nat /\ High * 256 + Low \in Nat
      BY SectorAssumption DEF Wired
    <3> QED BY <3>1 DEF Wired
  <2>4. Base + e - 4 \in Nat /\ Base + e - 4 = Base + (e + 1) - 5
    BY <2>1, <2>3
  <2>5. Byte(image, Base + e - 4) \in 0 .. 255
    BY <2>4, ByteType DEF Wired
  <2> QED BY <1>1, <2>2, <2>4, <2>5, TopEnds
<1> QED BY <1>7, <1>8 DEF Shifting

(* The byte that is shifted out is that of the command.                      *)
LEMMA CommandSent ==
  ASSUME Driven, Prepared, Starting, op = "transfer", step = 4, Exchanged <= 3
  PROVE  dataout = Sent(High, Low, Exchanged)
<1>1. Begun
  BY DEF Begun
<1>2. Exchanged = Index /\ Index \in Nat
  BY <1>1, IndexType DEF Exchanged, Started
<1>3. part = "command" /\ Index = k /\ k \in 0 .. 3
  BY <1>2, SectorAssumption DEF Driven, Parts, Index, HEADER
<1>4. dataout = Command
  BY <1>3 DEF Prepared
<1>5. Command = <<3, High, Low, 0, 0>>[k + 1]
  BY DEF Command, High, Low
<1>6. k = 0 \/ k = 1 \/ k = 2 \/ k = 3
  BY <1>3
<1> QED BY <1>2, <1>3, <1>4, <1>5, <1>6 DEF Sent

(* The pin shows one bit.                                                    *)
LEMMA HighestBit == \A v \in 0 .. 255 : v \div 128 \in 0 .. 1
OBVIOUS

(* The first edge of a transfer.                                             *)
LEMMA EnterExchange ==
  ASSUME Wired, Driven, Timing, Ticks, Selected, Received, Prepared, ~ Active, Active'
  PROVE  Selected' /\ Shifting' /\ Received'
<1>1. /\ clock_spi_negedge /\ tx_start /\ bits_remaining' = 8 /\ shift_out' = dataout
      /\ shift_in' = 0 /\ datain' = datain /\ spi_state = "IDLE"
  BY DEF Wired, Rest, Finish, Transceive, Active
<1>2. clock_spi = FALSE /\ prev_clock_spi' = FALSE /\ Starting
  BY <1>1 DEF clock_spi_negedge, Wired, Starting
<1>3. step = 4 /\ op = "transfer"
  BY <1>2 DEF Timing, Entering, Driven, Calls
<1>4. PICK e \in Nat : e = Exchanged /\ Exchanged' = e
  BY DEF Wired
<1>5. Sampled = 0 /\ Sampled' = 0 /\ Shifts' = 0
  <2>1. Sampled = 0
    BY DEF Sampled
  <2>2. Sampled' = 8 - 8
    BY <1>1 DEF Sampled
  <2>3. Sampled' = 0
    BY <2>2
  <2>4. Shifts' = 0 - 0
    BY <1>2, <2>3 DEF Shifts
  <2> QED BY <2>1, <2>3, <2>4
<1>6. PICK n \in Nat : n = 8 * e /\ n = 8 * e + 0 /\ Seen = n /\ Taken = n /\ Seen' = n
                       /\ Taken' = n + IF Rising' THEN 1 ELSE 0
  BY <1>4, <1>5 DEF Seen, Taken
<1>7. PICK h \in 0 .. 255, l \in 0 .. 255 : h = High /\ l = Low /\ High' = h /\ Low' = l
  BY DEF Wired
<1>8. e <= 3 => shift_out' = Sent(h, l, e)
  BY <1>1, <1>2, <1>3, <1>4, <1>7, CommandSent
<1>9. /\ flash.bits = n /\ flash.cmd = CmdAfter(n) /\ flash.addr = AddrAfter(h, l, n)
      /\ n >= 32 => flash.out = BitOf(image, Base, n - 32)
  BY <1>6, <1>7 DEF Selected, Wired
<1>10. Received'
  BY <1>1, <1>4 DEF Received, Wired
<1>11. Shifting'
  <2>1. e <= 3 => shift_out' = Out(Sent(h, l, e), 0)
    <3>1. PICK x \in 0 .. 255 : x = Sent(h, l, e)
      BY SentType
    <3>2. Out(x, 0) = x
      BY Powers DEF Out
    <3> QED BY <1>8, <3>1, <3>2
  <2>2. e >= 4 => shift_in' = Top(Byte(image, Base + e - 4), 0)
    <3>1. SUFFICES ASSUME e >= 4 PROVE 0 = Top(Byte(image, Base + e - 4), 0)
      BY <1>1
    <3>2. Base \in Nat
      <4>1. SECTOR \in Nat /\ High * 256 + Low \in Nat
        BY SectorAssumption DEF Wired
      <4> QED BY <4>1 DEF Wired
    <3>3. Base + e - 4 \in Nat
      BY <3>1, <3>2
    <3> QED BY <3>3, ByteType, TopEnds DEF Wired
  <2> QED BY <1>4, <1>5, <1>7, <2>1, <2>2 DEF Shifting, Wired
<1>12. CASE clock_spi' = TRUE
  <2>1. sclk' /\ ~ sclk /\ Rising'
    BY <1>2, <1>12 DEF Wired, Rising
  <2>2. data_tx' \in 0 .. 1
    <3>1. PICK v \in 0 .. 255 : v = shift_out'
      BY DEF Wired
    <3> QED BY <3>1, HighestBit DEF Wired
  <2>3. e <= 3 => data_tx' = Bit(Sent(h, l, e), 7 - 0)
    <3>1. PICK x \in 0 .. 255 : x = Sent(h, l, e)
      BY SentType
    <3>2. x \div 128 = (x \div 128) % 2
      OBVIOUS
    <3>3. x \div 128 = Bit(x, 7 - 0)
      BY <3>2, Powers DEF Bit
    <3>4. data_tx' = shift_out' \div 128
      BY DEF Wired
    <3> QED BY <1>8, <3>1, <3>3, <3>4
  <2>4. Holds(h, l, n + 1)' /\ flash'.out = flash.out
    <3>1. FlashType /\ FlashSees /\ ~ cs'
      BY DEF Wired
    <3>2. PICK b \in 0 .. 1 : b = data_tx'
      BY <2>2
    <3>3. TakesBit(h, l, 8 * e + 0, b)
      <4>1. PICK s \in 0 .. 7 : s = 0
        OBVIOUS
      <4>2. e <= 3 => b = Bit(Sent(h, l, e), 7 - s)
        BY <2>3, <3>2, <4>1
      <4>3. TakesBit(h, l, 8 * e + s, b)
        BY <4>2, CommandBit
      <4> QED BY <4>1, <4>3
    <3>4. TakesBit(h, l, n, b)
      BY <1>6, <3>3
    <3>5. Holds(h, l, n)
      BY <1>9 DEF Holds
    <3> QED BY <2>1, <3>1, <3>2, <3>4, <3>5, RiseSeen
  <2>5. Selected'
    BY <1>2, <1>6, <1>7, <1>9, <2>1, <2>4 DEF Selected, Holds, Wired
  <2> QED BY <1>10, <1>11, <2>5
<1>13. CASE clock_spi' = FALSE
  <2>1. ~ sclk' /\ ~ sclk /\ ~ Rising'
    BY <1>2, <1>13 DEF Wired, Rising
  <2>2. flash' = flash
    BY <2>1, StillSeen DEF Wired
  <2>3. Selected'
    BY <1>2, <1>6, <1>7, <1>9, <2>1, <2>2 DEF Selected, Wired
  <2> QED BY <1>10, <1>11, <2>3
<1> QED BY <1>12, <1>13 DEF Wired

(* A transfer goes on: what an edge does to its registers.                   *)
LEMMA RunRegisters ==
  ASSUME Wired, Active, Active'
  PROVE  /\ datain' = datain /\ Exchanged' = Exchanged
         /\ bits_remaining = 0 => ~ clock_spi_negedge /\ prev_clock_spi
         /\ shift_out' = IF clock_spi_negedge THEN (shift_out * 2) % 256 ELSE shift_out
         /\ shift_in' = IF Rising THEN (shift_in * 2 + flash.out) % 256 ELSE shift_in
         /\ bits_remaining' = IF Rising THEN bits_remaining - 1 ELSE bits_remaining
<1>1. Transceive(flash.out) /\ Phase /\ Full = 256
  BY DEF Wired, Rest, Finish, Active
<1>2. bits_remaining = 0 => ~ clock_spi_negedge /\ prev_clock_spi
  BY <1>1 DEF Transceive, Phase, Active
<1>3. /\ datain' = datain
      /\ shift_out' = IF clock_spi_negedge THEN (shift_out * 2) % 256 ELSE shift_out
      /\ shift_in' = IF Rising THEN (shift_in * 2 + flash.out) % 256 ELSE shift_in
      /\ bits_remaining' = IF Rising THEN (bits_remaining - 1) % 16 ELSE bits_remaining
  BY <1>1, <1>2 DEF Transceive, Rising, clock_spi_posedge
<1>4. Rising => (bits_remaining - 1) % 16 = bits_remaining - 1
  <2>1. SUFFICES ASSUME Rising PROVE (bits_remaining - 1) % 16 = bits_remaining - 1
    OBVIOUS
  <2>2. bits_remaining \in 1 .. 8
    BY <1>2, <2>1 DEF Rising, Wired
  <2> QED BY <2>2
<1>5. Exchanged' = Exchanged
  BY DEF Wired
<1> QED BY <1>2, <1>3, <1>4, <1>5

(* While the clock is high the bit is sampled, and the flash answers its end. *)
LEMMA HighPhase ==
  ASSUME Wired, Selected, Shifting, Received, Active, Active', clock_spi
  PROVE  Selected' /\ Shifting' /\ Received'
<1>1. PICK e \in Nat, s \in 0 .. 8 :
        e = Exchanged /\ Exchanged' = e /\ s = 8 - bits_remaining /\ s = Sampled
  <2>1. bits_remaining \in 0 .. 8 /\ Exchanged \in Nat
    BY DEF Wired
  <2>2. 8 - bits_remaining \in 0 .. 8 /\ Sampled = 8 - bits_remaining
    BY <2>1 DEF Sampled
  <2> QED BY <2>1, <2>2, RunRegisters
<1>2. prev_clock_spi' = TRUE /\ ~ Rising' /\ ~ clock_spi_negedge /\ datain' = datain
  BY RunRegisters DEF Rising, clock_spi_negedge, Wired
<1>3. Rising => s \in 0 .. 7
  BY <1>1, RunRegisters DEF Rising, Wired
<1>4. PICK t \in 0 .. 8 : t = s + (IF Rising THEN 1 ELSE 0) /\ Sampled' = t
  <2>1. Sampled' = 8 - bits_remaining'
    BY DEF Sampled
  <2>2. bits_remaining' = 8 - s - IF Rising THEN 1 ELSE 0
    BY <1>1, RunRegisters DEF Wired
  <2>3. Sampled' = s + IF Rising THEN 1 ELSE 0
    BY <2>1, <2>2
  <2> QED BY <1>3, <2>3
<1>5. PICK n \in Nat : n = 8 * e + t /\ Taken = n /\ Seen' = n /\ Taken' = n
  <2>1. Seen = 8 * e + s /\ Seen' = 8 * e + t
    BY <1>1, <1>4 DEF Seen
  <2>2. Taken = 8 * e + t
    BY <1>4, <2>1 DEF Taken
  <2>3. Taken' = 8 * e + t
    BY <1>2, <2>1 DEF Taken
  <2> QED BY <2>1, <2>2, <2>3
<1>6. Shifts' = Shifts
  <2>1. Shifts = t - 1
    BY <1>1, <1>4 DEF Shifts, Rising, Wired
  <2>2. Shifts' = t - 1
    BY <1>2, <1>4 DEF Shifts
  <2> QED BY <2>1, <2>2
<1>7. PICK h \in 0 .. 255, l \in 0 .. 255 :
        h = High /\ l = Low /\ High' = h /\ Low' = l /\ Base = (h * 256 + l) * SECTOR
  BY DEF Wired
<1>8. Shifting'
  <2>1. Rising /\ e >= 4 => shift_in' = Top(Byte(image, Base + e - 4), s + 1)
    <3>1. SUFFICES ASSUME Rising, e >= 4 PROVE shift_in' = Top(Byte(image, Base + e - 4), s + 1)
      OBVIOUS
    <3>2. PICK d \in Nat, base \in Nat : d = e - 4 /\ base = Base /\ Base + e - 4 = base + d
      <4>1. SECTOR \in Nat
        BY SectorAssumption
      <4>2. (h * 256 + l) * SECTOR \in Nat
        BY <4>1
      <4> QED BY <1>7, <3>1, <4>2
    <3>3. PICK x \in 0 .. 255 : x = Byte(image, base + d)
      <4>1. base + d \in Nat
        OBVIOUS
      <4> QED BY <4>1, ByteType DEF Wired
    <3>4. flash.out = BitOf(image, base, 8 * d + s)
      <4>1. Seen = 8 * e + s
        BY <1>1 DEF Seen
      <4>2. Seen >= 32 /\ Seen - 32 = 8 * d + s
        BY <3>1, <3>2, <4>1
      <4> QED BY <3>1, <3>2, <4>2 DEF Selected, Rising, Wired
    <3>5. flash.out = Bit(x, 7 - s)
      BY <1>3, <3>1, <3>3, <3>4, BitIs DEF Wired
    <3>6. shift_in = Top(x, s)
      BY <1>1, <3>1, <3>2, <3>3 DEF Shifting, Wired
    <3>7. Top(x, s) \in 0 .. 127 /\ Top(x, s + 1) = 2 * Top(x, s) + Bit(x, 7 - s)
      BY <1>3, <3>1, TopNext
    <3>8. PICK y \in 0 .. 127, b \in 0 .. 1 : y = Top(x, s) /\ b = flash.out
      BY <3>7 DEF Wired, FlashType
    <3>9. (y * 2 + b) % 256 = 2 * y + b
      OBVIOUS
    <3>10. shift_in' = (shift_in * 2 + flash.out) % 256
      BY <3>1, RunRegisters
    <3> QED BY <3>2, <3>3, <3>5, <3>6, <3>7, <3>8, <3>9, <3>10
  <2>2. shift_out' = shift_out /\ (~ Rising => shift_in' = shift_in)
    BY <1>2, RunRegisters
  <2>3. e <= 3 => shift_out' = Out(Sent(h, l, e), Shifts')
    BY <1>1, <1>6, <1>7, <2>2 DEF Shifting, Wired
  <2>4. e >= 4 => shift_in' = Top(Byte(image, Base + e - 4), t)
    <3>1. CASE Rising
      BY <1>4, <2>1, <3>1
    <3>2. CASE ~ Rising
      <4>1. t = Sampled
        BY <1>1, <1>4, <3>2
      <4> QED BY <1>1, <2>2, <3>2, <4>1 DEF Shifting, Wired
    <3> QED BY <3>1, <3>2
  <2> QED BY <1>1, <1>4, <1>7, <2>3, <2>4 DEF Shifting, Wired
<1>9. Received'
  BY <1>1, <1>2 DEF Received, Wired
<1>10. sclk
  BY DEF Wired
<1>11. flash.bits = n /\ flash.cmd = CmdAfter(n) /\ flash.addr = AddrAfter(h, l, n)
  BY <1>5, <1>7 DEF Selected, Wired
<1>12. CASE clock_spi' = TRUE
  <2>1. flash' = flash
    BY <1>10, <1>12, StillSeen DEF Wired
  <2> QED BY <1>2, <1>5, <1>7, <1>8, <1>9, <1>11, <1>12, <2>1 DEF Selected, Wired
<1>13. CASE clock_spi' = FALSE
  <2>1. ~ sclk'
    BY <1>13 DEF Wired
  <2>2. Holds(h, l, n)' /\ Answers(h, l, n)'
    <3>1. image \in Images /\ image' = image /\ FlashType /\ FlashSees /\ ~ cs'
      BY DEF Wired
    <3>2. Holds(h, l, n)
      BY <1>11 DEF Holds
    <3> QED BY <1>10, <2>1, <3>1, <3>2, FallSeen
  <2>3. Selected'
    BY <1>5, <1>7, <2>2 DEF Selected, Holds, Answers, Wired
  <2> QED BY <1>8, <1>9, <2>3
<1> QED BY <1>12, <1>13 DEF Wired

(* While the clock is low the next bit of the command is put out.            *)
LEMMA LowPhase ==
  ASSUME Wired, Selected, Shifting, Received, Active, Active', ~ clock_spi
  PROVE  Selected' /\ Shifting' /\ Received'
<1>1. PICK e \in Nat, s \in 0 .. 7 :
        e = Exchanged /\ Exchanged' = e /\ s = Sampled /\ Sampled' = s /\ (prev_clock_spi => s >= 1)
  <2>1. PICK b \in 1 .. 8 : b = bits_remaining /\ bits_remaining' = b /\ (prev_clock_spi => b < 8)
    <3>1. bits_remaining # 0 /\ bits_remaining' = bits_remaining
      BY RunRegisters DEF Rising, clock_spi_negedge, Wired
    <3>2. bits_remaining \in 1 .. 8 /\ (prev_clock_spi => bits_remaining < 8)
      BY <3>1 DEF Wired, Phase
    <3> QED BY <3>1, <3>2
  <2>2. Sampled = 8 - b /\ Sampled' = 8 - b
    BY <2>1 DEF Sampled
  <2>3. 8 - b \in 0 .. 7 /\ (prev_clock_spi => 8 - b >= 1)
    BY <2>1
  <2>4. Exchanged \in Nat /\ Exchanged' = Exchanged
    BY RunRegisters DEF Wired
  <2> QED BY <2>2, <2>3, <2>4
<1>2. prev_clock_spi' = FALSE /\ ~ Rising /\ datain' = datain /\ shift_in' = shift_in
  BY RunRegisters DEF Rising, Wired
<1>3. PICK n \in Nat : n = 8 * e + s /\ Seen = n /\ Taken = n /\ Seen' = n
                       /\ Taken' = n + IF Rising' THEN 1 ELSE 0
  BY <1>1, <1>2 DEF Seen, Taken
<1>4. Shifts' = s
  <2>1. Shifts' = s - 0
    BY <1>1, <1>2 DEF Shifts
  <2> QED BY <2>1
<1>5. PICK h \in 0 .. 255, l \in 0 .. 255 : h = High /\ l = Low /\ High' = h /\ Low' = l
  BY DEF Wired
<1>6. e <= 3 => shift_out' = Out(Sent(h, l, e), s)
  <2>1. SUFFICES ASSUME e <= 3 PROVE shift_out' = Out(Sent(h, l, e), s)
    OBVIOUS
  <2>2. PICK x \in 0 .. 255 : x = Sent(h, l, e)
    BY SentType
  <2>3. CASE prev_clock_spi
    <3>1. PICK r \in 0 .. 7 : r = s - 1 /\ r + 1 = s
      BY <1>1, <2>3
    <3>2. Shifts = r
      BY <1>1, <2>3, <3>1 DEF Shifts
    <3>3. shift_out = Out(x, r)
      BY <1>1, <1>5, <2>1, <2>2, <3>2 DEF Shifting, Wired
    <3>4. shift_out' = (shift_out * 2) % 256
      BY <2>3, RunRegisters DEF clock_spi_negedge
    <3>5. (Out(x, r) * 2) % 256 = Out(x, r + 1)
      BY ShiftNext
    <3> QED BY <2>2, <3>1, <3>3, <3>4, <3>5
  <2>4. CASE ~ prev_clock_spi
    <3>1. Shifts = s
      BY <1>1, <2>4 DEF Shifts
    <3>2. shift_out' = shift_out
      BY <2>4, RunRegisters DEF clock_spi_negedge
    <3> QED BY <1>1, <1>5, <2>1, <3>1, <3>2 DEF Shifting, Wired
  <2> QED BY <2>3, <2>4
<1>7. Shifting'
  <2>1. e >= 4 => shift_in' = Top(Byte(image, Base + e - 4), s)
    BY <1>1, <1>2 DEF Shifting, Wired
  <2> QED BY <1>1, <1>4, <1>5, <1>6, <2>1 DEF Shifting, Wired
<1>8. Received'
  BY <1>1, <1>2 DEF Received, Wired
<1>9. /\ flash.bits = n /\ flash.cmd = CmdAfter(n) /\ flash.addr = AddrAfter(h, l, n)
      /\ n >= 32 => flash.out = BitOf(image, Base, n - 32)
  BY <1>3, <1>5 DEF Selected, Wired
<1>10. ~ sclk
  BY DEF Wired
<1>11. CASE clock_spi' = TRUE
  <2>1. sclk' /\ Rising'
    BY <1>2, <1>11 DEF Wired, Rising
  <2>2. data_tx' \in 0 .. 1
    <3>1. PICK v \in 0 .. 255 : v = shift_out'
      BY DEF Wired
    <3> QED BY <3>1, HighestBit DEF Wired
  <2>3. e <= 3 => data_tx' = Bit(Sent(h, l, e), 7 - s)
    <3>1. PICK x \in 0 .. 255 : x = Sent(h, l, e)
      BY SentType
    <3>2. Out(x, s) \div 128 = Bit(x, 7 - s)
      BY ShiftNext
    <3>3. data_tx' = shift_out' \div 128
      BY DEF Wired
    <3> QED BY <1>6, <3>1, <3>2, <3>3
  <2>4. Holds(h, l, n + 1)' /\ flash'.out = flash.out
    <3>1. FlashType /\ FlashSees /\ ~ cs'
      BY DEF Wired
    <3>2. PICK b \in 0 .. 1 : b = data_tx'
      BY <2>2
    <3>3. TakesBit(h, l, 8 * e + s, b)
      BY <2>3, <3>2, CommandBit
    <3>4. TakesBit(h, l, n, b)
      BY <1>3, <3>3
    <3>5. Holds(h, l, n)
      BY <1>9 DEF Holds
    <3> QED BY <1>10, <2>1, <3>1, <3>2, <3>4, <3>5, RiseSeen
  <2>5. Selected'
    BY <1>3, <1>5, <1>9, <2>1, <2>4 DEF Selected, Holds, Wired
  <2> QED BY <1>7, <1>8, <2>5
<1>12. CASE clock_spi' = FALSE
  <2>1. ~ sclk' /\ ~ Rising'
    BY <1>12 DEF Wired, Rising
  <2>2. flash' = flash
    BY <1>10, <2>1, StillSeen DEF Wired
  <2>3. Selected'
    BY <1>3, <1>5, <1>9, <2>1, <2>2 DEF Selected, Wired
  <2> QED BY <1>7, <1>8, <2>3
<1> QED BY <1>11, <1>12 DEF Wired

(* The chip is selected with an empty count.                                 *)
LEMMA SelectExchange ==
  ASSUME PaceInv, PaceInv', Pace, Counts, Selected, ~ Held, Held'
  PROVE  Selected' /\ Shifting' /\ Received' /\ ~ Active'
<1>1. Driven /\ Driven' /\ Timing /\ Ticks /\ ControllerInv /\ ControllerInv' /\ ~ cs'
  BY ChipSelect DEF PaceInv, Pace
<1>2. ~ Active /\ ~ Active'
  BY <1>1, QuietOutside
<1>3. ~ sclk /\ ~ sclk'
  BY <1>1, <1>2 DEF ControllerInv, GateInTransfer, sclk, Active
<1>4. flash' = flash
  BY <1>1, <1>3, StillSeen DEF Pace, Edge
<1>5. flash' = Deselected
  BY <1>4 DEF Selected
<1>6. ~ Starting'
  BY <1>1 DEF Counts, Ticks, Starting, Begun
<1>7. Exchanged' = 0 /\ Sampled' = 0
  BY <1>2, <1>6 DEF Counts, Exchanged, Started, Index, Begun, Sampled
<1>8. Seen' = 0 /\ Taken' = 0
  <2>1. Seen' = 8 * 0 + 0
    BY <1>7 DEF Seen
  <2>2. Taken' = 0 + 0
    BY <1>2, <2>1 DEF Taken
  <2> QED BY <2>1, <2>2
<1>9. PICK h \in 0 .. 255, l \in 0 .. 255 : h = High' /\ l = Low'
  <2>0. PICK i \in Int : i = si'
    BY <1>1 DEF Driven
  <2>1. PICK n \in Int : n = i + 1
    OBVIOUS
  <2>2. n % 256 \in 0 .. 255 /\ n \div 256 \in Int
    OBVIOUS
  <2>3. (n \div 256) % 256 \in 0 .. 255
    BY <2>2
  <2> QED BY <2>0, <2>1, <2>2, <2>3 DEF High, Low
<1>10. CmdAfter(0) = 0 /\ AddrAfter(h, l, 0) = 0
  BY TopEnds DEF CmdAfter, AddrAfter
<1>11. Selected'
  BY <1>5, <1>8, <1>9, <1>10 DEF Selected, Deselected
<1>12. Shifting' /\ Received'
  BY <1>2, <1>7 DEF Shifting, Received
<1> QED BY <1>2, <1>11, <1>12

(* What the flash and the controller have exchanged stays in step.           *)
LEMMA ExchangeStep ==
  ASSUME PaceInv, PaceInv', Pace, Next, Exchange
  PROVE  Exchange'
<1>1. Driven /\ Driven' /\ Timing /\ Ticks
  BY DEF PaceInv, Pace
<1>2. Counts
  BY <1>1, ProgramData DEF Exchange
<1>3. CASE ~ Held'
  <2>1. flash' = Deselected
    BY <1>1, <1>3, ChipSelect DEF Pace, Edge, FlashSees
  <2> QED BY <1>2, <1>3, <2>1 DEF Exchange, Counts, Selected, Shifting, Received
<1>4. CASE ~ Held /\ Held'
  BY <1>2, <1>4, SelectExchange DEF Exchange, Counts
<1>5. CASE Held /\ Held'
  <2>1. (Active => Started >= 1) /\ Selected /\ Shifting /\ Received /\ Prepared
    BY <1>5 DEF Exchange
  <2>2. Wired
    BY <1>2, <1>5, <2>1, Wiring
  <2>3. Active' => Started' >= 1
    BY <1>2, <1>5, <2>1, Counted
  <2>4. Selected' /\ Shifting' /\ Received'
    <3>1. CASE ~ Active /\ ~ Active'
      BY <2>1, <2>2, <3>1, QuietExchange
    <3>2. CASE Active /\ ~ Active'
      BY <2>1, <2>2, <3>2, LeaveExchange
    <3>3. CASE ~ Active /\ Active'
      BY <1>1, <2>1, <2>2, <3>3, EnterExchange
    <3>4. CASE Active /\ Active' /\ clock_spi
      BY <2>1, <2>2, <3>4, HighPhase
    <3>5. CASE Active /\ Active' /\ ~ clock_spi
      BY <2>1, <2>2, <3>5, LowPhase
    <3> QED BY <3>1, <3>2, <3>3, <3>4, <3>5
  <2> QED BY <1>2, <2>3, <2>4 DEF Exchange, Counts
<1> QED BY <1>3, <1>4, <1>5

(* It begins so ...                                                          *)
LEMMA ExchangeInit == Init => Exchange
BY DEF Init, Exchange, Held, Selected, Shifting, Received, Prepared

(* ... and lasts while nothing moves.                                        *)
LEMMA ExchangeStutter == Exchange /\ UNCHANGED vars => Exchange'
<1> SUFFICES ASSUME Exchange, UNCHANGED vars PROVE Exchange'
  OBVIOUS
<1>1. /\ UNCHANGED <<main, image, flash, op, step, part, k, si, dataout, datain, control, spi_state>>
      /\ UNCHANGED <<clock_spi, prev_clock_spi, bits_remaining, shift_in, shift_out>>
  BY DEF vars, controller, registers, clockgen, transaction, program
<1>2. (Held' <=> Held) /\ (Active' <=> Active) /\ (Starting' <=> Starting) /\ (Rising' <=> Rising) /\ Begun' = Begun
  BY <1>1 DEF Held, Active, Starting, Rising, Begun, tx_start
<1>3. Index' = Index /\ High' = High /\ Low' = Low /\ Base' = Base /\ Command' = Command
  BY <1>1 DEF Index, High, Low, Base, Command
<1>4. Started' = Started
  BY <1>2, <1>3 DEF Started
<1>5. Exchanged' = Exchanged /\ Sampled' = Sampled
  BY <1>1, <1>2, <1>4 DEF Exchanged, Sampled
<1>6. Shifts' = Shifts /\ Seen' = Seen
  BY <1>1, <1>5 DEF Shifts, Seen
<1>7. Taken' = Taken
  BY <1>2, <1>6 DEF Taken
<1>8. Selected'
  BY <1>1, <1>2, <1>3, <1>6, <1>7 DEF Exchange, Selected
<1>9. Shifting' /\ Received'
  BY <1>1, <1>2, <1>3, <1>5, <1>6 DEF Exchange, Shifting, Received
<1>10. Prepared'
  BY <1>1, <1>3 DEF Exchange, Prepared
<1> QED BY <1>2, <1>4, <1>8, <1>9, <1>10 DEF Exchange

(* A byte received is that of the flash.                                     *)
LEMMA ExchangeReceives == PaceInv /\ Exchange => ReceivesWhatIsSent
<1> SUFFICES ASSUME PaceInv, Exchange, spi_finished, ~ cs
             PROVE  /\ flash.bits % 8 = 0
                    /\ flash.bits > 32 => datain = Stored((flash.addr \div 256) * SECTOR + (flash.bits - 40) \div 8)
  BY DEF ReceivesWhatIsSent
<1>1. Driven /\ image \in Images /\ Held
  BY Decoded DEF PaceInv, cs
<1>2. ~ Active /\ ~ Starting
  BY DEF spi_finished, Active, Starting
<1>3. PICK e \in Nat : e = Exchanged
  <2>1. Index \in Nat
    BY <1>1, IndexType
  <2> QED BY <1>2, <2>1 DEF Exchanged, Started
<1>4. flash.bits = 8 * e
  BY <1>1, <1>2, <1>3 DEF Exchange, Selected, Taken, Seen, Sampled
<1>5. SUFFICES ASSUME e >= 5
               PROVE  datain = Stored((flash.addr \div 256) * SECTOR + (8 * e - 40) \div 8)
  BY <1>4
<1>6. PICK d \in Nat : d = e - 5 /\ (8 * e - 40) \div 8 = d
  BY <1>5
<1>7. PICK h \in 0 .. 255, l \in 0 .. 255 : h = High /\ l = Low
  <2>1. PICK n \in Int : n = si + 1
    BY <1>1 DEF Driven
  <2>2. n % 256 \in 0 .. 255 /\ n \div 256 \in Int
    OBVIOUS
  <2>3. (n \div 256) % 256 \in 0 .. 255
    BY <2>2
  <2> QED BY <2>1, <2>2, <2>3 DEF High, Low
<1>8. flash.addr = (h * 256 + l) * 256
  <2>1. flash.addr = AddrAfter(h, l, 8 * e)
    BY <1>1, <1>2, <1>3, <1>7 DEF Exchange, Selected, Taken, Seen, Sampled
  <2>2. 8 * e >= 32
    BY <1>5
  <2> QED BY <2>1, <2>2 DEF AddrAfter
<1>9. PICK base \in Nat : base = Base /\ base = (flash.addr \div 256) * SECTOR
  <2>1. PICK m \in Nat : m = h * 256 + l
    OBVIOUS
  <2>2. (m * 256) \div 256 = m
    OBVIOUS
  <2>3. m * SECTOR \in Nat
    BY SectorAssumption
  <2> QED BY <1>7, <1>8, <2>1, <2>2, <2>3 DEF Base
<1>10. base + d \in Nat /\ Base + Exchanged - 5 = base + d
  BY <1>3, <1>6, <1>9
<1>11. datain = Byte(image, base + d)
  BY <1>1, <1>3, <1>5, <1>10 DEF Exchange, Received
<1> QED BY <1>1, <1>6, <1>9, <1>10, <1>11, ByteType

(* Whatever the gaps, a byte received is the one that the flash has sent in  *)
(* the clocks of this transfer.                                              *)
THEOREM ReceivesCorrectly == Spec => []ReceivesWhatIsSent
<1>1. Init => PaceInv /\ Exchange
  BY PaceInit, ExchangeInit
<1>2. PaceInv /\ Exchange /\ [Next]_vars => (PaceInv /\ Exchange)'
  <2>1. ASSUME PaceInv, Exchange, Next PROVE (PaceInv /\ Exchange)'
    BY <2>1, PaceStep, ExchangeStep
  <2>2. ASSUME PaceInv, Exchange, UNCHANGED vars PROVE (PaceInv /\ Exchange)'
    BY <2>2, PaceStutter, ExchangeStutter
  <2> QED BY <2>1, <2>2
<1> QED BY <1>1, <1>2, ExchangeReceives, PTL DEF Spec

-----------------------------------------------------------------------------
(* What the program makes of the bytes.                                      *)

\* What the header says of the image, and where the program copies from.
Size == Len(image)
Sectors == Size \div SECTOR + 1
Offset == IF main = "flash_test" THEN 0 ELSE SECTOR

\* The lowest i bytes of a number.
Lowest(n, i) == n % 256 ^ i

\* The length of the copy after a sector.
Copied(s) == IF s * SECTOR = Size \/ (s + 1) * SECTOR <= Size THEN (s + 1) * SECTOR ELSE Size

Prompt == op = "transfer" /\ step = 4 => since <= MaxGap
Fetched == memory \in Seq(0 .. 255) /\ \A i \in 1 .. Len(memory) : memory[i] = Stored(Offset + i - 1)
HeaderRead ==
  main = "bootloader" /\ si = -1 =>
    /\ memory = << >> /\ op \in {"divider", "select", "transfer", "deselect", "panic"}
    /\ op = "transfer" => part # "data"
    /\ op \in {"divider", "select"} \/ (op = "transfer" /\ part = "command") => n_sectors = 0 /\ n_bytes = 0
    /\ op = "transfer" /\ part = "header" =>
         /\ k < HEADER
         /\ n_sectors = Lowest(Sectors, IF k < FIELD_BYTES THEN k ELSE FIELD_BYTES)
         /\ n_bytes = IF k < FIELD_BYTES THEN 0 ELSE Lowest(Size, k - FIELD_BYTES)
    /\ op = "deselect" \/ (op = "transfer" /\ part = "rest") =>
         n_sectors = Sectors /\ n_bytes = Size /\ Sectors < FLASH_N_SECTORS
SectorsRead ==
  main = "bootloader" /\ si # -1 =>
    /\ n_sectors = Sectors /\ Sectors < FLASH_N_SECTORS
    /\ op \in {"select", "transfer", "deselect", "jump"} /\ (op # "jump" => si \in 0 .. Sectors - 1)
    /\ op = "transfer" => part \in {"command", "data"}
    /\ op = "select" \/ (op = "transfer" /\ part = "command") => Len(memory) = si * SECTOR
    /\ op = "transfer" /\ part = "data" =>
         /\ k < SECTOR /\ Len(memory) = si * SECTOR + k
         /\ Len(memory) < Size \/ si * SECTOR = Size
    /\ op = "deselect" => Len(memory) = Copied(si)
    /\ op = "jump" => Len(memory) = Copied(Sectors - 1)
    /\ op # "jump" => n_bytes = (Size - Len(memory)) % 256 ^ FIELD_BYTES
TestRead ==
  main = "flash_test" =>
    /\ op \in {"divider", "select", "transfer", "deselect", "end"} /\ (op # "end" => si = -1)
    /\ op = "transfer" => part \in {"command", "data"}
    /\ op \in {"divider", "select"} \/ (op = "transfer" /\ part = "command") => memory = << >>
    /\ op = "transfer" /\ part = "data" => k < SECTOR /\ Len(memory) = k
    /\ op \in {"deselect", "end"} => Len(memory) = SECTOR


(* A number's lowest bytes.                                                  *)
LEMMA LowestNext ==
  ASSUME NEW n \in Nat, NEW i \in 0 .. 3
  PROVE  Lowest(n, i + 1) = Lowest(n, i) + ((n \div 256 ^ i) % 256) * 256 ^ i
<1>1. /\ 256 ^ 0 = 1 /\ 256 ^ 1 = 256 /\ 256 ^ 2 = 65536 /\ 256 ^ 3 = 16777216 /\ 256 ^ 4 = 4294967296
  <2>1. 256 ^ 0 = 1 /\ 256 ^ 1 = 256
    OBVIOUS
  <2>2. 256 ^ 2 = 65536
    OBVIOUS
  <2>3. 256 ^ 3 = 16777216
    OBVIOUS
  <2>4. 256 ^ 4 = 4294967296
    OBVIOUS
  <2> QED BY <2>1, <2>2, <2>3, <2>4
<1>2. CASE i = 0
  <2>1. n % 256 = (n % 1) + ((n \div 1) % 256) * 1
    OBVIOUS
  <2> QED BY <1>1, <1>2, <2>1 DEF Lowest
<1>3. CASE i = 1
  <2>1. n % 65536 = (n % 256) + ((n \div 256) % 256) * 256
    OBVIOUS
  <2> QED BY <1>1, <1>3, <2>1 DEF Lowest
<1>4. CASE i = 2
  <2>1. n % 16777216 = (n % 65536) + ((n \div 65536) % 256) * 65536
    OBVIOUS
  <2> QED BY <1>1, <1>4, <2>1 DEF Lowest
<1>5. CASE i = 3
  <2>1. n % 4294967296 = (n % 16777216) + ((n \div 16777216) % 256) * 16777216
    OBVIOUS
  <2> QED BY <1>1, <1>5, <2>1 DEF Lowest
<1> QED BY <1>2, <1>3, <1>4, <1>5

(* What a field of the header counts up to.                                  *)
LEMMA FieldHolds == 256 ^ FIELD_BYTES \in Nat \ {0}
<1>1. PICK i \in 0 .. 3 : i + 1 = FIELD_BYTES
  BY SectorAssumption
<1>2. 256 ^ i \in Nat \ {0} /\ 256 ^ (i + 1) = 256 * 256 ^ i
  BY Weights
<1>3. PICK w \in Nat \ {0} : w = 256 ^ i
  BY <1>2
<1>4. 256 ^ FIELD_BYTES = 256 * w
  BY <1>1, <1>2, <1>3
<1>5. 256 * w \in Nat \ {0}
  OBVIOUS
<1> QED BY <1>4, <1>5

(* A field is wide enough for what is in it.                                 *)
LEMMA LowestEnds ==
  ASSUME NEW n \in Nat
  PROVE  Lowest(n, 0) = 0 /\ (n < 256 ^ FIELD_BYTES => Lowest(n, FIELD_BYTES) = n)
<1>1. 256 ^ 0 = 1 /\ n % 1 = 0
  OBVIOUS
<1>2. PICK m \in Nat \ {0} : m = 256 ^ FIELD_BYTES
  BY FieldHolds
<1>3. n < m => n % m = n
  OBVIOUS
<1> QED BY <1>1, <1>2, <1>3 DEF Lowest

(* Dividing by a number that is not known.                                   *)
LEMMA Division ==
  ASSUME NEW a \in Nat, NEW b \in Nat \ {0}
  PROVE  /\ a \div b \in Nat /\ a % b \in 0 .. b - 1
         /\ a = (a \div b) * b + (a % b)
<1>1. a % b \in 0 .. b - 1
  OBVIOUS
<1>2. a = b * (a \div b) + (a % b)
  OBVIOUS
<1>3. a \div b \in Int
  OBVIOUS
<1>4. a \div b \in Nat
  OBVIOUS
<1> QED BY <1>1, <1>2, <1>3, <1>4

(* How large an image is, and how many sectors it takes.                     *)
LEMMA Sizes ==
  ASSUME image \in Images
  PROVE  /\ Size \in Nat /\ Sectors \in Nat \ {0} /\ SECTOR \in Nat \ {0} /\ 256 ^ FIELD_BYTES \in Nat \ {0}
         /\ Size + SECTOR < 256 ^ FIELD_BYTES /\ Sectors < 256 ^ FIELD_BYTES
         /\ (Sectors - 1) * SECTOR <= Size /\ Size < Sectors * SECTOR
         /\ Size % SECTOR = 0 <=> (Sectors - 1) * SECTOR = Size
<1>1. Size \in Nat /\ SECTOR \in Nat \ {0} /\ Size + SECTOR < 256 ^ FIELD_BYTES
  BY ImageAssumption, SectorAssumption DEF Size, HEADER
<1>2. 256 ^ FIELD_BYTES \in Nat \ {0}
  BY FieldHolds
<1>3. PICK q \in Nat, r \in 0 .. SECTOR - 1 : q = Size \div SECTOR /\ r = Size % SECTOR /\ Size = q * SECTOR + r
  BY <1>1, Division
<1>4. Sectors = q + 1 /\ Sectors - 1 = q
  BY <1>3 DEF Sectors
<1>5. (q + 1) * SECTOR = q * SECTOR + SECTOR
  BY <1>1
<1>6. q * SECTOR \in Nat /\ q <= q * SECTOR
  BY <1>1
<1>7. (Sectors - 1) * SECTOR <= Size /\ Size < Sectors * SECTOR /\ (Size % SECTOR = 0 <=> (Sectors - 1) * SECTOR = Size)
  BY <1>1, <1>3, <1>4, <1>5, <1>6
<1>8. Sectors <= Size + SECTOR
  BY <1>1, <1>3, <1>4, <1>6
<1> QED BY <1>1, <1>2, <1>4, <1>7, <1>8

(* The bytes of the header and those of the image.                           *)
LEMMA HeaderStored ==
  ASSUME image \in Images, NEW i \in 0 .. FIELD_BYTES - 1
  PROVE  /\ Stored(i) = (Sectors \div 256 ^ i) % 256
         /\ Stored(FIELD_BYTES + i) = (Size \div 256 ^ i) % 256
<1>1. /\ SECTOR \in Nat /\ FIELD_BYTES \in 1 .. 4 /\ HEADER = 2 * FIELD_BYTES /\ SECTOR >= HEADER
      /\ Len(image) \in Nat
  BY SectorAssumption, ImageAssumption DEF HEADER
<1>2. /\ i < SECTOR + Len(image) /\ FIELD_BYTES + i < SECTOR + Len(image)
      /\ i + 1 \in 1 .. FIELD_BYTES /\ (FIELD_BYTES + i) + 1 = FIELD_BYTES + (i + 1) /\ (i + 1) - 1 = i
  BY <1>1
<1>3. /\ FlashImage(image)[i + 1] = Little(Sectors)[i + 1]
      /\ FlashImage(image)[FIELD_BYTES + (i + 1)] = Little(Size)[i + 1]
  BY <1>2, ImageShape DEF Sectors, Size
<1>4. \A n : Little(n)[i + 1] = (n \div 256 ^ i) % 256
  BY <1>2 DEF Little
<1> QED BY <1>2, <1>3, <1>4 DEF Stored

(* Behind the header's sector lies the image.                                *)
LEMMA ImageStored ==
  ASSUME image \in Images, NEW i \in 1 .. Size
  PROVE  Stored(SECTOR + i - 1) = image[i]
<1>1. SECTOR \in Nat /\ Len(image) \in Nat /\ Size = Len(image)
  BY SectorAssumption, ImageAssumption DEF Size
<1>2. SECTOR + i - 1 < SECTOR + Len(image) /\ (SECTOR + i - 1) + 1 = SECTOR + i
  BY <1>1
<1>3. FlashImage(image)[SECTOR + i] = image[i]
  BY <1>1, ImageShape
<1> QED BY <1>2, <1>3 DEF Stored

(* The count of the bytes that are left, without a sign.                     *)
LEMMA CountDown ==
  ASSUME NEW m \in Nat \ {0}, NEW n \in Nat, NEW s \in Nat, NEW l \in Nat, n + s < m, l + 1 <= n + s
  PROVE  /\ (((n - l) % m) - 1) % m = (n - (l + 1)) % m
         /\ (n - (l + 1)) % m = 0 <=> l + 1 = n
<1> DEFINE Residue(z) == IF z >= 0 THEN z ELSE z + m
<1>1. \A z \in Int : z < m /\ z + m > 0 => Residue(z) \in 0 .. m - 1 /\ z % m = Residue(z)
  <2>1. TAKE z \in Int
  <2>2. SUFFICES ASSUME z < m, z + m > 0 PROVE Residue(z) \in 0 .. m - 1 /\ z % m = Residue(z)
    OBVIOUS
  <2>3. CASE z >= 0
    BY <2>2, <2>3
  <2>4. CASE ~ (z >= 0)
    <3>1. z + m \in 0 .. m - 1
      BY <2>2, <2>4
    <3>2. z % m = z + m
      BY <3>1
    <3> QED BY <2>4, <3>1, <3>2
  <2> QED BY <2>3, <2>4
<1>2. /\ n - l \in Int /\ n - l < m /\ (n - l) + m > 0
      /\ n - (l + 1) \in Int /\ n - (l + 1) < m /\ (n - (l + 1)) + m > 0
  OBVIOUS
<1>3. (n - l) % m = Residue(n - l) /\ (n - (l + 1)) % m = Residue(n - (l + 1))
  BY <1>1, <1>2
<1>4. Residue(n - l) - 1 \in Int /\ Residue(n - l) - 1 < m /\ Residue(n - l) - 1 + m > 0
  BY <1>2
<1>5. (Residue(n - l) - 1) % m = Residue(Residue(n - l) - 1)
  BY <1>1, <1>4
<1>6. Residue(Residue(n - l) - 1) = Residue(n - (l + 1))
  OBVIOUS
<1>7. Residue(n - (l + 1)) = 0 <=> l + 1 = n
  OBVIOUS
<1> QED BY <1>3, <1>5, <1>6, <1>7

(* The waits of the program.                                                 *)
LEMMA PromptStep ==
  ASSUME PaceInv, Prompt, Next
  PROVE  Prompt'
<1> SUFFICES ASSUME op' = "transfer", step' = 4 PROVE since' <= MaxGap
  BY DEF Prompt
<1>1. since \in Nat /\ MaxGap \in Nat /\ 0 <= MaxGap
  BY GapAssumption DEF PaceInv, Driven
<1>2. CASE Wait
  <2>1. op = "transfer" /\ step = 4 /\ since' = since + 1 /\ ~ (since >= MaxGap + 0)
    BY <1>2 DEF Wait, program, Running, Overdue, Begins
  <2> QED BY <1>1, <2>1
<1>3. CASE Access
  <2>1. since' = 0
    BY <1>3 DEF Access, SetDivider, LoadControl, Select, Deselect, Transmit, SetTx, LoadRx,
                CommandByte, HeaderByte, RestByte, DataByte, ClearTx, At
  <2> QED BY <1>1, <2>1
<1> QED BY <1>2, <1>3 DEF Next

(* The byte loaded is the one before that of the transfer, which still runs. *)
LEMMA CopyingStep ==
  ASSUME PaceInv, Exchange, Prompt, Copying, Next
  PROVE  Copying'
<1> SUFFICES ASSUME op' = "transfer", step' = 5, part' # "command"
             PROVE  rx' = Byte(image, Base + Index - 5)'
  BY DEF Copying
<1>1. Driven /\ step \in 1 .. 5 /\ part \in Parts /\ since \in Nat
  BY DEF PaceInv, Driven
<1>2. CASE Wait
  <2>1. UNCHANGED <<op, step, part, k, si, rx, image>>
    BY <1>2 DEF Wait, program
  <2>2. rx = Byte(image, Base + Index - 5)
    BY <2>1 DEF Copying
  <2>3. Base' = Base /\ Index' = Index
    BY <2>1 DEF Base, High, Low, Index
  <2> QED BY <2>1, <2>2, <2>3
<1>3. CASE LoadRx
  <2>1. UNCHANGED <<op, part, k, si, image>> /\ op = "transfer" /\ step = 4 /\ rx' = datain
    BY <1>3 DEF LoadRx, At, NextStep
  <2>2. Begun /\ Held
    BY <2>1 DEF Begun, Held
  <2>3. Active \/ Starting
    <3>1. since <= MaxGap /\ MaxGap <= 16 /\ MaxGap \in Nat
      BY <2>1, GapAssumption DEF Prompt
    <3>2. Serving
      BY DEF PaceInv, Timing
    <3> QED BY <1>1, <2>1, <2>2, <3>1, <3>2 DEF Serving
  <2>4. PICK i \in Nat : i = Index /\ i >= 5
    <3>1. k \in Nat /\ HEADER \in Nat
      BY <1>1, SectorAssumption DEF Driven, HEADER
    <3>2. Index \in Nat /\ Index >= 5
      BY <1>1, <2>1, <3>1 DEF Index, Parts
    <3> QED BY <3>2
  <2>5. Exchanged = i
    BY <2>2, <2>3, <2>4 DEF Exchanged, Started
  <2>6. datain = Byte(image, Base + Index - 5)
    BY <2>2, <2>4, <2>5 DEF Exchange, Received
  <2>7. Base' = Base /\ Index' = Index
    BY <2>1 DEF Base, High, Low, Index
  <2> QED BY <2>1, <2>6, <2>7
<1>4. CASE LoadControl \/ Transmit \/ SetTx
  <2>1. step' = step + 1 /\ step \in 1 .. 3
    BY <1>4 DEF LoadControl, Transmit, SetTx, At, NextStep
  <2> QED BY <2>1
<1>5. CASE SetDivider \/ Select \/ Deselect \/ CommandByte \/ HeaderByte \/ RestByte \/ DataByte
  <2>1. step' = 1
    BY <1>5 DEF SetDivider, Select, Deselect, CommandByte, HeaderByte, RestByte, DataByte, ClearTx
  <2> QED BY <2>1
<1> QED BY <1>2, <1>3, <1>4, <1>5 DEF Next, Access

(* Where the program is in the image.                                        *)
Reading == Fetched /\ HeaderRead /\ SectorsRead /\ TestRead

(* Accesses of the library move no data.                                     *)
LEMMA ReadingSame ==
  ASSUME Reading, UNCHANGED <<main, image, op, part, k, si, n_sectors, n_bytes, memory>>
  PROVE  Reading'
<1>1. Size' = Size /\ Sectors' = Sectors /\ Offset' = Offset
  BY DEF Size, Sectors, Offset
<1>2. \A i : Stored(i)' = Stored(i)
  BY DEF Stored
<1>3. Fetched'
  BY <1>1, <1>2 DEF Reading, Fetched
<1>4. HeaderRead'
  BY <1>1 DEF Reading, HeaderRead
<1>5. SectorsRead'
  <2>1. Copied(si)' = Copied(si) /\ Copied(Sectors - 1)' = Copied(Sectors - 1)
    BY <1>1 DEF Copied
  <2> QED BY <1>1, <2>1 DEF Reading, SectorsRead
<1>6. TestRead'
  BY DEF Reading, TestRead
<1> QED BY <1>3, <1>4, <1>5, <1>6 DEF Reading

(* What no step changes.                                                     *)
LEMMA Fixed ==
  ASSUME main' = main, image' = image
  PROVE  /\ Size' = Size /\ Sectors' = Sectors /\ Offset' = Offset
         /\ \A i : Stored(i)' = Stored(i)
<1>1. Size' = Size /\ Offset' = Offset
  BY DEF Size, Offset
<1>2. Sectors' = Sectors
  BY <1>1 DEF Sectors
<1> QED BY <1>1, <1>2 DEF Stored

\* The program runs, on an image.
Runs == main \in {"bootloader", "flash_test"} /\ image \in Images /\ Driven /\ main' = main /\ image' = image

(* The bytes that are in memory stay there.                                  *)
LEMMA FetchedSame ==
  ASSUME Runs, Fetched, memory' = memory
  PROVE  Fetched'
BY Fixed DEF Runs, Fetched

(* The divider is written, the chip selected.                                *)
LEMMA SelectReading ==
  ASSUME Runs, Reading, SetDivider \/ Select
  PROVE  Reading'
<1>1. /\ UNCHANGED <<si, n_sectors, n_bytes, memory>>
      /\ \/ op = "divider" /\ op' = "select"
         \/ op = "select" /\ op' = "transfer" /\ part' = "command"
  BY DEF SetDivider, Select, At
<1>2. Fetched'
  BY <1>1, FetchedSame DEF Reading
<1>3. HeaderRead'
  BY <1>1, Fixed DEF Runs, Reading, HeaderRead
<1>4. SectorsRead'
  BY <1>1, Fixed DEF Runs, Reading, SectorsRead
<1>5. TestRead'
  BY <1>1 DEF Runs, Reading, TestRead
<1> QED BY <1>2, <1>3, <1>4, <1>5 DEF Reading

(* The rest of the header's sector is read.                                  *)
LEMMA RestReading ==
  ASSUME Runs, Reading, RestByte
  PROVE  Reading'
<1>1. /\ UNCHANGED <<part, si, n_sectors, n_bytes, memory>>
      /\ op = "transfer" /\ part = "rest" /\ op' \in {"transfer", "deselect"}
  BY DEF RestByte, ClearTx, At
<1>2. Fetched'
  BY <1>1, FetchedSame DEF Reading
<1>3. HeaderRead'
  BY <1>1, Fixed DEF Runs, Reading, HeaderRead
<1>4. main = "bootloader" /\ si = -1
  BY <1>1 DEF Runs, Reading, SectorsRead, TestRead
<1>5. SectorsRead' /\ TestRead'
  BY <1>1, <1>4 DEF Runs, SectorsRead, TestRead
<1> QED BY <1>2, <1>3, <1>5 DEF Reading

(* A byte of the command.                                                    *)
LEMMA CommandReading ==
  ASSUME Runs, Reading, CommandByte
  PROVE  Reading'
<1>1. /\ UNCHANGED <<op, si, n_sectors, n_bytes, memory>> /\ op = "transfer" /\ part = "command"
      /\ \/ part' = "command"
         \/ k' = 0 /\ part' = IF main = "bootloader" /\ si = -1 THEN "header" ELSE "data"
  BY DEF CommandByte, ClearTx, At
<1>2. Fetched'
  BY <1>1, FetchedSame DEF Reading
<1>3. CASE part' = "command"
  <2>1. HeaderRead'
    BY <1>1, <1>3, Fixed DEF Runs, Reading, HeaderRead
  <2>2. SectorsRead'
    BY <1>1, <1>3, Fixed DEF Runs, Reading, SectorsRead
  <2>3. TestRead'
    BY <1>1, <1>3 DEF Runs, Reading, TestRead
  <2> QED BY <1>2, <2>1, <2>2, <2>3 DEF Reading
<1>4. CASE part' = "header" /\ k' = 0 /\ main = "bootloader" /\ si = -1
  <2>1. memory = << >> /\ n_sectors = 0 /\ n_bytes = 0
    BY <1>1, <1>4 DEF Reading, HeaderRead
  <2>2. Lowest(Sectors, 0) = 0 /\ 0 < FIELD_BYTES /\ 0 < HEADER
    BY Sizes, LowestEnds, SectorAssumption DEF Runs, HEADER
  <2>3. HeaderRead'
    BY <1>1, <1>4, <2>1, <2>2, Fixed DEF Runs, HeaderRead
  <2>4. SectorsRead' /\ TestRead'
    BY <1>1, <1>4 DEF Runs, SectorsRead, TestRead
  <2> QED BY <1>2, <2>3, <2>4 DEF Reading
<1>5. CASE part' = "data" /\ k' = 0 /\ main = "bootloader" /\ si # -1
  <2>1. /\ n_sectors = Sectors /\ Sectors < FLASH_N_SECTORS /\ si \in 0 .. Sectors - 1
        /\ Len(memory) = si * SECTOR /\ n_bytes = (Size - Len(memory)) % 256 ^ FIELD_BYTES
    BY <1>1, <1>5 DEF Reading, SectorsRead
  <2>2. PICK s \in Nat, a \in Nat, b \in Nat \ {0}, z \in Nat :
          s = si /\ a = Sectors - 1 /\ b = SECTOR /\ z = Size /\ s <= a /\ a * b <= z
    <3>1. /\ Size \in Nat /\ Sectors \in Nat \ {0} /\ SECTOR \in Nat \ {0}
          /\ (Sectors - 1) * SECTOR <= Size
      BY Sizes DEF Runs
    <3>2. PICK a \in Nat : a = Sectors - 1
      BY <3>1
    <3>3. si \in Nat /\ si <= a
      BY <2>1, <3>1, <3>2
    <3> QED BY <3>1, <3>2, <3>3, Zenon
  <2>3. s * b <= a * b /\ s * b \in Nat /\ a * b \in Nat
    BY <2>2
  <2>4. Len(memory) = si * SECTOR + 0 /\ (Len(memory) < Size \/ si * SECTOR = Size) /\ 0 < SECTOR
    BY <2>1, <2>2, <2>3
  <2>5. SectorsRead'
    BY <1>1, <1>5, <2>1, <2>4, Fixed DEF Runs, SectorsRead
  <2>6. HeaderRead' /\ TestRead'
    BY <1>1, <1>5 DEF Runs, HeaderRead, TestRead
  <2> QED BY <1>2, <2>5, <2>6 DEF Reading
<1>6. CASE part' = "data" /\ k' = 0 /\ main = "flash_test"
  <2>1. memory = << >> /\ si = -1
    BY <1>1, <1>6 DEF Reading, TestRead
  <2>2. Len(<< >>) = 0 /\ 0 < SECTOR
    BY SectorAssumption DEF HEADER
  <2>3. TestRead'
    BY <1>1, <1>6, <2>1, <2>2 DEF Runs, TestRead
  <2>4. HeaderRead' /\ SectorsRead'
    BY <1>6 DEF Runs, HeaderRead, SectorsRead
  <2> QED BY <1>2, <2>3, <2>4 DEF Reading
<1> QED BY <1>1, <1>3, <1>4, <1>5, <1>6 DEF Runs

(* The sector is read: on to the next one, or into the program.              *)
LEMMA DeselectReading ==
  ASSUME Runs, Reading, Deselect
  PROVE  Reading'
<1>1. /\ UNCHANGED <<part, n_sectors, n_bytes, memory>> /\ op = "deselect" /\ si' = si + 1
      /\ op' = IF main = "flash_test" THEN "end" ELSE IF si' < n_sectors THEN "select" ELSE "jump"
  BY DEF Deselect, At
<1>2. Fetched'
  BY <1>1, FetchedSame DEF Reading
<1>3. CASE main = "flash_test"
  <2>1. op' = "end" /\ Len(memory) = SECTOR
    BY <1>1, <1>3 DEF Reading, TestRead
  <2>2. TestRead' /\ HeaderRead' /\ SectorsRead'
    BY <1>1, <1>3, <2>1 DEF Runs, TestRead, HeaderRead, SectorsRead
  <2> QED BY <1>2, <2>2 DEF Reading
<1>4. CASE main = "bootloader" /\ si = -1
  <2>1. memory = << >> /\ n_sectors = Sectors /\ n_bytes = Size /\ Sectors < FLASH_N_SECTORS
    BY <1>1, <1>4 DEF Reading, HeaderRead
  <2>2. si' = 0 /\ Sectors \in Nat \ {0} /\ 0 \in 0 .. Sectors - 1
    BY <1>1, <1>4, Sizes DEF Runs
  <2>3. op' = "select"
    BY <1>1, <1>4, <2>1, <2>2
  <2>4. Len(<< >>) = 0 * SECTOR /\ Size = (Size - Len(<< >>)) % 256 ^ FIELD_BYTES
    <3>1. PICK m \in Nat \ {0}, n \in Nat, b \in Nat : m = 256 ^ FIELD_BYTES /\ n = Size /\ b = SECTOR /\ n < m
      BY Sizes DEF Runs
    <3>2. (n - 0) % m = n /\ 0 * b = 0
      BY <3>1
    <3> QED BY <3>1, <3>2
  <2>5. SectorsRead'
    BY <1>1, <1>4, <2>1, <2>2, <2>3, <2>4, Fixed DEF Runs, SectorsRead
  <2>6. HeaderRead' /\ TestRead'
    BY <1>4, <2>2 DEF Runs, HeaderRead, TestRead
  <2> QED BY <1>2, <2>5, <2>6 DEF Reading
<1>5. CASE main = "bootloader" /\ si # -1
  <2>1. /\ n_sectors = Sectors /\ Sectors < FLASH_N_SECTORS /\ si \in 0 .. Sectors - 1
        /\ Len(memory) = Copied(si) /\ n_bytes = (Size - Len(memory)) % 256 ^ FIELD_BYTES
    BY <1>1, <1>5 DEF Reading, SectorsRead
  <2>2. PICK s \in Nat, t \in Nat \ {0}, b \in Nat \ {0}, z \in Nat :
          /\ s = si /\ t = Sectors /\ b = SECTOR /\ z = Size /\ s + 1 <= t
          /\ (t - 1) * b <= z
    <3>1. /\ Size \in Nat /\ Sectors \in Nat \ {0} /\ SECTOR \in Nat \ {0}
          /\ (Sectors - 1) * SECTOR <= Size
      BY Sizes DEF Runs
    <3>2. si \in Nat /\ si + 1 <= Sectors
      BY <2>1, <3>1
    <3> QED BY <3>1, <3>2, Zenon
  <2>3. si' = s + 1
    BY <1>1, <2>2
  <2>4. HeaderRead' /\ TestRead'
    BY <1>5, <2>3 DEF Runs, HeaderRead, TestRead
  <2>5. CASE s + 1 < t
    <3>1. op' = "select"
      BY <1>1, <1>5, <2>1, <2>2, <2>3, <2>5
    <3>2. (s + 1) * b <= (t - 1) * b /\ (s + 1) * b \in Nat /\ (t - 1) * b \in Nat
      BY <2>2, <2>5
    <3>3. Len(memory) = (s + 1) * SECTOR
      BY <2>1, <2>2, <3>2 DEF Copied
    <3>4. si' \in 0 .. Sectors - 1 /\ Len(memory) = si' * SECTOR
      BY <2>2, <2>3, <2>5, <3>3
    <3>5. SectorsRead'
      BY <1>1, <1>5, <2>1, <3>1, <3>4, Fixed DEF Runs, SectorsRead
    <3> QED BY <1>2, <2>4, <3>5 DEF Reading
  <2>6. CASE ~ (s + 1 < t)
    <3>1. op' = "jump" /\ s = t - 1
      BY <1>1, <1>5, <2>1, <2>2, <2>3, <2>6
    <3>2. Len(memory) = Copied(Sectors - 1)
      BY <2>1, <2>2, <3>1
    <3>3. Copied(Sectors - 1)' = Copied(Sectors - 1)
      BY Fixed DEF Runs, Copied
    <3>4. SectorsRead'
      BY <1>1, <1>5, <2>1, <3>1, <3>2, <3>3, Fixed DEF Runs, SectorsRead
    <3> QED BY <1>2, <2>4, <3>4 DEF Reading
  <2> QED BY <2>5, <2>6
<1> QED BY <1>3, <1>4, <1>5 DEF Runs

(* The byte that the program got.                                            *)
LEMMA ByteGot ==
  ASSUME Runs, Copying, op = "transfer", step = 5, part \in {"header", "data"},
         NEW i \in Int, i = si, NEW s \in Nat, s < 65536, s = i + 1, NEW p \in Nat, p = k
  PROVE  s * SECTOR + p \in Nat /\ rx = Stored(s * SECTOR + p) /\ rx \in 0 .. 255
<1>1. (s \div 256) % 256 = s \div 256 /\ s = (s \div 256) * 256 + (s % 256)
  OBVIOUS
<1>2. High * 256 + Low = s
  BY <1>1 DEF High, Low
<1>3. PICK base \in Nat : base = Base /\ base = s * SECTOR
  <2>1. s * SECTOR \in Nat
    BY SectorAssumption
  <2> QED BY <1>2, <2>1 DEF Base
<1>4. Index = 5 + p
  BY DEF Index
<1>5. base + p \in Nat /\ Base + Index - 5 = base + p
  BY <1>3, <1>4
<1>6. rx = Byte(image, base + p)
  BY <1>5 DEF Copying
<1> QED BY <1>3, <1>5, <1>6, ByteType DEF Runs

(* A byte of the header.                                                     *)
LEMMA HeaderReading ==
  ASSUME Runs, Copying, Reading, HeaderByte
  PROVE  Reading'
<1>1. /\ UNCHANGED <<si, memory>> /\ op = "transfer" /\ part = "header" /\ step = 5
      /\ n_sectors' = IF k < FIELD_BYTES THEN n_sectors + rx * 256 ^ k ELSE n_sectors
      /\ n_bytes' = IF k < FIELD_BYTES THEN n_bytes ELSE n_bytes + rx * 256 ^ (k - FIELD_BYTES)
      /\ IF k + 1 < HEADER THEN k' = k + 1 /\ UNCHANGED <<op, part>>
         ELSE /\ part' = "rest"
              /\ op' = IF TooLarge(n_sectors', n_bytes') THEN "panic"
                       ELSE IF SECTOR > HEADER THEN op ELSE "deselect"
  BY DEF HeaderByte, ClearTx, At
<1>2. main = "bootloader" /\ si = -1
  BY <1>1 DEF Runs, Reading, SectorsRead, TestRead
<1>3. /\ memory = << >> /\ k < HEADER
      /\ n_sectors = Lowest(Sectors, IF k < FIELD_BYTES THEN k ELSE FIELD_BYTES)
      /\ n_bytes = IF k < FIELD_BYTES THEN 0 ELSE Lowest(Size, k - FIELD_BYTES)
  BY <1>1, <1>2 DEF Reading, HeaderRead
<1>4. PICK f \in 1 .. 4, p \in Nat : f = FIELD_BYTES /\ p = k /\ HEADER = 2 * f /\ p < 2 * f
  BY <1>3, SectorAssumption DEF Runs, Driven, HEADER
<1>5. rx = Stored(p)
  <2>1. PICK i \in Int, s \in Nat : i = si /\ s = i + 1 /\ s = 0
    BY <1>2
  <2>2. rx = Stored(s * SECTOR + p)
    BY <1>1, <1>4, <2>1, ByteGot
  <2>3. s * SECTOR + p = p
    BY <1>4, <2>1, SectorAssumption
  <2> QED BY <2>2, <2>3
<1>6. Fetched'
  BY <1>1, FetchedSame DEF Reading
<1>7. SectorsRead' /\ TestRead'
  BY <1>1, <1>2 DEF Runs, SectorsRead, TestRead
<1>8. image \in Images /\ Size \in Nat /\ Sectors \in Nat /\ Size < 256 ^ FIELD_BYTES /\ Sectors < 256 ^ FIELD_BYTES
  <2>1. /\ Size \in Nat /\ Sectors \in Nat /\ SECTOR \in Nat /\ 256 ^ FIELD_BYTES \in Nat
        /\ Size + SECTOR < 256 ^ FIELD_BYTES /\ Sectors < 256 ^ FIELD_BYTES
    BY Sizes DEF Runs
  <2> QED BY <2>1 DEF Runs
<1> DEFINE W(q) == 256 ^ q
           D(n, q) == (n \div 256 ^ q) % 256
<1>9. \A n \in Nat : \A q \in 0 .. 3 : Lowest(n, q + 1) = Lowest(n, q) + D(n, q) * W(q)
  BY LowestNext, Zenon
<1>10. Sectors \in Nat /\ Size \in Nat
  BY <1>8
<1>11. /\ n_sectors' = IF k < FIELD_BYTES THEN n_sectors + rx * W(k) ELSE n_sectors
       /\ n_bytes' = IF k < FIELD_BYTES THEN n_bytes ELSE n_bytes + rx * W(k - FIELD_BYTES)
  BY <1>1, Zenon
<1>12. ~ (k + 1 < HEADER) =>
         /\ part' = "rest"
         /\ op' = IF TooLarge(n_sectors', n_bytes') THEN "panic"
                  ELSE IF SECTOR > HEADER THEN "transfer" ELSE "deselect"
  BY DEF HeaderByte, ClearTx, At
<1> HIDE DEF W, D
<1>13. CASE p < f
  <2>1. n_sectors' = Lowest(Sectors, p + 1)
    <3>1. p \in 0 .. 3 /\ p \in 0 .. FIELD_BYTES - 1
      BY <1>4, <1>13
    <3>2. rx = D(Sectors, p)
      BY <1>5, <1>8, <3>1, HeaderStored DEF D
    <3>3. Lowest(Sectors, p + 1) = Lowest(Sectors, p) + D(Sectors, p) * W(p)
      BY <1>9, <1>10, <3>1
    <3>4. n_sectors' = n_sectors + rx * W(p)
      BY <1>11, <1>4, <1>13
    <3>5. n_sectors = Lowest(Sectors, p)
      BY <1>3, <1>4, <1>13
    <3> QED BY <3>2, <3>3, <3>4, <3>5, Zenon
  <2>2. n_bytes' = 0
    BY <1>1, <1>3, <1>4, <1>13
  <2>3. k' = p + 1 /\ op' = op /\ part' = part
    BY <1>1, <1>4, <1>13
  <2>4. p + 1 < HEADER /\ (~ (p + 1 < f) => p + 1 = f /\ (p + 1) - f = 0)
    BY <1>4, <1>13
  <2>5. Lowest(Size, 0) = 0
    BY <1>8, LowestEnds
  <2>6. /\ n_sectors' = Lowest(Sectors, IF p + 1 < f THEN p + 1 ELSE f)
        /\ n_bytes' = IF p + 1 < f THEN 0 ELSE Lowest(Size, (p + 1) - f)
    BY <2>1, <2>2, <2>4, <2>5
  <2>7. HeaderRead'
    BY <1>1, <1>3, <1>4, <2>3, <2>4, <2>6, Fixed DEF Runs, HeaderRead
  <2> QED BY <1>6, <1>7, <2>7 DEF Reading
<1>14. CASE ~ (p < f)
  <2>1. n_sectors' = Sectors
    <3>1. n_sectors' = Lowest(Sectors, FIELD_BYTES)
      BY <1>1, <1>3, <1>4, <1>14
    <3> QED BY <1>8, <3>1, LowestEnds
  <2>2. PICK i \in 0 .. 3 : i = p - f /\ i \in 0 .. FIELD_BYTES - 1 /\ FIELD_BYTES + i = p /\ (p + 1) - f = i + 1
    BY <1>4, <1>14
  <2>3. n_bytes' = Lowest(Size, i + 1)
    <3>1. rx = D(Size, i)
      BY <1>5, <1>8, <2>2, HeaderStored DEF D
    <3>2. Lowest(Size, i + 1) = Lowest(Size, i) + D(Size, i) * W(i)
      BY <1>9, <1>10
    <3>3. n_bytes' = n_bytes + rx * W(i)
      BY <1>11, <1>4, <1>14, <2>2
    <3>4. n_bytes = Lowest(Size, i)
      BY <1>3, <1>4, <1>14, <2>2
    <3> QED BY <3>1, <3>2, <3>3, <3>4, Zenon
  <2>4. CASE p + 1 < 2 * f
    <3>1. k' = p + 1 /\ op' = op /\ part' = part /\ p + 1 < HEADER /\ ~ (p + 1 < f)
      BY <1>1, <1>4, <1>14, <2>4
    <3>2. Lowest(Sectors, FIELD_BYTES) = Sectors
      BY <1>8, LowestEnds
    <3>3. HeaderRead'
      BY <1>1, <1>3, <1>4, <2>1, <2>2, <2>3, <3>1, <3>2, Fixed DEF Runs, HeaderRead
    <3> QED BY <1>6, <1>7, <3>3 DEF Reading
  <2>5. CASE ~ (p + 1 < 2 * f)
    <3>1. i + 1 = FIELD_BYTES /\ ~ (k + 1 < HEADER)
      BY <1>4, <2>2, <2>5
    <3>2. n_bytes' = Size
      BY <1>8, <2>3, <3>1, LowestEnds
    <3>3. part' = "rest" /\ op' \in {"panic", "transfer", "deselect"} /\ (op' # "panic" => ~ TooLarge(Sectors, Size))
      BY <1>12, <2>1, <3>1, <3>2, Zenon
    <3>4. op' # "panic" => Sectors < FLASH_N_SECTORS
      BY <1>8, <3>3, FlashAssumption DEF TooLarge
    <3>5. HeaderRead'
      BY <1>1, <1>3, <2>1, <3>2, <3>3, <3>4, Fixed DEF Runs, HeaderRead
    <3> QED BY <1>6, <1>7, <3>5 DEF Reading
  <2> QED BY <2>4, <2>5
<1> QED BY <1>13, <1>14

(* A byte goes behind those in memory.                                       *)
LEMMA FetchedNext ==
  ASSUME Runs, Fetched, NEW l \in Nat, l = Len(memory), NEW b \in 0 .. 255, b = Stored(Offset + l),
         memory' = Append(memory, b)
  PROVE  Fetched' /\ Len(memory') = l + 1
<1>1. memory \in Seq(0 .. 255)
  BY DEF Fetched
<1>2. PICK m : m = Append(memory, b)
  OBVIOUS
<1>3. m \in Seq(0 .. 255) /\ Len(m) = l + 1
  BY <1>1, <1>2
<1>4. \A i \in 1 .. Len(m) : m[i] = Stored(Offset + i - 1)
  <2>1. TAKE i \in 1 .. Len(m)
  <2>2. CASE i <= l
    <3>1. i \in 1 .. Len(memory)
      BY <1>3, <2>2
    <3>2. m[i] = memory[i]
      BY <1>1, <1>2, <3>1
    <3> QED BY <3>1, <3>2 DEF Fetched
  <2>3. CASE ~ (i <= l)
    <3>1. i = l + 1
      BY <1>3, <2>3
    <3>2. m[l + 1] = b
      BY <1>1, <1>2
    <3>3. Offset \in Nat
      BY SectorAssumption DEF Offset
    <3>4. Offset + (l + 1) - 1 = Offset + l
      BY <3>3
    <3> QED BY <3>1, <3>2, <3>4
  <2> QED BY <2>2, <2>3
<1>5. memory' = m
  BY <1>2
<1>6. Fetched'
  BY <1>3, <1>4, <1>5, Fixed DEF Runs, Fetched
<1> QED BY <1>3, <1>5, <1>6

(* A byte of the image, copied by the bootloader.                            *)
LEMMA LoaderReading ==
  ASSUME Runs, Copying, Reading, DataByte, main = "bootloader"
  PROVE  Reading'
<1>1. /\ UNCHANGED <<part, si, n_sectors>> /\ op = "transfer" /\ part = "data" /\ step = 5
      /\ memory' = Append(memory, rx) /\ k' = k + 1
      /\ n_bytes' = (n_bytes - 1) % 256 ^ FIELD_BYTES
      /\ op' = IF k + 1 = SECTOR \/ n_bytes' = 0 THEN "deselect" ELSE op
  BY DEF DataByte, ClearTx, At, LastByte
<1>2. si # -1
  BY <1>1 DEF Reading, HeaderRead
<1>3. /\ n_sectors = Sectors /\ Sectors < FLASH_N_SECTORS /\ si \in 0 .. Sectors - 1
      /\ k < SECTOR /\ Len(memory) = si * SECTOR + k /\ (Len(memory) < Size \/ si * SECTOR = Size)
      /\ n_bytes = (Size - Len(memory)) % 256 ^ FIELD_BYTES
  BY <1>1, <1>2 DEF Reading, SectorsRead
<1>4. /\ Size \in Nat /\ Sectors \in Nat \ {0} /\ SECTOR \in Nat \ {0} /\ 256 ^ FIELD_BYTES \in Nat \ {0}
      /\ Size + SECTOR < 256 ^ FIELD_BYTES
  BY Sizes DEF Runs
<1>5. PICK s \in Nat, p \in Nat, b \in Nat \ {0}, z \in Nat, m \in Nat \ {0} :
        s = si /\ p = k /\ b = SECTOR /\ z = Size /\ m = 256 ^ FIELD_BYTES /\ p < b /\ z + b < m
  <2>1. si \in Nat /\ k \in Nat
    BY <1>3, <1>4 DEF Runs, Driven
  <2> QED BY <1>3, <1>4, <2>1, Zenon
<1>6. PICK l \in Nat : l = Len(memory) /\ l = s * b + p /\ (l < z \/ s * b = z)
  <2>1. s * b + p \in Nat
    OBVIOUS
  <2> QED BY <1>3, <1>5, <2>1
<1>7. rx = Stored(Offset + l) /\ rx \in 0 .. 255
  <2>1. PICK t \in Nat : t < 65536 /\ t = s + 1
    <3>1. s + 1 <= Sectors
      BY <1>3, <1>4, <1>5
    <3>2. FLASH_N_SECTORS \in Nat /\ FLASH_N_SECTORS <= 65536
      BY FlashAssumption
    <3>3. PICK n \in Nat : n = Sectors /\ n < FLASH_N_SECTORS /\ s + 1 <= n
      BY <1>3, <1>4, <3>1
    <3>4. s + 1 < 65536
      BY <3>2, <3>3
    <3> QED BY <3>4
  <2>2. rx = Stored(t * SECTOR + p) /\ rx \in 0 .. 255
    <3>1. s \in Int
      OBVIOUS
    <3> QED BY <1>1, <1>5, <2>1, <3>1, ByteGot
  <2>3. t * b + p = b + l
    <3>1. (s + 1) * b = s * b + b
      OBVIOUS
    <3>2. s * b \in Nat
      OBVIOUS
    <3> QED BY <1>6, <2>1, <3>1, <3>2
  <2>4. t * SECTOR + p = Offset + l
    BY <1>5, <2>3 DEF Offset
  <2> QED BY <2>2, <2>4
<1>8. Fetched' /\ Len(memory') = l + 1
  BY <1>1, <1>6, <1>7, FetchedNext DEF Reading
<1>9. (s + 1) * b = s * b + b /\ s * b \in Nat
  OBVIOUS
<1>10. l + 1 <= z + b /\ l + 1 <= (s + 1) * b
  BY <1>5, <1>6, <1>9
<1>11. n_bytes' = (z - (l + 1)) % m /\ (n_bytes' = 0 <=> l + 1 = z)
  <2>1. n_bytes' = (((z - l) % m) - 1) % m
    BY <1>1, <1>3, <1>5, <1>6
  <2> QED BY <1>5, <1>10, <2>1, CountDown
<1>12. HeaderRead' /\ TestRead'
  BY <1>1, <1>2 DEF Runs, HeaderRead, TestRead
<1>13. CASE p + 1 = b \/ l + 1 = z
  <2>1. op' = "deselect"
    BY <1>1, <1>5, <1>11, <1>13
  <2>2. l + 1 = Copied(si)
    <3>1. CASE p + 1 = b
      <4>1. l + 1 = (s + 1) * b /\ (l + 1 <= z \/ s * b = z)
        BY <1>6, <1>9, <3>1
      <4> QED BY <1>5, <4>1 DEF Copied
    <3>2. CASE p + 1 # b /\ l + 1 = z
      <4>1. s * b # z /\ ~ ((s + 1) * b <= z)
        BY <1>5, <1>6, <1>9, <3>2
      <4> QED BY <1>5, <3>2, <4>1 DEF Copied
    <3> QED BY <1>13, <3>1, <3>2
  <2>3. Copied(si)' = Copied(si)
    BY <1>1, Fixed DEF Runs, Copied
  <2>4. SectorsRead'
    BY <1>1, <1>3, <1>5, <1>8, <1>11, <2>1, <2>2, <2>3, Fixed DEF Runs, SectorsRead
  <2> QED BY <1>8, <1>12, <2>4 DEF Reading
<1>14. CASE ~ (p + 1 = b \/ l + 1 = z)
  <2>1. op' = op
    BY <1>1, <1>5, <1>11, <1>14
  <2>2. k' = p + 1 /\ p + 1 < b /\ l + 1 = s * b + (p + 1) /\ (l + 1 < z \/ s * b = z)
    BY <1>1, <1>5, <1>6, <1>9, <1>14
  <2>3. SectorsRead'
    BY <1>1, <1>3, <1>5, <1>8, <1>11, <2>1, <2>2, Fixed DEF Runs, SectorsRead
  <2> QED BY <1>8, <1>12, <2>3 DEF Reading
<1> QED BY <1>13, <1>14

(* A byte of the first sector, copied by flash_test.c.                       *)
LEMMA TestReading ==
  ASSUME Runs, Copying, Reading, DataByte, main = "flash_test"
  PROVE  Reading'
<1>1. /\ UNCHANGED <<part, si>> /\ op = "transfer" /\ part = "data" /\ step = 5
      /\ memory' = Append(memory, rx) /\ k' = k + 1
      /\ op' = IF k + 1 = SECTOR THEN "deselect" ELSE op
  BY DEF DataByte, ClearTx, At
<1>2. si = -1 /\ k < SECTOR /\ Len(memory) = k
  BY <1>1 DEF Reading, TestRead
<1>3. PICK p \in Nat, b \in Nat : p = k /\ b = SECTOR /\ p < b
  BY <1>2, SectorAssumption DEF Runs, Driven
<1>4. rx = Stored(Offset + p) /\ rx \in 0 .. 255
  <2>1. PICK i \in Int, s \in Nat : i = si /\ s = i + 1 /\ s = 0
    BY <1>2
  <2>2. rx = Stored(s * SECTOR + p) /\ rx \in 0 .. 255
    BY <1>1, <1>3, <2>1, ByteGot
  <2>3. s * b + p = 0 + p
    BY <2>1
  <2>4. s * SECTOR + p = Offset + p
    BY <1>3, <2>3 DEF Offset
  <2> QED BY <2>2, <2>4
<1>5. Fetched' /\ Len(memory') = p + 1
  BY <1>1, <1>2, <1>3, <1>4, FetchedNext DEF Reading
<1>6. TestRead'
  <2>1. p + 1 = b \/ p + 1 < b
    BY <1>3
  <2> QED BY <1>1, <1>2, <1>3, <1>5, <2>1 DEF Runs, TestRead
<1>7. HeaderRead' /\ SectorsRead'
  BY DEF Runs, HeaderRead, SectorsRead
<1> QED BY <1>5, <1>6, <1>7 DEF Reading

(* Every step keeps the program in its place.                                *)
LEMMA ReadingStep ==
  ASSUME PaceInv, Pace, Copying, Reading, Next
  PROVE  Reading'
<1>1. Runs
  BY ProgramAssumption DEF PaceInv, Pace, Runs
<1>2. CASE Wait
  <2>1. UNCHANGED <<main, image, op, part, k, si, n_sectors, n_bytes, memory>>
    BY <1>2 DEF Wait, program
  <2> QED BY <2>1, ReadingSame
<1>3. CASE LoadControl \/ Transmit \/ SetTx \/ LoadRx
  <2>1. UNCHANGED <<main, image, op, part, k, si, n_sectors, n_bytes, memory>>
    BY <1>3 DEF LoadControl, Transmit, SetTx, LoadRx, At, NextStep
  <2> QED BY <2>1, ReadingSame
<1>4. CASE SetDivider \/ Select
  BY <1>1, <1>4, SelectReading
<1>5. CASE Deselect
  BY <1>1, <1>5, DeselectReading
<1>6. CASE CommandByte
  BY <1>1, <1>6, CommandReading
<1>7. CASE HeaderByte
  BY <1>1, <1>7, HeaderReading
<1>8. CASE RestByte
  BY <1>1, <1>8, RestReading
<1>9. CASE DataByte
  BY <1>1, <1>9, LoaderReading, TestReading DEF Runs
<1> QED BY <1>2, <1>3, <1>4, <1>5, <1>6, <1>7, <1>8, <1>9 DEF Next, Access

\* The invariant of the program.
ProgramInv == PaceInv /\ Exchange /\ Prompt /\ Copying /\ Reading

(* It holds at the start, ...                                                *)
LEMMA ProgramInit == Init => ProgramInv
<1> SUFFICES ASSUME Init PROVE Prompt /\ Copying /\ Reading
  BY PaceInit, ExchangeInit DEF ProgramInv
<1>1. op = "divider" /\ part = "command" /\ si = -1 /\ n_sectors = 0 /\ n_bytes = 0 /\ memory = << >>
  BY DEF Init
<1>2. << >> \in Seq(0 .. 255) /\ Len(<< >>) = 0
  OBVIOUS
<1>3. Fetched
  BY <1>1, <1>2 DEF Fetched
<1> QED BY <1>1, <1>3 DEF Prompt, Copying, Reading, HeaderRead, SectorsRead, TestRead

(* ... and while nothing moves.                                              *)
LEMMA ProgramStutter == ProgramInv /\ UNCHANGED vars => ProgramInv'
<1> SUFFICES ASSUME ProgramInv, UNCHANGED vars PROVE ProgramInv'
  OBVIOUS
<1>1. UNCHANGED <<main, image, since, op, step, part, k, si, n_sectors, n_bytes, memory, rx>>
  BY DEF vars, program
<1>2. Base' = Base /\ Index' = Index
  BY <1>1 DEF Base, High, Low, Index
<1>3. Prompt' /\ Copying'
  BY <1>1, <1>2 DEF ProgramInv, Prompt, Copying, Byte
<1>4. Reading'
  BY <1>1, ReadingSame DEF ProgramInv
<1> QED BY <1>3, <1>4, PaceStutter, ExchangeStutter DEF ProgramInv

(* At the end memory holds the image.                                        *)
LEMMA ReadingCopies == PaceInv /\ Reading => CopiesImage
<1> SUFFICES ASSUME PaceInv, Reading PROVE CopiesImage
  OBVIOUS
<1>1. main \in {"bootloader", "flash_test"} /\ image \in Images
  BY ProgramAssumption DEF PaceInv
<1>2. memory \in Seq(0 .. 255) /\ \A i \in 1 .. Len(memory) : memory[i] = Stored(Offset + i - 1)
  BY DEF Reading, Fetched
<1>3. ASSUME op = "jump"
      PROVE  /\ SubSeq(memory, 1, Len(image)) = image
             /\ Len(memory) = Len(image) + (IF Len(image) % SECTOR = 0 THEN SECTOR ELSE 0)
  <2>1. main = "bootloader" /\ Len(memory) = Copied(Sectors - 1)
    BY <1>1, <1>3 DEF Reading, HeaderRead, SectorsRead, TestRead
  <2>2. /\ Size \in Nat /\ Sectors \in Nat \ {0} /\ SECTOR \in Nat \ {0} /\ Size < Sectors * SECTOR
        /\ Size % SECTOR = 0 <=> (Sectors - 1) * SECTOR = Size
    BY <1>1, Sizes
  <2>3. Sectors * SECTOR = (Sectors - 1) * SECTOR + SECTOR /\ (Sectors - 1) + 1 = Sectors
    BY <2>2
  <2>4. Len(memory) = Size + (IF Size % SECTOR = 0 THEN SECTOR ELSE 0)
    BY <2>1, <2>2, <2>3 DEF Copied
  <2>5. \A i \in 1 .. Size : memory[i] = image[i]
    <3>1. TAKE i \in 1 .. Size
    <3>2. i \in 1 .. Len(memory)
      BY <2>2, <2>4
    <3>3. memory[i] = Stored(SECTOR + i - 1)
      BY <1>2, <2>1, <3>2 DEF Offset
    <3> QED BY <1>1, <3>3, ImageStored
  <2>6. image \in Seq(0 .. 255) /\ Len(image) = Size
    BY <1>1, ImageAssumption DEF Size
  <2>7. SubSeq(memory, 1, Size) = image
    <3>1. Size <= Len(memory)
      BY <2>2, <2>4
    <3> QED BY <1>2, <2>2, <2>5, <2>6, <3>1
  <2> QED BY <2>4, <2>6, <2>7
<1>4. ASSUME op = "end" PROVE memory = [i \in 1 .. SECTOR |-> Stored(i - 1)]
  <2>1. main = "flash_test" /\ Len(memory) = SECTOR
    BY <1>1, <1>4 DEF Reading, HeaderRead, SectorsRead, TestRead
  <2>2. memory = [i \in 1 .. Len(memory) |-> memory[i]]
    BY <1>2
  <2>3. \A i \in 1 .. SECTOR : memory[i] = Stored(i - 1)
    <3>1. TAKE i \in 1 .. SECTOR
    <3>2. 0 + i - 1 = i - 1 /\ i \in 1 .. Len(memory)
      BY <2>1
    <3> QED BY <1>2, <2>1, <3>2 DEF Offset
  <2> QED BY <2>1, <2>2, <2>3
<1> QED BY <1>3, <1>4 DEF CopiesImage

(* The program jumps into a copy of the image, whatever its length and the   *)
(* gaps between the accesses, and flash_test.c shows the first sector.       *)
THEOREM CopiesCorrectly == Spec => []CopiesImage
<1>1. ProgramInv /\ [Next]_vars => ProgramInv'
  <2>1. ASSUME ProgramInv, Next PROVE ProgramInv'
    <3>1. PaceInv /\ PaceInv' /\ Pace /\ Exchange
      BY <2>1, PaceStep DEF ProgramInv
    <3> QED BY <2>1, <3>1, ExchangeStep, PromptStep, CopyingStep, ReadingStep DEF ProgramInv
  <2> QED BY <2>1, ProgramStutter
<1>2. ProgramInv => CopiesImage
  BY ReadingCopies DEF ProgramInv
<1> QED BY ProgramInit, <1>1, <1>2, PTL DEF Spec
==============================================================================

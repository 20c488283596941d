----------------------------- MODULE Bootloader ------------------------------
(* The programs that read the flash over the SPI controller with              *)
(* spi_transfer_highspeed (src/software/library/soc_io.c), which takes the    *)
(* received byte while the transfer is still running, so the byte of the one  *)
(* before: bootloader_v2.c, which copies an image into the SPRAM and jumps to *)
(* it, and flash_test.c, which copies the first sector.                       *)
(*                                                                            *)
(* The program is the sequence of its accesses to the controller; between two *)
(* of them pass MinGap to MaxGap edges of clk, and CallGap more where a call  *)
(* begins, for the instructions the processor executes in between.            *)
EXTENDS SpiController, Sequences

CONSTANTS
  SECTOR,        \* FLASH_BYTES_PER_SECTOR, 256
  FLASH_N_SECTORS,
  FIELD_BYTES,   \* of a number in the header: 4
  MinGap, MaxGap, CallGap,
  Mains,         \* the programs started: "bootloader", "flash_test"
  Images         \* files given to create_flash_image.py, sequences of bytes

HEADER == 2 * FIELD_BYTES
ASSUME SectorAssumption == SECTOR \in Nat /\ SECTOR >= HEADER /\ FIELD_BYTES \in 1 .. 4
ASSUME ProgramAssumption == Mains \subseteq {"bootloader", "flash_test"}
ASSUME ImageAssumption ==
  /\ Images \subseteq Seq(0 .. 255)
  /\ \A data \in Images : Len(data) + SECTOR < 256 ^ FIELD_BYTES
ASSUME FlashAssumption == BITS = 8 /\ FLASH_N_SECTORS \in 0 .. 65536
\* A transfer, of at most 37 edges, is over before the next one starts, and
\* runs, for at least 17, until the byte of the one before is taken.
ASSUME GapAssumption ==
  /\ MinGap \in Nat /\ MaxGap \in Nat /\ CallGap \in Nat
  /\ 2 <= MinGap /\ MinGap <= MaxGap /\ MaxGap <= 16
  /\ 4 * (MinGap + 1) + CallGap >= 37

VARIABLES
  main, image,
  since,            \* edges since the last access
  op, step,         \* the call of the library, and its next access
  part, k,          \* what the transfer is for
  si, n_sectors, n_bytes, memory, control_orig, rx,
  flash             \* external: [bits, cmd, addr, out]

program == <<op, step, part, k, si, n_sectors, n_bytes, memory, control_orig, rx>>
vars == <<controller, main, image, since, program, flash>>

-----------------------------------------------------------------------------
(* What create_flash_image.py writes, and the flash chip (external). *)

Little(n) == [i \in 1 .. FIELD_BYTES |-> (n \div 256 ^ (i - 1)) % 256]
FlashImage(data) ==
  Little(Len(data) \div SECTOR + 1) \o Little(Len(data))
    \o [i \in 1 .. SECTOR - HEADER |-> 255] \o data
Erased == 255
Stored(i) == IF i < SECTOR + Len(image) THEN FlashImage(image)[i + 1] ELSE Erased

\* Bit n of the answer to a read from addr, whose low byte is within a sector.
Answer(addr, n) ==
  (Stored((addr \div 256) * SECTOR + (addr % 256) + (n \div 8)) \div 2 ^ (7 - (n % 8))) % 2

Deselected == [bits |-> 0, cmd |-> 0, addr |-> 0, out |-> 1]

\* It takes data_tx when sclk, which passes one gate more, rises with it, and answers the read command when sclk falls.
FlashSees ==
  flash' = IF cs' THEN Deselected
           ELSE IF sclk' /\ ~ sclk
           THEN [flash EXCEPT !.bits = @ + 1,
                              !.cmd  = IF flash.bits < 8 THEN @ * 2 + data_tx' ELSE @,
                              !.addr = IF flash.bits \in 8 .. 31 THEN @ * 2 + data_tx' ELSE @]
           ELSE IF sclk /\ ~ sclk' /\ flash.cmd = 3 /\ flash.bits >= 32
           THEN [flash EXCEPT !.out = Answer(flash.addr, flash.bits - 32)]
           ELSE flash

-----------------------------------------------------------------------------
(* Bus accesses. *)

Edge(access) == Clock(access, flash.out) /\ FlashSees

\* The accesses of a library call; the last one of a transfer ends it.
Begins == step = 1
Ready == since >= MinGap + (IF Begins THEN CallGap ELSE 0)
Overdue == since >= MaxGap + (IF Begins THEN CallGap ELSE 0)
Running == op \notin {"jump", "panic", "end"}

Wait ==
  /\ Running => ~ Overdue
  /\ since' = IF Running THEN since + 1 ELSE 0
  /\ Edge(Idle) /\ UNCHANGED <<main, image, program>>

At(o, s) == op = o /\ step = s /\ Ready /\ since' = 0 /\ UNCHANGED <<main, image>>
NextStep == step' = step + 1 /\ UNCHANGED <<op, part, k, si, n_sectors, n_bytes, memory>>

\* The clock divider, written first.
SetDivider ==
  /\ At("divider", 1)
  /\ Edge(WriteControl(IF main = "flash_test" THEN 4 ELSE 0))
  /\ op' = "select" /\ step' = 1
  /\ UNCHANGED <<part, k, si, n_sectors, n_bytes, memory, control_orig, rx>>

\* spi_set_hw_cs: loads the register ...
LoadControl ==
  /\ At("select", 1) \/ At("deselect", 1) \/ At("transfer", 2)
  /\ control_orig' = control /\ NextStep
  /\ Edge(Idle) /\ UNCHANGED rx

\* ... and stores it with the bit set or cleared.
Select ==
  /\ At("select", 2) /\ Edge(WriteControl(IF (control_orig \div 2) % 2 = 1 THEN control_orig ELSE control_orig + 2))
  /\ op' = "transfer" /\ step' = 1 /\ part' = "command" /\ k' = 0
  /\ UNCHANGED <<si, n_sectors, n_bytes, memory, control_orig, rx>>

\* n_sectors of the image are read, behind the sector of the header.
Deselect ==
  /\ At("deselect", 2) /\ Edge(WriteControl(IF (control_orig \div 2) % 2 = 1 THEN control_orig - 2 ELSE control_orig))
  /\ si' = si + 1 /\ step' = 1
  /\ op' = IF main = "flash_test" THEN "end" ELSE IF si' < n_sectors THEN "select" ELSE "jump"
  /\ UNCHANGED <<part, k, n_sectors, n_bytes, memory, control_orig, rx>>

-----------------------------------------------------------------------------
(* spi_transfer_highspeed. *)

\* Mutant: flash_start_read_sector without its last transfer.
CommandLength_short == 4

CommandLength == 5

\* The sector number goes into address bits 23 to 8, and a read of one byte
\* more is sent for the byte that comes late.
Command ==
  LET sector == si + 1
  IN  <<3, (sector \div 256) % 256, sector % 256, 0, 0>>[k + 1]

Transmit ==
  /\ At("transfer", 1)
  /\ Edge(WriteData(IF part = "command" THEN Command ELSE 255))
  /\ NextStep /\ UNCHANGED <<control_orig, rx>>

SetTx ==
  /\ At("transfer", 3)
  /\ Edge(WriteControl(IF control_orig % 2 = 1 THEN control_orig ELSE control_orig + 1))
  /\ NextStep /\ UNCHANGED <<control_orig, rx>>

LoadRx == At("transfer", 4) /\ rx' = datain /\ Edge(Idle) /\ NextStep /\ UNCHANGED control_orig

\* The last access of a call clears the bit; then main() goes on with rx.
ClearTx(p) ==
  /\ At("transfer", 5) /\ part = p /\ Edge(WriteControl(control_orig))
  /\ step' = 1 /\ UNCHANGED <<control_orig, rx>>

CommandByte ==
  /\ ClearTx("command") /\ op' = op
  /\ IF k + 1 < CommandLength THEN k' = k + 1 /\ part' = part
     ELSE k' = 0 /\ part' = IF main = "bootloader" /\ si = -1 THEN "header" ELSE "data"
  /\ UNCHANGED <<si, n_sectors, n_bytes, memory>>

\* Mutant: one sector too many.
TooLarge_above(s, n) == s > FLASH_N_SECTORS \/ n >= SECTOR * FLASH_N_SECTORS

TooLarge(s, n) == s >= FLASH_N_SECTORS \/ n >= SECTOR * FLASH_N_SECTORS

HeaderByte ==
  /\ ClearTx("header")
  /\ n_sectors' = IF k < FIELD_BYTES THEN n_sectors + rx * 256 ^ k ELSE n_sectors
  /\ n_bytes' = IF k < FIELD_BYTES THEN n_bytes ELSE n_bytes + rx * 256 ^ (k - FIELD_BYTES)
  /\ IF k + 1 < HEADER THEN k' = k + 1 /\ UNCHANGED <<op, part>>
     ELSE /\ k' = 0 /\ part' = "rest"
          /\ op' = IF TooLarge(n_sectors', n_bytes') THEN "panic"
                   ELSE IF SECTOR > HEADER THEN op ELSE "deselect"
  /\ UNCHANGED <<si, memory>>

RestByte ==
  /\ ClearTx("rest") /\ k' = k + 1
  /\ op' = IF k + 1 < SECTOR - HEADER THEN op ELSE "deselect"
  /\ UNCHANGED <<part, si, n_sectors, n_bytes, memory>>

LastByte(n) == n = 0

\* Copies a byte; the bootloader counts n_bytes down, without a sign.
DataByte ==
  /\ ClearTx("data") /\ memory' = Append(memory, rx) /\ k' = k + 1
  /\ n_bytes' = IF main = "bootloader" THEN (n_bytes - 1) % 256 ^ FIELD_BYTES ELSE n_bytes
  /\ op' = IF k + 1 = SECTOR \/ (main = "bootloader" /\ LastByte(n_bytes')) THEN "deselect" ELSE op
  /\ UNCHANGED <<part, si, n_sectors>>

-----------------------------------------------------------------------------
Init ==
  /\ ControllerInit /\ main \in Mains /\ image \in Images
  /\ since = 0 /\ op = "divider" /\ step = 1 /\ part = "command" /\ k = 0 /\ si = -1
  /\ n_sectors = 0 /\ n_bytes = 0 /\ memory = << >> /\ control_orig = 0 /\ rx = 0
  /\ flash = Deselected

Access ==
  \/ SetDivider \/ LoadControl \/ Select \/ Deselect
  \/ Transmit \/ SetTx \/ LoadRx \/ CommandByte \/ HeaderByte \/ RestByte \/ DataByte
Next == Wait \/ Access

Spec == Init /\ [][Next]_vars /\ WF_vars(Next)

-----------------------------------------------------------------------------
(* Properties. *)

\* Whatever the gaps, the byte received is the one the flash has sent in these
\* clocks, and no clock is lost or added (spi.sv:117 and 149).
ReceivesWhatIsSent ==
  spi_finished /\ ~ cs =>
    /\ flash.bits % 8 = 0
    /\ flash.bits > 32 => datain = Stored((flash.addr \div 256) * SECTOR + (flash.bits - 40) \div 8)

\* A transfer is started only when the controller is at rest: a start while
\* the last one still runs would restart the clock within a byte (spi.sv:93).
StartsAtRest == [][ tx_start' /\ ~ tx_start => spi_state = "IDLE" ]_vars

\* The bytes come one transfer late, and one more is read before the first:
\* the program the bootloader jumps to is the image, and flash_test.c shows the
\* first sector.  If the image fills its sectors, an extra sector, of which
\* create_flash_image.py tells the loader, is copied from behind it.
CopiesImage ==
  /\ op = "jump" =>
       /\ SubSeq(memory, 1, Len(image)) = image
       /\ Len(memory) = Len(image) + (IF Len(image) % SECTOR = 0 THEN SECTOR ELSE 0)
  /\ op = "end" => memory = [i \in 1 .. SECTOR |-> Stored(i - 1)]

\* Every program comes to an end.  The bootloader accepts an image that leaves
\* room behind it and refuses all others (bootloader_v2.c:47): those too large
\* for the flash behind the header's sector, and also the one that fills it to
\* the last byte, for which create_flash_image.py counts a sector more.
Finishes ==
  <>(op = IF main = "flash_test" THEN "end"
          ELSE IF Len(image) < SECTOR * (FLASH_N_SECTORS - 1) THEN "jump" ELSE "panic")
==============================================================================

# TLA+ models of CPUDesign-IS

The repository holds two RISC-V processors in SystemVerilog, the SoCs and
peripherals around them, a software simulator that is the reference for both,
the test benches that run a processor and the simulator side by side, and the
firmware (support library, boot loaders, demonstration programs, a QR code
encoder) that drives the peripherals. This
directory holds the specifications kept beside that code. Paths below are
relative to the repository's root.

## The system

| part | source | state | interacts with |
|---|---|---|---|
| reference simulator | `software/simulator/src/rv32i_simulator.c` | `pc`, `x[32]`, memory segments | called by emulator, CLI and both test benches |
| pipelined processor (V2) | `rtl/cpu_v2/cpu_pipelined.sv` | FE, DE, EX, WB registers, register file, `progMEM` | bus strobes to the hub one cycle ahead of the answer; ALU handshake |
| ALU and divider | `rtl/alu/alu.sv` | quotient, remainder, divisor, bit counter, done latch | `ready`/`done` with either processor |
| pipelined hub | `rtl/common/bus_hub_2_pl.sv`, `_3_pl` | device of the previous cycle | processor and devices |
| test bench SoC | `rtl/cpu_v2/simulator/cpu_pl_soc.sv` | `mem_done` | instantiates processor, hub and port |
| parallel port | `rtl/fpga/parallel_port.sv` | output word, `ready` | hub |
| co-simulation | `rtl/cpu_v2/simulator/main.cpp` | the simulator beside the design | both |
| multi-cycle processor (V1) | `rtl/cpu/cpu.sv` | state, operands, register file | combinational hubs, waits for `bus_done` |
| combinational hubs | `rtl/common/bus_hub_{1..5}.sv`, `hubgen.py` | none | V1 and its devices |
| memories | `rtl/common/memory.sv`, `memory_spram.sv` | words, last address or `done` | hub |
| SPI controller | `rtl/fpga/spi.sv` | control, clock divider, shift registers, FSM | polled by the library and the boot loaders |
| HUB75 driver | `rtl/fpga/hub75_driver.sv` | two frame buffers, raster, vsync flag in two clock domains | bus on one side, display clock on the other |
| text mode GPU | `rtl/graphics/rtl/color_textmode_gpu.sv`, `bw_...` | raster position, prefetched characters | bus, pixel clock |
| debouncer | `rtl/fpga/debouncer.v` | synchroniser, counter | reset of the boards |
| emulator | `software/simulator/src/sim_emulator.c` | simulator shared by two threads, `EXIT` | simulator |
| command line simulator | `software/simulator/src/sim_cli.c` | simulator, trace file, dumps | simulator, SIGINT |
| library | `software/library/soc_io.c` | console cursor | SPI, GPIO, GPU, HUB75 registers |
| boot loaders | `software/programs/bootloader/` | sector and byte counters | SPI flash, SPRAM |
| demonstration programs | `software/programs/test_embedded/ecp5_cgol.c`, `cgol.c`, `bootloader/cgol_color.c`, `images/image_show.c` | maps, cursor, visible buffer | HUB75 driver, text mode GPU |
| QR code encoder | `software/programs/qr_code/` | two buffers of modules and codewords | text mode screen |

Hard behaviour: the overlap of four instructions in the pipeline (operands
still in flight, fetch beyond jumps, an answer that arrives beside the next
address, a division that outlasts everything around it), reset in the middle
of that, handshakes with one-cycle pulses, two clock domains in the display
drivers, firmware that assumes how long hardware takes, and the emulator's two
threads. `PROJECT.json` lists each at its line under `hazards`.

What makes each part correct: a processor is correct when, seen instruction by
instruction, it is the simulator; a bus or memory when every access is
acknowledged once, for the right device and with its own data; the divider
when a result belongs to the operands of the instruction that takes it; a
peripheral when no command given through its registers is lost; firmware when
its waits end and what it reads is what was sent.

## Modules

`Rv32` holds what all processors and the simulator share: words, decoded
instructions, and the constants `Decode`, `Alu` and `Taken` with their
assumptions.

`RvIsa` is the abstract specification: `rv_simulator_step` as a sequential
machine, one action per opcode case, over `pc`, `x` and `mem`. A word is a
number below `WordMod`; memory is addressed by words, so `pc + 4` is
`Plus(pc, 1)`; `Decode` maps a word to the fields `BITS` and `signext` extract;
`Alu` and `Taken` stand for the arithmetic. Segments are `Mapped`: a read
outside is zero, a write outside is dropped.

`CpuPipelined` is the pipelined processor inside `cpu_pl_soc`. A step is one
rising clock edge. Every register has its name, every always block is one
conjunct of `Clock` (`FetchClock`, `DecodeClock`, `ExecuteClock`,
`WritebackClock`, the divider, the memory port, the port, the hub) and every
wire an operator. `Clock(rst)` is the whole edge; `Tick` is an edge with `rst`
low, `Reset` one with `rst` high. The instruction fields EX keeps
(`EX_inst_is_*`, `EX_imm_*`, `EX_rd_idx`, funct3, funct7) are the one record
`EX_insn`. The divider is its handshake: which operands it was started on
(`dividend`, `divisor`), how many edges it still needs, and the edge detector;
its subtractions are the constant `DivOut`.

`CpuPipelinedIsa` says what the pipeline promises. The refinement mapping
takes the machine at the edge where an instruction leaves EX: `IsaPc` is the
oldest instruction not yet executed, `IsaX` the register file with the result
waiting in WB already written, `IsaMem` memory and port. `FollowsIsa` says
that every edge is one step of `RvIsa`, or no step, or a reset, or one of five
named departures; each departure says under which condition the code does
something else and what exactly it does then:

- `SystemRedirects`: ECALL, EBREAK, CSR continue at the last jump target;
- `OverlappedLoadIsZero`: a load from memory in front of an access elsewhere
  reads zero;
- `StaleFetch`: an instruction overwritten after its fetch runs as fetched;
- `DividesOthersOperands`: a division takes the result of a run that was
  started for another instruction (or before a reset);
- `SkipsIllegal`: a word whose low bits are not 11 is skipped where the
  simulator stops.

`ImplementsIsa` is the refinement without departures, for programs that avoid
those situations. Programs hold no reserved encoding of OP and OP_IMM
(`Rv32.ReservedAssumption`): the simulator returns an error for one and steps
over it, the hardware computes something. The module also holds the invariants.
`WritebackNeverBlocks` and `KeepsRetiring` cover accesses that no device takes,
and hold there because the hub acknowledges them itself (`bus_hub_2_pl.sv:40`),
which `cpudesign_docs/src/bus.md:37` denies. The multi-cycle processor's
`KeepsRetiring` depends on its hub (`bus_hub_2.sv:51`) in the same way.
`KeepsRetiring` names the one instruction that stops the pipeline, FENCE.

`CoSim` puts the simulator beside the pipeline the way `main.cpp` does:
whenever WB completes an instruction the simulator executes one and the test
bench compares `pc` and registers.

`Divider` is the divider of `alu.sv` on its own, on words of `W` bits, with
inputs that may change at every edge. Its registers are the code's; `n` and `d`
are history variables, the magnitudes the running division was started on.

`Alu` is the rest of `alu.sv` around that divider, driven as the execute stage
drives it: an instruction stays until `done`, then the next one or a bubble
follows, and a bubble leaves the last instruction's fields on the inputs.
Beside it, `SimResult` is `rv_simulator_step`'s arithmetic. The two are
written from their own sources: the shifter reverses words and shifts right
where the simulator shifts left, the multiplier takes sign-extended operands
where the simulator casts, the divider subtracts where C divides. XOR, OR and
AND are the same in both languages and are parameters, which `MCAlu` gives the
operators of the community module `Bitwise`.

`CpuMultiCycle` is the multi-cycle processor inside `soc_sim`, again one step
per clock edge: `Fetch`, `DecodeStage`, `Execute`, `Writeback` and `NoState`
are the branches of the state machine, each beside the edge of the divider,
`memory` and `sim_spram`. The test bench and the debouncer hold `rst` for
several edges, so a reset is `PressReset` followed by `HoldReset`.

`CpuMultiCycleIsa` says that this processor is `RvIsa`, an instruction taking
effect at the edge at which it leaves write back, except that a store changes
memory at its first edge in execute. The departures are

- `ExecutesIllegal`: a word whose low bits are not 11 runs all the same;
- `WritesZero`: CSR instructions, and a FENCE with a register field, write
  zero to their destination register;
- `StaleFetch`: code in `sim_spram` is fetched late by one instruction;
- `DividesOthersOperands`: after a reset in execute, a division may take the
  result of the one that was running, or not be waited for.

There is no property for runs without departures here: since a departure
carries its condition, it follows from `FollowsIsa` (theorem
`ImplementsTheIsa` of `CpuMultiCycleProofs`).

`SimMemory` is the other half of the simulator: monolithic and segmented
memory byte by byte, loading of raw and text images, dumping. A text image is
read into a buffer of half the file's size: `Contents` is the set of what may be
loaded, in which the bytes written past the buffer are arbitrary (`Overruns`).
`SimCli` is `sim_cli.c` around it: `main` is the sequence `Setup`, `Load`, the loop
(`StartStep`, one `MakeAccess` and `TraceAccess` per byte, `Execute`,
`FinishAccess`), the prompt, `CloseTrace` and `DumpSim`, whose phases are the
table `DumpPhases`. `Interrupt` is SIGINT,
which may come between any two of these steps, and `LoadCrashes` the other end
an overrun buffer may have. `given` says which of `-l`, `-o` and `-r` are there:
without its name a trace or a dump is not written. Instructions are those that
access memory, one that computes, one that jumps, SYSTEM, the words that are no
instruction (an error, `pc` unchanged) and the reserved ones (an error, `pc`
moved on); a load into `x0` reads nothing, since `RSET` evaluates its value only
for a register that keeps it. The history variable `ref` is the machine that
executes whole instructions.

`SimEmulator` is `sim_emulator.c`: the main thread (`CreateThread`, `Step`,
`WriteByte`, the prompt, `SetExit`, `Join`) and the window thread
(`OpenWindows`, `LoopHead`, `DrawLeds`, `DrawHub75`, `DrawVga`), which read and
write the simulator's memory one byte at a time without a lock, and SIGINT.
Programs are sequences of calls of the support library, `SocIo`, which gives
the stores of each call for the LEDs and the matrix, and of stores to the window's
screen. That screen is at an address of the emulator's own
(`SCREENBUFFER_BASE_ADDR`, 0x82000000); what the library prints goes to the
adapter's (`SCREENBUFFER`, 0x10000), which is main memory here: such stores
("printed", "tinted") are in the programs and show nothing.

`Hub75Driver` is the LED matrix driver, a step being an edge of its clock:
`BusClock` (frame buffers, control, the flag read), `FlagClock` (the flag and
the two registers its clear passes through), `RasterClock` (state machine,
positions, pixel registers). The code has two clocks, which the ECP5 SoC
derives from one; an access may come at any edge. The three components of a
colour behave alike and are one. `Life` is the arithmetic of the game
of life with its torus of cells, and beside it the rule as a set of neighbours.
`Hub75Life` composes driver and `ecp5_cgol.c`: draw into the hidden
buffer, swap, poll the flag, clear it, compute.

`SpiController` is `spi.sv` (`BusClock`, `ClockGen`, and `Rest`, `Transceive`,
`Finish` for the states). `Bootloader` composes it with the flash chip, which
is external (it takes a read command and an address and answers bit by bit),
with `spi_transfer_highspeed` as the sequence of its bus accesses, and with the
programs that use it, `bootloader_v2.c` and `flash_test.c`. The image in the
flash is the one `create_flash_image.py` writes.

`TextModeGpu` is the colour text mode controller: `Position`, `NextIndex`,
`Prefetch` and the stores of the bus, pixel by pixel. `TextPrograms` composes it
with `cgol.c`, `cgol_color.c` and `image_show.c` and the console of the
library.

`QrData`, `QrSymbol` and `QrEncoder` are the QR code encoder: segments,
capacities and Reed-Solomon codes; the module grid, masks and penalties; and
the calls, one action per phase, up to `printQr`. `QrReader` is a reader of
symbols, written from their structure and independent of the encoder's
helpers: it recognises the function patterns, decodes format and version
information, takes off the mask, walks the modules, takes the blocks apart,
checks each against the generator's roots and parses the segments.
What both take from the same place are the standard's data: the tables of
blocks and check codewords, the lengths of the counts, the alphanumeric
characters and the regions the mask applies to; an error in one of those would
not be seen. `BestVersionAndLevel` likewise checks the search over versions and
levels, with the capacities of the encoder's tables.
`SequenceFolds` has one helper, the tuple of a function's values.

`MCPrograms` holds the instruction templates and the arithmetic of the
processors' instances; the modules whose names begin with `MC` give the
constants values for TLC. The proofs are in modules of their own, each
extending what it is about: `CpuPipelinedProofs` (with the co-simulation),
`CpuMultiCycleProofs`, `AluProofs`, `SpiControllerProofs` (with the loader),
`Hub75LifeProofs`, `TextProgramsProofs`, `SimCliProofs` and
`SimEmulatorProofs`.

## Runs

All instances of the pipeline have four registers, 32 words of address space, eight words of
memory, the port at word 16 and a division of three steps. A program is three
instructions out of 28 templates (every opcode; arithmetic with and without
dependencies; loads and stores to memory, to the port and to nowhere; branches
both ways; jumps; divisions; instructions whose bits look like a division; an
illegal word) followed by a jump back, so every pair and triple of templates
meets in the pipeline, in straight line and across the jump, with the state
the earlier rounds left. Three instructions fill EX and DE behind WB, so no
interaction of the four stages needs a longer window; three division steps are
enough for a division to be started, to be running and to finish while other
instructions pass.

| run | question | result |
|---|---|---|
| `pipeline` | all programs, and a reset at any edge of the shorter ones: invariants, `FollowsIsa`, `[]<>Retire` but for FENCE | holds |
| `cosim` | programs without the named departures: `ImplementsIsa`, and the test bench reports no difference | holds |
| `cosim_overlap` | a load from memory before a load from elsewhere | register mismatch |
| `alu` | every instruction on every pair of four-bit operands: the simulator's result, quotient and remainder, `done` not missed | holds |
| `multi` | multi-cycle processor, loops of all pairs of templates, a reset at any edge: `FollowsIsa`, `AcknowledgedIsCurrent`, `[]<>` write back | holds |
| `cli` | command line simulator, SIGINT anywhere: loading, trace, dumps, every end | holds |
| `cli_txt` | a `.txt` file is loaded as binary digits | read in base 16 |
| `emulator` | both threads: frames, no read after free, both end | holds |
| `hub75_life` | game of life on the LED matrix: double buffering, vsync, brightness, rule | holds |
| `spi_boot` | boot loader and flash test over SPI: image copied, bytes right, no start in a transfer, every program ends | holds |
| `text` | three programs on the text screen: every pixel of an undisturbed frame | holds |
| `qr` | encoder: symbol decodes, smallest version and best level, best mask, screen | holds |

The bounds of the pipeline's runs are `MaxResets` (edges with `rst` high;
without it nothing else in the model is unbounded), `ResetProg` (the programs
in which `rst` strikes: in `pipeline` those whose third instruction is an add, since
what a reset meets is in the stages, which two instructions and a jump fill),
`MemSize`, `WordMod` and `DivSteps`.

`Alu` and the divider in it run at `W = 4`: every operand, every sign combination, the
most negative number and a zero divisor occur. In `Alu` immediates have three bits, so that sign extension is not
the identity, and `First` is every instruction on all operands, while `Follow`
is one of six: all that one instruction leaves to the next is the state of the
divider. A shift by `sra` of the word's width or more is undefined in the
simulator's C and excluded (`SimDefined`).

The multi-cycle processor finishes one instruction before it fetches the next,
so two instructions and a jump back show every pair in both orders.
`sim_spram` has four words, `MinReset` is two edges (the test bench gives
five, the debouncer many more; one edge alone never occurs), and `MaxResets`
one: what a reset leaves behind is settled by the first instructions after it.

`cli`: bytes have four bits, so that a word is 16 bits and addresses wrap; the
memory ends in the middle of a word, so that an access may run over its end;
a program is two of 12 templates, which includes stores over the program
itself, a load into `x0`, a reserved encoding and, as data, words that are no
instruction. Files are every program, a hexadecimal one, none, an empty one, one
too large in either format, one of binary digits, one without a final newline and one
with a short line. Options are all three files, both dumps without a trace, each
dump alone, and none.
`emulator`: a panel of 2 x 2 pixels, two characters of 2 x 2 points, each combination of displays
the options differ in, and programs that write every display before and after
a breakpoint; one prints on the library's screen and on the window's, one stores
outside the displays, clears the vsync flag and waits for it,
one waits for it without.
`hub75_life`: 4 x 4 pixels and two brightness steps, so that there are two
rows in each half of the panel, several columns and several screens a frame.
`spi_boot`: sectors of five bytes behind a header of two fields of two; images
of zero bytes, of less, exactly and more than a sector, of the largest size that
is accepted, of the one that fills the flash, and one that is too large.
`MinGap` and `MaxGap` bound the edges between two bus accesses, `CallGap` those a call
adds. The processor that runs these programs takes several edges for every
instruction, and a call takes more than the transfer of a byte at divider
zero (17 edges and the start); with a shorter `CallGap` the byte would still be
in transfer when the next one starts, and `StartsAtRest` says so.
`text`: 8 x 2 characters of 2 x 2 pixels, two prefetched words a line, with
blanking on both sides; stores may meet every pixel. `ClearAfter` is 10, so
that the number of the generation gets a second digit before the count starts
anew, and its last digit is left on the screen (half a minute, 1.4 million
states).
`qr`: jobs at the capacity of version 1 and one above, in every mode, with every
mask, with the automatic mask on three texts, segments of the caller with
each length of ECI designator, and versions with several blocks of unequal length, version
information and six alignment patterns. TLC evaluates it in about a minute.

Fairness: `WF_vars(Tick)`, or `WF_vars(Tick \/ HoldReset)` and `WF_vars(Next)`
in `CpuMultiCycle` and `Alu`: the clock keeps running, and a reset once pressed
is released. In `Hub75Life` and `Bootloader` likewise, and the processor goes on.
In `SimCli` it is `WF_vars(Main)`: the program
runs, while keys and SIGINT may come or not. In `SimEmulator` both threads are
scheduled, and the prompt, which blocks in `getchar`, gets a key: without one
`main` would not see `EXIT`. Nothing is assumed about when a reset or a signal comes, or
about programs.

Each of the two violations is a disagreement between the code and what the repository says
of it; `PROJECT.json` quotes both sides under `findings`.

## What the code does otherwise than one may expect

Besides the findings, the models follow the code where it surprises; each of
these is a departure, a condition of a property or a choice of inputs above.

- FENCE never leaves EX in the pipeline (`cpu_pipelined.sv:324` has no case for
  it), although the repository's `README.md:3` announces a "standards-compliant
  RISC-V `rv32im`" processor (the design notes, `notes/Design/CPU.md:33`, had left FENCE
  out on purpose): `KeepsRetiring` excepts it. The multi-cycle processor executes it.
- Both hubs acknowledge an access that no device takes (`bus_hub_2_pl.sv:40`,
  `bus_hub_2.sv:51`). `cpudesign_docs/src/bus.md:37` says: "If no devices assert the active
  signal on the bus hub, the host will read back all zeros and will receive a
  ready signal of zero." Code and document disagree. The models follow the code;
  behind the documented hub both processors would wait for good, and
  `WritebackNeverBlocks` and both `KeepsRetiring` would be violated by the
  template that loads from nowhere.
- SYSTEM instructions stop the fetch and release it with the target of the last
  jump (`cpu_pipelined.sv:363`): `SystemRedirects`.
- A load, store or jump whose bits look like a division starts the divider
  (`cpu_pipelined.sv:314`): `DividesOthersOperands`.
- `sim_spram` acknowledges the access of the edge before, whatever the address
  is now (`memory_spram.sv:133`): `StaleFetch` of `CpuMultiCycleIsa`.
- The simulator compares SLTIU with the immediate before sign extension
  (`rv32i_simulator.c:275`); `ComputesAsSimulator` leaves negative ones out.
- A `.txt` file, meant to be binary digits, is read in base 16
  (`rv32i_simulator.c:630`), the last digit of a text file without a final newline is
  lost (line 640), and lines shorter than eight characters are written past the
  buffer (line 644). Files of all three kinds are in `cli`, whose `LoadsWhatFileSays` promises
  nothing of them; the first is the run `cli_txt`.
- Without `-o` and `-r` nothing is dumped (`sim_cli.c:23`), although the usage
  (`sim_cli.c:90`, `software/simulator/README.md:9`) gives both files a default
  name. `DumpIsMachine` and `EndsDumped` speak of the dumps that were asked for.
- The emulator's `-v` shows another screen than the one the library writes:
  `sim_emulator.c:24` has it at 0x82000000, `soc_io.h:23` at 0x10000, and a TODO at
  `sim_emulator.c:305` says so. A program that prints with the library shows
  nothing in the window; `FrameShowsProgram` is about stores to the window's screen.
- `rv_simulator_deinit` frees nothing of a segmented memory
  (`rv32i_simulator.c:496`); `NothingReadFreed` asks for the order all the same.
- The loader refuses an image that fills the flash behind the header to the last byte
  (`bootloader_v2.c:47`), since `create_flash_image.py` counts a sector more for it.
- SIGINT before the memory is set up follows a null pointer
  (`sim_cli.c:104`): the phase `crashed`.
- The emulator has no vsync flag, only the byte of memory at its address: a program
  that waits for it waits until it is ended (the last program of `emulator`),
  unless it has cleared the flag before: that stores a 1, with
  which every later wait returns at once (the last program but one).
- `spi_transfer_highspeed` returns the byte of the transfer before; the programs
  send one byte more and drop the first. For an image that fills its sectors
  `create_flash_image.py` tells the loader of one sector more, which is
  copied too: `CopiesImage` says where.
- `print_integer` prints one character too many, whatever lies behind its
  buffer; `cgol.c` discounts it, `cgol_color.c` leaves the cell with that
  character, and a line end there moves the cursor. When `cgol_color.c` counts
  anew, the cells behind the shorter number keep the characters of the longer
  one, of which only the colours are drawn: `ShowsGeneration` promises these
  programs' halves of cells only beyond the longest status line so far
  (`widest`).
- The last line of a symbol wider than 57 modules would be printed outside of
  the screen; `ScreenShowsSymbol` is checked on symbols that fit.

## Proofs

All theorems hold for every value of the constants that satisfies the named
ASSUMEs, which TLC evaluates in the runs. No theorem is about a bounded
instance, and none assumes what a run has shown.

### Pipelined processor

`CpuPipelinedProofs`: for every word size, memory size, number of registers,
program, arithmetic, division length and number of resets:

- `TypeCorrect`: `Spec => []TypeOK`;
- `PipeInvariant`: `Spec => []PipeInv`;
- from it `NeverBlocks`, `RedirectsTaken`, `KeepsOrder`, `OperandsAreCurrent`;
- `FollowInvariant`: `Spec => []FollowInv`;
- from it `FollowsTheIsa`: `Spec => FollowsIsa`, the refinement of `RvIsa`, and
  `ImplementsTheIsa`, the refinement without departures for the runs that meet
  none.

`PipeInv` strengthens the four properties so that they carry each other.
`BusAnswered` (an access in WB has been acknowledged by the device the hub
remembers) keeps write back open, so EX waits for divisions only and a result
spends one cycle in WB. `RedirectAlone` (behind an instruction that may jump
there is nothing, and a flag in EX with a full DE belongs to a bubble in front
of that instruction) gives `RedirectTaken`, and with it the fetch address of
the next instruction, hence `InOrder`. `OperandsCurrent` needs both: an
operand read in DE is the register after the edge, and the only instruction
that could still change it is the one leaving EX, which the interlock excludes.
Each is proved by a lemma for one edge, with cases on reset, EX open, DE full
and the hazard.

`FollowInv` adds what the mapping reads and the four do not speak of:
`DecodedInEX` (what EX executes is the decoding of some word, and its flag is
that word's; whether it is still the word at that address is what `StaleFetch`
asks) and `IllegalInOrder` (behind an illegal word comes the next one, also when its
opcode stops the fetch). `FollowsTheIsa` then goes through the edges at which an
instruction leaves EX, opcode by opcode, and shows each to be the action of
`RvIsa` or one of the departures; at every other edge the mapped state stutters.

`ReportsNone`, for `CoSim`, says that the test bench reports no difference in
a run of `CoSpec` in which no step is a departure and none accesses the port,
which the simulator does not have. `CoInv`, beside `FollowInv`, says that the
simulator is the mapped state, or one instruction behind it while one is in WB
(`Level`, `Behind`), that all comparisons so far were equal, and that nothing is in the
pipeline during the reset of the start.

### Multi-cycle processor

`CpuMultiCycleProofs`: for every program, memory, arithmetic, division length,
and any number and length of resets:

- `TypeCorrect`: `Spec => []TypeOK`; `MultiInvariant`: `Spec => []MultiInv`,
  which is `TypeOK /\ InOrder`;
- `AcknowledgedCurrent`: `Spec => []AcknowledgedIsCurrent`;
- `FollowsTheIsa`: `Spec => FollowsIsa`; `ImplementsTheIsa` as above.

`InOrder` says, state by state, what the state machine may rely on: `Phases`
(only a held reset keeps it at address 0), `Operands` (the instruction is a
decoded word, the operand registers hold its operands), `FetchedIsCurrent`
(outside of `sim_spram` it is the word memory holds at `pc`), `MemoryAnswers` (the
answer is the word last accessed), `LoadAnswered` (a load leaves execute with
its word on the bus), `StoreDone` (a store that waits for its answer has been
written), and `DividesOwn` (until the first reset a running division is that
of the instruction in execute).

### ALU and divider

`AluProofs`: for words of every width, from `WidthAssumption` and
`PowAssumption` (`Pow[k]` is a table with `Pow[0] = 1` and `Pow[k + 1] = 2 *
Pow[k]`, since powers of a variable exponent are beyond the provers):

- `DividerTypeCorrect`: `DivSpec => []DivTypeOK`;
- `DividerInvariant`: the loop invariant;
- `DivisionCorrect`: `DivSpec => []DividesCorrectly`;
- `AluInvariant`: `Spec => []AluInv`;
- `DividerDriven`: `Spec => DivSpec`;
- `AluComputesAsSimulator`: `Spec => []ComputesAsSimulator`, for every choice of
  `BitXor`, `BitOr` and `BitAnd` and every set of instructions the execute
  stage may begin with (`IssueAssumption`: instructions the simulator knows,
  with immediates that are sign-extended).

`LoopInvariant` says that the dividend is what has been subtracted plus the
remainder. The code shifts the quotient within its width, so a step must show
that the shift loses nothing: for a divisor that is not zero this follows from
`quotient * Pow[bitctr] <= n < Pow[W]`, for a zero divisor the inductive
invariant adds that the quotient is exactly the ones shifted in so far,
`Pow[W - bitctr] - 1`, and the fact that connects both ends of the count,
`Pow[W - bitctr] * Pow[bitctr] = Pow[W]`. `Subtract` is split on `Fits`, each case a
calculation with the products as opaque terms.

`AluInv` adds what the execute stage guarantees: a division runs only for the
instruction in EX, on the magnitudes of its operands, and not in the cycle in
which the instruction begins; when an instruction begins, the latch has no
`done` of an earlier one left. Then every step of `Alu` is a step of the
divider on its own (`DividerDriven`), and at `done` quotient and remainder are
those of the instruction. What is left is arithmetic, one lemma for each group of
instructions: a left shift is a right shift between two reversals, which the
lemmas show bit by bit, by induction on the bits; the upper word of a product of
operands extended to two words is the one the simulator's casts compute, by
cases on the signs; a signed division is that of the magnitudes, negated when the
signs differ, by a zero divisor and the most negative number as the simulator
treats them.

### SPI controller and loader

`SpiControllerProofs`. The controller on its own, for a transfer of 1 to 15 bits
(`BitsAssumption`) and for every driver and device (any write at any edge, any input):

- `ControllerTypeCorrect`: `ControllerSpec => []ControllerTypeOK`;
- `ClockRests`: between transfers `sclk` is low.

The count of bits is decremented on rising edges of `spi_clk` and compared with
zero on falling ones. `LastPhase` makes this inductive: while the count is zero
in a transfer, the previous level of `spi_clk` is high, also if the driver
restarts the clock generator, so the next edge is a falling one and ends the transfer.
`GateInTransfer` ties the clock's gate to the state.

The loader and `flash_test.c` over the controller and the flash, for sectors of every
size that hold the header, images of every length and contents, and gaps
between accesses that may differ every time:

- `LoaderKeepsPace`: `Spec => []PaceInv`;
- `LoaderTypeCorrect`: `Spec => []ControllerTypeOK`;
- `StartsWhenIdle`: `Spec => StartsAtRest`;
- `LoaderDrivesController`: `Spec => ControllerSpec`, that is, program and flash
  are a driver and a device as the controller's specification has them;
- `ReceivesCorrectly`: `Spec => []ReceivesWhatIsSent`;
- `CopiesCorrectly`: `Spec => []CopiesImage`.

The invariant, `ProgramInv`, has four layers, each of which needs the one before.

1. `PaceInv`: program and controller keep pace. `Driven` says what the program's
   accesses have left in the control register. `Timing` relates two counts,
   the edges that passed since the program set `tx_start` (at least `Elapsed`)
   and the edges the transfer still takes (`Left`, from the bits remaining, the level of
   the clock and its divider): while a transfer runs, `Elapsed + Left <= 35`. So
   it is over when the next one starts, which is 37 edges later or more;
   and since a transfer takes at least 17 edges, it still runs when the program reads
   the data register, so that what it reads is the byte of the transfer before.
2. `Exchange`: controller and flash agree on the bits. From the number of bytes
   exchanged and the bits of the one under way follow what the flash has seen
   (its count, command and address), which bit it answers with, and what is in
   the shift registers: `Shifting` for the byte on its way out and the one on
   its way in, `Received` for the last whole one.
3. `Copying`: the byte that `spi_transfer_highspeed` returned is the one at its place in the flash.
4. `Reading`: what the program makes of the bytes. `HeaderRead` says which
   digits of both numbers have been added up, `SectorsRead` how many bytes of
   which sector are in memory and that the unsigned count of bytes to come, which
   runs below zero when an image fills its sectors, stops the copy where it
   does; `Fetched` that memory is the flash from the second sector on.

Assumed are `BITS = 8`; sector numbers of 16 bits (`FLASH_N_SECTORS` is at most
65536: the code sends the upper two bytes of a 24-bit address, `FlashAssumption`); a header that
fits a sector and fields of one to four bytes (`SectorAssumption`); images whose length plus a
sector is below what a field holds (`ImageAssumption`), as `create_flash_image.py`
can write no other header; and the gaps, `GapAssumption`. The last one
is what the code takes for granted when it reads and starts without polling: the
accesses within a call follow each other within a few instructions (at most 17
edges apart), and four of them with the instructions of a call take at least
37 edges, the longest transfer. TLC evaluates all of them in `spi_boot`.

### LED matrix and game of life

`Hub75LifeProofs`: for a panel of every size, any number of brightness steps,
every drawing, and a program that takes any time between its accesses:

- `PanelInvariant`: `Spec => []PanelInv`;
- from it `NoThirdSwap`, `ShowsFinished`, `FrameShowsGeneration`;
- `ComputesRule`: every map is the next generation under the rule on the torus.

`PanelInv` is `TypeOK` with four parts. `OneFlagPerSwap` follows the vsync flag
and its clear, which needs edges to pass the two clock domains, against the
number of swaps in this frame: after the second one the flag is down, nothing
clears it any more, and the program polls. `Buffers` says which drawing each
buffer holds and how much of the next one. `ReadAhead` says that the pixels in
the registers belong to the shown drawing, or to the one before if it was
swapped away since they were read. `LitSoFar` counts: in a frame without a swap
a pixel has been lit as often as it has been passed with its colour above the
step. `ComputesRule` needs no invariant but the maps' type; its lemmas relate
the index arithmetic of `cell_i` to the torus and the sum of eight neighbours
to the cardinality of a set.

### Text screen

`TextProgramsProofs`: for a screen of every size whose lines are whole words
(`ScreenAssumption`), and for the programs' every drawing, image and number:

- `FrameShowsScreen`: `Spec => []FrameIsScreen`;
- `ShowsGenerations`: `Spec => []ShowsGeneration`.

The first needs `GpuInv`: `Walking` gives the character index of every raster
position, blanking and sync included, from quotients of the position;
`Prefetched` says that an undisturbed frame has the index's word in the
register. The arithmetic (quotients of successors, ends of words, lines and
columns) is proved once at the head of the module.

The second needs `ScreenInv`, which says what the program has done so far:
`Filled` and `Inked` (what is in the cells that are not drawn), `Printing` (how
much of the status is in the last line, where the cursor stands and what is
still to be printed), `StatusKept` (the drawing, which leaves out as many cells
as the cursor says, has not touched it) and `Drawn` (each cell drawn so far holds
its two cells of the map or of the image). One lemma per action; then the
controller's theorem turns cells into pixels. `FontAssumption` (characters 0 to
3 of `spleen-8x16.bdf` are the halves of a cell) and `StatusAssumption` (the
text and the ten digits contain no line end, and the text with the largest number fits a
line) are facts about the repository's data. That every number the program
prints fits is proved: `Decimal`, a function that calls itself with a tenth
of its argument, is shown by induction to give digits, and a larger number no
fewer of them.

### Command line simulator

`SimCliProofs`: for every memory size, every file and every program:

- `CliInvariant`: `Spec => []CliInv`;
- `DumpsMachine`: `Spec => []DumpIsMachine`;
- `LoadsFile`: `Spec => []LoadsWhatFileSays`, which speaks of `Readable` files;
- `TraceExplains`: `Spec => []TraceExplainsMemory`.

`CliInv` distinguishes the time before the memory holds a program (`Unloaded`)
from the time after (`Loaded`) and says of a dump that it is of the current
registers and memory (`Dumps`). `Loaded` has `Registers` (only a store changes
the machine before the instruction's end, and only the memory), `Fetching`,
`Loading` and `Storing` (which bytes of the access are done and which are to
come, and what they are) and `MixedStore`: every byte is the one before or the
one after the instruction, which is what SIGINT can find.

Loading and replaying are folds over sequences of any length. `Folds` and the
lemmas behind it say what a fold over a longer sequence is; from them follow
that `strtol` over a line of digits is the number the line writes, by induction on its
length, below `LongMax` and a word's range, and that the image of a text file is the
bytes of its lines' words. `Readable` is what the program presumes of a file: it is
not one of bits (which is read in the other base), every line ends, the buffer holds
its words, and its numbers are words; without any one of these the loader does
something else. `Traced` is the invariant of the trace: replayed from the loaded image,
with the accesses that are not yet written, it gives the memory, and no read in it
has another value than the replay has at that time. Appending a record is one
more step of the fold.

### Emulator

`SimEmulatorProofs`: `NeverReadsFreed`, `Spec => []NothingReadFreed`, for every
program and every choice of displays. The inductive invariant, `FreedLast`, adds
that freeing is `main`'s last step: it has waited for the window thread, and
neither thread does anything afterwards.

`ShowsProgram`, `Spec => FrameShowsProgram`, for every program of the library's calls
for LEDs and matrix, stores to the window's screen, and stores outside the displays, such as the
library's printing, all sizes, with and without the bootloader. Its invariant
is `Drawing`:

- `Stores`: each mapped byte of memory is the one the last completed store that covers
  it has put there, or the loaded one, and the bytes of the current store are
  there as far as they are written;
- `Windows`: a section is drawn only if the options ask for its display;
- `PanelDrawn`: in an undisturbed frame each component of a pixel passed so far
  is that of the selected buffer in memory, and the selection is the current one;
- `ScreenDrawn`: likewise each point of a character, and what the thread holds of
  the cell it is in (character, font row, colour's low byte) is in memory.

`Stores` says nothing of calls. That two calls of the library store to the same bytes only
if they change the same thing, and that the bytes read back are the value
stored, is the second half: the segments share no address (`SegmentsFit`), the
pixel's index, the two colours of a character and the bytes of a word are
divided back into what they were made of. `add_segment`, loading and
initialising are folds over sequences of any length, by `SetInduction`.
`LayoutAssumption` says that the SoC's segments are apart; `SizeAssumption`
that the panel is square, as `sim_emulator.c:35` has it; `FileAssumption` that the
program is not loaded over a display and that there is a font; `ProgramAssumption` that a
call's arguments are in range and that a program ends in a loop that does not store.

### Induction

The library's induction theorems take a predicate, which the installed provers cannot
instantiate. Where a proof is by induction on a number, the module
states it for a set: `LeastNumber` (from `NatLessThanWellFounded` and `WFMin`,
whose parameters are sets) and `SetInduction`, which is used with the set of the
numbers for which the claim holds. So recursive functions and folds are within reach;
RECURSIVE operators are not.

### Assumptions on the constants

Sizes are positive; the port lies outside the memory; `Decode`, `Alu`, `Taken`
and the divider's result are total functions on words. `ImmediateAssumption`
and `DivisionAssumption` are about the parameters that stand for decoding and
arithmetic: an instruction without register operands takes the same immediate
in both descriptions, and the divider's result is the one the machine's
arithmetic gives, which is `ComputesAsSimulator` (run `alu`, theorem
`AluComputesAsSimulator`). `LongAssumption` says that `LongMax` is a number.
`CellAssumption` places the cells the programs hold on the map,
`PanelAssumption`, `ScreenAssumption` and both `ProgramAssumption`s tie the
sizes of panel, screen and map together as the programs' headers do, and
`MachineAssumption` and `SimCli`'s `FileAssumption` say that words and files are
made of bytes; `SimEmulator`'s are described with its theorem.

### Only model-checked

Liveness (`KeepsRetiring`, `AlwaysDone`, `KeepsShowing`, `Finishes`,
`EndsDumped`, `ThreadsEnd`), since fairness is beyond the provers; the QR
encoder (RECURSIVE operators and `Bitwise`); and loading of files that are not
`Readable`.

## Not modelled, and the plan

What is left, in this order: (1) byte lanes of loads
and stores in the processors; (2) the ECP5 SoC's hub of three devices with
display and port around the pipeline; (3) the debouncer.

Left out: `bootloader.S`, the older loader, whose poll branches on the unmasked
status (`bootloader.S:157`) and which `bootloader_v2.c` has replaced;
`flash_programmer.py`, which talks to an external programmer; the black and
white text mode controller and the font's characters but for the first four; `ice40_spram`, a wrapper
of the vendor's blocks; the bus arbiter, which nothing instantiates; the board
SoCs' wiring and PLLs; option parsing, printing and statistics; test programs
that store constants; Dhrystone and its like; notes.

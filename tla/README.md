# A TLA+ model of yanesemu

yanesemu is an NES emulator in C++.  One thread steps a 6502 CPU, a picture
processing unit (PPU) and the buses between them; SDL shows the pictures.  These
modules model the parts of it whose correctness depends on the order of many
steps: the instructions and interrupts of the CPU, the PPU's clock, its registers,
fetches and shift registers, the loop that keeps CPU and PPU in step, the wiring of
the two buses, the cartridge behind them, and the debugger.

## The system

| part | source (`src/emu/`) | state | operations |
|---|---|---|---|
| CPU | `core/cpu.*`, `core/instructions.cpp` | registers, flags, pending and exec flags, cycle counter | `run`, `power`, `reset`, `fire_nmi`, `fire_irq`, one function per instruction |
| PPU | `core/ppu.*`, `core/ppumain.cpp` | dot and line counters, registers, VRAM address `addr`/`tmp`, tile latches, shift registers, memories | `run` (one dot), `power`, `reset`, `readreg`, `writereg` |
| Emulator | `core/emulator.*` | last cycle, `nmi` | `run`, `run_frame`, `insert_rom`, `power`, `reset` |
| Bus | `core/bus.*` | lookup table, handlers, ids in use | `map`, `remap`, `read`, `write`, `reset` |
| Cartridge | `core/cartridge.*` | header, PRG and CHR ROM | `parse`, `attach_bus`, reads |
| Debugger, REPL | `core/debugger.*`, `core/clidbg.*` | breakpoints, next stop, backtrace, quit | fetch callback, `step`, `next`, commands |
| main loop | `main.cpp` | `running` | poll events, run a frame, draw |
| video, utilities | `video/`, `util/` | texture, files, arrays, bit fields | |

`Emulator::run()` calls `CPU::run()` once and then `PPU::run()` three times for
every cycle it took.  The PPU calls back at the start of v-blank; the callback
raises the CPU's NMI and ends `run_frame()`.  The CPU reaches the PPU through the
registers on the RAM bus, the PPU reaches its memories and the CHR ROM through
the VRAM bus.

What is hard here: a signal is raised, polled, accepted and vectored in four
different steps; one instruction is finished before the dots it overlaps with;
two counters that restart every other frame minus one dot; registers that share
a toggle and a temporary; integers that wrap after minutes of play; a bus whose
areas are mapped by several components in turn over an array that starts
uninitialised; a debugger that has to foresee where an instruction goes, from a
table of its own and while interrupts come in between.

## Modules

| module | models | a step is |
|---|---|---|
| `Interrupts` | the flags of `CPU`, `interrupt()`, the polls and the cycles of every kind of instruction | one call of `run`, `power`, `reset`, `fire_nmi` or `fire_irq` |
| `InstrInfo` | the debugger's table of the instructions: names, modes, lengths, branches, jumps, as operators | - |
| `Instructions` | every opcode on registers, flags, stack, memory, cycles and bus accesses, as operators on a machine | - |
| `InstructionFacts` | `Instructions` and `InstrInfo` against references and against each other | - |
| `Debugger` | `fetch_callback()`, `step`, `next`, breakpoints, backtrace and the commands, around the CPU of `Instructions`; implements `Interrupts` | one bus access that the CPU reports, one command, a signal, the return of `run()` |
| `FrameClock` | counters, frame parity, PPUSTATUS flags, NMI callback | one dot, `power`, `reset`, a PPUSTATUS read |
| `StatusPolling` | `FrameClock` with bit 7 of the latch that a PPUSTATUS read returns | the same, or another register access |
| `FrameLoop` | abstract: what the main loop promises | poll, quit, v-blank, end of a frame, draw |
| `Emulator` | `Interrupts` and `FrameClock` under `Emulator::run()`, `run_frame()`, `mainloop()`; implements `FrameLoop` | one `CPU::run()`, one `PPU::run()`, or a piece of the loop |
| `Pacing` | the integers of `Emulator::run()` with their widths | `CPU::run()`, one dot, the end of the call |
| `VRAMAddress` | `BitField`, `setbits()` and the address functions of `ppu.cpp`, as operators | - |
| `PPURegs` | `readreg()`, `writereg()`, `power()`, `reset()` | one register access |
| `Background` | the fetches, address steps and shift registers of a dot, over `FrameClock` | one dot, or the program's writes of a v-blank |
| `Bus` | `map()`, `remap()`, `reset()`, decoding, as operators | - |
| `Cartridge` | `parse()`, `read_prgrom()`, `read_chrrom()`, as operators | - |
| `AddressSpace` | both buses, the cartridge and the memories behind them | constructor, `insert_rom()`, `power()`, a write |
| `*Proofs` | theorems | - |
| `MC*` | the instances that TLC checks | - |

Names follow the source.  Definitions introduced by a comment "Faulty variant"
are not part of any specification: each is a plausible mistake in the definition
after it, and each makes the property it is kept for fail.  Variables commented
"history" are not in the code; they record what properties speak of.

Data are abstracted to what the properties tell apart.  In `Interrupts` an
instruction is its cycles, its poll and its effect on `intdis` and `breakf`;
which one is next is up to the program and therefore arbitrary.  In `Background`
a latch holds the address its byte came from instead of the byte, and a bit of a
shift register the tile and the column that it shows.  In `Cartridge` a byte is its
offset in the file, and a file is what `parse()` looks at in the header.  In
`Debugger` a call of the CPU is computed when it begins and its accesses are then
reported one by one, since nothing else runs in between; reads outside RAM and ROM
give 0, and memory is written from the prompt at the fetch of an instruction
only.  An empty line, which repeats the last command, is that command typed again.
In `Emulator`
`due` is `r.cycles - cycle` as a number; `Pacing` shows that the `int`
arithmetic computes just that.

A lookup cell that no area has been mapped to is `UNSET`, and comparing it gives
either answer: `HeapArray` allocates without initialising.  Signed overflow in
`Emulator::run()` is modelled as two's complement wrapping, which is what the
compilers generate for it.

## What is checked

| run | bounds | shows |
|---|---|---|
| `interrupts` | none: 178 states are all | an accepted interrupt still has its signal; the pushed break flag is set for BRK alone; each signal is served once, by its own vector; an NMI is always served |
| `debugger` | 24 programs of one instruction each before a loop that calls; 5 calls of the CPU, one breakpoint | below |
| `frame_clock` | 341 x 262, the NES | the counters agree and stay below two frames; one NMI per frame; the v-blank flag is set through each v-blank until one PPUSTATUS read takes it; a poll that finds bit 7 of the latch clear tells of each v-blank once |
| `emulator` | frames of 14 x 7 dots, v-blank at line 3, with the debugger | the NMI handler is entered once per v-blank and before v-blank ends; each picture has one v-blank; `Emulator` implements `FrameLoop`: every `run_frame()` ends, quitting ends the program |
| `pacing` | an `int` of 80 values, a `long` of 160 | three dots per cycle across every wrap |
| `ppu_regs` | bytes 0 and 255, at most 2 PPUDATA accesses per address | two PPUADDR writes after a PPUSTATUS read set the address they spell |
| `background` | lines of 341 dots, 9 lines, six scroll positions | tiles in order from the scroll position across nametables; rows in order; the four bytes of a tile belong together; pixels leave the shift registers in the order of the tiles |
| `address_space` | every area with its mirrors, cells of 0 and 1, files of 1 to 5 banks | every address has its owner; mirrors agree; the ROM shows the last banks of the file and its vectors |

`debugger` asks two kinds of questions.  Of the debugger: a step stops at the very
next instruction (`StepStops`); a pending stop moves to the handler that is entered
(`StopsInHandler`); every call that has not returned is in the backtrace
(`OpenCallsListed`); and what `Instructions` does is what `Interrupts` allows
(`ImplementsInterrupts`), so that the abstraction under `Emulator` is one of the real
instruction set.  Of the instructions, for all 256 opcodes: sums, differences,
comparisons and rotations of bytes (`ArithmeticAgrees`), interrupts and calls undone
by their returns (`ReturnsRestore`), cycles as the comments note them
(`CyclesAsNoted`), `nextaddr()` but for RTI, BRK and a wrapped RTS (`NextaddrForetells`) and the debugger's table against
the switch of `execute()` (`TablesAgree`).

Why the bounds are enough.  `emulator` needs a frame longer than the 39 dots
that one `Emulator::run()` can take, and a v-blank of at least 42 dots, the
longest way from the callback to the handler; both sizes are just that.  39 dots
come from thirteen cycles: seven of an instruction and the six that `power()`
leaves.  `pacing` needs half an `int` to exceed 39.  The first instruction of a program of
`debugger` is one of each kind that stack, stop or backtrace can tell apart; five calls
are `power()`, that instruction, an interrupt, a call inside the handler and its
return.  The programs end in a bound, hence no deadlock checking there.  The facts on
instructions take the bytes around zero, sign and digits, both sides of a page, and
stack pointers on both sides of the wrap of the stack page.  Five banks are one more than sixteen bits can count.  The scroll positions of
`background` are zero, the right edge, the attribute rows, and rows that cross
the end of a nametable within the lines of the picture, in the upper and in the
lower nametables.  Its program touches the registers once per v-blank; writes
during rendering are left out.  In `ppu_regs` the two bytes set or clear every
bit of every field; its theorems cover the other bytes.  `address_space` disables
deadlock checking because `main()` returns when the ROM is rejected.

Fairness.  `Emulator` assumes weak fairness of its next step: one thread that
does not stop.  `Interrupts` assumes that `run()` is called for ever and, for
`NMIServed` only, that the program keeps executing instructions that poll:
unknown opcodes and BRK do not, and the emulator cannot make a program execute
others.  `FrameLoop` asks for fairness of everything except quitting.

## Disagreements

Four runs show the code to differ from what the repository says of it.

- `step_rti`: `core/clidbg.cpp:67` says "step, s: step next instruction".  For RTI
  `CPU::nextaddr()` (`core/cpu.cpp:110`) takes the pushed status for the low byte of
  the return address, and a step out of a handler runs on.  `StepStops` leaves RTI out.
- `status_latch`: a PPUSTATUS read does `io.latch |= flags` (`core/ppu.cpp:149`).
  Bit 7 stays set until something else is put on the latch, and
  `testrom/test.asm:75`, "wait 2 frames", does not wait.  `CleanPollTells` therefore
  speaks of polls that find bit 7 of the latch clear.
- `scroll_top`: `BitField::operator=` for two fields of the same type
  (`util/bits.hpp:69`) copies the low bits of the whole word.
  `copy_v_vertpos()` thus loads coarse y and fine y from the bits of coarse x,
  where `core/PPUDOCS.txt:50` says "the value in PPU SCROLL ($2005) is the top
  left corner".  `RowsInOrder` is stated relative to the row that is really
  loaded.
- `remap_unset`: `insert_rom()` sets the mirroring before the cartridge maps the
  pattern tables, so that `remap()` reads `lookup[NT_START-1]`
  uninitialised, which `util/heaparray.hpp:15` calls undefined behaviour.
  `MirrorsAgree` covers nametables only where that read came out well.

Met on the way, and stated as exceptions where a property would need them:
`CPU::reset()` keeps `execnmi` and `execirq` (`core/cpu.cpp:47`), so that an interrupt
accepted before it is entered first; `vblank_begin()` (`core/ppumain.cpp:87`) calls the
NMI callback whatever `io.nmi_enabled` is, though `core/ppu.hpp:53` and
`testrom/test.asm:131`, "turn on nmi", give the bit an effect; for an RTS with `sp` at
FE or FF `nextaddr()` (`core/cpu.cpp:109`) reads on at 0x0200 where `pull()` wraps around,
so that a step there does not stop; with `runframe` pending the debugger also stops in the
handler of a BRK, where `core/clidbg.cpp:61` says "stop at nmi handler"; an indexed
absolute read takes its extra cycle wherever it is not in the zero page, and (ind),y
depending on what the instruction before has left in `opargs.high`; the debugger shows opcode 94 as sta and F8 as
unknown; the overflow flag of `instr_sbc()` is computed from the operand and not from
its complement; `instr_bit()` takes neg from the conjunction and zero from the operand;
`next` over a JMP stops at an instruction that may never come; `break` refuses a single
address; an RTS without a call that the debugger has seen reads the back of an empty
vector, the phase "undefined" of `Debugger`; a ROM of 16k is read outside its array in
the lower half of its area, one of more than 64k shows banks other than its last; a
header with the PRG RAM bit has its PRG ROM not read; a tile shows
seven of its columns in eight dots (`PixelsInOrder` states what is shown).

## What is proved

The theorems hold for every value of the constants that the named assumptions
allow; TLAPS checks them with Z3, Zenon and LS4.

- `FrameClockProofs` (more than two dots, v-blank before the last line):
  `TypeCorrect`, `Counters`, `OneNMI`, `FlagOnce`, `CleanPolls`.  The invariant writes `cycles`
  as whole lines plus a rest and places both counters in the frame that
  `odd_frame` names; every guard then becomes a test of the position in the frame.
  It also says that no read takes the flag before v-blank and that it is clear at the
  last dot.  `StatusPolling` implements `FrameClock`, so that the invariant holds of it,
  and what a clean poll reads is the flag.
- `PPURegsProofs` (data are bytes): `TypeCorrect`, `AddressPairs`,
  `HalfAddresses`.  One lemma takes a number apart around a bit field; what each
  register write does to `tmp` follows from it.  The invariant is the conjunction
  of the three: `AddressPair` needs the toggle and the half-written address.
- `AddressSpaceProofs` (areas in order, masks at multiples, banks of any size):
  `AddressesOwned`, `MirrorsAlwaysAgree`, `RomsInPlace`, `TypeCorrect`.  What `map()`
  and `remap()` leave of the areas mapped before them is a lemma on any bus; the
  wiring is an invariant because it then follows step by step for constructor and
  `insert_rom()`, whichever way the comparison with the unset cell comes out.  For the
  memories the invariant adds that `expected` is zero until `power()`, and that a write
  reaches an address exactly if it is a mirror: two addresses of the same cell.  For
  the ROM it is that the cartridge is what `parse()` makes of the file; the offset then
  is a matter of remainders, by cases on the number of banks.
- `BackgroundProofs` (lines of 341 dots, any number of them; any scroll positions and
  addresses): `TilesOrdered`, `RowsOrdered`, `TilesCoherent`, `PixelsOrdered`,
  `TypeCorrect`.  An address is the sum of its six fields, a record; what each of the
  address functions does to the position in the four nametables is a lemma on that
  record.  The invariant says what one dot hands to the next: the rows from the moment
  they are loaded (`Loaded`), the latches fetch by fetch (`Latched`), the tile that is
  about to be filled in (`NextTile`), and for every bit of the shift registers the column
  it shows (`Filled`); `TilesInOrder` gives the tile, `Loaded` its row.  The counters are
  those of `FrameClockProofs`, whose invariant it instantiates.
- `EmulatorProofs` first takes the CPU's interrupts by themselves (vectors distinct):
  `NoSpurious`, `BreakFlag`, `OneSignalOneService`, `CPUTypeCorrect`, all of
  `Interrupts`.  The inductive invariant is the type invariant with both
  state properties and the fact that `breakf` and `resetpending` are clear between
  calls; without it a pushed flag could be left over from PHP.  Then CPU and PPU
  together (v-blank starts after dot 38 and lasts 42 dots): `OneHandler`,
  `HandlerInTime`, `OnePicture`, `TypeCorrect`, and `RefinesLoop`, the safety part of
  the refinement of `FrameLoop`.  It instantiates the proofs of the PPU and cites
  the lemmas of both, so that its invariant only adds what joins the two, in dots: only
  the first `run()` has more than 21 to run; one that meets the start of v-blank ends
  within 21 of it, hence cannot meet a second; a signal is polled in the 21 after
  that and entered next.  Last is the arithmetic of `Emulator::run()` in
  `Pacing` (half an `int` above 39, `long` a multiple of `int`): `PacingTypeCorrect` and
  `AlwaysInStep`.  The invariant is that between calls `cycle`
  is `r.cycles` converted to `int`, but for the six cycles of `power()` before the
  first call, and that inside the loop `lag` is what the loop has still to run; the
  difference of two converted numbers that lie close together survives the wrap.
- `InstructionsProofs` (nothing assumed): for every machine, that is, any registers,
  flags, memory and program, and all 256 opcodes with any operands.  Operation by
  operation, from a bus access over the addressing modes to `execute()`, it shows that a
  machine becomes a machine, in how many cycles, with which accesses reported and with
  what effect on signals and polls; `CallRuns` is the sum of it for a call of `power()`
  or `run()`.
- `InstructionFactsProofs` (nothing assumed): what the instructions compute, and with it
  the references of `InstructionFacts` for every byte and every machine.
  `InterruptUndone` and `CallUndone` say that RTI undoes `interrupt()` and
  RTS undoes JSR for every position of the stack pointer: what is pushed is pulled again
  because three bytes below one another in a page of 256 are three cells, across the
  wrap as well.  `Exact` has the arithmetic, `CyclesExact` the cycles.  The properties
  that the run checks are instances of them: `Returned`, `Arithmetic`, `Cycles`.
- `DebuggerProofs` (programs and pokes are bytes at addresses; any number of programs,
  breakpoints and calls): `TypeCorrect`, `HandlerStop`, `Backtrace` and `CPUImplements`,
  the refinement of `Interrupts` by the whole instruction set, so that the theorems on
  interrupts hold of it.  All rest on `CallRuns` and on the shape of a call's accesses
  (an instruction is fetched first, a vector is read last).  `TInv`, the types and the
  position in those accesses, is inductive; `StopsInHandler` needs in addition where
  the stop is before and after the vector is reported (`VInv`), and `OpenCallsListed`
  which calls the backtrace has been told of while the instruction is still running
  (`CInv`).  The proof found one case that the invariant had to leave out: a write from
  the prompt to the opcode whose fetch has just been reported makes another instruction
  run than the backtrace has been told of, hence the history variable `patched`.

The facts on quotients and remainders that the provers do not find with a symbolic
divisor are lemmas at the start of the modules that need them.

Only model-checked: `NMIServed` and the fairness in `FrameLoop` (liveness);
`TablesAgree`, a comparison of two constant tables that TLC makes in full;
`NextaddrForetells` and with it `StepStops`, which would need the program counter
followed through every mode and every length in the table of `InstrInfo`.

## Not modelled

- The attribute shift registers, whose mask shifts by a negative amount
  (`core/ppu.cpp:477`), colours, the palette table, sprites (which the code does not
  draw).
- Text: `getinfo()`, the wording of the disassembler, the block disassembler, tracing,
  help, status and the commands that only show memory.  Reading a register of the PPU
  from the prompt has its effects on the register; `PPURegs` has such reads at every
  step.
- Files that are shorter than their headers say.
- `Bus::operator=`, `HeapArray` beyond its missing initialisation, files, command
  line, settings, strings, random numbers: run once, or unused by the parts above.
- Video: calls of OpenGL and SDL.
- `Emulator::reset()` under the main loop: no command reaches it.  `Interrupts`,
  `FrameClock` and `PPURegs` have `reset()` at every step.
- VRAM bus accesses at 0x4000 and above, which PPUDATA increments can reach.

## Plan

Next: register writes during rendering in `Background`, and a proof of `StepStops`.

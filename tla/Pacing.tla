-------------------------------- MODULE Pacing --------------------------------
(***************************************************************************)
(* The arithmetic of Emulator::run().  CPU::r.cycles is an unsigned long,  *)
(* Emulator::cycle, curr_cycle and cycle_diff are ints: after some twenty  *)
(* minutes of play the conversion to int turns negative and the difference *)
(* wraps around.  The wrap is modelled as the two's complement one that    *)
(* compilers produce for it.                                               *)
(*                                                                         *)
(* The CPU is abstracted to the cycles that a CPU::run() takes and the PPU *)
(* to the number of its dots.                                              *)
(***************************************************************************)
EXTENDS Integers

CONSTANTS
    HALF,       \* 2^31: half the range of int
    WIDER       \* how many times the range of int fits in unsigned long:
                \* 2^32, and 1 where long has 32 bits

ASSUME RangeAssumption == HALF \in Nat /\ HALF > 39 /\ WIDER \in Nat /\ WIDER > 0

INT_RANGE == 2 * HALF
LONG_RANGE == INT_RANGE * WIDER

VARIABLES
    rcycles,            \* CPU::r.cycles
    cycle,              \* Emulator::cycle
    curr_cycle, cycle_diff, i,      \* locals of Emulator::run()
    pc,                 \* "idle", or "loop" inside of Emulator::run()
    lag,                \* history: 3 * cycles the CPU ran, less dots the PPU ran
    ran                 \* history: run() has been called

pacing == <<rcycles, cycle, curr_cycle, cycle_diff, i, pc, lag, ran>>

\* Conversion to int, and the result of an int operation.
ToInt(n) == IF n % INT_RANGE < HALF THEN n % INT_RANGE ELSE (n % INT_RANGE) - INT_RANGE

\* CPU::run() takes between one and seven cycles, CPU::power() six.
CpuCycles == 1 .. 7
PowerCycles == 6

\* After Emulator::power(), which leaves Emulator::cycle alone.
PacingInit ==
    /\ rcycles = PowerCycles /\ cycle = 0
    /\ curr_cycle = 0 /\ cycle_diff = 0 /\ i = 0
    /\ pc = "idle"
    /\ lag = 3 * PowerCycles /\ ran = FALSE

\* Faulty variant: the difference is taken of the unsigned counter, converted late.
run_begin_late_conversion(n) ==
    /\ pc = "idle"
    /\ rcycles' = (rcycles + n) % LONG_RANGE
    /\ curr_cycle' = ToInt(rcycles')
    /\ cycle_diff' = (rcycles' % INT_RANGE) - cycle
    /\ i' = 0
    /\ pc' = "loop"
    /\ lag' = lag + 3 * n /\ ran' = TRUE
    /\ UNCHANGED cycle

\* cpu.run() and the locals.
run_begin(n) ==
    /\ pc = "idle"
    /\ rcycles' = (rcycles + n) % LONG_RANGE
    /\ curr_cycle' = ToInt(rcycles')
    /\ cycle_diff' = ToInt(curr_cycle' - cycle)
    /\ i' = 0
    /\ pc' = "loop"
    /\ lag' = lag + 3 * n /\ ran' = TRUE
    /\ UNCHANGED cycle

\* One iteration of the loop.
run_dot ==
    /\ pc = "loop" /\ i < ToInt(cycle_diff * 3)
    /\ i' = i + 1
    /\ lag' = lag - 1
    /\ UNCHANGED <<rcycles, cycle, curr_cycle, cycle_diff, pc, ran>>

\* Faulty variant: the loop's cycles are not taken as done.
run_return_keeps_cycle ==
    /\ pc = "loop" /\ ~(i < ToInt(cycle_diff * 3))
    /\ pc' = "idle"
    /\ UNCHANGED <<rcycles, cycle, curr_cycle, cycle_diff, i, lag, ran>>

run_return ==
    /\ pc = "loop" /\ ~(i < ToInt(cycle_diff * 3))
    /\ cycle' = curr_cycle
    /\ pc' = "idle"
    /\ UNCHANGED <<rcycles, curr_cycle, cycle_diff, i, lag, ran>>

PacingNext == (\E n \in CpuCycles : run_begin(n)) \/ run_dot \/ run_return

PacingSpec == PacingInit /\ [][PacingNext]_pacing

-------------------------------------------------------------------------------

\* The counters stay in the range of their types; no loop runs for more than 13 cycles.
PacingTypeOK ==
    /\ rcycles \in 0 .. LONG_RANGE - 1
    /\ cycle \in -HALF .. HALF - 1 /\ curr_cycle \in -HALF .. HALF - 1
    /\ cycle_diff \in 0 .. 13 /\ i \in 0 .. 39
    /\ pc \in {"idle", "loop"}
    /\ lag \in Int /\ ran \in BOOLEAN

\* Every return of run() leaves the PPU exactly three dots per CPU cycle ahead of
\* power(), across every wrap of either counter, and the PPU never overtakes the CPU.
InStep == lag >= 0 /\ (pc = "idle" /\ ran => lag = 0)
===============================================================================

------------------------------- MODULE Emulator -------------------------------
(***************************************************************************)
(* Core::Emulator under the main loop of main.cpp: Interrupts (the CPU)    *)
(* and FrameClock (the PPU) stepped by Emulator::run(), which runs three   *)
(* PPU dots for every CPU cycle, and joined by the NMI callback that the   *)
(* constructor wires.                                                      *)
(*                                                                         *)
(* The program is one thread.  A step is one call of CPU::run() or of      *)
(* PPU::run() or one piece of the main loop, so that the variables between *)
(* the calls of the loop in Emulator::run() are visible.  due stands for   *)
(* r.cycles - cycle; Pacing shows that the code's wrapping integers        *)
(* compute just this difference.                                           *)
(***************************************************************************)
EXTENDS Integers, Interrupts

CONSTANTS
    CYCLE_MAX, LINE_MAX, VBLANK_LINE,
    DEBUGGER        \* flag -d: the debugger's prompt can come up at every fetch

VARIABLES
    cycles, lines, odd_frame, vblank, sp_zero_hit, sp_overflow,
    fired, taken, warm,                                 \* of FrameClock
    nmi,            \* Emulator::nmi, ends run_frame()
    due,            \* CPU cycles that the PPU has not been run for
    todo,           \* dots left in the loop of Emulator::run()
    phase,          \* where the main loop is
    running,        \* mainloop()'s running
    quit,           \* Debugger::quit
    vblanks,        \* history: v-blanks since the last picture was drawn
    owed,           \* history: entries of the NMI handler due to the last v-blank; one
                    \* that never came by the next v-blank merges with its own
    strayed         \* history: an unknown opcode ran since the last v-blank

PPU == INSTANCE FrameClock

ppu == <<cycles, lines, odd_frame, vblank, sp_zero_hit, sp_overflow,
         fired, taken, warm>>
emu == <<nmi, due, todo>>
loop == <<phase, running, quit>>
history == <<vblanks, owed, strayed>>
vars == <<cpu, ppu, emu, loop, history>>

\* Beside what CPU and PPU assume: v-blank starts after the dots of the first run(), the
\* cycles of power() included, and lasts as long as two instructions.
ASSUME EmulatorAssumption ==
    /\ PPU!GeometryAssumption
    /\ PPU!VBlankDot >= 39 /\ PPU!PreRenderDot - PPU!VBlankDot >= 42
    /\ DEBUGGER \in BOOLEAN

\* mainloop() after emu.power(): CPU::power() has served a reset, whose cycles the
\* PPU has still to be run for.
Init ==
    /\ nmipending = FALSE /\ irqpending = FALSE /\ resetpending = FALSE
    /\ execnmi = FALSE /\ execirq = FALSE
    /\ intdis = TRUE /\ breakf = FALSE
    /\ elapsed = InterruptCycles
    /\ vec = RESET_VEC /\ cause = "reset" /\ pushedB = FALSE
    /\ PPU!PowerState
    /\ nmi = FALSE /\ due = InterruptCycles /\ todo = 0
    /\ phase = "poll" /\ running = TRUE /\ quit = FALSE
    /\ vblanks = 0 /\ owed = 0 /\ strayed = FALSE

-------------------------------------------------------------------------------
(* Emulator::run() *)

\* Faulty variant: four dots for every CPU cycle.
cpu_run_four_dots ==
    /\ phase = "frame" /\ ~nmi
    /\ run
    /\ PPU!read_status \/ UNCHANGED ppu
    /\ quit' \in IF DEBUGGER THEN {quit, TRUE} ELSE {quit}
    /\ due' = due + elapsed'
    /\ todo' = 4 * (due + elapsed')
    /\ owed' = owed - (IF vec' = NMI_VEC THEN 1 ELSE 0)
    /\ strayed' = (strayed \/ (cause' = "none" /\ elapsed' = 1))
    /\ phase' = "dots"
    /\ UNCHANGED <<nmi, running, vblanks>>

\* cpu.run().  The instruction may read PPUSTATUS, and its fetch may stop at the
\* debugger's prompt, where the user may quit.
cpu_run ==
    /\ phase = "frame" /\ ~nmi
    /\ run
    /\ PPU!read_status \/ UNCHANGED ppu
    /\ quit' \in IF DEBUGGER THEN {quit, TRUE} ELSE {quit}
    /\ due' = due + elapsed'
    /\ todo' = 3 * (due + elapsed')
    /\ owed' = owed - (IF vec' = NMI_VEC THEN 1 ELSE 0)
    /\ strayed' = (strayed \/ (cause' = "none" /\ elapsed' = 1))
    /\ phase' = "dots"
    /\ UNCHANGED <<nmi, running, vblanks>>

\* Faulty variant: the callback ends the frame but does not signal the CPU.
nmi_callback_frame_only ==
    /\ nmi' = TRUE
    /\ vblanks' = vblanks + 1 /\ owed' = 1 /\ strayed' = FALSE
    /\ UNCHANGED cpu

\* The lambda that the constructor passes to set_nmi_callback().
nmi_callback ==
    /\ nmi' = TRUE
    /\ fire_nmi
    /\ vblanks' = vblanks + 1 /\ owed' = 1 /\ strayed' = FALSE

\* One ppu.run() of the loop.
ppu_run ==
    /\ phase = "dots" /\ todo > 0
    /\ \/ PPU!vblank_begin /\ nmi_callback
       \/ /\ PPU!vblank_end \/ PPU!begin_frame \/ PPU!lcycle
          /\ UNCHANGED <<cpu, nmi, history>>
    /\ todo' = todo - 1
    /\ UNCHANGED <<due, loop>>

\* Faulty variant: the cycles of this run() are counted again by the next.
run_end_keeps_due ==
    /\ phase = "dots" /\ todo = 0
    /\ phase' = "frame"
    /\ UNCHANGED <<cpu, ppu, nmi, due, todo, running, quit, history>>

\* cycle = curr_cycle
run_end ==
    /\ phase = "dots" /\ todo = 0
    /\ due' = 0
    /\ phase' = "frame"
    /\ UNCHANGED <<cpu, ppu, nmi, todo, running, quit, history>>

-------------------------------------------------------------------------------
(* mainloop() *)

\* Faulty variant: quitting the debugger does not end the main loop.
poll_goes_on ==
    /\ phase = "poll"
    /\ \E closed \in BOOLEAN : running' = (running /\ ~closed)
    /\ phase' = IF quit THEN "draw" ELSE "frame"
    /\ UNCHANGED <<cpu, ppu, emu, quit, history>>

\* Events, the debugger's quit flag, and run_frame()'s early return.
poll ==
    /\ phase = "poll"
    /\ \E closed \in BOOLEAN : running' = (running /\ ~closed /\ ~quit)
    /\ phase' = IF quit THEN "draw" ELSE "frame"
    /\ UNCHANGED <<cpu, ppu, emu, quit, history>>

\* Faulty variant: run_frame() leaves nmi set, so that the next frame is empty.
frame_end_keeps_nmi ==
    /\ phase = "frame" /\ nmi
    /\ phase' = "draw"
    /\ UNCHANGED <<cpu, ppu, emu, running, quit, history>>

\* The end of run_frame().
frame_end ==
    /\ phase = "frame" /\ nmi
    /\ nmi' = FALSE
    /\ phase' = "draw"
    /\ UNCHANGED <<cpu, ppu, due, todo, running, quit, history>>

\* screen.update(), context.draw(), and the loop's condition.
draw ==
    /\ phase = "draw"
    /\ phase' = IF running THEN "poll" ELSE "exited"
    /\ vblanks' = 0
    /\ UNCHANGED <<cpu, ppu, emu, running, quit, owed, strayed>>

\* The process has ended.
exited == phase = "exited" /\ UNCHANGED vars

Next == cpu_run \/ ppu_run \/ run_end \/ poll \/ frame_end \/ draw \/ exited

\* One thread, which goes on as long as it can take a step.
Spec == Init /\ [][Next]_vars /\ WF_vars(Next)

-------------------------------------------------------------------------------

TypeOK ==
    /\ CPUTypeOK /\ PPU!TypeOK
    /\ nmi \in BOOLEAN /\ running \in BOOLEAN /\ quit \in BOOLEAN
    /\ phase \in {"poll", "frame", "dots", "draw", "exited"}
    /\ due \in 0 .. 13 /\ todo \in 0 .. 39
    /\ vblanks \in Nat /\ owed \in Int /\ strayed \in BOOLEAN

\* Every v-blank has the NMI handler entered once: while the handler is still owed
\* the signal is pending, and a pending signal is always owed, whatever BRK hijacking,
\* resets of the flags and polling do to it.
HandlerOncePerVBlank == owed = IF nmipending THEN 1 ELSE 0

\* The handler is entered while the PPU still is in v-blank: the dots that Emulator::run()
\* still owes when the NMI fires, and one more instruction that polls, take at most 42
\* dots.  Only a program that runs into unknown opcodes, which do not poll, is later.
HandlerInVBlank ==
    [][vec' = NMI_VEC /\ phase = "frame" /\ ~strayed
        => PPU!VBlankDot < PPU!Pos /\ PPU!Pos <= PPU!PreRenderDot]_vars

\* A picture is drawn after exactly one v-blank, unless the debugger has quit.
\* Emulator::nmi is set and cleared once per picture although run() does not stop at
\* the dot that sets it.
OneVBlankPerPicture ==
    /\ vblanks <= 1
    /\ phase = "draw" => vblanks = 1 \/ quit
    /\ phase \in {"frame", "dots"} => (nmi <=> vblanks = 1)

Loop == INSTANCE FrameLoop WITH phase <- IF phase = "dots" THEN "frame" ELSE phase

\* The main loop over CPU and PPU implements FrameLoop: every run_frame() ends, and quitting
\* ends the program after the picture in progress.
ImplementsFrameLoop == Loop!Spec
===============================================================================

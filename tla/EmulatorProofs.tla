---------------------------- MODULE EmulatorProofs ----------------------------
(***************************************************************************)
(* Safety of the emulator's loop, composed from that of CPU and PPU, for   *)
(* every geometry of a frame whose v-blank is long enough.                 *)
(*                                                                         *)
(* The parts bring their invariants along.  What joins them is a matter of *)
(* dots: how many Emulator::run() may still have to run, and how far from  *)
(* the start of v-blank they can take the PPU (Timing, Fresh, InTime).     *)
(* The last part is about the conversions of its counters (Pacing).        *)
(***************************************************************************)
EXTENDS Emulator, Pacing, TLAPS

\* The latch of StatusPolling is no part of this composition.
PPUP == INSTANCE FrameClockProofs WITH latched <- FALSE

-------------------------------------------------------------------------------
(* The CPU *)

(***************************************************************************)
(* Safety of the CPU's interrupt control, for any choice of vectors.       *)
(*                                                                         *)
(* PushedBreakFlag is not inductive alone: it needs that the break flag is *)
(* clear whenever an instruction or an interrupt starts.  ServedOnce needs *)
(* NoSpuriousInterrupt (an accepted IRQ finds its signal) and that no      *)
(* reset is pending between two calls (only power() and reset() take the   *)
(* reset vector).  CPUInv is the conjunction.                              *)
(***************************************************************************)

\* The constants are as the PPU needs them.
LEMMA Assumptions == PPUP!GeometryAssumption
  BY EmulatorAssumption

CPUInv ==
    /\ CPUTypeOK
    /\ NoSpuriousInterrupt
    /\ PushedBreakFlag
    /\ ~resetpending
    /\ ~breakf

\* What any step of an instruction that polls does to the flags: the exec flags
\* rise only with their signal, the break flag ends up clear, and no history of
\* an interrupt is recorded.
Polled ==
    /\ UNCHANGED <<nmipending, irqpending, resetpending, pushedB>>
    /\ vec' = NO_VEC /\ cause' = "none"
    /\ ~execnmi /\ ~execirq
    /\ execnmi' = (execnmi \/ nmipending)
    /\ execirq' => irqpending
    /\ execirq' \in BOOLEAN /\ intdis' \in BOOLEAN /\ breakf' = FALSE
    /\ elapsed' \in 0 .. 7

\* Every instruction that calls last_cycle() does what Polled says, CLI, SEI, PLP
\* and RTI with their own order of poll and flag change included.
LEMMA PollingStep == ASSUME CPUInv, execute_polling PROVE Polled
<1>1. ASSUME NEW d \in BOOLEAN, NEW n \in 2 .. 7, PollsWith(d, n)
      PROVE  /\ UNCHANGED <<nmipending, irqpending, resetpending, pushedB>>
             /\ vec' = NO_VEC /\ cause' = "none"
             /\ ~execnmi /\ ~execirq
             /\ execnmi' = (execnmi \/ nmipending)
             /\ execirq' => irqpending
             /\ execirq' \in BOOLEAN
             /\ elapsed' \in 0 .. 7
  BY <1>1 DEF PollsWith, Executes, NoInterrupt, last_cycle, nmipoll,
      irqpoll, CPUInv, CPUTypeOK
<1>2. ASSUME NEW n \in 2 .. 7, Plain(n) PROVE Polled
  BY <1>1, <1>2 DEF Plain, Polled, CPUInv, CPUTypeOK
<1>3. CASE \E v \in BOOLEAN : instr_flag(v) \/ instr_plp(v) \/ instr_rti(v)
  BY <1>1, <1>3 DEF instr_flag, instr_plp, instr_rti, Polled, CPUInv, CPUTypeOK
<1>4. CASE instr_php
  BY <1>1, <1>4 DEF instr_php, Polled, CPUInv, CPUTypeOK
<1>5. CASE \/ addrmode_read \/ addrmode_modify \/ addrmode_write
           \/ instr_branch \/ instr_implied \/ instr_stack \/ instr_jump
  BY <1>2, <1>5 DEF addrmode_read, addrmode_modify, addrmode_write,
                    instr_branch, instr_implied, instr_stack, instr_jump
<1>6. QED
  BY <1>3, <1>4, <1>5 DEF execute_polling

\* CPUInv holds of a CPU that has just been constructed.
LEMMA CPUInitInv == CPUInit => CPUInv
<1> SUFFICES ASSUME CPUInit PROVE CPUInv
  OBVIOUS
<1>1. elapsed \in 0 .. 7
  BY SMTT(30) DEF CPUInit
<1>2. QED
  BY <1>1, Zenon DEF CPUInit, CPUInv, CPUTypeOK, NoSpuriousInterrupt,
      PushedBreakFlag, Causes

\* Every call of power(), reset(), fire_nmi(), fire_irq() and run() preserves CPUInv.
LEMMA CPUNextInv == CPUInv /\ [CPUNext]_cpu => CPUInv'
<1> SUFFICES ASSUME CPUInv, [CPUNext]_cpu PROVE CPUInv'
  OBVIOUS
<1> USE DEF CPUInv, CPUTypeOK, NoSpuriousInterrupt,
      PushedBreakFlag, Causes
<1>1. CASE power
  <2>1. elapsed' \in 0 .. 7
    BY <1>1 DEF power, InterruptCycles
  <2>2. QED
    BY <1>1, <2>1, Zenon DEF power, interrupt
<1>2. CASE reset
  <2>1. elapsed' \in 0 .. 7
    BY <1>2 DEF reset, InterruptCycles
  <2>2. QED
    BY <1>2, <2>1, Zenon DEF reset, interrupt
<1>3. CASE fire_nmi
  <2>1. elapsed' \in 0 .. 7
    BY <1>3 DEF fire_nmi
  <2>2. QED
    BY <1>3, <2>1, Zenon DEF fire_nmi, NoInterrupt
<1>4. CASE fire_irq
  <2>1. elapsed' \in 0 .. 7
    BY <1>4 DEF fire_irq
  <2>2. QED
    BY <1>4, <2>1, Zenon DEF fire_irq, NoInterrupt
<1>5. CASE run_nmi
  <2>1. elapsed' \in 0 .. 7
    BY <1>5 DEF run_nmi, InterruptCycles
  <2>2. QED
    BY <1>5, <2>1, Zenon DEF run_nmi, interrupt
<1>6. CASE run_irq
  <2>1. elapsed' \in 0 .. 7
    BY <1>6 DEF run_irq, InterruptCycles
  <2>2. QED
    BY <1>6, <2>1, Zenon DEF run_irq, interrupt
<1>7. CASE execute_polling
  <2>1. Polled
    BY <1>7, PollingStep
  <2>2. QED
    BY <2>1, Zenon DEF Polled
<1>8. CASE instr_brk
  <2>1. elapsed' \in 0 .. 7
    BY <1>8 DEF instr_brk, Executes, InterruptCycles
  <2>2. QED
    BY <1>8, <2>1, Zenon DEF instr_brk, Executes, interrupt
<1>9. CASE instr_unknown
  <2>1. elapsed' \in 0 .. 7
    BY <1>9 DEF instr_unknown, Executes
  <2>2. QED
    BY <1>9, <2>1, Zenon DEF instr_unknown, Executes, NoInterrupt
<1>10. CASE UNCHANGED cpu
  BY <1>10 DEF cpu
<1>11. QED
  BY <1>1, <1>2, <1>3, <1>4, <1>5, <1>6, <1>7, <1>8, <1>9, <1>10
     DEF CPUNext, run, execute

\* CPUInv is an invariant of the CPU's interrupt control.
THEOREM CPUInvariance == CPUSpec => []CPUInv
  BY CPUInitInv, CPUNextInv, PTL DEF CPUSpec

\* No call of CPU::run() takes more than seven cycles: Emulator::run() never has more than
\* 39 dots to run for it, the cycles of power() included.
THEOREM CPUTypeCorrect == CPUSpec => []CPUTypeOK
<1>1. CPUInv => CPUTypeOK
  BY DEF CPUInv
<1>2. QED
  BY <1>1, CPUInvariance, PTL

\* No handler is ever entered for a signal that has been served already: execnmi and
\* execirq of CPU are set only while their pending flag is.
THEOREM NoSpurious == CPUSpec => []NoSpuriousInterrupt
<1>1. CPUInv => NoSpuriousInterrupt
  BY DEF CPUInv
<1>2. QED
  BY <1>1, CPUInvariance, PTL

\* The break flag in the byte interrupt() pushes is set for BRK and for nothing else.
THEOREM BreakFlag == CPUSpec => []PushedBreakFlag
<1>1. CPUInv => PushedBreakFlag
  BY DEF CPUInv
<1>2. QED
  BY <1>1, CPUInvariance, PTL

Serves ==
    /\ vec' = RESET_VEC <=> cause' = "reset"
    /\ (nmipending /\ ~nmipending') <=> vec' = NMI_VEC
    /\ irqpending /\ ~irqpending' => vec' = IRQ_BRK_VEC
    /\ cause' = "irq" /\ vec' = IRQ_BRK_VEC => irqpending /\ ~irqpending'

\* Every call serves the signal whose vector it takes, and no other.
LEMMA NextServes == ASSUME CPUInv, CPUNext PROVE Serves
<1> USE VectorsDistinct DEF CPUInv, CPUTypeOK, NoSpuriousInterrupt, Serves
<1>1. CASE power \/ reset
  BY <1>1 DEF power, reset, interrupt
<1>2. CASE fire_nmi \/ fire_irq
  BY <1>2 DEF fire_nmi, fire_irq, NoInterrupt
<1>3. CASE run_nmi
  BY <1>3 DEF run_nmi, interrupt
<1>4. CASE run_irq
  BY <1>4 DEF run_irq, interrupt
<1>5. CASE execute_polling
  BY <1>5, PollingStep, Zenon DEF Polled
<1>6. CASE instr_brk
  BY <1>6 DEF instr_brk, interrupt
<1>7. CASE instr_unknown
  BY <1>7 DEF instr_unknown, NoInterrupt
<1>8. QED
  BY <1>1, <1>2, <1>3, <1>4, <1>5, <1>6, <1>7 DEF CPUNext, run, execute

\* interrupt() serves one signal, the one whose vector it takes.
THEOREM OneSignalOneService == CPUSpec => ServedOnce
<1>1. CPUInv /\ [CPUNext]_cpu => [Serves]_cpu
  BY NextServes
<1>2. QED
  BY <1>1, CPUInvariance, PTL DEF CPUSpec, ServedOnce, Serves

-------------------------------------------------------------------------------
(* The steps of the parts *)

\* A call of run() takes the NMI vector exactly if it takes the signal back; a signal that
\* it leaves pending has been polled, unless the opcode was unknown.
LEMMA CpuRuns ==
  ASSUME CPUInv, run
  PROVE  /\ CPUInv'
         /\ (nmipending /\ ~nmipending') <=> vec' = NMI_VEC
         /\ nmipending' => nmipending
         /\ nmipending' => (~execnmi /\ execnmi') \/ (cause' = "none" /\ elapsed' = 1)
<1>1. run
  OBVIOUS
<1>2. CPUNext
  BY <1>1 DEF CPUNext
<1>3. CPUInv'
  BY <1>2, CPUNextInv, Assumptions
<1>4. (nmipending /\ ~nmipending') <=> vec' = NMI_VEC
  <2>1. Serves
    BY <1>2, NextServes, Assumptions
  <2>2. QED
    BY <2>1 DEF Serves
<1>5. CASE run_nmi \/ run_irq \/ instr_brk
  <2>1. nmipending' = FALSE
    BY <1>5, Zenon DEF run_nmi, run_irq, instr_brk, interrupt, CPUInv
  <2>2. QED
    BY <1>3, <1>4, <2>1
<1>6. CASE execute_polling
  <2>1. Polled
    BY <1>6, PollingStep, Assumptions
  <2>2. QED
    BY <1>3, <1>4, <2>1, Zenon DEF Polled
<1>7. CASE instr_unknown
  BY <1>3, <1>4, <1>7 DEF instr_unknown, Executes, NoInterrupt
<1>8. QED
  BY <1>1, <1>5, <1>6, <1>7 DEF run, execute

\* The callback raises the NMI; nothing is entered.
LEMMA CpuSignalled ==
  ASSUME CPUInv, fire_nmi
  PROVE  CPUInv' /\ nmipending' = TRUE /\ execnmi' = execnmi /\ vec' = NO_VEC
<1>1. fire_nmi
  OBVIOUS
<1>2. CPUInv'
  BY <1>1, CPUNextInv, Assumptions DEF CPUNext
<1>3. QED
  BY <1>1, <1>2 DEF fire_nmi, NoInterrupt

\* V-blank lasts 42 dots and starts after dot 38; the frame goes on after it.
LEMMA Dots ==
  /\ PPU!VBlankDot \in Nat /\ PPU!PreRenderDot \in Nat /\ PPU!FrameDots \in Nat
  /\ 39 <= PPU!VBlankDot /\ PPU!VBlankDot + 42 <= PPU!PreRenderDot
  /\ PPU!PreRenderDot < PPU!FrameDots - 1
<1>1. /\ PPUP!VBlankDot = PPU!VBlankDot /\ PPUP!PreRenderDot = PPU!PreRenderDot
      /\ PPUP!FrameDots = PPU!FrameDots
  BY DEF PPU!VBlankDot, PPUP!VBlankDot, PPU!PreRenderDot, PPUP!PreRenderDot,
         PPU!FrameDots, PPUP!FrameDots
<1>2. /\ PPUP!VBlankDot \in Nat /\ PPUP!PreRenderDot \in Nat /\ PPUP!FrameDots \in Nat
      /\ PPUP!PreRenderDot < PPUP!FrameDots - 1
  BY PPUP!SpecialDots, Assumptions
<1>3. QED
  BY <1>1, <1>2, EmulatorAssumption

\* Positions as FrameClockProofs knows them.
LEMMA SamePos == /\ PPU!Pos = PPUP!Pos /\ PPU!VBlankDot = PPUP!VBlankDot
                 /\ PPU!FrameDots = PPUP!FrameDots /\ PPU!PreRenderDot = PPUP!PreRenderDot
  BY DEF PPU!Pos, PPUP!Pos, PPU!VBlankDot, PPUP!VBlankDot, PPU!FrameDots, PPUP!FrameDots,
         PPU!PreRenderDot, PPUP!PreRenderDot

\* The dot that starts v-blank moves the PPU one position on.
LEMMA VBlankStarts ==
  ASSUME PPUP!IInv, PPU!vblank_begin
  PROVE  /\ PPUP!IInv'
         /\ PPU!Pos = PPU!VBlankDot /\ (PPU!Pos)' = PPU!Pos + 1
<1>1. PPUP!vblank_begin
  BY DEF PPU!vblank_begin, PPUP!vblank_begin, PPU!At, PPUP!At, PPU!tick, PPUP!tick,
         PPU!sprites, PPUP!sprites
<1>2. PPUP!IInv'
  BY <1>1, PPUP!NextIInv, Assumptions DEF PPUP!Next, PPUP!run
<1>3. PPUP!Pos = PPUP!VBlankDot
  BY <1>1, PPUP!Guards, Assumptions DEF PPUP!vblank_begin
<1>4. PPUP!Pos # PPUP!FrameDots - 1
  BY <1>3, Dots, SamePos
<1>5. (PPUP!Pos)' = PPUP!Pos + 1
  BY <1>1, <1>4, PPUP!Advance, Assumptions DEF PPUP!vblank_begin
<1>6. (PPU!Pos)' = (PPUP!Pos)'
  BY DEF PPU!Pos, PPUP!Pos, PPU!FrameDots, PPUP!FrameDots
<1>7. QED
  BY <1>2, <1>3, <1>5, <1>6, SamePos

\* Any other dot does so as well, or is the last of its frame.
LEMMA OtherDots ==
  ASSUME PPUP!IInv, PPU!vblank_end \/ PPU!begin_frame \/ PPU!lcycle
  PROVE  /\ PPUP!IInv'
         /\ \/ (PPU!Pos)' = PPU!Pos + 1
            \/ PPU!Pos = PPU!FrameDots - 1 /\ (PPU!Pos)' \in Nat
<1>1. PPUP!vblank_end \/ PPUP!begin_frame \/ PPUP!lcycle
  BY DEF PPU!vblank_end, PPUP!vblank_end, PPU!begin_frame, PPUP!begin_frame,
         PPU!lcycle, PPUP!lcycle, PPU!At, PPUP!At, PPU!tick, PPUP!tick,
         PPU!sprites, PPUP!sprites, PPU!history, PPUP!history
<1>2. PPUP!IInv'
  BY <1>1, PPUP!NextIInv, Assumptions DEF PPUP!Next, PPUP!run
<1>3. (PPU!Pos)' = (PPUP!Pos)'
  BY DEF PPU!Pos, PPUP!Pos, PPU!FrameDots, PPUP!FrameDots
<1>4. CASE PPUP!vblank_end \/ PPUP!lcycle
  <2>1. PPUP!Pos # PPUP!FrameDots - 1
    BY <1>4, PPUP!Guards, Assumptions, Dots, SamePos DEF PPUP!vblank_end, PPUP!lcycle
  <2>2. (PPUP!Pos)' = PPUP!Pos + 1
    BY <1>4, <2>1, PPUP!Advance, Assumptions DEF PPUP!vblank_end, PPUP!lcycle
  <2>3. QED
    BY <1>2, <1>3, <2>2, SamePos
<1>5. CASE PPUP!begin_frame
  <2>1. PPUP!Pos = PPUP!FrameDots - 1
    BY <1>5, PPUP!Guards, Assumptions DEF PPUP!begin_frame
  <2>2. (PPUP!Pos)' = (IF odd_frame THEN 1 ELSE 0)
    BY <1>5, PPUP!Wrap, Assumptions
  <2>3. QED
    BY <1>2, <1>3, <2>1, <2>2, SamePos
<1>6. QED
  BY <1>1, <1>4, <1>5

\* An instruction may read PPUSTATUS, which moves nothing.
LEMMA StatusRead ==
  ASSUME PPUP!IInv, PPU!read_status \/ UNCHANGED ppu
  PROVE  PPUP!IInv' /\ (PPU!Pos)' = PPU!Pos
<1>1. CASE PPU!read_status
  <2>1. PPUP!read_status
    BY <1>1 DEF PPU!read_status, PPUP!read_status, PPU!counters, PPUP!counters,
                PPU!sprites, PPUP!sprites
  <2>2. PPUP!IInv'
    BY <2>1, PPUP!NextIInv, Assumptions DEF PPUP!Next
  <2>3. QED
    BY <1>1, <2>2 DEF PPU!read_status, PPU!counters, PPU!Pos
<1>2. CASE UNCHANGED ppu
  <2>1. UNCHANGED PPUP!vars
    BY <1>2 DEF ppu, PPUP!vars, PPUP!counters, PPUP!sprites, PPUP!history
  <2>2. PPUP!IInv'
    BY <2>1, PPUP!NextIInv, Assumptions
  <2>3. QED
    BY <1>2, <2>2 DEF ppu, PPU!Pos
<1>3. QED
  BY <1>1, <1>2

-------------------------------------------------------------------------------
(* The invariant *)

\* The main loop: nmi and vblanks are cleared and set together, once per picture.
Pictures ==
    /\ phase \in {"poll", "frame", "dots", "draw", "exited"}
    /\ nmi \in BOOLEAN /\ running \in BOOLEAN /\ quit \in BOOLEAN /\ vblanks \in {0, 1}
    /\ phase \in {"poll", "exited"} => vblanks = 0 /\ ~nmi
    /\ phase = "draw" => ~nmi /\ (vblanks = 1 \/ quit)
    /\ phase \in {"frame", "dots"} => (nmi <=> vblanks = 1)

\* Only the first run() has more than the dots of one instruction to run.
Timing ==
    /\ due \in 0 .. 13 /\ todo \in 0 .. 39
    /\ phase # "dots" => todo = 0 /\ (due = 0 \/ (due = 6 /\ PPU!Pos = 0))
    /\ todo <= 21 \/ PPU!Pos + todo <= 39

\* Where the PPU will be at the end of the run() in progress.
Ahead == PPU!Pos + todo

\* A run() that has met the start of v-blank ends soon after it, with nothing entered.
Fresh ==
    nmi => /\ vec = NO_VEC
           /\ phase = "dots" => PPU!VBlankDot < PPU!Pos /\ Ahead <= PPU!VBlankDot + 21

\* A signal is polled by the instruction after that run(), and entered after the next.
InTime ==
    nmipending /\ ~strayed =>
        /\ PPU!VBlankDot < PPU!Pos /\ Ahead <= PPU!VBlankDot + 42
        /\ ~execnmi => Ahead <= PPU!VBlankDot + 21

Parts == CPUInv /\ PPUP!IInv

IInv ==
    /\ Parts /\ Pictures /\ Timing /\ Fresh /\ InTime
    /\ HandlerOncePerVBlank /\ strayed \in BOOLEAN

\* The position in the frame is a number.
LEMMA PosNat == ASSUME PPUP!IInv PROVE PPU!Pos \in Nat
  BY PPUP!PosSplit, Assumptions, SamePos

\* IInv holds after emu.power().
LEMMA InitIInv == Init => IInv
<1> SUFFICES ASSUME Init PROVE IInv
  OBVIOUS
<1>1. CPUInv
  <2>1. elapsed \in 0 .. 7
    BY DEF Init, InterruptCycles
  <2>2. QED
    BY <2>1, Zenon DEF Init, CPUInv, CPUTypeOK, NoSpuriousInterrupt,
                       PushedBreakFlag, Causes
<1>2. PPUP!IInv
  <2>1. PPUP!Init
    BY DEF Init, PPU!PowerState, PPUP!Init, PPUP!PowerState
  <2>2. QED
    BY <2>1, PPUP!InitIInv, Assumptions
<1>3. PPU!Pos = 0
  <2>1. cycles = 0 /\ odd_frame = FALSE
    BY DEF Init, PPU!PowerState
  <2>2. QED
    BY <2>1 DEF PPU!Pos
<1>4. Timing
  BY <1>3 DEF Init, Timing, InterruptCycles
<1>5. Pictures /\ Fresh /\ InTime /\ HandlerOncePerVBlank /\ strayed \in BOOLEAN
  BY Zenon DEF Init, Pictures, Fresh, InTime, HandlerOncePerVBlank
<1>6. QED
  BY <1>1, <1>2, <1>4, <1>5 DEF IInv, Parts

\* cpu.run() leaves seven cycles to run dots for, thirteen the first time.
LEMMA CpuRunIInv == ASSUME IInv, cpu_run PROVE IInv'
<1> USE Dots
<1>1. run /\ (PPU!read_status \/ UNCHANGED ppu)
  BY DEF cpu_run
<1>2. /\ CPUInv'
      /\ (nmipending /\ ~nmipending') <=> vec' = NMI_VEC
      /\ nmipending' => nmipending
      /\ nmipending' => (~execnmi /\ execnmi') \/ (cause' = "none" /\ elapsed' = 1)
  BY <1>1, CpuRuns DEF IInv, Parts
<1>3. PPUP!IInv' /\ (PPU!Pos)' = PPU!Pos /\ PPU!Pos \in Nat
  BY <1>1, StatusRead, PosNat DEF IInv, Parts
<1>4. elapsed' \in 0 .. 7
  BY <1>2 DEF CPUInv, CPUTypeOK
<1>5. /\ todo = 0 /\ (due = 0 \/ (due = 6 /\ PPU!Pos = 0))
      /\ todo' = 3 * (due + elapsed') /\ due' = due + elapsed'
  BY DEF cpu_run, IInv, Timing
<1>6. Timing'
  BY <1>3, <1>4, <1>5 DEF cpu_run, Timing
<1>7. Pictures'
  BY Zenon DEF cpu_run, IInv, Pictures
<1>8. Fresh'
  BY DEF cpu_run, Fresh
<1>9. HandlerOncePerVBlank' /\ strayed' \in BOOLEAN
  <2>1. nmipending \in BOOLEAN /\ nmipending' \in BOOLEAN
    BY <1>2 DEF IInv, Parts, CPUInv, CPUTypeOK
  <2>2. owed' = owed - (IF vec' = NMI_VEC THEN 1 ELSE 0)
    BY DEF cpu_run
  <2>3. HandlerOncePerVBlank'
    BY <1>2, <2>1, <2>2 DEF IInv, HandlerOncePerVBlank
  <2>4. strayed' = (strayed \/ (cause' = "none" /\ elapsed' = 1))
    BY DEF cpu_run
  <2>5. strayed' \in BOOLEAN
    BY <2>4
  <2>6. QED
    BY <2>3, <2>5
<1>10. InTime'
  <2> SUFFICES ASSUME nmipending', ~strayed'
               PROVE  /\ PPU!VBlankDot < PPU!Pos /\ PPU!Pos + todo' <= PPU!VBlankDot + 42
                      /\ execnmi'
    BY <1>3 DEF InTime, Ahead
  <2>1. ~strayed /\ ~(cause' = "none" /\ elapsed' = 1)
    BY Zenon DEF cpu_run
  <2>2. nmipending /\ ~execnmi /\ execnmi'
    BY <1>2, <2>1
  <2>3. PPU!VBlankDot < PPU!Pos /\ PPU!Pos + todo <= PPU!VBlankDot + 21
    BY <2>1, <2>2 DEF IInv, InTime, Ahead
  <2>4. QED
    BY <1>3, <1>4, <1>5, <2>2, <2>3
<1>11. QED
  BY <1>2, <1>3, <1>6, <1>7, <1>8, <1>9, <1>10 DEF IInv, Parts

\* The dot that starts v-blank finds nmi clear, and at most 20 dots are left to run.
LEMMA VBlankIInv ==
  ASSUME IInv, phase = "dots", todo > 0, PPU!vblank_begin, nmi_callback,
         todo' = todo - 1, UNCHANGED <<due, loop>>
  PROVE  IInv' /\ vblanks = 0 /\ vblanks' = 1
<1> USE Dots
<1>1. PPUP!IInv' /\ PPU!Pos = PPU!VBlankDot /\ (PPU!Pos)' = PPU!Pos + 1
  BY VBlankStarts DEF IInv, Parts
<1>2. CPUInv' /\ nmipending' = TRUE /\ execnmi' = execnmi /\ vec' = NO_VEC
  BY CpuSignalled DEF nmi_callback, IInv, Parts
<1>3. todo \in 1 .. 21 /\ due \in 0 .. 13
  BY <1>1 DEF IInv, Timing
<1>4. ~nmi
  BY <1>1 DEF IInv, Fresh
<1>5. vblanks = 0 /\ vblanks' = 1
  BY <1>4 DEF IInv, Pictures, nmi_callback
<1>6. nmi' = TRUE /\ owed' = 1 /\ strayed' = FALSE /\ phase' = "dots"
      /\ running' = running /\ quit' = quit
  BY DEF nmi_callback, loop
<1>7. Pictures'
  BY <1>5, <1>6 DEF IInv, Pictures
<1>8. Timing' /\ (PPU!Pos)' = PPU!VBlankDot + 1 /\ Ahead' <= PPU!VBlankDot + 21
  BY <1>1, <1>3, <1>6 DEF Timing, Ahead
<1>9. Fresh' /\ InTime'
  BY <1>2, <1>8 DEF Fresh, InTime, Ahead
<1>10. HandlerOncePerVBlank' /\ strayed' \in BOOLEAN
  BY <1>2, <1>6, Zenon DEF HandlerOncePerVBlank
<1>11. QED
  BY <1>1, <1>2, <1>5, <1>7, <1>8, <1>9, <1>10 DEF IInv, Parts

\* Every other dot moves the PPU one dot nearer to where the run() will end.
LEMMA DotIInv ==
  ASSUME IInv, phase = "dots", todo > 0,
         PPU!vblank_end \/ PPU!begin_frame \/ PPU!lcycle,
         UNCHANGED <<cpu, nmi, history>>, todo' = todo - 1, UNCHANGED <<due, loop>>
  PROVE  IInv'
<1> USE Dots
<1>1. /\ PPUP!IInv'
      /\ \/ (PPU!Pos)' = PPU!Pos + 1
         \/ PPU!Pos = PPU!FrameDots - 1 /\ (PPU!Pos)' \in Nat
  BY OtherDots DEF IInv, Parts
<1>2. PPU!Pos \in Nat /\ todo \in 1 .. 39 /\ due \in 0 .. 13
  BY PosNat DEF IInv, Parts, Timing
<1>3. CPUInv'
  <2>1. UNCHANGED cpu
    BY DEF cpu, cpu
  <2>2. QED
    BY <2>1, CPUNextInv, Assumptions DEF IInv, Parts
<1>4. UNCHANGED <<nmi, phase, running, quit, vblanks, owed, strayed, vec, nmipending, execnmi, due>>
  BY DEF cpu, history, loop
<1>5. Pictures' /\ HandlerOncePerVBlank' /\ strayed' \in BOOLEAN
  BY <1>4 DEF IInv, Pictures, HandlerOncePerVBlank
<1>6. Timing'
  BY <1>1, <1>2, <1>4 DEF IInv, Timing
<1>7. ASSUME PPU!VBlankDot < PPU!Pos, Ahead <= PPU!VBlankDot + 42
      PROVE  PPU!VBlankDot < (PPU!Pos)' /\ Ahead' = Ahead
  <2>1. PPU!Pos # PPU!FrameDots - 1
    BY <1>2, <1>7 DEF Ahead
  <2>2. QED
    BY <1>1, <1>2, <1>7, <2>1 DEF Ahead
<1>8. Ahead \in Int
  BY <1>2 DEF Ahead
<1>9. Fresh'
  <2> SUFFICES ASSUME nmi
               PROVE  vec = NO_VEC /\ PPU!VBlankDot < (PPU!Pos)' /\ Ahead' <= PPU!VBlankDot + 21
    BY <1>4 DEF Fresh
  <2>1. vec = NO_VEC /\ PPU!VBlankDot < PPU!Pos /\ Ahead <= PPU!VBlankDot + 21
    BY DEF IInv, Fresh
  <2>2. QED
    BY <1>7, <1>8, <2>1
<1>10. InTime'
  <2> SUFFICES ASSUME nmipending, ~strayed
               PROVE  /\ PPU!VBlankDot < (PPU!Pos)' /\ Ahead' <= PPU!VBlankDot + 42
                      /\ ~execnmi => Ahead' <= PPU!VBlankDot + 21
    BY <1>4 DEF InTime
  <2>1. /\ PPU!VBlankDot < PPU!Pos /\ Ahead <= PPU!VBlankDot + 42
        /\ ~execnmi => Ahead <= PPU!VBlankDot + 21
    BY DEF IInv, InTime
  <2>2. QED
    BY <1>7, <1>8, <2>1
<1>11. QED
  BY <1>1, <1>3, <1>5, <1>6, <1>9, <1>10 DEF IInv, Parts

\* Steps of the main loop leave CPU and PPU alone.
LEMMA LoopIInv ==
  ASSUME IInv, run_end \/ poll \/ frame_end \/ draw \/ UNCHANGED vars
  PROVE  IInv'
<1>1. UNCHANGED <<cpu, ppu, todo, owed, strayed>>
  BY DEF run_end, poll, frame_end, draw, emu, history, vars
<1>2. Parts' /\ (PPU!Pos)' = PPU!Pos /\ Ahead' = Ahead
  <2>1. UNCHANGED cpu /\ UNCHANGED PPUP!vars
    BY <1>1 DEF cpu, ppu, cpu, PPUP!vars, PPUP!counters, PPUP!sprites, PPUP!history
  <2>2. Parts'
    BY <2>1, CPUNextInv, PPUP!NextIInv, Assumptions DEF IInv, Parts
  <2>3. QED
    BY <1>1, <2>2 DEF ppu, PPU!Pos, Ahead
<1>3. HandlerOncePerVBlank' /\ strayed' \in BOOLEAN /\ InTime'
  BY <1>1, <1>2 DEF cpu, IInv, HandlerOncePerVBlank, InTime
<1>4. Timing'
  BY <1>1, <1>2 DEF IInv, Timing, run_end, poll, frame_end, draw,
                        vars, emu, loop
<1>5. Pictures'
  <2>1. CASE run_end
    BY <2>1 DEF IInv, Pictures, run_end, history
  <2>2. CASE poll
    <3>1. running' \in BOOLEAN /\ phase' \in {"draw", "frame"} /\ (phase' = "draw" => quit)
      BY <2>2 DEF poll
    <3>2. UNCHANGED <<nmi, quit, vblanks>> /\ phase = "poll"
      BY <2>2 DEF poll, emu, history
    <3>3. QED
      BY <3>1, <3>2 DEF IInv, Pictures
  <2>3. CASE frame_end
    BY <2>3, Zenon DEF IInv, Pictures, frame_end, history
  <2>4. CASE draw
    BY <2>4 DEF IInv, Pictures, draw, emu
  <2>5. CASE UNCHANGED vars
    BY <2>5 DEF IInv, Pictures, vars, emu, loop, history
  <2>6. QED
    BY <2>1, <2>2, <2>3, <2>4, <2>5
<1>6. Fresh'
  BY <1>1, <1>2, Zenon DEF cpu, IInv, Fresh, Pictures, run_end, poll, frame_end, draw, vars, emu, loop
<1>7. QED
  BY <1>2, <1>3, <1>4, <1>5, <1>6 DEF IInv

\* Every step of the emulator preserves IInv.
LEMMA NextIInv == IInv /\ [Next]_vars => IInv'
<1> SUFFICES ASSUME IInv, [Next]_vars PROVE IInv'
  OBVIOUS
<1>1. CASE cpu_run
  BY <1>1, CpuRunIInv
<1>2. CASE ppu_run
  BY <1>2, VBlankIInv, DotIInv DEF ppu_run
<1>3. CASE run_end \/ poll \/ frame_end \/ draw \/ exited \/ UNCHANGED vars
  BY <1>3, LoopIInv DEF exited
<1>4. QED
  BY <1>1, <1>2, <1>3 DEF Next

\* IInv is an invariant of the emulator under the main loop.
THEOREM Invariance == Spec => []IInv
  BY InitIInv, NextIInv, PTL DEF Spec

-------------------------------------------------------------------------------

\* Emulator::run() never has more than 39 dots to run, whatever the CPU executes.
THEOREM TypeCorrect == Spec => []TypeOK
<1>1. IInv => TypeOK
  <2> SUFFICES ASSUME IInv PROVE TypeOK
    OBVIOUS
  <2>1. CPUTypeOK
    BY DEF IInv, Parts, CPUInv, CPUTypeOK
  <2>2. PPU!TypeOK
    <3>1. PPUP!TypeOK
      BY PPUP!InvTypeOK, Assumptions DEF IInv, Parts
    <3>2. QED
      BY <3>1 DEF PPUP!TypeOK, PPU!TypeOK, PPUP!FrameDots, PPU!FrameDots
  <2>3. owed \in Int /\ vblanks \in Nat
    BY DEF IInv, HandlerOncePerVBlank, Pictures
  <2>4. QED
    BY <2>1, <2>2, <2>3 DEF IInv, Pictures, Timing, TypeOK
<1>2. QED
  BY <1>1, Invariance, PTL

\* The NMI handler is entered once for every v-blank that the PPU reports.
THEOREM OneHandler == Spec => []HandlerOncePerVBlank
<1>1. IInv => HandlerOncePerVBlank
  BY DEF IInv
<1>2. QED
  BY <1>1, Invariance, PTL

\* run_frame() draws a picture per v-blank, although run() goes on after the dot that
\* sets Emulator::nmi.
THEOREM OnePicture == Spec => []OneVBlankPerPicture
<1>1. IInv => OneVBlankPerPicture
  BY DEF IInv, Pictures, OneVBlankPerPicture
<1>2. QED
  BY <1>1, Invariance, PTL

\* The handler is entered at most 42 dots after the dot that starts v-blank, and before
\* the one that ends it, unless the program has run into unknown opcodes.
THEOREM HandlerInTime == Spec => HandlerInVBlank
<1> DEFINE Entered == vec' = NMI_VEC /\ phase = "frame" /\ ~strayed
                        => PPU!VBlankDot < PPU!Pos /\ PPU!Pos <= PPU!PreRenderDot
<1>1. IInv /\ [Next]_vars => [Entered]_vars
  <2> SUFFICES ASSUME IInv, Next, vec' = NMI_VEC, phase = "frame", ~strayed
               PROVE  PPU!VBlankDot < PPU!Pos /\ PPU!Pos <= PPU!PreRenderDot
    OBVIOUS
  <2>1. CASE cpu_run
    <3>1. nmipending
      BY <2>1, CpuRuns DEF cpu_run, IInv, Parts
    <3>2. todo = 0 /\ PPU!VBlankDot < PPU!Pos /\ PPU!Pos + todo <= PPU!VBlankDot + 42
      BY <3>1 DEF IInv, InTime, Ahead, Timing
    <3>3. PPU!Pos \in Nat
      BY PosNat DEF IInv, Parts
    <3>4. QED
      BY <3>2, <3>3, Dots
  <2>2. CASE frame_end
    <3>1. vec' = NO_VEC
      BY <2>2 DEF frame_end, IInv, Fresh, cpu
    <3>2. QED
      BY <3>1, VectorsDistinct
  <2>3. QED
    BY <2>1, <2>2 DEF Next, ppu_run, run_end, poll, draw, exited
<1>2. QED
  BY <1>1, Invariance, PTL DEF Spec, HandlerInVBlank

\* What FrameLoop allows the main loop to do, its fairness aside.
LoopSafety == Loop!Init /\ [][Loop!Next]_(Loop!vars)

\* mainloop() over CPU and PPU does what FrameLoop says, in its order: it polls, renders up
\* to one v-blank, draws, and goes on unless the user has quit.
THEOREM RefinesLoop == Spec => LoopSafety
<1>1. Init => Loop!Init
  BY DEF Init, Loop!Init
<1>2. IInv /\ [Next]_vars => [Loop!Next]_(Loop!vars)
  <2> SUFFICES ASSUME IInv, [Next]_vars PROVE [Loop!Next]_(Loop!vars)
    OBVIOUS
  <2> USE DEF Loop!Next, Loop!vars
  <2>1. CASE cpu_run
    BY <2>1, Zenon DEF cpu_run, Loop!Quit, IInv, Pictures
  <2>2. CASE ppu_run
    BY <2>2, VBlankIInv DEF ppu_run, loop, history, Loop!VBlank
  <2>3. CASE run_end
    BY <2>3 DEF run_end, history
  <2>4. CASE poll
    BY <2>4, Zenon DEF poll, history, Loop!Poll, IInv, Pictures
  <2>5. CASE frame_end
    BY <2>5 DEF frame_end, history, Loop!FrameDone, IInv, Pictures
  <2>6. CASE draw
    BY <2>6 DEF draw, Loop!Draw
  <2>7. CASE exited \/ UNCHANGED vars
    BY <2>7 DEF exited, vars, loop, history
  <2>8. QED
    BY <2>1, <2>2, <2>3, <2>4, <2>5, <2>6, <2>7 DEF Next
<1>3. QED
  BY <1>1, <1>2, Invariance, PTL DEF Spec, LoopSafety

-------------------------------------------------------------------------------
(* The arithmetic of Emulator::run() *)

(***************************************************************************)
(* Emulator::run() keeps the PPU in step with the CPU for every range of   *)
(* int and of unsigned long.                                               *)
(*                                                                         *)
(* Between two calls, cycle is the conversion of what r.cycles was some    *)
(* few cycles ago: none, or the six of power() before the first call.      *)
(* Congruence modulo the range of int carries that through both wraps.     *)
(***************************************************************************)

\* What % and \div compute from a number given as a quotient and a remainder.
LEMMA DivMod ==
  ASSUME NEW m \in Nat, m > 0, NEW q \in Int, NEW r \in 0 .. m - 1,
         NEW n \in Int, n = m * q + r
  PROVE  n % m = r /\ n \div m = q
<1>1. PICK p \in Int, s \in 0 .. m - 1 : n = m * p + s /\ p = n \div m /\ s = n % m
  OBVIOUS
<1>2. m * (q - p) = s - r /\ m * (q - p) < m /\ -m < m * (q - p)
  BY <1>1
<1>3. /\ q - p >= 1 => m * (q - p) >= m
      /\ q - p <= -1 => m * (q - p) <= -m
  OBVIOUS
<1>4. q = p
  BY <1>2, <1>3
<1>5. QED
  BY <1>1, <1>4

\* Conversion to int only adds or takes away whole ranges, and lands in int.
LEMMA ToIntCongruent ==
  ASSUME NEW n \in Int
  PROVE  /\ ToInt(n) \in -HALF .. HALF - 1
         /\ \E k \in Int : ToInt(n) = n + INT_RANGE * k
<1> USE RangeAssumption
<1>1. INT_RANGE \in Nat /\ INT_RANGE > 0 /\ INT_RANGE = 2 * HALF
  BY DEF INT_RANGE
<1>2. n % INT_RANGE \in 0 .. INT_RANGE - 1 /\ n \div INT_RANGE \in Int
      /\ n = INT_RANGE * (n \div INT_RANGE) + (n % INT_RANGE)
  BY <1>1
<1>3. PICK q \in Int, r \in 0 .. INT_RANGE - 1 :
        n = INT_RANGE * q + r /\ r = n % INT_RANGE
  BY <1>2
<1>4. CASE r < HALF
  <2>1. ToInt(n) = n + INT_RANGE * (-q) /\ ToInt(n) = r /\ -q \in Int
    BY <1>1, <1>3, <1>4 DEF ToInt
  <2>2. ToInt(n) \in -HALF .. HALF - 1
    BY <1>4, <2>1
  <2>3. QED
    BY <2>1, <2>2
<1>5. CASE ~(r < HALF)
  <2>1. ToInt(n) = n + INT_RANGE * (-q - 1) /\ ToInt(n) = r - INT_RANGE
    BY <1>1, <1>3, <1>5 DEF ToInt
  <2>2. ToInt(n) \in -HALF .. HALF - 1
    BY <1>1, <1>5, <2>1
  <2>3. -q - 1 \in Int
    OBVIOUS
  <2>4. QED
    BY <2>1, <2>2, <2>3
<1>6. QED
  BY <1>4, <1>5

\* A small number survives any number of wraps.
LEMMA ToIntSmall ==
  ASSUME NEW d \in 0 .. HALF - 1, NEW k \in Int,
         NEW n \in Int, n = d + INT_RANGE * k
  PROVE  ToInt(n) = d
<1> USE RangeAssumption
<1>1. INT_RANGE \in Nat /\ INT_RANGE > 0 /\ d \in 0 .. INT_RANGE - 1 /\ d < HALF
  BY DEF INT_RANGE
<1>2. n = INT_RANGE * k + d
  BY <1>1
<1>3. \A m \in Nat : m > 0 /\ d \in 0 .. m - 1 /\ n = m * k + d => n % m = d
  BY DivMod
<1>4. n % INT_RANGE = d
  BY <1>1, <1>2, <1>3
<1>5. QED
  BY <1>1, <1>4 DEF ToInt

\* The difference that run() computes is the true one: the d cycles that cycle was
\* behind and the n that the CPU has run since.
LEMMA DifferenceSurvivesWrap ==
  ASSUME NEW a \in Nat, NEW n \in CpuCycles,
         NEW d \in 0 .. PowerCycles, NEW b \in Nat, b = (a + n) % LONG_RANGE
  PROVE  ToInt(ToInt(b) - ToInt(a - d)) = n + d
<1> USE RangeAssumption DEF CpuCycles, PowerCycles
<1>1. INT_RANGE \in Nat /\ INT_RANGE > 0 /\ LONG_RANGE \in Nat /\ LONG_RANGE > 0
  BY DEF INT_RANGE, LONG_RANGE
<1>2. PICK q \in Int : a + n = LONG_RANGE * q + b
  <2>1. a + n \in Int
    OBVIOUS
  <2>2. (a + n) \div LONG_RANGE \in Int
        /\ a + n = LONG_RANGE * ((a + n) \div LONG_RANGE) + ((a + n) % LONG_RANGE)
    BY <1>1, <2>1
  <2>3. QED
    BY <2>2
<1>3. LONG_RANGE * q = INT_RANGE * (WIDER * q) /\ WIDER * q \in Int
  BY <1>1 DEF LONG_RANGE
<1>4. PICK j \in Int : ToInt(b) = b + INT_RANGE * j
  BY ToIntCongruent
<1>5. PICK k \in Int : ToInt(a - d) = (a - d) + INT_RANGE * k
  BY ToIntCongruent
<1>6. PICK w \in Int : w = WIDER * q /\ a + n = INT_RANGE * w + b
  BY <1>2, <1>3
<1>7. INT_RANGE * (j - k - w) = INT_RANGE * j - INT_RANGE * k - INT_RANGE * w
  BY <1>1
<1>8. ToInt(b) - ToInt(a - d) = (n + d) + INT_RANGE * (j - k - w)
  BY <1>1, <1>4, <1>5, <1>6, <1>7
<1>9. n + d \in 0 .. HALF - 1 /\ ToInt(b) - ToInt(a - d) \in Int
  BY ToIntCongruent
<1>10. QED
  BY <1>8, <1>9, ToIntSmall

\* The number of iterations is not wrapped.
LEMMA DotsOfCycles ==
  ASSUME NEW c \in 0 .. 13
  PROVE  ToInt(c * 3) = c * 3
<1>1. c * 3 \in 0 .. HALF - 1 /\ c * 3 = c * 3 + INT_RANGE * 0
  BY RangeAssumption DEF INT_RANGE
<1>2. QED
  BY <1>1, ToIntSmall

-------------------------------------------------------------------------------

\* Outside of run(), cycle converts what r.cycles was when the PPU was in step.
PacingIdle ==
    pc = "idle" =>
        /\ lag \in {0, 3 * PowerCycles} /\ (ran => lag = 0)
        /\ \E d \in 0 .. PowerCycles : lag = 3 * d /\ cycle = ToInt(rcycles - d)

\* In the loop of run(), the PPU lags by the iterations that are left.
PacingInLoop ==
    pc = "loop" =>
        /\ curr_cycle = ToInt(rcycles)
        /\ i <= 3 * cycle_diff
        /\ lag = 3 * cycle_diff - i

PacingInv == PacingTypeOK /\ PacingIdle /\ PacingInLoop

\* PacingInv holds after power().
LEMMA PacingInitInv == PacingInit => PacingInv
<1> SUFFICES ASSUME PacingInit PROVE PacingInv
  OBVIOUS
<1> USE RangeAssumption DEF PacingInit, PowerCycles
<1>1. 6 <= LONG_RANGE - 1 /\ LONG_RANGE \in Nat
  <2>1. INT_RANGE \in Nat /\ INT_RANGE >= 80
    BY DEF INT_RANGE
  <2>2. INT_RANGE * WIDER >= INT_RANGE /\ INT_RANGE * WIDER \in Nat
    BY <2>1
  <2>3. QED
    BY <2>1, <2>2 DEF LONG_RANGE
<1>2. PacingTypeOK
  <2>1. rcycles \in 0 .. LONG_RANGE - 1
    BY <1>1
  <2>2. cycle \in -HALF .. HALF - 1 /\ curr_cycle \in -HALF .. HALF - 1
    OBVIOUS
  <2>3. cycle_diff \in 0 .. 13 /\ i \in 0 .. 39 /\ lag \in Int
    OBVIOUS
  <2>4. QED
    BY <2>1, <2>2, <2>3, Zenon DEF PacingTypeOK
<1>3. ToInt(0) = 0
  BY ToIntSmall DEF INT_RANGE
<1>4. PacingIdle
  BY <1>3 DEF PacingIdle
<1>5. QED
  BY <1>2, <1>4 DEF PacingInv, PacingInLoop

\* Every step of run() preserves PacingInv.
LEMMA PacingNextInv == PacingInv /\ [PacingNext]_pacing => PacingInv'
<1> SUFFICES ASSUME PacingInv, [PacingNext]_pacing PROVE PacingInv'
  OBVIOUS
<1> USE RangeAssumption
<1>1. LONG_RANGE \in Nat /\ LONG_RANGE > 0
  BY DEF LONG_RANGE, INT_RANGE
<1>2. ASSUME NEW n \in CpuCycles, run_begin(n) PROVE PacingInv'
  <2>1. PICK d \in 0 .. PowerCycles : lag = 3 * d /\ cycle = ToInt(rcycles - d)
    BY <1>2 DEF PacingInv, PacingIdle, run_begin
  <2>2. rcycles \in Nat /\ rcycles' \in 0 .. LONG_RANGE - 1
        /\ rcycles' = (rcycles + n) % LONG_RANGE
    BY <1>1, <1>2 DEF PacingInv, PacingTypeOK, run_begin, CpuCycles
  <2>3. cycle_diff' = n + d
    BY <1>2, <2>1, <2>2, DifferenceSurvivesWrap DEF run_begin
  <2>4. curr_cycle' = ToInt(rcycles') /\ curr_cycle' \in -HALF .. HALF - 1
    BY <1>2, <2>2, ToIntCongruent DEF run_begin
  <2>5. PacingTypeOK'
    BY <1>2, <2>1, <2>2, <2>3, <2>4 DEF PacingInv, PacingTypeOK, run_begin, CpuCycles,
                                         PowerCycles
  <2>6. PacingInLoop'
    BY <1>2, <2>1, <2>3, <2>4 DEF PacingInLoop, run_begin, CpuCycles, PowerCycles
  <2>7. PacingIdle'
    BY <1>2 DEF PacingIdle, run_begin
  <2>8. QED
    BY <2>5, <2>6, <2>7 DEF PacingInv
<1>3. CASE run_dot
  <2>1. i < cycle_diff * 3
    BY <1>3, DotsOfCycles DEF PacingInv, PacingTypeOK, run_dot
  <2>2. QED
    BY <1>3, <2>1 DEF PacingInv, PacingTypeOK, PacingInLoop, PacingIdle, run_dot
<1>4. CASE run_return
  <2>1. ~(i < cycle_diff * 3)
    BY <1>4, DotsOfCycles DEF PacingInv, PacingTypeOK, run_return
  <2>2. lag = 0 /\ curr_cycle = ToInt(rcycles - 0)
    BY <1>4, <2>1 DEF PacingInv, PacingTypeOK, PacingInLoop, run_return
  <2>3. lag' = 0 /\ cycle' = ToInt(rcycles' - 0)
    BY <1>4, <2>2 DEF run_return
  <2>4. PacingIdle'
    BY <2>3 DEF PacingIdle, PowerCycles
  <2>5. PacingTypeOK' /\ PacingInLoop'
    BY <1>4 DEF PacingInv, PacingTypeOK, PacingInLoop, run_return
  <2>6. QED
    BY <2>4, <2>5 DEF PacingInv
<1>5. CASE UNCHANGED pacing
  BY <1>5 DEF PacingInv, PacingTypeOK, PacingIdle, PacingInLoop, pacing
<1>6. QED
  BY <1>2, <1>3, <1>4, <1>5 DEF PacingNext

\* The strengthened invariant holds in every reachable state.
THEOREM PacingInvariance == PacingSpec => []PacingInv
BY PacingInitInv, PacingNextInv, PTL DEF PacingSpec

\* No counter of Emulator::run() leaves its type's range.
THEOREM PacingTypeCorrect == PacingSpec => []PacingTypeOK
<1>1. PacingInv => PacingTypeOK
  BY DEF PacingInv
<1>2. QED
  BY <1>1, PacingInvariance, PTL

\* Emulator::run() runs three dots per CPU cycle for ever, whatever the ranges of int
\* and unsigned long.
THEOREM AlwaysInStep == PacingSpec => []InStep
<1>1. PacingInv => InStep
  BY DEF PacingInv, PacingTypeOK, PacingIdle, PacingInLoop, InStep, PowerCycles
<1>2. QED
  BY <1>1, PacingInvariance, PTL
===============================================================================

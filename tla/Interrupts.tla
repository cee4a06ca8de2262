------------------------------ MODULE Interrupts ------------------------------
(***************************************************************************)
(* Interrupt control of Core::CPU: the pending and the exec flags, who sets *)
(* them, when an instruction polls them, which vector interrupt() takes,   *)
(* and how many cycles each step adds to r.cycles.                         *)
(*                                                                         *)
(* One step is one whole call of CPU::run(), power(), reset(), fire_nmi()  *)
(* or fire_irq().  Nothing fires a signal in the middle of run(): the PPU  *)
(* runs only after CPU::run() has returned, and no register write raises   *)
(* an interrupt.  Registers, operands and memory are abstracted away: what *)
(* PLP and RTI pull from the stack is any byte.                            *)
(***************************************************************************)
EXTENDS Naturals

CONSTANTS
    NMI_VEC,        \* address of each vector, as in const.hpp
    RESET_VEC,
    IRQ_BRK_VEC,
    NO_VEC          \* the step called no interrupt()

ASSUME VectorsDistinct ==
    /\ NMI_VEC # RESET_VEC /\ NMI_VEC # IRQ_BRK_VEC /\ RESET_VEC # IRQ_BRK_VEC
    /\ NO_VEC \notin {NMI_VEC, RESET_VEC, IRQ_BRK_VEC}

VARIABLES
    nmipending, irqpending, resetpending,   \* signals raised and not yet served
    execnmi, execirq,                       \* what the last poll decided
    intdis, breakf,                         \* r.flags.intdis, r.flags.breakf
    elapsed,        \* what the step added to r.cycles
    vec,            \* history: the vector taken by the step, or NO_VEC
    cause,          \* history: who called interrupt() in the step, or "none"
    pushedB         \* history: breakf in the flags byte interrupt() last pushed

cpu == <<nmipending, irqpending, resetpending, execnmi, execirq,
         intdis, breakf, elapsed, vec, cause, pushedB>>

Causes == {"reset", "nmi", "irq", "brk"}

\* The state a CPU object is constructed in.
CPUInit ==
    /\ nmipending = FALSE /\ irqpending = FALSE /\ resetpending = FALSE
    /\ execnmi = FALSE /\ execirq = FALSE
    /\ intdis = FALSE /\ breakf = FALSE
    /\ elapsed = 0
    /\ vec = NO_VEC /\ cause = "none" /\ pushedB = FALSE

-------------------------------------------------------------------------------

\* Faulty variant: interrupt() takes the NMI vector and clears irqpending as well.
interrupt_clears_irq(c, rst, b) ==
    /\ vec' = IF rst THEN RESET_VEC
              ELSE IF nmipending THEN NMI_VEC ELSE IRQ_BRK_VEC
    /\ resetpending' = FALSE
    /\ nmipending' = (nmipending /\ rst)
    /\ irqpending' = (irqpending /\ rst)
    /\ intdis' = TRUE
    /\ breakf' = FALSE
    /\ pushedB' = b
    /\ cause' = c

(***************************************************************************)
(* interrupt(): pushes pc and flags, masks IRQs, and serves exactly one    *)
(* signal: reset before nmi before irq; BRK when none is pending.  It is   *)
(* called with resetpending holding rst and breakf holding b.              *)
(***************************************************************************)
interrupt(c, rst, b) ==
    /\ vec' = IF rst THEN RESET_VEC
              ELSE IF nmipending THEN NMI_VEC ELSE IRQ_BRK_VEC
    /\ resetpending' = FALSE
    /\ nmipending' = (nmipending /\ rst)
    /\ irqpending' = (irqpending /\ (rst \/ nmipending))
    /\ intdis' = TRUE
    /\ breakf' = FALSE
    /\ pushedB' = b
    /\ cause' = c

\* Cycles of interrupt(): a discarded read, three pushes, two vector reads.
InterruptCycles == 6

\* The step calls no interrupt().
NoInterrupt ==
    /\ vec' = NO_VEC /\ cause' = "none"
    /\ UNCHANGED <<resetpending, pushedB>>

\* Faulty variant: a pending IRQ keeps the NMI from being polled.
nmipoll_not_with_irq == execnmi' = (execnmi \/ (nmipending /\ ~irqpending))

nmipoll == execnmi' = (execnmi \/ nmipending)

\* The interrupt disable flag holds i when irqpoll() looks at it.
irqpoll(i) == execirq' = (execirq \/ (~i /\ irqpending))

last_cycle(i) == nmipoll /\ irqpoll(i)

-------------------------------------------------------------------------------

power ==
    /\ interrupt("reset", TRUE, FALSE)
    /\ elapsed' = InterruptCycles
    /\ UNCHANGED <<execnmi, execirq>>

reset ==
    /\ interrupt("reset", TRUE, breakf)
    /\ elapsed' = InterruptCycles
    /\ UNCHANGED <<execnmi, execirq>>

fire_nmi ==
    /\ NoInterrupt
    /\ nmipending' = TRUE
    /\ elapsed' = 0
    /\ UNCHANGED <<irqpending, execnmi, execirq, intdis, breakf>>

fire_irq ==
    /\ NoInterrupt
    /\ irqpending' = TRUE
    /\ elapsed' = 0
    /\ UNCHANGED <<nmipending, execnmi, execirq, intdis, breakf>>

-------------------------------------------------------------------------------
(* CPU::run() *)

\* Faulty variant: run() does not take back execnmi after the interrupt.
run_nmi_keeps_exec ==
    /\ execnmi
    /\ interrupt("nmi", resetpending, breakf)
    /\ elapsed' = 1 + InterruptCycles
    /\ UNCHANGED <<execnmi, execirq>>

run_nmi ==
    /\ execnmi
    /\ interrupt("nmi", resetpending, breakf)
    /\ elapsed' = 1 + InterruptCycles
    /\ execnmi' = FALSE
    /\ UNCHANGED execirq

run_irq ==
    /\ ~execnmi /\ execirq
    /\ interrupt("irq", resetpending, breakf)
    /\ elapsed' = 1 + InterruptCycles
    /\ execirq' = FALSE
    /\ UNCHANGED execnmi

\* run() fetches and executes an instruction, of n cycles with the opcode fetch.
Executes(n) ==
    /\ ~execnmi /\ ~execirq
    /\ elapsed' = n

\* An instruction that leaves the signals alone and polls with intdis holding i.
PollsWith(i, n) ==
    /\ Executes(n)
    /\ NoInterrupt
    /\ last_cycle(i)
    /\ UNCHANGED <<nmipending, irqpending>>

\* Most instructions poll and leave intdis and breakf as they were.
Plain(n) == PollsWith(intdis, n) /\ UNCHANGED <<intdis, breakf>>

\* Faulty variant: a modify mode of eight cycles, as an indexed indirect one would
\* be; the opcode table has none.
addrmode_modify_indirect == \E n \in {2, 5, 6, 7, 8} : Plain(n)

addrmode_read   == \E n \in 2 .. 6 : Plain(n)
addrmode_modify == \E n \in {2, 5, 6, 7} : Plain(n)
addrmode_write  == \E n \in 3 .. 6 : Plain(n)
instr_branch    == \E n \in 2 .. 4 : Plain(n)
instr_implied   == Plain(2)
instr_stack     == \E n \in {3, 4} : Plain(n)      \* PHA, PLA
instr_jump      == \E n \in {3, 5, 6} : Plain(n)   \* JMP, JMP (ind), JSR, RTS

\* PHP sets the break flag for the byte it pushes and resets it after.
instr_php ==
    /\ PollsWith(intdis, 3)
    /\ breakf' = FALSE
    /\ UNCHANGED intdis

\* CLI and SEI: instr_flag() polls before it writes the flag.
instr_flag(v) ==
    /\ PollsWith(intdis, 2)
    /\ intdis' = v
    /\ UNCHANGED breakf

\* Faulty variant: PLP does not reset the break flag it has pulled.
instr_plp_keeps_break(v) ==
    /\ PollsWith(intdis, 4)
    /\ intdis' = v
    /\ breakf' \in BOOLEAN

\* PLP polls before it pulls.
instr_plp(v) ==
    /\ PollsWith(intdis, 4)
    /\ intdis' = v
    /\ breakf' = FALSE

\* RTI polls after it has pulled the flags.
instr_rti(v) ==
    /\ PollsWith(v, 6)
    /\ intdis' = v
    /\ breakf' = FALSE

\* BRK calls interrupt() itself and does not poll.
instr_brk ==
    /\ Executes(1 + InterruptCycles)
    /\ interrupt("brk", resetpending, TRUE)
    /\ UNCHANGED <<execnmi, execirq>>

\* The default branch of execute(): the opcode fetch and nothing else.
instr_unknown ==
    /\ Executes(1)
    /\ NoInterrupt
    /\ UNCHANGED <<nmipending, irqpending, execnmi, execirq, intdis, breakf>>

\* The instructions that call last_cycle().
execute_polling ==
    \/ addrmode_read \/ addrmode_modify \/ addrmode_write
    \/ instr_branch \/ instr_implied \/ instr_stack \/ instr_jump \/ instr_php
    \/ \E v \in BOOLEAN : instr_flag(v) \/ instr_plp(v) \/ instr_rti(v)

execute == execute_polling \/ instr_brk \/ instr_unknown

run == run_nmi \/ run_irq \/ execute

CPUNext == power \/ reset \/ fire_nmi \/ fire_irq \/ run

CPUSpec == CPUInit /\ [][CPUNext]_cpu

(***************************************************************************)
(* The emulator calls run() for ever.  Which program runs is not up to the *)
(* emulator: progress of an NMI is stated for programs that do not execute *)
(* nothing but unknown opcodes from some point on.                         *)
(***************************************************************************)
Fairness == WF_cpu(run) /\ SF_cpu(execute_polling)

FairSpec == CPUSpec /\ Fairness

-------------------------------------------------------------------------------

\* Every flag is a boolean, a step takes at most seven cycles, and the history
\* names a real cause.
CPUTypeOK ==
    /\ nmipending \in BOOLEAN /\ irqpending \in BOOLEAN /\ resetpending \in BOOLEAN
    /\ execnmi \in BOOLEAN /\ execirq \in BOOLEAN
    /\ intdis \in BOOLEAN /\ breakf \in BOOLEAN
    /\ elapsed \in 0 .. 7
    /\ vec \in {NMI_VEC, RESET_VEC, IRQ_BRK_VEC, NO_VEC}
    /\ cause \in Causes \cup {"none"}
    /\ pushedB \in BOOLEAN

\* An accepted interrupt still has its signal when run() comes to take it:
\* neither hijacking, BRK nor a reset in between may serve the signal and leave
\* execnmi or execirq behind, which would enter a handler nobody asked for.
NoSpuriousInterrupt ==
    /\ execnmi => nmipending
    /\ execirq => irqpending

\* The flags byte an interrupt pushes has the break flag set exactly when BRK
\* caused it, whatever PHP, PLP, RTI and earlier interrupts did to the flag: a
\* handler tells IRQ from BRK by that bit alone.
PushedBreakFlag == cause # "none" => (pushedB <=> cause = "brk")

\* One signal, one service.  Only power() and reset() enter the reset vector.  An NMI
\* signal is taken back by a step that enters the NMI vector and by no other step, and
\* that vector is never entered without one; an IRQ signal is taken back only by a step
\* that enters the IRQ/BRK vector, and an accepted IRQ that is not hijacked takes its own
\* signal back.
ServedOnce ==
    [][ /\ vec' = RESET_VEC <=> cause' = "reset"
        /\ (nmipending /\ ~nmipending') <=> vec' = NMI_VEC
        /\ irqpending /\ ~irqpending' => vec' = IRQ_BRK_VEC
        /\ cause' = "irq" /\ vec' = IRQ_BRK_VEC => irqpending /\ ~irqpending' ]_cpu

\* An NMI, once fired, is vectored, no matter how often the CPU is reset, how IRQs
\* and BRKs interleave with it, or whether IRQs are masked.
NMIServed == nmipending ~> vec = NMI_VEC
===============================================================================

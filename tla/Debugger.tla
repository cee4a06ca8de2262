------------------------------- MODULE Debugger -------------------------------
(***************************************************************************)
(* Core::Debugger and its command line CliDebugger, attached to the CPU of *)
(* Instructions.  The CPU calls fetch_callback() before every access; the  *)
(* callback keeps the backtrace, looks for breakpoints, and stops at       *)
(* nextstop, the address that step, next and runframe leave.  It may bring *)
(* up the prompt in the middle of an instruction.                          *)
(*                                                                         *)
(* cpu is the machine as it was when the call in progress began,           *)
(* and pos counts the accesses of that call that have been reported: what  *)
(* the call does is Call(cpu).  While the prompt is up nothing else runs.  *)
(***************************************************************************)
EXTENDS Instructions

CONSTANTS
    Programs,       \* the ROMs to run: functions from addresses to bytes
    Breaks,         \* breakpoints the user may set: <<mode, start, end>>
    Pokes,          \* memory writes the user may ask for: <<address, byte>>
    MAXBREAKS,      \* bound: breakpoints set at a time
    RUNS            \* bound: calls of the CPU that return

ASSUME DebuggerAssumption ==
    /\ \A rom \in Programs : DOMAIN rom \subseteq Word /\ rom \in [DOMAIN rom -> Byte]
    /\ \A b \in Breaks : b[1] \in {"r", "w", "x"} /\ b[2] \in Word /\ b[3] \in Word
    /\ \A p \in Pokes : p[1] \in Word /\ p[2] \in Byte

VARIABLES
    cpu, pos,
    phase,          \* "run", a prompt ("break" or "fetch"), or "undefined"
    nextstop,       \* an address, or NONE
    breakvec, quit,
    btrace,         \* the instructions of the backtrace, as <<pc, id>>
    runs,           \* calls of the CPU that have ended
    calls,          \* history: addresses of the JSRs that have not returned
    stepped,        \* history: the step in progress, or NOSTEP
    vectored,       \* history: an interrupt was entered while a stop was pending
    patched         \* history: an opcode was overwritten after its fetch was reported

debugger == <<nextstop, breakvec, quit, btrace>>
history == <<calls, stepped, vectored, patched>>
vars == <<cpu, pos, phase, debugger, runs, history>>

NONE == 65536
NOSTEP == [id |-> NO_ID, sp |-> 0, data |-> FALSE]
JSR == \h20
RTS == \h60
RTI == \h40

\* The accesses of the call in progress.
Log == Call(cpu).log
Now == Log[pos]         \* the access being reported

Init ==
    /\ \E rom \in Programs : cpu = PowerOn(rom)
    /\ pos = 0 /\ phase = "run" /\ runs = 0
    /\ nextstop = 0 /\ breakvec = << >> /\ quit = FALSE /\ btrace = << >>
    /\ calls = << >> /\ stepped = NOSTEP /\ vectored = FALSE /\ patched = FALSE

-------------------------------------------------------------------------------
(* fetch_callback() *)

\* std::vector, as the backtrace and the breakpoints use it.
back(v) == v[Len(v)]
pop_back(v) == SubSeq(v, 1, Len(v) - 1)
erase(v, i) == SubSeq(v, 1, i - 1) \o SubSeq(v, i + 1, Len(v))

\* st.instr.id and the pc of an access.
Opcode(a) == Read(a.at, a.at.pc)
IsVector(a) == a.mode = "r" /\ a.addr >= NMI_VEC /\ a.addr % 2 = 0

\* Faulty variant: an RTI removes a call as well.
update_backtrace_rti(a) ==
    btrace' = IF a.mode # "x" THEN btrace
              ELSE IF is_jump(Opcode(a)) THEN Append(btrace, <<a.at.pc, Opcode(a)>>)
              ELSE IF Opcode(a) \in {RTS, RTI} /\ btrace # << >> /\ back(btrace)[2] = JSR
              THEN pop_back(btrace) ELSE btrace

\* Jumps are never removed; an RTS removes a JSR that is on top.
update_backtrace(a) ==
    btrace' = IF a.mode # "x" THEN btrace
              ELSE IF is_jump(Opcode(a)) THEN Append(btrace, <<a.at.pc, Opcode(a)>>)
              ELSE IF Opcode(a) = RTS /\ back(btrace)[2] = JSR THEN pop_back(btrace) ELSE btrace

\* An RTS looks at the back of an empty backtrace.
Undefined(a) == a.mode = "x" /\ Opcode(a) = RTS /\ btrace = << >>

Reached(a) == \E i \in DOMAIN breakvec :
    /\ breakvec[i][1] = a.mode
    /\ breakvec[i][2] <= a.addr /\ a.addr <= breakvec[i][3]

\* Faulty variant: both reads of a vector are looked at, not the first alone.
check_nextstop_twice(a, stop) ==
    IF stop # NONE /\ a.mode = "r" /\ a.addr >= NMI_VEC
    THEN nextstop' = ReadWord(a.at, a.addr) /\ phase' = "run"
    ELSE IF stop # NONE /\ a.mode = "x" /\ a.addr = stop
    THEN nextstop' = NONE /\ phase' = "fetch"
    ELSE nextstop' = stop /\ phase' = "run"

\* The end of fetch_callback(), with nextstop holding stop: the first read of a vector
\* moves the stop to the handler.
check_nextstop(a, stop) ==
    IF stop # NONE /\ IsVector(a)
    THEN nextstop' = ReadWord(a.at, a.addr) /\ phase' = "run"
    ELSE IF stop # NONE /\ a.mode = "x" /\ a.addr = stop
    THEN nextstop' = NONE /\ phase' = "fetch"
    ELSE nextstop' = stop /\ phase' = "run"

\* What the history keeps of an access: an instruction may read a vector as data, or a
\* call of interrupt() may enter a handler.
Remember(a) ==
    /\ stepped' = IF a.mode = "x" \/ stepped = NOSTEP THEN NOSTEP
                  ELSE [stepped EXCEPT !.data = @ \/ (IsVector(a) /\ Call(cpu).cause = "none")]
    /\ vectored' = IF IsVector(a) /\ Call(cpu).cause # "none" THEN nextstop # NONE /\ ~quit
                   ELSE vectored /\ a.mode # "x"
    /\ UNCHANGED <<calls, patched>>

\* The next access of the call, reported to the debugger.
fetch_callback ==
    /\ phase = "run" /\ pos < Len(Log)
    /\ pos' = pos + 1
    /\ LET a == Log[pos + 1] IN
        /\ Remember(a)
        /\ IF quit THEN UNCHANGED <<phase, nextstop, btrace>>
           ELSE IF Undefined(a) THEN phase' = "undefined" /\ UNCHANGED <<nextstop, btrace>>
           ELSE /\ update_backtrace(a)
                /\ IF Reached(a) THEN phase' = "break" /\ UNCHANGED nextstop
                   ELSE check_nextstop(a, nextstop)
    /\ UNCHANGED <<cpu, breakvec, quit, runs>>

-------------------------------------------------------------------------------
(* repl(): the commands that change something *)

Prompt == phase \in {"break", "fetch"}

\* The repl returns, with nextstop holding stop; after a breakpoint the callback goes on.
Leave(stop) ==
    /\ IF phase = "break" THEN check_nextstop(Now, stop)
       ELSE nextstop' = stop /\ phase' = "run"
    /\ vectored' = FALSE
    /\ UNCHANGED <<cpu, pos, runs, breakvec, btrace, calls, patched>>

continue_exec ==
    /\ Prompt
    /\ Leave(NONE)
    /\ stepped' = NOSTEP
    /\ UNCHANGED quit

runframe ==
    /\ Prompt
    /\ Leave(ReadWord(Now.at, NMI_VEC))
    /\ stepped' = NOSTEP
    /\ UNCHANGED quit

\* Faulty variant: a step runs over a jump, as next does.
step_over ==
    /\ Prompt
    /\ Leave((Now.at.pc + num_bytes(Opcode(Now))) % 65536)
    /\ stepped' = IF Now.mode = "x" /\ phase' = "run" /\ ~quit
                  THEN [id |-> Opcode(Now), sp |-> Now.at.sp, data |-> FALSE] ELSE NOSTEP
    /\ UNCHANGED quit

step ==
    /\ Prompt
    /\ Leave(nextaddr(Now.at))
    /\ stepped' = IF Now.mode = "x" /\ phase' = "run" /\ ~quit
                  THEN [id |-> Opcode(Now), sp |-> Now.at.sp, data |-> FALSE] ELSE NOSTEP
    /\ UNCHANGED quit

\* next runs over a jump to the instruction after it.
next ==
    /\ Prompt
    /\ Leave(IF is_jump(Opcode(Now)) THEN (Now.at.pc + num_bytes(Opcode(Now))) % 65536
             ELSE nextaddr(Now.at))
    /\ stepped' = NOSTEP
    /\ UNCHANGED quit

set_quit ==
    /\ Prompt
    /\ Leave(nextstop)
    /\ quit' = TRUE
    /\ stepped' = NOSTEP

\* A breakpoint of one address is refused, as is an empty range.
setbreak(b) ==
    /\ Prompt
    /\ b[3] > b[2] /\ Len(breakvec) < MAXBREAKS
    /\ breakvec' = Append(breakvec, b)
    /\ UNCHANGED <<cpu, pos, phase, nextstop, quit, btrace, runs, history>>

delbreak(i) ==
    /\ Prompt
    /\ i \in DOMAIN breakvec
    /\ breakvec' = erase(breakvec, i)
    /\ UNCHANGED <<cpu, pos, phase, nextstop, quit, btrace, runs, history>>

\* write, at the fetch of an instruction: the fetch was reported before it reads memory,
\* so the instruction that runs may be another than the one the debugger has seen.
write(p) ==
    /\ Prompt /\ Now.mode = "x"
    /\ cpu' = Write(cpu, p[1], p[2])
    /\ patched' = (patched \/ Read(cpu', cpu.pc) # Read(cpu, cpu.pc))
    /\ UNCHANGED <<pos, phase, debugger, runs, calls, stepped, vectored>>

command ==
    \/ continue_exec \/ runframe \/ step \/ next \/ set_quit
    \/ \E b \in Breaks : setbreak(b)
    \/ \E i \in 1 .. MAXBREAKS : delbreak(i)
    \/ \E p \in Pokes : write(p)

-------------------------------------------------------------------------------

\* The calls that are open once the instruction id at pc has run.
Opened(id, pc) ==
    IF id = JSR THEN Append(calls, pc)
    ELSE IF id = RTS /\ calls # << >> THEN pop_back(calls) ELSE calls

\* The call has made its last access and returns.
return ==
    /\ phase = "run" /\ pos = Len(Log) /\ runs < RUNS
    /\ cpu' = [Call(cpu) EXCEPT !.log = << >>]
    /\ pos' = 0 /\ runs' = runs + 1
    /\ calls' = Opened(cpu'.id, cpu.pc)
    /\ UNCHANGED <<phase, debugger, stepped, vectored, patched>>

\* Between two calls the PPU, or another device, signals the CPU.
signal ==
    /\ phase = "run" /\ pos = 0 /\ runs > 0 /\ runs < RUNS
    /\ cpu' \in {fire_nmi(cpu), fire_irq(cpu)}
    /\ UNCHANGED <<pos, phase, debugger, runs, history>>

Next == fetch_callback \/ return \/ signal \/ command

Spec == Init /\ [][Next]_vars

-------------------------------------------------------------------------------

TypeOK ==
    /\ cpu.pc \in Word /\ {cpu.sp, cpu.acc, cpu.x, cpu.y, cpu.low, cpu.high} \subseteq Byte
    /\ \A a \in DOMAIN cpu.ram : a < \h0800 /\ cpu.ram[a] \in Byte
    /\ cpu.f \in [DOMAIN ResetFlags -> BOOLEAN]
    /\ pos \in 0 .. Len(Log)
    /\ phase \in {"run", "break", "fetch", "undefined"}
    /\ nextstop \in Word \/ nextstop = NONE
    /\ quit \in BOOLEAN /\ vectored \in BOOLEAN /\ patched \in BOOLEAN

\* The debugger is told of the fetch of an instruction.
Fetches == pos' = pos + 1 /\ Log[pos + 1].mode = "x"

\* A step typed at an instruction brings the prompt up at the very next instruction the
\* CPU fetches, be it the one after, the target of a branch, a jump or a return, or the
\* first of a handler that an interrupt or a BRK enters in between: nextaddr() and the
\* vector reads that fetch_callback() watches foresee it all.  Not foreseen are RTI, an
\* RTS whose return address wraps around the stack page, and an instruction that reads a
\* vector as data, which the callback takes for an interrupt.
StepStops ==
    [][ Fetches /\ stepped # NOSTEP /\ stepped.id # RTI /\ ~stepped.data
            /\ ~(stepped.id = RTS /\ stepped.sp >= 254)
        => phase' # "run" ]_vars

\* Whatever stop is pending when an interrupt is entered, the user gets to see the first
\* instruction of the handler that runs: the NMI's for runframe, the one that hijacked
\* for a BRK, the inner one when two interrupts follow each other.
StopsInHandler == [][ Fetches /\ vectored => phase' # "run" ]_vars

\* The backtrace lists every call that has not returned, in order, whatever jumps and
\* interrupts came in between and however many returns the jumps have hidden from it.
\* So an RTS that returns from a call the debugger has seen never finds it empty.  Only
\* the user can make it wrong, with a write to the very opcode that is being fetched.
Listed(open) ==
    \E at \in [DOMAIN open -> DOMAIN btrace] :
        /\ \A i \in DOMAIN open : btrace[at[i]] = <<open[i], JSR>>
        /\ \A i, j \in DOMAIN open : i < j => at[i] < at[j]

OpenCallsListed == pos = 0 /\ ~quit /\ ~patched => Listed(calls)

Abstract == INSTANCE Interrupts WITH
    nmipending <- cpu.nmipending, irqpending <- cpu.irqpending, resetpending <- FALSE,
    execnmi <- cpu.execnmi, execirq <- cpu.execirq,
    intdis <- cpu.f.intdis, breakf <- cpu.f.breakf,
    elapsed <- cpu.cycles, vec <- cpu.vec, cause <- cpu.cause, pushedB <- cpu.pushedB

\* The CPU of Instructions implements Interrupts, on which the emulator's proofs rest:
\* every call of power() or run(), for every opcode, is one of its steps; prompts and
\* the accesses in the middle of a call are none.
ImplementsInterrupts == Abstract!CPUSpec

\* clidbg.cpp, line 67: "step, s: step next instruction"; cpu.cpp, line 88, counts on
\* "emulating some risky instructions to find out the next address".  A step typed at an
\* RTI brings the prompt up at the next instruction.
StepLeavesHandler == [][ Fetches /\ stepped.id = RTI => phase' # "run" ]_vars
===============================================================================

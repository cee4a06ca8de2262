---------------------------- MODULE DebuggerProofs ----------------------------
(***************************************************************************)
(* The debugger, for every program, every set of breakpoints and pokes and *)
(* any number of runs.                                                     *)
(*                                                                         *)
(* What the CPU does during a call is CallRuns of InstructionsProofs.      *)
(* Shaped is what the debugger needs of it: an instruction is fetched      *)
(* first, if at all, and the vector of a handler is read last. TInv, the   *)
(* types with the position in the log of the call in progress, is          *)
(* inductive by itself. StopsInHandler is not: VInv adds where the pending *)
(* stop is while a handler is entered, before and after its vector has     *)
(* been reported. Neither is OpenCallsListed, as the backtrace foresees at *)
(* the fetch what the instruction does later: CInv says of which calls the *)
(* backtrace has been told. The refinement of Interrupts needs TInv alone. *)
(***************************************************************************)
EXTENDS Debugger, InstructionsProofs

-------------------------------------------------------------------------------
(* The accesses of a call *)

\* A call that enters a handler ends with the two reads of the vector.
VectorsLast(n) ==
    LET l == Len(n.log)
    IN  /\ l >= 5 /\ \A i \in 1 .. l - 2 : n.log[i].mode # "r"
        /\ IsVector(n.log[l - 1]) /\ n.log[l].mode = "r" /\ ~IsVector(n.log[l])
        /\ ReadWord(n.log[l - 1].at, n.log[l - 1].addr) = n.pc

\* interrupt() makes its two reads of the vector last, after its pushes.
LEMMA EntersLast ==
  ASSUME NEW m \in CPUs, NEW n \in CPUs, EntersBy(m, n),
         \A i \in 1 .. Len(m.log) : m.log[i].mode # "r"
  PROVE  VectorsLast(n)
<1> DEFINE k == Len(m.log)
           l == Len(n.log)
           v == Vector(m)
<1>1. k \in Nat
  BY Fields
<1>2. v \in Nat /\ v >= NMI_VEC /\ v % 2 = 0 /\ (v + 1) % 2 = 1
  BY VectorIs
<1>3. /\ l = k + 5 /\ \A i \in 1 .. k : n.log[i] = m.log[i]
      /\ n.log[k + 1].mode = "w" /\ n.log[k + 2].mode = "w" /\ n.log[k + 3].mode = "w"
      /\ n.log[k + 4].mode = "r" /\ n.log[k + 4].addr = v /\ ReadWord(n.log[k + 4].at, v) = n.pc
      /\ n.log[k + 5].mode = "r" /\ n.log[k + 5].addr = v + 1
  BY DEF EntersBy, Extends
<1>4. \A i \in 1 .. k : n.log[i].mode # "r"
  BY <1>3, Zenon
<1> HIDE DEF k, l, v
<1>5. l >= 5 /\ l - 1 = k + 4 /\ l = k + 5
  BY <1>1, <1>3
<1>6. ASSUME NEW i \in 1 .. l - 2 PROVE n.log[i].mode # "r"
  <2>1. i \in 1 .. k \/ i = k + 1 \/ i = k + 2 \/ i = k + 3
    BY <1>1, <1>5
  <2>2. QED
    BY <1>3, <1>4, <2>1, Zenon
<1>7. IsVector(n.log[l - 1]) /\ ReadWord(n.log[l - 1].at, n.log[l - 1].addr) = n.pc
  BY <1>2, <1>3, <1>5 DEF IsVector
<1>8. n.log[l].mode = "r" /\ ~IsVector(n.log[l])
  BY <1>2, <1>3, <1>5 DEF IsVector
<1>9. QED
  BY <1>5, <1>6, <1>7, <1>8 DEF VectorsLast, l

\* An instruction adds accesses that fetch nothing; if it enters a handler, as BRK does,
\* it ends with the vector.
LEMMA RanShape ==
  ASSUME NEW m \in CPUs, NEW n, Ran(m, n), ~m.resetpending, m.cause = "none",
         \A i \in 1 .. Len(m.log) : m.log[i].mode # "r"
  PROVE  /\ n \in CPUs /\ n.id = m.id /\ ~n.resetpending /\ Extends(m.log, n.log)
         /\ n.cause # "none" => VectorsLast(n)
<1>1. ASSUME NEW k, Runs(m, n, k)
      PROVE  /\ n \in CPUs /\ n.id = m.id /\ ~n.resetpending
             /\ Extends(m.log, n.log) /\ n.cause = "none"
  BY <1>1, Zenon DEF Runs, Rest
<1>2. ASSUME NEW k, NEW i, NEW d, NEW b, Polls(m, n, k, i, d, b)
      PROVE  /\ n \in CPUs /\ n.id = m.id /\ ~n.resetpending
             /\ Extends(m.log, n.log) /\ n.cause = "none"
  BY <1>1, <1>2, Zenon DEF Polls
<1>3. CASE n = m
  BY <1>3, Fields, ExtendsReflexive, Zenon
<1>4. CASE LET b == [m EXCEPT !.f.breakf = TRUE] IN Enters(b, n, "brk") /\ EntersBy(b, n)
  <2> DEFINE b == [m EXCEPT !.f.breakf = TRUE]
  <2>1. b \in CPUs /\ b.log = m.log /\ b.id = m.id
    BY Zenon DEF CPUs, CPUsWith, FlagSets
  <2>2. Enters(b, n, "brk") /\ EntersBy(b, n)
    BY <1>4
  <2> HIDE DEF b
  <2>3. n \in CPUs /\ n.id = b.id /\ ~n.resetpending /\ Extends(b.log, n.log)
    BY <2>2, Zenon DEF Enters, EntersBy
  <2>4. VectorsLast(n)
    BY <2>1, <2>2, <2>3, EntersLast, Zenon
  <2>5. QED
    BY <2>1, <2>3, <2>4, Zenon
<1>5. CASE \/ \E k \in 1 .. 6 : PollsOnly(m, n, k)
           \/ Polls(m, n, 2, m.f.intdis, m.f.intdis, FALSE)
           \/ \E v \in BOOLEAN : \/ Polls(m, n, 1, m.f.intdis, v, m.f.breakf)
                                 \/ Polls(m, n, 3, m.f.intdis, v, FALSE)
                                 \/ Polls(m, n, 5, v, v, FALSE)
  <2>1. \E k, i, d, b : Polls(m, n, k, i, d, b)
    BY <1>5, Zenon DEF PollsOnly
  <2>2. QED
    BY <1>2, <2>1, Zenon
<1>6. QED
  BY <1>3, <1>4, <1>5, Zenon DEF Ran

\* The accesses of a call, and the instruction it executes.
Shaped(c, n) ==
    /\ n \in CPUs /\ ~n.resetpending
    /\ Instr(c) =>
          /\ Len(n.log) >= 1 /\ n.log[1] = Entry(Fresh(c), "x", c.pc) /\ n.id = Read(c, c.pc)
          /\ \A i \in 2 .. Len(n.log) : n.log[i].mode # "x"
    /\ ~Instr(c) =>
          /\ n.cause # "none" /\ n.id = NO_ID
          /\ \A i \in 1 .. Len(n.log) : n.log[i].mode # "x"
    /\ n.cause # "none" => VectorsLast(n)

\* A call that only enters a handler.
Entered(n) ==
    /\ n \in CPUs /\ ~n.resetpending /\ n.cause # "none" /\ n.id = NO_ID
    /\ \A i \in 1 .. Len(n.log) : n.log[i].mode # "x"
    /\ VectorsLast(n)

\* A call that serves an interrupt fetches nothing, and ends with the vector.
LEMMA EntersShape ==
  ASSUME NEW m \in CPUs, m.log = << >>, m.id = NO_ID, NEW n, NEW q, q # "none",
         Enters(m, n, q), EntersBy(m, n)
  PROVE  Entered(n)
<1>1. n \in CPUs /\ ~n.resetpending /\ n.cause # "none" /\ n.id = NO_ID
  BY Zenon DEF Enters
<1>2. \A i \in 1 .. Len(m.log) : m.log[i].mode # "r"
  OBVIOUS
<1>3. VectorsLast(n)
  BY <1>1, <1>2, EntersLast, Zenon
<1>4. \A i \in 1 .. Len(n.log) : n.log[i].mode # "x"
  <2>1. Extends(<< >>, n.log)
    BY Zenon DEF EntersBy
  <2>2. QED
    BY <2>1 DEF Extends
<1>5. QED
  BY <1>1, <1>3, <1>4 DEF Entered

\* Every call of the CPU has the shape the debugger counts on.
LEMMA CallShape == ASSUME NEW c \in CPUs PROVE Shaped(c, Call(c))
<1> DEFINE g == Fresh(c)
           h == cycle(g)
           n == Call(c)
<1>1. /\ g \in CPUs /\ g.log = << >> /\ g.id = NO_ID /\ g.cause = "none"
      /\ g.pc = c.pc /\ g.ram = c.ram /\ g.rom = c.rom /\ g.resetpending = c.resetpending
  BY FreshIs, Zenon DEF Signals
<1>2. Read(g, c.pc) = Read(c, c.pc)
  BY <1>1, SameMemory, Zenon
<1> HIDE DEF g
<1>3. h \in CPUs /\ h.log = << >> /\ h.id = NO_ID
  <2>1. h \in CPUs
    BY <1>1, CycleDoes, Zenon DEF Does
  <2>2. h.log = g.log /\ h.id = g.id
    BY <1>1, Zenon DEF cycle, CPUs, CPUsWith
  <2>3. QED
    BY <1>1, <2>1, <2>2
<1> HIDE DEF h, n
<1>4. c.resetpending \in BOOLEAN /\ c.execnmi \in BOOLEAN /\ c.execirq \in BOOLEAN
  BY FlagFields, Zenon
<1>5. CASE c.resetpending
  <2>1. Enters(g, n, "reset") /\ EntersBy(g, n)
    BY <1>5, CallRuns DEF CallDoes, g, n
  <2>2. Entered(n)
    BY <1>1, <2>1, EntersShape, Zenon
  <2>3. QED
    BY <1>5, <2>2 DEF Entered, Shaped, Instr, n
<1>6. ASSUME NEW o, NEW q, q # "none", Enters(h, o, q), EntersBy(h, o), ~Instr(c),
             n = [o EXCEPT !.execnmi = FALSE] \/ n = [o EXCEPT !.execirq = FALSE]
      PROVE  Shaped(c, n)
  <2>1. /\ o \in CPUs /\ ~o.resetpending /\ o.cause # "none" /\ o.id = NO_ID
        /\ \A i \in 1 .. Len(o.log) : o.log[i].mode # "x"
        /\ VectorsLast(o)
    BY <1>3, <1>6, EntersShape, Zenon DEF Entered
  <2>2. /\ n \in CPUs /\ n.resetpending = o.resetpending /\ n.cause = o.cause /\ n.id = o.id
        /\ n.log = o.log /\ n.pc = o.pc
    <3>1. o \in CPUs
      BY <2>1
    <3>2. QED
      BY <1>6, <3>1, ZenonT(40) DEF CPUs, CPUsWith
  <2>3. VectorsLast(n)
    BY <2>1, <2>2 DEF VectorsLast
  <2>4. QED
    BY <1>6, <2>1, <2>2, <2>3 DEF Shaped
<1>7. CASE ~c.resetpending /\ c.execnmi
  <2>1. PICK o : Enters(h, o, "nmi") /\ EntersBy(h, o) /\ n = [o EXCEPT !.execnmi = FALSE]
    BY <1>7, CallRuns DEF CallDoes, g, h, n
  <2>2. ~Instr(c)
    BY <1>7 DEF Instr
  <2>3. QED
    BY <1>6, <2>1, <2>2, Zenon DEF n
<1>8. CASE ~c.resetpending /\ ~c.execnmi /\ c.execirq
  <2>1. PICK o : Enters(h, o, "irq") /\ EntersBy(h, o) /\ n = [o EXCEPT !.execirq = FALSE]
    BY <1>8, CallRuns DEF CallDoes, g, h, n
  <2>2. ~Instr(c)
    BY <1>8 DEF Instr
  <2>3. QED
    BY <1>6, <2>1, <2>2, Zenon DEF n
<1>9. CASE Instr(c)
  <2>1. PICK m : Fetched(g, m) /\ Ran(m, n)
    BY <1>9, CallRuns DEF CallDoes, g, n
  <2>2. /\ m \in CPUs /\ m.id = Read(g, g.pc) /\ ~m.resetpending /\ m.cause = "none"
        /\ m.log = Append(<< >>, Entry(g, "x", g.pc)) /\ Entry(g, "x", g.pc) \in Accesses
    BY <1>1, <1>9, <2>1, Zenon DEF Fetched, Instr
  <2> DEFINE a == Entry(g, "x", g.pc)
  <2>3. a.mode = "x"
    BY DEF Entry
  <2> HIDE DEF a
  <2>4. Len(m.log) = 1 /\ m.log[1] = a
    <3>1. a \in Accesses /\ m.log = Append(<< >>, a)
      BY <2>2 DEF a
    <3>2. QED
      BY <3>1
  <2>5. \A i \in 1 .. Len(m.log) : m.log[i].mode # "r"
    <3>1. \A i \in 1 .. 1 : i = 1
      OBVIOUS
    <3>2. QED
      BY <2>3, <2>4, <3>1, Zenon
  <2>6. /\ n \in CPUs /\ n.id = m.id /\ ~n.resetpending /\ Extends(m.log, n.log)
        /\ n.cause # "none" => VectorsLast(n)
    BY <2>1, <2>2, <2>5, RanShape, Zenon
  <2>7. /\ Len(n.log) >= 1 /\ n.log[1] = a
        /\ \A i \in 2 .. Len(n.log) : n.log[i].mode # "x"
    <3>1. n.log \in Seq(Accesses)
      BY <2>6, Fields, Zenon
    <3>2. QED
      BY <2>4, <2>6, <3>1 DEF Extends
  <2>8. n.id = Read(c, c.pc) /\ a = Entry(Fresh(c), "x", c.pc)
    BY <1>1, <1>2, <2>2, <2>6 DEF a, g
  <2>9. QED
    BY <1>9, <2>6, <2>7, <2>8 DEF Shaped, n
<1>10. QED
  BY <1>4, <1>5, <1>7, <1>8, <1>9 DEF Instr

-------------------------------------------------------------------------------
(* The debugger *)

\* What nextstop may be.
Stops == Word \cup {NONE}

\* The types, and where in the call in progress the debugger is: a prompt comes up at an
\* access of it.
TInv ==
    /\ cpu \in CPUs
    /\ cpu.resetpending => cpu.f.breakf = FALSE
    /\ pos \in Nat /\ pos <= Len(Log)
    /\ phase \in {"run", "break", "fetch", "undefined"}
    /\ Prompt => pos >= 1
    /\ nextstop \in Stops
    /\ quit \in BOOLEAN /\ vectored \in BOOLEAN /\ patched \in BOOLEAN

\* What the debugger is told of an access is a CPU, an address and a mode.
LEMMA AccessIs ==
  ASSUME NEW a \in Accesses
  PROVE  a.at \in CPUs /\ a.addr \in Nat /\ a.mode \in {"r", "w", "x"}
<1>1. a.at \in Bare /\ a.addr \in Nat /\ a.mode \in {"r", "w", "x"}
  BY Zenon DEF Accesses
<1>2. << >> \in Seq(Accesses)
  OBVIOUS
<1>3. ASSUME NEW m \in Bare PROVE m \in CPUs
  BY <1>2, Zenon DEF Bare, CPUs, CPUsWith
<1>4. QED
  BY <1>1, <1>3

\* num_bytes() gives a length for any opcode.
LEMMA LengthIs == ASSUME NEW id PROVE num_bytes(id) \in Nat
BY DEF num_bytes

\* nextaddr() gives an address, whatever the opcode at the pc.
LEMMA NextaddrIsWord == ASSUME NEW m \in CPUs PROVE nextaddr(m) \in Word
<1>0. m.pc \in Word
  BY Fields, Zenon
<1>a. \A x : Read(m, x) \in Byte
  BY ReadIsByte, Zenon
<1>b. \A x : ReadWord(m, x) \in Word
  BY ReadWordIsWord, Zenon
<1> DEFINE id == Read(m, m.pc)
           op == ReadWord(m, (m.pc + 1) % 65536)
           lo == Read(m, m.sp + 1 + STACK_BASE)
           hi == Read(m, m.sp + 2 + STACK_BASE)
           stack == lo + 256 * hi
           plo == Read(m, op)
           phi == Read(m, PointerHigh(Low(op), op))
<1>1. m.pc \in Word
  BY <1>0
<1>2. id \in Byte /\ lo \in Byte /\ hi \in Byte /\ plo \in Byte /\ phi \in Byte
  BY <1>a
<1>3. op \in Word
  BY <1>b
<1>4. stack \in Word /\ plo + 256 * phi \in Word
  BY <1>2, Joined
<1>5. (stack + 1) % 65536 \in Word
  BY <1>4, NextPc
<1>6. branch_pointer(Low(op), m.pc) \in Word
  <2>1. Low(op) \in Byte
    BY <1>3, Halves
  <2>2. 2 + int8(Low(op)) \in Int
    BY <2>1, Bytes DEF int8
  <2>3. (m.pc + (2 + int8(Low(op)))) % 65536 \in Word
    BY <1>1, <2>2, WordPlus
  <2>4. m.pc + 2 + int8(Low(op)) = m.pc + (2 + int8(Low(op)))
    BY <1>1, <2>1, Bytes, Words DEF int8
  <2>5. QED
    BY <2>3, <2>4 DEF branch_pointer
<1>7. (m.pc + num_bytes(id)) % 65536 \in Word
  BY <1>1, WordPlus, LengthIs
<1>8. RESET_VEC \in Word /\ NMI_VEC \in Word /\ IRQ_BRK_VEC \in Word
  BY Words DEF RESET_VEC, NMI_VEC, IRQ_BRK_VEC
<1>9. nextaddr(m) =
         CASE id = \h00 -> IF m.resetpending THEN RESET_VEC
                          ELSE IF m.nmipending THEN NMI_VEC ELSE IRQ_BRK_VEC
          [] id \in {\h20, \h4C} -> op
          [] id = \h6C -> plo + 256 * phi
          [] id = \h60 -> (stack + 1) % 65536
          [] id = \h40 -> stack
          [] OTHER -> IF took_branch(id, m.f) THEN branch_pointer(Low(op), m.pc)
                      ELSE (m.pc + num_bytes(id)) % 65536
  BY DEF nextaddr
<1> DEFINE w1 == (stack + 1) % 65536
           w2 == (m.pc + num_bytes(id)) % 65536
           w3 == plo + 256 * phi
           w4 == branch_pointer(Low(op), m.pc)
<1>10. w1 \in Word /\ w2 \in Word /\ w3 \in Word /\ w4 \in Word
  BY <1>4, <1>5, <1>6, <1>7
<1> HIDE DEF id, op, lo, hi, plo, phi, stack, w1, w2, w3, w4
<1>11. nextaddr(m) =
         CASE id = \h00 -> IF m.resetpending THEN RESET_VEC
                          ELSE IF m.nmipending THEN NMI_VEC ELSE IRQ_BRK_VEC
          [] id \in {\h20, \h4C} -> op
          [] id = \h6C -> w3
          [] id = \h60 -> w1
          [] id = \h40 -> stack
          [] OTHER -> IF took_branch(id, m.f) THEN w4 ELSE w2
  BY <1>9 DEF w1, w2, w3, w4
<1>12. QED
  BY <1>3, <1>4, <1>8, <1>10, <1>11, ZenonT(60)

\* A write of the user's to memory leaves the rest of the CPU alone.
LEMMA WriteKeeps ==
  ASSUME NEW c \in CPUs, NEW a \in Nat, NEW d \in Byte, NEW n, n = Write(c, a, d)
  PROVE  n \in CPUs /\ Ctl(n) = Ctl(c) /\ n.pc = c.pc /\ n.f = c.f /\ n.cycles = c.cycles
<1>1. n \in CPUs /\ Ctl(n) = Ctl(c) /\ n.cycles = c.cycles + 0
  BY WriteDoes DEF Does
<1>2. c.cycles + 0 = c.cycles
  BY Fields
<1>3. ASSUME NEW r PROVE [c EXCEPT !.ram = r].pc = c.pc /\ [c EXCEPT !.ram = r].f = c.f
  BY Zenon DEF CPUs, CPUsWith
<1> DEFINE r == SetCell(c.ram, a % \h0800, d)
<1>4. n = c \/ n = [c EXCEPT !.ram = r]
  BY DEF Write
<1> HIDE DEF r
<1>5. n.pc = c.pc /\ n.f = c.f
  BY <1>3, <1>4, Zenon
<1>6. QED
  BY <1>1, <1>2, <1>5

\* The constant Programs holds contents of the ROM.
LEMMA ProgramIs == ASSUME NEW rom \in Programs PROVE rom \in Memories(Word)
BY DebuggerAssumption, Zenon DEF Memories

\* The machine that a call leaves to the next.
LEMMA Cleared ==
  ASSUME NEW n \in CPUs, NEW c, c = [n EXCEPT !.log = << >>]
  PROVE  c \in CPUs /\ Ctl(c) = Ctl(n) /\ c.pc = n.pc /\ c.cycles = n.cycles /\ c.f = n.f
<1>1. << >> \in Seq(Accesses)
  OBVIOUS
<1>2. PICK e \in Seq(Accesses) : c = [n EXCEPT !.log = e]
  BY <1>1, Zenon
<1>3. QED
  BY <1>2, ZenonT(60) DEF CPUs, CPUsWith, Ctl

\* A device raises a signal.
Raised(c, n) ==
    /\ n \in CPUs /\ n.pc = c.pc /\ n.f = c.f
    /\ n.resetpending = c.resetpending /\ n.execnmi = c.execnmi /\ n.execirq = c.execirq
    /\ n.pushedB = c.pushedB /\ n.cycles = 0 /\ n.vec = NO_VEC /\ n.cause = "none"
    /\ \/ n.nmipending = TRUE /\ n.irqpending = c.irqpending
       \/ n.irqpending = TRUE /\ n.nmipending = c.nmipending

\* A signal raises its pending flag, and does nothing else.
LEMMA SignalRaises ==
  ASSUME NEW c \in CPUs, NEW n \in {fire_nmi(c), fire_irq(c)}
  PROVE  Raised(c, n)
<1> DEFINE g == Fresh(c)
<1>1. /\ g \in CPUs /\ Signals(g) = Signals(c)
      /\ g.cycles = 0 /\ g.vec = NO_VEC /\ g.cause = "none"
  BY FreshIs, Zenon
<1>2. n = [g EXCEPT !.nmipending = TRUE] \/ n = [g EXCEPT !.irqpending = TRUE]
  BY DEF fire_nmi, fire_irq
<1> HIDE DEF g
<1>3. /\ n \in CPUs /\ n.pc = g.pc /\ n.f = g.f
      /\ n.resetpending = g.resetpending /\ n.execnmi = g.execnmi /\ n.execirq = g.execirq
      /\ n.pushedB = g.pushedB /\ n.cycles = g.cycles /\ n.vec = g.vec /\ n.cause = g.cause
  BY <1>1, <1>2, ZenonT(40) DEF CPUs, CPUsWith
<1>4. \/ n.nmipending = TRUE /\ n.irqpending = g.irqpending
      \/ n.irqpending = TRUE /\ n.nmipending = g.nmipending
  BY <1>1, <1>2, Zenon DEF CPUs, CPUsWith
<1>5. QED
  BY <1>1, <1>3, <1>4 DEF Raised, Signals

\* The call at hand has the shape of one, so its log is one of accesses.
LEMMA LogIs == ASSUME TInv PROVE Shaped(cpu, Call(cpu)) /\ Log \in Seq(Accesses)
<1>1. Shaped(cpu, Call(cpu))
  BY CallShape DEF TInv
<1>2. Call(cpu).log \in Seq(Accesses)
  BY <1>1, Fields, Zenon DEF Shaped
<1>3. QED
  BY <1>1, <1>2 DEF Log

\* Every access reported is one.
LEMMA ReportedIs ==
  ASSUME TInv, NEW i \in Nat, 1 <= i, i <= Len(Log)
  PROVE  Log[i] \in Accesses
BY LogIs

\* The access the user has been stopped at is one.
LEMMA NowIs == ASSUME TInv, Prompt PROVE Now \in Accesses
BY ReportedIs, Zenon DEF TInv, Now

\* Only an instruction reports a fetch, and it does so first.
LEMMA FetchIsFirst ==
  ASSUME TInv, NEW i \in Nat, 1 <= i, i <= Len(Log), Log[i].mode = "x"
  PROVE  i = 1 /\ Instr(cpu)
<1>1. i \in 1 .. Len(Log) /\ (i = 1 \/ i \in 2 .. Len(Log))
  BY LogIs
<1>2. QED
  BY <1>1, LogIs DEF Shaped, Log

\* check_nextstop() keeps nextstop an address or none, and lets the CPU run or stops it.
LEMMA StopIs ==
  ASSUME NEW a \in Accesses, NEW stop \in Stops, check_nextstop(a, stop)
  PROVE  nextstop' \in Stops /\ phase' \in {"run", "fetch"}
<1>1. ReadWord(a.at, a.addr) \in Stops /\ NONE \in Stops
  BY AccessIs, ReadWordIsWord, Zenon DEF Stops
<1>2. QED
  BY <1>1 DEF check_nextstop

\* To leave the repl changes nextstop and the phase alone, apart from the histories.
LEMMA LeaveIs ==
  ASSUME TInv, Prompt, NEW stop \in Stops, Leave(stop)
  PROVE  /\ nextstop' \in Stops /\ phase' \in {"run", "fetch"}
         /\ vectored' = FALSE /\ cpu' = cpu /\ pos' = pos /\ patched' = patched
         /\ calls' = calls /\ btrace' = btrace
BY NowIs, StopIs DEF Leave, Prompt

\* Every stop that a command sets is an address, or none.
LEMMA CommandStops ==
  ASSUME TInv, Prompt
  PROVE  /\ NONE \in Stops /\ ReadWord(Now.at, NMI_VEC) \in Stops /\ nextaddr(Now.at) \in Stops
         /\ (Now.at.pc + num_bytes(Opcode(Now))) % 65536 \in Stops
         /\ nextstop \in Stops
<1>1. Now.at \in CPUs
  BY NowIs, AccessIs
<1>2. Now.at.pc \in Word
  BY <1>1, Fields, Zenon
<1>3. (Now.at.pc + num_bytes(Opcode(Now))) % 65536 \in Word
  BY <1>2, LengthIs, WordPlus
<1>4. ReadWord(Now.at, NMI_VEC) \in Word /\ nextaddr(Now.at) \in Word
  BY <1>1, ReadWordIsWord, NextaddrIsWord, Zenon
<1>5. QED
  BY <1>3, <1>4 DEF Stops, TInv

\* The commands that resume the CPU.
Resumes == \E stop \in Stops : Leave(stop)

\* The five commands that leave the repl leave it the same way.
LEMMA ResumesBy ==
  ASSUME TInv, continue_exec \/ runframe \/ step \/ next \/ set_quit
  PROVE  Prompt /\ Resumes /\ (quit' = quit \/ quit' = TRUE)
<1>1. CASE continue_exec
  BY <1>1, CommandStops DEF continue_exec, Resumes
<1>2. CASE runframe
  BY <1>2, CommandStops DEF runframe, Resumes
<1>3. CASE step
  BY <1>3, CommandStops DEF step, Resumes
<1>4. CASE next
  BY <1>4, CommandStops DEF next, Resumes
<1>5. CASE set_quit
  BY <1>5, CommandStops DEF set_quit, Resumes
<1>6. QED
  BY <1>1, <1>2, <1>3, <1>4, <1>5, Zenon

\* The call at hand depends on the CPU alone.
LEMMA SameCall == ASSUME cpu' = cpu PROVE Log' = Log /\ Call(cpu)' = Call(cpu)
BY DEF Log

\* What a write to memory at the fetch of an instruction leaves alone.
LEMMA WriteIs ==
  ASSUME TInv, NEW p \in Pokes, write(p)
  PROVE  /\ cpu' \in CPUs /\ cpu'.pc = cpu.pc /\ cpu'.f = cpu.f /\ Ctl(cpu') = Ctl(cpu)
         /\ cpu'.cycles = cpu.cycles /\ pos = 1 /\ Instr(cpu) /\ Instr(cpu') /\ Len(Log') >= 1
<1>1. p[1] \in Nat /\ p[2] \in Byte
  BY DebuggerAssumption, WordsAreNat, Zenon
<1>2. cpu' = Write(cpu, p[1], p[2]) /\ Prompt /\ Now.mode = "x"
  BY DEF write
<1>3. /\ cpu' \in CPUs /\ Ctl(cpu') = Ctl(cpu) /\ cpu'.pc = cpu.pc /\ cpu'.f = cpu.f
      /\ cpu'.cycles = cpu.cycles
  <2>1. cpu \in CPUs
    BY DEF TInv
  <2>2. QED
    BY <1>1, <1>2, <2>1, WriteKeeps, SMTT(30)
<1>4. pos = 1 /\ Instr(cpu)
  BY <1>2, FetchIsFirst, Zenon DEF TInv, Now
<1>5. Instr(cpu')
  BY <1>3, <1>4 DEF Instr, Ctl
<1>6. Len(Log') >= 1
  BY <1>3, <1>5, CallShape DEF Shaped, Log
<1>7. QED
  BY <1>3, <1>4, <1>5, <1>6

\* The debugger starts in a state of the invariant.
LEMMA TInvInit ==
  Init => TInv
<1> SUFFICES ASSUME Init PROVE TInv
  OBVIOUS
<1>1. cpu \in CPUs /\ cpu.f.breakf = FALSE
  BY PowerOnIs, ProgramIs, Zenon DEF Init
<1>2. Log \in Seq(Accesses)
  BY <1>1, CallShape, Fields, Zenon DEF Shaped, Log
<1>3. 0 <= Len(Log)
  BY <1>2
<1>4. nextstop \in Stops
  BY Words DEF Init, Stops
<1>5. QED
  BY <1>1, <1>3, <1>4, Zenon DEF Init, TInv, Prompt

\* Every step of the debugger, the CPU and the user keeps the invariant.
LEMMA TInvStep ==
  TInv /\ [Next]_vars => TInv'
<1> SUFFICES ASSUME TInv, [Next]_vars PROVE TInv'
  OBVIOUS
<1>1. CASE fetch_callback
  <2>1. /\ cpu' = cpu /\ quit' = quit /\ pos' = pos + 1 /\ pos < Len(Log)
        /\ patched' = patched /\ phase = "run"
    BY <1>1 DEF fetch_callback, Remember
  <2> DEFINE a == Log[pos + 1]
  <2>2. pos \in Nat /\ pos + 1 \in Nat /\ 1 <= pos + 1 /\ pos + 1 <= Len(Log)
    BY <2>1, LogIs DEF TInv
  <2>3. a \in Accesses
    BY <2>2, ReportedIs, Zenon
  <2>4. vectored' \in BOOLEAN
    <3>1. \/ vectored' = (nextstop # NONE /\ ~quit)
          \/ vectored' = (vectored /\ a.mode # "x")
      BY <1>1 DEF fetch_callback, Remember
    <3>2. QED
      BY <3>1, Zenon
  <2>5. nextstop' \in Stops /\ phase' \in {"run", "break", "fetch", "undefined"}
    <3>1. CASE quit
      BY <1>1, <3>1 DEF fetch_callback, TInv
    <3>2. CASE ~quit /\ Undefined(a)
      BY <1>1, <3>2 DEF fetch_callback, TInv
    <3>3. CASE ~quit /\ ~Undefined(a) /\ Reached(a)
      BY <1>1, <3>3 DEF fetch_callback, TInv
    <3>4. CASE ~quit /\ ~Undefined(a) /\ ~Reached(a)
      <4>1. check_nextstop(a, nextstop)
        BY <1>1, <3>4 DEF fetch_callback
      <4>2. QED
        BY <2>3, <4>1, StopIs DEF TInv
    <3>5. QED
      BY <3>1, <3>2, <3>3, <3>4
  <2> HIDE DEF a
  <2>6. Log' = Log
    BY <2>1, SameCall
  <2>7. QED
    BY <2>1, <2>2, <2>4, <2>5, <2>6 DEF TInv
<1>2. CASE return
  <2>1. /\ cpu' = [Call(cpu) EXCEPT !.log = << >>] /\ pos' = 0 /\ phase' = "run"
        /\ nextstop' = nextstop /\ quit' = quit /\ vectored' = vectored /\ patched' = patched
    BY <1>2 DEF return, debugger
  <2>2. Call(cpu) \in CPUs /\ ~Call(cpu).resetpending
    BY LogIs DEF Shaped
  <2>3. cpu' \in CPUs /\ cpu'.resetpending = Call(cpu).resetpending
    BY <2>1, <2>2, Cleared DEF Ctl
  <2>4. 0 <= Len(Log')
    <3>1. Log' \in Seq(Accesses)
      BY <2>3, CallShape, Fields, Zenon DEF Shaped, Log
    <3>2. QED
      BY <3>1
  <2>5. QED
    BY <2>1, <2>2, <2>3, <2>4 DEF TInv, Prompt
<1>3. CASE signal
  <2>1. /\ cpu' \in {fire_nmi(cpu), fire_irq(cpu)}
        /\ pos' = pos /\ pos = 0 /\ phase' = phase /\ phase = "run"
        /\ nextstop' = nextstop /\ quit' = quit /\ vectored' = vectored /\ patched' = patched
    BY <1>3 DEF signal, debugger, history
  <2>2. cpu' \in CPUs /\ cpu'.resetpending = cpu.resetpending /\ cpu'.f = cpu.f
    BY <2>1, SignalRaises, Zenon DEF Raised, TInv
  <2>3. 0 <= Len(Log')
    <3>1. Log' \in Seq(Accesses)
      BY <2>2, CallShape, Fields, Zenon DEF Shaped, Log
    <3>2. QED
      BY <3>1
  <2>4. QED
    BY <2>1, <2>2, <2>3 DEF TInv, Prompt
<1>4. CASE continue_exec \/ runframe \/ step \/ next \/ set_quit
  <2>1. Prompt /\ Resumes /\ quit' \in BOOLEAN
    BY <1>4, ResumesBy, Zenon DEF TInv
  <2>2. /\ nextstop' \in Stops /\ phase' \in {"run", "fetch"}
        /\ vectored' = FALSE /\ cpu' = cpu /\ pos' = pos /\ patched' = patched
    BY <2>1, LeaveIs, Zenon DEF Resumes
  <2>3. Log' = Log
    BY <2>2, SameCall
  <2>4. QED
    BY <2>1, <2>2, <2>3, Zenon DEF TInv
<1>5. CASE \/ \E b \in Breaks : setbreak(b)
           \/ \E i \in 1 .. MAXBREAKS : delbreak(i)
           \/ UNCHANGED vars
  <2>1. UNCHANGED <<cpu, pos, phase, nextstop, quit, vectored, patched>>
    BY <1>5 DEF setbreak, delbreak, vars, debugger, history
  <2>2. Log' = Log
    BY <2>1, SameCall
  <2>3. QED
    BY <2>1, <2>2 DEF TInv, Prompt
<1>6. CASE \E p \in Pokes : write(p)
  <2>1. PICK p \in Pokes : write(p)
    BY <1>6
  <2>2. UNCHANGED <<pos, phase, nextstop, quit, vectored>>
    BY <2>1 DEF write, debugger
  <2>3. patched' \in BOOLEAN
    BY <2>1 DEF write
  <2>4. cpu' \in CPUs /\ cpu'.f = cpu.f /\ pos = 1 /\ Len(Log') >= 1 /\ Instr(cpu')
    BY <2>1, WriteIs
  <2>5. QED
    BY <2>2, <2>3, <2>4 DEF TInv, Prompt, Instr
<1>7. QED
  BY <1>1, <1>2, <1>3, <1>4, <1>5, <1>6 DEF Next, command

\* The invariant gives the type invariant that is checked.
LEMMA TypeFollows ==
  TInv => TypeOK
<1> SUFFICES ASSUME TInv PROVE TypeOK
  OBVIOUS
<1>1. cpu \in CPUs
  BY DEF TInv
<1>2. /\ cpu.pc \in Word /\ cpu.sp \in Byte /\ cpu.acc \in Byte /\ cpu.x \in Byte
      /\ cpu.y \in Byte /\ cpu.low \in Byte /\ cpu.high \in Byte
      /\ cpu.f \in FlagSets /\ cpu.ram \in Memories(Cells)
  BY <1>1, Fields, Zenon
<1>3. {cpu.sp, cpu.acc, cpu.x, cpu.y, cpu.low, cpu.high} \subseteq Byte
  BY <1>2, Zenon
<1>4. \A a \in DOMAIN cpu.ram : a < \h0800 /\ cpu.ram[a] \in Byte
  <2>1. PICK D \in SUBSET Cells : cpu.ram \in [D -> Byte]
    BY <1>2, Zenon DEF Memories
  <2>2. \A a \in Cells : a < \h0800
    BY DEF Cells
  <2>3. QED
    BY <2>1, <2>2
<1>5. cpu.f \in [DOMAIN ResetFlags -> BOOLEAN]
  <2>1. DOMAIN ResetFlags = {"carry", "zero", "intdis", "decimal", "breakf", "unused", "ov", "neg"}
    BY DEF ResetFlags, ToFlags
  <2>2. ASSUME NEW f \in FlagSets
        PROVE  f \in [{"carry", "zero", "intdis", "decimal",
                       "breakf", "unused", "ov", "neg"} -> BOOLEAN]
    BY DEF FlagSets
  <2>3. QED
    BY <1>2, <2>1, <2>2, Zenon
<1>6. pos \in 0 .. Len(Log)
  BY LogIs DEF TInv
<1>7. QED
  BY <1>2, <1>3, <1>4, <1>5, <1>6 DEF TInv, TypeOK, Stops

-------------------------------------------------------------------------------
(* Stops in handlers *)

\* The call enters a handler, and its vector has been reported.
Vectored == Call(cpu).cause # "none" /\ pos >= Len(Log) - 1

\* As long as the CPU runs on to a stop that moved with a vector, the stop is where the
\* handler begins: the pc after the call once the vector is reported, and the pc of the
\* next call from then on, until an instruction is fetched.
VInv ==
    vectored /\ phase = "run" =>
        /\ ~quit /\ nextstop # NONE
        /\ Vectored => nextstop = Call(cpu).pc
        /\ ~Vectored => nextstop = cpu.pc /\ (Instr(cpu) => pos = 0)

\* A call that enters a handler has at least the two reads of the vector to report.
LEMMA EntryOfCall ==
  ASSUME NEW c \in CPUs, Call(c).cause # "none"
  PROVE  ~(0 >= Len(Call(c).log) - 1)
<1>1. Call(c).log \in Seq(Accesses) /\ Len(Call(c).log) >= 5
  BY CallShape, Fields DEF Shaped, VectorsLast
<1>2. QED
  BY <1>1

\* Before its first access is reported a call has entered no handler.
LEMMA Untouched == ASSUME TInv, pos = 0 PROVE ~Vectored
BY EntryOfCall DEF TInv, Vectored, Log

\* Every step keeps what ties the pending stop to the handler that was entered.
LEMMA VInvStep ==
  TInv /\ VInv /\ [Next]_vars => VInv'
<1> SUFFICES ASSUME TInv, VInv, [Next]_vars, vectored', phase' = "run"
             PROVE  /\ ~quit' /\ nextstop' # NONE
                    /\ Vectored' => nextstop' = Call(cpu').pc
                    /\ ~Vectored' => nextstop' = cpu'.pc /\ (Instr(cpu') => pos' = 0)
  BY DEF VInv
<1> DEFINE n == Call(cpu)
           l == Len(Log)
<1>0. /\ l \in Nat /\ pos \in Nat /\ Shaped(cpu, n) /\ cpu \in CPUs
      /\ NONE \notin Word /\ n.pc \in Word /\ cpu.pc \in Word
  <2>0. Shaped(cpu, n) /\ Log \in Seq(Accesses)
    BY LogIs
  <2>1. Shaped(cpu, n) /\ l \in Nat /\ pos \in Nat /\ cpu \in CPUs
    BY <2>0 DEF TInv
  <2>2. n \in CPUs
    BY <2>1 DEF Shaped
  <2>3. NONE \notin Word
    BY Words DEF NONE
  <2>4. QED
    BY <2>1, <2>2, <2>3, Fields, Zenon
<1>1. CASE fetch_callback
  <2> DEFINE a == Log[pos + 1]
  <2>1. /\ cpu' = cpu /\ quit' = quit /\ pos' = pos + 1 /\ pos < l /\ phase = "run"
    BY <1>1 DEF fetch_callback
  <2>2. vectored' = IF IsVector(a) /\ n.cause # "none" THEN nextstop # NONE /\ ~quit
                    ELSE vectored /\ a.mode # "x"
    BY <1>1, Zenon DEF fetch_callback, Remember
  <2>3. ~quit /\ nextstop # NONE
    BY <2>1, <2>2, Zenon DEF VInv
  <2>4. check_nextstop(a, nextstop)
    BY <1>1, <2>3 DEF fetch_callback
  <2>5. Log' = Log /\ Call(cpu') = Call(cpu)
    BY <2>1, SameCall
  <2>6. Vectored' <=> n.cause # "none" /\ pos + 1 >= l - 1
    BY <2>1, <2>5, SMTT(30) DEF Vectored
  <2>7. n.cause # "none" => /\ \A i \in 1 .. l - 2 : Log[i].mode # "r"
                            /\ ~IsVector(Log[l]) /\ IsVector(Log[l - 1])
                            /\ ReadWord(Log[l - 1].at, Log[l - 1].addr) = n.pc
    BY <1>0 DEF Shaped, VectorsLast, Log
  <2>8. (a.mode = "r" /\ IsVector(a)) \/ ~IsVector(a)
    BY DEF IsVector
  <2>9. CASE IsVector(a) /\ n.cause # "none"
    <3>1. pos + 1 = l - 1
      <4>1. pos + 1 \in 1 .. l - 2 \/ pos + 1 = l - 1 \/ pos + 1 = l
        BY <1>0, <2>1
      <4>2. QED
        BY <2>7, <2>8, <2>9, <4>1
    <3>2. nextstop' = ReadWord(a.at, a.addr)
      BY <2>3, <2>4, <2>9 DEF check_nextstop
    <3>3. nextstop' = n.pc
      BY <2>7, <2>9, <3>1, <3>2
    <3>4. pos + 1 >= l - 1
      BY <1>0, <3>1
    <3>5. QED
      BY <1>0, <2>1, <2>3, <2>5, <2>6, <2>9, <3>3, <3>4, SMTT(30)
  <2>10. CASE ~(IsVector(a) /\ n.cause # "none")
    <3>1. vectored /\ a.mode # "x"
      BY <2>2, <2>10, Zenon
    <3>2. CASE Vectored
      <4>1. n.cause # "none" /\ pos + 1 = l /\ pos + 1 >= l - 1
        BY <1>0, <2>1, <3>2 DEF Vectored
      <4>2. ~IsVector(a)
        BY <2>10, <4>1
      <4>3. nextstop' = nextstop
        BY <2>4, <3>1, <4>2 DEF check_nextstop
      <4>4. nextstop = n.pc
        BY <2>1, <3>1, <3>2 DEF VInv
      <4>5. QED
        BY <2>1, <2>3, <2>5, <2>6, <4>1, <4>3, <4>4, SMTT(30)
    <3>3. CASE ~Vectored
      <4>1. nextstop = cpu.pc /\ (Instr(cpu) => pos = 0)
        BY <2>1, <3>1, <3>3 DEF VInv
      <4>2. ~Instr(cpu)
        <5>1. SUFFICES ASSUME Instr(cpu) PROVE FALSE
          OBVIOUS
        <5>2. pos + 1 = 1
          BY <4>1, <5>1
        <5>3. Log[1].mode = "x"
          BY <1>0, <5>1 DEF Shaped, Log, Entry
        <5>4. QED
          BY <3>1, <5>2, <5>3
      <4>3. n.cause # "none" /\ ~IsVector(a)
        BY <1>0, <2>10, <4>2 DEF Shaped
      <4>4. nextstop' = nextstop
        BY <2>4, <3>1, <4>3 DEF check_nextstop
      <4>5. ~(pos + 1 >= l - 1)
        <5>1. pos + 1 # l - 1
          BY <2>7, <4>3
        <5>2. ~(pos >= l - 1)
          BY <3>3, <4>3 DEF Vectored
        <5>3. QED
          BY <1>0, <5>1, <5>2
      <4>6. QED
        BY <2>1, <2>3, <2>6, <4>1, <4>2, <4>4, <4>5, SMTT(30)
    <3>4. QED
      BY <3>2, <3>3
  <2>11. QED
    BY <2>9, <2>10
<1>2. CASE return
  <2>1. /\ cpu' = [n EXCEPT !.log = << >>] /\ pos' = 0 /\ phase = "run" /\ pos = l
        /\ nextstop' = nextstop /\ quit' = quit /\ vectored' = vectored
    BY <1>2, Zenon DEF return, debugger
  <2>2. Vectored
    <3>1. SUFFICES ASSUME ~Vectored PROVE FALSE
      OBVIOUS
    <3>2. n.cause = "none"
      BY <1>0, <2>1, <3>1 DEF Vectored
    <3>3. Instr(cpu) /\ pos = 0
      BY <1>0, <2>1, <3>1, <3>2 DEF Shaped, VInv
    <3>4. Len(Log) >= 1
      BY <1>0, <3>3 DEF Shaped, Log
    <3>5. QED
      BY <2>1, <3>3, <3>4
  <2>3. nextstop = n.pc /\ ~quit /\ nextstop # NONE
    BY <2>1, <2>2 DEF VInv
  <2>4. cpu' \in CPUs /\ cpu'.pc = n.pc
    BY <1>0, <2>1, Cleared, Zenon DEF Shaped
  <2>5. ~Vectored'
    BY <2>1, <2>4, EntryOfCall DEF Vectored, Log
  <2>6. QED
    BY <2>1, <2>3, <2>4, <2>5
<1>3. CASE signal
  <2>1. /\ cpu' \in {fire_nmi(cpu), fire_irq(cpu)} /\ pos' = 0 /\ pos = 0 /\ phase = "run"
        /\ nextstop' = nextstop /\ quit' = quit /\ vectored' = vectored
    BY <1>3, Zenon DEF signal, debugger, history
  <2>2. cpu' \in CPUs /\ cpu'.pc = cpu.pc
    BY <1>0, <2>1, SignalRaises, Zenon DEF Raised
  <2>3. ~Vectored /\ ~Vectored'
    BY <2>1, <2>2, Untouched, EntryOfCall DEF Vectored, Log
  <2>4. QED
    BY <2>1, <2>2, <2>3 DEF VInv
<1>4. CASE continue_exec \/ runframe \/ step \/ next \/ set_quit
  BY <1>4, ResumesBy, LeaveIs, Zenon DEF Resumes
<1>5. CASE \/ \E b \in Breaks : setbreak(b)
           \/ \E i \in 1 .. MAXBREAKS : delbreak(i)
           \/ \E p \in Pokes : write(p)
  <2>1. Prompt /\ phase' = phase
    BY <1>5, Zenon DEF setbreak, delbreak, write
  <2>2. QED
    BY <2>1 DEF Prompt
<1>6. CASE UNCHANGED vars
  <2>1. UNCHANGED <<cpu, pos, phase, nextstop, quit, vectored>>
    BY <1>6, Zenon DEF vars, debugger, history
  <2>2. Vectored' = Vectored
    BY <2>1 DEF Vectored, Log
  <2>3. QED
    BY <2>1, <2>2 DEF VInv
<1>7. QED
  BY <1>1, <1>2, <1>3, <1>4, <1>5, <1>6, SMTT(30) DEF Next, command

\* So no step fetches the first instruction of such a handler and runs on.
LEMMA StopsStep ==
  TInv /\ VInv /\ [Next]_vars => (Fetches /\ vectored => phase' # "run")
<1> SUFFICES ASSUME TInv, VInv, [Next]_vars, Fetches, vectored, phase' = "run" PROVE FALSE
  OBVIOUS
<1>1. pos \in Nat /\ pos' = pos + 1 /\ Log[pos + 1].mode = "x"
  BY DEF TInv, Fetches
<1>2. fetch_callback
  <2>1. pos' # pos /\ pos' # 0
    BY <1>1
  <2>2. ~(continue_exec \/ runframe \/ step \/ next \/ set_quit)
    BY <2>1, ResumesBy, LeaveIs, Zenon DEF Resumes
  <2>3. QED
    BY <2>1, <2>2, Zenon DEF Next, command, return, signal, setbreak, delbreak, write, vars
<1> DEFINE a == Log[pos + 1]
<1>3. pos < Len(Log) /\ phase = "run"
  BY <1>2 DEF fetch_callback
<1>4. pos = 0 /\ Instr(cpu)
  <2>1. Log \in Seq(Accesses)
    BY LogIs
  <2>2. pos + 1 \in Nat /\ 1 <= pos + 1 /\ pos + 1 <= Len(Log)
    BY <1>1, <1>3, <2>1
  <2>3. pos + 1 = 1 /\ Instr(cpu)
    BY <1>1, <2>2, FetchIsFirst, Zenon
  <2>4. QED
    BY <1>1, <2>3
<1>5. a.mode = "x" /\ a.addr = cpu.pc
  <2>1. pos + 1 = 1
    BY <1>4
  <2>2. Log[1] = Entry(Fresh(cpu), "x", cpu.pc)
    BY <1>4, LogIs DEF Shaped, Log
  <2>3. QED
    BY <2>1, <2>2 DEF Entry
<1>6. ~quit /\ nextstop # NONE /\ nextstop = cpu.pc
  BY <1>3, <1>4, Untouched DEF VInv
<1>7. check_nextstop(a, nextstop)
  BY <1>2, <1>6 DEF fetch_callback
<1>8. ~IsVector(a)
  BY <1>5 DEF IsVector
<1>9. QED
  BY <1>5, <1>6, <1>7, <1>8 DEF check_nextstop

-------------------------------------------------------------------------------
(* The backtrace *)

\* What the backtrace holds: an address and the kind of jump.
Frames == Word \X Byte

\* The open calls are listed by b, in the order at gives them.
ListsBy(b, open, at) ==
    /\ at \in [DOMAIN open -> DOMAIN b]
    /\ \A i \in DOMAIN open : b[at[i]] = <<open[i], JSR>>
    /\ \A i, j \in DOMAIN open : i < j => at[i] < at[j]

\* They are, in some way.
Lists(b, open) == \E at : ListsBy(b, open, at)

\* Listed is said of the backtrace as it stands.
LEMMA ListedIs == ASSUME NEW open PROVE Listed(open) <=> Lists(btrace, open)
BY DEF Listed, Lists, ListsBy

\* pop_back() takes the last element off, and keeps the others where they were.
LEMMA PopBackIs ==
  ASSUME NEW S, NEW s \in Seq(S), s # << >>
  PROVE  /\ pop_back(s) \in Seq(S) /\ Len(pop_back(s)) = Len(s) - 1 /\ Len(s) >= 1
         /\ \A i \in 1 .. Len(s) - 1 : pop_back(s)[i] = s[i]
<1>1. Len(s) >= 1 /\ Len(s) \in Nat
  OBVIOUS
<1>2. pop_back(s) = SubSeq(s, 1, Len(s) - 1)
  BY DEF pop_back
<1>3. \A i \in 1 .. Len(s) - 1 : s[i] \in S
  OBVIOUS
<1>4. pop_back(s) \in Seq(S)
  BY <1>1, <1>2, <1>3
<1>5. Len(pop_back(s)) = Len(s) - 1
  <2>1. CASE Len(s) = 1
    BY <1>1, <1>2, <2>1
  <2>2. CASE Len(s) >= 2
    BY <1>1, <1>2, <2>2
  <2>3. ASSUME NEW k \in Nat, k >= 1 PROVE k = 1 \/ k >= 2
    BY <2>3
  <2>4. QED
    BY <1>1, <2>1, <2>2, <2>3, Zenon
<1>6. \A i \in 1 .. Len(s) - 1 : pop_back(s)[i] = s[i]
  BY <1>1, <1>2, <1>3
<1>7. QED
  BY <1>1, <1>4, <1>5, <1>6

\* Anything put on top of the backtrace leaves the calls listed.
LEMMA ListsMore ==
  ASSUME NEW b \in Seq(Frames), NEW open \in Seq(Word), Lists(b, open), NEW e \in Frames
  PROVE  Lists(Append(b, e), open)
<1>1. PICK at : ListsBy(b, open, at)
  BY DEF Lists
<1>2. ListsBy(Append(b, e), open, at)
  BY <1>1 DEF ListsBy
<1>3. QED
  BY <1>2 DEF Lists

\* A call is put on top of both.
LEMMA ListsCall ==
  ASSUME NEW b \in Seq(Frames), NEW open \in Seq(Word), Lists(b, open),
         NEW pc \in Word, <<pc, JSR>> \in Frames
  PROVE  Lists(Append(b, <<pc, JSR>>), Append(open, pc))
<1> DEFINE e == <<pc, JSR>>
           o == Append(open, pc)
           d == Append(b, e)
<1>1. PICK at : ListsBy(b, open, at)
  BY DEF Lists
<1> DEFINE up == [i \in DOMAIN o |-> IF i = Len(o) THEN Len(d) ELSE at[i]]
<1>2. /\ o \in Seq(Word) /\ Len(o) = Len(open) + 1 /\ o[Len(o)] = pc
      /\ \A i \in 1 .. Len(open) : o[i] = open[i]
  OBVIOUS
<1>3. /\ d \in Seq(Frames) /\ Len(d) = Len(b) + 1 /\ d[Len(d)] = e
      /\ \A i \in 1 .. Len(b) : d[i] = b[i]
  <2>1. e \in Frames
    OBVIOUS
  <2> HIDE DEF e
  <2>2. QED
    BY <2>1
<1>4. ListsBy(d, o, up)
  <2>1. up \in [DOMAIN o -> DOMAIN d]
    BY <1>1, <1>2, <1>3 DEF ListsBy
  <2>2. \A i \in DOMAIN o : d[up[i]] = <<o[i], JSR>>
    BY <1>1, <1>2, <1>3 DEF ListsBy
  <2>3. \A i, j \in DOMAIN o : i < j => up[i] < up[j]
    BY <1>1, <1>2, <1>3 DEF ListsBy
  <2>4. QED
    BY <2>1, <2>2, <2>3 DEF ListsBy
<1>5. QED
  BY <1>4 DEF Lists

\* A return that leaves the backtrace alone.
LEMMA ListsReturn ==
  ASSUME NEW b \in Seq(Frames), NEW open \in Seq(Word), Lists(b, open), open # << >>
  PROVE  Lists(b, pop_back(open))
<1>1. PICK at : ListsBy(b, open, at)
  BY DEF Lists
<1> DEFINE o == pop_back(open)
           down == [i \in DOMAIN o |-> at[i]]
<1>2. /\ o \in Seq(Word) /\ Len(o) = Len(open) - 1 /\ Len(open) >= 1
      /\ \A i \in 1 .. Len(open) - 1 : o[i] = open[i]
  BY PopBackIs, Zenon
<1> HIDE DEF o
<1>3. ListsBy(b, o, down)
  BY <1>1, <1>2 DEF ListsBy
<1>4. QED
  BY <1>3 DEF Lists, o

\* A return that takes the top off both.
LEMMA ListsPop ==
  ASSUME NEW b \in Seq(Frames), NEW open \in Seq(Word), Lists(b, open), b # << >>
  PROVE  Lists(pop_back(b), IF open # << >> THEN pop_back(open) ELSE open)
<1>1. PICK at : ListsBy(b, open, at)
  BY DEF Lists
<1> DEFINE c == pop_back(b)
           o == pop_back(open)
           down == [i \in DOMAIN o |-> at[i]]
<1>2. /\ c \in Seq(Frames) /\ Len(c) = Len(b) - 1 /\ Len(b) >= 1
      /\ \A i \in 1 .. Len(b) - 1 : c[i] = b[i]
  BY PopBackIs, Zenon
<1> HIDE DEF c
<1>3. CASE open # << >>
  <2>1. /\ o \in Seq(Word) /\ Len(o) = Len(open) - 1 /\ Len(open) >= 1
        /\ \A i \in 1 .. Len(open) - 1 : o[i] = open[i]
    BY <1>3, PopBackIs, Zenon
  <2> HIDE DEF o
  <2>2. ASSUME NEW i \in DOMAIN o PROVE at[i] \in 1 .. Len(c)
    <3>1. i \in DOMAIN open /\ Len(open) \in DOMAIN open /\ i < Len(open)
      BY <2>1
    <3>2. at[i] < at[Len(open)] /\ at[Len(open)] \in 1 .. Len(b) /\ at[i] \in 1 .. Len(b)
      BY <1>1, <3>1 DEF ListsBy
    <3>3. QED
      BY <1>2, <3>2
  <2>3. ListsBy(c, o, down)
    <3>1. down \in [DOMAIN o -> DOMAIN c]
      BY <1>2, <2>2
    <3>2. ASSUME NEW i \in DOMAIN o PROVE c[down[i]] = <<o[i], JSR>>
      <4>1. i \in DOMAIN open /\ o[i] = open[i]
        BY <2>1
      <4>2. b[at[i]] = <<open[i], JSR>>
        BY <1>1, <4>1 DEF ListsBy
      <4>3. c[at[i]] = b[at[i]]
        BY <1>2, <2>2
      <4>4. QED
        BY <4>1, <4>2, <4>3
    <3>3. \A i, j \in DOMAIN o : i < j => down[i] < down[j]
      BY <1>1, <2>1 DEF ListsBy
    <3>4. QED
      BY <3>1, <3>2, <3>3 DEF ListsBy
  <2>4. QED
    BY <1>3, <2>3 DEF Lists, c, o
<1>4. CASE open = << >>
  <2>1. ListsBy(c, open, << >>)
    BY <1>4 DEF ListsBy
  <2>2. QED
    BY <1>4, <2>1 DEF Lists, c
<1>5. QED
  BY <1>3, <1>4

\* The calls that the backtrace has been told of: at the fetch of an instruction it
\* foresees what the instruction does.
Foreseen == IF pos >= 1 /\ Instr(cpu) /\ phase # "undefined"
            THEN Opened(Call(cpu).id, cpu.pc) ELSE calls

\* The backtrace lists them, unless nobody listens or an opcode was overwritten.
CInv ==
    /\ btrace \in Seq(Frames) /\ calls \in Seq(Word)
    /\ ~quit /\ ~patched => Lists(btrace, Foreseen)

\* A call that fetches an instruction reports its pc and opcode first.
LEMMA FirstAccess ==
  ASSUME TInv, Instr(cpu)
  PROVE  /\ Log[1].mode = "x" /\ Log[1].at.pc = cpu.pc /\ Opcode(Log[1]) = Call(cpu).id
         /\ Call(cpu).id \in Byte
<1> DEFINE g == Fresh(cpu)
           b == [g EXCEPT !.log = << >>]
<1>1. cpu \in CPUs
  BY DEF TInv
<1>2. Log[1] = Entry(g, "x", cpu.pc) /\ Call(cpu).id = Read(cpu, cpu.pc)
  BY LogIs DEF Shaped, Log
<1>3. Log[1].mode = "x" /\ Log[1].at = b
  BY <1>2 DEF Entry
<1>4. b.pc = cpu.pc /\ b.ram = cpu.ram /\ b.rom = cpu.rom
  BY <1>1, Zenon DEF Fresh, CPUs, CPUsWith
<1> HIDE DEF b
<1>5. Opcode(Log[1]) = Read(b, cpu.pc)
  BY <1>3, <1>4 DEF Opcode
<1>6. Read(b, cpu.pc) = Read(cpu, cpu.pc)
  BY <1>4, SameMemory, Zenon
<1>7. Read(cpu, cpu.pc) \in Byte
  BY <1>1, ReadIsByte, Zenon
<1>8. QED
  BY <1>2, <1>3, <1>4, <1>5, <1>6, <1>7, SMTT(30)

\* The calls that are open, case by case: a JSR opens one, an RTS closes the last.
LEMMA OpenedIs ==
  ASSUME calls \in Seq(Word), NEW id, NEW pc \in Word
  PROVE  /\ Opened(id, pc) \in Seq(Word)
         /\ id = JSR => Opened(id, pc) = Append(calls, pc)
         /\ id = RTS => Opened(id, pc) = IF calls # << >> THEN pop_back(calls) ELSE calls
         /\ id # JSR /\ id # RTS => Opened(id, pc) = calls
<1>1. JSR # RTS
  BY DEF JSR, RTS
<1>2. calls # << >> => pop_back(calls) \in Seq(Word)
  BY PopBackIs, Zenon
<1>3. Append(calls, pc) \in Seq(Word)
  OBVIOUS
<1>4. QED
  BY <1>1, <1>2, <1>3 DEF Opened

\* What update_backtrace() makes of b at the fetch of the instruction id at pc.
Updated(b, id, pc) ==
    IF is_jump(id) THEN Append(b, <<pc, id>>)
    ELSE IF id = RTS /\ back(b)[2] = JSR THEN pop_back(b) ELSE b

\* update_backtrace() does for the list what the instruction does for the open calls.
LEMMA BacktraceFollows ==
  ASSUME NEW b \in Seq(Frames), calls \in Seq(Word), Lists(b, calls),
         NEW id \in Byte, NEW pc \in Word, ~(id = RTS /\ b = << >>)
  PROVE  Lists(Updated(b, id, pc), Opened(id, pc))
<1> DEFINE e == <<pc, id>>
           d == Updated(b, id, pc)
           o == Opened(id, pc)
           rest == IF calls # << >> THEN pop_back(calls) ELSE calls
<1>1. e \in Frames
  BY DEF Frames
<1>2. is_jump(JSR) /\ ~is_jump(RTS) /\ JSR # RTS
  BY DEF is_jump, JSR, RTS
<1>3. d = IF is_jump(id) THEN Append(b, e)
          ELSE IF id = RTS /\ back(b)[2] = JSR THEN pop_back(b) ELSE b
  BY DEF Updated
<1>4. CASE id = JSR
  <2>1. d = Append(b, <<pc, JSR>>) /\ o = Append(calls, pc)
    BY <1>2, <1>3, <1>4, OpenedIs
  <2>2. Lists(Append(b, <<pc, JSR>>), Append(calls, pc))
    BY <1>1, <1>4, ListsCall
  <2>3. QED
    BY <2>1, <2>2, Zenon
<1> HIDE DEF d, e, o
<1>5. CASE id = RTS
  <2>1. o = rest /\ b # << >>
    BY <1>5, OpenedIs DEF o
  <2>2. Lists(pop_back(b), rest) /\ Lists(b, rest)
    BY <2>1, ListsPop, ListsReturn, Zenon
  <2>3. d = pop_back(b) \/ d = b
    BY <1>2, <1>3, <1>5
  <2>4. QED
    BY <2>1, <2>2, <2>3, Zenon DEF d, o
<1>6. CASE id # JSR /\ id # RTS
  <2>1. o = calls /\ (d = Append(b, e) \/ d = b)
    BY <1>3, <1>6, OpenedIs DEF o
  <2>2. Lists(Append(b, e), calls)
    BY <1>1, ListsMore, Zenon
  <2>3. QED
    BY <2>1, <2>2, Zenon DEF d, o
<1>7. QED
  BY <1>4, <1>5, <1>6

\* The backtrace stays a list of addresses with the opcodes that jumped.
LEMMA BacktraceIs ==
  ASSUME NEW b \in Seq(Frames), NEW id \in Byte, NEW pc \in Word, ~(id = RTS /\ b = << >>)
  PROVE  Updated(b, id, pc) \in Seq(Frames)
<1> DEFINE e == <<pc, id>>
<1>1. e \in Frames
  BY DEF Frames
<1>2. Append(b, e) \in Seq(Frames)
  <2> HIDE DEF e
  <2>1. QED
    BY <1>1
<1>3. b # << >> => pop_back(b) \in Seq(Frames)
  BY PopBackIs, Zenon
<1>4. QED
  BY <1>2, <1>3 DEF Updated

\* No call is open at first.
LEMMA CInvInit == Init => CInv
<1> SUFFICES ASSUME Init PROVE CInv
  OBVIOUS
<1>1. Foreseen = << >> /\ btrace = << >> /\ calls = << >>
  BY DEF Init, Foreseen
<1>2. ListsBy(<< >>, << >>, << >>)
  BY DEF ListsBy
<1>3. QED
  BY <1>1, <1>2 DEF CInv, Lists

\* Every step keeps the open calls listed, in the middle of a call by what the opcode
\* that was reported will do.
LEMMA CInvStep ==
  TInv /\ CInv /\ [Next]_vars => CInv'
<1> SUFFICES ASSUME TInv, CInv, [Next]_vars PROVE CInv'
  OBVIOUS
<1> USE DEF CInv
<1>0. Shaped(cpu, Call(cpu)) /\ cpu \in CPUs /\ cpu.pc \in Word /\ pos \in Nat /\ Len(Log) \in Nat
  <2>1. Log \in Seq(Accesses) /\ Shaped(cpu, Call(cpu))
    BY LogIs
  <2>2. cpu \in CPUs /\ pos \in Nat
    BY DEF TInv
  <2>3. QED
    BY <2>1, <2>2, Fields
<1>1. CASE fetch_callback
  <2> DEFINE a == Log[pos + 1]
  <2>1. /\ cpu' = cpu /\ quit' = quit /\ pos' = pos + 1 /\ pos < Len(Log) /\ phase = "run"
        /\ patched' = patched /\ calls' = calls
    BY <1>1 DEF fetch_callback, Remember
  <2>4. pos + 1 \in Nat /\ 1 <= pos + 1 /\ pos + 1 <= Len(Log) /\ pos + 1 >= 1
    BY <1>0, <2>1
  <2>5. CASE a.mode = "x"
    <3>1. pos + 1 = 1 /\ Instr(cpu)
      BY <2>4, <2>5, FetchIsFirst, Zenon
    <3>2. ~(pos >= 1)
      BY <1>0, <3>1
    <3> DEFINE id == Call(cpu).id
    <3>3. a.at.pc = cpu.pc /\ Opcode(a) = id /\ id \in Byte
      BY <3>1, FirstAccess
    <3>4. Foreseen = calls
      BY <3>2 DEF Foreseen
    <3>5. CASE quit
      BY <1>1, <2>1, <3>5 DEF fetch_callback
    <3>6. CASE ~quit /\ Undefined(a)
      <4>1. phase' = "undefined" /\ btrace' = btrace
        BY <1>1, <3>6 DEF fetch_callback
      <4>2. Foreseen' = calls
        BY <2>1, <4>1 DEF Foreseen
      <4>3. QED
        BY <2>1, <3>4, <4>1, <4>2
    <3>7. CASE ~quit /\ ~Undefined(a)
      <4>1. update_backtrace(a)
        BY <1>1, <3>7 DEF fetch_callback
      <4>2. btrace' = Updated(btrace, id, cpu.pc)
        BY <2>5, <3>3, <4>1 DEF update_backtrace, Updated
      <4>3. ~(id = RTS /\ btrace = << >>)
        BY <2>5, <3>3, <3>7 DEF Undefined
      <4>4. phase' # "undefined"
        <5>1. phase' = "break" \/ check_nextstop(a, nextstop)
          BY <1>1, <3>7 DEF fetch_callback
        <5>2. QED
          BY <5>1 DEF check_nextstop
      <4>5. Foreseen' = Opened(id, cpu.pc)
        BY <2>1, <2>4, <3>1, <4>4 DEF Foreseen, Opened
      <4>6. btrace' \in Seq(Frames)
        BY <1>0, <3>3, <4>2, <4>3, BacktraceIs, Zenon
      <4>7. ~quit /\ ~patched => Lists(btrace', Opened(id, cpu.pc))
        BY <1>0, <3>3, <3>4, <4>2, <4>3, BacktraceFollows, Zenon
      <4>8. QED
        BY <2>1, <4>5, <4>6, <4>7
    <3>8. QED
      BY <3>5, <3>6, <3>7
  <2>6. CASE a.mode # "x"
    <3>1. btrace' = btrace /\ phase' # "undefined"
      <4>1. ~Undefined(a)
        BY <2>6 DEF Undefined
      <4>2. btrace' = btrace
        BY <1>1, <2>6, <4>1, Zenon DEF fetch_callback, update_backtrace
      <4>3. phase' = phase \/ phase' = "break" \/ check_nextstop(a, nextstop)
        BY <1>1, <4>1 DEF fetch_callback
      <4>4. QED
        BY <2>1, <4>2, <4>3 DEF check_nextstop
    <3>2. Instr(cpu) => pos >= 1
      <4>1. Instr(cpu) => pos # 0
        BY <2>6, FirstAccess
      <4>2. QED
        BY <1>0, <4>1
    <3>3. Foreseen' = Foreseen
      BY <2>1, <2>4, <3>1, <3>2 DEF Foreseen, Opened
    <3>4. QED
      BY <2>1, <3>1, <3>3
  <2>7. QED
    BY <2>5, <2>6
<1>2. CASE return
  <2>1. /\ cpu' = [Call(cpu) EXCEPT !.log = << >>] /\ pos' = 0 /\ phase = "run" /\ pos = Len(Log)
        /\ calls' = Opened(cpu'.id, cpu.pc)
        /\ btrace' = btrace /\ quit' = quit /\ patched' = patched
    BY <1>2 DEF return, debugger
  <2>2. cpu'.id = Call(cpu).id
    BY <1>0, <2>1, Cleared, Zenon DEF Shaped, Ctl
  <2>3. calls' \in Seq(Word)
    BY <1>0, <2>1, OpenedIs
  <2>4. Foreseen' = calls'
    BY <2>1 DEF Foreseen
  <2>5. Foreseen = calls'
    <3>1. CASE Instr(cpu)
      <4>1. pos >= 1
        BY <1>0, <2>1, <3>1 DEF Shaped, Log
      <4>2. QED
        BY <2>1, <2>2, <3>1, <4>1 DEF Foreseen
    <3>2. CASE ~Instr(cpu)
      <4>1. Call(cpu).id = NO_ID
        BY <1>0, <3>2 DEF Shaped
      <4>2. NO_ID # JSR /\ NO_ID # RTS
        BY DEF NO_ID, JSR, RTS
      <4>3. calls' = calls
        BY <1>0, <2>1, <2>2, <4>1, <4>2, OpenedIs
      <4>4. QED
        BY <3>2, <4>3 DEF Foreseen
    <3>3. QED
      BY <3>1, <3>2
  <2>6. QED
    BY <2>1, <2>3, <2>4, <2>5
<1>3. CASE signal
  <2>1. /\ pos' = 0 /\ pos = 0 /\ btrace' = btrace
        /\ quit' = quit /\ patched' = patched /\ calls' = calls
    BY <1>3 DEF signal, debugger, history
  <2>2. Foreseen' = calls /\ Foreseen = calls
    BY <2>1 DEF Foreseen
  <2>3. QED
    BY <2>1, <2>2
<1>4. CASE continue_exec \/ runframe \/ step \/ next \/ set_quit
  <2>1. Prompt /\ Resumes /\ (quit' = quit \/ quit' = TRUE)
    BY <1>4, ResumesBy, Zenon
  <2>2. /\ phase' \in {"run", "fetch"} /\ cpu' = cpu /\ pos' = pos /\ patched' = patched
        /\ calls' = calls /\ btrace' = btrace
    BY <2>1, LeaveIs, Zenon DEF Resumes
  <2>3. phase' # "undefined" /\ phase # "undefined"
    BY <2>1, <2>2 DEF Prompt
  <2>4. Foreseen' = Foreseen
    BY <2>2, <2>3 DEF Foreseen, Opened
  <2>5. QED
    BY <2>1, <2>2, <2>4
<1>5. CASE \/ \E b \in Breaks : setbreak(b)
           \/ \E i \in 1 .. MAXBREAKS : delbreak(i)
           \/ UNCHANGED vars
  <2>1. UNCHANGED <<cpu, pos, phase, quit, patched, calls, btrace>>
    BY <1>5 DEF setbreak, delbreak, vars, debugger, history
  <2>2. Foreseen' = Foreseen
    BY <2>1 DEF Foreseen, Opened
  <2>3. QED
    BY <2>1, <2>2
<1>6. CASE \E p \in Pokes : write(p)
  <2>1. PICK p \in Pokes : write(p)
    BY <1>6
  <2>2. UNCHANGED <<pos, phase, quit, btrace, calls>>
    BY <2>1 DEF write, debugger
  <2>3. patched' = (patched \/ Read(cpu', cpu.pc) # Read(cpu, cpu.pc))
    BY <2>1 DEF write
  <2>4. cpu' \in CPUs /\ cpu'.pc = cpu.pc /\ Instr(cpu) /\ Instr(cpu')
    BY <2>1, WriteIs, SMTT(30)
  <2>5. Call(cpu).id = Read(cpu, cpu.pc) /\ Call(cpu').id = Read(cpu', cpu.pc)
    BY <1>0, <2>4, CallShape DEF Shaped
  <2>6. ~patched' => ~patched /\ Foreseen' = Foreseen
    BY <2>2, <2>3, <2>4, <2>5, Zenon DEF Foreseen, Opened
  <2>7. QED
    BY <2>2, <2>6
<1>7. QED
  BY <1>1, <1>2, <1>3, <1>4, <1>5, <1>6, SMTT(30) DEF Next, command

-------------------------------------------------------------------------------
(* Interrupts *)

\* What of a machine the module Interrupts sees.
Seen(m) == <<m.nmipending, m.irqpending, m.execnmi, m.execirq, m.f.intdis, m.f.breakf,
             m.cycles, m.vec, m.cause, m.pushedB>>

\* A machine that is about to enter a handler, with the break flag e.
Ready(m, e) ==
    /\ m.resetpending = FALSE /\ m.nmipending = cpu.nmipending /\ m.irqpending = cpu.irqpending
    /\ m.f.breakf = e

\* The call left what the entry of the handler made of the machine.
Left(n) ==
    /\ cpu'.vec = n.vec /\ cpu'.cause = n.cause /\ cpu'.pushedB = n.pushedB
    /\ cpu'.nmipending = n.nmipending /\ cpu'.irqpending = n.irqpending
    /\ cpu'.f.intdis = n.f.intdis /\ cpu'.f.breakf = n.f.breakf

\* A call that enters a handler is a step of Interrupts.
LEMMA EntersAs ==
  ASSUME NEW m, NEW n, NEW q, NEW e, Enters(m, n, q), Ready(m, e), Left(n)
  PROVE  Abstract!interrupt(q, FALSE, e)
<1>1. cpu'.vec = IF FALSE THEN RESET_VEC ELSE IF cpu.nmipending THEN NMI_VEC ELSE IRQ_BRK_VEC
  BY Zenon DEF Enters, Vector, Ready, Left
<1>2. /\ cpu'.nmipending = (cpu.nmipending /\ FALSE)
      /\ cpu'.irqpending = (cpu.irqpending /\ (FALSE \/ cpu.nmipending))
  BY Zenon DEF Enters, Ready, Left
<1>3. cpu'.f.intdis = TRUE /\ cpu'.f.breakf = FALSE /\ cpu'.pushedB = e /\ cpu'.cause = q
  BY Zenon DEF Enters, Ready, Left
<1>4. QED
  BY <1>1, <1>2, <1>3 DEF Abstract!interrupt

\* power() is its power().
LEMMA PowersAs ==
  ASSUME TInv, cpu.resetpending, Seen(cpu') = Seen(Call(cpu))
  PROVE  Abstract!power
<1> DEFINE g == Fresh(cpu)
           n == Call(cpu)
<1>1. cpu \in CPUs /\ cpu.f.breakf = FALSE
  BY DEF TInv
<1>2. Enters(g, n, "reset") /\ Signals(g) = Signals(cpu) /\ g.cycles = 0
  BY <1>1, CallRuns, FreshIs DEF CallDoes
<1> HIDE DEF g, n
<1>3. /\ g.nmipending = cpu.nmipending /\ g.irqpending = cpu.irqpending
      /\ g.resetpending = cpu.resetpending
      /\ g.execnmi = cpu.execnmi /\ g.execirq = cpu.execirq
      /\ g.f = cpu.f /\ g.pushedB = cpu.pushedB
  BY <1>2 DEF Signals
<1>4. Vector(g) = RESET_VEC
  BY <1>3 DEF Vector
<1>5. /\ n.vec = RESET_VEC /\ n.cause = "reset" /\ n.pushedB = FALSE
      /\ n.nmipending = (cpu.nmipending /\ TRUE)
      /\ n.irqpending = (cpu.irqpending /\ (TRUE \/ cpu.nmipending))
      /\ n.f.intdis = TRUE /\ n.f.breakf = FALSE
      /\ n.execnmi = cpu.execnmi /\ n.execirq = cpu.execirq /\ n.cycles = 0 + 6
  <2>1. cpu.resetpending = TRUE
    BY <1>1, FlagFields, Zenon
  <2>2. QED
    BY <1>1, <1>2, <1>3, <1>4, <2>1, Zenon DEF Enters
<1>6. /\ cpu'.vec = n.vec /\ cpu'.cause = n.cause
      /\ cpu'.pushedB = n.pushedB /\ cpu'.cycles = n.cycles
      /\ cpu'.nmipending = n.nmipending /\ cpu'.irqpending = n.irqpending
      /\ cpu'.f.intdis = n.f.intdis /\ cpu'.f.breakf = n.f.breakf
      /\ cpu'.execnmi = n.execnmi /\ cpu'.execirq = n.execirq
  BY DEF Seen, n
<1>7. Abstract!interrupt("reset", TRUE, FALSE)
  BY <1>5, <1>6, SMTT(30) DEF Abstract!interrupt
<1>8. cpu'.cycles = 6
  BY <1>5, <1>6
<1>9. QED
  BY <1>5, <1>6, <1>7, <1>8, Zenon DEF Abstract!power, Abstract!InterruptCycles

\* A call that serves an NMI or an IRQ is its run_nmi or run_irq.
LEMMA AcceptsAs ==
  ASSUME TInv, ~cpu.resetpending, cpu.execnmi \/ cpu.execirq, Seen(cpu') = Seen(Call(cpu))
  PROVE  Abstract!run_nmi \/ Abstract!run_irq
<1> DEFINE g == Fresh(cpu)
           h == cycle(g)
           n == Call(cpu)
<1>1. cpu \in CPUs
  BY DEF TInv
<1>2. /\ g \in CPUs /\ Signals(g) = Signals(cpu) /\ g.cycles = 0
      /\ g.vec = NO_VEC /\ g.cause = "none"
  BY <1>1, FreshIs, Zenon
<1>3. /\ cpu.execnmi => \E o : Enters(h, o, "nmi") /\ n = [o EXCEPT !.execnmi = FALSE]
      /\ ~cpu.execnmi => \E o : Enters(h, o, "irq") /\ n = [o EXCEPT !.execirq = FALSE]
  BY <1>1, CallRuns DEF CallDoes
<1> HIDE DEF g, n
<1>4. /\ h.nmipending = g.nmipending /\ h.irqpending = g.irqpending
      /\ h.resetpending = g.resetpending
      /\ h.execnmi = g.execnmi /\ h.execirq = g.execirq /\ h.f = g.f /\ h.pushedB = g.pushedB
      /\ h.vec = g.vec /\ h.cause = g.cause /\ h.cycles = g.cycles + 1
  BY <1>2, Zenon DEF cycle, CPUs, CPUsWith
<1> HIDE DEF h
<1>5. h.cycles = 1
  BY <1>2, <1>4
<1>6. /\ h.nmipending = cpu.nmipending /\ h.irqpending = cpu.irqpending
      /\ h.execnmi = cpu.execnmi /\ h.execirq = cpu.execirq
      /\ h.f = cpu.f /\ h.pushedB = cpu.pushedB
  BY <1>2, <1>4 DEF Signals
<1>7. h.resetpending = FALSE
  <2>1. cpu.resetpending \in BOOLEAN
    BY <1>1, FlagFields, Zenon
  <2>2. h.resetpending = cpu.resetpending
    BY <1>2, <1>4 DEF Signals
  <2>3. QED
    BY <2>1, <2>2
<1>8. Ready(h, cpu.f.breakf)
  BY <1>6, <1>7, Zenon DEF Ready
<1>9. /\ cpu'.vec = n.vec /\ cpu'.cause = n.cause
      /\ cpu'.pushedB = n.pushedB /\ cpu'.cycles = n.cycles
      /\ cpu'.nmipending = n.nmipending /\ cpu'.irqpending = n.irqpending
      /\ cpu'.f.intdis = n.f.intdis /\ cpu'.f.breakf = n.f.breakf
      /\ cpu'.execnmi = n.execnmi /\ cpu'.execirq = n.execirq
  BY DEF Seen, n
<1>10. ASSUME NEW o, NEW q, Enters(h, o, q),
              n = [o EXCEPT !.execnmi = FALSE] \/ n = [o EXCEPT !.execirq = FALSE]
       PROVE  Abstract!interrupt(q, FALSE, cpu.f.breakf) /\ cpu'.cycles = 7
  <2>1. o \in CPUs /\ o.cycles = h.cycles + 6
    BY <1>10, Zenon DEF Enters
  <2>2. /\ n.vec = o.vec /\ n.cause = o.cause /\ n.pushedB = o.pushedB /\ n.cycles = o.cycles
        /\ n.nmipending = o.nmipending /\ n.irqpending = o.irqpending /\ n.f = o.f
    BY <1>10, <2>1, ZenonT(60) DEF CPUs, CPUsWith
  <2>3. cpu'.cycles = 7
    BY <1>5, <1>9, <2>1, <2>2
  <2>4. Left(o)
    BY <1>9, <2>2, Zenon DEF Left
  <2>5. Abstract!interrupt(q, FALSE, cpu.f.breakf)
    BY <1>8, <1>10, <2>4, EntersAs, Zenon
  <2>6. QED
    BY <2>3, <2>5, Zenon
<1>11. CASE cpu.execnmi
  <2>1. PICK o : Enters(h, o, "nmi") /\ n = [o EXCEPT !.execnmi = FALSE]
    BY <1>3, <1>11
  <2>2. Abstract!interrupt("nmi", FALSE, cpu.f.breakf) /\ cpu'.cycles = 7
    BY <1>10, <2>1, Zenon
  <2>3. o \in CPUs /\ o.execirq = h.execirq
    BY <2>1, Zenon DEF Enters
  <2>4. n.execnmi = FALSE /\ n.execirq = o.execirq
    BY <2>1, <2>3, Zenon DEF CPUs, CPUsWith
  <2>5. cpu'.cycles = 1 + 6
    BY <2>2
  <2>6. cpu'.execnmi = FALSE /\ cpu'.execirq = cpu.execirq
    BY <1>6, <1>9, <2>3, <2>4, Zenon
  <2>7. QED
    BY <1>11, <2>2, <2>5, <2>6, Zenon DEF Abstract!run_nmi, Abstract!InterruptCycles
<1>12. CASE ~cpu.execnmi
  <2>1. PICK o : Enters(h, o, "irq") /\ n = [o EXCEPT !.execirq = FALSE]
    BY <1>3, <1>12
  <2>2. Abstract!interrupt("irq", FALSE, cpu.f.breakf) /\ cpu'.cycles = 7
    BY <1>10, <2>1, Zenon
  <2>3. o \in CPUs /\ o.execnmi = h.execnmi
    BY <2>1, Zenon DEF Enters
  <2>4. n.execirq = FALSE /\ n.execnmi = o.execnmi
    BY <2>1, <2>3, Zenon DEF CPUs, CPUsWith
  <2>5. cpu'.cycles = 1 + 6
    BY <2>2
  <2>6. cpu'.execirq = FALSE /\ cpu'.execnmi = cpu.execnmi
    BY <1>6, <1>9, <2>3, <2>4, Zenon
  <2>7. QED
    BY <1>12, <2>2, <2>5, <2>6, Zenon DEF Abstract!run_irq, Abstract!InterruptCycles
<1>13. QED
  BY <1>11, <1>12

\* A call that fetches an instruction is its execute, whatever the opcode.
LEMMA ExecutesAs ==
  ASSUME TInv, Instr(cpu), Seen(cpu') = Seen(Call(cpu))
  PROVE  Abstract!execute
<1> DEFINE g == Fresh(cpu)
           n == Call(cpu)
<1>1. cpu \in CPUs
  BY DEF TInv
<1>2. Signals(g) = Signals(cpu) /\ g.cycles = 0 /\ g.vec = NO_VEC /\ g.cause = "none"
  BY <1>1, FreshIs, Zenon
<1>3. PICK m : Fetched(g, m) /\ Ran(m, n)
  BY <1>1, CallRuns DEF CallDoes
<1>4. /\ cpu'.vec = n.vec /\ cpu'.cause = n.cause
      /\ cpu'.pushedB = n.pushedB /\ cpu'.cycles = n.cycles
      /\ cpu'.nmipending = n.nmipending /\ cpu'.irqpending = n.irqpending
      /\ cpu'.f.intdis = n.f.intdis /\ cpu'.f.breakf = n.f.breakf
      /\ cpu'.execnmi = n.execnmi /\ cpu'.execirq = n.execirq
  BY DEF Seen
<1> HIDE DEF g, n
<1>5. /\ m \in CPUs
      /\ m.nmipending = cpu.nmipending /\ m.irqpending = cpu.irqpending
      /\ m.resetpending = cpu.resetpending
      /\ m.execnmi = cpu.execnmi /\ m.execirq = cpu.execirq
      /\ m.f = cpu.f /\ m.pushedB = cpu.pushedB
      /\ m.vec = NO_VEC /\ m.cause = "none"
  BY <1>2, <1>3 DEF Fetched, Signals
<1>6. m.cycles = 1
  <2>1. m.cycles = g.cycles + 1
    BY <1>3, Zenon DEF Fetched
  <2>2. QED
    BY <1>2, <2>1
<1>7. ~cpu.execnmi /\ ~cpu.execirq
  BY DEF Instr
<1>8. ASSUME NEW k \in Nat, NEW i, NEW d, NEW b, Polls(m, n, k, i, d, b)
      PROVE  Abstract!PollsWith(i, k + 1) /\ cpu'.f.intdis = d /\ cpu'.f.breakf = b
  <2>1. n \in CPUs /\ Rest(n) = Rest(m) /\ n.cycles = m.cycles + k
    BY <1>8 DEF Polls, Runs
  <2>2. /\ n.nmipending = m.nmipending /\ n.irqpending = m.irqpending /\ n.vec = m.vec
        /\ n.cause = m.cause /\ n.pushedB = m.pushedB
    BY <2>1 DEF Rest
  <2>3. n.cycles = k + 1
    BY <1>6, <2>1
  <2>4. n.execnmi \in BOOLEAN /\ n.execirq \in BOOLEAN
    BY <2>1, FlagFields, Zenon
  <2>5. /\ n.execnmi = (cpu.execnmi \/ cpu.nmipending)
        /\ n.execirq = (cpu.execirq \/ (~i /\ cpu.irqpending))
    BY <1>5, <1>8, <2>4, ZenonT(60) DEF Polls
  <2>6. Abstract!Executes(k + 1) /\ Abstract!NoInterrupt
    BY <1>4, <1>5, <1>7, <2>2, <2>3, SMTT(30) DEF Abstract!Executes, Abstract!NoInterrupt
  <2>7. Abstract!last_cycle(i)
    BY <1>4, <2>5 DEF Abstract!last_cycle, Abstract!nmipoll, Abstract!irqpoll
  <2>8. cpu'.nmipending = cpu.nmipending /\ cpu'.irqpending = cpu.irqpending
    BY <1>4, <1>5, <2>2
  <2>9. n.f.intdis = d /\ n.f.breakf = b
    BY <1>8 DEF Polls
  <2>10. QED
    BY <1>4, <2>6, <2>7, <2>8, <2>9, SMTT(30) DEF Abstract!PollsWith
<1>9. CASE \E k \in 1 .. 6 : PollsOnly(m, n, k)
  <2>1. PICK k \in 1 .. 6 : PollsOnly(m, n, k)
    BY <1>9
  <2>2. k \in Nat
    OBVIOUS
  <2>3. /\ Abstract!PollsWith(cpu.f.intdis, k + 1)
        /\ cpu'.f.intdis = cpu.f.intdis /\ cpu'.f.breakf = cpu.f.breakf
    BY <1>5, <1>8, <2>1, <2>2 DEF PollsOnly
  <2>4. Abstract!Plain(k + 1)
    BY <2>3 DEF Abstract!Plain
  <2>5. k + 1 \in 2 .. 6 \/ k + 1 \in {2, 5, 6, 7}
    OBVIOUS
  <2>6. Abstract!addrmode_read \/ Abstract!addrmode_modify
    BY <2>4, <2>5 DEF Abstract!addrmode_read, Abstract!addrmode_modify
  <2>7. QED
    BY <2>6 DEF Abstract!execute, Abstract!execute_polling
<1>10. CASE Polls(m, n, 2, m.f.intdis, m.f.intdis, FALSE)
  <2> DEFINE was == cpu.f.intdis
             no == FALSE
  <2>0. Polls(m, n, 2, was, was, no)
    BY <1>5, <1>10, Zenon
  <2> HIDE DEF was, no
  <2>1. Abstract!PollsWith(was, 2 + 1) /\ cpu'.f.intdis = was /\ cpu'.f.breakf = no
    BY <1>8, <2>0
  <2>2. Abstract!instr_php
    BY <2>1 DEF was, no, Abstract!instr_php
  <2>3. QED
    BY <2>2 DEF Abstract!execute, Abstract!execute_polling
<1>11. CASE \E v \in BOOLEAN : Polls(m, n, 1, m.f.intdis, v, m.f.breakf)
  <2>1. PICK v \in BOOLEAN : Polls(m, n, 1, m.f.intdis, v, m.f.breakf)
    BY <1>11
  <2>2. Abstract!PollsWith(cpu.f.intdis, 1 + 1) /\ cpu'.f.intdis = v /\ cpu'.f.breakf = cpu.f.breakf
    BY <1>5, <1>8, <2>1
  <2>3. Abstract!instr_flag(v)
    BY <2>2 DEF Abstract!instr_flag
  <2>4. QED
    BY <2>3 DEF Abstract!execute, Abstract!execute_polling
<1>12. CASE \E v \in BOOLEAN : Polls(m, n, 3, m.f.intdis, v, FALSE)
  <2>1. PICK v \in BOOLEAN : Polls(m, n, 3, m.f.intdis, v, FALSE)
    BY <1>12, Zenon
  <2>0. Polls(m, n, 3, cpu.f.intdis, v, FALSE)
    BY <1>5, <2>1, Zenon
  <2>2. Abstract!PollsWith(cpu.f.intdis, 3 + 1) /\ cpu'.f.intdis = v /\ cpu'.f.breakf = FALSE
    BY <1>8, <2>0, Zenon
  <2>3. Abstract!instr_plp(v)
    BY <2>2 DEF Abstract!instr_plp
  <2>4. QED
    BY <2>3 DEF Abstract!execute, Abstract!execute_polling
<1>13. CASE \E v \in BOOLEAN : Polls(m, n, 5, v, v, FALSE)
  <2>1. PICK v \in BOOLEAN : Polls(m, n, 5, v, v, FALSE)
    BY <1>13, Zenon
  <2>2. Abstract!PollsWith(v, 5 + 1) /\ cpu'.f.intdis = v /\ cpu'.f.breakf = FALSE
    BY <1>8, <2>1, Zenon
  <2>3. Abstract!instr_rti(v)
    BY <2>2 DEF Abstract!instr_rti
  <2>4. QED
    BY <2>3 DEF Abstract!execute, Abstract!execute_polling
<1>14. CASE LET b == [m EXCEPT !.f.breakf = TRUE] IN Enters(b, n, "brk") /\ EntersBy(b, n)
  <2> DEFINE b == [m EXCEPT !.f.breakf = TRUE]
  <2>1. Enters(b, n, "brk")
    BY <1>14
  <2>2. /\ b.nmipending = m.nmipending /\ b.irqpending = m.irqpending
        /\ b.resetpending = m.resetpending
        /\ b.execnmi = m.execnmi /\ b.execirq = m.execirq /\ b.f.intdis = m.f.intdis
        /\ b.f.breakf = TRUE /\ b.pushedB = m.pushedB
        /\ b.vec = m.vec /\ b.cause = m.cause /\ b.cycles = m.cycles
    BY <1>5, ZenonT(60) DEF CPUs, CPUsWith, FlagSets
  <2> HIDE DEF b
  <2>3. b.resetpending = FALSE
    <3>1. cpu.resetpending \in BOOLEAN /\ ~cpu.resetpending
      BY <1>1, FlagFields, Zenon DEF Instr
    <3>2. QED
      BY <1>5, <2>2, <3>1
  <2>4. Ready(b, TRUE) /\ Left(n)
    BY <1>4, <1>5, <2>2, <2>3, ZenonT(60) DEF Ready, Left
  <2>5. Abstract!interrupt("brk", FALSE, TRUE)
    BY <2>1, <2>4, EntersAs, ZenonT(60)
  <2>6. n.execnmi = cpu.execnmi /\ n.execirq = cpu.execirq /\ n.cycles = 1 + 6
    BY <1>5, <1>6, <2>1, <2>2, SMTT(30) DEF Enters
  <2>7. Abstract!Executes(1 + 6)
    BY <1>4, <1>7, <2>6, SMTT(30) DEF Abstract!Executes
  <2>8. Abstract!instr_brk
    BY <1>4, <2>5, <2>6, <2>7, Zenon DEF Abstract!instr_brk, Abstract!InterruptCycles
  <2>9. QED
    BY <2>8 DEF Abstract!execute
<1>15. CASE n = m
  <2>1. Abstract!instr_unknown
    BY <1>4, <1>5, <1>6, <1>7, <1>15, SMTT(30)
    DEF Abstract!instr_unknown, Abstract!Executes, Abstract!NoInterrupt
  <2>2. QED
    BY <2>1, SMTT(30) DEF Abstract!execute
<1>16. QED
  BY <1>3, <1>9, <1>10, <1>11, <1>12, <1>13, <1>14, <1>15, ZenonT(60) DEF Ran

\* A signal is its signal.
LEMMA SignalsAs ==
  ASSUME TInv, cpu' \in {fire_nmi(cpu), fire_irq(cpu)}
  PROVE  Abstract!fire_nmi \/ Abstract!fire_irq
<1>1. Raised(cpu, cpu')
  BY SignalRaises DEF TInv
<1>2. QED
  BY <1>1 DEF Raised, Abstract!fire_nmi, Abstract!fire_irq, Abstract!NoInterrupt

\* Before power() the abstract CPU is in its initial state.
LEMMA AbstractInit == Init => Abstract!CPUInit
<1> SUFFICES ASSUME Init PROVE Abstract!CPUInit
  OBVIOUS
<1>1. PICK rom \in Programs : cpu = PowerOn(rom)
  BY DEF Init
<1>2. cpu.f.breakf = FALSE /\ cpu.f.intdis = FALSE
  BY <1>1, PowerOnIs, ProgramIs, ZenonT(60)
<1>3. /\ cpu.nmipending = FALSE /\ cpu.irqpending = FALSE /\ cpu.execnmi = FALSE
      /\ cpu.execirq = FALSE /\ cpu.cycles = 0 /\ cpu.vec = NO_VEC /\ cpu.cause = "none"
      /\ cpu.pushedB = FALSE
  BY <1>1 DEF PowerOn
<1>4. QED
  BY <1>2, <1>3 DEF Abstract!CPUInit

\* Every step is a step of the abstract CPU, or none: a command, a report of an access
\* and the user's write leave it alone.
LEMMA AbstractStep ==
  TInv /\ [Next]_vars => [Abstract!CPUNext]_(Abstract!cpu)
<1> DEFINE Follows == [Abstract!CPUNext]_(Abstract!cpu)
<1>1. ASSUME Seen(cpu') = Seen(cpu) PROVE Follows
  BY <1>1 DEF Seen, Abstract!cpu
<1>2. ASSUME Abstract!CPUNext PROVE Follows
  BY <1>2, Zenon
<1> SUFFICES ASSUME TInv, [Next]_vars PROVE Follows
  OBVIOUS
<1> HIDE DEF Follows
<1>3. CASE return
  <2>1. cpu' = [Call(cpu) EXCEPT !.log = << >>]
    BY <1>3, Zenon DEF return
  <2>2. Call(cpu) \in CPUs
    BY LogIs, Zenon DEF Shaped
  <2>3. Ctl(cpu') = Ctl(Call(cpu)) /\ cpu'.cycles = Call(cpu).cycles
    BY <2>1, <2>2, Cleared, SMTT(30)
  <2>4. Seen(cpu') = Seen(Call(cpu))
    BY <2>3 DEF Seen, Ctl
  <2>5. Abstract!power \/ Abstract!run_nmi \/ Abstract!run_irq \/ Abstract!execute
    BY <2>4, PowersAs, AcceptsAs, ExecutesAs, Zenon DEF Instr
  <2>6. QED
    BY <1>2, <2>5, Zenon DEF Abstract!CPUNext, Abstract!run
<1>4. CASE signal
  <2>1. Abstract!fire_nmi \/ Abstract!fire_irq
    BY <1>4, SignalsAs, Zenon DEF signal
  <2>2. QED
    BY <1>2, <2>1, Zenon DEF Abstract!CPUNext
<1>5. CASE \E p \in Pokes : write(p)
  <2>1. Ctl(cpu') = Ctl(cpu) /\ cpu'.cycles = cpu.cycles
    BY <1>5, WriteIs, Zenon
  <2>2. Seen(cpu') = Seen(cpu)
    BY <2>1 DEF Seen, Ctl
  <2>3. QED
    BY <1>1, <2>2, Zenon
<1>6. ASSUME cpu' = cpu PROVE Follows
  BY <1>1, <1>6, Zenon
<1>7. CASE continue_exec \/ runframe \/ step \/ next \/ set_quit
  <2>1. Prompt /\ Resumes
    BY <1>7, ResumesBy, Zenon
  <2>2. QED
    BY <1>6, <2>1, LeaveIs, Zenon DEF Resumes
<1>8. CASE \/ \E b \in Breaks : setbreak(b)
           \/ \E i \in 1 .. MAXBREAKS : delbreak(i)
           \/ fetch_callback \/ UNCHANGED vars
  BY <1>6, <1>8, Zenon DEF setbreak, delbreak, fetch_callback, vars
<1>9. QED
  BY <1>3, <1>4, <1>5, <1>7, <1>8, Zenon DEF Next, command

-------------------------------------------------------------------------------
(* The debugger, whatever the program *)

\* The invariant of the debugger holds throughout.
LEMMA Invariance == Spec => []TInv
<1>1. Init => TInv
  BY TInvInit
<1>2. TInv /\ [Next]_vars => TInv'
  BY TInvStep
<1>3. QED
  BY <1>1, <1>2, PTL DEF Spec

\* The registers hold bytes and the program counter an address after every instruction and
\* every interrupt, whatever the program; the debugger's stop is an address or none, and
\* the accesses reported are those of the call in progress.
THEOREM TypeCorrect == Spec => []TypeOK
<1>1. TInv => TypeOK
  BY TypeFollows
<1>2. QED
  BY <1>1, Invariance, PTL

\* Whatever the program, the breakpoints and the commands: a stop that is pending when an
\* interrupt or a BRK enters a handler moves with the vector that is read, through any
\* number of handlers entered before an instruction is fetched, and the prompt comes up
\* at the first instruction that is.
THEOREM HandlerStop == Spec => StopsInHandler
<1>1. Init => VInv
  BY DEF Init, VInv
<1>2. TInv /\ VInv /\ [Next]_vars => VInv'
  BY VInvStep
<1>3. TInv /\ VInv /\ [Next]_vars => [Fetches /\ vectored => phase' # "run"]_vars
  BY StopsStep
<1>4. QED
  BY <1>1, <1>2, <1>3, Invariance, PTL DEF Spec, StopsInHandler

\* For every program: as long as the debugger listens and the user overwrites no opcode
\* after its fetch was reported, the backtrace lists every call that has not returned, in
\* the order of the calls, below and between the jumps that it never forgets.
THEOREM Backtrace == Spec => []OpenCallsListed
<1>1. Init => CInv
  BY CInvInit
<1>2. TInv /\ CInv /\ [Next]_vars => CInv'
  BY CInvStep
<1>3. CInv => OpenCallsListed
  BY ListedIs DEF CInv, OpenCallsListed, Foreseen
<1>4. QED
  BY <1>1, <1>2, <1>3, Invariance, PTL DEF Spec

\* Every opcode of every program, with every operand and every stack, and every prompt in
\* between: a call of power() or run() is the step of Interrupts that it is said to be, in
\* the signals it serves, the polls it makes, the flags it leaves and the cycles it takes.
\* What is proved of Interrupts therefore holds of the CPU.
THEOREM CPUImplements == Spec => ImplementsInterrupts
<1>1. TInv /\ [Next]_vars => [Abstract!CPUNext]_(Abstract!cpu)
  BY AbstractStep
<1>2. QED
  BY <1>1, Invariance, AbstractInit, PTL DEF Spec, ImplementsInterrupts, Abstract!CPUSpec
===============================================================================

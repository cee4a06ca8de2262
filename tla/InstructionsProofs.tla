-------------------------- MODULE InstructionsProofs --------------------------
(***************************************************************************)
(* What the CPU does, for every machine: any registers, flags, memory and  *)
(* program, any opcode with any operands, and a stack pointer anywhere in  *)
(* its page.                                                               *)
(*                                                                         *)
(* CPUs is the set of machines. It is shown of every operation,            *)
(* from a bus access to interrupt(), that it leads from CPUs to CPUs, how  *)
(* many cycles it takes, what it reports to the debugger, and what it does *)
(* to the flags and signals of the interrupts: Does for an operation that  *)
(* leaves them alone, Polls for an instruction, Enters for interrupt().    *)
(* CallRuns puts them together for a call of power() or run(), whatever    *)
(* the opcode; the proofs about the debugger rest on it alone.             *)
(***************************************************************************)
EXTENDS Instructions, TLAPS

-------------------------------------------------------------------------------
(* Machines *)

\* A memory holds bytes at some of the addresses S; flags; the rest of a CPU's state.
Memories(S) == UNION {[D -> Byte] : D \in SUBSET S}
Cells == {a \in Nat : a < 2048}
FlagSets == [carry : BOOLEAN, zero : BOOLEAN, intdis : BOOLEAN, decimal : BOOLEAN,
             breakf : BOOLEAN, unused : BOOLEAN, ov : BOOLEAN, neg : BOOLEAN]
Ids == Byte \cup {NO_ID}
Vectors == {NMI_VEC, RESET_VEC, IRQ_BRK_VEC, NO_VEC}
Causes == {"reset", "nmi", "irq", "brk", "none"}

\* The CPUs with a log from the set logs, the ones an access is reported with, and all.
CPUsWith(logs) ==
    [pc : Word, sp : Byte, acc : Byte, x : Byte, y : Byte, f : FlagSets,
     low : Byte, high : Byte, cycles : Nat, ram : Memories(Cells), rom : Memories(Word),
     log : logs, nmipending : BOOLEAN, irqpending : BOOLEAN, resetpending : BOOLEAN,
     execnmi : BOOLEAN, execirq : BOOLEAN,
     id : Ids, vec : Vectors, cause : Causes, pushedB : BOOLEAN]
Bare == CPUsWith({<< >>})
Accesses == [mode : {"r", "w", "x"}, addr : Nat, at : Bare]
CPUs == CPUsWith(Seq(Accesses))

\* What an instruction that does not touch interrupts leaves as it was.
Ctl(m) == <<m.nmipending, m.irqpending, m.resetpending, m.execnmi, m.execirq,
            m.f.intdis, m.f.breakf, m.vec, m.cause, m.pushedB, m.id, m.rom>>

\* The log t goes on from s with accesses that fetch no instruction.
Extends(s, t) ==
    /\ Len(s) <= Len(t)
    /\ \A i \in 1 .. Len(s) : t[i] = s[i]
    /\ \A i \in Len(s) + 1 .. Len(t) : t[i].mode # "x"

\* An operation that takes k cycles.
Does(m, n, k) ==
    n \in CPUs /\ Ctl(n) = Ctl(m) /\ n.cycles = m.cycles + k /\ Extends(m.log, n.log)

-------------------------------------------------------------------------------
(* What a call of the CPU does *)

\* What the debugger is told of an access.
Entry(m, mode, a) == [mode |-> mode, addr |-> a, at |-> [m EXCEPT !.log = << >>]]

\* The address of the second byte of a word.
After(a) == (a + 1) % 65536

\* The vector that interrupt() takes.
Vector(m) == IF m.resetpending THEN RESET_VEC ELSE IF m.nmipending THEN NMI_VEC ELSE IRQ_BRK_VEC

\* interrupt() takes m to n, called by c.  The three pushes and the two reads of the
\* vector are the accesses it reports, and the vector is where it goes.
Enters(m, n, c) ==
    /\ n \in CPUs
    /\ n.vec = Vector(m) /\ n.cause = c /\ n.pushedB = m.f.breakf
    /\ n.resetpending = FALSE /\ n.nmipending = (m.nmipending /\ m.resetpending)
    /\ n.irqpending = (m.irqpending /\ (m.resetpending \/ m.nmipending))
    /\ n.f.intdis = TRUE /\ n.f.breakf = FALSE
    /\ n.execnmi = m.execnmi /\ n.execirq = m.execirq /\ n.id = m.id /\ n.rom = m.rom
    /\ n.cycles = m.cycles + 6

\* The accesses that interrupt() reports.
EntersBy(m, n) ==
    /\ Extends(m.log, n.log) /\ Len(n.log) = Len(m.log) + 5
    /\ n.log[Len(m.log) + 1].mode = "w" /\ n.log[Len(m.log) + 2].mode = "w"
    /\ n.log[Len(m.log) + 3].mode = "w"
    /\ n.log[Len(m.log) + 4].mode = "r" /\ n.log[Len(m.log) + 4].addr = Vector(m)
    /\ ReadWord(n.log[Len(m.log) + 4].at, Vector(m)) = n.pc
    /\ n.log[Len(m.log) + 5].mode = "r" /\ n.log[Len(m.log) + 5].addr = Vector(m) + 1

\* What an instruction other than BRK leaves as it was.
Rest(m) == <<m.nmipending, m.irqpending, m.resetpending, m.vec, m.cause, m.pushedB, m.id, m.rom>>

\* Takes k cycles, and may change the exec flags, intdis and breakf.
Runs(m, n, k) ==
    n \in CPUs /\ Rest(n) = Rest(m) /\ n.cycles = m.cycles + k /\ Extends(m.log, n.log)

\* Polls, intdis holding i when it does, and leaves intdis and breakf d and b.
Polls(m, n, k, i, d, b) ==
    /\ Runs(m, n, k)
    /\ n.execnmi <=> (m.execnmi \/ m.nmipending)
    /\ n.execirq <=> (m.execirq \/ (~i /\ m.irqpending))
    /\ n.f.intdis = d /\ n.f.breakf = b

\* The same for an instruction that changes neither.
PollsOnly(m, n, k) == Polls(m, n, k, m.f.intdis, m.f.intdis, m.f.breakf)

\* What execute() may do.
Ran(m, n) ==
    \/ \E k \in 1 .. 6 : PollsOnly(m, n, k)
    \/ Polls(m, n, 2, m.f.intdis, m.f.intdis, FALSE)
    \/ \E v \in BOOLEAN : \/ Polls(m, n, 1, m.f.intdis, v, m.f.breakf)
                          \/ Polls(m, n, 3, m.f.intdis, v, FALSE)
                          \/ Polls(m, n, 5, v, v, FALSE)
    \/ LET b == [m EXCEPT !.f.breakf = TRUE] IN Enters(b, n, "brk") /\ EntersBy(b, n)
    \/ n = m

\* What a call starts from, and what the signals leave alone.
Signals(m) == <<m.nmipending, m.irqpending, m.resetpending, m.execnmi, m.execirq,
                m.f, m.pushedB, m.rom, m.ram, m.pc>>

\* fetch() reports the access, and takes one cycle.
Fetched(m, n) ==
    /\ n \in CPUs /\ n.id = Read(m, m.pc) /\ n.id \in Byte
    /\ n.cycles = m.cycles + 1
    /\ n.log = Append(m.log, Entry(m, "x", m.pc)) /\ Entry(m, "x", m.pc) \in Accesses
    /\ n.nmipending = m.nmipending /\ n.irqpending = m.irqpending /\ n.resetpending = m.resetpending
    /\ n.execnmi = m.execnmi /\ n.execirq = m.execirq /\ n.f = m.f
    /\ n.vec = m.vec /\ n.cause = m.cause /\ n.pushedB = m.pushedB /\ n.rom = m.rom

\* The call that a machine is about to make fetches an instruction.
Instr(c) == ~c.resetpending /\ ~c.execnmi /\ ~c.execirq

\* A call of power() or run() does what its machine calls for.
CallDoes(c) ==
    /\ c.resetpending => Enters(Fresh(c), Call(c), "reset") /\ EntersBy(Fresh(c), Call(c))
    /\ ~c.resetpending /\ c.execnmi =>
           \E n : /\ Enters(cycle(Fresh(c)), n, "nmi") /\ EntersBy(cycle(Fresh(c)), n)
                  /\ Call(c) = [n EXCEPT !.execnmi = FALSE]
    /\ ~c.resetpending /\ ~c.execnmi /\ c.execirq =>
           \E n : /\ Enters(cycle(Fresh(c)), n, "irq") /\ EntersBy(cycle(Fresh(c)), n)
                  /\ Call(c) = [n EXCEPT !.execirq = FALSE]
    /\ Instr(c) => \E m : Fetched(Fresh(c), m) /\ Ran(m, Call(c))

-------------------------------------------------------------------------------
(* Bytes, words and memory *)

\* An unsigned char of the code: eight bits.
LEMMA Bytes == ASSUME NEW b PROVE b \in Byte <=> b \in Nat /\ b < 256
BY DEF Byte

\* A pc or an address: sixteen bits.
LEMMA Words == ASSUME NEW w PROVE w \in Word <=> w \in Nat /\ w < 65536
BY DEF Word

\* The code's masks and casts give bytes and words.
LEMMA Remainders ==
  ASSUME NEW n \in Int
  PROVE  n % 256 \in Byte /\ n % 65536 \in Word
<1>1. n % 256 \in Nat /\ n % 256 < 256
  OBVIOUS
<1>2. n % 65536 \in Nat /\ n % 65536 < 65536
  OBVIOUS
<1>3. QED
  BY <1>1, <1>2, Bytes, Words

\* An address that is moved by any offset wraps around.
LEMMA WordPlus == ASSUME NEW w \in Word, NEW k \in Int PROVE (w + k) % 65536 \in Word
<1>1. w + k \in Int
  BY Words
<1>2. QED
  BY <1>1, Remainders

\* The low and the high byte of a word are bytes.
LEMMA Halves ==
  ASSUME NEW w \in Word
  PROVE  Low(w) \in Byte /\ High(w) \in Byte
<1>1. w \in Nat
  BY Words
<1>2. w \in Int /\ w \div 256 \in Int
  BY <1>1
<1>3. QED
  BY <1>2, Remainders DEF Low, High

\* Two bytes make a word, as LowHigh does of them.
LEMMA Joined ==
  ASSUME NEW l \in Byte, NEW h \in Byte
  PROVE  l + 256 * h \in Word
BY Bytes, Words

\* A cell holds a byte; so does one that was never written.
LEMMA MemoryRead ==
  ASSUME NEW S, NEW r \in Memories(S), NEW a, NEW d \in Byte
  PROVE  Cell(r, a, d) \in Byte
BY Zenon DEF Memories, Cell

\* A byte written to a cell leaves a memory.
LEMMA MemoryWrite ==
  ASSUME NEW S, NEW r \in Memories(S), NEW a \in S, NEW d \in Byte
  PROVE  SetCell(r, a, d) \in Memories(S)
<1>1. PICK D \in SUBSET S : r \in [D -> Byte]
  BY DEF Memories
<1>2. SetCell(r, a, d) \in [D \cup {a} -> Byte]
  BY <1>1, Zenon DEF SetCell
<1>3. D \cup {a} \in SUBSET S
  OBVIOUS
<1>4. QED
  BY <1>2, <1>3, Zenon DEF Memories

\* Whatever the address, the CPU reads a byte.
LEMMA ReadByte ==
  ASSUME NEW m, m.ram \in Memories(Cells), m.rom \in Memories(Word), NEW a
  PROVE  Read(m, a) \in Byte
<1>1. 0 \in Byte /\ \hEA \in Byte
  BY Bytes
<1>2. Cell(m.ram, a % \h0800, 0) \in Byte /\ Cell(m.rom, a, \hEA) \in Byte
  BY <1>1, MemoryRead
<1>3. QED
  BY <1>1, <1>2 DEF Read

\* A log goes on from itself.
LEMMA ExtendsReflexive == ASSUME NEW s \in Seq(Accesses) PROVE Extends(s, s)
BY DEF Extends

\* To do nothing takes no cycle.
LEMMA DoesNothing == ASSUME NEW m \in CPUs PROVE Does(m, m, 0)
<1>1. m.cycles \in Nat /\ m.log \in Seq(Accesses)
  BY Zenon DEF CPUs, CPUsWith
<1>2. m.cycles = m.cycles + 0
  BY <1>1
<1>3. QED
  BY <1>1, <1>2, ExtendsReflexive, Zenon DEF Does

\* cycle() takes one cycle and does nothing else.
LEMMA CycleDoes == ASSUME NEW m \in CPUs PROVE Does(m, cycle(m), 1)
<1>1. /\ cycle(m) \in CPUs /\ Ctl(cycle(m)) = Ctl(m)
      /\ cycle(m).cycles = m.cycles + 1 /\ cycle(m).log = m.log
  <2>1. m.cycles + 1 \in Nat
    BY DEF CPUs, CPUsWith
  <2>2. QED
    BY <2>1, Zenon DEF cycle, CPUs, CPUsWith, Ctl
<1>2. m.log \in Seq(Accesses)
  BY Zenon DEF CPUs, CPUsWith
<1>3. QED
  BY <1>1, <1>2, ExtendsReflexive, Zenon DEF Does

\* The registers, memories and log of a CPU have their types.
LEMMA Fields ==
  ASSUME NEW m \in CPUs
  PROVE  /\ m.pc \in Word /\ m.sp \in Byte /\ m.acc \in Byte /\ m.x \in Byte /\ m.y \in Byte
         /\ m.f \in FlagSets /\ m.low \in Byte /\ m.high \in Byte /\ m.cycles \in Nat
         /\ m.ram \in Memories(Cells) /\ m.rom \in Memories(Word) /\ m.log \in Seq(Accesses)
BY Zenon DEF CPUs, CPUsWith

\* The interrupt state of a CPU, and what it remembers of the last call, has its types.
LEMMA FlagFields ==
  ASSUME NEW m \in CPUs
  PROVE  /\ m.nmipending \in BOOLEAN /\ m.irqpending \in BOOLEAN /\ m.resetpending \in BOOLEAN
         /\ m.execnmi \in BOOLEAN /\ m.execirq \in BOOLEAN
         /\ m.f.intdis \in BOOLEAN /\ m.f.breakf \in BOOLEAN
         /\ m.vec \in Vectors /\ m.cause \in Causes /\ m.pushedB \in BOOLEAN /\ m.id \in Ids
BY Zenon DEF CPUs, CPUsWith, FlagSets

\* A machine that differs in no flag of the interrupts and in no access has done k
\* cycles.
LEMMA Quiet ==
  ASSUME NEW m \in CPUs, NEW n \in CPUs, NEW k \in Nat,
         Ctl(n) = Ctl(m), n.cycles = m.cycles + k, n.log = m.log
  PROVE  Does(m, n, k)
BY Fields, ExtendsReflexive, Zenon DEF Does

\* The same for no cycle at all.
LEMMA Unhurried ==
  ASSUME NEW m \in CPUs, NEW n \in CPUs,
         Ctl(n) = Ctl(m), n.cycles = m.cycles, n.log = m.log
  PROVE  Does(m, n, 0)
<1>1. n.cycles = m.cycles + 0
  BY Fields
<1>2. QED
  BY <1>1, Quiet

\* A CPU reads bytes.
LEMMA ReadIsByte == ASSUME NEW m \in CPUs, NEW a PROVE Read(m, a) \in Byte
BY Fields, ReadByte, Zenon

\* A write to the RAM array takes no cycle of its own.
LEMMA SetRam ==
  ASSUME NEW m \in CPUs, NEW r \in Memories(Cells)
  PROVE  Does(m, [m EXCEPT !.ram = r], 0)
<1>1. [m EXCEPT !.ram = r] \in CPUs
  BY Zenon DEF CPUs, CPUsWith
<1>2. /\ Ctl([m EXCEPT !.ram = r]) = Ctl(m)
      /\ [m EXCEPT !.ram = r].cycles = m.cycles /\ [m EXCEPT !.ram = r].log = m.log
  BY Zenon DEF Ctl, CPUs, CPUsWith
<1>3. QED
  BY <1>1, <1>2, Unhurried, Zenon

\* The bus takes a write at any address, and changes RAM or nothing.
LEMMA WriteDoes ==
  ASSUME NEW m \in CPUs, NEW a \in Nat, NEW d \in Byte
  PROVE  Does(m, Write(m, a, d), 0)
<1>1. a % \h0800 \in Cells
  BY DEF Cells
<1>2. PICK c \in Cells : c = a % \h0800
  BY <1>1
<1>3. SetCell(m.ram, c, d) \in Memories(Cells)
  BY MemoryWrite, Fields, Zenon
<1>4. Does(m, [m EXCEPT !.ram = SetCell(m.ram, c, d)], 0)
  BY <1>3, SetRam, Zenon
<1>5. QED
  BY <1>2, <1>4, DoesNothing DEF Write

\* The pc wraps around.
LEMMA NextPc == ASSUME NEW w \in Word PROVE (w + 1) % 65536 \in Word
BY Words, Remainders

\* The two bytes at an address make a word.
LEMMA ReadWordIsWord == ASSUME NEW m \in CPUs, NEW a PROVE ReadWord(m, a) \in Word
BY ReadIsByte, Joined DEF ReadWord

\* Addresses are numbers.
LEMMA WordsAreNat == ASSUME NEW w \in Word PROVE w \in Nat
BY DEF Word

\* What is read depends on the memories alone.
LEMMA SameMemory ==
  ASSUME NEW m, NEW n, n.ram = m.ram, n.rom = m.rom, NEW a
  PROVE  Read(n, a) = Read(m, a)
BY DEF Read

\* Each of the three vectors is an even address from NMI_VEC on, so its two bytes are
\* neighbours and the debugger can tell the first from the second.
LEMMA VectorIs ==
  ASSUME NEW m \in CPUs
  PROVE  /\ Vector(m) \in Vectors /\ Vector(m) \in Nat /\ Vector(m) + 1 \in Nat
         /\ After(Vector(m)) = Vector(m) + 1
         /\ Vector(m) >= NMI_VEC /\ Vector(m) % 2 = 0 /\ (Vector(m) + 1) % 2 = 1
<1>1. Vector(m) \in {NMI_VEC, RESET_VEC, IRQ_BRK_VEC}
  BY Zenon DEF Vector
<1>2. QED
  BY <1>1 DEF NMI_VEC, RESET_VEC, IRQ_BRK_VEC, Vectors, After

\* A call starts with no cycle, access, opcode or interrupt to its name, and from the
\* machine it was given otherwise.
LEMMA FreshIs ==
  ASSUME NEW c \in CPUs
  PROVE  /\ Fresh(c) \in CPUs /\ Signals(Fresh(c)) = Signals(c)
         /\ Fresh(c).cycles = 0 /\ Fresh(c).log = << >> /\ Fresh(c).id = NO_ID
         /\ Fresh(c).vec = NO_VEC /\ Fresh(c).cause = "none"
<1> DEFINE z == 0
           e == << >>
           i == NO_ID
           v == NO_VEC
<1>1. z \in Nat /\ e \in Seq(Accesses) /\ i \in Ids /\ v \in Vectors /\ "none" \in Causes
  BY DEF Ids, Vectors, Causes
<1>2. Fresh(c) = [c EXCEPT !.cycles = z, !.log = e, !.id = i, !.vec = v, !.cause = "none"]
  BY DEF Fresh
<1> HIDE DEF z, e, i, v
<1>3. Fresh(c) \in CPUs
  BY <1>1, <1>2, ZenonT(60) DEF CPUs, CPUsWith
<1>4. Signals(Fresh(c)) = Signals(c)
  BY <1>2, Zenon DEF CPUs, CPUsWith, Signals
<1>5. /\ Fresh(c).cycles = z /\ Fresh(c).log = e /\ Fresh(c).id = i
      /\ Fresh(c).vec = v /\ Fresh(c).cause = "none"
  BY <1>2, Zenon DEF CPUs, CPUsWith
<1>6. QED
  BY <1>3, <1>4, <1>5 DEF z, e, i, v

-------------------------------------------------------------------------------
(* Logs *)

\* A log that goes on twice goes on.
LEMMA ExtendsTransitive ==
  ASSUME NEW s \in Seq(Accesses), NEW t \in Seq(Accesses), NEW u \in Seq(Accesses),
         Extends(s, t), Extends(t, u)
  PROVE  Extends(s, u)
<1> DEFINE a == Len(s)
           b == Len(t)
           c == Len(u)
<1>1. a \in Nat /\ b \in Nat /\ c \in Nat
  OBVIOUS
<1>2. /\ a <= b /\ \A i \in 1 .. a : t[i] = s[i]
      /\ \A i \in a + 1 .. b : t[i].mode # "x"
  BY DEF Extends
<1>3. /\ b <= c /\ \A i \in 1 .. b : u[i] = t[i]
      /\ \A i \in b + 1 .. c : u[i].mode # "x"
  BY DEF Extends
<1> HIDE DEF a, b, c
<1>4. a <= c
  BY <1>1, <1>2, <1>3
<1>5. ASSUME NEW i \in 1 .. a PROVE u[i] = s[i]
  <2>1. i \in 1 .. b
    BY <1>1, <1>2
  <2> QED BY <1>2, <1>3, <2>1, Zenon
<1>6. ASSUME NEW i \in a + 1 .. c PROVE u[i].mode # "x"
  <2>1. i \in a + 1 .. b \/ i \in b + 1 .. c
    BY <1>1, <1>2, <1>3
  <2>2. i \in a + 1 .. b => i \in 1 .. b
    BY <1>1
  <2> QED BY <1>2, <1>3, <2>1, <2>2, Zenon
<1> QED BY <1>4, <1>5, <1>6 DEF Extends, a, b, c

\* A log goes on by an access that fetches nothing.
LEMMA ExtendsAppend ==
  ASSUME NEW s \in Seq(Accesses), NEW a \in Accesses, a.mode # "x"
  PROVE  Append(s, a) \in Seq(Accesses) /\ Extends(s, Append(s, a))
BY DEF Extends

\* Two operations after each other take their cycles together.
LEMMA DoesThen ==
  ASSUME NEW m \in CPUs, NEW n, NEW o, NEW j \in Nat, NEW k \in Nat,
         Does(m, n, j), Does(n, o, k)
  PROVE  Does(m, o, j + k)
<1>1. n \in CPUs /\ o \in CPUs
  BY Zenon DEF Does
<1>2. /\ m.cycles \in Nat
      /\ m.log \in Seq(Accesses) /\ n.log \in Seq(Accesses) /\ o.log \in Seq(Accesses)
  BY <1>1, Zenon DEF CPUs, CPUsWith
<1>3. Extends(m.log, o.log)
  BY <1>2, ExtendsTransitive, Zenon DEF Does
<1>4. o.cycles = m.cycles + (j + k)
  <2>1. n.cycles = m.cycles + j /\ o.cycles = n.cycles + k
    BY Zenon DEF Does
  <2>2. QED
    BY <1>2, <2>1
<1>5. QED
  BY <1>1, <1>3, <1>4, Zenon DEF Does

\* What takes no cycle can come after any operation.
LEMMA DoesAlso ==
  ASSUME NEW m \in CPUs, NEW n, NEW o, NEW k \in Nat, Does(m, n, k), Does(n, o, 0)
  PROVE  Does(m, o, k)
BY DoesThen

-------------------------------------------------------------------------------
(* The bus *)

\* A read or a write is reported to the debugger and takes one cycle.
LEMMA AccessDoes ==
  ASSUME NEW m \in CPUs, NEW mode \in {"r", "w"}, NEW a \in Nat
  PROVE  Does(m, Access(m, mode, a), 1)
<1> DEFINE acc == [mode |-> mode, addr |-> a, at |-> [m EXCEPT !.log = << >>]]
<1>1. m.log \in Seq(Accesses) /\ m.cycles + 1 \in Nat
  BY DEF CPUs, CPUsWith
<1>2. acc \in Accesses /\ acc.mode # "x"
  BY Zenon DEF Accesses, Bare, CPUs, CPUsWith
<1>3. Append(m.log, acc) \in Seq(Accesses) /\ Extends(m.log, Append(m.log, acc))
  BY <1>1, <1>2, ExtendsAppend, Zenon
<1>4. Access(m, mode, a) = [m EXCEPT !.cycles = m.cycles + 1, !.log = Append(m.log, acc)]
  BY Zenon DEF Access, cycle, CPUs, CPUsWith
<1>5. QED
  BY <1>1, <1>3, <1>4, ZenonT(60) DEF CPUs, CPUsWith, Does, Ctl

\* readmem() takes one cycle.
LEMMA ReadmemDoes == ASSUME NEW m \in CPUs, NEW a \in Nat PROVE Does(m, readmem(m, a), 1)
BY AccessDoes, Zenon DEF readmem

\* writemem() takes one cycle, wherever it writes.
LEMMA WritememDoes ==
  ASSUME NEW m \in CPUs, NEW a \in Nat, NEW d \in Byte
  PROVE  Does(m, writemem(m, a, d), 1)
<1>1. Does(m, Access(m, "w", a), 1)
  BY AccessDoes, Zenon
<1>2. Does(Access(m, "w", a), writemem(m, a, d), 0)
  BY <1>1, WriteDoes, Zenon DEF writemem, Does
<1>3. QED
  BY <1>1, <1>2, DoesThen

\* An assignment to pc takes no cycle, and leaves the interrupts alone.
LEMMA SetPc == ASSUME NEW m \in CPUs, NEW w \in Word PROVE Does(m, [m EXCEPT !.pc = w], 0)
<1> DEFINE n == [m EXCEPT !.pc = w]
<1>1. n \in CPUs /\ Ctl(n) = Ctl(m) /\ n.cycles = m.cycles /\ n.log = m.log
  BY Zenon DEF Ctl, CPUs, CPUsWith
<1>2. QED
  BY <1>1, Unhurried, Zenon

\* The same for sp.
LEMMA SetSp == ASSUME NEW m \in CPUs, NEW b \in Byte PROVE Does(m, [m EXCEPT !.sp = b], 0)
<1> DEFINE n == [m EXCEPT !.sp = b]
<1>1. n \in CPUs /\ Ctl(n) = Ctl(m) /\ n.cycles = m.cycles /\ n.log = m.log
  BY Zenon DEF Ctl, CPUs, CPUsWith
<1>2. QED
  BY <1>1, Unhurried, Zenon

\* The same for acc.
LEMMA SetAcc == ASSUME NEW m \in CPUs, NEW b \in Byte PROVE Does(m, [m EXCEPT !.acc = b], 0)
<1> DEFINE n == [m EXCEPT !.acc = b]
<1>1. n \in CPUs /\ Ctl(n) = Ctl(m) /\ n.cycles = m.cycles /\ n.log = m.log
  BY Zenon DEF Ctl, CPUs, CPUsWith
<1>2. QED
  BY <1>1, Unhurried, Zenon

\* The same for x.
LEMMA SetX == ASSUME NEW m \in CPUs, NEW b \in Byte PROVE Does(m, [m EXCEPT !.x = b], 0)
<1> DEFINE n == [m EXCEPT !.x = b]
<1>1. n \in CPUs /\ Ctl(n) = Ctl(m) /\ n.cycles = m.cycles /\ n.log = m.log
  BY Zenon DEF Ctl, CPUs, CPUsWith
<1>2. QED
  BY <1>1, Unhurried, Zenon

\* The same for y.
LEMMA SetY == ASSUME NEW m \in CPUs, NEW b \in Byte PROVE Does(m, [m EXCEPT !.y = b], 0)
<1> DEFINE n == [m EXCEPT !.y = b]
<1>1. n \in CPUs /\ Ctl(n) = Ctl(m) /\ n.cycles = m.cycles /\ n.log = m.log
  BY Zenon DEF Ctl, CPUs, CPUsWith
<1>2. QED
  BY <1>1, Unhurried, Zenon

\* The same for the low byte of opargs.
LEMMA SetLow == ASSUME NEW m \in CPUs, NEW b \in Byte PROVE Does(m, [m EXCEPT !.low = b], 0)
<1> DEFINE n == [m EXCEPT !.low = b]
<1>1. n \in CPUs /\ Ctl(n) = Ctl(m) /\ n.cycles = m.cycles /\ n.log = m.log
  BY Zenon DEF Ctl, CPUs, CPUsWith
<1>2. QED
  BY <1>1, Unhurried, Zenon

\* The same for its high byte.
LEMMA SetHigh == ASSUME NEW m \in CPUs, NEW b \in Byte PROVE Does(m, [m EXCEPT !.high = b], 0)
<1> DEFINE n == [m EXCEPT !.high = b]
<1>1. n \in CPUs /\ Ctl(n) = Ctl(m) /\ n.cycles = m.cycles /\ n.log = m.log
  BY Zenon DEF Ctl, CPUs, CPUsWith
<1>2. QED
  BY <1>1, Unhurried, Zenon

\* The same for the carry flag.
LEMMA SetCarry ==
  ASSUME NEW m \in CPUs, NEW b \in BOOLEAN
  PROVE  Does(m, [m EXCEPT !.f.carry = b], 0)
<1> DEFINE n == [m EXCEPT !.f.carry = b]
<1>1. n \in CPUs /\ Ctl(n) = Ctl(m) /\ n.cycles = m.cycles /\ n.log = m.log
  BY Zenon DEF Ctl, CPUs, CPUsWith, FlagSets
<1>2. QED
  BY <1>1, Unhurried, Zenon

\* The same for the zero flag.
LEMMA SetZero == ASSUME NEW m \in CPUs, NEW b \in BOOLEAN PROVE Does(m, [m EXCEPT !.f.zero = b], 0)
<1> DEFINE n == [m EXCEPT !.f.zero = b]
<1>1. n \in CPUs /\ Ctl(n) = Ctl(m) /\ n.cycles = m.cycles /\ n.log = m.log
  BY Zenon DEF Ctl, CPUs, CPUsWith, FlagSets
<1>2. QED
  BY <1>1, Unhurried, Zenon

\* The same for the decimal flag.
LEMMA SetDecimal ==
  ASSUME NEW m \in CPUs, NEW b \in BOOLEAN
  PROVE  Does(m, [m EXCEPT !.f.decimal = b], 0)
<1> DEFINE n == [m EXCEPT !.f.decimal = b]
<1>1. n \in CPUs /\ Ctl(n) = Ctl(m) /\ n.cycles = m.cycles /\ n.log = m.log
  BY Zenon DEF Ctl, CPUs, CPUsWith, FlagSets
<1>2. QED
  BY <1>1, Unhurried, Zenon

\* The same for the overflow flag.
LEMMA SetOv == ASSUME NEW m \in CPUs, NEW b \in BOOLEAN PROVE Does(m, [m EXCEPT !.f.ov = b], 0)
<1> DEFINE n == [m EXCEPT !.f.ov = b]
<1>1. n \in CPUs /\ Ctl(n) = Ctl(m) /\ n.cycles = m.cycles /\ n.log = m.log
  BY Zenon DEF Ctl, CPUs, CPUsWith, FlagSets
<1>2. QED
  BY <1>1, Unhurried, Zenon

\* The same for the negative flag.
LEMMA SetNeg == ASSUME NEW m \in CPUs, NEW b \in BOOLEAN PROVE Does(m, [m EXCEPT !.f.neg = b], 0)
<1> DEFINE n == [m EXCEPT !.f.neg = b]
<1>1. n \in CPUs /\ Ctl(n) = Ctl(m) /\ n.cycles = m.cycles /\ n.log = m.log
  BY Zenon DEF Ctl, CPUs, CPUsWith, FlagSets
<1>2. QED
  BY <1>1, Unhurried, Zenon

\* pc++ takes no cycle, and wraps around.
LEMMA IncPc == ASSUME NEW m \in CPUs PROVE Does(m, [m EXCEPT !.pc = (@ + 1) % 65536], 0)
<1>1. PICK w \in Word : w = (m.pc + 1) % 65536
  BY Fields, NextPc
<1>2. QED
  BY <1>1, SetPc

\* To fetch an operand byte takes one cycle.
LEMMA FetchopDoes ==
  ASSUME NEW m \in CPUs
  PROVE  Does(m, fetchop_low(m), 1) /\ Does(m, fetchop_high(m), 1)
<1>1. Does(m, cycle(m), 1) /\ cycle(m) \in CPUs
  BY CycleDoes, Zenon DEF Does
<1>2. Read(m, m.pc) \in Byte
  BY ReadIsByte, Zenon
<1> DEFINE l == [cycle(m) EXCEPT !.low = Read(m, m.pc)]
           h == [cycle(m) EXCEPT !.high = Read(m, m.pc)]
<1>3. Does(m, l, 1) /\ Does(m, h, 1) /\ l \in CPUs /\ h \in CPUs
  <2>1. Does(cycle(m), l, 0) /\ Does(cycle(m), h, 0) 
    BY <1>1, <1>2, SetLow, SetHigh, Zenon
  <2>2. QED
    BY <2>1, <1>1, DoesThen DEF Does
<1>4. /\ fetchop_low(m) = [l EXCEPT !.pc = (@ + 1) % 65536]
      /\ fetchop_high(m) = [h EXCEPT !.pc = (@ + 1) % 65536]
  BY DEF fetchop_low, fetchop_high
<1> HIDE DEF l, h
<1>5. Does(l, fetchop_low(m), 0) /\ Does(h, fetchop_high(m), 0)
  BY <1>3, <1>4, IncPc
<1>8. QED
  BY <1>3, <1>5, DoesThen

\* To fetch both takes two.
LEMMA FetchopsDoes == ASSUME NEW m \in CPUs PROVE Does(m, fetchops(m), 2)
<1>1. Does(m, fetchop_low(m), 1) /\ Does(fetchop_low(m), fetchops(m), 1)
  BY FetchopDoes, Zenon DEF fetchops, Does
<1>2. QED
  BY <1>1, DoesThen

\* The operand is a word.
LEMMA FullIsWord == ASSUME NEW m \in CPUs PROVE full(m) \in Word
BY Fields, Joined, Zenon DEF full

\* The stack pointer gives an address.
LEMMA StackAddress == ASSUME NEW b \in Byte PROVE b + STACK_BASE \in Nat
BY Bytes DEF STACK_BASE

\* push() takes one cycle; sp wraps around within the stack page.
LEMMA PushDoes ==
  ASSUME NEW m \in CPUs, NEW d \in Byte
  PROVE  Does(m, push(m, d), 1)
<1> DEFINE n == writemem(m, m.sp + STACK_BASE, d)
<1>1. m.sp + STACK_BASE \in Nat
  BY Fields, StackAddress, Zenon
<1>2. Does(m, n, 1) /\ n \in CPUs
  BY <1>1, WritememDoes, Zenon DEF Does
<1>3. push(m, d) = [n EXCEPT !.sp = (n.sp + 255) % 256]
  BY DEF push
<1> HIDE DEF n
<1>4. (n.sp + 255) % 256 \in Byte
  BY <1>2, Fields, Bytes, Remainders
<1>5. Does(n, push(m, d), 0)
  BY <1>2, <1>3, <1>4, SetSp
<1>6. QED
  BY <1>2, <1>5, DoesAlso

\* pull() takes one cycle and gives a byte.
LEMMA PullDoes ==
  ASSUME NEW m \in CPUs
  PROVE  Does(m, pull(m).m, 1) /\ pull(m).d \in Byte
<1> DEFINE up == [m EXCEPT !.sp = (m.sp + 1) % 256]
<1>1. (m.sp + 1) % 256 \in Byte
  BY Fields, Bytes, Remainders
<1>2. Does(m, up, 0) /\ up \in CPUs
  BY <1>1, SetSp DEF Does
<1>3. pull(m).m = readmem(up, up.sp + STACK_BASE) /\ pull(m).d = Read(up, up.sp + STACK_BASE)
  BY DEF pull
<1> HIDE DEF up
<1>4. up.sp + STACK_BASE \in Nat
  BY <1>2, Fields, StackAddress, Zenon
<1>5. Does(up, pull(m).m, 1) /\ pull(m).d \in Byte
  BY <1>2, <1>3, <1>4, ReadmemDoes, ReadIsByte, Zenon
<1>6. QED
  BY <1>2, <1>5, DoesThen

-------------------------------------------------------------------------------
(* Bytes and their bits *)

\* A flag is one bit.
LEMMA BitIs == ASSUME NEW b PROVE Bit(b) \in {0, 1}
BY DEF Bit

\* Eight bits make a byte.
LEMMA SumOfBits ==
  ASSUME NEW b0 \in {0, 1}, NEW b1 \in {0, 1}, NEW b2 \in {0, 1}, NEW b3 \in {0, 1},
         NEW b4 \in {0, 1}, NEW b5 \in {0, 1}, NEW b6 \in {0, 1}, NEW b7 \in {0, 1}
  PROVE  b0 + 2 * b1 + 4 * b2 + 8 * b3 + 16 * b4 + 32 * b5 + 64 * b6 + 128 * b7 \in Byte
BY Bytes

\* &, | and ^ of bytes are bytes.
LEMMA BitwiseBytes ==
  ASSUME NEW a, NEW b
  PROVE  And(a, b) \in Byte /\ Or(a, b) \in Byte /\ Xor(a, b) \in Byte
BY SumOfBits, BitIs, SMTT(30) DEF And, Or, Xor, Bits

\* The flags make a byte, as the status register packs them.
LEMMA FlagsByte == ASSUME NEW f PROVE ToByte(f) \in Byte
BY SumOfBits, BitIs DEF ToByte

\* Any byte gives flags.
LEMMA ByteFlags == ASSUME NEW d PROVE ToFlags(d) \in FlagSets
BY Zenon DEF ToFlags, FlagSets, IsSet

\* The sign is a flag.
LEMMA SignIs == ASSUME NEW v \in Int PROVE Sign(v) \in BOOLEAN
BY DEF Sign

\* The zero and negative flags are set in no cycle.
LEMMA ZeroNegDoes == ASSUME NEW m \in CPUs, NEW v \in Int PROVE Does(m, ZeroNeg(m, v), 0)
<1> DEFINE z == [m EXCEPT !.f.zero = (v = 0)]
<1>1. (v = 0) \in BOOLEAN /\ Sign(v) \in BOOLEAN
  BY SignIs, Zenon
<1>2. Does(m, z, 0) /\ z \in CPUs
  BY <1>1, SetZero, Zenon DEF Does
<1>3. ZeroNeg(m, v) = [z EXCEPT !.f.neg = Sign(v)]
  BY Zenon DEF ZeroNeg
<1> HIDE DEF z
<1>4. Does(z, ZeroNeg(m, v), 0)
  BY <1>1, <1>2, <1>3, SetNeg, Zenon
<1>5. QED
  BY <1>2, <1>4, DoesAlso

-------------------------------------------------------------------------------
(* Instructions that read or modify a value *)

\* A register is loaded, and the flags set, in no cycle.
LEMMA LoadDoes ==
  ASSUME NEW m \in CPUs, NEW v \in Byte
  PROVE  /\ Does(m, [ZeroNeg(m, v) EXCEPT !.acc = v], 0)
         /\ Does(m, [ZeroNeg(m, v) EXCEPT !.x = v], 0)
         /\ Does(m, [ZeroNeg(m, v) EXCEPT !.y = v], 0)
         /\ Does(m, [ZeroNeg(m, v) EXCEPT !.sp = v], 0)
<1>1. v \in Int
  BY Bytes
<1>2. Does(m, ZeroNeg(m, v), 0) /\ ZeroNeg(m, v) \in CPUs
  BY <1>1, ZeroNegDoes, Zenon DEF Does
<1>3. /\ Does(ZeroNeg(m, v), [ZeroNeg(m, v) EXCEPT !.acc = v], 0)
      /\ Does(ZeroNeg(m, v), [ZeroNeg(m, v) EXCEPT !.x = v], 0)
      /\ Does(ZeroNeg(m, v), [ZeroNeg(m, v) EXCEPT !.y = v], 0)
      /\ Does(ZeroNeg(m, v), [ZeroNeg(m, v) EXCEPT !.sp = v], 0)
  BY <1>2, SetAcc, SetX, SetY, SetSp, Zenon
<1>4. QED
  BY <1>2, <1>3, DoesAlso

\* A comparison sets flags alone.
LEMMA CompareDoes ==
  ASSUME NEW m \in CPUs, NEW r \in Byte, NEW v \in Byte
  PROVE  Does(m, Compare(m, r, v), 0)
<1>1. r \in Int /\ v \in Int
  BY Bytes
<1>2. (r - v) % 256 \in Int /\ (r >= v) \in BOOLEAN
  BY <1>1
<1> DEFINE n == ZeroNeg(m, (r - v) % 256)
<1>3. Does(m, n, 0) /\ n \in CPUs
  BY <1>2, ZeroNegDoes, SMTT(30) DEF Does
<1>4. Compare(m, r, v) = [n EXCEPT !.f.carry = (r >= v)]
  BY DEF Compare
<1> HIDE DEF n
<1>5. Does(n, Compare(m, r, v), 0)
  BY <1>2, <1>3, <1>4, SetCarry, Zenon
<1>6. QED
  BY <1>3, <1>5, DoesAlso

\* What adc and sbc leave in acc and the flags.
Added(m, v, c, o) == [ZeroNeg(m, v) EXCEPT !.f.carry = c, !.f.ov = o, !.acc = v]

\* The result of an addition is stored with its flags in no cycle.
LEMMA AddedDoes ==
  ASSUME NEW m \in CPUs, NEW v \in Byte, NEW c \in BOOLEAN, NEW o \in BOOLEAN
  PROVE  Does(m, Added(m, v, c, o), 0)
<1>1. v \in Int
  BY Bytes
<1> DEFINE n0 == ZeroNeg(m, v)
           n1 == [n0 EXCEPT !.f.carry = c]
           n2 == [n1 EXCEPT !.f.ov = o]
<1>2. Does(m, n0, 0) /\ n0 \in CPUs
  BY <1>1, ZeroNegDoes DEF Does
<1>3. Added(m, v, c, o) = [n2 EXCEPT !.acc = v]
  BY Zenon DEF Added
<1> HIDE DEF n0
<1>4. Does(n0, n1, 0) /\ n1 \in CPUs
  BY <1>2, SetCarry, Zenon DEF Does
<1> HIDE DEF n1
<1>5. Does(n1, n2, 0) /\ n2 \in CPUs
  BY <1>4, SetOv, Zenon DEF Does
<1> HIDE DEF n2
<1>6. Does(n2, Added(m, v, c, o), 0)
  BY <1>3, <1>5, SetAcc, Zenon
<1>7. Does(m, n1, 0)
  BY <1>2, <1>4, DoesAlso
<1>8. Does(m, n2, 0)
  BY <1>5, <1>7, DoesAlso
<1>9. QED
  BY <1>6, <1>8, DoesAlso

\* ADC and SBC leave a byte in acc, whatever they add or subtract.
LEMMA ArithmeticDoes ==
  ASSUME NEW m \in CPUs, NEW v \in Byte
  PROVE  Does(m, instr_adc(m, v), 0) /\ Does(m, instr_sbc(m, v), 0)
<1>1. ASSUME NEW sum \in Int
      PROVE  Does(m, Added(m, sum % 256, sum > \hFF, Overflow(m.acc, sum, v)), 0)
  <2> DEFINE r == sum % 256
             c == sum > \hFF
             o == Overflow(m.acc, sum, v)
  <2>1. r \in Byte /\ c \in BOOLEAN
    BY Remainders
  <2>2. o \in BOOLEAN
    BY Zenon DEF Overflow
  <2> HIDE DEF r, c, o
  <2>3. Does(m, Added(m, r, c, o), 0)
    BY <2>1, <2>2, AddedDoes, Zenon
  <2>4. QED
    BY <2>3 DEF r, c, o
<1> DEFINE sum == m.acc + v + Bit(m.f.carry)
           dif == m.acc + (255 - v) + Bit(m.f.carry)
<1>2. sum \in Int /\ dif \in Int
  <2> DEFINE k == Bit(m.f.carry)
  <2>1. m.acc \in Int /\ v \in Int /\ k \in Int
    <3>1. m.acc \in Byte
      BY Fields
    <3>2. k \in {0, 1}
      BY BitIs, Zenon
    <3> HIDE DEF k
    <3> QED BY <3>1, <3>2, Bytes
  <2> HIDE DEF k
  <2>2. m.acc + v + k \in Int /\ m.acc + (255 - v) + k \in Int
    BY <2>1
  <2> QED BY <2>2 DEF k
<1>3. /\ instr_adc(m, v) = Added(m, sum % 256, sum > \hFF, Overflow(m.acc, sum, v))
      /\ instr_sbc(m, v) = Added(m, dif % 256, dif > \hFF, Overflow(m.acc, dif, v))
  BY DEF instr_adc, instr_sbc, Added
<1> HIDE DEF sum, dif
<1>4. /\ Does(m, Added(m, sum % 256, sum > \hFF, Overflow(m.acc, sum, v)), 0)
      /\ Does(m, Added(m, dif % 256, dif > \hFF, Overflow(m.acc, dif, v)), 0)
  BY <1>1, <1>2
<1>5. QED
  BY <1>3, <1>4

\* BIT sets flags alone.
LEMMA BitDoes == ASSUME NEW m \in CPUs, NEW v PROVE Does(m, instr_bit(m, v), 0)
<1> DEFINE a == (And(m.acc, v) = 0)
           b == (v = 0)
           c == (And(v, \h40) # 0)
           n1 == [m EXCEPT !.f.neg = a]
           n2 == [n1 EXCEPT !.f.zero = b]
<1>1. a \in BOOLEAN /\ b \in BOOLEAN /\ c \in BOOLEAN
  BY Zenon
<1>2. instr_bit(m, v) = [n2 EXCEPT !.f.ov = c]
  BY Zenon DEF instr_bit
<1> HIDE DEF a, b, c
<1>3. Does(m, n1, 0) /\ n1 \in CPUs
  BY <1>1, SetNeg, Zenon DEF Does
<1> HIDE DEF n1
<1>4. Does(n1, n2, 0) /\ n2 \in CPUs
  BY <1>1, <1>3, SetZero, Zenon DEF Does
<1> HIDE DEF n2
<1>5. Does(n2, instr_bit(m, v), 0)
  BY <1>1, <1>2, <1>4, SetOv, Zenon
<1>6. Does(m, n2, 0)
  BY <1>3, <1>4, DoesAlso
<1>7. QED
  BY <1>5, <1>6, DoesAlso

\* The instructions that read a value, and those that modify one.
ReadNames == {"lda", "ldx", "ldy", "cmp", "cpx", "cpy", "adc", "sbc", "ora", "and", "eor", "bit"}
ModifyNames == {"inc", "dec", "asl", "lsr", "rol", "ror"}

\* What an instruction does with the byte it has read takes no cycle, and leaves the
\* interrupts alone.
LEMMA ReadsDoes ==
  ASSUME NEW m \in CPUs, NEW v \in Byte, NEW f \in ReadNames
  PROVE  Does(m, Reads(f, m, v), 0)
<1>1. Does(m, instr_lda(m, v), 0) /\ Does(m, instr_ldx(m, v), 0) /\ Does(m, instr_ldy(m, v), 0)
  BY LoadDoes, Zenon DEF instr_lda, instr_ldx, instr_ldy
<1>2. Does(m, instr_cmp(m, v), 0) /\ Does(m, instr_cpx(m, v), 0) /\ Does(m, instr_cpy(m, v), 0)
  BY CompareDoes, Fields, Zenon DEF instr_cmp, instr_cpx, instr_cpy
<1>3. Does(m, instr_ora(m, v), 0) /\ Does(m, instr_and(m, v), 0) /\ Does(m, instr_eor(m, v), 0)
  BY LoadDoes, BitwiseBytes, Zenon DEF instr_ora, instr_and, instr_eor
<1>4. QED
  BY <1>1, <1>2, <1>3, ArithmeticDoes, BitDoes, Zenon DEF Reads, ReadNames

\* A shift's or a step's result sets the flags; the carry may be set before it.
LEMMA ResultDoes ==
  ASSUME NEW m \in CPUs, NEW v \in Byte
  PROVE  /\ Does(m, Result(m, v).m, 0) /\ Result(m, v).v \in Byte
         /\ \A c \in BOOLEAN : /\ Does(m, Result([m EXCEPT !.f.carry = c], v).m, 0)
                               /\ Result([m EXCEPT !.f.carry = c], v).v \in Byte
<1>1. v \in Int
  BY Bytes
<1>2. ASSUME NEW n \in CPUs, Does(m, n, 0)
      PROVE  Does(m, Result(n, v).m, 0) /\ Result(n, v).v \in Byte
  <2>1. Result(n, v).m = ZeroNeg(n, v) /\ Result(n, v).v = v
    BY Zenon DEF Result
  <2>2. Does(n, ZeroNeg(n, v), 0)
    BY <1>1, ZeroNegDoes, Zenon
  <2>3. QED
    BY <1>2, <2>1, <2>2, DoesAlso
<1>3. ASSUME NEW c \in BOOLEAN
      PROVE  Does(m, [m EXCEPT !.f.carry = c], 0) /\ [m EXCEPT !.f.carry = c] \in CPUs
  BY SetCarry, Zenon DEF Does
<1>4. QED
  BY <1>2, <1>3, DoesNothing, Zenon

\* An instruction that modifies a byte gives a byte, in no cycle.
LEMMA ModifiesDoes ==
  ASSUME NEW m \in CPUs, NEW v \in Byte, NEW f \in ModifyNames
  PROVE  Does(m, Modifies(f, m, v).m, 0) /\ Modifies(f, m, v).v \in Byte
<1> DEFINE up == (v + 1) % 256
           down == (v + 255) % 256
           left == (2 * v) % 256
           right == v \div 2
           rol == (2 * v + Bit(m.f.carry)) % 256
           ror == v \div 2 + 128 * Bit(m.f.carry)
           odd == v % 2 = 1
<1>1. v \in Nat /\ v < 256 /\ Bit(m.f.carry) \in {0, 1}
  BY Bytes, BitIs
<1>2. up \in Byte /\ down \in Byte /\ left \in Byte /\ rol \in Byte
  <2>1. v + 1 \in Int /\ v + 255 \in Int /\ 2 * v \in Int /\ 2 * v + Bit(m.f.carry) \in Int
    BY <1>1
  <2>2. QED
    BY <2>1, Remainders
<1>3. right \in Byte /\ ror \in Byte
  BY <1>1, Bytes
<1>4. Sign(v) \in BOOLEAN /\ odd \in BOOLEAN
  BY <1>1, SignIs
<1>5. /\ instr_inc(m, v) = Result(m, up) /\ instr_dec(m, v) = Result(m, down)
      /\ instr_asl(m, v) = Result([m EXCEPT !.f.carry = Sign(v)], left)
      /\ instr_lsr(m, v) = Result([m EXCEPT !.f.carry = odd], right)
      /\ instr_rol(m, v) = Result([m EXCEPT !.f.carry = Sign(v)], rol)
      /\ instr_ror(m, v) = Result([m EXCEPT !.f.carry = odd], ror)
  BY DEF instr_inc, instr_dec, instr_asl, instr_lsr, instr_rol, instr_ror
<1> HIDE DEF up, down, left, right, rol, ror, odd
<1>6. /\ Does(m, instr_inc(m, v).m, 0) /\ instr_inc(m, v).v \in Byte
      /\ Does(m, instr_dec(m, v).m, 0) /\ instr_dec(m, v).v \in Byte
      /\ Does(m, instr_asl(m, v).m, 0) /\ instr_asl(m, v).v \in Byte
      /\ Does(m, instr_lsr(m, v).m, 0) /\ instr_lsr(m, v).v \in Byte
      /\ Does(m, instr_rol(m, v).m, 0) /\ instr_rol(m, v).v \in Byte
      /\ Does(m, instr_ror(m, v).m, 0) /\ instr_ror(m, v).v \in Byte
  BY <1>2, <1>3, <1>4, <1>5, ResultDoes, ZenonT(60)
<1>7. QED
  BY <1>6, Zenon DEF Modifies, ModifyNames

\* k calls of cycle() take k cycles.
LEMMA WaitDoes ==
  ASSUME NEW m \in CPUs, NEW k \in Nat
  PROVE  Does(m, [m EXCEPT !.cycles = @ + k], k)
<1> DEFINE c == m.cycles + k
<1>1. c \in Nat
  BY Fields
<1>2. [m EXCEPT !.cycles = @ + k] = [m EXCEPT !.cycles = c]
  OBVIOUS
<1> HIDE DEF c
<1> DEFINE n == [m EXCEPT !.cycles = c]
<1>3. n \in CPUs /\ Ctl(n) = Ctl(m) /\ n.cycles = c /\ n.log = m.log
  BY <1>1, Zenon DEF Ctl, CPUs, CPUsWith
<1>4. Does(m, n, k)
  BY <1>3, Quiet, Zenon DEF c
<1>5. QED
  BY <1>2, <1>4

\* An instruction that reads its operand takes one cycle to do so.
LEMMA ReadWithDoes ==
  ASSUME NEW m \in CPUs, NEW a \in Nat, NEW f \in ReadNames
  PROVE  Does(m, ReadWith(f, m, a), 1)
<1>1. Does(m, readmem(m, a), 1) /\ readmem(m, a) \in CPUs /\ Read(m, a) \in Byte
  BY ReadmemDoes, ReadIsByte, Zenon DEF Does
<1>2. Does(readmem(m, a), ReadWith(f, m, a), 0)
  BY <1>1, ReadsDoes, Zenon DEF ReadWith
<1>3. QED
  BY <1>1, <1>2, DoesAlso

\* One that modifies it takes two, and those of the addressing mode.
LEMMA ModifyWithDoes ==
  ASSUME NEW m \in CPUs, NEW a \in Nat, NEW f \in ModifyNames, NEW k \in Nat
  PROVE  Does(m, ModifyWith(f, m, a, k), k + 2)
<1> DEFINE r == Modifies(f, readmem(m, a), Read(m, a))
           w == [r.m EXCEPT !.cycles = @ + k]
<1>1. Does(m, readmem(m, a), 1) /\ readmem(m, a) \in CPUs /\ Read(m, a) \in Byte
  BY ReadmemDoes, ReadIsByte, Zenon DEF Does
<1>2. Does(readmem(m, a), r.m, 0) /\ r.v \in Byte /\ r.m \in CPUs
  BY <1>1, ModifiesDoes, Zenon DEF Does
<1>3. ModifyWith(f, m, a, k) = writemem(w, a, r.v)
  BY DEF ModifyWith
<1> HIDE DEF r
<1>4. Does(r.m, w, k) /\ w \in CPUs
  BY <1>2, WaitDoes DEF Does
<1> HIDE DEF w
<1>5. Does(w, ModifyWith(f, m, a, k), 1)
  BY <1>2, <1>3, <1>4, WritememDoes, Zenon
<1>6. Does(m, r.m, 1)
  BY <1>1, <1>2, DoesAlso
<1>7. Does(m, w, 1 + k)
  BY <1>4, <1>6, DoesThen
<1>8. QED
  BY <1>5, <1>7, DoesThen

-------------------------------------------------------------------------------
(* Addressing modes *)

\* An indexed address wraps around.
LEMMA IndexedIsWord ==
  ASSUME NEW m \in CPUs, NEW i \in Byte
  PROVE  Indexed(m, i) \in Word
<1>1. full(m) + i \in Int
  BY FullIsWord, WordsAreNat, Bytes
<1>2. QED
  BY <1>1, Remainders DEF Indexed

\* The addresses that the zero page modes form, which the code does not wrap.
LEMMA ZeroPage ==
  ASSUME NEW m \in CPUs
  PROVE  /\ m.low \in Nat /\ m.low + 1 \in Nat /\ m.low + m.x \in Nat /\ m.low + m.y \in Nat
         /\ m.low + m.x + 1 \in Nat
BY Fields, Bytes

\* (zp,x) reads its pointer in three cycles.
LEMMA PointerXDoes ==
  ASSUME NEW m \in CPUs
  PROVE  Does(m, PointerX(m).m, 3) /\ PointerX(m).a \in Word
<1> DEFINE a == m.low + m.x
           m1 == cycle(m)
           m2 == readmem(m1, a)
<1>1. PointerX(m).m = readmem(m2, a + 1) /\ PointerX(m).a = ReadWord(m, a)
  BY DEF PointerX
<1>2. a \in Nat /\ a + 1 \in Nat
  BY ZeroPage, Zenon
<1> HIDE DEF a
<1>3. Does(m, m1, 1) /\ m1 \in CPUs
  BY CycleDoes, Zenon DEF Does
<1> HIDE DEF m1
<1>4. Does(m1, m2, 1) /\ m2 \in CPUs
  BY <1>2, <1>3, ReadmemDoes, Zenon DEF Does
<1> HIDE DEF m2
<1>5. Does(m2, PointerX(m).m, 1)
  BY <1>1, <1>2, <1>4, ReadmemDoes, Zenon
<1>6. Does(m, m2, 2)
  BY <1>3, <1>4, DoesThen
<1>7. Does(m, PointerX(m).m, 3)
  BY <1>5, <1>6, DoesThen
<1>8. QED
  BY <1>1, <1>7, ReadWordIsWord, Zenon

\* (zp),y reads its pointer in two.
LEMMA PointerYDoes ==
  ASSUME NEW m \in CPUs
  PROVE  Does(m, PointerY(m).m, 2) /\ PointerY(m).a \in Word
<1> DEFINE a == m.low
           b == m.low + 1
           m1 == readmem(m, a)
           y == (ReadWord(m, a) + m.y) % 65536
<1>1. PointerY(m).m = readmem(m1, b) /\ PointerY(m).a = y
  BY DEF PointerY
<1>2. a \in Nat /\ b \in Nat
  BY ZeroPage
<1>3. y \in Word
  <2>1. ReadWord(m, a) + m.y \in Int
    BY ReadWordIsWord, WordsAreNat, Fields, Bytes
  <2>2. QED
    BY <2>1, Remainders
<1> HIDE DEF a, b, y
<1>4. Does(m, m1, 1) /\ m1 \in CPUs
  BY <1>2, ReadmemDoes, Zenon DEF Does
<1> HIDE DEF m1
<1>5. Does(m1, PointerY(m).m, 1)
  BY <1>1, <1>2, <1>4, ReadmemDoes, Zenon
<1>6. Does(m, PointerY(m).m, 2)
  BY <1>4, <1>5, DoesThen
<1>7. QED
  BY <1>1, <1>3, <1>6

\* The cycles of each read mode after the fetch of the opcode.
ReadCycles == [imm |-> {1}, zero |-> {2}, zerox |-> {3}, zeroy |-> {3}, abs |-> {3},
               absx |-> {3, 4}, absy |-> {3, 4}, indx |-> {5}, indy |-> {4, 5}]
ReadModes == {"imm", "zero", "zerox", "zeroy", "abs", "absx", "absy", "indx", "indy"}

\* cycle() after an operation takes one cycle more.
LEMMA ThenCycle ==
  ASSUME NEW m \in CPUs, NEW n, NEW k \in Nat, Does(m, n, k)
  PROVE  Does(m, cycle(n), k + 1)
<1>1. Does(n, cycle(n), 1)
  BY CycleDoes, Zenon DEF Does
<1>2. QED
  BY <1>1, DoesThen

\* The operand bytes of an instruction, one or two, with their cycles.
LEMMA OperandsDo ==
  ASSUME NEW m \in CPUs
  PROVE  /\ Does(m, fetchop_low(m), 1) /\ fetchop_low(m) \in CPUs
         /\ Does(m, fetchops(m), 2) /\ fetchops(m) \in CPUs
BY FetchopDoes, FetchopsDoes, Zenon DEF Does

\* The operands give addresses.
LEMMA OperandAddresses ==
  ASSUME NEW m \in CPUs
  PROVE  full(m) \in Nat /\ Indexed(m, m.x) \in Nat /\ Indexed(m, m.y) \in Nat
BY FullIsWord, IndexedIsWord, WordsAreNat, Fields, Zenon

\* A read at an indexed address takes a cycle more when the index crosses a page.
LEMMA IndexedReadDoes ==
  ASSUME NEW m \in CPUs, NEW n, Does(m, n, 2), NEW f \in ReadNames, NEW i \in Byte
  PROVE  \E k \in {3, 4} : Does(m, AbsIndexedRead(f, n, i), k)
<1>1. n \in CPUs /\ Indexed(n, i) \in Nat
  BY IndexedIsWord, WordsAreNat, Zenon DEF Does
<1> DEFINE r == ReadWith(f, n, Indexed(n, i))
<1>2. AbsIndexedRead(f, n, i) = IF n.high # 0 THEN cycle(r) ELSE r
  BY DEF AbsIndexedRead
<1>3. Does(n, r, 1)
  BY <1>1, ReadWithDoes, Zenon
<1> HIDE DEF r
<1>4. Does(m, r, 3)
  BY <1>3, DoesThen
<1>5. Does(m, cycle(r), 4)
  BY <1>4, ThenCycle
<1>6. QED
  BY <1>2, <1>4, <1>5, Zenon

\* Every addressing mode that reads takes the cycles that are noted for it, and leaves
\* the interrupts alone.
LEMMA ReadModeDoes ==
  ASSUME NEW m \in CPUs, NEW f \in ReadNames, NEW mode \in ReadModes
  PROVE  \E k \in ReadCycles[mode] : Does(m, ReadMode(mode, f, m), k)
<1> DEFINE l == fetchop_low(m)
           w == fetchops(m)
           u == PointerX(l)
           v == PointerY(l)
           r == ReadWith(f, v.m, v.a)
<1>1. Does(m, l, 1) /\ l \in CPUs /\ Does(m, w, 2) /\ w \in CPUs
  BY OperandsDo, Zenon
<1>2. /\ addrmode_imm_read(f, m) = Reads(f, l, l.low)
      /\ addrmode_zero_read(f, m) = ReadWith(f, l, l.low)
      /\ addrmode_zerox_read(f, m) = cycle(ReadWith(f, l, l.low + l.x))
      /\ addrmode_zeroy_read(f, m) = cycle(ReadWith(f, l, l.low + l.y))
      /\ addrmode_abs_read(f, m) = ReadWith(f, w, full(w))
      /\ addrmode_absx_read(f, m) = AbsIndexedRead(f, w, w.x)
      /\ addrmode_absy_read(f, m) = AbsIndexedRead(f, w, w.y)
      /\ addrmode_indx_read(f, m) = ReadWith(f, u.m, u.a)
      /\ addrmode_indy_read(f, m) = IF m.high # High(v.a) THEN cycle(r) ELSE r
  BY DEF addrmode_imm_read, addrmode_zero_read, addrmode_zerox_read, addrmode_zeroy_read,
         addrmode_abs_read, addrmode_absx_read, addrmode_absy_read, addrmode_indx_read,
         addrmode_indy_read
<1> HIDE DEF l, w
<1>3. CASE mode = "imm"
  <2>1. Does(l, addrmode_imm_read(f, m), 0)
    BY <1>1, <1>2, ReadsDoes, Fields, Zenon
  <2>2. Does(m, addrmode_imm_read(f, m), 1)
    BY <1>1, <2>1, DoesThen
  <2>3. QED
    BY <1>3, <2>2, Zenon DEF ReadMode, ReadCycles
<1>4. CASE mode = "zero"
  <2>1. Does(l, addrmode_zero_read(f, m), 1)
    BY <1>1, <1>2, ReadWithDoes, ZeroPage
  <2>2. Does(m, addrmode_zero_read(f, m), 2)
    BY <1>1, <2>1, DoesThen
  <2>3. QED
    BY <1>4, <2>2, Zenon DEF ReadMode, ReadCycles
<1>5. CASE mode \in {"zerox", "zeroy"}
  <2>1. ASSUME NEW a \in Nat PROVE Does(m, cycle(ReadWith(f, l, a)), 3)
    <3>1. Does(l, ReadWith(f, l, a), 1)
      BY <1>1, ReadWithDoes, Zenon
    <3>2. Does(m, ReadWith(f, l, a), 2)
      BY <1>1, <3>1, DoesThen
    <3>3. QED
      BY <3>2, ThenCycle
  <2>2. Does(m, addrmode_zerox_read(f, m), 3) /\ Does(m, addrmode_zeroy_read(f, m), 3)
    BY <1>1, <1>2, <2>1, ZeroPage
  <2>3. CASE mode = "zerox"
    BY <2>2, <2>3, Zenon DEF ReadMode, ReadCycles
  <2>4. CASE mode = "zeroy"
    BY <2>2, <2>4, Zenon DEF ReadMode, ReadCycles
  <2>5. QED
    BY <1>5, <2>3, <2>4, Zenon
<1>6. CASE mode = "abs"
  <2>1. Does(w, addrmode_abs_read(f, m), 1)
    BY <1>1, <1>2, ReadWithDoes, OperandAddresses, Zenon
  <2>2. Does(m, addrmode_abs_read(f, m), 3)
    BY <1>1, <2>1, DoesThen
  <2>3. QED
    BY <1>6, <2>2, Zenon DEF ReadMode, ReadCycles
<1>7. CASE mode \in {"absx", "absy"}
  <2>1. /\ \E k \in {3, 4} : Does(m, addrmode_absx_read(f, m), k)
        /\ \E k \in {3, 4} : Does(m, addrmode_absy_read(f, m), k)
    BY <1>1, <1>2, IndexedReadDoes, Fields, ZenonT(60)
  <2>2. CASE mode = "absx"
    BY <2>1, <2>2, Zenon DEF ReadMode, ReadCycles
  <2>3. CASE mode = "absy"
    BY <2>1, <2>3, Zenon DEF ReadMode, ReadCycles
  <2>4. QED
    BY <1>7, <2>2, <2>3, Zenon
<1>8. CASE mode = "indx"
  <2>1. Does(l, u.m, 3) /\ u.m \in CPUs /\ u.a \in Nat
    BY <1>1, PointerXDoes, WordsAreNat, Zenon DEF Does
  <2> HIDE DEF u
  <2>2. Does(u.m, addrmode_indx_read(f, m), 1)
    BY <1>2, <2>1, ReadWithDoes, Zenon
  <2>3. Does(m, u.m, 4)
    BY <1>1, <2>1, DoesThen
  <2>4. Does(m, addrmode_indx_read(f, m), 5)
    BY <2>2, <2>3, DoesThen
  <2>5. QED
    BY <1>8, <2>4, Zenon DEF ReadMode, ReadCycles
<1>9. CASE mode = "indy"
  <2>1. Does(l, v.m, 2) /\ v.m \in CPUs /\ v.a \in Nat
    BY <1>1, PointerYDoes, WordsAreNat, Zenon DEF Does
  <2> HIDE DEF v
  <2>2. Does(v.m, r, 1)
    BY <2>1, ReadWithDoes, Zenon
  <2>3. Does(m, v.m, 3)
    BY <1>1, <2>1, DoesThen
  <2> HIDE DEF r
  <2>4. Does(m, r, 4)
    BY <2>2, <2>3, DoesThen
  <2>5. Does(m, cycle(r), 5)
    BY <2>4, ThenCycle
  <2>6. \E k \in {4, 5} : Does(m, addrmode_indy_read(f, m), k)
    BY <1>2, <2>4, <2>5, Zenon
  <2>7. QED
    BY <1>9, <2>6, Zenon DEF ReadMode, ReadCycles
<1>10. QED
  BY <1>3, <1>4, <1>5, <1>6, <1>7, <1>8, <1>9, Zenon DEF ReadModes

\* The cycles of the modes of instructions that modify, without the fetch.
ModifyCycles == [accum |-> {1}, zero |-> {4}, zerox |-> {5}, abs |-> {5}, absx |-> {6}]
ModifyModes == {"accum", "zero", "zerox", "abs", "absx"}

\* Every addressing mode that modifies takes the cycles that are noted for it.
LEMMA ModifyModeDoes ==
  ASSUME NEW m \in CPUs, NEW f \in ModifyNames, NEW mode \in ModifyModes
  PROVE  \E k \in ModifyCycles[mode] : Does(m, ModifyMode(mode, f, m), k)
<1> DEFINE l == fetchop_low(m)
           w == fetchops(m)
           r == Modifies(f, cycle(m), m.acc)
<1>1. Does(m, l, 1) /\ l \in CPUs /\ Does(m, w, 2) /\ w \in CPUs
  BY OperandsDo, Zenon
<1>2. /\ addrmode_accum_modify(f, m) = [r.m EXCEPT !.acc = r.v]
      /\ addrmode_zero_modify(f, m) = ModifyWith(f, l, l.low, 1)
      /\ addrmode_zerox_modify(f, m) = ModifyWith(f, cycle(l), l.low + l.x, 1)
      /\ addrmode_abs_modify(f, m) = ModifyWith(f, w, full(w), 1)
      /\ addrmode_absx_modify(f, m) = ModifyWith(f, w, Indexed(w, w.x), 2)
  BY DEF addrmode_accum_modify, addrmode_zero_modify, addrmode_zerox_modify,
         addrmode_abs_modify, addrmode_absx_modify
<1> HIDE DEF l, w
<1>3. CASE mode = "accum"
  <2>1. Does(m, cycle(m), 1) /\ cycle(m) \in CPUs
    BY CycleDoes, Zenon DEF Does
  <2>2. Does(cycle(m), r.m, 0) /\ r.v \in Byte /\ r.m \in CPUs
    BY <2>1, Fields, ModifiesDoes, Zenon DEF Does
  <2> HIDE DEF r
  <2>3. Does(r.m, addrmode_accum_modify(f, m), 0)
    BY <1>2, <2>2, SetAcc, Zenon
  <2>4. Does(m, r.m, 1)
    BY <2>1, <2>2, DoesAlso
  <2>5. Does(m, addrmode_accum_modify(f, m), 1)
    BY <2>3, <2>4, DoesAlso
  <2>6. QED
    BY <1>3, <2>5, Zenon DEF ModifyMode, ModifyCycles
<1>4. CASE mode = "zero"
  <2>1. Does(l, addrmode_zero_modify(f, m), 1 + 2)
    BY <1>1, <1>2, ModifyWithDoes, ZeroPage
  <2>2. Does(m, addrmode_zero_modify(f, m), 4)
    BY <1>1, <2>1, DoesThen
  <2>3. QED
    BY <1>4, <2>2, Zenon DEF ModifyMode, ModifyCycles
<1>5. CASE mode = "zerox"
  <2>1. Does(m, cycle(l), 2) /\ cycle(l) \in CPUs
    BY <1>1, ThenCycle DEF Does
  <2>2. Does(cycle(l), addrmode_zerox_modify(f, m), 1 + 2)
    BY <1>1, <1>2, <2>1, ModifyWithDoes, ZeroPage
  <2>3. Does(m, addrmode_zerox_modify(f, m), 5)
    BY <2>1, <2>2, DoesThen
  <2>4. QED
    BY <1>5, <2>3, Zenon DEF ModifyMode, ModifyCycles
<1>6. CASE mode = "abs"
  <2>1. Does(w, addrmode_abs_modify(f, m), 1 + 2)
    BY <1>1, <1>2, ModifyWithDoes, OperandAddresses
  <2>2. Does(m, addrmode_abs_modify(f, m), 5)
    BY <1>1, <2>1, DoesThen
  <2>3. QED
    BY <1>6, <2>2, Zenon DEF ModifyMode, ModifyCycles
<1>7. CASE mode = "absx"
  <2>1. Does(w, addrmode_absx_modify(f, m), 2 + 2)
    BY <1>1, <1>2, ModifyWithDoes, OperandAddresses
  <2>2. Does(m, addrmode_absx_modify(f, m), 6)
    BY <1>1, <2>1, DoesThen
  <2>3. QED
    BY <1>7, <2>2, Zenon DEF ModifyMode, ModifyCycles
<1>8. QED
  BY <1>3, <1>4, <1>5, <1>6, <1>7, Zenon DEF ModifyModes

\* The same for those that write.
WriteCycles == [zero |-> {2}, zerox |-> {3}, zeroy |-> {3}, abs |-> {3}, absx |-> {4},
                absy |-> {4}, indx |-> {5}, indy |-> {5}]
WriteModes == {"zero", "zerox", "zeroy", "abs", "absx", "absy", "indx", "indy"}

\* A write after an operation, with or without a cycle between them.
LEMMA ThenWritemem ==
  ASSUME NEW m \in CPUs, NEW n, NEW k \in Nat, Does(m, n, k), NEW a \in Nat, NEW v \in Byte
  PROVE  Does(m, writemem(n, a, v), k + 1) /\ Does(m, writemem(cycle(n), a, v), k + 2)
<1>1. n \in CPUs
  BY Zenon DEF Does
<1>2. Does(n, writemem(n, a, v), 1)
  BY <1>1, WritememDoes, Zenon
<1>3. Does(m, cycle(n), k + 1) /\ cycle(n) \in CPUs
  BY ThenCycle, Zenon DEF Does
<1>4. Does(cycle(n), writemem(cycle(n), a, v), 1)
  BY <1>3, WritememDoes, Zenon
<1>5. Does(m, writemem(n, a, v), k + 1)
  BY <1>2, DoesThen
<1>6. Does(m, writemem(cycle(n), a, v), (k + 1) + 1)
  BY <1>3, <1>4, DoesThen
<1>7. QED
  BY <1>5, <1>6

\* Every addressing mode that writes takes the cycles that are noted for it.
LEMMA WriteModeDoes ==
  ASSUME NEW m \in CPUs, NEW v \in Byte, NEW mode \in WriteModes
  PROVE  \E k \in WriteCycles[mode] : Does(m, WriteMode(mode, v, m), k)
<1> DEFINE l == fetchop_low(m)
           w == fetchops(m)
           p == PointerX(l)
           q == PointerY(l)
<1>1. Does(m, l, 1) /\ l \in CPUs /\ Does(m, w, 2) /\ w \in CPUs
  BY OperandsDo, Zenon
<1>2. /\ addrmode_zero_write(v, m) = writemem(l, l.low, v)
      /\ addrmode_zerox_write(v, m) = writemem(cycle(l), l.low + l.x, v)
      /\ addrmode_zeroy_write(v, m) = writemem(cycle(l), l.low + l.y, v)
      /\ addrmode_abs_write(v, m) = writemem(w, full(w), v)
      /\ addrmode_absx_write(v, m) = writemem(cycle(w), Indexed(w, w.x), v)
      /\ addrmode_absy_write(v, m) = writemem(cycle(w), Indexed(w, w.y), v)
      /\ addrmode_indx_write(v, m) = writemem(p.m, p.a, v)
      /\ addrmode_indy_write(v, m) = writemem(cycle(q.m), q.a, v)
  BY DEF addrmode_zero_write, addrmode_zerox_write, addrmode_zeroy_write, addrmode_abs_write,
         addrmode_absx_write, addrmode_absy_write, addrmode_indx_write, addrmode_indy_write
<1> HIDE DEF l, w
<1>3. /\ Does(m, addrmode_zero_write(v, m), 2)
      /\ Does(m, addrmode_zerox_write(v, m), 3)
      /\ Does(m, addrmode_zeroy_write(v, m), 3)
  <2>1. l.low \in Nat /\ l.low + l.x \in Nat /\ l.low + l.y \in Nat
    BY <1>1, ZeroPage
  <2>2. ASSUME NEW a \in Nat
        PROVE  Does(m, writemem(l, a, v), 2) /\ Does(m, writemem(cycle(l), a, v), 3)
    BY <1>1, ThenWritemem
  <2>3. QED
    BY <1>2, <2>1, <2>2
<1>4. /\ Does(m, addrmode_abs_write(v, m), 3)
      /\ Does(m, addrmode_absx_write(v, m), 4)
      /\ Does(m, addrmode_absy_write(v, m), 4)
  BY <1>1, <1>2, ThenWritemem, OperandAddresses
<1>5. Does(m, p.m, 4) /\ p.a \in Nat /\ Does(m, q.m, 3) /\ q.a \in Nat
  <2>1. Does(l, p.m, 3) /\ p.a \in Nat /\ Does(l, q.m, 2) /\ q.a \in Nat
    BY <1>1, PointerXDoes, PointerYDoes, WordsAreNat, Zenon
  <2>2. QED
    BY <1>1, <2>1, DoesThen
<1> HIDE DEF p, q
<1>6. Does(m, addrmode_indx_write(v, m), 5) /\ Does(m, addrmode_indy_write(v, m), 5)
  BY <1>2, <1>5, ThenWritemem
<1>7. CASE mode = "zero"
  BY <1>7, <1>3, Zenon DEF WriteMode, WriteCycles
<1>8. CASE mode = "zerox"
  BY <1>8, <1>3, Zenon DEF WriteMode, WriteCycles
<1>9. CASE mode = "zeroy"
  BY <1>9, <1>3, Zenon DEF WriteMode, WriteCycles
<1>10. CASE mode = "abs"
  BY <1>10, <1>4, Zenon DEF WriteMode, WriteCycles
<1>11. CASE mode = "absx"
  BY <1>11, <1>4, Zenon DEF WriteMode, WriteCycles
<1>12. CASE mode = "absy"
  BY <1>12, <1>4, Zenon DEF WriteMode, WriteCycles
<1>13. CASE mode = "indx"
  BY <1>13, <1>6, Zenon DEF WriteMode, WriteCycles
<1>14. CASE mode = "indy"
  BY <1>14, <1>6, Zenon DEF WriteMode, WriteCycles
<1>15. QED
  BY <1>7, <1>8, <1>9, <1>10, <1>11, <1>12, <1>13, <1>14, Zenon DEF WriteModes

-------------------------------------------------------------------------------
(* Polling *)

\* An operation that leaves the interrupts alone is one that may not.
LEMMA DoesRuns ==
  ASSUME NEW m, NEW n, NEW k, Does(m, n, k)
  PROVE  /\ Runs(m, n, k) /\ n.execnmi = m.execnmi /\ n.execirq = m.execirq
         /\ n.f.intdis = m.f.intdis /\ n.f.breakf = m.f.breakf
BY Zenon DEF Does, Runs, Ctl, Rest

\* Two of them after each other take their cycles together.
LEMMA RunsThen ==
  ASSUME NEW m \in CPUs, NEW n, NEW o, NEW j \in Nat, NEW k \in Nat,
         Runs(m, n, j), Runs(n, o, k)
  PROVE  Runs(m, o, j + k)
<1>1. n \in CPUs /\ o \in CPUs
  BY Zenon DEF Runs
<1>2. /\ m.cycles \in Nat
      /\ m.log \in Seq(Accesses) /\ n.log \in Seq(Accesses) /\ o.log \in Seq(Accesses)
  BY <1>1, Fields, Zenon
<1>3. Extends(m.log, o.log)
  BY <1>2, ExtendsTransitive, Zenon DEF Runs
<1>4. o.cycles = m.cycles + (j + k)
  <2>1. n.cycles = m.cycles + j /\ o.cycles = n.cycles + k
    BY Zenon DEF Runs
  <2>2. QED
    BY <1>2, <2>1
<1>5. QED
  BY <1>1, <1>3, <1>4, Zenon DEF Runs

\* last_cycle() polls for interrupts, and does nothing else.
LEMMA LastCycle ==
  ASSUME NEW m \in CPUs
  PROVE  PollsOnly(m, last_cycle(m), 0) /\ last_cycle(m).pc = m.pc
<1> DEFINE a == m.execnmi \/ m.nmipending
           n1 == [m EXCEPT !.execnmi = a]
           b == n1.execirq \/ (~n1.f.intdis /\ n1.irqpending)
           n == [n1 EXCEPT !.execirq = b]
<1>1. last_cycle(m) = n
  BY DEF last_cycle, nmipoll, irqpoll
<1>2. a \in BOOLEAN /\ n1 \in CPUs
  <2>1. a \in BOOLEAN
    BY FlagFields, Zenon
  <2> HIDE DEF a
  <2>2. QED
    BY <2>1, Zenon DEF CPUs, CPUsWith
<1>3. /\ n1.execnmi = a /\ n1.execirq = m.execirq /\ n1.f = m.f /\ n1.pc = m.pc
      /\ Rest(n1) = Rest(m) /\ n1.cycles = m.cycles /\ n1.log = m.log
  BY Zenon DEF CPUs, CPUsWith, Rest
<1>4. b = (m.execirq \/ (~m.f.intdis /\ m.irqpending))
  BY <1>3, Zenon DEF Rest
<1> HIDE DEF a, n1
<1>5. b \in BOOLEAN
  BY <1>2, FlagFields, Zenon
<1> HIDE DEF b
<1>6. n \in CPUs
  BY <1>2, <1>5, Zenon DEF CPUs, CPUsWith
<1>7. /\ n.execnmi = n1.execnmi /\ n.execirq = b /\ n.f = n1.f /\ n.pc = n1.pc
      /\ Rest(n) = Rest(n1) /\ n.cycles = n1.cycles /\ n.log = n1.log
  BY <1>2, Zenon DEF CPUs, CPUsWith, Rest
<1> HIDE DEF n
<1>8. n.cycles = m.cycles + 0 /\ Extends(m.log, n.log)
  BY <1>3, <1>7, Fields, ExtendsReflexive
<1>9. PollsOnly(m, n, 0) /\ n.pc = m.pc
  BY <1>3, <1>4, <1>6, <1>7, <1>8, Zenon DEF PollsOnly, Polls, Runs, a
<1>10. QED
  BY <1>1, <1>9

\* A poll after an operation sees the flags that the operation was given.
LEMMA DoesPolls ==
  ASSUME NEW m \in CPUs, NEW n, NEW o, NEW j \in Nat, NEW k \in Nat,
         Does(m, n, j), PollsOnly(n, o, k)
  PROVE  PollsOnly(m, o, j + k)
<1>1. Runs(m, n, j) /\ Runs(n, o, k)
  BY DoesRuns, Zenon DEF PollsOnly, Polls
<1>2. Runs(m, o, j + k)
  BY <1>1, RunsThen, Zenon
<1>3. /\ n.execnmi = m.execnmi /\ n.execirq = m.execirq
      /\ n.f.intdis = m.f.intdis /\ n.f.breakf = m.f.breakf
      /\ n.nmipending = m.nmipending /\ n.irqpending = m.irqpending
  BY <1>1, DoesRuns, ZenonT(60) DEF Runs, Rest
<1>4. QED
  BY <1>2, <1>3, Zenon DEF PollsOnly, Polls

\* An operation after a poll leaves what was polled.
LEMMA PollsDoes ==
  ASSUME NEW m \in CPUs, NEW n, NEW o, NEW j \in Nat, NEW k \in Nat,
         PollsOnly(m, n, j), Does(n, o, k)
  PROVE  PollsOnly(m, o, j + k)
<1>1. Runs(m, n, j) /\ Runs(n, o, k)
  BY DoesRuns, Zenon DEF PollsOnly, Polls
<1>2. Runs(m, o, j + k)
  BY <1>1, RunsThen, Zenon
<1>3. /\ n.execnmi = o.execnmi /\ n.execirq = o.execirq
      /\ n.f.intdis = o.f.intdis /\ n.f.breakf = o.f.breakf
  BY <1>1, DoesRuns, Zenon
<1>4. QED
  BY <1>2, <1>3, Zenon DEF PollsOnly, Polls

\* To poll twice is to poll once: the pending flags have not changed.
LEMMA PollsTwice ==
  ASSUME NEW m \in CPUs, NEW n, NEW o, NEW j \in Nat, NEW k \in Nat,
         PollsOnly(m, n, j), PollsOnly(n, o, k)
  PROVE  PollsOnly(m, o, j + k)
<1>1. Runs(m, n, j) /\ Runs(n, o, k)
  BY Zenon DEF PollsOnly, Polls
<1>2. Runs(m, o, j + k)
  BY <1>1, RunsThen, Zenon
<1>3. n.nmipending = m.nmipending /\ n.irqpending = m.irqpending
  BY <1>1, Zenon DEF Runs, Rest
<1>4. QED
  BY <1>2, <1>3, Zenon DEF PollsOnly, Polls

\* What takes no cycle can come after a poll.
LEMMA PollsAlso ==
  ASSUME NEW m \in CPUs, NEW n, NEW o, NEW k \in Nat, PollsOnly(m, n, k), Does(n, o, 0)
  PROVE  PollsOnly(m, o, k)
BY PollsDoes

\* last_cycle() after an operation.
LEMMA ThenLastCycle ==
  ASSUME NEW m \in CPUs, NEW n, NEW k \in Nat, Does(m, n, k)
  PROVE  PollsOnly(m, last_cycle(n), k)
<1>1. PollsOnly(n, last_cycle(n), 0)
  BY LastCycle, Zenon DEF Does
<1>2. PollsOnly(m, last_cycle(n), k + 0)
  BY <1>1, DoesPolls
<1>3. QED
  BY <1>2

\* last_cycle() after an operation that has changed intdis polls with the new intdis, as
\* RTI does.
LEMMA PollsAfter ==
  ASSUME NEW m \in CPUs, NEW n, NEW k \in Nat, NEW i, NEW b, Runs(m, n, k),
         n.execnmi = m.execnmi, n.execirq = m.execirq, n.f.intdis = i, n.f.breakf = b
  PROVE  Polls(m, last_cycle(n), k, i, i, b)
<1>1. PollsOnly(n, last_cycle(n), 0)
  BY LastCycle, Zenon DEF Runs
<1>2. Runs(n, last_cycle(n), 0)
  BY <1>1, Zenon DEF PollsOnly, Polls
<1>3. Runs(m, last_cycle(n), k)
  BY <1>2, RunsThen
<1>4. n.nmipending = m.nmipending /\ n.irqpending = m.irqpending
  BY Zenon DEF Runs, Rest
<1>5. QED
  BY <1>1, <1>3, <1>4, Zenon DEF PollsOnly, Polls

-------------------------------------------------------------------------------
(* Instructions that execute() calls directly *)

\* A branch polls, taken or not, and takes one to three cycles.
LEMMA BranchPolls ==
  ASSUME NEW m \in CPUs, NEW take
  PROVE  \E k \in {1, 2, 3} : PollsOnly(m, instr_branch(m, take), k)
<1> DEFINE m0 == last_cycle(m)
           m1 == fetchop_low(m0)
           to == (m1.pc + int8(m1.low)) % 65536
           m2 == cycle(m1)
           m3 == [m2 EXCEPT !.pc = to]
           m4 == last_cycle(m3)
<1>1. instr_branch(m, take) = IF ~take THEN m1 ELSE IF High(m1.pc) # High(to) THEN cycle(m4) ELSE m4
  BY DEF instr_branch
<1>2. PollsOnly(m, m0, 0) /\ m0 \in CPUs
  BY LastCycle, Zenon DEF PollsOnly, Polls, Runs
<1> HIDE DEF m0
<1>3. Does(m0, m1, 1) /\ m1 \in CPUs
  BY <1>2, OperandsDo, Zenon
<1> HIDE DEF m1
<1>4. to \in Word
  <2>1. m1.pc + int8(m1.low) \in Int
    BY <1>3, Fields, Words, Bytes DEF int8
  <2>2. QED
    BY <2>1, Remainders
<1> HIDE DEF to
<1>5. Does(m1, m2, 1) /\ m2 \in CPUs
  BY <1>3, CycleDoes, Zenon DEF Does
<1> HIDE DEF m2
<1>6. Does(m2, m3, 0) /\ m3 \in CPUs
  BY <1>4, <1>5, SetPc, Zenon DEF Does
<1> HIDE DEF m3
<1>7. PollsOnly(m3, m4, 0) /\ m4 \in CPUs
  BY <1>6, LastCycle, Zenon DEF PollsOnly, Polls, Runs
<1> HIDE DEF m4
<1>8. Does(m4, cycle(m4), 1)
  BY <1>7, CycleDoes, Zenon
<1>9. PollsOnly(m, m1, 1)
  BY <1>2, <1>3, PollsDoes
<1>10. PollsOnly(m, m2, 2)
  BY <1>5, <1>9, PollsDoes
<1>11. PollsOnly(m, m3, 2)
  BY <1>6, <1>10, PollsDoes
<1>12. PollsOnly(m, m4, 2)
  BY <1>7, <1>11, PollsTwice
<1>13. PollsOnly(m, cycle(m4), 3)
  BY <1>8, <1>12, PollsDoes
<1>14. QED
  BY <1>1, <1>9, <1>12, <1>13, Zenon

\* The poll comes before the last cycle of an implied instruction.
LEMMA CycleAfterPoll ==
  ASSUME NEW m \in CPUs
  PROVE  PollsOnly(m, cycle(last_cycle(m)), 1) /\ cycle(last_cycle(m)) \in CPUs
<1>1. PollsOnly(m, last_cycle(m), 0) /\ last_cycle(m) \in CPUs
  BY LastCycle, Zenon DEF PollsOnly, Polls, Runs
<1>2. Does(last_cycle(m), cycle(last_cycle(m)), 1) /\ cycle(last_cycle(m)) \in CPUs
  BY <1>1, CycleDoes, Zenon DEF Does
<1>3. QED
  BY <1>1, <1>2, PollsDoes

\* SEI and CLI poll with the intdis they were given, and set it afterwards.
LEMMA FlagPolls ==
  ASSUME NEW m \in CPUs, NEW v \in BOOLEAN
  PROVE  /\ \A flag \in {"carry", "ov", "decimal"} : PollsOnly(m, instr_flag(m, flag, v), 1)
         /\ Polls(m, instr_flag(m, "intdis", v), 1, m.f.intdis, v, m.f.breakf)
<1> DEFINE n == cycle(last_cycle(m))
<1>1. PollsOnly(m, n, 1) /\ n \in CPUs
  BY CycleAfterPoll, Zenon
<1>2. ASSUME NEW flag PROVE instr_flag(m, flag, v) = [n EXCEPT !.f[flag] = v]
  BY DEF instr_flag
<1> HIDE DEF n
<1>3. /\ Does(n, [n EXCEPT !.f["carry"] = v], 0)
      /\ Does(n, [n EXCEPT !.f["ov"] = v], 0)
      /\ Does(n, [n EXCEPT !.f["decimal"] = v], 0)
  BY <1>1, SetCarry, SetOv, SetDecimal, Zenon
<1>4. /\ PollsOnly(m, [n EXCEPT !.f["carry"] = v], 1)
      /\ PollsOnly(m, [n EXCEPT !.f["ov"] = v], 1)
      /\ PollsOnly(m, [n EXCEPT !.f["decimal"] = v], 1)
  BY <1>1, <1>3, PollsAlso, Zenon
<1>5. Polls(m, [n EXCEPT !.f["intdis"] = v], 1, m.f.intdis, v, m.f.breakf)
  <2> DEFINE o == [n EXCEPT !.f["intdis"] = v]
  <2>1. /\ o \in CPUs /\ Rest(o) = Rest(n) /\ o.cycles = n.cycles /\ o.log = n.log
        /\ o.f.intdis = v /\ o.f.breakf = n.f.breakf
        /\ o.execnmi = n.execnmi /\ o.execirq = n.execirq
    BY <1>1, ZenonT(60) DEF CPUs, CPUsWith, FlagSets, Rest
  <2> HIDE DEF o
  <2>2. Polls(m, o, 1, m.f.intdis, v, m.f.breakf)
    BY <1>1, <2>1, Zenon DEF PollsOnly, Polls, Runs
  <2>3. QED
    BY <2>2 DEF o
<1>6. QED
  BY <1>2, <1>4, <1>5, Zenon

\* The transfers between registers poll and take one cycle.
LEMMA TransferPolls ==
  ASSUME NEW m \in CPUs, NEW from \in {"acc", "x", "y", "sp"}, NEW to \in {"acc", "x", "y", "sp"}
  PROVE  PollsOnly(m, instr_transfer(m, from, to), 1)
<1> DEFINE n == cycle(last_cycle(m))
<1>1. PollsOnly(m, n, 1) /\ n \in CPUs
  BY CycleAfterPoll, Zenon
<1> DEFINE v == m[from]
<1>2. v \in Byte
  BY Fields, Zenon
<1>3. instr_transfer(m, from, to) = [ZeroNeg(n, v) EXCEPT ![to] = v]
  BY DEF instr_transfer
<1> HIDE DEF n, v
<1>4. Does(n, [ZeroNeg(n, v) EXCEPT ![to] = v], 0)
  BY <1>1, <1>2, LoadDoes, Zenon
<1>5. QED
  BY <1>1, <1>3, <1>4, PollsAlso

\* INX, INY, DEX and DEY poll and take one cycle.
LEMMA StepPolls ==
  ASSUME NEW m \in CPUs, NEW by \in Nat, NEW reg \in {"x", "y"}
  PROVE  PollsOnly(m, Step(m, reg, by), 1)
<1> DEFINE v == (m[reg] + by) % 256
           n == cycle(m)
<1>1. Does(m, n, 1) /\ n \in CPUs
  BY CycleDoes, Zenon DEF Does
<1>2. v \in Byte
  <2>1. m[reg] \in Byte
    BY Fields, Zenon
  <2>2. m[reg] + by \in Int
    BY <2>1, Bytes
  <2>3. QED
    BY <2>2, Remainders
<1>3. Step(m, reg, by) = last_cycle([ZeroNeg(n, v) EXCEPT ![reg] = v])
  BY DEF Step
<1> HIDE DEF n, v
<1>4. Does(n, [ZeroNeg(n, v) EXCEPT ![reg] = v], 0)
  BY <1>1, <1>2, LoadDoes, Zenon
<1>5. Does(m, [ZeroNeg(n, v) EXCEPT ![reg] = v], 1)
  BY <1>1, <1>4, DoesAlso
<1>6. QED
  BY <1>3, <1>5, ThenLastCycle, Zenon

\* A push after a cycle.
LEMMA PushAfterCycle ==
  ASSUME NEW m \in CPUs, NEW d \in Byte
  PROVE  Does(m, push(cycle(m), d), 2)
<1>1. Does(m, cycle(m), 1) /\ cycle(m) \in CPUs
  BY CycleDoes, Zenon DEF Does
<1>2. Does(cycle(m), push(cycle(m), d), 1)
  BY <1>1, PushDoes, Zenon
<1>3. QED
  BY <1>1, <1>2, DoesThen

\* PHA polls and takes two cycles.
LEMMA PhaPolls == ASSUME NEW m \in CPUs PROVE PollsOnly(m, instr_pha(m), 2)
<1>1. Does(m, push(cycle(m), m.acc), 2)
  BY PushAfterCycle, Fields, Zenon
<1>2. QED
  BY <1>1, ThenLastCycle DEF instr_pha

\* Two cycles.
LEMMA TwoCycles ==
  ASSUME NEW m \in CPUs
  PROVE  Does(m, cycle(cycle(m)), 2) /\ cycle(cycle(m)) \in CPUs
<1>1. Does(m, cycle(m), 1) /\ cycle(m) \in CPUs
  BY CycleDoes, Zenon DEF Does
<1>2. QED
  BY <1>1, ThenCycle DEF Does

\* PLA polls and takes three cycles.
LEMMA PlaPolls == ASSUME NEW m \in CPUs PROVE PollsOnly(m, instr_pla(m), 3)
<1> DEFINE p == pull(cycle(cycle(m)))
<1>1. Does(m, p.m, 3) /\ p.d \in Byte /\ p.m \in CPUs
  <2>1. Does(cycle(cycle(m)), p.m, 1) /\ p.d \in Byte /\ p.m \in CPUs
    BY TwoCycles, PullDoes, Zenon DEF Does
  <2> HIDE DEF p
  <2>2. QED
    BY <2>1, TwoCycles, DoesThen
<1>2. instr_pla(m) = last_cycle([ZeroNeg(p.m, p.d) EXCEPT !.acc = p.d])
  BY DEF instr_pla
<1> HIDE DEF p
<1>3. Does(p.m, [ZeroNeg(p.m, p.d) EXCEPT !.acc = p.d], 0)
  BY <1>1, LoadDoes, Zenon
<1>4. Does(m, [ZeroNeg(p.m, p.d) EXCEPT !.acc = p.d], 3)
  BY <1>1, <1>3, DoesAlso
<1>5. QED
  BY <1>2, <1>4, ThenLastCycle

\* JMP polls and takes two cycles.
LEMMA JmpPolls == ASSUME NEW m \in CPUs PROVE PollsOnly(m, instr_jmp(m), 2)
<1> DEFINE n == fetchops(m)
<1>1. Does(m, n, 2) /\ n \in CPUs
  BY OperandsDo, Zenon
<1>2. instr_jmp(m) = last_cycle([n EXCEPT !.pc = full(n)])
  BY DEF instr_jmp
<1> HIDE DEF n
<1>3. Does(n, [n EXCEPT !.pc = full(n)], 0)
  BY <1>1, FullIsWord, SetPc, Zenon
<1>4. Does(m, [n EXCEPT !.pc = full(n)], 2)
  BY <1>1, <1>3, DoesAlso
<1>5. QED
  BY <1>2, <1>4, ThenLastCycle

\* NOP polls and takes one cycle.
LEMMA NopPolls == ASSUME NEW m \in CPUs PROVE PollsOnly(m, instr_nop(m), 1)
BY CycleDoes, ThenLastCycle DEF instr_nop

\* JSR polls and takes five cycles.
LEMMA JsrPolls == ASSUME NEW m \in CPUs PROVE PollsOnly(m, instr_jsr(m), 5)
<1> DEFINE m1 == fetchops(m)
           last == (m1.pc - 1) % 65536
           n1 == [m1 EXCEPT !.pc = last]
           n2 == push(cycle(n1), High(last))
           m2 == push(n2, Low(last))
           n3 == [m2 EXCEPT !.pc = full(m2)]
<1>1. instr_jsr(m) = last_cycle(n3)
  BY DEF instr_jsr
<1>2. Does(m, m1, 2) /\ m1 \in CPUs
  BY OperandsDo, Zenon
<1> HIDE DEF m1
<1>3. last \in Word
  <2>1. m1.pc - 1 \in Int
    BY <1>2, Fields, Words
  <2>2. QED
    BY <2>1, Remainders
<1>4. Low(last) \in Byte /\ High(last) \in Byte
  BY <1>3, Halves
<1> HIDE DEF last
<1>5. Does(m1, n1, 0) /\ n1 \in CPUs
  BY <1>2, <1>3, SetPc, Zenon DEF Does
<1> HIDE DEF n1
<1>6. Does(n1, n2, 2) /\ n2 \in CPUs
  BY <1>4, <1>5, PushAfterCycle, Zenon DEF Does
<1> HIDE DEF n2
<1>7. Does(n2, m2, 1) /\ m2 \in CPUs
  BY <1>4, <1>6, PushDoes, Zenon DEF Does
<1> HIDE DEF m2
<1>8. Does(m2, n3, 0)
  BY <1>7, FullIsWord, SetPc, Zenon
<1> HIDE DEF n3
<1>9. Does(m, n1, 2)
  BY <1>2, <1>5, DoesAlso
<1>10. Does(m, n2, 4)
  BY <1>6, <1>9, DoesThen
<1>11. Does(m, m2, 5)
  BY <1>7, <1>10, DoesThen
<1>12. Does(m, n3, 5)
  BY <1>8, <1>11, DoesAlso
<1>13. QED
  BY <1>1, <1>12, ThenLastCycle

\* A byte becomes the low or the high half of pc.
PutLow(m, b) == [m EXCEPT !.pc = 256 * High(@) + b]
PutHigh(m, b) == [m EXCEPT !.pc = Low(@) + 256 * b]

\* A byte put into one half of the pc keeps it a word.
LEMMA PutDoes ==
  ASSUME NEW m \in CPUs, NEW b \in Byte
  PROVE  Does(m, PutLow(m, b), 0) /\ Does(m, PutHigh(m, b), 0)
<1> DEFINE v == 256 * High(m.pc) + b
           w == Low(m.pc) + 256 * b
<1>1. v \in Word /\ w \in Word
  <2>1. Low(m.pc) \in Byte /\ High(m.pc) \in Byte
    BY Fields, Halves, Zenon
  <2>2. w \in Word /\ b + 256 * High(m.pc) \in Word
    BY <2>1, Joined
  <2>3. QED
    BY <2>1, <2>2, Bytes
<1> HIDE DEF v, w
<1>2. Does(m, [m EXCEPT !.pc = v], 0) /\ Does(m, [m EXCEPT !.pc = w], 0)
  BY <1>1, SetPc, Zenon
<1>3. QED
  BY <1>2 DEF v, w, PutLow, PutHigh

\* The pc is pulled in two cycles.
LEMMA PullPCDoes == ASSUME NEW m \in CPUs PROVE Does(m, PullPC(m), 2)
<1> DEFINE lo == pull(m)
           n1 == PutLow(lo.m, lo.d)
           hi == pull(n1)
<1>1. PullPC(m) = PutHigh(hi.m, hi.d)
  BY DEF PullPC, PutLow, PutHigh
<1>2. Does(m, lo.m, 1) /\ lo.m \in CPUs /\ lo.d \in Byte
  BY PullDoes, Zenon DEF Does
<1> HIDE DEF lo
<1>3. Does(lo.m, n1, 0) /\ n1 \in CPUs
  BY <1>2, PutDoes, Zenon DEF Does
<1> HIDE DEF n1
<1>4. Does(n1, hi.m, 1) /\ hi.m \in CPUs /\ hi.d \in Byte
  BY <1>3, PullDoes, Zenon DEF Does
<1> HIDE DEF hi
<1>5. Does(hi.m, PullPC(m), 0)
  BY <1>1, <1>4, PutDoes, Zenon
<1>6. Does(m, n1, 1)
  BY <1>2, <1>3, DoesAlso
<1>7. Does(m, hi.m, 2)
  BY <1>4, <1>6, DoesThen
<1>8. QED
  BY <1>5, <1>7, DoesAlso

\* RTS polls and takes five cycles.
LEMMA RtsPolls == ASSUME NEW m \in CPUs PROVE PollsOnly(m, instr_rts(m), 5)
<1> DEFINE m1 == PullPC(cycle(cycle(m)))
           n1 == [m1 EXCEPT !.pc = (@ + 1) % 65536]
<1>1. instr_rts(m) = last_cycle(cycle(n1))
  BY DEF instr_rts
<1>2. Does(m, m1, 4) /\ m1 \in CPUs
  <2>1. Does(cycle(cycle(m)), m1, 2) /\ m1 \in CPUs
    BY TwoCycles, PullPCDoes, Zenon DEF Does
  <2> HIDE DEF m1
  <2>2. QED
    BY <2>1, TwoCycles, DoesThen
<1> HIDE DEF m1
<1>3. Does(m1, n1, 0)
  BY <1>2, IncPc
<1> HIDE DEF n1
<1>4. Does(m, n1, 4)
  BY <1>2, <1>3, DoesAlso
<1>5. Does(m, cycle(n1), 5)
  BY <1>4, ThenCycle
<1>6. QED
  BY <1>1, <1>5, ThenLastCycle

\* JMP (a) polls and takes four cycles.
LEMMA JmpIndPolls == ASSUME NEW m \in CPUs PROVE PollsOnly(m, instr_jmp_ind(m), 4)
<1> DEFINE m1 == fetchops(m)
           ptr == full(m1)
           hi == PointerHigh(m1.low, ptr)
           r1 == readmem(m1, ptr)
           b1 == Read(m1, ptr)
           m2 == PutLow(r1, b1)
           r2 == readmem(m2, hi)
           b2 == Read(m2, hi)
           m3 == PutHigh(r2, b2)
<1>1. instr_jmp_ind(m) = last_cycle(m3)
  BY DEF instr_jmp_ind, PutLow, PutHigh
<1>2. Does(m, m1, 2) /\ m1 \in CPUs
  BY OperandsDo, Zenon
<1> HIDE DEF m1
<1>3. ptr \in Nat
  BY <1>2, OperandAddresses, Zenon
<1> HIDE DEF ptr
<1>4. hi \in Nat
  BY <1>3 DEF PointerHigh, Low
<1> HIDE DEF hi
<1>5. Does(m1, r1, 1) /\ r1 \in CPUs /\ b1 \in Byte
  BY <1>2, <1>3, ReadmemDoes, ReadIsByte, Zenon DEF Does
<1> HIDE DEF r1, b1
<1>6. Does(r1, m2, 0) /\ m2 \in CPUs
  BY <1>5, PutDoes, Zenon DEF Does
<1> HIDE DEF m2
<1>7. Does(m2, r2, 1) /\ r2 \in CPUs /\ b2 \in Byte
  BY <1>4, <1>6, ReadmemDoes, ReadIsByte, Zenon DEF Does
<1> HIDE DEF r2, b2
<1>8. Does(r2, m3, 0)
  BY <1>7, PutDoes, Zenon
<1> HIDE DEF m3
<1>9. Does(m, r1, 3)
  BY <1>2, <1>5, DoesThen
<1>10. Does(m, m2, 3)
  BY <1>6, <1>9, DoesAlso
<1>11. Does(m, r2, 4)
  BY <1>7, <1>10, DoesThen
<1>12. Does(m, m3, 4)
  BY <1>8, <1>11, DoesAlso
<1>13. QED
  BY <1>1, <1>12, ThenLastCycle

\* The flags pulled from the stack, and what pulling them changes.
WithFlags(m, d) == [m EXCEPT !.f = [ToFlags(d) EXCEPT !.breakf = FALSE]]

Reflagged(m, n) ==
    /\ Runs(m, n, 0) /\ n.execnmi = m.execnmi /\ n.execirq = m.execirq
    /\ n.f.intdis \in BOOLEAN /\ n.f.breakf = FALSE

\* The flags pulled from the stack keep everything but the flags, and breakf is cleared.
LEMMA SetFlags == ASSUME NEW m \in CPUs, NEW d PROVE Reflagged(m, WithFlags(m, d))
<1> DEFINE n == WithFlags(m, d)
           g == [ToFlags(d) EXCEPT !.breakf = FALSE]
<1>1. g \in FlagSets /\ g.breakf = FALSE
  BY ByteFlags, Zenon DEF FlagSets
<1> HIDE DEF g
<1>2. /\ n \in CPUs /\ Rest(n) = Rest(m) /\ n.cycles = m.cycles /\ n.log = m.log /\ n.f = g
      /\ n.execnmi = m.execnmi /\ n.execirq = m.execirq
  BY <1>1, Zenon DEF CPUs, CPUsWith, Rest, WithFlags, g
<1> HIDE DEF n
<1>3. n.cycles = m.cycles + 0 /\ Extends(m.log, n.log)
  BY <1>2, Fields, ExtendsReflexive
<1>4. Reflagged(m, n)
  BY <1>1, <1>2, <1>3, FlagFields, Zenon DEF Runs, Reflagged
<1>5. QED
  BY <1>4 DEF n

\* An assignment to the break flag.
LEMMA SetBreak ==
  ASSUME NEW m \in CPUs, NEW b \in BOOLEAN, NEW n, n = [m EXCEPT !.f.breakf = b]
  PROVE  /\ Runs(m, n, 0) /\ n.execnmi = m.execnmi /\ n.execirq = m.execirq
         /\ n.f.intdis = m.f.intdis /\ n.f.breakf = b
<1>1. /\ n \in CPUs /\ Rest(n) = Rest(m) /\ n.cycles = m.cycles /\ n.log = m.log
      /\ n.execnmi = m.execnmi /\ n.execirq = m.execirq
      /\ n.f.intdis = m.f.intdis /\ n.f.breakf = b
  BY ZenonT(60) DEF CPUs, CPUsWith, FlagSets, Rest
<1>2. n.cycles = m.cycles + 0 /\ Extends(m.log, n.log)
  BY <1>1, Fields, ExtendsReflexive
<1>3. QED
  BY <1>1, <1>2, Zenon DEF Runs

\* PHP polls, takes two cycles, and clears the break flag it has pushed set.
LEMMA PhpPolls ==
  ASSUME NEW m \in CPUs
  PROVE  Polls(m, instr_php(m), 2, m.f.intdis, m.f.intdis, FALSE)
<1> DEFINE n0 == cycle(m)
           n1 == [n0 EXCEPT !.f.breakf = TRUE]
           d == ToByte([m.f EXCEPT !.breakf = TRUE])
           n2 == push(n1, d)
           n3 == [n2 EXCEPT !.f.breakf = FALSE]
<1>1. instr_php(m) = last_cycle(n3)
  BY DEF instr_php
<1>2. d \in Byte
  BY FlagsByte
<1> HIDE DEF d
<1>3. Does(m, n0, 1) /\ n0 \in CPUs
  BY CycleDoes, Zenon DEF Does
<1> HIDE DEF n0
<1>4. /\ Runs(n0, n1, 0) /\ n1.execnmi = n0.execnmi /\ n1.execirq = n0.execirq
      /\ n1.f.intdis = n0.f.intdis /\ n1 \in CPUs
  BY <1>3, SetBreak, ZenonT(60) DEF Runs
<1> HIDE DEF n1
<1>5. Does(n1, n2, 1) /\ n2 \in CPUs
  BY <1>2, <1>4, PushDoes, Zenon DEF Does
<1> HIDE DEF n2
<1>6. /\ Runs(n2, n3, 0) /\ n3.execnmi = n2.execnmi /\ n3.execirq = n2.execirq
      /\ n3.f.intdis = n2.f.intdis /\ n3.f.breakf = FALSE /\ n3 \in CPUs
  BY <1>5, SetBreak, ZenonT(60) DEF Runs
<1> HIDE DEF n3
<1>7. Runs(m, n3, 2)
  <2>1. Runs(m, n0, 1) /\ Runs(n1, n2, 1)
    BY <1>3, <1>5, DoesRuns, Zenon
  <2>2. Runs(m, n1, 1)
    BY <1>4, <2>1, RunsThen
  <2>3. Runs(m, n2, 2)
    BY <2>1, <2>2, RunsThen
  <2>4. QED
    BY <1>6, <2>3, RunsThen
<1>8. n3.execnmi = m.execnmi /\ n3.execirq = m.execirq /\ n3.f.intdis = m.f.intdis
  BY <1>3, <1>4, <1>5, <1>6, DoesRuns, ZenonT(60)
<1>9. QED
  BY <1>1, <1>6, <1>7, <1>8, PollsAfter, Zenon

\* PLP polls with the intdis it was given, and takes the pulled one afterwards.
LEMMA PlpPolls ==
  ASSUME NEW m \in CPUs
  PROVE  \E v \in BOOLEAN : Polls(m, instr_plp(m), 3, m.f.intdis, v, FALSE)
<1> DEFINE n0 == last_cycle(cycle(cycle(m)))
           p == pull(n0)
           n == [p.m EXCEPT !.f = [ToFlags(p.d) EXCEPT !.breakf = FALSE]]
<1>1. instr_plp(m) = n
  BY DEF instr_plp
<1>2. PollsOnly(m, n0, 2) /\ n0 \in CPUs
  BY TwoCycles, ThenLastCycle DEF PollsOnly, Polls, Runs
<1> HIDE DEF n0
<1>3. Does(n0, p.m, 1) /\ p.m \in CPUs
  BY <1>2, PullDoes, Zenon DEF Does
<1> HIDE DEF p
<1>4. PollsOnly(m, p.m, 3)
  BY <1>2, <1>3, PollsDoes
<1> HIDE DEF n
<1>e. n = WithFlags(p.m, p.d)
  BY DEF n, WithFlags
<1>f. Reflagged(p.m, n)
  BY <1>3, <1>e, SetFlags, Zenon
<1>5. /\ Runs(p.m, n, 0) /\ n.execnmi = p.m.execnmi /\ n.execirq = p.m.execirq
      /\ n.f.intdis \in BOOLEAN /\ n.f.breakf = FALSE
  BY <1>f, Zenon DEF Reflagged
<1>6. Runs(m, n, 3)
  <2>1. Runs(m, p.m, 3)
    BY <1>4, Zenon DEF PollsOnly, Polls
  <2>2. QED
    BY <1>5, <2>1, RunsThen
<1>7. Polls(m, n, 3, m.f.intdis, n.f.intdis, FALSE)
  BY <1>4, <1>5, <1>6, Zenon DEF PollsOnly, Polls
<1>8. QED
  BY <1>1, <1>5, <1>7, Zenon

\* RTI polls with the intdis it has pulled.
LEMMA RtiPolls ==
  ASSUME NEW m \in CPUs
  PROVE  \E v \in BOOLEAN : Polls(m, instr_rti(m), 5, v, v, FALSE)
<1> DEFINE n0 == cycle(cycle(m))
           p == pull(n0)
           n1 == [p.m EXCEPT !.f = [ToFlags(p.d) EXCEPT !.breakf = FALSE]]
           n == PullPC(n1)
<1>1. instr_rti(m) = last_cycle(n)
  BY DEF instr_rti
<1>2. Does(m, n0, 2) /\ n0 \in CPUs
  BY TwoCycles, Zenon
<1> HIDE DEF n0
<1>3. Does(n0, p.m, 1) /\ p.m \in CPUs
  BY <1>2, PullDoes, Zenon DEF Does
<1> HIDE DEF p
<1>4. Does(m, p.m, 3)
  BY <1>2, <1>3, DoesThen
<1> HIDE DEF n1
<1>e. n1 = WithFlags(p.m, p.d)
  BY DEF n1, WithFlags
<1>f. Reflagged(p.m, n1)
  BY <1>3, <1>e, SetFlags, Zenon
<1>5. /\ Runs(p.m, n1, 0) /\ n1.execnmi = p.m.execnmi /\ n1.execirq = p.m.execirq
      /\ n1.f.intdis \in BOOLEAN /\ n1.f.breakf = FALSE /\ n1 \in CPUs
  BY <1>f, Zenon DEF Reflagged, Runs
<1>6. Does(n1, n, 2) /\ n \in CPUs
  BY <1>5, PullPCDoes, Zenon DEF Does
<1> HIDE DEF n
<1>7. Runs(m, n, 5)
  <2>1. Runs(m, p.m, 3) /\ Runs(n1, n, 2)
    BY <1>4, <1>6, DoesRuns, Zenon
  <2>2. Runs(m, n1, 3)
    BY <1>5, <2>1, RunsThen
  <2>3. QED
    BY <2>1, <2>2, RunsThen
<1>8. /\ n.execnmi = m.execnmi /\ n.execirq = m.execirq /\ n.f.intdis = n1.f.intdis
      /\ n.f.breakf = FALSE
  BY <1>4, <1>5, <1>6, DoesRuns, ZenonT(60)
<1>9. Polls(m, last_cycle(n), 5, n1.f.intdis, n1.f.intdis, FALSE)
  BY <1>6, <1>7, <1>8, PollsAfter, Zenon
<1>10. QED
  BY <1>1, <1>5, <1>9, Zenon

-------------------------------------------------------------------------------
(* interrupt() *)

\* What interrupt() does between its pushes and the jump.
Serve(p, nmi, irq, v, c, b) ==
    [p EXCEPT !.f.breakf = FALSE, !.f.intdis = TRUE, !.resetpending = FALSE,
              !.nmipending = @ /\ nmi, !.irqpending = @ /\ irq,
              !.vec = v, !.cause = c, !.pushedB = b]

\* An access is reported with the machine as it was before it.
LEMMA AccessReports ==
  ASSUME NEW m \in CPUs, NEW mode, NEW a
  PROVE  /\ Access(m, mode, a).log = Append(m.log, Entry(m, mode, a))
         /\ Access(m, mode, a).ram = m.ram /\ Access(m, mode, a).rom = m.rom
         /\ Access(m, mode, a).pc = m.pc
BY Zenon DEF Access, cycle, Entry, CPUs, CPUsWith

\* The bus reports nothing.
LEMMA WriteReports == ASSUME NEW m \in CPUs, NEW a, NEW d PROVE Write(m, a, d).log = m.log
<1>1. ASSUME NEW r PROVE [m EXCEPT !.ram = r].log = m.log
  BY Zenon DEF CPUs, CPUsWith
<1>2. QED
  BY <1>1 DEF Write

\* push() reports one write, to the stack page.
LEMMA PushReports ==
  ASSUME NEW m \in CPUs, NEW d \in Byte
  PROVE  push(m, d).log = Append(m.log, Entry(m, "w", m.sp + STACK_BASE))
<1> DEFINE a == m.sp + STACK_BASE
           n == Access(m, "w", a)
           o == Write(n, a, d)
           s == (o.sp + 255) % 256
<1>1. push(m, d) = [o EXCEPT !.sp = s]
  BY DEF push, writemem
<1>2. n \in CPUs /\ n.log = Append(m.log, Entry(m, "w", a))
  <2>1. a \in Nat
    BY Fields, StackAddress, Zenon
  <2> HIDE DEF a
  <2>2. Does(m, n, 1)
    BY <2>1, AccessDoes, Zenon
  <2>3. n.log = Append(m.log, Entry(m, "w", a))
    BY AccessReports, ZenonT(60)
  <2>4. QED
    BY <2>1, <2>2, <2>3, Zenon DEF Does
<1> HIDE DEF n
<1>3. o.log = n.log /\ o \in CPUs
  BY <1>2, WriteReports, WriteDoes, Fields, StackAddress, Zenon DEF Does
<1>4. [o EXCEPT !.sp = s].log = o.log
  <2> HIDE DEF o, s
  <2>1. QED
    BY <1>3, Zenon DEF CPUs, CPUsWith
<1>5. QED
  BY <1>1, <1>2, <1>3, <1>4, Zenon

\* What of that the proofs need.
Served(p, s, nmi, irq, v, c, b) ==
    /\ s \in CPUs
    /\ s.f.breakf = FALSE /\ s.f.intdis = TRUE /\ s.resetpending = FALSE
    /\ s.nmipending = (p.nmipending /\ nmi) /\ s.irqpending = (p.irqpending /\ irq)
    /\ s.vec = v /\ s.cause = c /\ s.pushedB = b
    /\ s.execnmi = p.execnmi /\ s.execirq = p.execirq /\ s.id = p.id /\ s.rom = p.rom
    /\ s.cycles = p.cycles /\ s.log = p.log

\* What interrupt() does to the flags and to what is remembered of it.
LEMMA ServeSets ==
  ASSUME NEW p \in CPUs, NEW nmi \in BOOLEAN, NEW irq \in BOOLEAN, NEW v \in Vectors,
         NEW c \in Causes, NEW b \in BOOLEAN
  PROVE  Served(p, Serve(p, nmi, irq, v, c, b), nmi, irq, v, c, b)
<1> DEFINE s == Serve(p, nmi, irq, v, c, b)
           i == p.nmipending /\ nmi
           j == p.irqpending /\ irq
           g == [[p.f EXCEPT !.breakf = FALSE] EXCEPT !.intdis = TRUE]
<1>1. i \in BOOLEAN /\ j \in BOOLEAN
  OBVIOUS
<1>2. g \in FlagSets /\ g.breakf = FALSE /\ g.intdis = TRUE
  BY Fields, Zenon DEF FlagSets
<1>3. s = [p EXCEPT !.f = g, !.resetpending = FALSE, !.nmipending = i, !.irqpending = j,
                    !.vec = v, !.cause = c, !.pushedB = b]
  BY ZenonT(60) DEF Serve, CPUs, CPUsWith
<1> HIDE DEF i, j, g, s
<1>4. s \in CPUs
  <2> DEFINE t == [p EXCEPT !.f = g, !.resetpending = FALSE, !.nmipending = i]
  <2>1. t \in CPUs
    BY <1>1, <1>2, Zenon DEF CPUs, CPUsWith
  <2>2. s = [t EXCEPT !.irqpending = j, !.vec = v, !.cause = c, !.pushedB = b]
    BY <1>3 DEF t
  <2> HIDE DEF t
  <2>3. QED
    BY <1>1, <2>1, <2>2, ZenonT(60) DEF CPUs, CPUsWith
<1>5. /\ s.f = g /\ s.resetpending = FALSE /\ s.nmipending = i /\ s.irqpending = j
      /\ s.vec = v /\ s.cause = c /\ s.pushedB = b
      /\ s.execnmi = p.execnmi /\ s.execirq = p.execirq /\ s.id = p.id /\ s.rom = p.rom
      /\ s.cycles = p.cycles /\ s.log = p.log
  BY <1>3, Zenon DEF CPUs, CPUsWith
<1>6. Served(p, s, nmi, irq, v, c, b)
  BY <1>2, <1>4, <1>5, Zenon DEF Served, i, j
<1>7. QED
  BY <1>6 DEF s

\* The halves of the pc, put one after the other.
LEMMA PutSets ==
  ASSUME NEW m \in CPUs, NEW b \in Byte
  PROVE  /\ PutLow(m, b).log = m.log /\ PutLow(m, b).ram = m.ram /\ PutLow(m, b).rom = m.rom
         /\ PutHigh(m, b).log = m.log
         /\ Low(PutLow(m, b).pc) = b /\ PutHigh(m, b).pc = Low(m.pc) + 256 * b
<1> DEFINE v == 256 * High(m.pc) + b
           w == Low(m.pc) + 256 * b
<1>1. Low(v) = b
  <2>1. High(m.pc) \in Byte
    BY Fields, Halves, Zenon
  <2>2. QED
    BY <2>1, Bytes DEF Low
<1>2. PutLow(m, b) = [m EXCEPT !.pc = v] /\ PutHigh(m, b) = [m EXCEPT !.pc = w]
  BY DEF PutLow, PutHigh
<1> HIDE DEF v, w
<1>3. /\ PutLow(m, b).log = m.log /\ PutLow(m, b).ram = m.ram /\ PutLow(m, b).rom = m.rom
      /\ PutHigh(m, b).log = m.log /\ PutLow(m, b).pc = v /\ PutHigh(m, b).pc = w
  BY <1>2, Zenon DEF CPUs, CPUsWith
<1>4. QED
  BY <1>1, <1>3 DEF w

\* interrupt() reads the vector v, and puts it into pc.
Jump(m, v) ==
    LET half == PutLow(readmem(m, v), Read(m, v))
    IN  PutHigh(readmem(half, v + 1), Read(half, v + 1))

\* What it reports, and where it goes.
Jumps(m, o, v) ==
    /\ \E e \in CPUs : o.log = Append(Append(m.log, Entry(m, "r", v)), Entry(e, "r", v + 1))
    /\ ReadWord([m EXCEPT !.log = << >>], v) = o.pc

\* The pc is read from a vector in two reported reads, and holds the word that is there.
LEMMA JumpDoes ==
  ASSUME NEW m \in CPUs, NEW v \in Nat, v + 1 \in Nat, After(v) = v + 1
  PROVE  Does(m, Jump(m, v), 2) /\ Jumps(m, Jump(m, v), v)
<1> DEFINE o == Jump(m, v)
           u == v + 1
           b == Read(m, v)
           m1 == readmem(m, v)
           half == PutLow(m1, b)
           d == Read(half, u)
           m2 == readmem(half, u)
<1>1. o = PutHigh(m2, d)
  BY DEF Jump
<1> HIDE DEF o
<1>2. b \in Byte
  BY ReadIsByte, Zenon
<1>3. Does(m, m1, 1) /\ m1 \in CPUs
  BY ReadmemDoes, Zenon DEF Does
<1>4. m1.log = Append(m.log, Entry(m, "r", v)) /\ m1.ram = m.ram /\ m1.rom = m.rom
  BY AccessReports, ZenonT(60) DEF readmem
<1>5. Read(m, u) = Read(half, u)
  <2> HIDE DEF b, m1
  <2>1. half.ram = m.ram /\ half.rom = m.rom
    BY <1>2, <1>3, <1>4, PutSets, ZenonT(60)
  <2> HIDE DEF half, u
  <2>2. QED
    BY <2>1, SameMemory, Zenon
<1>6. ReadWord(m, v) = b + 256 * d
  BY <1>5 DEF ReadWord, After
<1> HIDE DEF u, b, m1
<1>7. Does(m1, half, 0) /\ half \in CPUs /\ half.log = m1.log /\ Low(half.pc) = b
  BY <1>2, <1>3, PutDoes, PutSets, ZenonT(60) DEF Does
<1>8. u \in Nat
  BY DEF u
<1> HIDE DEF half
<1>9. Does(half, m2, 1) /\ m2 \in CPUs /\ d \in Byte
  BY <1>7, <1>8, ReadmemDoes, ReadIsByte, Zenon DEF Does
<1>10. m2.log = Append(half.log, Entry(half, "r", u)) /\ m2.pc = half.pc
  BY <1>7, AccessReports, ZenonT(60) DEF readmem
<1> HIDE DEF m2, d
<1>11. Does(m2, o, 0) /\ o.log = m2.log /\ o.pc = Low(m2.pc) + 256 * d
  <2>1. Does(m2, o, 0)
    BY <1>1, <1>9, PutDoes, Zenon
  <2>2. o.log = m2.log /\ o.pc = Low(m2.pc) + 256 * d
    BY <1>1, <1>9, PutSets
  <2>3. QED
    BY <2>1, <2>2
<1>12. Does(m, o, 2)
  <2>1. Does(m, half, 1)
    BY <1>3, <1>7, DoesAlso
  <2>2. Does(m, m2, 2)
    BY <1>9, <2>1, DoesThen
  <2>3. QED
    BY <1>11, <2>2, DoesAlso
<1>13. o.log = Append(Append(m.log, Entry(m, "r", v)), Entry(half, "r", u))
  BY <1>4, <1>7, <1>10, <1>11, Zenon
<1>14. o.pc = b + 256 * d
  BY <1>7, <1>10, <1>11, Zenon
<1>15. ReadWord([m EXCEPT !.log = << >>], v) = ReadWord(m, v)
  <2> DEFINE q == [m EXCEPT !.log = << >>]
  <2>1. q.ram = m.ram /\ q.rom = m.rom
    BY Zenon DEF CPUs, CPUsWith
  <2> HIDE DEF q
  <2>2. Read(q, v) = Read(m, v) /\ Read(q, After(v)) = Read(m, After(v))
    BY <2>1, SameMemory
  <2>3. QED
    BY <2>2 DEF ReadWord, After, q
<1>16. QED
  BY <1>6, <1>7, <1>12, <1>13, <1>14, <1>15, SMTT(30) DEF Jumps, o, u

\* Three writes are reported.
Pushes(m, n) ==
    \E p \in CPUs, q \in CPUs, r \in CPUs, i \in Nat, j \in Nat, k \in Nat :
        n.log = Append(Append(Append(m.log, Entry(p, "w", i)), Entry(q, "w", j)), Entry(r, "w", k))

\* The pushes of interrupt() are three reported writes, in four cycles.
LEMMA PushesDo ==
  ASSUME NEW m \in CPUs, NEW a \in Byte, NEW b \in Byte, NEW c \in Byte
  PROVE  /\ Does(m, push(push(push(cycle(m), a), b), c), 4)
         /\ Pushes(m, push(push(push(cycle(m), a), b), c))
<1> DEFINE n0 == cycle(m)
           n1 == push(n0, a)
           n2 == push(n1, b)
           n == push(n2, c)
<1>1. Does(m, n0, 1) /\ n0 \in CPUs
  BY CycleDoes, Zenon DEF Does
<1>2. n0.log = m.log
  BY Zenon DEF cycle, CPUs, CPUsWith
<1> HIDE DEF n0
<1>3. Does(n0, n1, 1) /\ n1 \in CPUs
  BY <1>1, PushDoes, Zenon DEF Does
<1>4. n1.log = Append(n0.log, Entry(n0, "w", n0.sp + STACK_BASE))
  BY <1>1, PushReports, Zenon
<1> HIDE DEF n1
<1>5. Does(n1, n2, 1) /\ n2 \in CPUs
  BY <1>3, PushDoes, Zenon DEF Does
<1>6. n2.log = Append(n1.log, Entry(n1, "w", n1.sp + STACK_BASE))
  BY <1>3, PushReports, Zenon
<1> HIDE DEF n2
<1>8. Does(n2, n, 1)
  BY <1>5, PushDoes, Zenon
<1>9. n.log = Append(n2.log, Entry(n2, "w", n2.sp + STACK_BASE))
  BY <1>5, PushReports, Zenon
<1> HIDE DEF n
<1>10. Does(m, n, 4)
  <2>1. Does(m, n1, 2)
    BY <1>1, <1>3, DoesThen
  <2>2. Does(m, n2, 3)
    BY <1>5, <2>1, DoesThen
  <2>3. QED
    BY <1>8, <2>2, DoesThen
<1>11. n0.sp + STACK_BASE \in Nat /\ n1.sp + STACK_BASE \in Nat /\ n2.sp + STACK_BASE \in Nat
  BY <1>1, <1>3, <1>5, Fields, StackAddress, Zenon
<1>12. n.log = Append(Append(Append(m.log, Entry(n0, "w", n0.sp + STACK_BASE)),
                             Entry(n1, "w", n1.sp + STACK_BASE)),
                      Entry(n2, "w", n2.sp + STACK_BASE))
  BY <1>2, <1>4, <1>6, <1>9, Zenon
<1>13. Pushes(m, n)
  <2>1. n0 \in CPUs /\ n1 \in CPUs /\ n2 \in CPUs
    BY <1>1, <1>3, <1>5
  <2> DEFINE i == n0.sp + STACK_BASE
             j == n1.sp + STACK_BASE
             k == n2.sp + STACK_BASE
  <2>2. i \in Nat /\ j \in Nat /\ k \in Nat
    BY <1>11
  <2>3. n.log = Append(Append(Append(m.log, Entry(n0, "w", i)), Entry(n1, "w", j)),
                       Entry(n2, "w", k))
    BY <1>12
  <2> HIDE DEF i, j, k
  <2>4. QED
    BY <2>1, <2>2, <2>3, Zenon DEF Pushes
<1>14. QED
  BY <1>10, <1>13 DEF n0, n1, n2, n

\* What is reported has its type.
LEMMA EntryType ==
  ASSUME NEW m \in CPUs, NEW a \in Nat
  PROVE  /\ Entry(m, "r", a) \in Accesses /\ Entry(m, "w", a) \in Accesses
         /\ Entry(m, "x", a) \in Accesses
BY Zenon DEF Entry, Accesses, Bare, CPUs, CPUsWith

\* The log t is s and five more entries.
Adds(s, t, a, b, c, d, e) ==
    /\ Len(t) = Len(s) + 5 /\ Len(s) \in Nat
    /\ t[Len(s) + 1] = a /\ t[Len(s) + 2] = b /\ t[Len(s) + 3] = c
    /\ t[Len(s) + 4] = d /\ t[Len(s) + 5] = e

\* Five accesses added to a log.
LEMMA FiveEntries ==
  ASSUME NEW s \in Seq(Accesses), NEW a \in Accesses, NEW b \in Accesses, NEW c \in Accesses,
         NEW d \in Accesses, NEW e \in Accesses
  PROVE  Adds(s, Append(Append(Append(Append(Append(s, a), b), c), d), e), a, b, c, d, e)
BY DEF Adds

\* interrupt() takes the vector of the highest priority, drops the signal it serves, sets
\* intdis, and jumps through the vector.
LEMMA InterruptEnters ==
  ASSUME NEW m \in CPUs, NEW c \in Causes, NEW n, n = interrupt(m, c)
  PROVE  Enters(m, n, c) /\ EntersBy(m, n)
<1> DEFINE h == High(m.pc)
           l == Low(m.pc)
           g == ToByte(m.f)
           p == push(push(push(cycle(m), h), l), g)
           v == Vector(m)
           s == Serve(p, m.resetpending, m.resetpending \/ m.nmipending, v, c, m.f.breakf)
<1>1. n = Jump(s, v)
  BY Zenon DEF interrupt, Jump, PutLow, PutHigh, Serve, Vector
<1>2. h \in Byte /\ l \in Byte /\ g \in Byte
  BY Fields, Halves, FlagsByte, Zenon
<1> HIDE DEF h, l, g
<1>3. Does(m, p, 4) /\ Pushes(m, p)
  BY <1>2, PushesDo, Zenon
<1>4. PICK e1 \in CPUs, e2 \in CPUs, e3 \in CPUs, i \in Nat, j \in Nat, k \in Nat :
        p.log = Append(Append(Append(m.log, Entry(e1, "w", i)), Entry(e2, "w", j)),
                       Entry(e3, "w", k))
  BY <1>3, Zenon DEF Pushes
<1>5. /\ v \in Vectors /\ v \in Nat /\ v + 1 \in Nat /\ After(v) = v + 1
  BY VectorIs, Zenon
<1> HIDE DEF p, v
<1>6. /\ m.resetpending \in BOOLEAN /\ (m.resetpending \/ m.nmipending) \in BOOLEAN
      /\ m.f.breakf \in BOOLEAN
  BY FlagFields, Zenon
<1>p. p \in CPUs
  BY <1>3, Zenon DEF Does
<1>s. Served(p, s, m.resetpending, m.resetpending \/ m.nmipending, v, c, m.f.breakf)
  BY <1>p, <1>5, <1>6, ServeSets, Zenon
<1> HIDE DEF s
<1>7. /\ s \in CPUs
      /\ s.f.breakf = FALSE /\ s.f.intdis = TRUE /\ s.resetpending = FALSE
      /\ s.nmipending = (p.nmipending /\ m.resetpending)
      /\ s.irqpending = (p.irqpending /\ (m.resetpending \/ m.nmipending))
      /\ s.vec = v /\ s.cause = c /\ s.pushedB = m.f.breakf
      /\ s.execnmi = p.execnmi /\ s.execirq = p.execirq /\ s.id = p.id /\ s.rom = p.rom
      /\ s.cycles = p.cycles /\ s.log = p.log
  BY <1>s, Zenon DEF Served
<1>8. Does(s, n, 2) /\ Jumps(s, n, v)
  <2>1. s \in CPUs
    BY <1>7
  <2>2. QED
    BY <1>1, <1>5, <2>1, JumpDoes, Zenon
<1>9. PICK e5 \in CPUs : n.log = Append(Append(s.log, Entry(s, "r", v)), Entry(e5, "r", v + 1))
  BY <1>8, Zenon DEF Jumps
<1>10. ReadWord([s EXCEPT !.log = << >>], v) = n.pc
  BY <1>8, Zenon DEF Jumps
<1>11. Enters(m, n, c)
  <2>1. p.cycles = m.cycles + 4 /\ n.cycles = s.cycles + 2 /\ n \in CPUs
    BY <1>3, <1>8, Zenon DEF Does
  <2>2. n.cycles = m.cycles + 6
    BY <1>7, <2>1, Fields
  <2>3. /\ n.f.breakf = s.f.breakf /\ n.f.intdis = s.f.intdis /\ n.resetpending = s.resetpending
        /\ n.nmipending = s.nmipending /\ n.irqpending = s.irqpending
        /\ n.vec = s.vec /\ n.cause = s.cause /\ n.pushedB = s.pushedB
        /\ n.execnmi = s.execnmi /\ n.execirq = s.execirq /\ n.id = s.id /\ n.rom = s.rom
    BY <1>8, Zenon DEF Does, Ctl
  <2>4. /\ p.nmipending = m.nmipending /\ p.irqpending = m.irqpending
        /\ p.execnmi = m.execnmi /\ p.execirq = m.execirq /\ p.id = m.id /\ p.rom = m.rom
    BY <1>3, Zenon DEF Does, Ctl
  <2>5. n.vec = Vector(m) /\ n.cause = c /\ n.pushedB = m.f.breakf
    BY <1>7, <2>3 DEF v
  <2>6. /\ n.resetpending = FALSE /\ n.nmipending = (m.nmipending /\ m.resetpending)
        /\ n.irqpending = (m.irqpending /\ (m.resetpending \/ m.nmipending))
        /\ n.f.intdis = TRUE /\ n.f.breakf = FALSE
    BY <1>7, <2>3, <2>4, ZenonT(60)
  <2>7. n.execnmi = m.execnmi /\ n.execirq = m.execirq /\ n.id = m.id /\ n.rom = m.rom
    BY <1>7, <2>3, <2>4, Zenon
  <2>8. QED
    BY <2>1, <2>2, <2>5, <2>6, <2>7 DEF Enters
<1>12. EntersBy(m, n)
  <2> DEFINE a1 == Entry(e1, "w", i)
             a2 == Entry(e2, "w", j)
             a3 == Entry(e3, "w", k)
             a4 == Entry(s, "r", v)
             a5 == Entry(e5, "r", v + 1)
  <2>s. s \in CPUs
    BY <1>7
  <2>1. /\ a1.mode = "w" /\ a2.mode = "w" /\ a3.mode = "w"
        /\ a4.mode = "r" /\ a4.addr = v /\ a4.at = [s EXCEPT !.log = << >>]
        /\ a5.mode = "r" /\ a5.addr = v + 1
    BY DEF Entry
  <2>a. a1 \in Accesses /\ a2 \in Accesses /\ a3 \in Accesses
    BY EntryType, Zenon
  <2>b. a4 \in Accesses /\ a5 \in Accesses
    BY <1>5, <2>s, EntryType, Zenon
  <2>2. n.log = Append(Append(Append(Append(Append(m.log, a1), a2), a3), a4), a5)
    BY <1>4, <1>7, <1>9, Zenon
  <2> HIDE DEF a1, a2, a3, a4, a5
  <2>3. /\ Len(n.log) = Len(m.log) + 5 /\ Len(m.log) \in Nat
        /\ n.log[Len(m.log) + 1] = a1 /\ n.log[Len(m.log) + 2] = a2 /\ n.log[Len(m.log) + 3] = a3
        /\ n.log[Len(m.log) + 4] = a4 /\ n.log[Len(m.log) + 5] = a5
    <3>1. m.log \in Seq(Accesses)
      BY Fields
    <3>2. Adds(m.log, n.log, a1, a2, a3, a4, a5)
      BY <2>a, <2>b, <2>2, <3>1, FiveEntries, ZenonT(60)
    <3>3. QED
      BY <3>2 DEF Adds
  <2>4. Extends(m.log, n.log)
    <3>1. Extends(m.log, p.log) /\ Extends(s.log, n.log) /\ n \in CPUs
      BY <1>3, <1>8, Zenon DEF Does
    <3>2. QED
      BY <1>3, <1>7, <3>1, Fields, ExtendsTransitive, Zenon
  <2>5. QED
    BY <1>10, <2>1, <2>3, <2>4 DEF EntersBy, v
<1>13. QED
  BY <1>11, <1>12

-------------------------------------------------------------------------------
(* execute() *)

\* The tables of opcodes name instructions and addressing modes that exist.
LEMMA Tables ==
  /\ DOMAIN INSTR_AMODE_read = ReadNames
  /\ \A n \in ReadNames : DOMAIN INSTR_AMODE_read[n] \subseteq ReadModes
  /\ DOMAIN INSTR_AMODE_modify = ModifyNames
  /\ \A n \in ModifyNames : DOMAIN INSTR_AMODE_modify[n] \subseteq ModifyModes
  /\ \A n \in DOMAIN INSTR_WRITE : DOMAIN INSTR_WRITE[n] \subseteq WriteModes
<1>1. DOMAIN INSTR_AMODE_read = ReadNames
  BY DEF INSTR_AMODE_read, ReadNames
<1>2. \A n \in ReadNames : DOMAIN INSTR_AMODE_read[n] \subseteq ReadModes
  BY DEF INSTR_AMODE_read, ReadNames, ReadModes
<1>3. DOMAIN INSTR_AMODE_modify = ModifyNames
  BY DEF INSTR_AMODE_modify, ModifyNames
<1>4. \A n \in ModifyNames : DOMAIN INSTR_AMODE_modify[n] \subseteq ModifyModes
  BY DEF INSTR_AMODE_modify, ModifyNames, ModifyModes
<1>5. \A n \in DOMAIN INSTR_WRITE : DOMAIN INSTR_WRITE[n] \subseteq WriteModes
  BY DEF INSTR_WRITE, WriteModes
<1>6. QED
  BY <1>1, <1>2, <1>3, <1>4, <1>5, SMTT(30)

\* The case of the switch that execute() comes to.
Decodes(e) ==
    \/ e.type = "read" /\ e.name \in ReadNames /\ e.mode \in ReadModes
    \/ e.type = "modify" /\ e.name \in ModifyNames /\ e.mode \in ModifyModes
    \/ e.type = "write" /\ e.mode \in WriteModes
    \/ e.type = "branch" /\ e.name \in DOMAIN Branches
    \/ e.type = "flag" /\ e.name \in DOMAIN Flags
    \/ e.type = "transfer" /\ e.name \in DOMAIN Transfers
    \/ e.type = "impld" /\ e.name \in DOMAIN INSTR_IMPLD
    \/ e.type = "unknown" /\ e.name = "[Unknown]"

\* Every opcode decodes to an instruction with a mode it has, or to none.
LEMMA Decoded == ASSUME NEW id \in Byte PROVE Decodes(Decode[id])
<1> DEFINE In(table) == {n \in DOMAIN table : \E k \in DOMAIN table[n] : table[n][k] = id}
           Nm(table) == CHOOSE n \in In(table) : TRUE
           Row(type, table) ==
               [type |-> type, name |-> Nm(table),
                mode |-> CHOOSE k \in DOMAIN table[Nm(table)] : table[Nm(table)][k] = id]
           Named(type, table) ==
               [type |-> type, name |-> CHOOSE n \in DOMAIN table : table[n][1] = id,
                mode |-> "impld"]
           Has(table) == \E n \in DOMAIN table : table[n][1] = id
           Impld == [type |-> "impld", mode |-> "impld",
                     name |-> CHOOSE n \in DOMAIN INSTR_IMPLD : INSTR_IMPLD[n] = id]
           Illegal == [type |-> "unknown", name |-> "[Unknown]", mode |-> "none"]
<1>1. Decode[id] =
        CASE In(INSTR_AMODE_read) # {}   -> Row("read", INSTR_AMODE_read)
          [] In(INSTR_AMODE_modify) # {} -> Row("modify", INSTR_AMODE_modify)
          [] In(INSTR_WRITE) # {}        -> Row("write", INSTR_WRITE)
          [] Has(Branches)  -> Named("branch", Branches)
          [] Has(Flags)     -> Named("flag", Flags)
          [] Has(Transfers) -> Named("transfer", Transfers)
          [] \E n \in DOMAIN INSTR_IMPLD : INSTR_IMPLD[n] = id -> Impld
          [] OTHER -> Illegal
  BY DEF Decode
<1>2. ASSUME NEW table, In(table) # {}, NEW type
      PROVE  /\ Row(type, table).type = type /\ Row(type, table).name \in DOMAIN table
             /\ Row(type, table).mode \in DOMAIN table[Row(type, table).name]
  <2>1. Nm(table) \in In(table)
    BY <1>2, Zenon
  <2>2. Nm(table) \in DOMAIN table /\ \E k \in DOMAIN table[Nm(table)] : table[Nm(table)][k] = id
    BY <2>1, Zenon
  <2> HIDE DEF Nm
  <2>3. QED
    BY <2>2
<1>3. ASSUME NEW table, Has(table), NEW type
      PROVE  Named(type, table).type = type /\ Named(type, table).name \in DOMAIN table
  BY <1>3
<1>4. ASSUME \E n \in DOMAIN INSTR_IMPLD : INSTR_IMPLD[n] = id
      PROVE  Impld.type = "impld" /\ Impld.name \in DOMAIN INSTR_IMPLD
  BY <1>4
<1>5. Illegal.type = "unknown" /\ Illegal.name = "[Unknown]"
  OBVIOUS
<1> DEFINE R == Row("read", INSTR_AMODE_read)
           M == Row("modify", INSTR_AMODE_modify)
           W == Row("write", INSTR_WRITE)
           B == Named("branch", Branches)
           F == Named("flag", Flags)
           T == Named("transfer", Transfers)
<1>6. In(INSTR_AMODE_read) # {} => Decodes(R)
  <2> HAVE In(INSTR_AMODE_read) # {}
  <2>1. /\ R.type = "read" /\ R.name \in DOMAIN INSTR_AMODE_read
        /\ R.mode \in DOMAIN INSTR_AMODE_read[R.name]
    BY <1>2, Zenon
  <2> HIDE DEF R
  <2>2. QED
    BY <2>1, Tables DEF Decodes
<1>7. In(INSTR_AMODE_modify) # {} => Decodes(M)
  <2> HAVE In(INSTR_AMODE_modify) # {}
  <2>1. /\ M.type = "modify" /\ M.name \in DOMAIN INSTR_AMODE_modify
        /\ M.mode \in DOMAIN INSTR_AMODE_modify[M.name]
    BY <1>2, SMTT(60)
  <2> HIDE DEF M
  <2>2. QED
    BY <2>1, Tables DEF Decodes
<1>8. In(INSTR_WRITE) # {} => Decodes(W)
  <2> HAVE In(INSTR_WRITE) # {}
  <2>1. W.type = "write" /\ W.name \in DOMAIN INSTR_WRITE /\ W.mode \in DOMAIN INSTR_WRITE[W.name]
    BY <1>2, Zenon
  <2> HIDE DEF W
  <2>2. QED
    BY <2>1, Tables DEF Decodes
<1>9. /\ Has(Branches) => Decodes(B)
      /\ Has(Flags) => Decodes(F)
      /\ Has(Transfers) => Decodes(T)
      /\ (\E n \in DOMAIN INSTR_IMPLD : INSTR_IMPLD[n] = id) => Decodes(Impld)
      /\ Decodes(Illegal)
  <2>1. Has(Branches) => B.type = "branch" /\ B.name \in DOMAIN Branches
    BY <1>3
  <2>2. Has(Flags) => F.type = "flag" /\ F.name \in DOMAIN Flags
    BY <1>3
  <2>3. Has(Transfers) => T.type = "transfer" /\ T.name \in DOMAIN Transfers
    BY <1>3
  <2> HIDE DEF B, F, T, Impld, Illegal
  <2>4. QED
    BY <1>4, <1>5, <2>1, <2>2, <2>3, SMTT(30) DEF Decodes
<1> HIDE DEF In, Nm, Row, Named, Has, Impld, Illegal
<1>10. QED
  BY <1>1, <1>6, <1>7, <1>8, <1>9

\* An instruction with an addressing mode polls once, and leaves the interrupts alone
\* otherwise.
LEMMA AddressingRan ==
  ASSUME NEW m \in CPUs
  PROVE  /\ \A f \in ReadNames, mode \in ReadModes : Ran(m, last_cycle(ReadMode(mode, f, m)))
         /\ \A f \in ModifyNames, mode \in ModifyModes : Ran(m, last_cycle(ModifyMode(mode, f, m)))
         /\ \A v \in Byte, mode \in WriteModes : Ran(m, last_cycle(WriteMode(mode, v, m)))
<1>1. /\ \A mode \in ReadModes : ReadCycles[mode] \subseteq 1 .. 6
      /\ \A mode \in ModifyModes : ModifyCycles[mode] \subseteq 1 .. 6
      /\ \A mode \in WriteModes : WriteCycles[mode] \subseteq 1 .. 6
  BY DEF ReadCycles, ModifyCycles, WriteCycles, ReadModes, ModifyModes, WriteModes
<1>2. ASSUME NEW n, \E k \in 1 .. 6 : Does(m, n, k)
      PROVE  Ran(m, last_cycle(n))
  <2>1. PICK k \in 1 .. 6 : Does(m, n, k)
    BY <1>2
  <2>2. k \in Nat
    OBVIOUS
  <2>3. PollsOnly(m, last_cycle(n), k)
    BY <2>1, <2>2, ThenLastCycle, Zenon
  <2>4. QED
    BY <2>3, Zenon DEF Ran
<1>3. ASSUME NEW f \in ReadNames, NEW mode \in ReadModes
      PROVE  Ran(m, last_cycle(ReadMode(mode, f, m)))
  BY <1>1, <1>2, ReadModeDoes, Zenon
<1>4. ASSUME NEW f \in ModifyNames, NEW mode \in ModifyModes
      PROVE  Ran(m, last_cycle(ModifyMode(mode, f, m)))
  BY <1>1, <1>2, ModifyModeDoes, Zenon
<1>5. ASSUME NEW v \in Byte, NEW mode \in WriteModes
      PROVE  Ran(m, last_cycle(WriteMode(mode, v, m)))
  BY <1>1, <1>2, WriteModeDoes, Zenon
<1>6. QED
  BY <1>3, <1>4, <1>5, SMTT(30)

\* The flags that have an instruction to set or clear them.
LEMMA FlagNames ==
  ASSUME NEW n \in DOMAIN Flags
  PROVE  Flags[n][2] \in {"carry", "ov", "decimal", "intdis"} /\ Flags[n][3] \in BOOLEAN
<1>1. n \in {"clc", "sec", "cli", "sei", "clv", "cld", "sed"}
  BY DEF Flags
<1>2. Flags[n][2] \in {"carry", "ov", "decimal", "intdis"}
  BY DEF Flags
<1>3. /\ Flags["clc"][3] = FALSE /\ Flags["sec"][3] = TRUE /\ Flags["cli"][3] = FALSE
      /\ Flags["sei"][3] = TRUE /\ Flags["clv"][3] = FALSE /\ Flags["cld"][3] = FALSE
      /\ Flags["sed"][3] = TRUE
  BY DEF Flags
<1>4. QED
  BY <1>1, <1>2, <1>3, Zenon

\* So do the branches, transfers and flag instructions, but for SEI's and CLI's intdis.
LEMMA OthersRan ==
  ASSUME NEW m \in CPUs
  PROVE  /\ \A take : Ran(m, instr_branch(m, take))
         /\ \A n \in DOMAIN Flags : Ran(m, instr_flag(m, Flags[n][2], Flags[n][3]))
         /\ \A n \in DOMAIN Transfers : Ran(m, instr_transfer(m, Transfers[n][2], Transfers[n][3]))
<1>0. 1 \in 1 .. 6 /\ 2 \in 1 .. 6 /\ 3 \in 1 .. 6
  OBVIOUS
<1>1. ASSUME NEW take PROVE Ran(m, instr_branch(m, take))
  <2>1. PICK k \in {1, 2, 3} : PollsOnly(m, instr_branch(m, take), k)
    BY BranchPolls, Zenon
  <2>2. k \in 1 .. 6
    BY <1>0, Zenon
  <2>3. QED
    BY <2>1, <2>2, Zenon DEF Ran
<1>2. ASSUME NEW n \in DOMAIN Flags PROVE Ran(m, instr_flag(m, Flags[n][2], Flags[n][3]))
  <2>1. Flags[n][2] \in {"carry", "ov", "decimal", "intdis"} /\ Flags[n][3] \in BOOLEAN
    BY FlagNames
  <2>2. PICK flag, v : flag = Flags[n][2] /\ v = Flags[n][3]
    OBVIOUS
  <2>3. flag \in {"carry", "ov", "decimal", "intdis"} /\ v \in BOOLEAN
    BY <2>1, <2>2, Zenon
  <2>4. CASE flag = "intdis"
    <3>1. Polls(m, instr_flag(m, "intdis", v), 1, m.f.intdis, v, m.f.breakf)
      BY <2>3, FlagPolls, Zenon
    <3>2. QED
      BY <2>2, <2>3, <2>4, <3>1, Zenon DEF Ran
  <2>5. CASE flag # "intdis"
    <3>1. PollsOnly(m, instr_flag(m, flag, v), 1)
      BY <2>3, <2>5, FlagPolls, Zenon
    <3>2. QED
      BY <1>0, <2>2, <3>1, Zenon DEF Ran
  <2>6. QED
    BY <2>4, <2>5
<1>3. ASSUME NEW n \in DOMAIN Transfers
      PROVE  Ran(m, instr_transfer(m, Transfers[n][2], Transfers[n][3]))
  <2>1. Transfers[n][2] \in {"acc", "x", "y", "sp"} /\ Transfers[n][3] \in {"acc", "x", "y", "sp"}
    BY DEF Transfers
  <2>2. PollsOnly(m, instr_transfer(m, Transfers[n][2], Transfers[n][3]), 1)
    BY <2>1, TransferPolls, Zenon
  <2>3. QED
    BY <1>0, <2>2, Zenon DEF Ran
<1>4. QED
  BY <1>1, <1>2, <1>3

\* BRK enters a handler, as an interrupt does, with the break flag pushed set.
LEMMA BrkRan == ASSUME NEW m \in CPUs PROVE Ran(m, instr_brk(m))
<1> DEFINE b == [m EXCEPT !.f.breakf = TRUE]
<1>1. b \in CPUs
  BY Zenon DEF CPUs, CPUsWith, FlagSets
<1>2. instr_brk(m) = interrupt(b, "brk")
  BY DEF instr_brk
<1>3. "brk" \in Causes
  BY DEF Causes
<1> HIDE DEF b
<1>4. Enters(b, instr_brk(m), "brk") /\ EntersBy(b, instr_brk(m))
  BY <1>1, <1>2, <1>3, InterruptEnters, Zenon
<1>5. QED
  BY <1>4, Zenon DEF Ran, b

\* Every implied instruction does what Ran allows it.
LEMMA ImpliedRan ==
  ASSUME NEW m \in CPUs, NEW n \in DOMAIN INSTR_IMPLD
  PROVE  Ran(m, Implied(n, m))
<1>0. 1 \in 1 .. 6 /\ 2 \in 1 .. 6 /\ 3 \in 1 .. 6 /\ 4 \in 1 .. 6 /\ 5 \in 1 .. 6
  OBVIOUS
<1>1. ASSUME NEW o, NEW k \in 1 .. 6, PollsOnly(m, o, k) PROVE Ran(m, o)
  BY <1>1, Zenon DEF Ran
<1>2. /\ Ran(m, instr_pha(m)) /\ Ran(m, instr_pla(m)) /\ Ran(m, instr_jmp(m))
      /\ Ran(m, instr_nop(m)) /\ Ran(m, instr_jsr(m)) /\ Ran(m, instr_rts(m))
      /\ Ran(m, instr_jmp_ind(m))
  BY <1>0, <1>1, PhaPolls, PlaPolls, JmpPolls, NopPolls, JsrPolls, RtsPolls, JmpIndPolls, Zenon
<1>3. Ran(m, instr_php(m)) /\ Ran(m, instr_plp(m)) /\ Ran(m, instr_rti(m))
  BY PhpPolls, PlpPolls, RtiPolls, Zenon DEF Ran
<1>4. /\ Ran(m, instr_inx(m)) /\ Ran(m, instr_iny(m)) /\ Ran(m, instr_dex(m))
      /\ Ran(m, instr_dey(m))
  <2>1. 1 \in Nat /\ 255 \in Nat
    OBVIOUS
  <2>2. /\ PollsOnly(m, instr_inx(m), 1) /\ PollsOnly(m, instr_iny(m), 1)
        /\ PollsOnly(m, instr_dex(m), 1) /\ PollsOnly(m, instr_dey(m), 1)
    BY <2>1, StepPolls DEF instr_inx, instr_iny, instr_dex, instr_dey
  <2>3. QED
    BY <1>0, <1>1, <2>2, Zenon
<1>5. n \in {"brk", "php", "jsr", "plp", "rti", "pha", "jmp", "rts", "pla", "jmp_ind", "dey",
             "iny", "dex", "inx", "nop"}
  BY DEF INSTR_IMPLD
<1>6. QED
  BY <1>2, <1>3, <1>4, <1>5, BrkRan, Zenon DEF Implied

\* So does execute(), whatever the opcode.
LEMMA ExecuteRan ==
  ASSUME NEW m \in CPUs, NEW id \in Byte
  PROVE  Ran(m, execute(m, id))
<1> DEFINE e == Decode[id]
           v == IF e.name = "sta" THEN m.acc ELSE IF e.name = "sty" THEN m.y ELSE m.x
<1>1. Decodes(e)
  BY Decoded, Zenon
<1>2. v \in Byte
  BY Fields, Zenon
<1>3. execute(m, id) =
        CASE e.type = "read"   -> last_cycle(ReadMode(e.mode, e.name, m))
          [] e.type = "modify" -> last_cycle(ModifyMode(e.mode, e.name, m))
          [] e.type = "write"  -> last_cycle(WriteMode(e.mode, v, m))
          [] e.type = "branch" ->
                instr_branch(m, m.f[Branches[e.name][2]] = Branches[e.name][3])
          [] e.type = "flag"   -> instr_flag(m, Flags[e.name][2], Flags[e.name][3])
          [] e.type = "transfer" -> instr_transfer(m, Transfers[e.name][2], Transfers[e.name][3])
          [] e.type = "impld"  -> Implied(e.name, m)
          [] OTHER -> m
  BY DEF execute
<1> HIDE DEF e, v
<1>4. CASE e.type = "read" /\ e.name \in ReadNames /\ e.mode \in ReadModes
  BY <1>3, <1>4, AddressingRan, Zenon
<1>5. CASE e.type = "modify" /\ e.name \in ModifyNames /\ e.mode \in ModifyModes
  BY <1>3, <1>5, AddressingRan, Zenon
<1>6. CASE e.type = "write" /\ e.mode \in WriteModes
  BY <1>2, <1>3, <1>6, AddressingRan, Zenon
<1>7. CASE e.type = "branch"
  BY <1>3, <1>7, OthersRan, Zenon
<1>8. CASE e.type = "flag" /\ e.name \in DOMAIN Flags
  BY <1>3, <1>8, OthersRan, Zenon
<1>9. CASE e.type = "transfer" /\ e.name \in DOMAIN Transfers
  BY <1>3, <1>9, OthersRan, Zenon
<1>10. CASE e.type = "impld" /\ e.name \in DOMAIN INSTR_IMPLD
  BY <1>3, <1>10, ImpliedRan, Zenon
<1>11. CASE e.type = "unknown"
  <2>1. execute(m, id) = m
    BY <1>3, <1>11, Zenon
  <2>2. QED
    BY <2>1 DEF Ran
<1>12. QED
  BY <1>1, <1>4, <1>5, <1>6, <1>7, <1>8, <1>9, <1>10, <1>11 DEF Decodes

-------------------------------------------------------------------------------
(* The calls of the CPU *)

\* fetch() reports the fetch, reads the opcode, and moves the pc on.
LEMMA FetchFetches == ASSUME NEW m \in CPUs PROVE Fetched(m, fetch(m))
<1> DEFINE d == Read(m, m.pc)
           w == After(m.pc)
           k == m.cycles + 1
           t == Append(m.log, Entry(m, "x", m.pc))
           n == fetch(m)
<1>1. d \in Byte /\ d \in Ids
  BY ReadIsByte, Zenon DEF Ids
<1>2. w \in Word
  BY Fields, NextPc DEF After
<1>3. k \in Nat
  BY Fields
<1>4. Entry(m, "x", m.pc) \in Accesses
  BY Fields, WordsAreNat, EntryType, Zenon
<1>5. t \in Seq(Accesses)
  BY <1>4, Fields
<1>6. n = [m EXCEPT !.cycles = k, !.log = t, !.pc = w, !.id = d]
  <2> DEFINE a == Access(m, "x", m.pc)
  <2>1. a = [m EXCEPT !.cycles = k, !.log = t]
    BY Zenon DEF Access, cycle, Entry, CPUs, CPUsWith
  <2>2. n = [a EXCEPT !.pc = After(a.pc), !.id = d]
    BY DEF fetch, After
  <2> HIDE DEF a, n, d, w, k, t
  <2>3. a.pc = m.pc
    BY <2>1, Zenon DEF CPUs, CPUsWith
  <2>4. w = After(m.pc)
    BY DEF w
  <2>5. QED
    BY <2>1, <2>2, <2>3, <2>4, Zenon
<1> HIDE DEF d, w, k, t, n
<1>7. n \in CPUs
  BY <1>1, <1>2, <1>3, <1>5, <1>6, Zenon DEF CPUs, CPUsWith
<1>8. /\ n.id = d /\ n.cycles = k /\ n.log = t
      /\ n.nmipending = m.nmipending /\ n.irqpending = m.irqpending
      /\ n.resetpending = m.resetpending
      /\ n.execnmi = m.execnmi /\ n.execirq = m.execirq /\ n.f = m.f
      /\ n.vec = m.vec /\ n.cause = m.cause /\ n.pushedB = m.pushedB /\ n.rom = m.rom
  BY <1>6, Zenon DEF CPUs, CPUsWith
<1>9. Fetched(m, n)
  BY <1>1, <1>4, <1>7, <1>8 DEF Fetched, d, k, t
<1>10. QED
  BY <1>9 DEF n

\* A call of power() or run() does what its machine calls for.
LEMMA CallRuns ==
  ASSUME NEW c \in CPUs
  PROVE  CallDoes(c)
<1> DEFINE g == Fresh(c)
           h == cycle(g)
           m == fetch(g)
<1>1. g \in CPUs
  BY FreshIs, Zenon
<1>2. g.execnmi = c.execnmi /\ g.execirq = c.execirq
  BY FreshIs, Zenon DEF Signals
<1>3. Call(c) = IF c.resetpending THEN interrupt(g, "reset")
                ELSE IF g.execnmi THEN [interrupt(h, "nmi") EXCEPT !.execnmi = FALSE]
                ELSE IF g.execirq THEN [interrupt(h, "irq") EXCEPT !.execirq = FALSE]
                ELSE execute(m, m.id)
  BY DEF Call, power, run
<1> HIDE DEF g
<1>4. h \in CPUs
  BY <1>1, CycleDoes, Zenon DEF Does
<1>5. Fetched(g, m)
  BY <1>1, FetchFetches, Zenon
<1> HIDE DEF h, m
<1>6. Ran(m, execute(m, m.id))
  BY <1>5, ExecuteRan, Zenon DEF Fetched
<1>7. "reset" \in Causes /\ "nmi" \in Causes /\ "irq" \in Causes
  BY DEF Causes
<1>8. /\ Enters(g, interrupt(g, "reset"), "reset") /\ EntersBy(g, interrupt(g, "reset"))
      /\ Enters(h, interrupt(h, "nmi"), "nmi") /\ EntersBy(h, interrupt(h, "nmi"))
      /\ Enters(h, interrupt(h, "irq"), "irq") /\ EntersBy(h, interrupt(h, "irq"))
  BY <1>1, <1>4, <1>7, InterruptEnters, Zenon
<1>9. c.resetpending => Enters(g, Call(c), "reset") /\ EntersBy(g, Call(c))
  BY <1>3, <1>8, Zenon
<1>10. ~c.resetpending /\ c.execnmi =>
                \E n : /\ Enters(h, n, "nmi") /\ EntersBy(h, n)
                       /\ Call(c) = [n EXCEPT !.execnmi = FALSE]
  BY <1>2, <1>3, <1>8, Zenon
<1>11. ~c.resetpending /\ ~c.execnmi /\ c.execirq =>
                \E n : /\ Enters(h, n, "irq") /\ EntersBy(h, n)
                       /\ Call(c) = [n EXCEPT !.execirq = FALSE]
  BY <1>2, <1>3, <1>8, Zenon
<1>12. Instr(c) => Fetched(g, m) /\ Ran(m, Call(c))
  BY <1>2, <1>3, <1>5, <1>6, Zenon DEF Instr
<1>13. QED
  BY <1>9, <1>10, <1>11, <1>12 DEF CallDoes, g, h

\* A CPU that is about to be powered has a state of the type, with intdis and breakf
\* clear.
LEMMA PowerOnIs ==
  ASSUME NEW rom \in Memories(Word)
  PROVE  /\ PowerOn(rom) \in CPUs
         /\ PowerOn(rom).f.breakf = FALSE /\ PowerOn(rom).f.intdis = FALSE
<1> DEFINE z == 0
           e == << >>
<1>1. z \in Byte /\ z \in Word /\ z \in Nat /\ e \in Seq(Accesses)
  BY Bytes, Words
<1>2. e \in Memories(Cells)
  <2>1. e \in [{} -> Byte]
    OBVIOUS
  <2>2. {} \in SUBSET Cells
    OBVIOUS
  <2>3. QED
    BY <2>1, <2>2, Zenon DEF Memories
<1>4. NO_ID \in Ids /\ NO_VEC \in Vectors /\ "none" \in Causes
  BY DEF Ids, Vectors, Causes
<1>5. ResetFlags \in FlagSets
  <2>1. ASSUME NEW d, NEW k PROVE IsSet(d, k) \in BOOLEAN
    BY DEF IsSet
  <2>2. QED
    BY <2>1, Zenon DEF ResetFlags, ToFlags, FlagSets
<1>6. ResetFlags.breakf = FALSE /\ ResetFlags.intdis = FALSE
  <2>1. ResetFlags.breakf = IsSet(32, 16) /\ ResetFlags.intdis = IsSet(32, 4)
    BY DEF ResetFlags, ToFlags
  <2>2. ~IsSet(32, 16) /\ ~IsSet(32, 4)
    BY DEF IsSet
  <2>3. IsSet(32, 16) \in BOOLEAN /\ IsSet(32, 4) \in BOOLEAN
    BY DEF IsSet
  <2>4. QED
    BY <2>1, <2>2, <2>3
<1>7. PowerOn(rom) =
        [pc |-> z, sp |-> z, acc |-> z, x |-> z, y |-> z, f |-> ResetFlags,
         low |-> z, high |-> z, cycles |-> z, ram |-> e, rom |-> rom, log |-> e,
         nmipending |-> FALSE, irqpending |-> FALSE, resetpending |-> TRUE,
         execnmi |-> FALSE, execirq |-> FALSE,
         id |-> NO_ID, vec |-> NO_VEC, cause |-> "none", pushedB |-> FALSE]
  BY DEF PowerOn
<1> HIDE DEF z, e
<1>8. PowerOn(rom) \in CPUs
  <2> DEFINE no == FALSE
             yes == TRUE
  <2>1. no \in BOOLEAN /\ yes \in BOOLEAN
    OBVIOUS
  <2>2. PowerOn(rom) =
        [pc |-> z, sp |-> z, acc |-> z, x |-> z, y |-> z, f |-> ResetFlags,
         low |-> z, high |-> z, cycles |-> z, ram |-> e, rom |-> rom, log |-> e,
         nmipending |-> no, irqpending |-> no, resetpending |-> yes,
         execnmi |-> no, execirq |-> no,
         id |-> NO_ID, vec |-> NO_VEC, cause |-> "none", pushedB |-> no]
    BY <1>7
  <2> HIDE DEF no, yes
  <2>3. QED
    BY <1>1, <1>2, <1>4, <1>5, <2>1, <2>2 DEF CPUs, CPUsWith
<1>9. PowerOn(rom).f = ResetFlags
  BY <1>7
<1>10. QED
  BY <1>6, <1>8, <1>9
===============================================================================

----------------------- MODULE InstructionFactsProofs -----------------------
(***************************************************************************)
(* What the instructions compute, and the references of InstructionFacts,  *)
(* for every machine.                                                      *)
(*                                                                         *)
(* What is pushed is what is pulled, wherever the stack pointer is, so RTI *)
(* undoes interrupt() and RTS undoes JSR. The sums, differences, shifts    *)
(* and comparisons of instructions.cpp are those of the integers. An       *)
(* instruction takes the cycles noted there, whatever its operands: the    *)
(* counts are those that InstructionsProofs has of every operation.        *)
(***************************************************************************)
EXTENDS InstructionFacts, InstructionsProofs

-------------------------------------------------------------------------------
(* The stack *)

\* What push() and pull() do to sp, and the cell that sp points to.
Down(s) == (s + 255) % 256
Up(s) == (s + 1) % 256
Top(s) == s + STACK_BASE

\* A CPU with the memory r, the stack pointer s, the pc w and the flags f.
Stands(m, r, s, w, f) == m \in CPUs /\ m.ram = r /\ m.sp = s /\ m.pc = w /\ m.f = f

\* The stack page is in RAM, and is not mirrored there.
LEMMA TopIs ==
  ASSUME NEW s \in Byte
  PROVE  /\ Top(s) \in Cells /\ Top(s) \in Nat /\ Top(s) < \h2000 /\ Top(s) % \h0800 = Top(s)
         /\ Top(s) \in \h0100 .. \h01FF
BY Bytes DEF Top, STACK_BASE, Cells

\* sp goes around the page: a push and a pull undo each other, and three pushes in a row
\* go to three cells.
LEMMA UpDown ==
  ASSUME NEW s \in Byte
  PROVE  /\ Down(s) \in Byte /\ Up(s) \in Byte /\ Up(Down(s)) = s
         /\ Top(s) # Top(Down(s)) /\ Top(s) # Top(Down(Down(s)))
<1>1. s \in Nat /\ s < 256
  BY Bytes
<1>2. (s = 0 /\ Down(s) = 255) \/ (s > 0 /\ Down(s) = s - 1)
  BY <1>1 DEF Down
<1>3. Up(s) \in Nat /\ Up(s) < 256
  BY <1>1 DEF Up
<1>4. Up(255) = 0 /\ (s > 0 => Up(s - 1) = s)
  <2>1. (s - 1) + 1 = s /\ s % 256 = s
    BY <1>1
  <2> QED BY <2>1 DEF Up
<1>5. Down(255) = 254 /\ (s > 1 => Down(s - 1) = s - 2) /\ Down(0) = 255
  BY <1>1 DEF Down
<1>6. Down(s) \in Byte /\ Up(s) \in Byte /\ Up(Down(s)) = s
  BY <1>1, <1>2, <1>3, <1>4, Bytes
<1>7. Down(s) # s /\ Down(Down(s)) # s
  BY <1>1, <1>2, <1>5
<1>8. Down(s) \in Nat /\ Down(Down(s)) \in Nat
  BY <1>1, <1>2, <1>5, SMTT(30)
<1> QED BY <1>1, <1>6, <1>7, <1>8 DEF Top, STACK_BASE

\* A cycle leaves memory, sp, pc and flags alone.
LEMMA CycleStands ==
  ASSUME NEW m \in CPUs
  PROVE  Stands(cycle(m), m.ram, m.sp, m.pc, m.f)
<1>1. cycle(m) \in CPUs
  BY CycleDoes, Zenon DEF Does
<1>2. cycle(m).ram = m.ram /\ cycle(m).sp = m.sp /\ cycle(m).pc = m.pc /\ cycle(m).f = m.f
  BY Zenon DEF cycle, CPUs, CPUsWith
<1> QED BY <1>1, <1>2 DEF Stands

\* So does an access, the debugger aside.
LEMMA AccessStands ==
  ASSUME NEW m \in CPUs, NEW mode \in {"r", "w"}, NEW a \in Nat
  PROVE  Stands(Access(m, mode, a), m.ram, m.sp, m.pc, m.f)
<1>1. Access(m, mode, a) \in CPUs
  BY AccessDoes, Zenon DEF Does
<1>2. /\ Access(m, mode, a).ram = m.ram /\ Access(m, mode, a).sp = m.sp
      /\ Access(m, mode, a).pc = m.pc /\ Access(m, mode, a).f = m.f
  <2>1. ASSUME NEW k, NEW g
        PROVE  LET n == [[m EXCEPT !.cycles = k] EXCEPT !.log = g]
               IN  n.ram = m.ram /\ n.sp = m.sp /\ n.pc = m.pc /\ n.f = m.f
    BY Zenon DEF CPUs, CPUsWith
  <2> QED BY <2>1 DEF Access, cycle
<1> QED BY <1>1, <1>2 DEF Stands

\* So does a poll.
LEMMA PollStands ==
  ASSUME NEW m \in CPUs
  PROVE  Stands(last_cycle(m), m.ram, m.sp, m.pc, m.f)
<1>1. last_cycle(m) \in CPUs
  BY LastCycle, Zenon DEF PollsOnly, Polls, Runs
<1>2. /\ last_cycle(m).ram = m.ram /\ last_cycle(m).sp = m.sp
      /\ last_cycle(m).pc = m.pc /\ last_cycle(m).f = m.f
  <2>1. ASSUME NEW a, NEW b
        PROVE  LET n == [[m EXCEPT !.execnmi = a] EXCEPT !.execirq = b]
               IN  n.ram = m.ram /\ n.sp = m.sp /\ n.pc = m.pc /\ n.f = m.f
    BY Zenon DEF CPUs, CPUsWith
  <2> QED BY <2>1, ZenonT(60) DEF last_cycle, irqpoll, nmipoll
<1> QED BY <1>1, <1>2 DEF Stands

\* push() writes the cell that sp points to, and moves sp down.
LEMMA PushStands ==
  ASSUME NEW m \in CPUs, NEW d \in Byte
  PROVE  Stands(push(m, d), SetCell(m.ram, Top(m.sp), d), Down(m.sp), m.pc, m.f)
<1> DEFINE a == Top(m.sp)
           n == Access(m, "w", a)
           r == SetCell(n.ram, a, d)
<1>0. m.sp \in Byte
  BY Fields
<1>1. a \in Nat /\ a < \h2000 /\ a % \h0800 = a
  BY <1>0, TopIs
<1>2. push(m, d) = [[n EXCEPT !.ram = r] EXCEPT !.sp = Down(@)]
  <2> DEFINE o == writemem(m, a, d)
             q == [n EXCEPT !.ram = r]
  <2>1. o = [n EXCEPT !.ram = SetCell(@, a, d)]
    BY <1>1 DEF writemem, Write
  <2>2. push(m, d) = [o EXCEPT !.sp = Down(@)]
    BY DEF push, Top, Down
  <2>3. o = q
    BY <2>1
  <2> HIDE DEF o, q
  <2> QED BY <2>2, <2>3 DEF q
<1>3. push(m, d) \in CPUs
  BY PushDoes, Zenon DEF Does
<1>4. n \in CPUs /\ n.ram = m.ram /\ n.sp = m.sp /\ n.pc = m.pc /\ n.f = m.f
  <2>1. a \in Nat /\ "w" \in {"r", "w"}
    BY <1>1
  <2> HIDE DEF a
  <2> QED BY <2>1, AccessStands, Zenon DEF Stands
<1> HIDE DEF n, a, r
<1>5. /\ push(m, d).ram = r /\ push(m, d).sp = Down(n.sp)
      /\ push(m, d).pc = n.pc /\ push(m, d).f = n.f
  BY <1>2, <1>4, Zenon DEF CPUs, CPUsWith
<1> QED BY <1>3, <1>4, <1>5 DEF Stands, r, a

\* pull() moves sp up, and gives the byte in the cell that sp points to then.
LEMMA PullStands ==
  ASSUME NEW m \in CPUs
  PROVE  /\ Stands(pull(m).m, m.ram, Up(m.sp), m.pc, m.f)
         /\ pull(m).d = Cell(m.ram, Top(Up(m.sp)), 0)
<1> DEFINE s == Up(m.sp)
           up == [m EXCEPT !.sp = s]
           a == Top(s)
<1>1. s \in Byte
  BY Fields, UpDown
<1>2. a \in Nat /\ a < \h2000 /\ a % \h0800 = a
  BY <1>1, TopIs
<1>3. up \in CPUs /\ up.sp = s /\ up.ram = m.ram /\ up.pc = m.pc /\ up.f = m.f
  <2> HIDE DEF s
  <2> QED BY <1>1, Zenon DEF CPUs, CPUsWith
<1>4. pull(m).m = readmem(up, up.sp + STACK_BASE) /\ pull(m).d = Read(up, up.sp + STACK_BASE)
  BY DEF pull, Up
<1>5. up.sp + STACK_BASE = a
  BY <1>3 DEF Top
<1> HIDE DEF a, s, up
<1>6. Stands(readmem(up, a), up.ram, up.sp, up.pc, up.f)
  BY <1>2, <1>3, AccessStands DEF readmem
<1>7. Read(up, a) = Cell(up.ram, a, 0)
  BY <1>2 DEF Read
<1> QED BY <1>3, <1>4, <1>5, <1>6, <1>7 DEF a, s

\* An assignment to pc changes nothing else.
LEMMA PutStands ==
  ASSUME NEW m \in CPUs, NEW w \in Word
  PROVE  Stands([m EXCEPT !.pc = w], m.ram, m.sp, w, m.f)
<1> QED BY Zenon DEF Stands, CPUs, CPUsWith

\* The pc is pulled from two cells, the low byte first.
LEMMA PullPCStands ==
  ASSUME NEW m \in CPUs, NEW l, l = Cell(m.ram, Top(Up(m.sp)), 0),
         NEW h, h = Cell(m.ram, Top(Up(Up(m.sp))), 0)
  PROVE  Stands(PullPC(m), m.ram, Up(Up(m.sp)), l + 256 * h, m.f)
<1> DEFINE lo == pull(m)
           v == 256 * High(lo.m.pc) + lo.d
           n == [lo.m EXCEPT !.pc = v]
           hi == pull(n)
           w == Low(hi.m.pc) + 256 * hi.d
<1>1. /\ lo.m \in CPUs /\ lo.m.ram = m.ram /\ lo.m.sp = Up(m.sp) /\ lo.m.f = m.f /\ lo.d = l
  BY PullStands DEF Stands
<1>2. l \in Byte /\ lo.d \in Byte
  BY <1>1, PullDoes
<1>3. PullPC(m) = [hi.m EXCEPT !.pc = w]
  BY DEF PullPC
<1> HIDE DEF lo
<1>4. v \in Word /\ Low(v) = l
  <2>1. High(lo.m.pc) \in Byte
    BY <1>1, Fields, Halves
  <2>2. l + 256 * High(lo.m.pc) \in Word
    BY <1>2, <2>1, Joined
  <2>3. v = l + 256 * High(lo.m.pc)
    BY <1>1, <1>2, <2>1, Bytes
  <2>4. (l + 256 * High(lo.m.pc)) % 256 = l
    BY <1>2, <2>1, Bytes
  <2> QED BY <2>2, <2>3, <2>4 DEF Low
<1> HIDE DEF v
<1>5. Stands(n, lo.m.ram, lo.m.sp, v, lo.m.f)
  BY <1>1, <1>4, PutStands
<1> HIDE DEF n
<1>6. n \in CPUs /\ n.ram = m.ram /\ n.sp = Up(m.sp) /\ n.pc = v /\ n.f = m.f
  BY <1>1, <1>5 DEF Stands
<1>7. /\ Stands(hi.m, n.ram, Up(n.sp), n.pc, n.f) /\ hi.d = Cell(n.ram, Top(Up(n.sp)), 0)
      /\ hi.d \in Byte
  BY <1>6, PullStands, PullDoes
<1> HIDE DEF hi
<1>8. /\ hi.m \in CPUs /\ hi.m.ram = m.ram /\ hi.m.sp = Up(Up(m.sp)) /\ hi.m.pc = v /\ hi.m.f = m.f
      /\ hi.d = h /\ h \in Byte
  BY <1>6, <1>7 DEF Stands
<1>9. w = l + 256 * h
  BY <1>4, <1>8
<1>10. w \in Word
  BY <1>2, <1>8, <1>9, Joined
<1> HIDE DEF w
<1>11. Stands(PullPC(m), hi.m.ram, hi.m.sp, w, hi.m.f)
  BY <1>3, <1>8, <1>10, PutStands
<1> QED BY <1>8, <1>9, <1>11

\* RTS goes on after the pc that it pulls.
LEMMA RtsStands ==
  ASSUME NEW m \in CPUs, NEW l, l = Cell(m.ram, Top(Up(m.sp)), 0),
         NEW h, h = Cell(m.ram, Top(Up(Up(m.sp))), 0)
  PROVE  Stands(instr_rts(m), m.ram, Up(Up(m.sp)), After(l + 256 * h), m.f)
<1> DEFINE n == cycle(cycle(m))
           p == PullPC(n)
           v == After(p.pc)
           q == [p EXCEPT !.pc = v]
<1>1. n \in CPUs /\ n.ram = m.ram /\ n.sp = m.sp /\ n.f = m.f
  BY CycleStands DEF Stands
<1>2. instr_rts(m) = last_cycle(cycle([p EXCEPT !.pc = After(@)]))
  BY DEF instr_rts, After
<1> HIDE DEF n
<1>3. Stands(p, n.ram, Up(Up(n.sp)), l + 256 * h, n.f)
  BY <1>1, PullPCStands
<1> HIDE DEF p
<1>4. p \in CPUs /\ p.ram = m.ram /\ p.sp = Up(Up(m.sp)) /\ p.pc = l + 256 * h /\ p.f = m.f
  BY <1>1, <1>3 DEF Stands
<1>5. v \in Word
  BY <1>4, Fields, NextPc DEF After
<1>6. instr_rts(m) = last_cycle(cycle(q))
  BY <1>2
<1> HIDE DEF v
<1>7. Stands(q, p.ram, p.sp, v, p.f)
  BY <1>4, <1>5, PutStands
<1> HIDE DEF q
<1>8. Stands(cycle(q), p.ram, p.sp, v, p.f)
  BY <1>7, CycleStands DEF Stands
<1>9. Stands(last_cycle(cycle(q)), p.ram, p.sp, v, p.f)
  BY <1>8, PollStands DEF Stands
<1> QED BY <1>4, <1>6, <1>9 DEF v

\* The operand bytes are the two bytes at pc, and pc goes on past them.
LEMMA OperandsStand ==
  ASSUME NEW m \in CPUs, NEW n, n = fetchops(m)
  PROVE  /\ Stands(n, m.ram, m.sp, After(After(m.pc)), m.f)
         /\ n.low = Read(m, m.pc) /\ n.high = Read(m, After(m.pc))
<1> DEFINE p == fetchop_low(m)
           v == After(m.pc)
           w == After(p.pc)
           a == m.cycles + 1
           b == p.cycles + 1
           l == Read(m, m.pc)
           h == Read(p, p.pc)
<1>1. p \in CPUs /\ n \in CPUs
  BY FetchopDoes, FetchopsDoes, Zenon DEF Does
<1>2. p = [[m EXCEPT !.cycles = a] EXCEPT !.low = l, !.pc = v]
  <2>1. cycle(m) = [m EXCEPT !.cycles = a] /\ cycle(m).pc = m.pc
    BY Zenon DEF cycle, CPUs, CPUsWith
  <2>2. p = [cycle(m) EXCEPT !.low = l, !.pc = After(@)]
    BY DEF fetchop_low, After
  <2> HIDE DEF p, l, a
  <2> QED BY <2>1, <2>2
<1>3. n = [[p EXCEPT !.cycles = b] EXCEPT !.high = h, !.pc = w]
  <2> HIDE DEF p
  <2>1. cycle(p) = [p EXCEPT !.cycles = b] /\ cycle(p).pc = p.pc
    BY <1>1, Zenon DEF cycle, CPUs, CPUsWith
  <2>2. n = [cycle(p) EXCEPT !.high = h, !.pc = After(@)]
    BY DEF fetchops, fetchop_high, After, p
  <2> HIDE DEF h, b
  <2> QED BY <2>1, <2>2
<1> HIDE DEF a, b, l, h, v, w, p
<1>4. /\ p.ram = m.ram /\ p.rom = m.rom /\ p.sp = m.sp /\ p.pc = v /\ p.f = m.f /\ p.low = l
  BY <1>2, Zenon DEF CPUs, CPUsWith
<1>5. /\ n.ram = p.ram /\ n.sp = p.sp /\ n.pc = w /\ n.f = p.f /\ n.low = p.low /\ n.high = h
  BY <1>1, <1>3, Zenon DEF CPUs, CPUsWith
<1>6. h = Read(m, v)
  BY <1>4, SameMemory DEF h
<1>7. n.ram = m.ram /\ n.sp = m.sp /\ n.pc = After(After(m.pc)) /\ n.f = m.f
  BY <1>4, <1>5 DEF v, w
<1>8. n.low = Read(m, m.pc) /\ n.high = Read(m, After(m.pc))
  BY <1>4, <1>5, <1>6 DEF l, v
<1> QED BY <1>1, <1>7, <1>8, Zenon DEF Stands

\* push() leaves the operand alone.
LEMMA PushKeeps ==
  ASSUME NEW m \in CPUs, NEW d \in Byte
  PROVE  push(m, d).low = m.low /\ push(m, d).high = m.high
<1> DEFINE a == m.sp + STACK_BASE
           n == Access(m, "w", a)
           o == Write(n, a, d)
<1>1. push(m, d) = [o EXCEPT !.sp = Down(@)]
  BY DEF push, writemem, Down
<1>2. a \in Nat
  BY Fields, StackAddress, Zenon
<1> HIDE DEF a
<1>3. n \in CPUs
  BY <1>2, AccessDoes, Zenon DEF Does
<1>4. n.low = m.low /\ n.high = m.high
  BY Zenon DEF Access, cycle, CPUs, CPUsWith
<1> HIDE DEF n
<1>5. o \in CPUs
  BY <1>2, <1>3, WriteDoes, Zenon DEF Does
<1>6. o.low = n.low /\ o.high = n.high
  <2>1. ASSUME NEW r PROVE [n EXCEPT !.ram = r].low = n.low /\ [n EXCEPT !.ram = r].high = n.high
    BY <1>3, Zenon DEF CPUs, CPUsWith
  <2> QED BY <2>1 DEF Write
<1> HIDE DEF o
<1>7. push(m, d).low = o.low /\ push(m, d).high = o.high
  BY <1>1, <1>5, Zenon DEF CPUs, CPUsWith
<1> QED BY <1>4, <1>6, <1>7

\* The byte before the one after the next is the next.
LEMMA OneBack == ASSUME NEW w \in Word PROVE (After(w) - 1) % 65536 = w
<1> DEFINE v == w + 1
<1>1. w \in Nat /\ w < 65536 /\ v = w + 1 /\ v \in Nat /\ v < 65536 + 65536
  BY Words
<1> HIDE DEF v
<1>2. v % 65536 = v \/ v % 65536 = v - 65536
  BY <1>1
<1>3. (v % 65536) - 1 = w \/ (v % 65536) - 1 = w - 65536
  BY <1>1, <1>2
<1>4. w % 65536 = w /\ (w - 65536) % 65536 = w
  BY <1>1
<1>5. ((v % 65536) - 1) % 65536 = w
  BY <1>3, <1>4
<1> QED BY <1>5 DEF v, After

\* The memory after the two pushes of JSR: the address of its last byte.
Called(m, last) ==
    SetCell(SetCell(m.ram, Top(m.sp), High(last)), Top(Down(m.sp)), Low(last))

\* JSR goes to its operand, and leaves the address of its last byte on the stack.
LEMMA JsrStands ==
  ASSUME NEW m \in CPUs
  PROVE  Stands(instr_jsr(m), Called(m, After(m.pc)), Down(Down(m.sp)), ReadWord(m, m.pc), m.f)
<1> DEFINE m1 == fetchops(m)
           last == (m1.pc - 1) % 65536
           q == [m1 EXCEPT !.pc = last]
           q0 == cycle(q)
           q1 == push(q0, High(last))
           q2 == push(q1, Low(last))
<1>1. /\ m1 \in CPUs /\ m1.ram = m.ram /\ m1.sp = m.sp /\ m1.pc = After(After(m.pc)) /\ m1.f = m.f
      /\ m1.low = Read(m, m.pc) /\ m1.high = Read(m, After(m.pc))
  BY OperandsStand, Zenon DEF Stands
<1>2. instr_jsr(m) = last_cycle([q2 EXCEPT !.pc = full(q2)])
  BY DEF instr_jsr
<1> HIDE DEF m1
<1>3. last = After(m.pc) /\ last \in Word
  <2>1. After(m.pc) \in Word
    BY Fields, NextPc DEF After
  <2> QED BY <1>1, <2>1, OneBack
<1> HIDE DEF last
<1>4. High(last) \in Byte /\ Low(last) \in Byte
  BY <1>3, Halves
<1>5. Stands(q, m1.ram, m1.sp, last, m1.f)
  BY <1>1, <1>3, PutStands
<1>6. q.low = m1.low /\ q.high = m1.high
  BY <1>1, Zenon DEF CPUs, CPUsWith
<1> HIDE DEF q
<1>7. q \in CPUs /\ q.ram = m.ram /\ q.sp = m.sp /\ q.f = m.f
  BY <1>1, <1>5 DEF Stands
<1>8. q0 \in CPUs /\ q0.ram = m.ram /\ q0.sp = m.sp /\ q0.f = m.f
  BY <1>7, CycleStands DEF Stands
<1>9. q0.low = m1.low /\ q0.high = m1.high
  BY <1>6, <1>7, Zenon DEF cycle, CPUs, CPUsWith
<1> HIDE DEF q0
<1>10. /\ q1 \in CPUs /\ q1.ram = SetCell(q0.ram, Top(q0.sp), High(last))
       /\ q1.sp = Down(q0.sp) /\ q1.f = q0.f
  <2>1. Stands(q1, SetCell(q0.ram, Top(q0.sp), High(last)), Down(q0.sp), q0.pc, q0.f)
    BY <1>4, <1>8, PushStands, Zenon
  <2> QED BY <2>1, Zenon DEF Stands
<1>11. q1.low = m1.low /\ q1.high = m1.high
  BY <1>4, <1>8, <1>9, PushKeeps, Zenon
<1> HIDE DEF q1
<1>12. /\ q2 \in CPUs /\ q2.ram = SetCell(q1.ram, Top(q1.sp), Low(last))
       /\ q2.sp = Down(q1.sp) /\ q2.f = q1.f
  <2>1. Stands(q2, SetCell(q1.ram, Top(q1.sp), Low(last)), Down(q1.sp), q1.pc, q1.f)
    BY <1>4, <1>10, PushStands, Zenon
  <2> QED BY <2>1, Zenon DEF Stands
<1>13. q2.low = m1.low /\ q2.high = m1.high
  BY <1>4, <1>10, <1>11, PushKeeps, Zenon
<1> HIDE DEF q2
<1>14. q2.ram = Called(m, After(m.pc)) /\ q2.sp = Down(Down(m.sp)) /\ q2.f = m.f
  BY <1>3, <1>8, <1>10, <1>12, Zenon DEF Called
<1>15. full(q2) = ReadWord(m, m.pc)
  BY <1>1, <1>13 DEF full, ReadWord, After
<1> DEFINE w == full(q2)
           o == [q2 EXCEPT !.pc = w]
<1>16. w \in Word
  BY <1>12, FullIsWord
<1> HIDE DEF w
<1>17. Stands(o, q2.ram, q2.sp, w, q2.f)
  BY <1>12, <1>16, PutStands
<1> HIDE DEF o
<1>18. Stands(last_cycle(o), q2.ram, q2.sp, w, q2.f)
  BY <1>17, PollStands DEF Stands
<1>19. instr_jsr(m) = last_cycle(o)
  BY <1>2 DEF o, w
<1> QED BY <1>14, <1>15, <1>18, <1>19 DEF w

\* r with x, y and z written to the cells a, b and c.
Holds(q, r, a, x, b, y, c, z) ==
    /\ Cell(q, a, 0) = x /\ Cell(q, b, 0) = y /\ Cell(q, c, 0) = z
    /\ DOMAIN q = DOMAIN r \cup {a, b, c}
    /\ \A d : d \notin {a, b, c} => Cell(q, d, 0) = Cell(r, d, 0)

\* What is written to different cells is read back from each, and no other cell changes.
LEMMA ReadBack ==
  ASSUME NEW r, NEW a, NEW x, NEW b, NEW y, NEW c, NEW z, a # b, a # c, b # c
  PROVE  Holds(SetCell(SetCell(SetCell(r, a, x), b, y), c, z), r, a, x, b, y, c, z)
BY DEF Cell, SetCell, Holds

-------------------------------------------------------------------------------
(* Returns *)

\* RTI pulls the flags and then the pc; it clears the break flag.
LEMMA RtiStands ==
  ASSUME NEW m \in CPUs, NEW d, d = Cell(m.ram, Top(Up(m.sp)), 0),
         NEW l, l = Cell(m.ram, Top(Up(Up(m.sp))), 0),
         NEW h, h = Cell(m.ram, Top(Up(Up(Up(m.sp)))), 0)
  PROVE  Stands(instr_rti(m), m.ram, Up(Up(Up(m.sp))), l + 256 * h,
                [ToFlags(d) EXCEPT !.breakf = FALSE])
<1> DEFINE n == cycle(cycle(m))
           p == pull(n)
           g == [ToFlags(d) EXCEPT !.breakf = FALSE]
           q == [p.m EXCEPT !.f = g]
<1>1. n \in CPUs /\ n.ram = m.ram /\ n.sp = m.sp
  BY CycleStands DEF Stands
<1>2. instr_rti(m) = last_cycle(PullPC([p.m EXCEPT !.f = [ToFlags(p.d) EXCEPT !.breakf = FALSE]]))
  BY DEF instr_rti
<1> HIDE DEF n
<1>3. /\ p.m \in CPUs /\ p.m.ram = m.ram /\ p.m.sp = Up(m.sp) /\ p.d = d
  BY <1>1, PullStands DEF Stands
<1> HIDE DEF p
<1>4. g \in FlagSets
  BY ByteFlags, Zenon DEF FlagSets
<1>5. instr_rti(m) = last_cycle(PullPC(q))
  BY <1>2, <1>3
<1> HIDE DEF g
<1>6. q \in CPUs /\ q.ram = m.ram /\ q.sp = Up(m.sp) /\ q.f = g
  BY <1>3, <1>4, Zenon DEF CPUs, CPUsWith
<1> HIDE DEF q
<1>7. Stands(PullPC(q), q.ram, Up(Up(q.sp)), l + 256 * h, q.f)
  BY <1>6, PullPCStands, SMTT(30)
<1>8. Stands(last_cycle(PullPC(q)), q.ram, Up(Up(q.sp)), l + 256 * h, q.f)
  BY <1>7, PollStands DEF Stands
<1> QED BY <1>5, <1>6, <1>8 DEF g

\* The flags that are pushed are the flags that are pulled.
LEMMA FlagsBack == ASSUME NEW f \in FlagSets PROVE ToFlags(ToByte(f)) = f
<1>1. /\ f.carry \in BOOLEAN /\ f.zero \in BOOLEAN /\ f.intdis \in BOOLEAN
      /\ f.decimal \in BOOLEAN /\ f.breakf \in BOOLEAN /\ f.unused \in BOOLEAN
      /\ f.ov \in BOOLEAN /\ f.neg \in BOOLEAN
  BY Zenon DEF FlagSets
<1>2. f = [carry |-> f.carry, zero |-> f.zero, intdis |-> f.intdis, decimal |-> f.decimal,
           breakf |-> f.breakf, unused |-> f.unused, ov |-> f.ov, neg |-> f.neg]
  BY DEF FlagSets
<1> DEFINE s == ToByte(f)
           a == Bit(f.carry)
           b == Bit(f.zero)
           c == Bit(f.intdis)
           d == Bit(f.decimal)
           e == Bit(f.breakf)
           g == Bit(f.unused)
           h == Bit(f.ov)
           i == Bit(f.neg)
<1>3. s = a + 2 * b + 4 * c + 8 * d + 16 * e + 32 * g + 64 * h + 128 * i
  BY DEF ToByte
<1>4. /\ a \in {0, 1} /\ b \in {0, 1} /\ c \in {0, 1} /\ d \in {0, 1}
      /\ e \in {0, 1} /\ g \in {0, 1} /\ h \in {0, 1} /\ i \in {0, 1}
  BY BitIs
<1>5. ASSUME NEW p \in BOOLEAN, NEW n, IsSet(s, n) <=> Bit(p) = 1 PROVE IsSet(s, n) = p
  <2>1. Bit(p) = 1 <=> p
    BY DEF Bit
  <2>2. IsSet(s, n) \in BOOLEAN
    BY Zenon DEF IsSet
  <2> HIDE DEF s
  <2> QED BY <1>5, <2>1, <2>2, Zenon
<1> HIDE DEF s, a, b, c, d, e, g, h, i
<1>6. /\ IsSet(s, 1) <=> a = 1
      /\ IsSet(s, 2) <=> b = 1
      /\ IsSet(s, 4) <=> c = 1
      /\ IsSet(s, 8) <=> d = 1
      /\ IsSet(s, 16) <=> e = 1
      /\ IsSet(s, 32) <=> g = 1
      /\ IsSet(s, 64) <=> h = 1
      /\ IsSet(s, 128) <=> i = 1
  BY <1>3, <1>4 DEF IsSet
<1>7. IsSet(s, 1) = f.carry /\ IsSet(s, 2) = f.zero
  BY <1>1, <1>5, <1>6, SMTT(20) DEF a, b
<1>8. IsSet(s, 4) = f.intdis /\ IsSet(s, 8) = f.decimal
  BY <1>1, <1>5, <1>6, SMTT(20) DEF c, d
<1>9. IsSet(s, 16) = f.breakf /\ IsSet(s, 32) = f.unused
  BY <1>1, <1>5, <1>6, SMTT(20) DEF e, g
<1>10. IsSet(s, 64) = f.ov /\ IsSet(s, 128) = f.neg
  BY <1>1, <1>5, <1>6, SMTT(20) DEF h, i
<1>11. ToFlags(s) = f
  BY <1>2, <1>7, <1>8, <1>9, <1>10 DEF ToFlags
<1> QED BY <1>11 DEF s

\* The halves of a word make it up again.
LEMMA HalvesJoin == ASSUME NEW w \in Word PROVE Low(w) + 256 * High(w) = w
<1>1. w \in Nat /\ w < 65536
  BY Words
<1>2. w = 256 * (w \div 256) + (w % 256) /\ w \div 256 \in Nat /\ w \div 256 < 256
  BY <1>1
<1>3. (w \div 256) % 256 = w \div 256
  BY <1>2
<1> DEFINE q == w \div 256
           r == w % 256
<1>4. Low(w) = r /\ High(w) = q
  BY <1>3 DEF Low, High
<1>5. w = 256 * q + r /\ q \in Nat /\ r \in Nat
  BY <1>1, <1>2
<1> HIDE DEF q, r
<1> QED BY <1>4, <1>5

\* The memory after the three pushes of interrupt(): pc, the high byte first, and the flags.
Stacked(m) ==
    SetCell(SetCell(SetCell(m.ram, Top(m.sp), High(m.pc)), Top(Down(m.sp)), Low(m.pc)),
            Top(Down(Down(m.sp))), ToByte(m.f))

\* interrupt() leaves what it pushed on the stack, and changes no other cell.
LEMMA InterruptStacks ==
  ASSUME NEW m \in CPUs, NEW c \in Causes, NEW n, n = interrupt(m, c)
  PROVE  n \in CPUs /\ n.ram = Stacked(m) /\ n.sp = Down(Down(Down(m.sp)))
<1> DEFINE h == High(m.pc)
           l == Low(m.pc)
           g == ToByte(m.f)
           p == push(push(push(cycle(m), h), l), g)
           v == Vector(m)
           s == Serve(p, m.resetpending, m.resetpending \/ m.nmipending, v, c, m.f.breakf)
<1>1. n = Jump(s, v)
  BY Zenon DEF interrupt, Jump, PutLow, PutHigh, Serve, Vector
<1>2. h \in Byte /\ l \in Byte /\ g \in Byte
  BY Fields, Halves, FlagsByte, Zenon
<1> HIDE DEF h, l, g, v
<1> DEFINE q0 == cycle(m)
           q1 == push(q0, h)
           q2 == push(q1, l)
<1>p. p = push(q2, g)
  OBVIOUS
<1> HIDE DEF p
<1>3. q0 \in CPUs /\ q0.ram = m.ram /\ q0.sp = m.sp
  BY CycleStands, Zenon DEF Stands
<1> HIDE DEF q0
<1>4. q1 \in CPUs /\ q1.ram = SetCell(q0.ram, Top(q0.sp), h) /\ q1.sp = Down(q0.sp)
  <2>1. Stands(q1, SetCell(q0.ram, Top(q0.sp), h), Down(q0.sp), q0.pc, q0.f)
    BY <1>2, <1>3, PushStands, Zenon
  <2> QED BY <2>1, Zenon DEF Stands
<1> HIDE DEF q1
<1>5. /\ q2 \in CPUs /\ q2.ram = SetCell(q1.ram, Top(q1.sp), l) /\ q2.sp = Down(q1.sp)
  <2>1. Stands(q2, SetCell(q1.ram, Top(q1.sp), l), Down(q1.sp), q1.pc, q1.f)
    BY <1>2, <1>4, PushStands, Zenon
  <2> QED BY <2>1, Zenon DEF Stands
<1> HIDE DEF q2
<1>6. /\ p \in CPUs /\ p.ram = SetCell(q2.ram, Top(q2.sp), g) /\ p.sp = Down(q2.sp)
  <2>1. Stands(p, SetCell(q2.ram, Top(q2.sp), g), Down(q2.sp), q2.pc, q2.f)
    BY <1>2, <1>5, <1>p, PushStands, Zenon
  <2> QED BY <2>1, Zenon DEF Stands
<1>7. p.ram = Stacked(m) /\ p.sp = Down(Down(Down(m.sp)))
  BY <1>3, <1>4, <1>5, <1>6, Zenon DEF Stacked, h, l, g
<1>8. s.ram = p.ram /\ s.sp = p.sp
  BY <1>6, Zenon DEF Serve, CPUs, CPUsWith
<1>9. s \in CPUs
  <2>1. /\ m.resetpending \in BOOLEAN /\ (m.resetpending \/ m.nmipending) \in BOOLEAN
        /\ m.f.breakf \in BOOLEAN
    BY FlagFields, Zenon
  <2>2. v \in Vectors
    BY VectorIs, Zenon DEF v
  <2>3. Served(p, s, m.resetpending, m.resetpending \/ m.nmipending, v, c, m.f.breakf)
    BY <1>6, <2>1, <2>2, ServeSets, Zenon
  <2> HIDE DEF s
  <2> QED BY <2>3, Zenon DEF Served
<1> HIDE DEF s
<1>10. n \in CPUs
  BY InterruptEnters, Zenon DEF Enters
<1>11. n.ram = s.ram /\ n.sp = s.sp
  <2> DEFINE b == Read(s, v)
             m1 == readmem(s, v)
             half == PutLow(m1, b)
             d == Read(half, v + 1)
             m2 == readmem(half, v + 1)
  <2>1. v \in Nat /\ v + 1 \in Nat
    BY VectorIs, Zenon DEF v
  <2>2. n = PutHigh(m2, d)
    BY <1>1 DEF Jump
  <2>3. m1 \in CPUs /\ m1.ram = s.ram /\ m1.sp = s.sp /\ b \in Byte
    BY <1>9, <2>1, AccessStands, ReadIsByte, Zenon DEF Stands, readmem
  <2> HIDE DEF b, m1
  <2>4. half \in CPUs
    BY <2>3, PutDoes, Zenon DEF Does
  <2>5. half.ram = m1.ram /\ half.sp = m1.sp
    BY <2>3, Zenon DEF PutLow, CPUs, CPUsWith
  <2> HIDE DEF half
  <2>6. m2 \in CPUs /\ m2.ram = half.ram /\ m2.sp = half.sp
    BY <2>1, <2>4, AccessStands, Zenon DEF Stands, readmem
  <2> HIDE DEF m2, d
  <2>7. n.ram = m2.ram /\ n.sp = m2.sp
    BY <2>2, <2>6, Zenon DEF PutHigh, CPUs, CPUsWith
  <2> QED BY <2>3, <2>5, <2>6, <2>7
<1> QED BY <1>7, <1>8, <1>10, <1>11, SMTT(30)

\* An interrupt is undone by RTI, whatever the machine and wherever sp is, the wrap around
\* of the stack page included: pc, sp and all flags but the break flag are as before, and
\* every cell outside the stack page is.
THEOREM InterruptUndone ==
  ASSUME NEW m \in CPUs, NEW c \in Causes, NEW b, b = instr_rti(interrupt(m, c))
  PROVE  /\ b.pc = m.pc /\ b.sp = m.sp /\ b.f = [m.f EXCEPT !.breakf = FALSE]
         /\ DOMAIN b.ram \subseteq DOMAIN m.ram \cup (\h0100 .. \h01FF)
         /\ \A a : a \notin \h0100 .. \h01FF => Cell(b.ram, a, 0) = Cell(m.ram, a, 0)
<1> DEFINE n == interrupt(m, c)
           s1 == Down(m.sp)
           s2 == Down(s1)
           s3 == Down(s2)
           h == High(m.pc)
           l == Low(m.pc)
           g == ToByte(m.f)
           r3 == SetCell(SetCell(SetCell(m.ram, Top(m.sp), h), Top(s1), l), Top(s2), g)
<1>1. n \in CPUs /\ n.ram = r3 /\ n.sp = s3
  BY InterruptStacks, Zenon DEF Stacked
<1>2. m.sp \in Byte /\ m.pc \in Word /\ m.f \in FlagSets
  BY Fields
<1>a. s1 = Down(m.sp) /\ s2 = Down(s1) /\ s3 = Down(s2) /\ s2 = Down(Down(m.sp))
  OBVIOUS
<1>b. r3 = SetCell(SetCell(SetCell(m.ram, Top(m.sp), h), Top(s1), l), Top(s2), g)
  OBVIOUS
<1> HIDE DEF n, s1, s2, s3, h, l, g, r3
<1>c. s1 \in Byte /\ Up(s1) = m.sp /\ Top(m.sp) # Top(s1) /\ Top(m.sp) # Top(s2)
  BY <1>2, <1>a, UpDown, Zenon
<1>d. s2 \in Byte /\ Up(s2) = s1 /\ Top(s1) # Top(s2)
  BY <1>a, <1>c, UpDown, Zenon
<1>3. Up(s3) = s2
  BY <1>a, <1>d, UpDown, ZenonT(60)
<1>4. /\ Top(m.sp) \in \h0100 .. \h01FF /\ Top(s1) \in \h0100 .. \h01FF
      /\ Top(s2) \in \h0100 .. \h01FF
  BY <1>2, <1>c, <1>d, TopIs
<1>5. /\ Cell(r3, Top(m.sp), 0) = h /\ Cell(r3, Top(s1), 0) = l /\ Cell(r3, Top(s2), 0) = g
      /\ DOMAIN r3 = DOMAIN m.ram \cup {Top(m.sp), Top(s1), Top(s2)}
      /\ \A d : d \notin {Top(m.sp), Top(s1), Top(s2)} => Cell(r3, d, 0) = Cell(m.ram, d, 0)
  <2> DEFINE a1 == Top(m.sp)
             a2 == Top(s1)
             a3 == Top(s2)
  <2>1. /\ a1 # a2 /\ a1 # a3 /\ a2 # a3
        /\ r3 = SetCell(SetCell(SetCell(m.ram, a1, h), a2, l), a3, g)
    BY <1>b, <1>c, <1>d
  <2> HIDE DEF a1, a2, a3
  <2>2. /\ Cell(r3, a1, 0) = h /\ Cell(r3, a2, 0) = l /\ Cell(r3, a3, 0) = g
        /\ DOMAIN r3 = DOMAIN m.ram \cup {a1, a2, a3}
        /\ \A d : d \notin {a1, a2, a3} => Cell(r3, d, 0) = Cell(m.ram, d, 0)
    <3>1. Holds(r3, m.ram, a1, h, a2, l, a3, g)
      BY <2>1, ReadBack
    <3> QED BY <3>1, Zenon DEF Holds
  <2> QED BY <2>2 DEF a1, a2, a3
<1>10. Stands(b, r3, m.sp, l + 256 * h, [ToFlags(g) EXCEPT !.breakf = FALSE])
  <2>1. Up(n.sp) = s2 /\ Up(Up(n.sp)) = s1 /\ Up(Up(Up(n.sp))) = m.sp
    BY <1>1, <1>3, <1>c, <1>d
  <2>2. /\ g = Cell(n.ram, Top(Up(n.sp)), 0) /\ l = Cell(n.ram, Top(Up(Up(n.sp))), 0)
        /\ h = Cell(n.ram, Top(Up(Up(Up(n.sp)))), 0)
    BY <1>1, <1>5, <2>1
  <2>3. Stands(instr_rti(n), n.ram, Up(Up(Up(n.sp))), l + 256 * h,
               [ToFlags(g) EXCEPT !.breakf = FALSE])
    BY <1>1, <2>2, RtiStands
  <2> QED BY <1>1, <2>1, <2>3 DEF n
<1>11. l + 256 * h = m.pc /\ ToFlags(g) = m.f
  BY <1>2, HalvesJoin, FlagsBack DEF l, h, g
<1>12. b.ram = r3 /\ b.pc = m.pc /\ b.sp = m.sp /\ b.f = [m.f EXCEPT !.breakf = FALSE]
  BY <1>10, <1>11, Zenon DEF Stands
<1> DEFINE Page == \h0100 .. \h01FF
<1>13. {Top(m.sp), Top(s1), Top(s2)} \subseteq Page
  BY <1>4, ZenonT(60)
<1> HIDE DEF Page
<1>14. DOMAIN b.ram \subseteq DOMAIN m.ram \cup Page
  BY <1>5, <1>12, <1>13
<1>15. \A a : a \notin Page => Cell(b.ram, a, 0) = Cell(m.ram, a, 0)
  BY <1>5, <1>12, <1>13
<1> QED BY <1>12, <1>14, <1>15 DEF Page

\* A call is undone by RTS: it goes on after the two operand bytes of the JSR, with the
\* stack pointer and the flags that the JSR found.
THEOREM CallUndone ==
  ASSUME NEW m \in CPUs, NEW b, b = instr_rts(instr_jsr(m))
  PROVE  b.pc = After(After(m.pc)) /\ b.sp = m.sp /\ b.f = m.f
<1> DEFINE n == instr_jsr(m)
           last == After(m.pc)
           l == Low(last)
           h == High(last)
           s1 == Down(m.sp)
           s2 == Down(s1)
           r == SetCell(SetCell(m.ram, Top(m.sp), h), Top(s1), l)
<1>1. n \in CPUs /\ n.ram = r /\ n.sp = s2 /\ n.f = m.f
  BY JsrStands, Zenon DEF Stands, Called
<1>2. m.sp \in Byte /\ last \in Word
  BY Fields, NextPc DEF After
<1>3. l + 256 * h = last
  BY <1>2, HalvesJoin
<1> HIDE DEF n, last, l, h
<1>4. s1 \in Byte /\ Up(s1) = m.sp /\ Top(m.sp) # Top(s1)
  BY <1>2, UpDown
<1>5. r = SetCell(SetCell(m.ram, Top(m.sp), h), Top(s1), l) /\ s2 = Down(s1)
  OBVIOUS
<1> HIDE DEF s1, s2, r
<1>6. Up(s2) = s1
  BY <1>4, <1>5, UpDown
<1>7. Cell(r, Top(m.sp), 0) = h /\ Cell(r, Top(s1), 0) = l
  <2> DEFINE x == Top(m.sp)
             y == Top(s1)
             z == m.ram
  <2>1. x # y /\ r = SetCell(SetCell(z, x, h), y, l)
    BY <1>4, <1>5
  <2> HIDE DEF x, y, z
  <2>2. Cell(r, x, 0) = h /\ Cell(r, y, 0) = l
    BY <2>1 DEF Cell, SetCell
  <2> QED BY <2>2 DEF x, y
<1>8. l = Cell(n.ram, Top(Up(n.sp)), 0) /\ h = Cell(n.ram, Top(Up(Up(n.sp))), 0)
  BY <1>1, <1>4, <1>6, <1>7
<1>9. Stands(instr_rts(n), n.ram, Up(Up(n.sp)), After(l + 256 * h), n.f)
  BY <1>1, <1>8, RtsStands
<1>10. b = instr_rts(n)
  BY DEF n
<1> QED BY <1>1, <1>3, <1>4, <1>6, <1>9, <1>10 DEF Stands, last

-------------------------------------------------------------------------------
(* The arithmetic of bytes *)

\* n has the accumulator and the flags of the sum s, v being the operand.
Sums(m, n, s, v) ==
    /\ n.acc = Low(s) /\ n.f.carry = (s >= 256) /\ n.f.ov = Overflow(m.acc, s, v)
    /\ n.f.zero = (Low(s) = 0) /\ n.f.neg = Sign(Low(s))

\* The fields that adc and sbc set.
LEMMA AdcSums ==
  ASSUME NEW m \in CPUs, NEW v \in Byte
  PROVE  /\ Sums(m, instr_adc(m, v), m.acc + v + Bit(m.f.carry), v)
         /\ Sums(m, instr_sbc(m, v), m.acc + (255 - v) + Bit(m.f.carry), v)
<1>1. ASSUME NEW s \in Int, NEW n,
        n = [ZeroNeg(m, s % 256) EXCEPT !.f.carry = s > \hFF,
                !.f.ov = Overflow(m.acc, s, v), !.acc = s % 256]
      PROVE Sums(m, n, s, v)
  <2> DEFINE r == s % 256
             c == s > 255
             o == Overflow(m.acc, s, v)
             z == r = 0
             g == Sign(r)
  <2>2. n = [[m EXCEPT !.f.zero = z, !.f.neg = g] EXCEPT !.f.carry = c, !.f.ov = o, !.acc = r]
    BY <1>1 DEF ZeroNeg
  <2>3. r = Low(s) /\ z = (r = 0) /\ g = Sign(r) /\ c = (s >= 256) /\ o = Overflow(m.acc, s, v)
    BY DEF Low
  <2> HIDE DEF r, c, o, z, g
  <2>4. n.acc = r /\ n.f.carry = c /\ n.f.ov = o /\ n.f.zero = z /\ n.f.neg = g
    BY <2>2, ZenonT(40) DEF CPUs, CPUsWith, FlagSets
  <2> QED BY <2>3, <2>4, Zenon DEF Sums
<1>2. m.acc + v + Bit(m.f.carry) \in Int /\ m.acc + (255 - v) + Bit(m.f.carry) \in Int
  BY Fields, Bytes, SMTT(30) DEF Bit
<1> QED BY <1>1, <1>2, ZenonT(60) DEF instr_adc, instr_sbc

\* What an instruction leaves, told without its machine: a number with the carry.
LEMMA Addition ==
  ASSUME NEW a \in Byte, NEW v \in Byte, NEW k \in {0, 1}, NEW s, s = a + v + k
  PROVE  /\ Low(s) + 256 * Bit(s >= 256) = s
         /\ Overflow(a, s, v) <=> int8(a) + int8(v) + k \notin -128 .. 127
<1>1. a \in Nat /\ a < 256 /\ v \in Nat /\ v < 256
  BY Bytes
<1>2. s \in Nat /\ s < 512 /\ (s < 256 => s % 256 = s) /\ (s >= 256 => s % 256 = s - 256)
  BY <1>1
<1>3. Sign(a) <=> a >= 128
  BY <1>1 DEF Sign
<1>4. Sign(v) <=> v >= 128
  BY <1>1 DEF Sign
<1>5. Sign(s) <=> (s >= 128 /\ s < 256) \/ s >= 384
  BY <1>2 DEF Sign
<1>6. Overflow(a, s, v) <=> (Sign(a) <=> ~Sign(s)) /\ (Sign(a) <=> Sign(v))
  <2>1. Sign(a) \in BOOLEAN /\ Sign(v) \in BOOLEAN /\ Sign(s) \in BOOLEAN
    BY DEF Sign
  <2> QED BY <2>1 DEF Overflow
<1>7. ASSUME NEW b \in Nat PROVE (b >= 128 => int8(b) = b - 256) /\ (b < 128 => int8(b) = b)
  BY DEF int8
<1>8. Overflow(a, s, v) <=> int8(a) + int8(v) + k \notin -128 .. 127
  <2> DEFINE t == int8(a) + int8(v) + k
  <2>1. CASE a >= 128 /\ v >= 128
    <3>1. t = s - 512 /\ s >= 256
      BY <1>1, <1>7, <2>1
    <3>2. Overflow(a, s, v) <=> s < 384
      BY <1>2, <1>3, <1>4, <1>5, <1>6, <2>1, <3>1
    <3> HIDE DEF t
    <3>3. t \notin -128 .. 127 <=> s < 384
      BY <1>2, <3>1
    <3> QED BY <3>2, <3>3, Zenon DEF t
  <2>2. CASE a >= 128 /\ v < 128
    <3>1. t = a - 256 + v + k
      BY <1>1, <1>7, <2>2
    <3>2. ~Overflow(a, s, v)
      BY <1>3, <1>4, <1>6, <2>2, <1>1
    <3> HIDE DEF t
    <3>3. t \in -128 .. 127
      BY <1>1, <2>2, <3>1
    <3> QED BY <3>2, <3>3, Zenon DEF t
  <2>3. CASE a < 128 /\ v >= 128
    <3>1. t = a + v - 256 + k
      BY <1>1, <1>7, <2>3
    <3>2. ~Overflow(a, s, v)
      BY <1>3, <1>4, <1>6, <2>3, <1>1
    <3> HIDE DEF t
    <3>3. t \in -128 .. 127
      BY <1>1, <2>3, <3>1
    <3> QED BY <3>2, <3>3, Zenon DEF t
  <2>4. CASE a < 128 /\ v < 128
    <3>1. t = s /\ s < 256
      BY <1>1, <1>7, <2>4
    <3>2. Overflow(a, s, v) <=> s >= 128
      BY <1>1, <1>2, <1>3, <1>4, <1>5, <1>6, <2>4, <3>1
    <3> HIDE DEF t
    <3>3. t \notin -128 .. 127 <=> s >= 128
      BY <1>2, <3>1
    <3> QED BY <3>2, <3>3, Zenon DEF t
  <2>5. (a >= 128 \/ a < 128) /\ (v >= 128 \/ v < 128)
    BY <1>1
  <2> QED BY <2>1, <2>2, <2>3, <2>4, <2>5, ZenonT(60)
<1>9. Low(s) + 256 * Bit(s >= 256) = s
  BY <1>2 DEF Low, Bit
<1> QED BY <1>8, <1>9, Zenon

\* The sum with the complement is the difference, the carry being the missing borrow.
LEMMA Subtraction ==
  ASSUME NEW a \in Byte, NEW v \in Byte, NEW k \in {0, 1}, NEW s, s = a + (255 - v) + k
  PROVE  Low(s) - 256 * Bit(~(s >= 256)) = a - v - (1 - k)
<1>1. a \in Nat /\ a < 256 /\ v \in Nat /\ v < 256
  BY Bytes
<1>2. s \in Nat /\ s < 512 /\ (s < 256 => s % 256 = s) /\ (s >= 256 => s % 256 = s - 256)
  BY <1>1
<1> QED BY <1>1, <1>2 DEF Low, Bit

\* A comparison subtracts without borrow.
LEMMA Comparison ==
  ASSUME NEW a \in Byte, NEW v \in Byte, NEW s, s = a + (255 - v) + 1
  PROVE  (a >= v <=> s >= 256) /\ (a - v) % 256 = Low(s)
<1>1. a \in Nat /\ a < 256 /\ v \in Nat /\ v < 256
  BY Bytes
<1>2. s = (a - v) + 256
  BY <1>1
<1>3. ASSUME NEW d \in Int PROVE (d + 256) % 256 = d % 256
  OBVIOUS
<1> QED BY <1>1, <1>2, <1>3 DEF Low

\* What was added is taken away, with the carry as the ninth bit.
LEMMA Undone ==
  ASSUME NEW a \in Byte, NEW v \in Byte, NEW k \in {0, 1},
         NEW s, s = a + v + k, NEW t, t = Low(s) + (255 - v) + (1 - k)
  PROVE  Low(t) = a /\ (t >= 256 <=> ~(s >= 256))
<1>1. a \in Nat /\ a < 256 /\ v \in Nat /\ v < 256
  BY Bytes
<1>2. s \in Nat /\ s < 512 /\ (s < 256 => s % 256 = s) /\ (s >= 256 => s % 256 = s - 256)
  BY <1>1
<1>3. (s < 256 => t = a + 256) /\ (s >= 256 => t = a)
  BY <1>1, <1>2 DEF Low
<1>4. a % 256 = a /\ (a + 256) % 256 = a
  BY <1>1
<1> QED BY <1>1, <1>2, <1>3, <1>4 DEF Low

\* The byte two that rol gives and the byte half that ror gives, of v and a carry k, have
\* the nine bits of v and k, turned.
Turned(v, k, two, half) ==
    /\ two \div 2 + 128 * Bit(Sign(v)) = v /\ two % 2 = k
    /\ (2 * half + (v % 2)) % 256 = v
    /\ Sign(half) <=> k = 1

\* The bits that rol and ror turn.
LEMMA Rotation ==
  ASSUME NEW v \in Byte, NEW k \in {0, 1}
  PROVE  Turned(v, k, (2 * v + k) % 256, v \div 2 + 128 * k)
<1>1. v \in Nat /\ v < 256 /\ v % 256 = v
  BY Bytes
<1>2. /\ v < 128 => (2 * v + k) % 256 = 2 * v + k
      /\ (v >= 128 => (2 * v + k) % 256 = 2 * (v - 128) + k)
  <2> DEFINE w == 2 * v + k
  <2>1. /\ w \in Nat /\ w < 512 /\ (v < 128 => w < 256)
        /\ v >= 128 => w >= 256 /\ w - 256 = 2 * (v - 128) + k
    BY <1>1
  <2> HIDE DEF w
  <2>2. (w < 256 => w % 256 = w) /\ (w >= 256 => w % 256 = w - 256)
    BY <2>1
  <2>3. (v < 128 => w % 256 = w) /\ (v >= 128 => w % 256 = 2 * (v - 128) + k)
    BY <1>1, <2>1, <2>2
  <2> QED BY <2>3 DEF w
<1>3. ASSUME NEW n \in Nat PROVE (2 * n + k) \div 2 = n /\ (2 * n + k) % 2 = k
  OBVIOUS
<1>4. v = 2 * (v \div 2) + (v % 2) /\ v \div 2 \in Nat /\ v \div 2 < 128 /\ v % 2 \in {0, 1}
  BY <1>1
<1>5. v \div 2 + 128 * k \in Nat /\ v \div 2 + 128 * k < 256
  <2> DEFINE h == v \div 2
  <2>1. h \in Nat /\ h < 128
    BY <1>4
  <2> HIDE DEF h
  <2>2. h + 128 * k \in Nat /\ h + 128 * k < 256
    BY <2>1
  <2> QED BY <2>2 DEF h
<1>6. (v \div 2 + 128 * k) % 256 = v \div 2 + 128 * k
  BY <1>5
<1>7. 2 * (v \div 2 + 128 * k) + (v % 2) = v + 256 * k
  BY <1>4
<1>8. (v + 256 * k) % 256 = v
  BY <1>1
<1> QED BY <1>1, <1>2, <1>3, <1>4, <1>6, <1>7, <1>8, SMTT(30) DEF Turned, Bit, Sign

\* The flags that a comparison sets.
LEMMA CompareSets ==
  ASSUME NEW m \in CPUs, NEW r, NEW v, NEW n, n = Compare(m, r, v)
  PROVE  /\ n.f.carry = (r >= v) /\ n.f.zero = ((r - v) % 256 = 0)
         /\ n.f.neg = Sign((r - v) % 256)
<1> DEFINE d == (r - v) % 256
           z == d = 0
           g == Sign(d)
           c == r >= v
<1>1. n = [[m EXCEPT !.f.zero = z, !.f.neg = g] EXCEPT !.f.carry = c]
  BY DEF Compare, ZeroNeg
<1> HIDE DEF d, z, g, c
<1>2. n.f.carry = c /\ n.f.zero = z /\ n.f.neg = g
  <2>1. n.f = [[m.f EXCEPT !.zero = z, !.neg = g] EXCEPT !.carry = c]
    BY <1>1, Zenon DEF CPUs, CPUsWith
  <2>2. m.f \in FlagSets
    BY Fields
  <2> QED BY <2>1, <2>2, Zenon DEF FlagSets
<1> QED BY <1>2, Zenon DEF c, z, g, d

\* The byte and the carry that rol and ror give.
LEMMA RotateSets ==
  ASSUME NEW m \in CPUs, NEW v \in Byte
  PROVE  /\ instr_rol(m, v).m \in CPUs /\ instr_ror(m, v).m \in CPUs
         /\ instr_rol(m, v).v = (2 * v + Bit(m.f.carry)) % 256
         /\ instr_ror(m, v).v = v \div 2 + 128 * Bit(m.f.carry)
         /\ instr_rol(m, v).v \in Byte /\ instr_ror(m, v).v \in Byte
         /\ instr_rol(m, v).m.f.carry = Sign(v) /\ instr_ror(m, v).m.f.carry = (v % 2 = 1)
<1>1. Modifies("rol", m, v) = instr_rol(m, v) /\ Modifies("ror", m, v) = instr_ror(m, v)
  BY DEF Modifies
<1>2. /\ instr_rol(m, v).m \in CPUs /\ instr_ror(m, v).m \in CPUs
      /\ instr_rol(m, v).v \in Byte /\ instr_ror(m, v).v \in Byte
  BY <1>1, ModifiesDoes DEF Does, ModifyNames
<1>3. ASSUME NEW c, NEW r PROVE /\ Result([m EXCEPT !.f.carry = c], r).v = r
                               /\ Result([m EXCEPT !.f.carry = c], r).m.f.carry = c
  <2>1. ASSUME NEW z, NEW g, NEW n, n = [[m EXCEPT !.f.carry = c] EXCEPT !.f.zero = z, !.f.neg = g]
        PROVE  n.f.carry = c
    BY <2>1, Zenon DEF CPUs, CPUsWith, FlagSets
  <2> DEFINE z == r = 0
             g == Sign(r)
             n == [[m EXCEPT !.f.carry = c] EXCEPT !.f.zero = z, !.f.neg = g]
  <2>2. Result([m EXCEPT !.f.carry = c], r) = [m |-> n, v |-> r]
    BY DEF Result, ZeroNeg
  <2>3. n.f.carry = c
    <3> HIDE DEF z, g
    <3> QED BY <2>1, Zenon
  <2> HIDE DEF n
  <2> QED BY <2>2, <2>3
<1> DEFINE s == Sign(v)
           o == v % 2 = 1
           a == (2 * v + Bit(m.f.carry)) % 256
           b == v \div 2 + 128 * Bit(m.f.carry)
<1>4. /\ instr_rol(m, v) = Result([m EXCEPT !.f.carry = s], a)
      /\ instr_ror(m, v) = Result([m EXCEPT !.f.carry = o], b)
  BY DEF instr_rol, instr_ror
<1>5. /\ instr_rol(m, v).v = a /\ instr_ror(m, v).v = b
      /\ instr_rol(m, v).m.f.carry = s /\ instr_ror(m, v).m.f.carry = o
  <2> HIDE DEF s, o, a, b
  <2>1. /\ Result([m EXCEPT !.f.carry = s], a).v = a
        /\ Result([m EXCEPT !.f.carry = s], a).m.f.carry = s
        /\ Result([m EXCEPT !.f.carry = o], b).v = b
        /\ Result([m EXCEPT !.f.carry = o], b).m.f.carry = o
    BY <1>3, Zenon
  <2> QED BY <1>4, <2>1
<1> QED BY <1>2, <1>5, Zenon

\* asl and lsr let a 0 in.
LEMMA ShiftsRotate ==
  ASSUME NEW m \in CPUs, NEW v \in Byte, NEW k, k = [m EXCEPT !.f.carry = FALSE]
  PROVE  instr_asl(m, v) = instr_rol(k, v) /\ instr_lsr(m, v) = instr_ror(k, v)
<1>1. ASSUME NEW c PROVE [k EXCEPT !.f.carry = c] = [m EXCEPT !.f.carry = c]
  BY <1>1, Zenon DEF CPUs, CPUsWith, FlagSets
<1>2. k.f.carry = FALSE
  BY Zenon DEF CPUs, CPUsWith, FlagSets
<1>3. (2 * v + Bit(k.f.carry)) % 256 = (2 * v) % 256 /\ v \div 2 + 128 * Bit(k.f.carry) = v \div 2
  BY <1>2, Bytes DEF Bit
<1> QED BY <1>1, <1>3, Zenon DEF instr_asl, instr_rol, instr_lsr, instr_ror

\* A machine with the carry set is one, and nothing else of it has changed.
LEMMA CarrySets ==
  ASSUME NEW m \in CPUs, NEW c \in BOOLEAN, NEW n, n = [m EXCEPT !.f.carry = c]
  PROVE  n \in CPUs /\ n.f.carry = c /\ n.acc = m.acc
<1>1. n \in CPUs
  BY SetCarry DEF Does
<1>2. n.f.carry = c /\ n.acc = m.acc
  BY Zenon DEF CPUs, CPUsWith, FlagSets
<1> QED BY <1>1, <1>2

\* The opcode 20 is the JSR of the switch.
LEMMA JsrDecodes == Decode[\h20].type = "impld" /\ Decode[\h20].name = "jsr"
<1> DEFINE id == \h20
           In(table) == {n \in DOMAIN table : \E k \in DOMAIN table[n] : table[n][k] = id}
           Nm(table) == CHOOSE n \in In(table) : TRUE
           Row(type, table) ==
               [type |-> type, name |-> Nm(table),
                mode |-> CHOOSE k \in DOMAIN table[Nm(table)] : table[Nm(table)][k] = id]
           Named(type, table) ==
               [type |-> type, name |-> CHOOSE n \in DOMAIN table : table[n][1] = id,
                mode |-> "impld"]
           Has(table) == \E n \in DOMAIN table : table[n][1] = id
           Impld == [type |-> "impld", mode |-> "impld",
                     name |-> CHOOSE n \in DOMAIN INSTR_IMPLD : INSTR_IMPLD[n] = id]
           Illegal == [type |-> "unknown", name |-> "[Unknown]", mode |-> "none"]
<1>1. Decode[id] =
        CASE In(INSTR_AMODE_read) # {}   -> Row("read", INSTR_AMODE_read)
          [] In(INSTR_AMODE_modify) # {} -> Row("modify", INSTR_AMODE_modify)
          [] In(INSTR_WRITE) # {}        -> Row("write", INSTR_WRITE)
          [] Has(Branches)  -> Named("branch", Branches)
          [] Has(Flags)     -> Named("flag", Flags)
          [] Has(Transfers) -> Named("transfer", Transfers)
          [] \E n \in DOMAIN INSTR_IMPLD : INSTR_IMPLD[n] = id -> Impld
          [] OTHER -> Illegal
  <2>1. id \in Byte
    BY Bytes, SMTT(30)
  <2> HIDE DEF id
  <2> QED BY <2>1 DEF Decode
<1>2. In(INSTR_AMODE_read) = {}
  BY SMTT(30) DEF INSTR_AMODE_read
<1>3. In(INSTR_AMODE_modify) = {}
  BY SMTT(30) DEF INSTR_AMODE_modify
<1>4. In(INSTR_WRITE) = {}
  BY DEF INSTR_WRITE
<1>5. ~Has(Branches) /\ ~Has(Flags) /\ ~Has(Transfers)
  <2>1. ~Has(Branches)
    BY DEF Branches
  <2>2. ~Has(Flags)
    BY DEF Flags
  <2>3. ~Has(Transfers)
    BY DEF Transfers
  <2> QED BY <2>1, <2>2, <2>3, SMTT(30)
<1>6. /\ Impld.type = "impld" /\ Impld.name = "jsr"
      /\ \E n \in DOMAIN INSTR_IMPLD : INSTR_IMPLD[n] = id
  <2>1. \A n \in DOMAIN INSTR_IMPLD : INSTR_IMPLD[n] = id <=> n = "jsr"
    BY DEF INSTR_IMPLD
  <2>2. "jsr" \in DOMAIN INSTR_IMPLD
    BY DEF INSTR_IMPLD
  <2> QED BY <2>1, <2>2, SMTT(30)
<1> HIDE DEF In, Row, Named, Has, Impld, Illegal
<1>7. Decode[id] = Impld
  BY <1>1, <1>2, <1>3, <1>4, <1>5, <1>6, SMTT(30)
<1> QED BY <1>6, <1>7

-------------------------------------------------------------------------------
(* The references of InstructionFacts: arithmetic *)

\* adc, sbc, the comparisons and the rotations do the arithmetic of bytes that Calculates
\* spells out, for all 256 values of both operands and both of the carry.
THEOREM Exact ==
  ASSUME NEW a \in Byte, NEW v \in Byte, NEW c \in BOOLEAN
  PROVE  Calculates(a, v, c)
<1>b. (~c) \in BOOLEAN
  BY Zenon
<1> DEFINE m   == [PowerOn(<< >>) EXCEPT !.acc = a, !.f.carry = c]
           sum == instr_adc(m, v)
           dif == instr_sbc(m, v)
           cmp == instr_cmp(m, v)
           set == [m EXCEPT !.f.carry = TRUE]
           sub == instr_sbc(set, v)
           rol == instr_rol(m, v)
           ror == instr_ror(m, v)
           kept == [sum EXCEPT !.f.carry = ~c]
           less == instr_sbc(kept, v)
           clear == [m EXCEPT !.f.carry = FALSE]
           k == Bit(c)
           s == a + v + k
           d == a + (255 - v) + k
           t == Low(s) + (255 - v) + (1 - k)
           e == a + (255 - v) + 1
<1>1. m \in CPUs /\ m.acc = a /\ m.f.carry = c
  <2>1. << >> \in Memories(Word)
    <3>1. << >> \in [{} -> Byte] /\ {} \in SUBSET Word
      OBVIOUS
    <3> QED BY <3>1, Zenon DEF Memories
  <2> DEFINE p == PowerOn(<< >>)
  <2>2. p \in CPUs
    BY <2>1, PowerOnIs, Zenon
  <2> HIDE DEF p
  <2>3. [p EXCEPT !.acc = a] \in CPUs
    BY <2>2, SetAcc DEF Does
  <2>4. [[p EXCEPT !.acc = a] EXCEPT !.f.carry = c] \in CPUs
    BY <2>3, SetCarry, Zenon DEF Does
  <2>5. /\ [[p EXCEPT !.acc = a] EXCEPT !.f.carry = c].acc = a
        /\ [[p EXCEPT !.acc = a] EXCEPT !.f.carry = c].f.carry = c
    BY <2>2, Zenon DEF CPUs, CPUsWith, FlagSets
  <2> QED BY <2>4, <2>5 DEF p
<1> HIDE DEF m
<1>2. k \in {0, 1} /\ Bit(~c) = 1 - k
  BY DEF Bit
<1>3. Sums(m, sum, s, v) /\ Sums(m, dif, d, v)
  BY <1>1, AdcSums, ZenonT(30)
<1>4. /\ sum.acc + 256 * Bit(sum.f.carry) = a + v + Bit(c)
      /\ sum.f.ov <=> int8(a) + int8(v) + Bit(c) \notin -128 .. 127
  <2> HIDE DEF sum, k
  <2>1. /\ Low(s) + 256 * Bit(s >= 256) = s
        /\ Overflow(a, s, v) <=> int8(a) + int8(v) + k \notin -128 .. 127
    BY <1>2, Addition
  <2> HIDE DEF s
  <2>2. sum.acc = Low(s) /\ sum.f.carry = (s >= 256) /\ sum.f.ov = Overflow(a, s, v)
    BY <1>1, <1>3, Zenon DEF Sums
  <2>3. /\ sum.acc + 256 * Bit(sum.f.carry) = s
        /\ (sum.f.ov <=> int8(a) + int8(v) + k \notin -128 .. 127)
    BY <2>1, <2>2, ZenonT(60)
  <2>4. s = a + v + Bit(c) /\ k = Bit(c)
    BY DEF s, k
  <2> QED BY <2>3, <2>4, ZenonT(60)
<1>5. dif.acc - 256 * Bit(~dif.f.carry) = a - v - Bit(~c)
  <2> HIDE DEF dif, k
  <2>1. Low(d) - 256 * Bit(~(d >= 256)) = a - v - (1 - k)
    BY <1>2, Subtraction
  <2> HIDE DEF d
  <2>2. dif.acc = Low(d) /\ dif.f.carry = (d >= 256)
    BY <1>1, <1>3, Zenon DEF Sums
  <2> DEFINE q == d >= 256
  <2>3. Low(d) - 256 * Bit(~q) = a - v - (1 - k) /\ dif.f.carry = q
    BY <2>1, <2>2
  <2> HIDE DEF q
  <2>4. Bit(~dif.f.carry) = Bit(~q)
    BY <2>3
  <2> QED BY <1>2, <2>2, <2>3, <2>4
<1>6. less.acc = a /\ (less.f.carry <=> ~sum.f.carry)
  <2>1. sum \in CPUs
    BY <1>1, ArithmeticDoes DEF Does
  <2>2. kept \in CPUs /\ kept.f.carry = ~c /\ kept.acc = sum.acc
    <3> DEFINE b == ~c
    <3>1. b \in BOOLEAN
      BY <1>b
    <3> HIDE DEF sum, b
    <3>2. /\ [sum EXCEPT !.f.carry = b] \in CPUs /\ [sum EXCEPT !.f.carry = b].f.carry = b
          /\ [sum EXCEPT !.f.carry = b].acc = sum.acc
      BY <2>1, <3>1, CarrySets, Zenon
    <3> QED BY <3>2 DEF b
  <2>3. Sums(kept, less, kept.acc + (255 - v) + Bit(kept.f.carry), v)
    <3> HIDE DEF kept
    <3> QED BY <2>2, AdcSums
  <2> HIDE DEF sum, kept, less, k
  <2>4. sum.acc = Low(s) /\ sum.f.carry = (s >= 256)
    BY <1>3, Zenon DEF Sums
  <2>5. Sums(kept, less, t, v)
    BY <1>2, <2>2, <2>3, <2>4, ZenonT(60)
  <2>6. Low(t) = a /\ (t >= 256 <=> ~(s >= 256))
    BY <1>2, Undone
  <2> HIDE DEF s, t
  <2>7. less.acc = Low(t) /\ less.f.carry = (t >= 256)
    BY <2>5, Zenon DEF Sums
  <2> QED BY <2>4, <2>6, <2>7, Zenon
<1>7. cmp.f.carry = sub.f.carry /\ cmp.f.zero = sub.f.zero /\ cmp.f.neg = sub.f.neg
  <2>1. set \in CPUs /\ set.f.carry = TRUE /\ set.acc = a
    BY <1>1, CarrySets, Zenon
  <2>2. Sums(set, sub, set.acc + (255 - v) + Bit(set.f.carry), v)
    <3> HIDE DEF set
    <3> QED BY <2>1, AdcSums
  <2>3. Bit(TRUE) = 1
    BY DEF Bit
  <2> HIDE DEF set, sub
  <2>4. Sums(set, sub, e, v)
    BY <2>1, <2>2, <2>3, Zenon
  <2>5. /\ cmp.f.carry = (a >= v) /\ cmp.f.zero = ((a - v) % 256 = 0)
        /\ cmp.f.neg = Sign((a - v) % 256)
    BY <1>1, CompareSets DEF instr_cmp
  <2>6. (a >= v <=> e >= 256) /\ (a - v) % 256 = Low(e)
    <3>1. e = a + (255 - v) + 1
      OBVIOUS
    <3> HIDE DEF e
    <3> QED BY <3>1, Comparison
  <2> DEFINE g == a >= v
             h == e >= 256
             r == (a - v) % 256
  <2>7. /\ cmp.f.carry = g /\ cmp.f.zero = (r = 0) /\ cmp.f.neg = Sign(r)
        /\ g = h /\ r = Low(e)
    BY <2>5, <2>6
  <2> HIDE DEF cmp, e, g, h, r
  <2>8. cmp.f.carry = h /\ cmp.f.zero = (Low(e) = 0) /\ cmp.f.neg = Sign(Low(e))
    BY <2>7, Zenon
  <2>9. sub.f.carry = h /\ sub.f.zero = (Low(e) = 0) /\ sub.f.neg = Sign(Low(e))
    BY <2>4, Zenon DEF Sums, h
  <2> QED BY <2>8, <2>9, Zenon
<1>8. \A flag \in {"carry", "zero", "neg"} : cmp.f[flag] = sub.f[flag]
  <2> HIDE DEF cmp, sub
  <2> QED BY <1>7, SMTT(30)
<1>9. /\ instr_ror(rol.m, rol.v).v = v /\ instr_ror(rol.m, rol.v).m.f.carry = c
      /\ instr_rol(ror.m, ror.v).v = v /\ instr_rol(ror.m, ror.v).m.f.carry = c
  <2> DEFINE two == (2 * v + k) % 256
             half == v \div 2 + 128 * k
  <2>1. /\ rol.m \in CPUs /\ rol.v = two /\ rol.v \in Byte /\ rol.m.f.carry = Sign(v)
        /\ ror.m \in CPUs /\ ror.v = half /\ ror.v \in Byte /\ ror.m.f.carry = (v % 2 = 1)
    BY <1>1, RotateSets, SMTT(20)
  <2>2. /\ two \div 2 + 128 * Bit(Sign(v)) = v /\ two % 2 = k
        /\ (2 * half + (v % 2)) % 256 = v /\ (Sign(half) <=> k = 1)
    <3> HIDE DEF k
    <3>1. k \in {0, 1}
      BY <1>2
    <3>2. Turned(v, k, two, half)
      BY <3>1, Rotation, Zenon
    <3> HIDE DEF two, half
    <3> QED BY <3>2 DEF Turned
  <2> HIDE DEF rol, ror, two, half
  <2>3. /\ instr_ror(rol.m, rol.v).v = two \div 2 + 128 * Bit(Sign(v))
        /\ instr_ror(rol.m, rol.v).m.f.carry = (two % 2 = 1)
    BY <2>1, RotateSets
  <2>4. /\ instr_rol(ror.m, ror.v).v = (2 * half + Bit(v % 2 = 1)) % 256
        /\ instr_rol(ror.m, ror.v).m.f.carry = Sign(half)
    <3> DEFINE odd == v % 2 = 1
    <3>1. ror.m.f.carry = odd
      BY <2>1
    <3> HIDE DEF odd
    <3>2. /\ instr_rol(ror.m, ror.v).v = (2 * half + Bit(odd)) % 256
          /\ instr_rol(ror.m, ror.v).m.f.carry = Sign(half)
      BY <2>1, <3>1, RotateSets
    <3> QED BY <3>2 DEF odd
  <2>5. Bit(v % 2 = 1) = v % 2 /\ ((k = 1) = c) /\ Sign(half) \in BOOLEAN
    BY Bytes DEF Bit, Sign
  <2> HIDE DEF k
  <2>6. instr_ror(rol.m, rol.v).m.f.carry = (k = 1)
    BY <2>2, <2>3
  <2>7. instr_rol(ror.m, ror.v).m.f.carry = (k = 1)
    BY <2>2, <2>4, <2>5
  <2> QED BY <2>2, <2>3, <2>4, <2>5, <2>6, <2>7, SMTT(30)
<1>10. instr_asl(m, v) = instr_rol(clear, v) /\ instr_lsr(m, v) = instr_ror(clear, v)
  BY <1>1, ShiftsRotate
<1> HIDE DEF sum, dif, cmp, sub, rol, ror, less
<1> QED
  BY <1>4, <1>5, <1>6, <1>8, <1>9, <1>10, Zenon
     DEF Calculates, m, sum, dif, cmp, sub, rol, ror, less

\* The instructions calculate as bytes do, for the operands that ArithmeticAgrees asks
\* about: they do for all.
THEOREM Arithmetic == Spec => []ArithmeticAgrees
<1>1. Miscalculated = {}
  <2>1. \A t \in Edges \X Edges \X BOOLEAN : Calculates(t[1], t[2], t[3])
    BY Exact, Zenon DEF Edges
  <2> QED BY <2>1, Zenon DEF Miscalculated
<1>2. ArithmeticAgrees
  BY <1>1 DEF ArithmeticAgrees
<1> QED BY <1>2, PTL

-------------------------------------------------------------------------------
(* Cycles *)

\* An operation that takes k cycles and the fetch together take one of the numbers S.
Takes(m, n, S) == \E k \in Nat : n.cycles = m.cycles + k /\ k + 1 \in S

\* An instruction that polls takes the cycles it is said to.
LEMMA PollsTake ==
  ASSUME NEW m, NEW n, NEW k \in Nat, NEW i, NEW d, NEW b, Polls(m, n, k, i, d, b),
         NEW S, k + 1 \in S
  PROVE  Takes(m, n, S)
BY DEF Polls, Runs, Takes

\* The notes, by the kind of instruction: what is noted includes the fetch.
LEMMA NotedModes ==
  ASSUME NEW id \in Byte, NEW e, e = Decode[id]
  PROVE  /\ e.type = "read" /\ e.mode \in ReadModes
                => \A k \in ReadCycles[e.mode] : k \in Nat /\ k + 1 \in Noted(id)
         /\ e.type = "modify" /\ e.mode \in ModifyModes
                => \A k \in ModifyCycles[e.mode] : k \in Nat /\ k + 1 \in Noted(id)
         /\ e.type = "write" /\ e.mode \in WriteModes
                => \A k \in WriteCycles[e.mode] : k \in Nat /\ k + 1 \in Noted(id)
<1>1. /\ e.type = "read" => Noted(id) = NotedReads[e.mode]
      /\ e.type = "modify" => Noted(id) = {NotedModifies[e.mode]}
      /\ e.type = "write" => Noted(id) = {NotedWrites[e.mode]}
  BY DEF Noted
<1>2. ASSUME NEW mode \in ReadModes, NEW k \in ReadCycles[mode]
      PROVE  k \in Nat /\ k + 1 \in NotedReads[mode]
  BY <1>2 DEF NotedReads, ReadCycles, ReadModes
<1>3. ASSUME NEW mode \in ModifyModes, NEW k \in ModifyCycles[mode]
      PROVE  k \in Nat /\ k + 1 \in {NotedModifies[mode]}
  BY <1>3 DEF NotedModifies, ModifyCycles, ModifyModes
<1>4. ASSUME NEW mode \in WriteModes, NEW k \in WriteCycles[mode]
      PROVE  k \in Nat /\ k + 1 \in {NotedWrites[mode]}
  BY <1>4 DEF NotedWrites, WriteCycles, WriteModes
<1>5. e.type = "read" /\ e.mode \in ReadModes
         => \A k \in ReadCycles[e.mode] : k \in Nat /\ k + 1 \in Noted(id)
  BY <1>1, <1>2
<1>6. e.type = "modify" /\ e.mode \in ModifyModes
         => \A k \in ModifyCycles[e.mode] : k \in Nat /\ k + 1 \in Noted(id)
  BY <1>1, <1>3
<1>7. e.type = "write" /\ e.mode \in WriteModes
         => \A k \in WriteCycles[e.mode] : k \in Nat /\ k + 1 \in Noted(id)
  BY <1>1, <1>4
<1> QED BY <1>5, <1>6, <1>7, ZenonT(60)

\* The notes of the instructions without an addressing mode.
LEMMA NotedOthers ==
  ASSUME NEW id \in Byte, NEW e, e = Decode[id]
  PROVE  /\ e.type = "branch" => \A k \in {1, 2, 3} : k + 1 \in Noted(id)
         /\ e.type \in {"flag", "transfer"} => 1 + 1 \in Noted(id)
         /\ e.type = "impld" =>
              /\ e.name \in {"php", "pha", "jmp"} => 2 + 1 \in Noted(id)
              /\ e.name \in {"plp", "pla"} => 3 + 1 \in Noted(id)
              /\ e.name \in {"jsr", "rts", "rti"} => 5 + 1 \in Noted(id)
              /\ e.name = "jmp_ind" => 4 + 1 \in Noted(id)
              /\ e.name \in {"dey", "iny", "dex", "inx", "nop"} => 1 + 1 \in Noted(id)
              /\ e.name = "brk" => 6 + 1 \in Noted(id)
         /\ e.type = "unknown" /\ e.name = "[Unknown]" => 0 + 1 \in Noted(id)
<1>1. /\ e.type = "branch" => Noted(id) = 2 .. 4
      /\ e.type \in {"flag", "transfer"} => Noted(id) = {2}
      /\ e.type = "impld" /\ e.name \in DOMAIN NotedImplied => Noted(id) = {NotedImplied[e.name]}
      /\ e.type = "impld" /\ e.name \notin DOMAIN NotedImplied => Noted(id) = 1 .. 7
      /\ e.type = "unknown" => Noted(id) = 1 .. 7
  BY DEF Noted
<1>2. /\ \A n \in {"php", "pha", "jmp"} : n \in DOMAIN NotedImplied /\ NotedImplied[n] = 3
      /\ \A n \in {"plp", "pla"} : n \in DOMAIN NotedImplied /\ NotedImplied[n] = 4
      /\ \A n \in {"jsr", "rts", "rti"} : n \in DOMAIN NotedImplied /\ NotedImplied[n] = 6
      /\ "jmp_ind" \in DOMAIN NotedImplied /\ NotedImplied["jmp_ind"] = 5
      /\ \A n \in {"dey", "iny", "dex", "inx", "nop", "brk", "[Unknown]"} :
            n \notin DOMAIN NotedImplied
  BY DEF NotedImplied
<1>3. e.type = "branch" => \A k \in {1, 2, 3} : k + 1 \in Noted(id)
  BY <1>1
<1>4. e.type \in {"flag", "transfer"} => 1 + 1 \in Noted(id)
  BY <1>1
<1>5. e.type = "impld" =>
              /\ e.name \in {"php", "pha", "jmp"} => 2 + 1 \in Noted(id)
              /\ e.name \in {"plp", "pla"} => 3 + 1 \in Noted(id)
              /\ e.name \in {"jsr", "rts", "rti"} => 5 + 1 \in Noted(id)
              /\ e.name = "jmp_ind" => 4 + 1 \in Noted(id)
              /\ e.name \in {"dey", "iny", "dex", "inx", "nop"} => 1 + 1 \in Noted(id)
              /\ e.name = "brk" => 6 + 1 \in Noted(id)
  BY <1>1, <1>2
<1>6. e.type = "unknown" /\ e.name = "[Unknown]" => 0 + 1 \in Noted(id)
  BY <1>1, <1>2
<1> QED BY <1>3, <1>4, <1>5, <1>6, ZenonT(30)

\* execute() takes the cycles that are noted for the opcode, less the one of the fetch.
LEMMA ExecuteTakes ==
  ASSUME NEW m \in CPUs, NEW id \in Byte
  PROVE  Takes(m, execute(m, id), Noted(id))
<1> DEFINE e == Decode[id]
           v == IF e.name = "sta" THEN m.acc ELSE IF e.name = "sty" THEN m.y ELSE m.x
           S == Noted(id)
<1>1. Decodes(e)
  BY Decoded, Zenon
<1>2. v \in Byte
  BY Fields, Zenon
<1>3. execute(m, id) =
        CASE e.type = "read"   -> last_cycle(ReadMode(e.mode, e.name, m))
          [] e.type = "modify" -> last_cycle(ModifyMode(e.mode, e.name, m))
          [] e.type = "write"  -> last_cycle(WriteMode(e.mode, v, m))
          [] e.type = "branch" -> instr_branch(m, m.f[Branches[e.name][2]] = Branches[e.name][3])
          [] e.type = "flag"   -> instr_flag(m, Flags[e.name][2], Flags[e.name][3])
          [] e.type = "transfer" -> instr_transfer(m, Transfers[e.name][2], Transfers[e.name][3])
          [] e.type = "impld"  -> Implied(e.name, m)
          [] OTHER -> m
  BY DEF execute
<1>4. e = Decode[id] /\ S = Noted(id)
  OBVIOUS
<1>5. \A k \in {0, 1, 2, 3, 4, 5, 6} : k \in Nat
  OBVIOUS
<1> HIDE DEF e, v, S
<1>6. ASSUME NEW n, NEW k \in Nat, Does(m, n, k), k + 1 \in S
      PROVE  Takes(m, last_cycle(n), S)
  BY <1>6, ThenLastCycle, PollsTake, Zenon DEF PollsOnly
<1>7. e.type = "read" /\ e.name \in ReadNames /\ e.mode \in ReadModes
        => Takes(m, last_cycle(ReadMode(e.mode, e.name, m)), S)
  BY <1>4, <1>6, NotedModes, ReadModeDoes, Zenon
<1>8. e.type = "modify" /\ e.name \in ModifyNames /\ e.mode \in ModifyModes
        => Takes(m, last_cycle(ModifyMode(e.mode, e.name, m)), S)
  BY <1>4, <1>6, NotedModes, ModifyModeDoes, Zenon
<1>9. e.type = "write" /\ e.mode \in WriteModes => Takes(m, last_cycle(WriteMode(e.mode, v, m)), S)
  BY <1>2, <1>4, <1>6, NotedModes, WriteModeDoes, Zenon
<1>10. ASSUME NEW take, e.type = "branch" PROVE Takes(m, instr_branch(m, take), S)
  <2>1. PICK k \in {1, 2, 3} : PollsOnly(m, instr_branch(m, take), k)
    BY BranchPolls, Zenon
  <2>2. k \in Nat /\ k + 1 \in S
    BY <1>4, <1>10, NotedOthers
  <2> QED BY <2>1, <2>2, PollsTake, Zenon DEF PollsOnly
<1>11. e.type = "flag" /\ e.name \in DOMAIN Flags
        => Takes(m, instr_flag(m, Flags[e.name][2], Flags[e.name][3]), S)
  <2> HAVE e.type = "flag" /\ e.name \in DOMAIN Flags
  <2> DEFINE n == instr_flag(m, Flags[e.name][2], Flags[e.name][3])
  <2>1. \E i, d, b : Polls(m, n, 1, i, d, b)
    <3>1. Flags[e.name][2] \in {"carry", "ov", "decimal", "intdis"} /\ Flags[e.name][3] \in BOOLEAN
      BY FlagNames
    <3> QED BY <3>1, FlagPolls, Zenon DEF PollsOnly
  <2>2. 1 \in Nat /\ 1 + 1 \in S
    BY <1>4, NotedOthers
  <2> HIDE DEF n
  <2>3. Takes(m, n, S)
    BY <2>1, <2>2, PollsTake, Zenon
  <2> QED BY <2>3 DEF n
<1>12. e.type = "transfer" /\ e.name \in DOMAIN Transfers
        => Takes(m, instr_transfer(m, Transfers[e.name][2], Transfers[e.name][3]), S)
  <2> HAVE e.type = "transfer" /\ e.name \in DOMAIN Transfers
  <2>1. /\ Transfers[e.name][2] \in {"acc", "x", "y", "sp"}
        /\ Transfers[e.name][3] \in {"acc", "x", "y", "sp"}
    BY DEF Transfers
  <2>2. 1 \in Nat /\ 1 + 1 \in S
    BY <1>4, NotedOthers
  <2> QED BY <2>1, <2>2, TransferPolls, PollsTake, ZenonT(60) DEF PollsOnly
<1>13. e.type = "impld" /\ e.name \in DOMAIN INSTR_IMPLD => Takes(m, Implied(e.name, m), S)
  <2> HAVE e.type = "impld" /\ e.name \in DOMAIN INSTR_IMPLD
  <2>1. ASSUME NEW n, NEW k \in {1, 2, 3, 4, 5}, k + 1 \in S,
               \E i, d, b : Polls(m, n, k, i, d, b)
        PROVE  Takes(m, n, S)
    BY <1>5, <2>1, PollsTake, ZenonT(60)
  <2>2. e.name \in {"brk", "php", "jsr", "plp", "rti", "pha", "jmp", "rts", "pla", "jmp_ind",
                    "dey", "iny", "dex", "inx", "nop"}
    BY DEF INSTR_IMPLD
  <2>3. CASE e.name \in {"php", "pha", "jmp"}
    <3>1. 2 + 1 \in S
      BY <1>4, <2>3, NotedOthers
    <3> QED BY <2>1, <2>3, <3>1, PhpPolls, PhaPolls, JmpPolls, Zenon DEF PollsOnly, Implied
  <2>4. CASE e.name \in {"plp", "pla"}
    <3>1. 3 + 1 \in S
      BY <1>4, <2>4, NotedOthers
    <3> QED BY <2>1, <2>4, <3>1, PlpPolls, PlaPolls, Zenon DEF PollsOnly, Implied
  <2>5. CASE e.name \in {"jsr", "rts", "rti"}
    <3>1. 5 + 1 \in S
      BY <1>4, <2>5, NotedOthers
    <3> QED BY <2>1, <2>5, <3>1, JsrPolls, RtsPolls, RtiPolls, Zenon DEF PollsOnly, Implied
  <2>6. CASE e.name = "jmp_ind"
    <3>1. 4 + 1 \in S
      BY <1>4, <2>6, NotedOthers
    <3> QED BY <2>1, <2>6, <3>1, JmpIndPolls, ZenonT(60) DEF PollsOnly, Implied
  <2>7. CASE e.name \in {"dey", "iny", "dex", "inx", "nop"}
    <3>1. 1 + 1 \in S
      BY <1>4, <2>7, NotedOthers
    <3>2. 1 \in Nat /\ 255 \in Nat
      OBVIOUS
    <3>3. /\ PollsOnly(m, instr_inx(m), 1) /\ PollsOnly(m, instr_iny(m), 1)
          /\ PollsOnly(m, instr_dex(m), 1) /\ PollsOnly(m, instr_dey(m), 1)
      BY <3>2, StepPolls DEF instr_inx, instr_iny, instr_dex, instr_dey
    <3> QED BY <2>1, <2>7, <3>1, <3>3, NopPolls, Zenon DEF PollsOnly, Implied
  <2>8. CASE e.name = "brk"
    <3> DEFINE b == [m EXCEPT !.f.breakf = TRUE]
    <3>1. b \in CPUs /\ b.cycles = m.cycles
      BY Zenon DEF CPUs, CPUsWith, FlagSets
    <3>2. Implied(e.name, m) = interrupt(b, "brk") /\ "brk" \in Causes
      BY <2>8, ZenonT(30) DEF Implied, instr_brk, Causes
    <3> HIDE DEF b
    <3>3. Implied(e.name, m).cycles = m.cycles + 6
      <4>1. Enters(b, Implied(e.name, m), "brk")
        BY <3>1, <3>2, InterruptEnters, Zenon
      <4> QED BY <3>1, <4>1 DEF Enters
    <3>4. 6 \in Nat /\ 6 + 1 \in S
      BY <1>4, <2>8, NotedOthers
    <3> QED BY <3>3, <3>4, Zenon DEF Takes
  <2> QED BY <2>2, <2>3, <2>4, <2>5, <2>6, <2>7, <2>8, ZenonT(30)
<1>14. e.type = "unknown" /\ e.name = "[Unknown]" => Takes(m, m, S)
  BY <1>4, NotedOthers, Fields DEF Takes
<1>15. Takes(m, execute(m, id), S)
  BY <1>1, <1>3, <1>7, <1>8, <1>9, <1>10, <1>11, <1>12, <1>13, <1>14, ZenonT(60) DEF Decodes
<1> QED BY <1>4, <1>15

\* A call of run() that executes an instruction takes the cycles that the comment of its
\* addressing mode, or of its function, notes for it, whatever the machine: registers,
\* flags, memory and the program are any, and all 256 opcodes are covered.
THEOREM CyclesExact ==
  ASSUME NEW m \in CPUs, ~m.execnmi, ~m.execirq
  PROVE  run(m).cycles \in Nat /\ run(m).cycles - m.cycles \in Noted(Read(m, m.pc))
<1> DEFINE n == fetch(m)
           S == Noted(Read(m, m.pc))
<1>1. n \in CPUs /\ n.id = Read(m, m.pc) /\ n.id \in Byte /\ n.cycles = m.cycles + 1
  BY FetchFetches DEF Fetched
<1>2. run(m) = execute(n, n.id)
  BY DEF run
<1> HIDE DEF n
<1>3. Takes(n, execute(n, n.id), S)
  BY <1>1, ExecuteTakes
<1>4. PICK k \in Nat : execute(n, n.id).cycles = n.cycles + k /\ k + 1 \in S
  BY <1>3 DEF Takes
<1>5. execute(n, n.id).cycles = (m.cycles + 1) + k
  BY <1>1, <1>4
<1>6. m.cycles \in Nat
  BY Fields
<1>7. execute(n, n.id).cycles \in Nat /\ execute(n, n.id).cycles - m.cycles = k + 1
  BY <1>5, <1>6
<1> QED BY <1>2, <1>4, <1>7, SMTT(30)

\* The address k bytes on, and how far an address is from another.
Ahead(pc, k) == (pc + k) % 65536
Behind(i, pc) == (i - pc) % 65536

\* The distance is k, the end of memory between the two or not.
LEMMA Offset ==
  ASSUME NEW pc \in Word, NEW k \in 0 .. 2
  PROVE  Behind(Ahead(pc, k), pc) = k
<1> DEFINE w == pc + k
<1>1. pc \in Nat /\ pc < 65536 /\ w = pc + k /\ w \in Nat /\ w < 65536 + 65536
  BY Words
<1> HIDE DEF w
<1>2. w % 65536 = w \/ w % 65536 = w - 65536
  BY <1>1
<1>3. (w % 65536) - pc = k \/ (w % 65536) - pc = k - 65536
  BY <1>1, <1>2
<1>4. k % 65536 = k /\ (k - 65536) % 65536 = k
  OBVIOUS
<1>5. ((w % 65536) - pc) % 65536 = k
  BY <1>3, <1>4
<1> QED BY <1>5 DEF w, Ahead, Behind

\* A CPU about to fetch at pc, where the bytes of code are.
Loaded(m, code, pc, f, sp) ==
    /\ m \in CPUs /\ m.cycles = 0 /\ ~m.execnmi /\ ~m.execirq
    /\ m.pc = pc /\ m.f = f /\ m.sp = sp
    /\ m.rom = [i \in {Ahead(pc, k) : k \in 0 .. 2} |-> code[Behind(i, pc) + 1]]

\* The machines that InstructionFacts asks about are such CPUs.
LEMMA MachineIs ==
  ASSUME NEW code \in Byte \X Byte \X Byte, NEW pc \in Word, NEW f \in FlagSets,
         NEW xy \in Byte, NEW sp \in Byte, NEW m, m = Machine(code, pc, f, xy, sp)
  PROVE  Loaded(m, code, pc, f, sp)
<1> DEFINE D == {Ahead(pc, k) : k \in 0 .. 2}
           rom == [i \in D |-> code[Behind(i, pc) + 1]]
           p == PowerOn(rom)
           top == SetCell(SetCell(p.ram, \h01FE, \h34), \h01FF, \h12)
           stack == SetCell(top, \h0100, \h56)
           ram == SetCell(SetCell(stack, \h0020, \hF0), \h0021, \h80)
<1>1. rom \in Memories(Word)
  <2>1. D \in SUBSET Word
    BY WordPlus DEF Ahead
  <2>2. ASSUME NEW i \in D PROVE code[Behind(i, pc) + 1] \in Byte
    <3>1. PICK k \in 0 .. 2 : i = Ahead(pc, k)
      BY <2>2
    <3>2. Behind(i, pc) = k
      BY <3>1, Offset
    <3>3. code[1] \in Byte /\ code[2] \in Byte /\ code[3] \in Byte
      OBVIOUS
    <3> QED BY <3>2, <3>3
  <2>3. rom \in [D -> Byte]
    BY <2>2
  <2> HIDE DEF D, rom
  <2> QED BY <2>1, <2>3, Zenon DEF Memories
<1> HIDE DEF D, rom
<1>2. p \in CPUs /\ p.ram \in Memories(Cells)
  BY <1>1, PowerOnIs, Fields, Zenon
<1>3. p.cycles = 0 /\ p.execnmi = FALSE /\ p.execirq = FALSE /\ p.rom = rom
  BY Zenon DEF PowerOn
<1> HIDE DEF p
<1>4. ram \in Memories(Cells)
  <2>1. /\ \h01FE \in Cells /\ \h01FF \in Cells /\ \h0100 \in Cells
        /\ \h0020 \in Cells /\ \h0021 \in Cells
        /\ \h34 \in Byte /\ \h12 \in Byte /\ \h56 \in Byte /\ \hF0 \in Byte /\ \h80 \in Byte
    BY Bytes DEF Cells
  <2>2. SetCell(p.ram, \h01FE, \h34) \in Memories(Cells)
    BY <1>2, <2>1, MemoryWrite
  <2>3. top \in Memories(Cells)
    BY <2>1, <2>2, MemoryWrite
  <2> HIDE DEF top
  <2>4. stack \in Memories(Cells)
    BY <2>1, <2>3, MemoryWrite
  <2> HIDE DEF stack
  <2>5. SetCell(stack, \h0020, \hF0) \in Memories(Cells)
    BY <2>1, <2>4, MemoryWrite
  <2> QED BY <2>1, <2>5, MemoryWrite
<1>5. m = [p EXCEPT !.pc = pc, !.f = f, !.x = xy, !.y = xy, !.sp = sp, !.resetpending = FALSE,
                    !.ram = ram]
  BY DEF Machine, p, rom, D, Ahead, Behind
<1> HIDE DEF ram
<1>6. m \in CPUs
  BY <1>2, <1>4, <1>5, ZenonT(90) DEF CPUs, CPUsWith
<1>7. /\ m.cycles = p.cycles /\ m.execnmi = p.execnmi /\ m.execirq = p.execirq
      /\ m.pc = pc /\ m.f = f /\ m.sp = sp /\ m.rom = p.rom
  BY <1>2, <1>5, ZenonT(40) DEF CPUs, CPUsWith
<1> QED BY <1>3, <1>6, <1>7 DEF Loaded, rom, D

\* Every instruction takes the cycles noted in instructions.cpp on the machines that
\* CyclesAsNoted asks about: it does on all.
THEOREM Cycles == Spec => []CyclesAsNoted
<1>1. ASSUME NEW m \in Machines PROVE run(m).cycles \in Noted(Read(m, m.pc))
  <2>1. m \in CPUs /\ m.cycles = 0 /\ ~m.execnmi /\ ~m.execirq
    <3> DEFINE Ops == {<<\h20, \h00>>, <<\hFF, \h00>>, <<\h7F, \h80>>}
               PCs == {\h8010, \h80FC}
               Statuses == {32, 255}
               Indices == {0, 255}
               Tops == {\hFD, \hFE, \hFF}
    <3>1. Machines = {Machine(<<id, op[1], op[2]>>, pc, ToFlags(f), xy, sp) :
              id \in Byte, op \in Ops, pc \in PCs, f \in Statuses, xy \in Indices, sp \in Tops}
      BY DEF Machines
    <3>2. ASSUME NEW op \in Ops PROVE op[1] \in Byte /\ op[2] \in Byte
      BY <3>2, Bytes
    <3>3. PCs \subseteq Word /\ Indices \subseteq Byte /\ Tops \subseteq Byte
      BY Bytes, Words
    <3> HIDE DEF Ops, PCs, Statuses, Indices, Tops
    <3>4. PICK id \in Byte, op \in Ops, pc \in PCs, f \in Statuses, xy \in Indices, sp \in Tops :
              m = Machine(<<id, op[1], op[2]>>, pc, ToFlags(f), xy, sp)
      BY <1>1, <3>1
    <3>5. <<id, op[1], op[2]>> \in Byte \X Byte \X Byte /\ ToFlags(f) \in FlagSets
      BY <3>2, ByteFlags
    <3>6. pc \in Word /\ xy \in Byte /\ sp \in Byte
      BY <3>3
    <3>7. Loaded(m, <<id, op[1], op[2]>>, pc, ToFlags(f), sp)
      BY <3>4, <3>5, <3>6, MachineIs
    <3> QED BY <3>7 DEF Loaded
  <2>2. run(m).cycles \in Nat /\ run(m).cycles - m.cycles \in Noted(Read(m, m.pc))
    BY <2>1, CyclesExact
  <2>3. run(m).cycles - m.cycles = run(m).cycles
    BY <2>1, <2>2
  <2> QED BY <2>2, <2>3
<1>2. CyclesAsNoted
  BY <1>1 DEF CyclesAsNoted, Miscounted
<1> QED BY <1>2, PTL

-------------------------------------------------------------------------------
(* Returns *)

\* A machine that InstructionFacts asks about reads the bytes it was given.
LEMMA MachineReads ==
  ASSUME NEW code \in Byte \X Byte \X Byte, NEW pc \in Word, NEW m,
         m.rom = [i \in {Ahead(pc, k) : k \in 0 .. 2} |-> code[Behind(i, pc) + 1]],
         NEW k \in 0 .. 2, Ahead(pc, k) >= \h8000
  PROVE  Read(m, Ahead(pc, k)) = code[k + 1]
<1> DEFINE D == {Ahead(pc, j) : j \in 0 .. 2}
           a == Ahead(pc, k)
<1>1. Behind(a, pc) = k
  BY Offset
<1>2. a \in D
  OBVIOUS
<1>3. Cell(m.rom, a, \hEA) = code[k + 1]
  BY <1>1, <1>2 DEF Cell
<1>4. a \in Nat
  BY Words, WordPlus DEF Ahead
<1> HIDE DEF a
<1>5. Read(m, a) = Cell(m.rom, a, \hEA)
  BY <1>4 DEF Read, a
<1> QED BY <1>3, <1>5 DEF a

\* A JSR in memory is run as one: fetch() has moved pc past the opcode.
LEMMA RunsJsr ==
  ASSUME NEW m \in CPUs, ~m.execnmi, ~m.execirq, Read(m, m.pc) = \h20
  PROVE  \E n \in CPUs : /\ run(m) = instr_jsr(n) /\ n.pc = After(m.pc) /\ n.sp = m.sp
                         /\ n.ram = m.ram /\ n.rom = m.rom
<1> DEFINE n == fetch(m)
<1>1. n \in CPUs /\ n.id = Read(m, m.pc)
  BY FetchFetches DEF Fetched
<1>2. run(m) = execute(n, n.id)
  BY DEF run
<1>3. n.pc = After(m.pc) /\ n.sp = m.sp /\ n.ram = m.ram /\ n.rom = m.rom
  <2>1. /\ Access(m, "x", m.pc).pc = m.pc /\ Access(m, "x", m.pc).ram = m.ram
        /\ Access(m, "x", m.pc).rom = m.rom /\ Access(m, "x", m.pc).sp = m.sp
        /\ DOMAIN Access(m, "x", m.pc) = DOMAIN m
    BY Zenon DEF Access, cycle, CPUs, CPUsWith
  <2> DEFINE o == Access(m, "x", m.pc)
             i == Read(m, m.pc)
  <2>2. n = [o EXCEPT !.pc = After(@), !.id = i]
    BY DEF fetch, After
  <2>3. DOMAIN m = {"pc", "sp", "acc", "x", "y", "f", "low", "high", "cycles", "ram", "rom", "log",
                    "nmipending", "irqpending", "resetpending", "execnmi", "execirq",
                    "id", "vec", "cause", "pushedB"}
    BY DEF CPUs, CPUsWith
  <2> HIDE DEF n, o, i
  <2>4. n.pc = After(o.pc) /\ n.sp = o.sp /\ n.ram = o.ram /\ n.rom = o.rom
    BY <2>1, <2>2, <2>3 DEF o
  <2> QED BY <2>1, <2>4 DEF o
<1> HIDE DEF n
<1>4. execute(n, \h20) = instr_jsr(n)
  <2>1. execute(n, \h20) = Implied("jsr", n)
    BY JsrDecodes, SMTT(30) DEF execute
  <2> QED BY <2>1 DEF Implied
<1> QED BY <1>1, <1>2, <1>3, <1>4, SMTT(30)

\* On the machines that ReturnsRestore asks about, what was interrupted or called is
\* returned to: it is on all.
THEOREM Returned == Spec => []ReturnsRestore
<1> DEFINE Tops == {0, 1, 2, \h7F, \hFD, \hFE, \hFF}
           PCs == {\h8010, \h80FD, \hFFF0}
           code == <<\h20, \h00, \h90>>
<1>1. ASSUME NEW sp \in Tops, NEW pc \in PCs PROVE Returns(sp, pc)
  <2>1. code \in Byte \X Byte \X Byte /\ pc \in Word /\ sp \in Byte /\ 0 \in Byte
    BY <1>1, Bytes, Words, SMTT(30)
  <2>2. ASSUME NEW d \in Edges, NEW c \in {"nmi", "irq"}, NEW m, NEW b,
               m = Machine(code, pc, ToFlags(d), 0, sp), b = instr_rti(interrupt(m, c))
        PROVE  /\ b.pc = pc /\ b.sp = sp /\ b.f = [m.f EXCEPT !.breakf = FALSE]
               /\ DOMAIN b.ram \subseteq DOMAIN m.ram \cup (\h0100 .. \h01FF)
    <3>1. ToFlags(d) \in FlagSets /\ c \in Causes
      BY ByteFlags DEF Causes
    <3>2. m \in CPUs /\ m.pc = pc /\ m.sp = sp
      <4> DEFINE g == ToFlags(d)
      <4>1. m = Machine(code, pc, g, 0, sp) /\ g \in FlagSets
        BY <2>2, <3>1
      <4> HIDE DEF code, g, PCs, Tops
      <4>2. Loaded(m, code, pc, g, sp)
        BY <2>1, <4>1, MachineIs, SMTT(30)
      <4> QED BY <4>2 DEF Loaded
    <3> QED BY <2>2, <3>1, <3>2, InterruptUndone, SMTT(30)
  <2>3. ASSUME NEW q, NEW m, NEW b,
               q = Machine(code, pc, ResetFlags, 0, sp), m = run(q), b = instr_rts(m)
        PROVE  m.pc = \h9000 /\ b.pc = pc + 3 /\ b.sp = sp
    <3>1. ResetFlags \in FlagSets
      BY ByteFlags DEF ResetFlags
    <3>2. /\ q \in CPUs /\ ~q.execnmi /\ ~q.execirq /\ q.pc = pc /\ q.sp = sp
          /\ q.rom = [i \in {Ahead(pc, k) : k \in 0 .. 2} |-> code[Behind(i, pc) + 1]]
      <4> HIDE DEF code
      <4>1. Loaded(q, code, pc, ResetFlags, sp)
        BY <2>1, <2>3, <3>1, MachineIs, SMTT(30)
      <4> QED BY <4>1 DEF Loaded
    <3>3. /\ 0 \in 0 .. 2 /\ 1 \in 0 .. 2 /\ 2 \in 0 .. 2
          /\ Ahead(pc, 0) = pc /\ Ahead(pc, 1) = pc + 1 /\ Ahead(pc, 2) = pc + 2
          /\ pc >= \h8000 /\ pc + 1 >= \h8000 /\ pc + 2 >= \h8000
          /\ After(pc) = pc + 1 /\ After(pc + 1) = pc + 2 /\ After(pc + 2) = pc + 3
      BY DEF Ahead, After
    <3>4. Read(q, pc) = \h20 /\ Read(q, pc + 1) = 0 /\ Read(q, pc + 2) = \h90
      <4>1. /\ Read(q, Ahead(pc, 0)) = code[0 + 1] /\ Read(q, Ahead(pc, 1)) = code[1 + 1]
            /\ Read(q, Ahead(pc, 2)) = code[2 + 1]
        <5> HIDE DEF code
        <5> HIDE DEF PCs, Tops
        <5>1. ASSUME NEW k \in 0 .. 2, Ahead(pc, k) >= \h8000
              PROVE  Read(q, Ahead(pc, k)) = code[k + 1]
          BY <2>1, <3>2, <5>1, MachineReads, SMTT(30)
        <5> QED BY <3>3, <5>1
      <4> QED BY <3>3, <4>1, SMTT(30)
    <3> HIDE DEF code, PCs, Tops
    <3>5. PICK n \in CPUs : /\ m = instr_jsr(n) /\ n.pc = After(q.pc) /\ n.sp = q.sp
                            /\ n.ram = q.ram /\ n.rom = q.rom
      BY <2>3, <3>2, <3>4, RunsJsr, SMTT(30)
    <3>6. m.pc = ReadWord(n, n.pc)
      BY <3>5, JsrStands DEF Stands
    <3>7. Read(n, pc + 1) = 0 /\ Read(n, pc + 2) = \h90
      BY <3>4, <3>5, SameMemory
    <3>8. ReadWord(n, n.pc) = Read(n, n.pc) + 256 * Read(n, After(n.pc))
      BY DEF ReadWord, After
    <3>9. m.pc = \h9000
      BY <3>2, <3>3, <3>5, <3>6, <3>7, <3>8, SMTT(30)
    <3>10. b.pc = After(After(n.pc)) /\ b.sp = n.sp
      BY <2>3, <3>5, CallUndone
    <3> QED BY <3>2, <3>3, <3>5, <3>9, <3>10, SMTT(30)
  <2> QED BY <2>2, <2>3 DEF Returns
<1>2. ReturnsRestore
  BY <1>1 DEF ReturnsRestore, Lost
<1> QED BY <1>2, PTL
===============================================================================

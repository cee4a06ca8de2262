----------------------------- MODULE Instructions -----------------------------
(***************************************************************************)
(* Core::CPU to the byte: registers, flags, stack, addressing modes, the   *)
(* opcode table and every instruction.  A machine m is a record; an        *)
(* operation of the CPU takes one and gives the one it leaves behind.      *)
(*                                                                         *)
(* m.log lists the accesses that readmem(), writemem() and fetch() report  *)
(* to the debugger, each with the machine as it was when they did.         *)
(*                                                                         *)
(* Memory is what programs run from and keep data in: RAM, all zero after  *)
(* power() and mirrored, and ROM.  ROM cells that m.rom does not list hold *)
(* a nop.  The PPU's registers are the subject of PPURegs; programs here   *)
(* do not use them.                                                        *)
(***************************************************************************)
EXTENDS InstrInfo, Sequences

NMI_VEC     == \hFFFA
RESET_VEC   == \hFFFC
IRQ_BRK_VEC == \hFFFE
STACK_BASE  == \h0100
NO_VEC      == 0
NO_ID       == 256      \* no instruction was executed

Bit(b) == IF b THEN 1 ELSE 0
Sign(b) == b % 256 >= 128
Low(w)  == w % 256
High(w) == (w \div 256) % 256

\* ProcStatus::operator uint8
ToByte(f) ==
    Bit(f.carry) + 2 * Bit(f.zero) + 4 * Bit(f.intdis) + 8 * Bit(f.decimal)
    + 16 * Bit(f.breakf) + 32 * Bit(f.unused) + 64 * Bit(f.ov) + 128 * Bit(f.neg)

\* Whether a byte has the bit of a mask; the byte that has the bits for which Is holds.
IsSet(d, mask) == (d \div mask) % 2 = 1
Bits(Is(_)) ==
    Bit(Is(1)) + 2 * Bit(Is(2)) + 4 * Bit(Is(4)) + 8 * Bit(Is(8))
    + 16 * Bit(Is(16)) + 32 * Bit(Is(32)) + 64 * Bit(Is(64)) + 128 * Bit(Is(128))

\* ProcStatus::operator=
ToFlags(d) ==
    [carry |-> IsSet(d, 1), zero |-> IsSet(d, 2), intdis |-> IsSet(d, 4), decimal |-> IsSet(d, 8),
     breakf |-> IsSet(d, 16), unused |-> IsSet(d, 32), ov |-> IsSet(d, 64), neg |-> IsSet(d, 128)]

\* ProcStatus::reset()
ResetFlags == ToFlags(32)

\* The CPU inside power(), before its interrupt(): registers and RAM are cleared.
PowerOn(rom) ==
    [pc |-> 0, sp |-> 0, acc |-> 0, x |-> 0, y |-> 0, f |-> ResetFlags,
     low |-> 0, high |-> 0, cycles |-> 0, ram |-> << >>, rom |-> rom, log |-> << >>,
     nmipending |-> FALSE, irqpending |-> FALSE, resetpending |-> TRUE,
     execnmi |-> FALSE, execirq |-> FALSE,
     id |-> NO_ID, vec |-> NO_VEC, cause |-> "none", pushedB |-> FALSE]

-------------------------------------------------------------------------------
(* The bus *)

Cell(mem, a, default) == IF a \in DOMAIN mem THEN mem[a] ELSE default

Read(m, a) ==
    IF a < \h2000 THEN Cell(m.ram, a % \h0800, 0)
    ELSE IF a >= \h8000 THEN Cell(m.rom, a, \hEA) ELSE 0

SetCell(mem, a, d) == [i \in DOMAIN mem \cup {a} |-> IF i = a THEN d ELSE mem[i]]

\* Faulty variant: writes are not mirrored.
Write_unmirrored(m, a, d) ==
    IF a < \h2000 THEN [m EXCEPT !.ram = SetCell(@, a, d)] ELSE m

Write(m, a, d) ==
    IF a < \h2000 THEN [m EXCEPT !.ram = SetCell(@, a % \h0800, d)] ELSE m

ReadWord(m, a) == Read(m, a) + 256 * Read(m, (a + 1) % 65536)

cycle(m) == [m EXCEPT !.cycles = @ + 1]

Access(m, mode, a) ==
    [cycle(m) EXCEPT !.log = Append(@, [mode |-> mode, addr |-> a,
                                        at |-> [m EXCEPT !.log = << >>]])]

\* readmem() and writemem(); the value readmem() returns is Read(m, a).
readmem(m, a) == Access(m, "r", a)
writemem(m, a, d) == Write(Access(m, "w", a), a, d)

\* The two fetchop() of an instruction, into opargs.
fetchop_low(m) == [cycle(m) EXCEPT !.low = Read(m, m.pc), !.pc = (@ + 1) % 65536]
fetchop_high(m) == [cycle(m) EXCEPT !.high = Read(m, m.pc), !.pc = (@ + 1) % 65536]
fetchops(m) == fetchop_high(fetchop_low(m))

\* opargs.full
full(m) == m.low + 256 * m.high

push(m, d) == [writemem(m, m.sp + STACK_BASE, d) EXCEPT !.sp = (@ + 255) % 256]

\* Faulty variant: pull() reads before it increments sp.
pull_post(m) == [m |-> [readmem(m, m.sp + STACK_BASE) EXCEPT !.sp = (@ + 1) % 256],
                 d |-> Read(m, m.sp + STACK_BASE)]

\* pull(): the machine after it, and the byte.
pull(m) ==
    LET up == [m EXCEPT !.sp = (@ + 1) % 256]
    IN  [m |-> readmem(up, up.sp + STACK_BASE), d |-> Read(up, up.sp + STACK_BASE)]

nmipoll(m) == [m EXCEPT !.execnmi = @ \/ m.nmipending]

\* Faulty variant: the interrupt disable flag is not looked at.
irqpoll_masked(m) == [m EXCEPT !.execirq = @ \/ m.irqpending]

irqpoll(m) == [m EXCEPT !.execirq = @ \/ (~m.f.intdis /\ m.irqpending)]
last_cycle(m) == irqpoll(nmipoll(m))

\* interrupt(), called by c.
interrupt(m, c) ==
    LET pushed == push(push(push(cycle(m), High(m.pc)), Low(m.pc)), ToByte(m.f))
        vector == IF m.resetpending THEN RESET_VEC
                  ELSE IF m.nmipending THEN NMI_VEC ELSE IRQ_BRK_VEC
        served == [pushed EXCEPT
                      !.f.breakf = FALSE, !.f.intdis = TRUE,
                      !.resetpending = FALSE,
                      !.nmipending = @ /\ m.resetpending,
                      !.irqpending = @ /\ (m.resetpending \/ m.nmipending),
                      !.vec = vector, !.cause = c, !.pushedB = m.f.breakf]
        half   == [readmem(served, vector) EXCEPT
                      !.pc = 256 * High(@) + Read(served, vector)]
    IN  [readmem(half, vector + 1) EXCEPT
            !.pc = Low(@) + 256 * Read(half, vector + 1)]

-------------------------------------------------------------------------------
(* Instructions that read a value *)

\* The flags that most instructions derive from their result.
ZeroNeg(m, v) == [m EXCEPT !.f.zero = (v = 0), !.f.neg = Sign(v)]

instr_lda(m, v) == [ZeroNeg(m, v) EXCEPT !.acc = v]
instr_ldx(m, v) == [ZeroNeg(m, v) EXCEPT !.x = v]
instr_ldy(m, v) == [ZeroNeg(m, v) EXCEPT !.y = v]

\* cmp, cpx and cpy are the same code for another register.
Compare(m, reg, v) == [ZeroNeg(m, (reg - v) % 256) EXCEPT !.f.carry = reg >= v]
instr_cmp(m, v) == Compare(m, m.acc, v)
instr_cpx(m, v) == Compare(m, m.x, v)
instr_cpy(m, v) == Compare(m, m.y, v)

\* Both adc and sbc take the overflow flag from the signs of acc, sum and val.
Overflow(acc, sum, v) == Sign(acc) # Sign(sum) /\ Sign(acc) = Sign(v)

instr_adc(m, v) ==
    LET sum == m.acc + v + Bit(m.f.carry)
    IN  [ZeroNeg(m, sum % 256) EXCEPT !.f.carry = sum > \hFF,
            !.f.ov = Overflow(m.acc, sum, v), !.acc = sum % 256]

instr_sbc(m, v) ==
    LET sum == m.acc + (255 - v) + Bit(m.f.carry)
    IN  [ZeroNeg(m, sum % 256) EXCEPT !.f.carry = sum > \hFF,
            !.f.ov = Overflow(m.acc, sum, v), !.acc = sum % 256]

\* a & b, a | b and a ^ b
And(a, b) == LET Is(mask) == IsSet(a, mask) /\ IsSet(b, mask) IN Bits(Is)
Or(a, b)  == LET Is(mask) == IsSet(a, mask) \/ IsSet(b, mask) IN Bits(Is)
Xor(a, b) == LET Is(mask) == IsSet(a, mask) # IsSet(b, mask) IN Bits(Is)

instr_ora(m, v) == LET r == Or(m.acc, v) IN [ZeroNeg(m, r) EXCEPT !.acc = r]
instr_and(m, v) == LET r == And(m.acc, v) IN [ZeroNeg(m, r) EXCEPT !.acc = r]
instr_eor(m, v) == LET r == Xor(m.acc, v) IN [ZeroNeg(m, r) EXCEPT !.acc = r]

instr_bit(m, v) ==
    [m EXCEPT !.f.neg = (And(m.acc, v) = 0), !.f.zero = (v = 0), !.f.ov = (And(v, \h40) # 0)]

\* The member function that execute() passes to a read mode.
Reads(f, m, v) ==
    CASE f = "lda" -> instr_lda(m, v) [] f = "ldx" -> instr_ldx(m, v)
      [] f = "ldy" -> instr_ldy(m, v) [] f = "cmp" -> instr_cmp(m, v)
      [] f = "cpx" -> instr_cpx(m, v) [] f = "cpy" -> instr_cpy(m, v)
      [] f = "adc" -> instr_adc(m, v) [] f = "sbc" -> instr_sbc(m, v)
      [] f = "ora" -> instr_ora(m, v) [] f = "and" -> instr_and(m, v)
      [] f = "eor" -> instr_eor(m, v) [] f = "bit" -> instr_bit(m, v)

\* readmem(a) and the instruction f on the value.
ReadWith(f, m, a) == Reads(f, readmem(m, a), Read(m, a))

-------------------------------------------------------------------------------
(* Instructions that modify a value: the machine and the value they return *)

Result(m, v) == [m |-> ZeroNeg(m, v), v |-> v]

instr_inc(m, v) == Result(m, (v + 1) % 256)
instr_dec(m, v) == Result(m, (v + 255) % 256)
instr_asl(m, v) == Result([m EXCEPT !.f.carry = Sign(v)], (2 * v) % 256)
instr_lsr(m, v) == Result([m EXCEPT !.f.carry = v % 2 = 1], v \div 2)

\* Faulty variant: the carry that is shifted in is the one just shifted out.
instr_rol_new_carry(m, v) ==
    Result([m EXCEPT !.f.carry = Sign(v)], (2 * v + Bit(Sign(v))) % 256)

instr_rol(m, v) ==
    Result([m EXCEPT !.f.carry = Sign(v)], (2 * v + Bit(m.f.carry)) % 256)
instr_ror(m, v) ==
    Result([m EXCEPT !.f.carry = v % 2 = 1], v \div 2 + 128 * Bit(m.f.carry))

\* The member function that execute() passes to a modify mode.
Modifies(f, m, v) ==
    CASE f = "inc" -> instr_inc(m, v) [] f = "dec" -> instr_dec(m, v)
      [] f = "asl" -> instr_asl(m, v) [] f = "lsr" -> instr_lsr(m, v)
      [] f = "rol" -> instr_rol(m, v) [] f = "ror" -> instr_ror(m, v)

\* readmem(a), the instruction f, the cycles that wait, and writemem(a).
ModifyWith(f, m, a, waits) ==
    LET r == Modifies(f, readmem(m, a), Read(m, a))
    IN  writemem([r.m EXCEPT !.cycles = @ + waits], a, r.v)

-------------------------------------------------------------------------------
(* Addressing modes.  Zero page addresses are not wrapped to the page.     *)

\* The operand's address with an index added, in 16 bits.
Indexed(m, index) == (full(m) + index) % 65536

\* The pointer of (zero page, x), in two reads after a cycle that adds x.
PointerX(m) ==
    LET a == m.low + m.x
    IN  [m |-> readmem(readmem(cycle(m), a), a + 1), a |-> ReadWord(m, a)]

\* The pointer of (zero page), y.
PointerY(m) ==
    [m |-> readmem(readmem(m, m.low), m.low + 1),
     a |-> (ReadWord(m, m.low) + m.y) % 65536]

\* Faulty variant: the cycle that adds x to a zero page address is forgotten.
addrmode_zerox_read_fast(f, m) == LET m1 == fetchop_low(m) IN ReadWith(f, m1, m1.low + m1.x)

addrmode_imm_read(f, m)   == LET m1 == fetchop_low(m) IN Reads(f, m1, m1.low)
addrmode_zero_read(f, m)  == LET m1 == fetchop_low(m) IN ReadWith(f, m1, m1.low)
addrmode_zerox_read(f, m) == LET m1 == fetchop_low(m) IN cycle(ReadWith(f, m1, m1.low + m1.x))
addrmode_zeroy_read(f, m) == LET m1 == fetchop_low(m) IN cycle(ReadWith(f, m1, m1.low + m1.y))
addrmode_abs_read(f, m)   == LET m1 == fetchops(m) IN ReadWith(f, m1, full(m1))

\* absx and absy compare the high byte of the operand with that of the value read,
\* which is 0: the extra cycle is spent outside the zero page.
AbsIndexedRead(f, m, index) ==
    LET m1 == ReadWith(f, m, Indexed(m, index)) IN IF m.high # 0 THEN cycle(m1) ELSE m1
addrmode_absx_read(f, m)  == LET m1 == fetchops(m) IN AbsIndexedRead(f, m1, m1.x)
addrmode_absy_read(f, m)  == LET m1 == fetchops(m) IN AbsIndexedRead(f, m1, m1.y)

addrmode_indx_read(f, m)  == LET p == PointerX(fetchop_low(m)) IN ReadWith(f, p.m, p.a)

\* indy compares the high byte of the pointer with opargs.high, left by an instruction
\* before this one.
addrmode_indy_read(f, m) ==
    LET p  == PointerY(fetchop_low(m))
        m1 == ReadWith(f, p.m, p.a)
    IN  IF m.high # High(p.a) THEN cycle(m1) ELSE m1

addrmode_accum_modify(f, m) ==
    LET r == Modifies(f, cycle(m), m.acc) IN [r.m EXCEPT !.acc = r.v]
addrmode_zero_modify(f, m)  == LET m1 == fetchop_low(m) IN ModifyWith(f, m1, m1.low, 1)
addrmode_zerox_modify(f, m) ==
    LET m1 == fetchop_low(m) IN ModifyWith(f, cycle(m1), m1.low + m1.x, 1)
addrmode_abs_modify(f, m)   == LET m1 == fetchops(m) IN ModifyWith(f, m1, full(m1), 1)
addrmode_absx_modify(f, m)  == LET m1 == fetchops(m) IN ModifyWith(f, m1, Indexed(m1, m1.x), 2)

addrmode_zero_write(v, m)  == LET m1 == fetchop_low(m) IN writemem(m1, m1.low, v)
addrmode_zerox_write(v, m) == LET m1 == fetchop_low(m) IN writemem(cycle(m1), m1.low + m1.x, v)
addrmode_zeroy_write(v, m) == LET m1 == fetchop_low(m) IN writemem(cycle(m1), m1.low + m1.y, v)
addrmode_abs_write(v, m)   == LET m1 == fetchops(m) IN writemem(m1, full(m1), v)
addrmode_absx_write(v, m)  == LET m1 == fetchops(m) IN writemem(cycle(m1), Indexed(m1, m1.x), v)
addrmode_absy_write(v, m)  == LET m1 == fetchops(m) IN writemem(cycle(m1), Indexed(m1, m1.y), v)
addrmode_indx_write(v, m)  == LET p == PointerX(fetchop_low(m)) IN writemem(p.m, p.a, v)
addrmode_indy_write(v, m)  == LET p == PointerY(fetchop_low(m)) IN writemem(cycle(p.m), p.a, v)

-------------------------------------------------------------------------------
(* Instructions that execute() calls directly *)

\* Polls, reads the offset, and polls again when the branch is taken.
instr_branch(m, take) ==
    LET m1 == fetchop_low(last_cycle(m))
        to == (m1.pc + int8(m1.low)) % 65536
        m2 == last_cycle([cycle(m1) EXCEPT !.pc = to])
    IN  IF ~take THEN m1 ELSE IF High(m1.pc) # High(to) THEN cycle(m2) ELSE m2

\* Both poll before they write.
instr_flag(m, flag, v) == [cycle(last_cycle(m)) EXCEPT !.f[flag] = v]
instr_transfer(m, from, to) == [ZeroNeg(cycle(last_cycle(m)), m[from]) EXCEPT ![to] = m[from]]

Step(m, reg, by) ==
    LET v == (m[reg] + by) % 256 IN last_cycle([ZeroNeg(cycle(m), v) EXCEPT ![reg] = v])
instr_inx(m) == Step(m, "x", 1)
instr_iny(m) == Step(m, "y", 1)
instr_dex(m) == Step(m, "x", 255)
instr_dey(m) == Step(m, "y", 255)

instr_php(m) ==
    LET m1 == push([cycle(m) EXCEPT !.f.breakf = TRUE], ToByte([m.f EXCEPT !.breakf = TRUE]))
    IN  last_cycle([m1 EXCEPT !.f.breakf = FALSE])
instr_pha(m) == last_cycle(push(cycle(m), m.acc))

\* Polls before it pulls.
instr_plp(m) ==
    LET p == pull(last_cycle(cycle(cycle(m))))
    IN  [p.m EXCEPT !.f = [ToFlags(p.d) EXCEPT !.breakf = FALSE]]
instr_pla(m) ==
    LET p == pull(cycle(cycle(m))) IN last_cycle([ZeroNeg(p.m, p.d) EXCEPT !.acc = p.d])

\* Pushes the address of its own last byte.
instr_jsr(m) ==
    LET m1   == fetchops(m)
        last == (m1.pc - 1) % 65536
        m2   == push(push(cycle([m1 EXCEPT !.pc = last]), High(last)), Low(last))
    IN  last_cycle([m2 EXCEPT !.pc = full(m2)])
instr_jmp(m) == LET m1 == fetchops(m) IN last_cycle([m1 EXCEPT !.pc = full(m1)])

\* Where the high byte of the pointer of jmp (ind) is: a pointer at the end of a page
\* wraps to the start of the page.
PointerHigh(low, ptr) == IF low = \hFF THEN ptr - Low(ptr) ELSE (ptr + 1) % 65536
instr_jmp_ind(m) ==
    LET m1 == fetchops(m)
        hi == PointerHigh(m1.low, full(m1))
        m2 == [readmem(m1, full(m1)) EXCEPT !.pc = 256 * High(@) + Read(m1, full(m1))]
    IN  last_cycle([readmem(m2, hi) EXCEPT !.pc = Low(@) + 256 * Read(m2, hi)])

\* The two pulls of pc, low byte first.
PullPC(m) ==
    LET lo == pull(m)
        hi == pull([lo.m EXCEPT !.pc = 256 * High(@) + lo.d])
    IN  [hi.m EXCEPT !.pc = Low(@) + 256 * hi.d]
instr_rts(m) ==
    LET m1 == PullPC(cycle(cycle(m))) IN last_cycle(cycle([m1 EXCEPT !.pc = (@ + 1) % 65536]))
instr_rti(m) ==
    LET p == pull(cycle(cycle(m)))
    IN  last_cycle(PullPC([p.m EXCEPT !.f = [ToFlags(p.d) EXCEPT !.breakf = FALSE]]))
instr_brk(m) == interrupt([m EXCEPT !.f.breakf = TRUE], "brk")
instr_nop(m) == last_cycle(cycle(m))

-------------------------------------------------------------------------------
(* The switch of execute() *)

INSTR_AMODE_read == [
    ora |-> [indx |-> \h01, zero |-> \h05, imm |-> \h09, abs |-> \h0D,
             indy |-> \h11, zerox |-> \h15, absy |-> \h19, absx |-> \h1D],
    and |-> [indx |-> \h21, zero |-> \h25, imm |-> \h29, abs |-> \h2D,
             indy |-> \h31, zerox |-> \h35, absy |-> \h39, absx |-> \h3D],
    bit |-> [zero |-> \h24, abs |-> \h2C],
    eor |-> [indx |-> \h41, zero |-> \h45, imm |-> \h49, abs |-> \h4D,
             indy |-> \h51, zerox |-> \h55, absy |-> \h59, absx |-> \h5D],
    adc |-> [indx |-> \h61, zero |-> \h65, imm |-> \h69, abs |-> \h6D,
             indy |-> \h71, zerox |-> \h75, absy |-> \h79, absx |-> \h7D],
    ldy |-> [imm |-> \hA0, zero |-> \hA4, abs |-> \hAC, zerox |-> \hB4, absx |-> \hBC],
    lda |-> [indx |-> \hA1, zero |-> \hA5, imm |-> \hA9, abs |-> \hAD,
             indy |-> \hB1, zerox |-> \hB5, absy |-> \hB9, absx |-> \hBD],
    ldx |-> [imm |-> \hA2, zero |-> \hA6, abs |-> \hAE, zeroy |-> \hB6, absy |-> \hBE],
    cpy |-> [imm |-> \hC0, zero |-> \hC4, abs |-> \hCC],
    cmp |-> [indx |-> \hC1, zero |-> \hC5, imm |-> \hC9, abs |-> \hCD,
             indy |-> \hD1, zerox |-> \hD5, absy |-> \hD9, absx |-> \hDD],
    cpx |-> [imm |-> \hE0, zero |-> \hE4, abs |-> \hEC],
    sbc |-> [indx |-> \hE1, zero |-> \hE5, imm |-> \hE9, abs |-> \hED,
             indy |-> \hF1, zerox |-> \hF5, absy |-> \hF9, absx |-> \hFD]]

INSTR_AMODE_modify == [
    asl |-> [zero |-> \h06, accum |-> \h0A, abs |-> \h0E, zerox |-> \h16, absx |-> \h1E],
    rol |-> [zero |-> \h26, accum |-> \h2A, abs |-> \h2E, zerox |-> \h36, absx |-> \h3E],
    lsr |-> [zero |-> \h46, accum |-> \h4A, abs |-> \h4E, zerox |-> \h56, absx |-> \h5E],
    ror |-> [zero |-> \h66, accum |-> \h6A, abs |-> \h6E, zerox |-> \h76, absx |-> \h7E],
    dec |-> [zero |-> \hC6, abs |-> \hCE, zerox |-> \hD6, absx |-> \hDE],
    inc |-> [zero |-> \hE6, abs |-> \hEE, zerox |-> \hF6, absx |-> \hFE]]

\* Faulty variant: the zero page cases of sty and stx are swapped.
INSTR_WRITE_swapped == [
    sta |-> [indx |-> \h81, zero |-> \h85, abs |-> \h8D, indy |-> \h91, zerox |-> \h95,
             absy |-> \h99, absx |-> \h9D],
    sty |-> [zero |-> \h86, abs |-> \h8C, zerox |-> \h94],
    stx |-> [zero |-> \h84, abs |-> \h8E, zeroy |-> \h96]]

\* INSTR_WRITE, by the register that is written: sta, sty, stx.
INSTR_WRITE == [
    sta |-> [indx |-> \h81, zero |-> \h85, abs |-> \h8D, indy |-> \h91, zerox |-> \h95,
             absy |-> \h99, absx |-> \h9D],
    sty |-> [zero |-> \h84, abs |-> \h8C, zerox |-> \h94],
    stx |-> [zero |-> \h86, abs |-> \h8E, zeroy |-> \h96]]

INSTR_IMPLD == [brk |-> \h00, php |-> \h08, jsr |-> \h20, plp |-> \h28, rti |-> \h40,
    pha |-> \h48, jmp |-> \h4C, rts |-> \h60, pla |-> \h68, jmp_ind |-> \h6C, dey |-> \h88,
    iny |-> \hC8, dex |-> \hCA, inx |-> \hE8, nop |-> \hEA]

\* INSTR_OTHER: the flag a branch looks at and the value it branches on, the flag that is
\* set or cleared, the registers of a transfer.
Branches == [bpl |-> <<\h10, "neg", FALSE>>,   bmi |-> <<\h30, "neg", TRUE>>,
             bvc |-> <<\h50, "ov", FALSE>>,    bvs |-> <<\h70, "ov", TRUE>>,
             bcc |-> <<\h90, "carry", FALSE>>, bcs |-> <<\hB0, "carry", TRUE>>,
             bne |-> <<\hD0, "zero", FALSE>>,  beq |-> <<\hF0, "zero", TRUE>>]
Flags == [clc |-> <<\h18, "carry", FALSE>>,  sec |-> <<\h38, "carry", TRUE>>,
          cli |-> <<\h58, "intdis", FALSE>>, sei |-> <<\h78, "intdis", TRUE>>,
          clv |-> <<\hB8, "ov", FALSE>>,
          cld |-> <<\hD8, "decimal", FALSE>>, sed |-> <<\hF8, "decimal", TRUE>>]
Transfers == [txa |-> <<\h8A, "x", "acc">>, tya |-> <<\h98, "y", "acc">>,
              txs |-> <<\h9A, "x", "sp">>,  tay |-> <<\hA8, "acc", "y">>,
              tax |-> <<\hAA, "acc", "x">>, tsx |-> <<\hBA, "sp", "x">>]

\* The case of the switch that an opcode selects: the macro, the name and the mode.
Decode == [id \in Byte |->
    LET In(table) == {n \in DOMAIN table : \E k \in DOMAIN table[n] : table[n][k] = id}
        Row(type, table) ==
            LET n == CHOOSE n \in In(table) : TRUE
            IN  [type |-> type, name |-> n,
                 mode |-> CHOOSE k \in DOMAIN table[n] : table[n][k] = id]
        Named(type, table) ==
            [type |-> type, name |-> CHOOSE n \in DOMAIN table : table[n][1] = id,
             mode |-> "impld"]
        Has(table) == \E n \in DOMAIN table : table[n][1] = id
    IN  CASE In(INSTR_AMODE_read) # {}   -> Row("read", INSTR_AMODE_read)
          [] In(INSTR_AMODE_modify) # {} -> Row("modify", INSTR_AMODE_modify)
          [] In(INSTR_WRITE) # {}        -> Row("write", INSTR_WRITE)
          [] Has(Branches)  -> Named("branch", Branches)
          [] Has(Flags)     -> Named("flag", Flags)
          [] Has(Transfers) -> Named("transfer", Transfers)
          [] \E n \in DOMAIN INSTR_IMPLD : INSTR_IMPLD[n] = id ->
                [type |-> "impld", mode |-> "impld",
                 name |-> CHOOSE n \in DOMAIN INSTR_IMPLD : INSTR_IMPLD[n] = id]
          [] OTHER -> [type |-> "unknown", name |-> "[Unknown]", mode |-> "none"]]

ReadMode(mode, f, m) ==
    CASE mode = "imm"   -> addrmode_imm_read(f, m)   [] mode = "zero"  -> addrmode_zero_read(f, m)
      [] mode = "zerox" -> addrmode_zerox_read(f, m) [] mode = "zeroy" -> addrmode_zeroy_read(f, m)
      [] mode = "abs"   -> addrmode_abs_read(f, m)   [] mode = "absx"  -> addrmode_absx_read(f, m)
      [] mode = "absy"  -> addrmode_absy_read(f, m)  [] mode = "indx"  -> addrmode_indx_read(f, m)
      [] mode = "indy"  -> addrmode_indy_read(f, m)

ModifyMode(mode, f, m) ==
    CASE mode = "accum" -> addrmode_accum_modify(f, m)
      [] mode = "zero" -> addrmode_zero_modify(f, m)
      [] mode = "zerox" -> addrmode_zerox_modify(f, m) [] mode = "abs"  -> addrmode_abs_modify(f, m)
      [] mode = "absx"  -> addrmode_absx_modify(f, m)

WriteMode(mode, v, m) ==
    CASE mode = "zero"  -> addrmode_zero_write(v, m)
      [] mode = "zerox" -> addrmode_zerox_write(v, m)
      [] mode = "zeroy" -> addrmode_zeroy_write(v, m) [] mode = "abs"   -> addrmode_abs_write(v, m)
      [] mode = "absx"  -> addrmode_absx_write(v, m)  [] mode = "absy"  -> addrmode_absy_write(v, m)
      [] mode = "indx"  -> addrmode_indx_write(v, m)  [] mode = "indy"  -> addrmode_indy_write(v, m)

Implied(name, m) ==
    CASE name = "brk" -> instr_brk(m) [] name = "php" -> instr_php(m)
      [] name = "jsr" -> instr_jsr(m) [] name = "plp" -> instr_plp(m)
      [] name = "rti" -> instr_rti(m) [] name = "pha" -> instr_pha(m)
      [] name = "jmp" -> instr_jmp(m) [] name = "rts" -> instr_rts(m)
      [] name = "pla" -> instr_pla(m) [] name = "jmp_ind" -> instr_jmp_ind(m)
      [] name = "dey" -> instr_dey(m) [] name = "iny" -> instr_iny(m)
      [] name = "dex" -> instr_dex(m) [] name = "inx" -> instr_inx(m)
      [] name = "nop" -> instr_nop(m)

\* execute().  Every addressing mode ends in last_cycle(); an unknown opcode does nothing.
execute(m, id) ==
    LET e == Decode[id]
        n == e.name
    IN  CASE e.type = "read"   -> last_cycle(ReadMode(e.mode, n, m))
          [] e.type = "modify" -> last_cycle(ModifyMode(e.mode, n, m))
          [] e.type = "write"  ->
                last_cycle(WriteMode(e.mode, IF n = "sta" THEN m.acc
                                             ELSE IF n = "sty" THEN m.y ELSE m.x, m))
          [] e.type = "branch" -> instr_branch(m, m.f[Branches[n][2]] = Branches[n][3])
          [] e.type = "flag"   -> instr_flag(m, Flags[n][2], Flags[n][3])
          [] e.type = "transfer" -> instr_transfer(m, Transfers[n][2], Transfers[n][3])
          [] e.type = "impld"  -> Implied(n, m)
          [] OTHER -> m

\* The fetch() of run(): reported as an access of mode "x".
fetch(m) == [Access(m, "x", m.pc) EXCEPT !.pc = (@ + 1) % 65536, !.id = Read(m, m.pc)]

\* A machine about to make a call: what belongs to the call before is forgotten.
Fresh(m) == [m EXCEPT !.cycles = 0, !.log = << >>, !.id = NO_ID,
                      !.vec = NO_VEC, !.cause = "none"]

run(m) ==
    IF m.execnmi THEN [interrupt(cycle(m), "nmi") EXCEPT !.execnmi = FALSE]
    ELSE IF m.execirq THEN [interrupt(cycle(m), "irq") EXCEPT !.execirq = FALSE]
    ELSE LET m1 == fetch(m) IN execute(m1, m1.id)

\* The interrupt() that ends power().
power(m) == interrupt(m, "reset")

\* The call that a machine is about to make: power() first, run() ever after.
Call(c) == IF c.resetpending THEN power(Fresh(c)) ELSE run(Fresh(c))

fire_nmi(m) == [Fresh(m) EXCEPT !.nmipending = TRUE]
fire_irq(m) == [Fresh(m) EXCEPT !.irqpending = TRUE]

-------------------------------------------------------------------------------

\* nextaddr(): where the debugger expects the CPU after the instruction at pc.  It is the
\* address of the vector for a BRK; for RTS and RTI it looks at the two bytes on top of
\* the stack, without wrapping sp.
nextaddr(m) ==
    LET id == Read(m, m.pc)
        op == ReadWord(m, (m.pc + 1) % 65536)
        stack == Read(m, m.sp + 1 + STACK_BASE) + 256 * Read(m, m.sp + 2 + STACK_BASE)
    IN  CASE id = \h00 -> IF m.resetpending THEN RESET_VEC
                          ELSE IF m.nmipending THEN NMI_VEC ELSE IRQ_BRK_VEC
          [] id \in {\h20, \h4C} -> op
          [] id = \h6C -> Read(m, op) + 256 * Read(m, PointerHigh(Low(op), op))
          [] id = \h60 -> (stack + 1) % 65536
          [] id = \h40 -> stack
          [] OTHER -> IF took_branch(id, m.f) THEN branch_pointer(Low(op), m.pc)
                      ELSE (m.pc + num_bytes(id)) % 65536
===============================================================================

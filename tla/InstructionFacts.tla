--------------------------- MODULE InstructionFacts ---------------------------
(***************************************************************************)
(* What the operators of Instructions compute, against references: the     *)
(* arithmetic of bytes, the notes of instructions.cpp, the table that the  *)
(* debugger has of the same instructions.  Each is a fact about the        *)
(* instruction set, for all opcodes and for values around the boundaries,  *)
(* and therefore asked once, of a CPU that has yet to be powered on.       *)
(***************************************************************************)
EXTENDS Debugger

\* Bytes around the ends, the sign and the digits: 0, 1, 0F, 10, 11, ... 7F, 80, 81, ... FF.
Edges == {b \in Byte : b % 16 \in {0, 1, 15}}

\* A machine with the bytes code at pc, and flags, registers and stack pointer given.  It
\* has bytes at both ends of the stack page, and a pointer in zero page.
Machine(code, pc, f, xy, sp) ==
    [PowerOn([i \in {(pc + k) % 65536 : k \in 0 .. 2} |-> code[((i - pc) % 65536) + 1]]) EXCEPT
        !.pc = pc, !.f = f, !.x = xy, !.y = xy, !.sp = sp, !.resetpending = FALSE,
        !.ram = SetCell(SetCell(SetCell(SetCell(SetCell(@, \h01FE, \h34), \h01FF, \h12),
                                        \h0100, \h56), \h0020, \hF0), \h0021, \h80)]

\* Every opcode, at the end and in the middle of a page, with operands in zero page, at the
\* end of a page and elsewhere, all branches taken or not, with the return address below
\* the top of the stack page, across it and at its bottom.
Machines ==
    {Machine(<<id, op[1], op[2]>>, pc, ToFlags(f), xy, sp) :
        id \in Byte, op \in {<<\h20, \h00>>, <<\hFF, \h00>>, <<\h7F, \h80>>},
        pc \in {\h8010, \h80FC}, f \in {32, 255}, xy \in {0, 255}, sp \in {\hFD, \hFE, \hFF}}

-------------------------------------------------------------------------------

\* Nothing has happened yet.
BeforePower == runs = 0 /\ pos = 0

\* Operands and a carry for which the instructions and the arithmetic of bytes agree.
Calculates(a, v, c) ==
    LET m   == [PowerOn(<< >>) EXCEPT !.acc = a, !.f.carry = c]
        sum == instr_adc(m, v)
        dif == instr_sbc(m, v)
        cmp == instr_cmp(m, v)
        sub == instr_sbc([m EXCEPT !.f.carry = TRUE], v)
        rol == instr_rol(m, v)
        ror == instr_ror(m, v)
        clear == [m EXCEPT !.f.carry = FALSE]
    IN  /\ sum.acc + 256 * Bit(sum.f.carry) = a + v + Bit(c)
        /\ sum.f.ov <=> int8(a) + int8(v) + Bit(c) \notin -128 .. 127
        /\ dif.acc - 256 * Bit(~dif.f.carry) = a - v - Bit(~c)
        /\ LET less == instr_sbc([sum EXCEPT !.f.carry = ~c], v)
           IN  less.acc = a /\ (less.f.carry <=> ~sum.f.carry)
        /\ \A flag \in {"carry", "zero", "neg"} : cmp.f[flag] = sub.f[flag]
        /\ instr_ror(rol.m, rol.v).v = v /\ instr_ror(rol.m, rol.v).m.f.carry = c
        /\ instr_rol(ror.m, ror.v).v = v /\ instr_rol(ror.m, ror.v).m.f.carry = c
        /\ instr_asl(m, v) = instr_rol(clear, v) /\ instr_lsr(m, v) = instr_ror(clear, v)

Miscalculated == {t \in Edges \X Edges \X BOOLEAN : ~Calculates(t[1], t[2], t[3])}

\* adc and sbc add and subtract with the carry as the ninth bit, and adc's overflow flag
\* tells that the sum of the signed operands does not fit: the edges are 7F + 1, 80 + FF
\* and a carry into them.  What adc added, sbc takes away, carries included, so a chain of
\* bytes adds up as one number; a comparison sets the flags of a subtraction without
\* borrow; rol and ror turn nine bits and undo each other, asl and lsr let a 0 in.
ArithmeticAgrees == BeforePower => Miscalculated = {}

\* A stack pointer and an address at which what was interrupted, or called, is returned to.
Returns(sp, pc) ==
    /\ \A d \in Edges, c \in {"nmi", "irq"} :
        LET m == Machine(<<\h20, \h00, \h90>>, pc, ToFlags(d), 0, sp)
            b == instr_rti(interrupt(m, c))
        IN  /\ b.pc = pc /\ b.sp = sp /\ b.f = [m.f EXCEPT !.breakf = FALSE]
            /\ DOMAIN b.ram \subseteq DOMAIN m.ram \cup (\h0100 .. \h01FF)
    /\ LET m == run(Machine(<<\h20, \h00, \h90>>, pc, ResetFlags, 0, sp))
           b == instr_rts(m)
       IN  m.pc = \h9000 /\ b.pc = pc + 3 /\ b.sp = sp

Lost == {t \in {0, 1, 2, \h7F, \hFD, \hFE, \hFF} \X {\h8010, \h80FD, \hFFF0} : ~Returns(t[1], t[2])}

\* An interrupt at any point, with any flags and wherever the stack pointer is, the wrap
\* around of the stack page included, is undone by rti: pc, sp and the flags but the break
\* flag are those before it, and nothing outside the stack page was written.  So is jsr by
\* rts, with pc after the jsr, on both sides of a page.
ReturnsRestore == BeforePower => Lost = {}

\* The cycles that the comment of each function in instructions.cpp notes for an
\* instruction, the fetch included; "+1" are cycles it may need in addition.
NotedReads ==
    [imm |-> 2 .. 2, zero |-> 3 .. 3, zerox |-> 4 .. 4, zeroy |-> 4 .. 4, abs |-> 4 .. 4,
     absx |-> 4 .. 5, absy |-> 4 .. 5, indx |-> 6 .. 6, indy |-> 5 .. 6]
NotedModifies == [accum |-> 2, zero |-> 5, zerox |-> 6, abs |-> 6, absx |-> 7]
NotedWrites ==
    [zero |-> 3, zerox |-> 4, zeroy |-> 4, abs |-> 4, absx |-> 5, absy |-> 5,
     indx |-> 6, indy |-> 6]
NotedImplied ==
    [php |-> 3, pha |-> 3, plp |-> 4, pla |-> 4, jsr |-> 6, jmp |-> 3, jmp_ind |-> 5,
     rts |-> 6, rti |-> 6]

Noted(id) ==
    LET e == Decode[id]
    IN  CASE e.type = "read"   -> NotedReads[e.mode]
          [] e.type = "modify" -> {NotedModifies[e.mode]}
          [] e.type = "write"  -> {NotedWrites[e.mode]}
          [] e.type = "branch" -> 2 .. 4
          [] e.type \in {"flag", "transfer"} -> {2}
          [] e.type = "impld" /\ e.name \in DOMAIN NotedImplied -> {NotedImplied[e.name]}
          [] OTHER -> 1 .. 7

Miscounted == {m \in Machines : run(m).cycles \notin Noted(Read(m, m.pc))}

\* Every instruction takes the cycles that the comment of its addressing mode or of its
\* own function in instructions.cpp notes, and none more than 7: the PPU is run three dots
\* for each of them, so a cycle too few moves the whole picture.
CyclesAsNoted == BeforePower => Miscounted = {}

Unforetold ==
    {m \in Machines : Read(m, m.pc) \notin {\h00, RTI} /\ run(m).pc # nextaddr(m)}

\* nextaddr(), which works from the bytes, the flags and the debugger's own table of
\* lengths, foretells where the CPU will be after any instruction but rti and brk, for
\* branches over the end of a page and for the wrap of jmp (ind).  It fails for rts where
\* the return address wraps around in the stack page: pull() stays in the page, nextaddr()
\* reads on at 0x0200.
NextaddrForetells ==
    BeforePower => Unforetold = {m \in Machines : Read(m, m.pc) = RTS /\ m.sp >= \hFE}

\* What disassemble() has to say of an entry of the switch.
Shown(e) ==
    [name |-> IF e.name = "jmp_ind" THEN "jmp" ELSE e.name,
     mode |-> CASE e.type = "branch"  -> "branch"
                [] e.name = "jmp_ind" -> "ind"
                [] e.name \in {"jsr", "jmp"} -> "abs"
                [] OTHER -> e.mode]

Misnamed == {id \in Byte : disassemble(id) # Shown(Decode[id])}

\* The debugger shows the instruction that the CPU executes: the two tables, one in
\* instrinfo.cpp and the switch of execute(), agree in name and addressing mode for each
\* of the 256 opcodes but two: 94 is shown as sta and is sty, F8 (sed) is shown as unknown.
TablesAgree == BeforePower => Misnamed = {\h94, \hF8}
===============================================================================

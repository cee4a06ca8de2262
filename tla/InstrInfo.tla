------------------------------ MODULE InstrInfo -------------------------------
(***************************************************************************)
(* emu/core/instrinfo: what the debugger knows of the instruction set.     *)
(* Its table is a second one, beside the switch of CPU::execute(): names   *)
(* and lengths have to be kept in step by hand.  Text layout is left out:  *)
(* a disassembled instruction is its name and addressing mode.             *)
(***************************************************************************)
EXTENDS Integers

Byte == 0 .. 255
Word == {w \in Nat : w < 65536}

\* (int8_t) b
int8(b) == IF b >= 128 THEN b - 256 ELSE b

\* INSTR_MODE, a row for each name.  A second row, sta zerox with id 0x94, is in OpInfo.
INSTR_MODE == [
    brk |-> [impld |-> \h00],
    ora |-> [indx |-> \h01, zero |-> \h05, imm |-> \h09, abs |-> \h0D,
             indy |-> \h11, zerox |-> \h15, absy |-> \h19, absx |-> \h1D],
    asl |-> [zero |-> \h06, accum |-> \h0A, abs |-> \h0E, zerox |-> \h16, absx |-> \h1E],
    php |-> [impld |-> \h08], bpl |-> [branch |-> \h10], clc |-> [impld |-> \h18],
    jsr |-> [abs |-> \h20],
    and |-> [indx |-> \h21, zero |-> \h25, imm |-> \h29, abs |-> \h2D,
             indy |-> \h31, zerox |-> \h35, absy |-> \h39, absx |-> \h3D],
    bit |-> [zero |-> \h24, abs |-> \h2C],
    rol |-> [zero |-> \h26, accum |-> \h2A, abs |-> \h2E, zerox |-> \h36, absx |-> \h3E],
    plp |-> [impld |-> \h28], bmi |-> [branch |-> \h30], sec |-> [impld |-> \h38],
    rti |-> [impld |-> \h40],
    eor |-> [indx |-> \h41, zero |-> \h45, imm |-> \h49, abs |-> \h4D,
             indy |-> \h51, zerox |-> \h55, absy |-> \h59, absx |-> \h5D],
    lsr |-> [zero |-> \h46, accum |-> \h4A, abs |-> \h4E, zerox |-> \h56, absx |-> \h5E],
    pha |-> [impld |-> \h48], jmp |-> [abs |-> \h4C, ind |-> \h6C],
    bvc |-> [branch |-> \h50], cli |-> [impld |-> \h58], rts |-> [impld |-> \h60],
    adc |-> [indx |-> \h61, zero |-> \h65, imm |-> \h69, abs |-> \h6D,
             indy |-> \h71, zerox |-> \h75, absy |-> \h79, absx |-> \h7D],
    ror |-> [zero |-> \h66, accum |-> \h6A, abs |-> \h6E, zerox |-> \h76, absx |-> \h7E],
    pla |-> [impld |-> \h68], bvs |-> [branch |-> \h70], sei |-> [impld |-> \h78],
    sta |-> [indx |-> \h81, zero |-> \h85, abs |-> \h8D, indy |-> \h91, zerox |-> \h95,
             absy |-> \h99, absx |-> \h9D],
    sty |-> [zero |-> \h84, abs |-> \h8C],
    stx |-> [zero |-> \h86, abs |-> \h8E, zeroy |-> \h96],
    dey |-> [impld |-> \h88], txa |-> [impld |-> \h8A], bcc |-> [branch |-> \h90],
    tya |-> [impld |-> \h98], txs |-> [impld |-> \h9A],
    ldy |-> [imm |-> \hA0, zero |-> \hA4, abs |-> \hAC, zerox |-> \hB4, absx |-> \hBC],
    ldx |-> [imm |-> \hA2, zero |-> \hA6, abs |-> \hAE, zeroy |-> \hB6, absy |-> \hBE],
    lda |-> [indx |-> \hA1, zero |-> \hA5, imm |-> \hA9, abs |-> \hAD,
             indy |-> \hB1, zerox |-> \hB5, absy |-> \hB9, absx |-> \hBD],
    tay |-> [impld |-> \hA8], tax |-> [impld |-> \hAA], bcs |-> [branch |-> \hB0],
    clv |-> [impld |-> \hB8], tsx |-> [impld |-> \hBA],
    cpy |-> [imm |-> \hC0, zero |-> \hC4, abs |-> \hCC],
    cmp |-> [indx |-> \hC1, zero |-> \hC5, imm |-> \hC9, abs |-> \hCD,
             indy |-> \hD1, zerox |-> \hD5, absy |-> \hD9, absx |-> \hDD],
    dec |-> [zero |-> \hC6, abs |-> \hCE, zerox |-> \hD6, absx |-> \hDE],
    iny |-> [impld |-> \hC8], dex |-> [impld |-> \hCA], bne |-> [branch |-> \hD0],
    cld |-> [impld |-> \hD8],
    cpx |-> [imm |-> \hE0, zero |-> \hE4, abs |-> \hEC],
    sbc |-> [indx |-> \hE1, zero |-> \hE5, imm |-> \hE9, abs |-> \hED,
             indy |-> \hF1, zerox |-> \hF5, absy |-> \hF9, absx |-> \hFD],
    inc |-> [zero |-> \hE6, abs |-> \hEE, zerox |-> \hF6, absx |-> \hFE],
    inx |-> [impld |-> \hE8], nop |-> [impld |-> \hEA], beq |-> [branch |-> \hF0]]

Unknown == [name |-> "[Unknown]", mode |-> "none"]

\* The table by id.  It has no row for sed (0xF8).
OpInfo == [id \in Byte |->
    LET rows == {n \in DOMAIN INSTR_MODE : \E k \in DOMAIN INSTR_MODE[n] : INSTR_MODE[n][k] = id}
        n == CHOOSE n \in rows : TRUE
    IN  IF id = \h94 THEN [name |-> "sta", mode |-> "zerox"]
        ELSE IF rows = {} THEN Unknown
        ELSE [name |-> n, mode |-> CHOOSE k \in DOMAIN INSTR_MODE[n] : INSTR_MODE[n][k] = id]]

\* disassemble(): the name and the mode it prints.
disassemble(id) == OpInfo[id]

\* Faulty variant: the accumulator is taken for an operand.
num_bytes_accum(id) ==
    LET mode == OpInfo[id].mode
    IN  IF mode \in {"impld", "none"} THEN 1
        ELSE IF mode \in {"abs", "absx", "absy", "ind"} THEN 3 ELSE 2

\* The length of an instruction; an unknown one has a length of 1.
num_bytes(id) ==
    LET mode == OpInfo[id].mode
    IN  IF mode \in {"impld", "accum", "none"} THEN 1
        ELSE IF mode \in {"abs", "absx", "absy", "ind"} THEN 3 ELSE 2

\* Whether the branch id is taken with the flags ps.
took_branch(id, ps) ==
    CASE id = \h10 -> ~ps.neg   [] id = \h30 -> ps.neg
      [] id = \h50 -> ~ps.ov    [] id = \h70 -> ps.ov
      [] id = \h90 -> ~ps.carry [] id = \hB0 -> ps.carry
      [] id = \hD0 -> ~ps.zero  [] id = \hF0 -> ps.zero
      [] OTHER -> FALSE

branch_pointer(arg, pc) == (pc + 2 + int8(arg)) % 65536

\* jsr, jmp, jmp (ind)
is_jump(id) == id \in {\h20, \h4C, \h6C}

===============================================================================

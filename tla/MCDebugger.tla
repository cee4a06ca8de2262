------------------------------ MODULE MCDebugger ------------------------------
(* Programs that start with an instruction of every kind that the debugger, or the    *)
(* stack, can tell apart, and then call a subroutine in a loop.                        *)
EXTENDS InstructionFacts, TLC

\* At 8000 the instruction, then jsr 8020 and a jump back to the jsr; at 8020 rts.  The
\* NMI handler at 8100 calls the subroutine before its rti, the IRQ handler at 8110 is
\* an rti.  Elsewhere are nops.
Program(instr) ==
    LET jsr == \h8000 + Len(instr)
    IN  [i \in \h8000 .. jsr - 1 |-> instr[i - \h7FFF]]
        @@ (jsr :> \h20) @@ (jsr + 1 :> \h20) @@ (jsr + 2 :> \h80)
        @@ (jsr + 3 :> \h4C) @@ (jsr + 4 :> jsr % 256) @@ (jsr + 5 :> \h80)
        @@ (\h8020 :> \h60)
        @@ (\h8100 :> \h20) @@ (\h8101 :> \h20) @@ (\h8102 :> \h80) @@ (\h8103 :> \h40)
        @@ (\h8110 :> \h40)
        @@ (\hFFFA :> \h00) @@ (\hFFFB :> \h81) @@ (\hFFFC :> \h00) @@ (\hFFFD :> \h80)
        @@ (\hFFFE :> \h10) @@ (\hFFFF :> \h81)

\* brk, php, plp, rti, pha, cli, rts, pla, txs and an opcode of no instruction; branches
\* to 8020 and to 8001; loads, stores and jumps whose operand is the subroutine, a
\* vector, the end of a page, a mirror of the RAM, or the cell that the user writes.
Instrs ==
    {<<id>> : id \in {\h00, \h08, \h28, \h40, \h48, \h58, \h60, \h68, \h9A, \h02}}
    \cup {<<id, to>> : id \in {\hD0, \hF0}, to \in {\h1E, \hFF}}
    \cup {<<id, \h20, \h80>> : id \in {\h20, \h4C, \h6C}}
    \cup {<<id, \hFA, \hFF>> : id \in {\h6C, \h8D, \hAD, \hEE}}
    \cup {<<\h6C, \hFF, \h80>>, <<\hEE, \h00, \h08>>, <<\h4C, \h00, \h00>>}

MCPrograms == {Program(instr) : instr \in Instrs}
MCBreaks == {<<"x", \h8020, \h8021>>, <<"w", \h01FC, \h01FD>>}
MCPokes == {<<\h0000, \h20>>}
===============================================================================

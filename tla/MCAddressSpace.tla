---------------------------- MODULE MCAddressSpace ----------------------------
(* Every area with the mirrors it has on the console, over memories of two and four *)
(* cells and banks of six and eight.  Files of one to five banks of PRG ROM, with and *)
(* without a trainer, CHR ROM and the announcement of PRG RAM.                      *)
EXTENDS AddressSpace

INES == [opens |-> TRUE, magic |-> TRUE, nes20 |-> FALSE, vertical |-> FALSE,
         trainer |-> FALSE, prgram |-> FALSE, prg |-> 2, chr |-> 1]

MCFiles ==
    {[INES EXCEPT !.prg = n, !.trainer = t, !.vertical = v] :
        n \in 1 .. 5, t \in BOOLEAN, v \in BOOLEAN}
    \cup {[INES EXCEPT !.chr = 0], [INES EXCEPT !.chr = 2], [INES EXCEPT !.prgram = TRUE]}
    \cup {[INES EXCEPT !.opens = FALSE], [INES EXCEPT !.magic = FALSE],
          [INES EXCEPT !.nes20 = TRUE]}
===============================================================================

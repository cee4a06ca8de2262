------------------------------ MODULE Cartridge ------------------------------
(***************************************************************************)
(* Core::Cartridge as operators on a record: what parse() takes from an    *)
(* iNES file, and which byte of the file an address of either bus shows.   *)
(*                                                                         *)
(* A file is what parse() looks at in its header: prg and chr are bytes 4  *)
(* and 5, vertical, trainer and prgram are bits of bytes 6 and 10.  A ROM  *)
(* is the part of the file it was read from, so that a byte is its offset  *)
(* in the file.  Files are as long as their headers say; name, mapper,     *)
(* battery and the sizes of the RAMs only reach getinfo().                 *)
(***************************************************************************)
EXTENDS Integers

CONSTANTS
    PRG_BANK, CHR_BANK,     \* the units of bytes 4 and 5: 16384 and 8192
    PRG_START, CPUBUS_SIZE

\* Two banks of PRG ROM fill the upper half of the CPU's addresses, which are all that
\* sixteen bits can count.
ASSUME BankAssumption ==
    /\ PRG_BANK \in Nat \ {0} /\ CHR_BANK \in Nat \ {0}
    /\ PRG_START = 2 * PRG_BANK /\ CPUBUS_SIZE = 4 * PRG_BANK

HEADER_LEN == 16
TRAINER_LEN == 512

File == [opens : BOOLEAN, magic : BOOLEAN, nes20 : BOOLEAN, vertical : BOOLEAN,
         trainer : BOOLEAN, prgram : BOOLEAN, prg : 0 .. 255, chr : 0 .. 255]

NO_ROM == [at |-> 0, size |-> 0]
Blank == [mirroring |-> "VERT", prgram |-> FALSE, chrram |-> FALSE,
          prgrom |-> NO_ROM, chrrom |-> NO_ROM]

\* parse() refuses what is not iNES, NES 2.0 included.
Accepted(f) == f.opens /\ f.magic /\ ~f.nes20

\* parse() of a file that is accepted, by a cartridge c.  The parts are read one after
\* the other: what is not read is not skipped either.
parse(c, f) ==
    LET chrram == c.chrram \/ f.chr = 0
        prg_at == HEADER_LEN + IF f.trainer THEN TRAINER_LEN ELSE 0
        prg_end == prg_at + f.prg * PRG_BANK
    IN  [mirroring |-> IF f.vertical THEN "VERT" ELSE "HORZ",
         prgram |-> f.prgram, chrram |-> chrram,
         prgrom |-> IF f.prgram THEN c.prgrom
                    ELSE [at |-> prg_at, size |-> f.prg * PRG_BANK],
         chrrom |-> IF chrram THEN c.chrrom
                    ELSE [at |-> IF f.prgram THEN prg_at ELSE prg_end,
                          size |-> f.chr * CHR_BANK]]

\* The byte of the file that rom[i] is; past the end of the array it may be anything.
OUTSIDE == -1
Byte(rom, i) == IF i < rom.size THEN rom.at + i ELSE OUTSIDE

uint16(n) == n % CPUBUS_SIZE

\* Faulty variant: the ROM is shown from its start.
read_prgrom_first(c, addr) == Byte(c.prgrom, uint16(addr - PRG_START))

\* The upper half of the CPU's addresses shows the last banks.
read_prgrom(c, addr) ==
    LET offset == uint16(addr - PRG_START)
        start == uint16(c.prgrom.size - PRG_START)
    IN  Byte(c.prgrom, uint16(start + offset))

read_chrrom(c, addr) == Byte(c.chrrom, addr)
===============================================================================

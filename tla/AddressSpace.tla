----------------------------- MODULE AddressSpace -----------------------------
(***************************************************************************)
(* The two buses of Core::Emulator and the memories behind them: what the  *)
(* constructor and insert_rom() map where, and what the program reads back *)
(* through the mirrors of RAM, nametables and palettes.                    *)
(*                                                                         *)
(* The cartridge is inserted once, from one of Files.  Accesses to the     *)
(* registers of the PPU are the subject of PPURegs; here PPUDATA is a      *)
(* write to an address of the VRAM bus.                                    *)
(***************************************************************************)
EXTENDS Bus, Cartridge

CONSTANTS
    RAM_SIZE, PPUREG_START, APU_START, CARTRIDGE_START,
    NT_SIZE,        \* a nametable, half of VRAM_SIZE: 0x400
    NT_START, PAL_START, PAL_SIZE, PPUBUS_SIZE,
    Data,           \* bytes that the program writes, zero among them
    Files           \* files that main() may be given

\* The areas follow each other; those that the code masks addresses of start at a
\* multiple of the mask.
ASSUME LayoutAssumption ==
    /\ {RAM_SIZE, PPUREG_START, APU_START, CARTRIDGE_START} \subseteq Nat
    /\ {NT_SIZE, NT_START, PAL_START, PAL_SIZE, PPUBUS_SIZE} \subseteq Nat
    /\ TABSIZ >= 5      \* the areas of the RAM bus
    /\ 0 < RAM_SIZE /\ RAM_SIZE <= PPUREG_START /\ PPUREG_START < APU_START
    /\ APU_START < CARTRIDGE_START /\ CARTRIDGE_START < PRG_START
    /\ 0 < NT_SIZE /\ NT_START = CHR_BANK /\ NT_START % (4 * NT_SIZE) = 0
    /\ NT_START + 4 * NT_SIZE <= PAL_START
    /\ 0 < PAL_SIZE /\ PAL_START % PAL_SIZE = 0 /\ PAL_START < PPUBUS_SIZE
    /\ 0 \in Data /\ Files \subseteq File

VRAM_SIZE == 2 * NT_SIZE

VARIABLES
    rambus, vrambus,
    rammem, vrammem, palmem,
    cartridge,
    mirroring,      \* the one that the PPU's decode lambda was made for
    stage,          \* "constructed", "rejected", "inserted" or "powered"
    unset_read,     \* history: remap() has looked at a cell that was never written
    inserted,       \* history: the file of the cartridge, if any
    expected        \* history: what the program expects at each address it may write

wiring == <<rambus, vrambus, cartridge, mirroring, unset_read, inserted>>
buses == <<wiring, stage>>
vars == <<buses, rammem, vrammem, palmem, expected>>

-------------------------------------------------------------------------------

cpu_attach_bus(ram) ==
    map(map(ram, 0, PPUREG_START, "ram"), APU_START, CARTRIDGE_START, "apu")

ppu_attach_rambus(ram) == map(ram, PPUREG_START, APU_START, "ppureg")

\* The nametables get handlers that do nothing until the mirroring is known.
ppu_attach_vrambus(vram) ==
    map(map(vram, PAL_START, PPUBUS_SIZE, "palette"), NT_START, PAL_START, "none")

cartridge_attach_rambus(ram) ==
    map(map(ram, CARTRIDGE_START, PRG_START, "zero"), PRG_START, CPUBUS_SIZE, "prgrom")

cartridge_attach_vrambus(vram) == map(vram, 0, NT_START, "chrrom")

set_mirroring(vram) == remap(vram, NT_START, PAL_START, "nametable")

\* Faulty variant: the wrong bit of the nametable is dropped for horizontal mirroring.
mirror_low_bit(m, addr) ==
    LET tmp == addr % (4 * NT_SIZE)
        table == tmp \div NT_SIZE
    IN  IF m = "HORZ" THEN (table % 2) * NT_SIZE + (tmp % NT_SIZE)
                      ELSE addr % VRAM_SIZE

\* Faulty variant: horizontal mirroring keeps all four nametables.
mirror_four(m, addr) ==
    IF m = "HORZ" THEN addr % (4 * NT_SIZE) ELSE addr % VRAM_SIZE

\* The decode lambda: the cell of vrammem that an address stands for.
mirror(m, addr) ==
    LET tmp == addr % (4 * NT_SIZE)
        table == tmp \div NT_SIZE
    IN  IF m = "HORZ" THEN (table \div 2) * NT_SIZE + (tmp % NT_SIZE)
                      ELSE addr % VRAM_SIZE

-------------------------------------------------------------------------------

Writable == [ram |-> 0 .. PPUREG_START - 1, nt |-> NT_START .. PAL_START - 1,
             pal |-> PAL_START .. PPUBUS_SIZE - 1]
Zeroes == [area \in DOMAIN Writable |-> [a \in Writable[area] |-> 0]]

\* The constructor has run.  The memories hold anything.
Init ==
    /\ rambus = ppu_attach_rambus(cpu_attach_bus(reset(CPUBUS_SIZE)))
    /\ vrambus = ppu_attach_vrambus(reset(PPUBUS_SIZE))
    /\ rammem \in [0 .. RAM_SIZE - 1 -> Data]
    /\ vrammem \in [0 .. VRAM_SIZE - 1 -> Data]
    /\ palmem \in [0 .. PAL_SIZE - 1 -> Data]
    /\ cartridge = Blank /\ mirroring = "VERT"
    /\ stage = "constructed" /\ unset_read = FALSE
    /\ inserted = {} /\ expected = Zeroes

\* Cartridge::parse() refuses the file, and main() returns.
parse_fails(f) ==
    /\ stage = "constructed"
    /\ ~Accepted(f)
    /\ stage' = "rejected"
    /\ UNCHANGED <<wiring, rammem, vrammem, palmem, expected>>

\* Emulator::insert_rom() of a file that is accepted.
insert_rom(f) ==
    /\ stage = "constructed"
    /\ Accepted(f)
    /\ cartridge' = parse(cartridge, f)
    /\ mirroring' = cartridge'.mirroring
    /\ \E v \in set_mirroring(vrambus) : vrambus' = cartridge_attach_vrambus(v)
    /\ rambus' = cartridge_attach_rambus(rambus)
    /\ unset_read' = (UNSET \in {vrambus.lookup[NT_START - 1], vrambus.lookup[PAL_START - 1]})
    /\ stage' = "inserted"
    /\ inserted' = {f}
    /\ UNCHANGED <<rammem, vrammem, palmem, expected>>

\* Faulty variant: the memory of the PPU is left as it is.
power_ram_only ==
    /\ stage = "inserted"
    /\ stage' = "powered"
    /\ rammem' = [a \in 0 .. RAM_SIZE - 1 |-> 0]
    /\ UNCHANGED <<wiring, vrammem, palmem, expected>>

\* Emulator::power(), which clears the memories.
power ==
    /\ stage = "inserted"
    /\ stage' = "powered"
    /\ rammem' = [a \in 0 .. RAM_SIZE - 1 |-> 0]
    /\ vrammem' = [a \in 0 .. VRAM_SIZE - 1 |-> 0]
    /\ palmem' = [a \in 0 .. PAL_SIZE - 1 |-> 0]
    /\ UNCHANGED <<wiring, expected>>

\* Nametables of a picture of two by two that show the same memory.
SameTable(m, p, q) == p = q \/ {p, q} \in IF m = "HORZ" THEN {{0, 1}, {2, 3}}
                                                          ELSE {{0, 2}, {1, 3}}
NtTable(a) == ((a - NT_START) \div NT_SIZE) % 4

\* Two addresses of an area that are the same memory on the console.
Mirrors(area, a, b) ==
    CASE area = "ram" -> a % RAM_SIZE = b % RAM_SIZE
      [] area = "nt"  -> /\ (a - NT_START) % NT_SIZE = (b - NT_START) % NT_SIZE
                         /\ SameTable(mirroring, NtTable(a), NtTable(b))
      [] area = "pal" -> a % PAL_SIZE = b % PAL_SIZE

expect(area, addr, d) ==
    expected' = [expected EXCEPT ![area] =
                    [a \in Writable[area] |-> IF Mirrors(area, a, addr) THEN d ELSE @[a]]]

\* Bus::write() on the RAM bus.
ram_write(addr, d) ==
    /\ stage = "powered"
    /\ decode(rambus, addr) = "ram"
    /\ rammem' = [rammem EXCEPT ![addr % RAM_SIZE] = d]
    /\ expect("ram", addr, d)
    /\ UNCHANGED <<buses, vrammem, palmem>>

\* Bus::write() on the VRAM bus.
nt_write(addr, d) ==
    /\ stage = "powered"
    /\ decode(vrambus, addr) = "nametable"
    /\ vrammem' = [vrammem EXCEPT ![mirror(mirroring, addr)] = d]
    /\ expect("nt", addr, d)
    /\ UNCHANGED <<buses, rammem, palmem>>

pal_write(addr, d) ==
    /\ stage = "powered"
    /\ decode(vrambus, addr) = "palette"
    /\ palmem' = [palmem EXCEPT ![addr % PAL_SIZE] = d]
    /\ expect("pal", addr, d)
    /\ UNCHANGED <<buses, rammem, vrammem>>

Next ==
    \/ \E f \in Files : parse_fails(f) \/ insert_rom(f)
    \/ power
    \/ \E d \in Data :
          \/ \E a \in Writable.ram : ram_write(a, d)
          \/ \E a \in Writable.nt  : nt_write(a, d)
          \/ \E a \in Writable.pal : pal_write(a, d)

Spec == Init /\ [][Next]_vars

-------------------------------------------------------------------------------

\* The value that Bus::read() returns from the writable areas.
ram_read(a) == rammem[a % RAM_SIZE]
nt_read(a) == vrammem[mirror(mirroring, a)]
pal_read(a) == palmem[a % PAL_SIZE]

\* The memories keep their sizes, and no address is decoded to a cell outside of them,
\* as the assertions of PPU::set_mirroring() want it.
TypeOK ==
    /\ rammem \in [0 .. RAM_SIZE - 1 -> Data]
    /\ vrammem \in [0 .. VRAM_SIZE - 1 -> Data]
    /\ palmem \in [0 .. PAL_SIZE - 1 -> Data]
    /\ \A a \in Writable.nt : mirror(mirroring, a) \in DOMAIN vrammem
    /\ inserted \subseteq Files
    /\ mirroring \in {"HORZ", "VERT"} /\ unset_read \in BOOLEAN
    /\ stage \in {"constructed", "rejected", "inserted", "powered"}

RamOwner(a) ==
    CASE a < PPUREG_START    -> {"ram"}
      [] a \in PPUREG_START .. APU_START - 1 -> {"ppureg"}
      [] a \in APU_START .. CARTRIDGE_START - 1 -> {"apu"}
      [] a \in CARTRIDGE_START .. PRG_START - 1 -> {"zero"}
      [] OTHER               -> {"prgrom"}

VramOwner(a) ==
    CASE a < NT_START  -> {"chrrom"}
      [] a \in NT_START .. PAL_START - 1 -> {"nametable", "none"}
      [] OTHER         -> {"palette"}

\* Once a cartridge is inserted, every address of both buses leads to the component that
\* const.hpp gives it to, although constructor, PPU and cartridge map their areas in an
\* order of their own: power() and the program never look up a cell that is not set.
EveryAddressOwned ==
    stage \in {"inserted", "powered"} =>
        /\ \A a \in 0 .. CPUBUS_SIZE - 1 :
              rambus.lookup[a] # UNSET /\ decode(rambus, a) \in RamOwner(a)
        /\ \A a \in 0 .. PPUBUS_SIZE - 1 :
              vrambus.lookup[a] # UNSET /\ decode(vrambus, a) \in VramOwner(a)

\* Every address reads as what the program has last written to it or to one of its
\* mirrors: RAM four times over, the palettes and, if remap() has installed them, the
\* nametables in the pairs that the cartridge asks for.
MirrorsAgree ==
    stage = "powered" =>
        /\ \A a \in Writable.ram : ram_read(a) = expected.ram[a]
        /\ decode(vrambus, NT_START) = "nametable"
              => \A a \in Writable.nt : nt_read(a) = expected.nt[a]
        /\ \A a \in Writable.pal : pal_read(a) = expected.pal[a]

\* Where the PRG ROM of a file ends, and its CHR ROM begins.
PrgEnd(f) == HEADER_LEN + (IF f.trainer THEN TRAINER_LEN ELSE 0) + f.prg * PRG_BANK

\* The console shows the program where the file keeps it: the last bank of PRG ROM, with
\* the three vectors at its end, is on top of the CPU's addresses, the bank before it,
\* if there is one, below, and the first of CHR ROM at the bottom of the PPU's.  The
\* parts of the file are found behind whatever parse() reads before them, and
\* read_prgrom() gets the last banks although its sixteen bits pass below zero for one
\* bank and above the top for four.  They hold the size of four banks at most, and a
\* header that announces PRG RAM has its PRG ROM not read at all.
RomInPlace ==
    \A f \in inserted : ~f.prgram =>
        /\ f.prg \in 1 .. 4 =>
              \A a \in CPUBUS_SIZE - PRG_BANK .. CPUBUS_SIZE - 1 :
                  read_prgrom(cartridge, a) = PrgEnd(f) - (CPUBUS_SIZE - a)
        /\ f.prg \in 2 .. 4 =>
              \A a \in PRG_START .. CPUBUS_SIZE - PRG_BANK - 1 :
                  read_prgrom(cartridge, a) = PrgEnd(f) - (CPUBUS_SIZE - a)
        /\ f.chr > 0 =>
              \A a \in 0 .. NT_START - 1 : read_chrrom(cartridge, a) = PrgEnd(f) + a

\* emu/util/heaparray.hpp, line 15: "still undefined behavior to read uninitialized
\* elements of the array", and lookup is such an array.  remap() looks only at cells
\* that are set.
LooksAtSetCells == ~unset_read
===============================================================================

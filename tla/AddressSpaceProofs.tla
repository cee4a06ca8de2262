-------------------------- MODULE AddressSpaceProofs --------------------------
(***************************************************************************)
(* The address space of the emulator for every layout of its areas.        *)
(*                                                                         *)
(* Three inductive invariants that do not need each other: the cartridge   *)
(* is what parse() made of its one file, the buses have their areas as far *)
(* as they have been wired, and every cell of memory is what the program   *)
(* expects at all the addresses that mirror it.                            *)
(***************************************************************************)
EXTENDS AddressSpace, TLAPS

\* What % and \div compute from a number given as a quotient and a remainder.
LEMMA DivMod ==
  ASSUME NEW m \in Nat, m > 0, NEW q \in Int, NEW r \in 0 .. m - 1,
         NEW n \in Int, n = m * q + r
  PROVE  n % m = r /\ n \div m = q
<1>1. PICK p \in Int, s \in 0 .. m - 1 : n = m * p + s /\ p = n \div m /\ s = n % m
  OBVIOUS
<1>2. m * (q - p) = s - r /\ m * (q - p) < m /\ -m < m * (q - p)
  BY <1>1
<1>3. /\ q - p >= 1 => m * (q - p) >= m
      /\ q - p <= -1 => m * (q - p) <= -m
  OBVIOUS
<1>4. q = p
  BY <1>2, <1>3
<1>5. QED
  BY <1>1, <1>4

\* A quotient and a remainder below the divisor are unique.
LEMMA QuotientUnique ==
  ASSUME NEW m \in Nat, m > 0, NEW q \in Int, NEW p \in Int,
         NEW r \in 0 .. m - 1, NEW s \in 0 .. m - 1,
         m * q + r = m * p + s
  PROVE  q = p /\ r = s
<1>1. PICK n \in Int : n = m * q + r /\ n = m * p + s
  OBVIOUS
<1>2. QED
  BY <1>1, DivMod

\* Every number has a quotient and a remainder, which \div and % compute.
LEMMA Divides ==
  ASSUME NEW m \in Nat, m > 0, NEW n \in Nat
  PROVE  \E q \in Nat, r \in 0 .. m - 1 :
            n = m * q + r /\ n \div m = q /\ n % m = r
<1>1. PICK q \in Int, r \in 0 .. m - 1 : n = m * q + r /\ q = n \div m /\ r = n % m
  OBVIOUS
<1>2. q <= -1 => m * q <= -m
  OBVIOUS
<1>3. QED
  BY <1>1, <1>2

\* Sixteen bits keep what is below their range, and bring back what is within one range
\* of it.
LEMMA Uint16 ==
  ASSUME NEW n \in Int
  PROVE  /\ n \in 0 .. CPUBUS_SIZE - 1 => uint16(n) = n
         /\ n \in CPUBUS_SIZE .. 2 * CPUBUS_SIZE - 1 => uint16(n) = n - CPUBUS_SIZE
         /\ n \in -CPUBUS_SIZE .. -1 => uint16(n) = n + CPUBUS_SIZE
<1>1. CPUBUS_SIZE \in Nat /\ CPUBUS_SIZE > 0
  BY BankAssumption
<1>2. ASSUME n \in 0 .. CPUBUS_SIZE - 1 PROVE uint16(n) = n
  <2>1. n = CPUBUS_SIZE * 0 + n
    BY <1>1
  <2>2. QED
    BY <1>1, <1>2, <2>1, DivMod DEF uint16
<1>3. ASSUME n \in CPUBUS_SIZE .. 2 * CPUBUS_SIZE - 1 PROVE uint16(n) = n - CPUBUS_SIZE
  <2>1. n = CPUBUS_SIZE * 1 + (n - CPUBUS_SIZE) /\ n - CPUBUS_SIZE \in 0 .. CPUBUS_SIZE - 1
    BY <1>1, <1>3
  <2>2. QED
    BY <1>1, <2>1, DivMod DEF uint16
<1>4. ASSUME n \in -CPUBUS_SIZE .. -1 PROVE uint16(n) = n + CPUBUS_SIZE
  <2>1. n = CPUBUS_SIZE * (-1) + (n + CPUBUS_SIZE) /\ n + CPUBUS_SIZE \in 0 .. CPUBUS_SIZE - 1
    BY <1>1, <1>4
  <2>2. QED
    BY <1>1, <2>1, DivMod DEF uint16
<1>5. QED
  BY <1>2, <1>3, <1>4

\* A ROM of k banks, of one to four, ends at the top of the CPU's addresses; with one
\* bank only the upper half of its area is claimed.
LEMMA LastBanksOnTop ==
  ASSUME NEW c, NEW k \in 1 .. 4, NEW at \in Nat, NEW a \in PRG_START .. CPUBUS_SIZE - 1,
         c.prgrom = [at |-> at, size |-> k * PRG_BANK],
         k = 1 => a >= CPUBUS_SIZE - PRG_BANK
  PROVE  read_prgrom(c, a) = at + k * PRG_BANK - (CPUBUS_SIZE - a)
<1> DEFINE size == k * PRG_BANK
           offset == a - PRG_START
           start == IF k = 1 THEN 3 * PRG_BANK ELSE size - PRG_START
           index == size - (CPUBUS_SIZE - a)
<1>1. /\ PRG_BANK \in Nat /\ PRG_BANK > 0
      /\ PRG_START = 2 * PRG_BANK /\ CPUBUS_SIZE = 4 * PRG_BANK
  BY BankAssumption
<1>2. size \in {PRG_BANK, 2 * PRG_BANK, 3 * PRG_BANK, 4 * PRG_BANK}
      /\ (k = 1 <=> size = PRG_BANK)
  BY <1>1
<1> HIDE DEF size
<1>3. offset \in 0 .. 2 * PRG_BANK - 1 /\ uint16(offset) = offset
  BY <1>1, Uint16
<1>4. uint16(size - PRG_START) = start
  BY <1>1, <1>2, Uint16
<1>5. uint16(start + offset) = index /\ index \in 0 .. size - 1
  BY <1>1, <1>2, <1>3, Uint16
<1>6. c.prgrom.at = at /\ c.prgrom.size = size
  BY DEF size
<1>7. read_prgrom(c, a) = at + index
  BY <1>2, <1>1, <1>3, <1>4, <1>5, <1>6 DEF read_prgrom, Byte
<1>8. QED
  BY <1>1, <1>2, <1>7 DEF size

\* What a cartridge that has parsed one file shows.
LEMMA ParsedInPlace ==
  ASSUME NEW f \in File, ~f.prgram, NEW c, c = parse(Blank, f)
  PROVE  /\ f.prg \in 1 .. 4 =>
               \A a \in CPUBUS_SIZE - PRG_BANK .. CPUBUS_SIZE - 1 :
                   read_prgrom(c, a) = PrgEnd(f) - (CPUBUS_SIZE - a)
         /\ f.prg \in 2 .. 4 =>
               \A a \in PRG_START .. CPUBUS_SIZE - PRG_BANK - 1 :
                   read_prgrom(c, a) = PrgEnd(f) - (CPUBUS_SIZE - a)
         /\ f.chr > 0 => \A a \in 0 .. NT_START - 1 : read_chrrom(c, a) = PrgEnd(f) + a
<1> DEFINE prg_at == HEADER_LEN + IF f.trainer THEN TRAINER_LEN ELSE 0
<1>1. /\ PRG_BANK \in Nat /\ PRG_BANK > 0 /\ CHR_BANK \in Nat /\ CHR_BANK > 0
      /\ PRG_START = 2 * PRG_BANK /\ CPUBUS_SIZE = 4 * PRG_BANK /\ NT_START = CHR_BANK
  BY BankAssumption, LayoutAssumption
<1>2. prg_at \in Nat /\ f.prg \in Nat /\ f.chr \in Nat /\ f.trainer \in BOOLEAN
  BY DEF HEADER_LEN, TRAINER_LEN, File
<1>3. PrgEnd(f) = prg_at + f.prg * PRG_BANK /\ f.prg * PRG_BANK \in Nat
  BY <1>1, <1>2 DEF PrgEnd
<1> HIDE DEF prg_at
<1>4. c.prgrom = [at |-> prg_at, size |-> f.prg * PRG_BANK]
  BY DEF parse, prg_at
<1>5. ASSUME f.prg \in 1 .. 4, NEW a \in PRG_START .. CPUBUS_SIZE - 1,
             f.prg = 1 => a >= CPUBUS_SIZE - PRG_BANK
      PROVE  read_prgrom(c, a) = PrgEnd(f) - (CPUBUS_SIZE - a)
  <2>1. read_prgrom(c, a) = prg_at + f.prg * PRG_BANK - (CPUBUS_SIZE - a)
    BY <1>2, <1>4, <1>5, LastBanksOnTop
  <2>2. QED
    BY <1>1, <1>2, <1>3, <2>1
<1>6. ASSUME f.chr > 0, NEW a \in 0 .. NT_START - 1
      PROVE  read_chrrom(c, a) = PrgEnd(f) + a
  <2>1. c.chrrom = [at |-> PrgEnd(f), size |-> f.chr * CHR_BANK]
    BY <1>2, <1>3, <1>6 DEF parse, Blank, prg_at
  <2>2. f.chr * CHR_BANK >= CHR_BANK
    BY <1>1, <1>2, <1>6
  <2>3. a < c.chrrom.size /\ c.chrrom.at = PrgEnd(f)
    BY <1>1, <1>2, <2>1, <2>2
  <2>4. QED
    BY <2>3 DEF read_chrrom, Byte
<1>7. ASSUME NEW a \in CPUBUS_SIZE - PRG_BANK .. CPUBUS_SIZE - 1
      PROVE  a \in PRG_START .. CPUBUS_SIZE - 1 /\ a >= CPUBUS_SIZE - PRG_BANK
  BY <1>1
<1>8. ASSUME NEW a \in PRG_START .. CPUBUS_SIZE - PRG_BANK - 1
      PROVE  a \in PRG_START .. CPUBUS_SIZE - 1
  BY <1>1
<1>9. f.prg \in 2 .. 4 => f.prg \in 1 .. 4 /\ f.prg # 1
  OBVIOUS
<1>10. QED
  BY <1>5, <1>6, <1>7, <1>8, <1>9

\* The cartridge is blank until it parses its one file.
CartridgeInv ==
    /\ inserted \subseteq Files
    /\ stage = "constructed" => cartridge = Blank
    /\ \A f \in inserted : cartridge = parse(Blank, f)

\* The files that are refused, and everything after the insertion, leave it alone.
LEMMA CartridgeInvariant == Spec => []CartridgeInv
<1>1. Init => CartridgeInv
  BY DEF Init, CartridgeInv
<1>2. CartridgeInv /\ [Next]_vars => CartridgeInv'
  <2> SUFFICES ASSUME CartridgeInv, [Next]_vars PROVE CartridgeInv'
    OBVIOUS
  <2>1. ASSUME NEW f \in Files, insert_rom(f) PROVE CartridgeInv'
    BY <2>1 DEF insert_rom, CartridgeInv
  <2>2. ASSUME NEW f \in Files, parse_fails(f) PROVE CartridgeInv'
    BY <2>2 DEF parse_fails, wiring, CartridgeInv
  <2>3. CASE power
    BY <2>3 DEF power, wiring, CartridgeInv
  <2>4. ASSUME NEW a, NEW d, ram_write(a, d) \/ nt_write(a, d) \/ pal_write(a, d)
        PROVE  CartridgeInv'
    BY <2>4 DEF ram_write, nt_write, pal_write, buses, wiring, CartridgeInv
  <2>5. CASE UNCHANGED vars
    BY <2>5 DEF vars, buses, wiring, CartridgeInv
  <2>6. QED
    BY <2>1, <2>2, <2>3, <2>4, <2>5 DEF Next
<1>3. QED
  BY <1>1, <1>2, PTL DEF Spec

\* Cartridge::parse() and read_prgrom(): for every size of a bank, a file of up to four
\* banks of PRG ROM has its last banks, and the vectors, on top of the CPU's addresses.
THEOREM RomsInPlace == Spec => []RomInPlace
<1>1. CartridgeInv => RomInPlace
  <2>1. ASSUME CartridgeInv, NEW f \in inserted
        PROVE  f \in File /\ cartridge = parse(Blank, f)
    BY <2>1, LayoutAssumption DEF CartridgeInv
  <2>2. QED
    BY <2>1, ParsedInPlace DEF RomInPlace
<1>2. QED
  BY <1>1, CartridgeInvariant, PTL

-------------------------------------------------------------------------------

\* A bus of n addresses that has given out k ids.
Shape(b, n, k) ==
    /\ DOMAIN b = {"lookup", "tab", "assigned"} /\ b.assigned = 0 .. k - 1
    /\ DOMAIN b.lookup = 0 .. n - 1
    /\ DOMAIN b.tab = 0 .. TABSIZ - 1
    /\ \A a \in 0 .. n - 1 : b.lookup[a] \in 0 .. k - 1 \/ b.lookup[a] = UNSET

Owned(b, a, h) == b.lookup[a] # UNSET /\ decode(b, a) = h

\* The lowest id that is free is the number of those in use.
LEMMA FreeId ==
  ASSUME NEW k \in Nat, k < TABSIZ
  PROVE  Min(0 .. TABSIZ - 1 \ (0 .. k - 1)) = k
<1> DEFINE S == 0 .. TABSIZ - 1 \ (0 .. k - 1)
<1>1. k \in S /\ \A y \in S : k <= y /\ y \in Int
  BY TABSIZAssumption
<1> HIDE DEF S
<1>2. ASSUME NEW x \in S, \A y \in S : x <= y PROVE x = k
  BY <1>1, <1>2
<1>3. Min(S) = k
  BY <1>1, <1>2 DEF Min
<1>4. QED
  BY <1>3 DEF S

\* Bus::reset() leaves a bus that has given out no id.
LEMMA ResetShape ==
  ASSUME NEW n \in Nat
  PROVE  Shape(reset(n), n, 0)
BY DEF Shape, reset

\* Bus::map(): the area belongs to its handler, and the other addresses to whom they did.
LEMMA MapOwns ==
  ASSUME NEW n \in Nat, NEW k \in Nat, k < TABSIZ, NEW b, Shape(b, n, k),
         NEW start \in Int, NEW end \in Int, NEW handler
  PROVE  /\ Shape(map(b, start, end, handler), n, k + 1)
         /\ \A a \in 0 .. n - 1 :
               IF start <= a /\ a < end
               THEN Owned(map(b, start, end, handler), a, handler)
               ELSE \A h : Owned(b, a, h) => Owned(map(b, start, end, handler), a, h)
<1> DEFINE c == map(b, start, end, handler)
<1>1. b.assigned = 0 .. k - 1 /\ Min(0 .. TABSIZ - 1 \ b.assigned) = k
  BY FreeId DEF Shape
<1>2. c = [lookup   |-> [a \in DOMAIN b.lookup |->
                            IF start <= a /\ a < end THEN k ELSE b.lookup[a]],
           tab      |-> [b.tab EXCEPT ![k] = handler],
           assigned |-> b.assigned \cup {k}]
  BY <1>1 DEF map
<1> HIDE DEF c
<1>3. b.assigned \cup {k} = 0 .. k
  BY <1>1
<1>4. /\ c.lookup = [a \in 0 .. n - 1 |-> IF start <= a /\ a < end THEN k ELSE b.lookup[a]]
      /\ c.tab = [b.tab EXCEPT ![k] = handler]
      /\ c.assigned = 0 .. k
  BY <1>2, <1>3 DEF Shape
<1>5. k \in DOMAIN b.tab /\ k # UNSET
  BY TABSIZAssumption DEF Shape, UNSET
<1>6. Shape(c, n, k + 1)
  <2>1. DOMAIN c = {"lookup", "tab", "assigned"} /\ c.assigned = 0 .. (k + 1) - 1
    BY <1>2, <1>4
  <2>2. DOMAIN c.lookup = 0 .. n - 1 /\ DOMAIN c.tab = 0 .. TABSIZ - 1
    BY <1>4 DEF Shape
  <2>3. ASSUME NEW a \in 0 .. n - 1
        PROVE  c.lookup[a] \in 0 .. (k + 1) - 1 \/ c.lookup[a] = UNSET
    BY <1>4 DEF Shape
  <2>4. QED
    BY <2>1, <2>2, <2>3 DEF Shape
<1>7. ASSUME NEW a \in 0 .. n - 1, start <= a /\ a < end PROVE Owned(c, a, handler)
  BY <1>4, <1>5, <1>7 DEF Owned, decode
<1>8. ASSUME NEW a \in 0 .. n - 1, ~(start <= a /\ a < end), NEW h, Owned(b, a, h)
      PROVE  Owned(c, a, h)
  <2>1. c.lookup[a] = b.lookup[a] /\ b.lookup[a] \in 0 .. k - 1
    BY <1>4, <1>8 DEF Shape, Owned
  <2>2. c.tab[b.lookup[a]] = b.tab[b.lookup[a]]
    BY <1>4, <1>5, <2>1
  <2>3. QED
    BY <1>8, <2>1, <2>2 DEF Owned, decode
<1>9. QED
  BY <1>6, <1>7, <1>8 DEF c

\* Bus::remap(): one area may get another handler; the ids stay where they are.
LEMMA RemapOwns ==
  ASSUME NEW n \in Nat, NEW k \in Nat, NEW b, Shape(b, n, k),
         NEW start \in 0 .. n - 1, b.lookup[start] \in 0 .. k - 1, k <= TABSIZ,
         NEW end, NEW handler,
         NEW c \in remap(b, start, end, handler)
  PROVE  /\ Shape(c, n, k)
         /\ \A h : \A a \in 0 .. n - 1 :
               Owned(b, a, h) =>
                   (Owned(c, a, h) \/ (Owned(c, a, handler) /\ h = decode(b, start)))
<1> DEFINE id == b.lookup[start]
           with == [b EXCEPT !.tab[id] = handler]
<1>1. c = b \/ c = with
  BY DEF remap
<1>2. CASE c = b
  BY <1>2
<1>3. CASE c = with
  <2>1. /\ c.lookup = b.lookup
        /\ c.tab = [b.tab EXCEPT ![id] = handler]
        /\ c.assigned = 0 .. k - 1 /\ DOMAIN c = DOMAIN b
    BY <1>3 DEF Shape
  <2>2. Shape(c, n, k)
    BY <2>1 DEF Shape
  <2>3. id \in DOMAIN b.tab
    BY TABSIZAssumption DEF Shape
  <2>4. ASSUME NEW a \in 0 .. n - 1, NEW h, Owned(b, a, h)
        PROVE  Owned(c, a, h) \/ (Owned(c, a, handler) /\ h = decode(b, start))
    <3>1. b.lookup[a] \in DOMAIN b.tab
      BY <2>4, TABSIZAssumption DEF Owned, Shape
    <3>2. CASE b.lookup[a] = id
      BY <2>1, <2>3, <2>4, <3>2 DEF Owned, decode
    <3>3. CASE b.lookup[a] # id
      BY <2>1, <2>3, <2>4, <3>1, <3>3 DEF Owned, decode
    <3>4. QED
      BY <3>2, <3>3
  <2>5. QED
    BY <2>2, <2>4
<1>4. QED
  BY <1>1, <1>2, <1>3

\* What the constructor leaves: the areas of CPU and PPU have their owners.
RamWired(b) ==
    /\ Shape(b, CPUBUS_SIZE, 3)
    /\ \A a \in 0 .. PPUREG_START - 1 : Owned(b, a, "ram")
    /\ \A a \in PPUREG_START .. APU_START - 1 : Owned(b, a, "ppureg")
    /\ \A a \in APU_START .. CARTRIDGE_START - 1 : Owned(b, a, "apu")

VramWired(b) ==
    /\ Shape(b, PPUBUS_SIZE, 2)
    /\ \A a \in NT_START .. PAL_START - 1 : Owned(b, a, "none")
    /\ \A a \in PAL_START .. PPUBUS_SIZE - 1 : Owned(b, a, "palette")

\* What insert_rom() leaves.
RamReady(b) ==
    \A a \in 0 .. CPUBUS_SIZE - 1 : b.lookup[a] # UNSET /\ decode(b, a) \in RamOwner(a)
VramReady(b) ==
    \A a \in 0 .. PPUBUS_SIZE - 1 : b.lookup[a] # UNSET /\ decode(b, a) \in VramOwner(a)

\* The order of the areas, with every boundary a natural number.
LEMMA Layout ==
  /\ {RAM_SIZE, PPUREG_START, APU_START, CARTRIDGE_START, PRG_START, CPUBUS_SIZE} \subseteq Nat
  /\ {NT_SIZE, NT_START, PAL_START, PAL_SIZE, PPUBUS_SIZE, TABSIZ} \subseteq Nat
  /\ 0 < PPUREG_START /\ PPUREG_START < APU_START /\ APU_START < CARTRIDGE_START
  /\ CARTRIDGE_START < PRG_START /\ PRG_START < CPUBUS_SIZE
  /\ 0 < NT_START /\ NT_START < PAL_START /\ PAL_START < PPUBUS_SIZE
  /\ TABSIZ >= 5
BY LayoutAssumption, BankAssumption, TABSIZAssumption

\* CPU::attach_bus() and PPU::attach_bus() on buses that have just been reset.
LEMMA ConstructorWires ==
  /\ RamWired(ppu_attach_rambus(cpu_attach_bus(reset(CPUBUS_SIZE))))
  /\ VramWired(ppu_attach_vrambus(reset(PPUBUS_SIZE)))
<1> USE Layout
<1>1. RamWired(ppu_attach_rambus(cpu_attach_bus(reset(CPUBUS_SIZE))))
  <2> DEFINE b0 == reset(CPUBUS_SIZE)
             b1 == map(b0, 0, PPUREG_START, "ram")
             b2 == map(b1, APU_START, CARTRIDGE_START, "apu")
             b3 == map(b2, PPUREG_START, APU_START, "ppureg")
  <2>1. Shape(b0, CPUBUS_SIZE, 0)
    BY ResetShape
  <2> HIDE DEF b0
  <2>2. Shape(b1, CPUBUS_SIZE, 1) /\ \A a \in 0 .. PPUREG_START - 1 : Owned(b1, a, "ram")
    BY <2>1, MapOwns
  <2> HIDE DEF b1
  <2>3. /\ Shape(b2, CPUBUS_SIZE, 2)
        /\ \A a \in 0 .. PPUREG_START - 1 : Owned(b2, a, "ram")
        /\ \A a \in APU_START .. CARTRIDGE_START - 1 : Owned(b2, a, "apu")
    BY <2>2, MapOwns
  <2> HIDE DEF b2
  <2>4. RamWired(b3)
    BY <2>3, MapOwns DEF RamWired
  <2>5. QED
    BY <2>4 DEF b3, b2, b1, b0, ppu_attach_rambus, cpu_attach_bus
<1>2. VramWired(ppu_attach_vrambus(reset(PPUBUS_SIZE)))
  <2> DEFINE b0 == reset(PPUBUS_SIZE)
             b1 == map(b0, PAL_START, PPUBUS_SIZE, "palette")
             b2 == map(b1, NT_START, PAL_START, "none")
  <2>1. Shape(b0, PPUBUS_SIZE, 0)
    BY ResetShape
  <2> HIDE DEF b0
  <2>2. /\ Shape(b1, PPUBUS_SIZE, 1)
        /\ \A a \in PAL_START .. PPUBUS_SIZE - 1 : Owned(b1, a, "palette")
    BY <2>1, MapOwns
  <2> HIDE DEF b1
  <2>3. VramWired(b2)
    BY <2>2, MapOwns DEF VramWired
  <2>4. QED
    BY <2>3 DEF b2, b1, b0, ppu_attach_vrambus
<1>3. QED
  BY <1>1, <1>2

\* set_mirroring() and Cartridge::attach_bus() on the buses of the constructor.
LEMMA CartridgeCompletes ==
  ASSUME NEW b, RamWired(b), NEW v, VramWired(v), NEW w \in set_mirroring(v)
  PROVE  RamReady(cartridge_attach_rambus(b)) /\ VramReady(cartridge_attach_vrambus(w))
<1> USE Layout
<1>1. RamReady(cartridge_attach_rambus(b))
  <2> DEFINE b1 == map(b, CARTRIDGE_START, PRG_START, "zero")
             b2 == map(b1, PRG_START, CPUBUS_SIZE, "prgrom")
  <2>1. /\ Shape(b1, CPUBUS_SIZE, 4)
        /\ \A a \in 0 .. PPUREG_START - 1 : Owned(b1, a, "ram")
        /\ \A a \in PPUREG_START .. APU_START - 1 : Owned(b1, a, "ppureg")
        /\ \A a \in APU_START .. CARTRIDGE_START - 1 : Owned(b1, a, "apu")
        /\ \A a \in CARTRIDGE_START .. PRG_START - 1 : Owned(b1, a, "zero")
    BY MapOwns DEF RamWired
  <2> HIDE DEF b1
  <2>2. /\ \A a \in 0 .. PPUREG_START - 1 : Owned(b2, a, "ram")
        /\ \A a \in PPUREG_START .. APU_START - 1 : Owned(b2, a, "ppureg")
        /\ \A a \in APU_START .. CARTRIDGE_START - 1 : Owned(b2, a, "apu")
        /\ \A a \in CARTRIDGE_START .. PRG_START - 1 : Owned(b2, a, "zero")
        /\ \A a \in PRG_START .. CPUBUS_SIZE - 1 : Owned(b2, a, "prgrom")
    BY <2>1, MapOwns
  <2> HIDE DEF b2
  <2>3. RamReady(b2)
    BY <2>2 DEF RamReady, Owned, RamOwner
  <2>4. QED
    BY <2>3 DEF b2, b1, cartridge_attach_rambus
<1>2. VramReady(cartridge_attach_vrambus(w))
  <2> DEFINE x == map(w, 0, NT_START, "chrrom")
  <2>1. /\ NT_START \in 0 .. PPUBUS_SIZE - 1 /\ v.lookup[NT_START] \in 0 .. 1
        /\ decode(v, NT_START) = "none"
    <3>1. NT_START \in 0 .. PPUBUS_SIZE - 1 /\ NT_START \in NT_START .. PAL_START - 1
      OBVIOUS
    <3>2. v.lookup[NT_START] # UNSET /\ decode(v, NT_START) = "none"
      BY <3>1 DEF VramWired, Owned
    <3>3. v.lookup[NT_START] \in 0 .. 2 - 1 \/ v.lookup[NT_START] = UNSET
      BY <3>1 DEF VramWired, Shape
    <3>4. QED
      BY <3>1, <3>2, <3>3
  <2>2. /\ Shape(w, PPUBUS_SIZE, 2)
        /\ \A h : \A a \in 0 .. PPUBUS_SIZE - 1 :
              Owned(v, a, h) =>
                  (Owned(w, a, h) \/ (Owned(w, a, "nametable") /\ h = "none"))
    BY <2>1, RemapOwns DEF set_mirroring, VramWired
  <2>3. /\ \A a \in NT_START .. PAL_START - 1 : Owned(w, a, "none") \/ Owned(w, a, "nametable")
        /\ \A a \in PAL_START .. PPUBUS_SIZE - 1 : Owned(w, a, "palette")
    BY <2>2 DEF VramWired
  <2>4. /\ \A a \in 0 .. NT_START - 1 : Owned(x, a, "chrrom")
        /\ \A a \in NT_START .. PAL_START - 1 : Owned(x, a, "none") \/ Owned(x, a, "nametable")
        /\ \A a \in PAL_START .. PPUBUS_SIZE - 1 : Owned(x, a, "palette")
    BY <2>2, <2>3, MapOwns
  <2> HIDE DEF x
  <2>5. VramReady(x)
    BY <2>4 DEF VramReady, Owned, VramOwner
  <2>6. QED
    BY <2>5 DEF x, cartridge_attach_vrambus
<1>3. QED
  BY <1>1, <1>2

\* The buses only change when the cartridge is inserted.
WiringInv ==
    /\ stage = "constructed" => RamWired(rambus) /\ VramWired(vrambus)
    /\ stage \in {"inserted", "powered"} => RamReady(rambus) /\ VramReady(vrambus)

\* Emulator::Emulator() and insert_rom(): whatever the layout of the areas, every address
\* has its owner once a cartridge is inserted, and remap() takes none away, whatever it
\* finds in the cell that is not set.
THEOREM AddressesOwned == Spec => []EveryAddressOwned
<1>1. Init => WiringInv
  BY ConstructorWires DEF Init, WiringInv
<1>2. WiringInv /\ [Next]_vars => WiringInv'
  <2> SUFFICES ASSUME WiringInv, [Next]_vars PROVE WiringInv'
    OBVIOUS
  <2>1. ASSUME NEW f \in Files, insert_rom(f) PROVE WiringInv'
    <3>1. stage = "constructed" /\ stage' = "inserted"
      BY <2>1 DEF insert_rom
    <3>2. RamWired(rambus) /\ VramWired(vrambus)
      BY <3>1 DEF WiringInv
    <3>3. PICK w \in set_mirroring(vrambus) : vrambus' = cartridge_attach_vrambus(w)
      BY <2>1 DEF insert_rom
    <3>4. rambus' = cartridge_attach_rambus(rambus)
      BY <2>1 DEF insert_rom
    <3>5. RamReady(rambus') /\ VramReady(vrambus')
      BY <3>2, <3>3, <3>4, CartridgeCompletes
    <3>6. QED
      BY <3>1, <3>5 DEF WiringInv, RamReady, VramReady, RamOwner, VramOwner, decode
  <2>2. ASSUME NEW f \in Files, parse_fails(f) PROVE WiringInv'
    BY <2>2 DEF parse_fails, WiringInv
  <2>3. CASE power
    BY <2>3 DEF power, wiring, WiringInv
  <2>4. ASSUME NEW a, NEW d, ram_write(a, d) \/ nt_write(a, d) \/ pal_write(a, d)
        PROVE  WiringInv'
    BY <2>4 DEF ram_write, nt_write, pal_write, buses, wiring, WiringInv
  <2>5. CASE UNCHANGED vars
    BY <2>5 DEF vars, buses, wiring, WiringInv
  <2>6. QED
    BY <2>1, <2>2, <2>3, <2>4, <2>5 DEF Next
<1>3. WiringInv => EveryAddressOwned
  BY DEF WiringInv, EveryAddressOwned, RamReady, VramReady
<1>4. QED
  BY <1>1, <1>2, <1>3, PTL DEF Spec

-------------------------------------------------------------------------------

\* The half of vrammem that shows nametable p of the picture.
Half(m, p) == IF m = "HORZ" THEN p \div 2 ELSE p % 2

\* The decode lambda by nametable and cell: an address of nametable p, cell r.
LEMMA MirrorCell ==
  ASSUME NEW m, NEW a \in Writable.nt
  PROVE  \E p \in 0 .. 3, r \in 0 .. NT_SIZE - 1 :
            /\ NtTable(a) = p /\ (a - NT_START) % NT_SIZE = r
            /\ mirror(m, a) = NT_SIZE * Half(m, p) + r
            /\ Half(m, p) \in 0 .. 1
<1>1. /\ NT_SIZE \in Nat /\ NT_SIZE > 0 /\ NT_START \in Nat /\ 4 * NT_SIZE \in Nat
      /\ 4 * NT_SIZE > 0 /\ NT_START % (4 * NT_SIZE) = 0 /\ 2 * NT_SIZE > 0
      /\ a \in Nat /\ a - NT_START \in Nat
  BY LayoutAssumption DEF Writable
<1>2. PICK s \in Nat, z \in 0 .. 4 * NT_SIZE - 1 :
        NT_START = (4 * NT_SIZE) * s + z /\ NT_START % (4 * NT_SIZE) = z
  BY <1>1, Divides
<1>3. PICK t \in Nat, r \in 0 .. NT_SIZE - 1 :
        /\ a - NT_START = NT_SIZE * t + r
        /\ (a - NT_START) \div NT_SIZE = t /\ (a - NT_START) % NT_SIZE = r
  BY <1>1, Divides
<1>4. PICK q \in Nat, p \in 0 .. 3 : t = 4 * q + p /\ t % 4 = p
  <2>1. t = 4 * (t \div 4) + (t % 4) /\ t \div 4 \in Nat /\ t % 4 \in 0 .. 3
    OBVIOUS
  <2>2. QED
    BY <2>1
<1>5. NtTable(a) = p
  BY <1>3, <1>4 DEF NtTable
<1>6. Half(m, p) \in 0 .. 1
  BY DEF Half
<1>7. p = 2 * (p \div 2) + (p % 2) /\ p \div 2 \in 0 .. 1 /\ p % 2 \in 0 .. 1
  OBVIOUS
<1>8. PICK np \in Nat : np = NT_SIZE * p /\ np <= 3 * NT_SIZE /\ np \div NT_SIZE = p
  BY <1>1
<1>9. a = (4 * NT_SIZE) * (s + q) + (np + r)
  <2>1. NT_START = (4 * NT_SIZE) * s
    BY <1>1, <1>2
  <2>2. NT_SIZE * t = (4 * NT_SIZE) * q + np
    BY <1>1, <1>4, <1>8
  <2>3. (4 * NT_SIZE) * (s + q) = (4 * NT_SIZE) * s + (4 * NT_SIZE) * q
    BY <1>1
  <2>4. a = NT_START + (NT_SIZE * t + r)
    BY <1>1, <1>3
  <2>5. QED
    BY <1>1, <2>1, <2>2, <2>3, <2>4
<1>10. a % (4 * NT_SIZE) = np + r
  <2>1. np + r \in 0 .. 4 * NT_SIZE - 1
    BY <1>1, <1>8
  <2>2. PICK n4 \in Nat, k \in Int, c \in Int : n4 = 4 * NT_SIZE /\ k = s + q /\ c = np + r
    BY <1>1, <1>8
  <2>3. n4 > 0 /\ c \in 0 .. n4 - 1 /\ a = n4 * k + c
    BY <1>1, <1>9, <2>1, <2>2
  <2>4. a % n4 = c
    BY <1>1, <2>3, DivMod
  <2>5. QED
    BY <2>2, <2>4
<1>11. (np + r) \div NT_SIZE = p /\ (np + r) % NT_SIZE = r
  BY <1>1, <1>8, DivMod
<1>12. a % VRAM_SIZE = NT_SIZE * (p % 2) + r
  <2>1. NT_SIZE * p = (2 * NT_SIZE) * (p \div 2) + NT_SIZE * (p % 2)
    BY <1>1, <1>7
  <2>2. a = (2 * NT_SIZE) * (2 * (s + q) + (p \div 2)) + (NT_SIZE * (p % 2) + r)
    <3>1. (4 * NT_SIZE) * (s + q) = (2 * NT_SIZE) * (2 * (s + q))
      BY <1>1
    <3>2. PICK u \in Nat : u = p \div 2
      BY <1>7
    <3>3. (2 * NT_SIZE) * (2 * (s + q) + u) = (2 * NT_SIZE) * (2 * (s + q)) + (2 * NT_SIZE) * u
      BY <1>1
    <3>4. QED
      BY <1>1, <1>7, <1>8, <1>9, <2>1, <3>1, <3>2, <3>3
  <2>3. NT_SIZE * (p % 2) + r \in 0 .. 2 * NT_SIZE - 1
    BY <1>1, <1>7
  <2>4. PICK n2 \in Nat, k \in Int, c \in Int :
          n2 = 2 * NT_SIZE /\ k = 2 * (s + q) + (p \div 2) /\ c = NT_SIZE * (p % 2) + r
    BY <1>1, <1>7
  <2>5. n2 > 0 /\ c \in 0 .. n2 - 1 /\ a = n2 * k + c
    BY <1>1, <2>2, <2>3, <2>4
  <2>6. a % n2 = c
    BY <1>1, <2>5, DivMod
  <2>7. QED
    BY <2>4, <2>6 DEF VRAM_SIZE
<1>13. mirror(m, a) = NT_SIZE * Half(m, p) + r
  BY <1>1, <1>7, <1>10, <1>11, <1>12 DEF mirror, Half
<1>14. QED
  BY <1>3, <1>5, <1>6, <1>13

\* Two addresses lead to the same cell of vrammem exactly if the console mirrors them.
LEMMA MirrorsNametables ==
  ASSUME NEW a \in Writable.nt, NEW b \in Writable.nt, mirroring \in {"HORZ", "VERT"}
  PROVE  /\ mirror(mirroring, a) \in 0 .. VRAM_SIZE - 1
         /\ mirror(mirroring, a) = mirror(mirroring, b) <=> Mirrors("nt", a, b)
<1>1. NT_SIZE \in Nat /\ NT_SIZE > 0
  BY LayoutAssumption
<1>2. PICK p \in 0 .. 3, r \in 0 .. NT_SIZE - 1 :
        /\ NtTable(a) = p /\ (a - NT_START) % NT_SIZE = r
        /\ mirror(mirroring, a) = NT_SIZE * Half(mirroring, p) + r
        /\ Half(mirroring, p) \in 0 .. 1
  BY MirrorCell
<1>3. PICK q \in 0 .. 3, s \in 0 .. NT_SIZE - 1 :
        /\ NtTable(b) = q /\ (b - NT_START) % NT_SIZE = s
        /\ mirror(mirroring, b) = NT_SIZE * Half(mirroring, q) + s
        /\ Half(mirroring, q) \in 0 .. 1
  BY MirrorCell
<1>4. SameTable(mirroring, p, q) <=> Half(mirroring, p) = Half(mirroring, q)
  <2>1. \A x \in 0 .. 3 :
          /\ x \in {0, 1, 2, 3}
          /\ (x \div 2 = 0 <=> x \in {0, 1}) /\ (x \div 2 = 1 <=> x \in {2, 3})
          /\ (x % 2 = 0 <=> x \in {0, 2}) /\ (x % 2 = 1 <=> x \in {1, 3})
    OBVIOUS
  <2>2. \A u, v : {p, q} = {u, v} <=> ((p = u /\ q = v) \/ (p = v /\ q = u))
    BY Zenon
  <2>3. CASE mirroring = "HORZ"
    <3>1. SameTable(mirroring, p, q) <=> (p = q \/ {p, q} = {0, 1} \/ {p, q} = {2, 3})
      BY <2>3 DEF SameTable
    <3>2. QED
      BY <2>1, <2>2, <2>3, <3>1 DEF Half
  <2>4. CASE mirroring = "VERT"
    <3>1. SameTable(mirroring, p, q) <=> (p = q \/ {p, q} = {0, 2} \/ {p, q} = {1, 3})
      BY <2>4 DEF SameTable
    <3>2. QED
      BY <2>1, <2>2, <2>4, <3>1 DEF Half
  <2>5. QED
    BY <2>3, <2>4
<1>5. mirror(mirroring, a) \in 0 .. VRAM_SIZE - 1
  BY <1>1, <1>2 DEF VRAM_SIZE
<1>6. mirror(mirroring, a) = mirror(mirroring, b)
        <=> Half(mirroring, p) = Half(mirroring, q) /\ r = s
  BY <1>1, <1>2, <1>3, QuotientUnique
<1>7. Mirrors("nt", a, b) <=> r = s /\ SameTable(mirroring, p, q)
  BY <1>2, <1>3 DEF Mirrors
<1>8. QED
  BY <1>4, <1>5, <1>6, <1>7

\* The memories and what the program expects have their types, and agree from power() on.
Stages == {"constructed", "rejected", "inserted", "powered"}
MemoriesOK ==
    /\ rammem \in [0 .. RAM_SIZE - 1 -> Data]
    /\ vrammem \in [0 .. VRAM_SIZE - 1 -> Data]
    /\ palmem \in [0 .. PAL_SIZE - 1 -> Data]
    /\ mirroring \in {"HORZ", "VERT"} /\ stage \in Stages
ExpectedOK ==
    /\ DOMAIN expected = {"ram", "nt", "pal"}
    /\ \A area \in {"ram", "nt", "pal"} : expected[area] \in [Writable[area] -> Data]
    /\ stage # "powered" => expected = Zeroes
Agree ==
    /\ \A a \in Writable.ram : ram_read(a) = expected["ram"][a]
    /\ \A a \in Writable.nt : nt_read(a) = expected["nt"][a]
    /\ \A a \in Writable.pal : pal_read(a) = expected["pal"][a]
MemoryInv == MemoriesOK /\ ExpectedOK /\ (stage = "powered" => Agree)

\* The cell that an address of RAM or of the palettes stands for.
LEMMA CellInMemory ==
  ASSUME NEW a \in Int
  PROVE  a % RAM_SIZE \in 0 .. RAM_SIZE - 1 /\ a % PAL_SIZE \in 0 .. PAL_SIZE - 1
<1>1. RAM_SIZE \in Nat /\ RAM_SIZE > 0 /\ PAL_SIZE \in Nat /\ PAL_SIZE > 0
  BY LayoutAssumption
<1>2. QED
  BY <1>1

\* A write to a memory through mirrors: cell says which addresses are the same.
LEMMA WriteThroughMirrors ==
  ASSUME NEW W, NEW D, NEW mem \in [D -> Data], NEW old \in [W -> Data],
         NEW cell \in [W -> D], NEW addr \in W, NEW d \in Data,
         \A a \in W : mem[cell[a]] = old[a],
         NEW mem2, mem2 = [mem EXCEPT ![cell[addr]] = d],
         NEW new, new = [a \in W |-> IF cell[a] = cell[addr] THEN d ELSE old[a]]
  PROVE  /\ mem2 \in [D -> Data] /\ new \in [W -> Data]
         /\ \A a \in W : mem2[cell[a]] = new[a]
OBVIOUS

\* The expectations after a write to one area.
LEMMA ExpectArea ==
  ASSUME ExpectedOK, NEW area \in {"ram", "nt", "pal"}, NEW addr, NEW d, expect(area, addr, d)
  PROVE  /\ DOMAIN expected' = {"ram", "nt", "pal"}
         /\ expected'[area] = [a \in Writable[area] |->
                                 IF Mirrors(area, a, addr) THEN d ELSE expected[area][a]]
         /\ \A other \in {"ram", "nt", "pal"} \ {area} : expected'[other] = expected[other]
BY DEF ExpectedOK, expect

\* What the program expects after power(), area by area.
LEMMA ZeroesZero ==
  /\ DOMAIN Zeroes = {"ram", "nt", "pal"}
  /\ \A area \in {"ram", "nt", "pal"} : Zeroes[area] = [a \in Writable[area] |-> 0]
<1>1. DOMAIN Writable = {"ram", "nt", "pal"}
  BY DEF Writable
<1> QED
  BY <1>1 DEF Zeroes

\* The areas of Writable by name.
LEMMA WritableSets ==
  /\ Writable["ram"] = Writable.ram /\ Writable["nt"] = Writable.nt
  /\ Writable["pal"] = Writable.pal
  /\ Writable.ram \subseteq Int /\ Writable.pal \subseteq Int
BY DEF Writable

\* Each kind of write keeps memory and expectation together, through all the mirrors.
LEMMA RamWriteAgrees ==
  ASSUME MemoryInv, NEW addr \in Writable.ram, NEW d \in Data, ram_write(addr, d)
  PROVE  MemoryInv'
<1> DEFINE cell == [a \in Writable.ram |-> a % RAM_SIZE]
<1>1. stage = "powered" /\ stage' = "powered" /\ mirroring' = mirroring
      /\ UNCHANGED <<vrammem, palmem>>
  BY DEF ram_write, buses, wiring
<1>2. MemoriesOK /\ ExpectedOK /\ Agree
  BY <1>1 DEF MemoryInv
<1>3. /\ cell \in [Writable.ram -> 0 .. RAM_SIZE - 1]
      /\ \A a \in Writable.ram : Mirrors("ram", a, addr) <=> cell[a] = cell[addr]
  BY CellInMemory, WritableSets DEF Mirrors
<1>4. /\ DOMAIN expected' = {"ram", "nt", "pal"}
      /\ expected'["ram"] = [a \in Writable["ram"] |->
                               IF Mirrors("ram", a, addr) THEN d ELSE expected["ram"][a]]
      /\ \A other \in {"ram", "nt", "pal"} \ {"ram"} : expected'[other] = expected[other]
  BY <1>2, ExpectArea DEF ram_write
<1>5. /\ rammem \in [0 .. RAM_SIZE - 1 -> Data]
      /\ rammem' = [rammem EXCEPT ![cell[addr]] = d]
      /\ expected["ram"] \in [Writable.ram -> Data]
      /\ \A a \in Writable.ram : rammem[cell[a]] = expected["ram"][a]
  BY <1>2, WritableSets DEF ram_write, MemoriesOK, ExpectedOK, Agree, ram_read
<1>6. expected'["ram"] = [a \in Writable.ram |->
                           IF cell[a] = cell[addr] THEN d ELSE expected["ram"][a]]
  BY <1>3, <1>4, WritableSets
<1> HIDE DEF cell
<1>7. /\ rammem' \in [0 .. RAM_SIZE - 1 -> Data] /\ expected'["ram"] \in [Writable.ram -> Data]
      /\ \A a \in Writable.ram : rammem'[cell[a]] = expected'["ram"][a]
  BY <1>3, <1>5, <1>6, WriteThroughMirrors
<1>8. MemoriesOK'
  BY <1>1, <1>2, <1>7 DEF MemoriesOK
<1>9. ExpectedOK'
  BY <1>1, <1>2, <1>4, <1>7, WritableSets DEF ExpectedOK
<1>10. Agree'
  <2>1. \A a \in Writable.ram : (ram_read(a))' = expected'["ram"][a]
    BY <1>1, <1>7 DEF ram_read, cell
  <2>2. \A a \in Writable.nt : (nt_read(a))' = expected'["nt"][a]
    <3>1. expected'["nt"] = expected["nt"]
      BY <1>4
    <3>2. QED
      BY <1>1, <1>2, <3>1 DEF Agree, nt_read
  <2>3. \A a \in Writable.pal : (pal_read(a))' = expected'["pal"][a]
    <3>1. expected'["pal"] = expected["pal"]
      BY <1>4
    <3>2. QED
      BY <1>1, <1>2, <3>1 DEF Agree, pal_read
  <2>4. QED
    BY <2>1, <2>2, <2>3 DEF Agree
<1>11. QED
  BY <1>8, <1>9, <1>10 DEF MemoryInv

\* The same through the mirrors that the cartridge asks for.
LEMMA NametableWriteAgrees ==
  ASSUME MemoryInv, NEW addr \in Writable.nt, NEW d \in Data, nt_write(addr, d)
  PROVE  MemoryInv'
<1> DEFINE cell == [a \in Writable.nt |-> mirror(mirroring, a)]
<1>1. stage = "powered" /\ stage' = "powered" /\ mirroring' = mirroring
      /\ UNCHANGED <<rammem, palmem>>
  BY DEF nt_write, buses, wiring
<1>2. MemoriesOK /\ ExpectedOK /\ Agree
  BY <1>1 DEF MemoryInv
<1>3. /\ cell \in [Writable.nt -> 0 .. VRAM_SIZE - 1]
      /\ \A a \in Writable.nt : Mirrors("nt", a, addr) <=> cell[a] = cell[addr]
  BY <1>2, MirrorsNametables DEF MemoriesOK
<1>4. /\ DOMAIN expected' = {"ram", "nt", "pal"}
      /\ expected'["nt"] = [a \in Writable["nt"] |->
                               IF Mirrors("nt", a, addr) THEN d ELSE expected["nt"][a]]
      /\ \A other \in {"ram", "nt", "pal"} \ {"nt"} : expected'[other] = expected[other]
  BY <1>2, ExpectArea DEF nt_write
<1>5. /\ vrammem \in [0 .. VRAM_SIZE - 1 -> Data]
      /\ vrammem' = [vrammem EXCEPT ![cell[addr]] = d]
      /\ expected["nt"] \in [Writable.nt -> Data]
      /\ \A a \in Writable.nt : vrammem[cell[a]] = expected["nt"][a]
  BY <1>2, WritableSets DEF nt_write, MemoriesOK, ExpectedOK, Agree, nt_read
<1>6. expected'["nt"] = [a \in Writable.nt |->
                           IF cell[a] = cell[addr] THEN d ELSE expected["nt"][a]]
  BY <1>3, <1>4, WritableSets
<1> HIDE DEF cell
<1>7. /\ vrammem' \in [0 .. VRAM_SIZE - 1 -> Data] /\ expected'["nt"] \in [Writable.nt -> Data]
      /\ \A a \in Writable.nt : vrammem'[cell[a]] = expected'["nt"][a]
  BY <1>3, <1>5, <1>6, WriteThroughMirrors
<1>8. MemoriesOK'
  BY <1>1, <1>2, <1>7 DEF MemoriesOK
<1>9. ExpectedOK'
  BY <1>1, <1>2, <1>4, <1>7, WritableSets DEF ExpectedOK
<1>10. Agree'
  <2>1. \A a \in Writable.ram : (ram_read(a))' = expected'["ram"][a]
    <3>1. expected'["ram"] = expected["ram"]
      BY <1>4
    <3>2. QED
      BY <1>1, <1>2, <3>1 DEF Agree, ram_read
  <2>2. \A a \in Writable.nt : (nt_read(a))' = expected'["nt"][a]
    BY <1>1, <1>7 DEF nt_read, cell
  <2>3. \A a \in Writable.pal : (pal_read(a))' = expected'["pal"][a]
    <3>1. expected'["pal"] = expected["pal"]
      BY <1>4
    <3>2. QED
      BY <1>1, <1>2, <3>1 DEF Agree, pal_read
  <2>4. QED
    BY <2>1, <2>2, <2>3 DEF Agree
<1>11. QED
  BY <1>8, <1>9, <1>10 DEF MemoryInv

\* The same for the palettes.
LEMMA PaletteWriteAgrees ==
  ASSUME MemoryInv, NEW addr \in Writable.pal, NEW d \in Data, pal_write(addr, d)
  PROVE  MemoryInv'
<1> DEFINE cell == [a \in Writable.pal |-> a % PAL_SIZE]
<1>1. stage = "powered" /\ stage' = "powered" /\ mirroring' = mirroring
      /\ UNCHANGED <<rammem, vrammem>>
  BY DEF pal_write, buses, wiring
<1>2. MemoriesOK /\ ExpectedOK /\ Agree
  BY <1>1 DEF MemoryInv
<1>3. /\ cell \in [Writable.pal -> 0 .. PAL_SIZE - 1]
      /\ \A a \in Writable.pal : Mirrors("pal", a, addr) <=> cell[a] = cell[addr]
  BY CellInMemory, WritableSets DEF Mirrors
<1>4. /\ DOMAIN expected' = {"ram", "nt", "pal"}
      /\ expected'["pal"] = [a \in Writable["pal"] |->
                               IF Mirrors("pal", a, addr) THEN d ELSE expected["pal"][a]]
      /\ \A other \in {"ram", "nt", "pal"} \ {"pal"} : expected'[other] = expected[other]
  BY <1>2, ExpectArea DEF pal_write
<1>5. /\ palmem \in [0 .. PAL_SIZE - 1 -> Data]
      /\ palmem' = [palmem EXCEPT ![cell[addr]] = d]
      /\ expected["pal"] \in [Writable.pal -> Data]
      /\ \A a \in Writable.pal : palmem[cell[a]] = expected["pal"][a]
  BY <1>2, WritableSets DEF pal_write, MemoriesOK, ExpectedOK, Agree, pal_read
<1>6. expected'["pal"] = [a \in Writable.pal |->
                           IF cell[a] = cell[addr] THEN d ELSE expected["pal"][a]]
  BY <1>3, <1>4, WritableSets
<1> HIDE DEF cell
<1>7. /\ palmem' \in [0 .. PAL_SIZE - 1 -> Data] /\ expected'["pal"] \in [Writable.pal -> Data]
      /\ \A a \in Writable.pal : palmem'[cell[a]] = expected'["pal"][a]
  BY <1>3, <1>5, <1>6, WriteThroughMirrors
<1>8. MemoriesOK'
  BY <1>1, <1>2, <1>7 DEF MemoriesOK
<1>9. ExpectedOK'
  BY <1>1, <1>2, <1>4, <1>7, WritableSets DEF ExpectedOK
<1>10. Agree'
  <2>1. \A a \in Writable.ram : (ram_read(a))' = expected'["ram"][a]
    <3>1. expected'["ram"] = expected["ram"]
      BY <1>4
    <3>2. QED
      BY <1>1, <1>2, <3>1 DEF Agree, ram_read
  <2>2. \A a \in Writable.nt : (nt_read(a))' = expected'["nt"][a]
    <3>1. expected'["nt"] = expected["nt"]
      BY <1>4
    <3>2. QED
      BY <1>1, <1>2, <3>1 DEF Agree, nt_read
  <2>3. \A a \in Writable.pal : (pal_read(a))' = expected'["pal"][a]
    BY <1>1, <1>7 DEF pal_read, cell
  <2>4. QED
    BY <2>1, <2>2, <2>3 DEF Agree
<1>11. QED
  BY <1>8, <1>9, <1>10 DEF MemoryInv

\* power() clears memory when the program expects zeroes; nothing else writes to it.
LEMMA MemoryInvariant == Spec => []MemoryInv
<1>1. Init => MemoryInv
  <2> SUFFICES ASSUME Init PROVE MemoryInv
    OBVIOUS
  <2>1. MemoriesOK
    BY DEF Init, MemoriesOK, Stages
  <2>2. ExpectedOK
    BY ZeroesZero, LayoutAssumption DEF Init, ExpectedOK
  <2>3. QED
    BY <2>1, <2>2 DEF MemoryInv, Init
<1>2. MemoryInv /\ [Next]_vars => MemoryInv'
  <2> SUFFICES ASSUME MemoryInv, [Next]_vars PROVE MemoryInv'
    OBVIOUS
  <2> USE DEF MemoryInv
  <2>1. ASSUME NEW f \in Files, insert_rom(f) PROVE MemoryInv'
    <3>1. mirroring' \in {"HORZ", "VERT"}
      BY <2>1 DEF insert_rom, parse
    <3>2. stage = "constructed" /\ stage' = "inserted"
          /\ UNCHANGED <<rammem, vrammem, palmem, expected>>
      BY <2>1 DEF insert_rom
    <3>3. QED
      BY <3>1, <3>2 DEF MemoriesOK, ExpectedOK, Stages
  <2>2. ASSUME NEW f \in Files, parse_fails(f) PROVE MemoryInv'
    BY <2>2 DEF parse_fails, wiring, MemoriesOK, ExpectedOK, Stages
  <2>3. CASE power
    <3>1. MemoriesOK'
      BY <2>3, LayoutAssumption DEF power, wiring, MemoriesOK, Stages
    <3>2. expected = Zeroes /\ expected' = Zeroes /\ mirroring' = mirroring
      BY <2>3 DEF power, wiring, ExpectedOK
    <3>3. ExpectedOK'
      BY <3>2 DEF ExpectedOK
    <3>4. ASSUME NEW a \in Writable.nt PROVE mirror(mirroring, a) \in 0 .. VRAM_SIZE - 1
      BY MirrorsNametables DEF MemoriesOK
    <3>5. Agree'
      <4>1. \A a \in Writable.ram : (ram_read(a))' = 0
        BY <2>3, CellInMemory, WritableSets DEF power, ram_read
      <4>2. \A a \in Writable.nt : (nt_read(a))' = 0
        BY <2>3, <3>2, <3>4 DEF power, nt_read
      <4>3. \A a \in Writable.pal : (pal_read(a))' = 0
        BY <2>3, CellInMemory, WritableSets DEF power, pal_read
      <4>4. \A area \in {"ram", "nt", "pal"} :
              \A a \in Writable[area] : expected'[area][a] = 0
        BY <3>2, ZeroesZero
      <4>5. QED
        BY <4>1, <4>2, <4>3, <4>4, WritableSets DEF Agree
    <3>6. QED
      BY <3>1, <3>3, <3>5
  <2>4. ASSUME NEW d \in Data, NEW a \in Writable.ram, ram_write(a, d) PROVE MemoryInv'
    BY <2>4, RamWriteAgrees
  <2>5. ASSUME NEW d \in Data, NEW a \in Writable.nt, nt_write(a, d) PROVE MemoryInv'
    BY <2>5, NametableWriteAgrees
  <2>6. ASSUME NEW d \in Data, NEW a \in Writable.pal, pal_write(a, d) PROVE MemoryInv'
    BY <2>6, PaletteWriteAgrees
  <2>7. CASE UNCHANGED vars
    BY <2>7 DEF vars, buses, wiring, MemoriesOK, ExpectedOK, Agree, ram_read, nt_read, pal_read
  <2>8. QED
    BY <2>1, <2>2, <2>3, <2>4, <2>5, <2>6, <2>7 DEF Next
<1>3. QED
  BY <1>1, <1>2, PTL DEF Spec

\* CPU::attach_bus(), PPU::attach_bus() and set_mirroring(): for every size of RAM,
\* nametable and palette, an address reads as what was last written to any of its mirrors.
THEOREM MirrorsAlwaysAgree == Spec => []MirrorsAgree
<1>1. MemoryInv => MirrorsAgree
  BY DEF MemoryInv, MirrorsAgree, Agree
<1>2. QED
  BY <1>1, MemoryInvariant, PTL

\* The history of remap() is a truth value.
LEMMA UnsetReadBoolean == Spec => [](unset_read \in BOOLEAN)
<1>1. Init => unset_read \in BOOLEAN
  BY DEF Init
<1>2. unset_read \in BOOLEAN /\ [Next]_vars => (unset_read \in BOOLEAN)'
  <2>1. ASSUME NEW f, insert_rom(f) PROVE (unset_read \in BOOLEAN)'
    <3>1. unset_read' = (UNSET \in {vrambus.lookup[NT_START - 1], vrambus.lookup[PAL_START - 1]})
      BY <2>1 DEF insert_rom
    <3>2. \A x, S : (x \in S) \in BOOLEAN
      OBVIOUS
    <3>3. QED
      BY <3>1, <3>2, Zenon
  <2>2. ASSUME NEW f, NEW a, NEW d,
               \/ parse_fails(f) \/ power \/ ram_write(a, d) \/ nt_write(a, d)
               \/ pal_write(a, d) \/ UNCHANGED vars
        PROVE  unset_read' = unset_read
    BY <2>2 DEF parse_fails, power, ram_write, nt_write, pal_write, vars, buses, wiring
  <2>3. QED
    BY <2>1, <2>2 DEF Next
<1>3. QED
  BY <1>1, <1>2, PTL DEF Spec

\* The assertions of PPU::set_mirroring(): no address of the nametables is decoded to a
\* cell outside of vrammem, for every size of a nametable.
THEOREM TypeCorrect == Spec => []TypeOK
<1>1. MemoryInv /\ CartridgeInv /\ unset_read \in BOOLEAN => TypeOK
  <2> SUFFICES ASSUME MemoryInv, CartridgeInv, unset_read \in BOOLEAN PROVE TypeOK
    OBVIOUS
  <2>1. \A a \in Writable.nt : mirror(mirroring, a) \in DOMAIN vrammem
    BY MirrorsNametables DEF MemoryInv, MemoriesOK
  <2>2. QED
    BY <2>1 DEF TypeOK, MemoryInv, MemoriesOK, CartridgeInv, Stages
<1>2. QED
  BY <1>1, MemoryInvariant, CartridgeInvariant, UnsetReadBoolean, PTL
===============================================================================

----------------------------- MODULE VRAMAddress -----------------------------
(***************************************************************************)
(* PPU::VRAMAddress, the bit fields of util/bits.hpp it is made of, and    *)
(* the functions of ppu.cpp that compute with it, as pure operators.       *)
(*                                                                         *)
(* A field of bitno and nbits is given by its weight 2^bitno and its size  *)
(* 2^nbits.  An address is FFFNNYYYYYXXXXX: fine y, nametable, coarse y,   *)
(* coarse x.                                                               *)
(***************************************************************************)
EXTENDS Integers

\* BitField::operator uint64_t.
getfield(num, weight, size) == (num \div weight) % size

setbits(num, weight, size, data) ==
    num + weight * ((data % size) - getfield(num, weight, size))

\* n ^ 1 and n ^ 2 of a two-bit number.
xor1(n) == IF n % 2 = 0 THEN n + 1 ELSE n - 1
xor2(n) == IF n < 2 THEN n + 2 ELSE n - 2

coarse_x(a) == getfield(a, 1, 32)
coarse_y(a) == getfield(a, 32, 32)
nt(a)       == getfield(a, 1024, 4)
fine_y(a)   == getfield(a, 4096, 8)

set_coarse_x(a, d) == setbits(a, 1, 32, d)
set_coarse_y(a, d) == setbits(a, 32, 32, d)
set_nt(a, d)       == setbits(a, 1024, 4, d)
set_fine_y(a, d)   == setbits(a, 4096, 8, d)

-------------------------------------------------------------------------------

\* Faulty variant: the coarse x carries into the other fields.
inc_v_horzpos_carries(v) == v + 1

\* Faulty variant: the nametable is not switched at the right edge.
inc_v_horzpos_same_nt(v) ==
    set_coarse_x(v, IF coarse_x(v) = 31 THEN 0 ELSE coarse_x(v) + 1)

inc_v_horzpos(v) ==
    IF coarse_x(v) = 31
    THEN set_nt(set_coarse_x(v, 0), xor1(nt(v)))
    ELSE set_coarse_x(v, coarse_x(v) + 1)

\* Faulty variant: the nametable is switched after row 30.
inc_v_vertpos_row30(v) ==
    IF fine_y(v) < 7
    THEN set_fine_y(v, fine_y(v) + 1)
    ELSE LET u == set_fine_y(v, 0)
             y == coarse_y(u)
         IN  IF y = 30 THEN set_coarse_y(set_nt(u, xor2(nt(u))), 0)
             ELSE set_coarse_y(u, IF y = 31 THEN 0 ELSE y + 1)

\* Row 29 is the last of a nametable; rows 30 and 31 hold attributes and wrap
\* without a change of nametable.
inc_v_vertpos(v) ==
    IF fine_y(v) < 7
    THEN set_fine_y(v, fine_y(v) + 1)
    ELSE LET u == set_fine_y(v, 0)
             y == coarse_y(u)
         IN  IF y = 29 THEN set_coarse_y(set_nt(u, xor2(nt(u))), 0)
             ELSE set_coarse_y(u, IF y = 31 THEN 0 ELSE y + 1)

\* Assigning one BitField to another passes the whole of the other's data to
\* setbits(), which takes its low bits.
copy_v_horzpos(v, t) ==
    LET u == set_coarse_x(v, t)
    IN  set_nt(u, setbits(nt(u), 1, 2, nt(t) % 2))

copy_v_vertpos(v, t) ==
    LET u == set_fine_y(set_coarse_y(v, t), t)
    IN  set_nt(u, setbits(nt(u), 2, 2, (nt(t) \div 2) % 2))

-------------------------------------------------------------------------------

\* Addresses of the four fetches of a tile.
nt_address(v) == 8192 + (v % 4096)
attr_address(v) ==
    9152 + nt(v) * 1024 + (coarse_y(v) \div 4) * 8 + (coarse_x(v) \div 4)
===============================================================================

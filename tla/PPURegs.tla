------------------------------- MODULE PPURegs -------------------------------
(***************************************************************************)
(* The registers of Core::PPU as the CPU sees them: readreg() and          *)
(* writereg(), power() and reset(), over the VRAM address, its temporary,  *)
(* the write toggle shared by PPUSCROLL and PPUADDR, and the I/O latch.    *)
(*                                                                         *)
(* One step is one register access.  What the VRAM bus returns is any of   *)
(* the bytes considered.  Left out: OAMADDR and the bits of PPUCTRL and    *)
(* PPUMASK that no other code of the PPU looks at.                         *)
(***************************************************************************)
EXTENDS VRAMAddress

CONSTANTS
    Data,           \* bytes that the program writes and the bus returns
    ACCESS_MAX      \* bound: PPUDATA accesses after the address was last set

ASSUME DataAssumption == Data \subseteq 0 .. 255 /\ ACCESS_MAX \in Nat

VARIABLES
    addr, tmp, fine_x,                  \* vram
    scroll_latch,                       \* FALSE: the next write is the first
    vram_inc, bg_pt_addr, bg_show,
    latch, data_buf,
    first,          \* history: the program takes its next write for the first of two
    hi,             \* history: high byte of an address whose low byte is to come
    target,         \* history: where the program believes vram.addr to be
    accesses,       \* history: PPUDATA accesses since vram.addr was set
    status, flag    \* history: what the last access read from PPUSTATUS, and the
                    \* v-blank flag it found

NONE == -1

scroll == <<addr, tmp, fine_x, scroll_latch>>
ctrl == <<vram_inc, bg_pt_addr, bg_show>>
io == <<latch, data_buf>>
belief == <<first, hi, target>>
vars == <<scroll, ctrl, io, belief, accesses, status, flag>>

bit(d, n) == (d \div n) % 2 = 1

PowerState ==
    /\ addr = 0 /\ tmp = 0 /\ fine_x = 0 /\ scroll_latch = FALSE
    /\ vram_inc = FALSE /\ bg_pt_addr = FALSE /\ bg_show = FALSE
    /\ latch = 0 /\ data_buf = 0
    /\ first = TRUE /\ hi = NONE /\ target = NONE /\ accesses = 0
    /\ status = NONE /\ flag = FALSE

Init == PowerState

NoStatus == status' = NONE /\ flag' = FALSE

-------------------------------------------------------------------------------
(* writereg() *)

\* 0x2000
write_ctrl(d) ==
    /\ tmp' = set_nt(tmp, d)
    /\ vram_inc' = bit(d, 4) /\ bg_pt_addr' = bit(d, 16)
    /\ latch' = d
    /\ hi' = NONE /\ NoStatus
    /\ UNCHANGED <<addr, fine_x, scroll_latch, bg_show, data_buf, first, target, accesses>>

\* 0x2001
write_mask(d) ==
    /\ bg_show' = bit(d, 8)
    /\ latch' = d
    /\ NoStatus
    /\ UNCHANGED <<scroll, vram_inc, bg_pt_addr, data_buf, belief, accesses>>

\* 0x2002, 0x2003, 0x2004
write_other(d) ==
    /\ latch' = d
    /\ NoStatus
    /\ UNCHANGED <<scroll, ctrl, data_buf, belief, accesses>>

\* Faulty variant: the fine x scroll is not cut to three bits.
write_scroll_wide_x(d) ==
    /\ IF ~scroll_latch
       THEN tmp' = set_coarse_x(tmp, d \div 8) /\ fine_x' = d
       ELSE /\ tmp' = set_fine_y(set_coarse_y(tmp, d \div 8), d % 8)
            /\ UNCHANGED fine_x
    /\ scroll_latch' = ~scroll_latch
    /\ latch' = d
    /\ first' = ~first /\ hi' = NONE /\ NoStatus
    /\ UNCHANGED <<addr, ctrl, data_buf, target, accesses>>

\* 0x2005
write_scroll(d) ==
    /\ IF ~scroll_latch
       THEN tmp' = set_coarse_x(tmp, d \div 8) /\ fine_x' = d % 8
       ELSE /\ tmp' = set_fine_y(set_coarse_y(tmp, d \div 8), d % 8)
            /\ UNCHANGED fine_x
    /\ scroll_latch' = ~scroll_latch
    /\ latch' = d
    /\ first' = ~first /\ hi' = NONE /\ NoStatus
    /\ UNCHANGED <<addr, ctrl, data_buf, target, accesses>>

\* What a program that writes d to PPUADDR takes for granted.
believe(d) ==
    /\ first' = ~first
    /\ IF first
       THEN hi' = d /\ UNCHANGED target
       ELSE /\ hi' = NONE
            /\ target' = IF hi = NONE THEN NONE ELSE (hi % 64) * 256 + d

\* Faulty variant: bit 14 of the temporary address is kept.
write_addr_keeps_bit14(d) ==
    /\ IF ~scroll_latch
       THEN /\ tmp' = setbits(tmp, 256, 64, d)
            /\ UNCHANGED <<addr, accesses>>
       ELSE /\ tmp' = setbits(tmp, 1, 256, d)
            /\ addr' = tmp'
            /\ accesses' = 0
    /\ scroll_latch' = ~scroll_latch
    /\ latch' = d
    /\ believe(d) /\ NoStatus
    /\ UNCHANGED <<fine_x, ctrl, data_buf>>

\* 0x2006
write_addr(d) ==
    /\ IF ~scroll_latch
       THEN /\ tmp' = setbits(setbits(tmp, 256, 64, d), 16384, 2, 0)
            /\ UNCHANGED <<addr, accesses>>
       ELSE /\ tmp' = setbits(tmp, 1, 256, d)
            /\ addr' = tmp'
            /\ accesses' = 0
    /\ scroll_latch' = ~scroll_latch
    /\ latch' = d
    /\ believe(d) /\ NoStatus
    /\ UNCHANGED <<fine_x, ctrl, data_buf>>

\* vram.addr += (1UL << 5*io.vram_inc), in sixteen bits.
increment(a) == (a + (IF vram_inc THEN 32 ELSE 1)) % 65536

advance ==
    /\ accesses < ACCESS_MAX
    /\ accesses' = accesses + 1
    /\ addr' = increment(addr)
    /\ target' = IF target = NONE THEN NONE ELSE increment(target)

\* 0x2007
write_data(d) ==
    /\ advance
    /\ latch' = d
    /\ NoStatus
    /\ UNCHANGED <<tmp, fine_x, scroll_latch, ctrl, data_buf, first, hi>>

-------------------------------------------------------------------------------
(* readreg() *)

\* Faulty variant: the toggle is not reset.
read_status_keeps_toggle(vb, hit, over) ==
    /\ latch' = (latch % 32) + (IF over \/ bit(latch, 32) THEN 32 ELSE 0)
                             + (IF hit \/ bit(latch, 64) THEN 64 ELSE 0)
                             + (IF vb \/ bit(latch, 128) THEN 128 ELSE 0)
    /\ first' = TRUE /\ hi' = NONE
    /\ status' = latch' /\ flag' = vb
    /\ UNCHANGED <<scroll, ctrl, data_buf, target, accesses>>

\* 0x2002: the three flags are or-ed into the latch.
read_status(vb, hit, over) ==
    /\ latch' = (latch % 32) + (IF over \/ bit(latch, 32) THEN 32 ELSE 0)
                             + (IF hit \/ bit(latch, 64) THEN 64 ELSE 0)
                             + (IF vb \/ bit(latch, 128) THEN 128 ELSE 0)
    /\ scroll_latch' = FALSE
    /\ first' = TRUE /\ hi' = NONE
    /\ status' = latch' /\ flag' = vb
    /\ UNCHANGED <<addr, tmp, fine_x, ctrl, data_buf, target, accesses>>

\* 0x2004
read_oamdata ==
    /\ latch' = 0
    /\ NoStatus
    /\ UNCHANGED <<scroll, ctrl, data_buf, belief, accesses>>

\* 0x2007: below the palette the byte comes from the buffer, which is refilled.
read_data ==
    /\ \E d \in Data :
          IF addr < 16128 THEN latch' = data_buf /\ data_buf' = d
                          ELSE latch' = d /\ UNCHANGED data_buf
    /\ advance
    /\ NoStatus
    /\ UNCHANGED <<tmp, fine_x, scroll_latch, ctrl, first, hi>>

-------------------------------------------------------------------------------

power ==
    /\ addr' = 0 /\ tmp' = 0 /\ fine_x' = 0 /\ scroll_latch' = FALSE
    /\ vram_inc' = FALSE /\ bg_pt_addr' = FALSE /\ bg_show' = FALSE
    /\ data_buf' = 0
    /\ first' = TRUE /\ hi' = NONE /\ target' = NONE /\ accesses' = 0 /\ NoStatus
    /\ UNCHANGED latch

\* reset() keeps the address and its temporary.
reset ==
    /\ fine_x' = 0 /\ scroll_latch' = FALSE
    /\ vram_inc' = FALSE /\ bg_pt_addr' = FALSE /\ bg_show' = FALSE
    /\ data_buf' = 0
    /\ first' = TRUE /\ hi' = NONE /\ NoStatus
    /\ UNCHANGED <<addr, tmp, latch, target, accesses>>

writereg ==
    \E d \in Data :
        \/ write_ctrl(d) \/ write_mask(d) \/ write_other(d)
        \/ write_scroll(d) \/ write_addr(d) \/ write_data(d)

readreg(vb, hit, over) == read_status(vb, hit, over) \/ read_oamdata \/ read_data

\* Nothing sets the sprite zero flag; power() sets the overflow flag.
Next ==
    \/ writereg
    \/ \E vb, over \in BOOLEAN : readreg(vb, FALSE, over)
    \/ power \/ reset

Spec == Init /\ [][Next]_vars

-------------------------------------------------------------------------------

BitsOK ==
    /\ scroll_latch \in BOOLEAN
    /\ vram_inc \in BOOLEAN /\ bg_pt_addr \in BOOLEAN /\ bg_show \in BOOLEAN
    /\ first \in BOOLEAN /\ flag \in BOOLEAN

NumbersOK ==
    /\ addr \in Nat /\ addr < 65536
    /\ tmp \in Nat /\ tmp < 32768
    /\ fine_x \in 0 .. 7
    /\ latch \in 0 .. 255 /\ data_buf \in 0 .. 255
    /\ hi \in -1 .. 255 /\ status \in -1 .. 255
    /\ target = NONE \/ (target \in Nat /\ target < 65536)
    /\ accesses \in 0 .. ACCESS_MAX

\* Sixteen bits of address, fifteen of temporary, three of fine x: no sequence of
\* writes carries a bit out of the field it is meant for.
TypeOK == BitsOK /\ NumbersOK

\* A program that reads PPUSTATUS and then writes an address to PPUADDR, high byte
\* first, has the VRAM address at the fourteen bits it has spelled, whatever PPUSCROLL,
\* PPUCTRL, the increments and pairs left unfinished have done to the temporary and to
\* the toggle before, and PPUDATA accesses count on from there.
AddressPair == target # NONE => addr = target

\* The toggle is the program's own count of its writes, and between the two PPUADDR
\* writes the temporary holds the high byte with bit 14 cleared.
HalfAddress ==
    /\ scroll_latch <=> ~first
    /\ hi # NONE => ~first /\ tmp \div 256 = hi % 64

\* testrom/test.asm, line 75: "jsr waitvblank  ; wait 2 frames", where waitvblank reads
\* $2002 until bit 7 is set.  Bit 7 of PPUSTATUS reads as the v-blank flag.
StatusShowsVBlank == status # NONE => (bit(status, 128) <=> flag)
===============================================================================

------------------------------ MODULE Background ------------------------------
(***************************************************************************)
(* The background fetches of Core::PPU: what a dot does to the VRAM        *)
(* address, the tile latches and the shift registers, composed with        *)
(* FrameClock, which says which dot is next.                               *)
(*                                                                         *)
(* A latch holds where its byte was fetched from instead of the byte, and  *)
(* a shift register where each of its bits came from.  The program touches *)
(* the registers once per frame, right after v-blank has started, and      *)
(* leaves in the temporary address, the address, fine x and the show flag  *)
(* what PPURegs lets it leave there.                                       *)
(***************************************************************************)
EXTENDS VRAMAddress

CONSTANTS
    CYCLE_MAX, LINE_MAX, VBLANK_LINE,
    TmpValues,      \* temporary addresses that the program sets up
    AddrValues,     \* addresses that its PPUDATA accesses leave
    FineValues      \* fine x positions that it sets up

VARIABLES
    cycles, lines, odd_frame, vblank, sp_zero_hit, sp_overflow,
    fired, taken, warm,         \* of FrameClock
    addr, tmp, fine_x, bg_show, \* vram.addr, vram.tmp, vram.fine_x, io.bg_show
    tile,                       \* the latches filled by the fetches
    shift,                      \* tlow and thigh: the <<byte, bit>> in each of sixteen bits
    set                         \* history: the program has run in this v-blank

Clock == INSTANCE FrameClock

Below(n) == {i \in Nat : i < n}

ASSUME RenderAssumption ==
    /\ Clock!GeometryAssumption /\ CYCLE_MAX = 341 /\ VBLANK_LINE > 1
    /\ TmpValues \subseteq Below(32768) /\ AddrValues \subseteq Below(65536)
    /\ FineValues \subseteq Below(8)

clock == <<cycles, lines, odd_frame, vblank, sp_zero_hit, sp_overflow,
           fired, taken, warm>>
vars == <<clock, addr, tmp, fine_x, bg_show, tile, shift, set>>

dot == cycles % CYCLE_MAX
line == lines % LINE_MAX

PreRender == line = LINE_MAX - 1
Rendering == line < VBLANK_LINE - 1 \/ PreRender
Fetching == (1 <= dot /\ dot <= 256) \/ (321 <= dot /\ dot <= 340)

Bitnos == 0 .. 15
NOBIT == <<<<0, 0>>, 8>>        \* a 0 that no tile has put there

Init ==
    /\ Clock!Init
    /\ addr = 0 /\ tmp = 0 /\ fine_x = 0 /\ bg_show = FALSE
    /\ tile = [nt |-> 0, attr |-> 0, low |-> <<0, 0>>, high |-> <<0, 0>>]
    /\ shift = LET zero == [i \in Bitnos |-> NOBIT] IN [tlow |-> zero, thigh |-> zero]
    /\ set = FALSE

-------------------------------------------------------------------------------

\* Faulty variant: the pipeline starts with the attribute, and the nametable byte
\* comes last.
fetch_nt_last ==
    CASE dot % 8 = 2 -> [tile EXCEPT !.attr = attr_address(addr)]
      [] dot % 8 = 4 -> [tile EXCEPT !.low = <<tile.nt, fine_y(addr)>>]
      [] dot % 8 = 6 -> [tile EXCEPT !.high = <<tile.nt, fine_y(addr)>>]
      [] dot % 8 = 0 -> [tile EXCEPT !.nt = nt_address(addr)]
      [] OTHER       -> tile

\* background_cycle(): the second of every two cycles does the fetch.
fetch ==
    CASE dot % 8 = 2 -> [tile EXCEPT !.nt = nt_address(addr)]
      [] dot % 8 = 4 -> [tile EXCEPT !.attr = attr_address(addr)]
      [] dot % 8 = 6 -> [tile EXCEPT !.low = <<tile.nt, fine_y(addr)>>]
      [] dot % 8 = 0 -> [tile EXCEPT !.high = <<tile.nt, fine_y(addr)>>]
      [] OTHER       -> tile

\* reg >>= 1
Halve(reg) == [i \in Bitnos |-> IF i < 15 THEN reg[i + 1] ELSE NOBIT]

\* Faulty variant: the high plane is left where it is.
shift_run_low == [shift EXCEPT !.tlow = Halve(@)]

shift_run == [tlow |-> Halve(shift.tlow), thigh |-> Halve(shift.thigh)]

\* setbits(reg, 8, 8, byte)
Fill(reg, byte) == [i \in Bitnos |-> IF i < 8 THEN reg[i] ELSE <<byte, i - 8>>]
shift_fill ==
    [tlow |-> Fill(shift.tlow, tile.low), thigh |-> Fill(shift.thigh, tile.high)]

\* The part of ccycle() that moves the registers: a dot fills or shifts.
Shifted == IF dot % 8 # 1 THEN shift_run ELSE IF dot # 1 THEN shift_fill ELSE shift

\* bg_output(): the bits of both planes that make the pixel.
bg_output == <<shift.tlow[fine_x], shift.thigh[fine_x]>>

\* output() is called in these dots; what it draws outside the picture is dropped.
Draws == line < VBLANK_LINE - 1 /\ 4 <= dot /\ dot <= 255

\* Where ccycle() and, on the pre-render line, lcycle() leave the address.
scroll ==
    CASE Fetching /\ dot % 8 = 0 /\ dot # 256      -> inc_v_horzpos(addr)
      [] dot = 256                                 -> inc_v_vertpos(addr)
      [] dot = 257                                 -> copy_v_horzpos(addr, tmp)
      [] PreRender /\ 280 <= dot /\ dot <= 304     -> copy_v_vertpos(addr, tmp)
      [] OTHER                                     -> addr

\* PPU::run()
run ==
    /\ Clock!run
    /\ tile' = IF Rendering /\ Fetching THEN fetch ELSE tile
    /\ addr' = IF Rendering /\ bg_show THEN scroll ELSE addr
    /\ shift' = IF Rendering /\ Fetching THEN Shifted ELSE shift
    /\ set' = (set /\ ~Clock!begin_frame)
    /\ UNCHANGED <<tmp, fine_x, bg_show>>

\* The writes of one v-blank: PPUCTRL, PPUSCROLL and PPUADDR reach any temporary
\* address, the second PPUADDR write copies it, PPUDATA moves it on, PPUMASK switches
\* the background.
program ==
    /\ Clock!At(VBLANK_LINE, 2) /\ ~set
    /\ tmp' \in TmpValues
    /\ addr' \in {addr, tmp'} \cup AddrValues
    /\ fine_x' \in FineValues
    /\ bg_show' \in BOOLEAN
    /\ set' = TRUE
    /\ UNCHANGED <<clock, tile, shift>>

Next == run \/ program

Spec == Init /\ [][Next]_vars

-------------------------------------------------------------------------------

\* The position of an address in the two nametables side by side, and in the two
\* above each other.
X(a) == coarse_x(a) + 32 * (nt(a) % 2)
Y(a) == fine_y(a) + 8 * coarse_y(a) + 240 * (nt(a) \div 2)

\* The address stays within its sixteen bits while the fields are counted up, and the
\* fetches within the nametables.
TypeOK ==
    /\ Clock!TypeOK
    /\ addr \in Below(65536) /\ tmp \in Below(32768) /\ fine_x \in Below(8)
    /\ tile.nt \in Below(12288) /\ tile.attr \in Below(12288)
    /\ DOMAIN shift.tlow = Bitnos /\ DOMAIN shift.thigh = Bitnos
    /\ bg_show \in BOOLEAN /\ set \in BOOLEAN

\* Tiles that have been fetched on the way to the next dot, counted from the scroll
\* position: two at the end of the line before, then one every eight dots.
TilesAhead ==
    IF dot <= 257 THEN 2 + (IF dot = 0 THEN 0 ELSE IF dot > 248 THEN 31 ELSE (dot - 1) \div 8)
    ELSE IF dot <= 328 THEN 0
    ELSE IF dot <= 336 THEN 1 ELSE 2

\* While the background is shown, every line of the picture reads its tiles from left
\* to right starting at the scroll position of the temporary address, across the edge
\* of a nametable into the other one, whatever the line before has left behind.
TilesInOrder ==
    bg_show /\ Rendering /\ (PreRender => dot > 257)
        => X(addr) = (X(tmp) + TilesAhead) % 64

\* Line n of the picture shows the row n below the row that the pre-render line has
\* loaded, across the end of a nametable (row 240) into the one below it.
RowsInOrder ==
    LET top == Y(copy_v_vertpos(0, tmp))
    IN  bg_show /\ line < VBLANK_LINE - 1 /\ coarse_y(copy_v_vertpos(0, tmp)) <= 29
            => Y(addr) = (top + line + (IF dot > 256 THEN 1 ELSE 0)) % 480

\* When a tile goes to the shift registers, its four bytes belong together: both
\* bit planes are the row of the tile that the nametable byte names, and the attribute
\* covers that tile.
TileCoherent ==
    Rendering /\ Fetching /\ dot % 8 = 1 /\ dot # 1
        => /\ tile.low = tile.high
           /\ tile.low[1] = tile.nt
           /\ tile.attr = attr_address(tile.nt - 8192)

\* From the third tile of a line on the pixels of the picture come in order: both planes
\* give the same column of the same row, tiles follow each other from the scroll position,
\* their columns from the lowest bit on, and fine x moves the line by as many pixels.  As a
\* dot that fills does not shift, a tile gives seven columns in eight dots: column 6 is
\* held for two, column 7 is written over by the next tile.
PixelsInOrder ==
    LET n    == 7 * ((dot - 2) \div 8) + ((dot - 2) % 8) + fine_x - 1
        from == bg_output[1][1]
    IN  bg_show /\ Draws /\ n >= 14
            => /\ bg_output[1] = bg_output[2]
               /\ X(from[1] - 8192) = (X(tmp) + n \div 7) % 64
               /\ from[2] = fine_y(addr)
               /\ bg_output[1][2] = n % 7

\* emu/core/PPUDOCS.txt, line 50: "the value in PPU SCROLL ($2005) is the top left
\* corner".  The first line of a picture shows the row of the temporary address.
ScrollIsTopLeft == bg_show /\ line = 0 /\ dot = 1 => Y(addr) = Y(tmp)
===============================================================================

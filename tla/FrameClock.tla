------------------------------ MODULE FrameClock ------------------------------
(***************************************************************************)
(* The clock of Core::PPU: the dot and line counters that PPU::run()       *)
(* advances, the frame parity, the v-blank and sprite flags of PPUSTATUS,  *)
(* and when the NMI callback is called.                                    *)
(*                                                                         *)
(* One step is one call of PPU::run(), power(), reset() or a read of       *)
(* PPUSTATUS through readreg(), of which this is the part that touches the *)
(* flags: StatusPolling adds the latch that the program's answer comes     *)
(* from, PPURegs the toggle.  What a dot does to the picture is left out:  *)
(* it reads neither the counters' high part nor the flags.                 *)
(***************************************************************************)
EXTENDS Integers

CONSTANTS
    CYCLE_MAX,      \* dots of a line: 341
    LINE_MAX,       \* lines of a frame: 262
    VBLANK_LINE     \* line on which v-blank starts: 241

ASSUME GeometryAssumption ==
    /\ CYCLE_MAX \in Nat /\ CYCLE_MAX > 2
    /\ LINE_MAX \in Nat
    /\ VBLANK_LINE \in Nat /\ VBLANK_LINE + 1 < LINE_MAX

VARIABLES
    cycles, lines,  \* dots and lines since the counters were last restarted
    odd_frame,
    vblank, sp_zero_hit, sp_overflow,   \* PPUSTATUS
    fired,          \* history: calls of nmi_callback in this frame
    taken,          \* history: reads of PPUSTATUS in this frame that found vblank set
    warm            \* history: a frame has ended since power() or reset()

counters == <<cycles, lines, odd_frame>>
sprites == <<sp_zero_hit, sp_overflow>>
history == <<fired, taken, warm>>
vars == <<counters, vblank, sprites, history>>

FrameDots == CYCLE_MAX * LINE_MAX

At(line, dot) == lines % LINE_MAX = line /\ cycles % CYCLE_MAX = dot

\* The state power() leaves behind: v-blank and sprite overflow read as set.
PowerState ==
    /\ cycles = 0 /\ lines = 0 /\ odd_frame = FALSE
    /\ vblank = TRUE /\ sp_zero_hit = FALSE /\ sp_overflow = TRUE
    /\ fired = 0 /\ taken = 0 /\ warm = FALSE

Init == PowerState

-------------------------------------------------------------------------------
(* PPU::run() *)

\* Faulty variant: the line counter is advanced one dot early.
tick_early(c, l) ==
    /\ cycles' = c + 1
    /\ lines' = l + (IF (c + 2) % CYCLE_MAX = 0 THEN 1 ELSE 0)

\* The counters are advanced from c and l at the end of run().
tick(c, l) ==
    /\ cycles' = c + 1
    /\ lines' = l + (IF (c + 1) % CYCLE_MAX = 0 THEN 1 ELSE 0)

\* Faulty variant: the whole v-blank line calls the NMI callback.
vblank_begin_all_line ==
    /\ lines % LINE_MAX = VBLANK_LINE /\ cycles % CYCLE_MAX >= 1
    /\ vblank' = TRUE
    /\ fired' = fired + 1
    /\ tick(cycles, lines)
    /\ UNCHANGED <<odd_frame, sprites, taken, warm>>

vblank_begin ==
    /\ At(VBLANK_LINE, 1)
    /\ vblank' = TRUE
    /\ fired' = fired + 1
    /\ tick(cycles, lines)
    /\ UNCHANGED <<odd_frame, sprites, taken, warm>>

\* Faulty variant: the pre-render line does not clear the v-blank flag.
vblank_end_sprites_only ==
    /\ At(LINE_MAX - 1, 1)
    /\ sp_zero_hit' = FALSE /\ sp_overflow' = FALSE
    /\ tick(cycles, lines)
    /\ UNCHANGED <<odd_frame, vblank, history>>

vblank_end ==
    /\ At(LINE_MAX - 1, 1)
    /\ vblank' = FALSE /\ sp_zero_hit' = FALSE /\ sp_overflow' = FALSE
    /\ tick(cycles, lines)
    /\ UNCHANGED <<odd_frame, history>>

\* Faulty variant: the counters are never restarted.
begin_frame_no_restart ==
    /\ At(LINE_MAX - 1, CYCLE_MAX - 1)
    /\ tick(cycles, lines)
    /\ odd_frame' = ~odd_frame
    /\ fired' = 0 /\ taken' = 0 /\ warm' = TRUE
    /\ UNCHANGED <<vblank, sprites>>

\* The last dot of a frame.  After an odd frame the counters restart, and the
\* increment that follows in run() skips dot 0 of the new frame.
begin_frame ==
    /\ At(LINE_MAX - 1, CYCLE_MAX - 1)
    /\ IF odd_frame THEN tick(0, 0) ELSE tick(cycles, lines)
    /\ odd_frame' = ~odd_frame
    /\ fired' = 0 /\ taken' = 0 /\ warm' = TRUE
    /\ UNCHANGED <<vblank, sprites>>

\* Any other dot of lcycle().
lcycle ==
    /\ ~At(VBLANK_LINE, 1)
    /\ ~At(LINE_MAX - 1, 1)
    /\ ~At(LINE_MAX - 1, CYCLE_MAX - 1)
    /\ tick(cycles, lines)
    /\ UNCHANGED <<odd_frame, vblank, sprites, history>>

run == vblank_begin \/ vblank_end \/ begin_frame \/ lcycle

-------------------------------------------------------------------------------

power ==
    /\ cycles' = 0 /\ lines' = 0 /\ odd_frame' = FALSE
    /\ vblank' = TRUE /\ sp_zero_hit' = FALSE /\ sp_overflow' = TRUE
    /\ fired' = 0 /\ taken' = 0 /\ warm' = FALSE

\* reset() leaves the v-blank flag as it is.
reset ==
    /\ cycles' = 0 /\ lines' = 0 /\ odd_frame' = FALSE
    /\ sp_zero_hit' = FALSE /\ sp_overflow' = FALSE
    /\ fired' = 0 /\ taken' = 0 /\ warm' = FALSE
    /\ UNCHANGED vblank

\* readreg(0x2002), without the latch that it returns.
read_status ==
    /\ vblank' = FALSE
    /\ taken' = taken + (IF vblank THEN 1 ELSE 0)
    /\ UNCHANGED <<counters, sprites, fired, warm>>

Next == run \/ power \/ reset \/ read_status

Spec == Init /\ [][Next]_vars

-------------------------------------------------------------------------------

\* Dots of the current frame that have run, the one skipped included.
Pos == cycles - (IF odd_frame THEN FrameDots ELSE 0)

VBlankDot == VBLANK_LINE * CYCLE_MAX + 1
PreRenderDot == (LINE_MAX - 1) * CYCLE_MAX + 1

\* The counters stay below two frames, the flags are booleans.
TypeOK ==
    /\ cycles \in 0 .. 2 * FrameDots - 1
    /\ lines \in 0 .. 2 * LINE_MAX - 1
    /\ odd_frame \in BOOLEAN
    /\ vblank \in BOOLEAN /\ sp_zero_hit \in BOOLEAN /\ sp_overflow \in BOOLEAN
    /\ fired \in Nat /\ taken \in Nat /\ warm \in BOOLEAN

\* The two counters are advanced separately and restarted together, yet the line
\* counter always is the number of whole lines in the dot counter, and the second
\* frame's worth of counts is used exactly while odd_frame is set: so begin_frame()
\* finds the counters where it asserts them to be, and neither ever overflows.
CountersAgree ==
    /\ lines = cycles \div CYCLE_MAX
    /\ odd_frame <=> cycles >= FrameDots

\* The NMI callback is called once in every frame, at the first dot after v-blank
\* starts: not twice on a frame with a restart, and not skipped with the dot 0
\* that an odd frame drops.
OneNMIPerFrame == fired = IF Pos > VBlankDot THEN 1 ELSE 0

\* The v-blank flag may be found set: v-blank has started and has not ended.
InVBlank == VBlankDot < Pos /\ Pos <= PreRenderDot

\* From the second frame on, io.vblank is set exactly between the dot that starts v-blank
\* and the one that ends it, until the first PPUSTATUS read: no v-blank goes without the
\* flag, no two reads find the same one, and none is left over for the next frame.
VBlankFlagOnce == warm => (vblank <=> InVBlank /\ taken = 0)
===============================================================================

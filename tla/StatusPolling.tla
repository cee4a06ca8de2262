---------------------------- MODULE StatusPolling ----------------------------
(***************************************************************************)
(* What a program learns of v-blank from PPUSTATUS: FrameClock with bit 7  *)
(* of io.latch, the byte that readreg() returns.  A read of PPUSTATUS ors  *)
(* the flags into it, and every other access puts a byte of its own there. *)
(***************************************************************************)
EXTENDS FrameClock

VARIABLE
    latched         \* bit 7 of io.latch

PollInit == Init /\ latched = FALSE

\* Faulty variant: the flag is cleared before it is or-ed into the latch.
poll_cleared_first == read_status /\ UNCHANGED latched

\* readreg(0x2002): the program reads latched'.
poll == read_status /\ latched' = (latched \/ vblank)

\* writereg(), and readreg() of OAMDATA and PPUDATA: any byte.
access == latched' \in BOOLEAN /\ UNCHANGED vars

PollNext ==
    \/ (run \/ power \/ reset) /\ UNCHANGED latched
    \/ poll
    \/ access

PollSpec == PollInit /\ [][PollNext]_<<vars, latched>>

-------------------------------------------------------------------------------

\* A program that polls PPUSTATUS while bit 7 of the latch is clear reads it set exactly
\* if v-blank has started, has not ended, and no read before this one has taken the flag:
\* it learns of every v-blank once.  Where the latch still has the bit, from the poll that
\* succeeded or from any byte since, the program reads v-blank whatever the flag is.
CleanPollTells ==
    [][warm /\ poll /\ ~latched => (latched' <=> InVBlank /\ taken = 0)]_<<vars, latched>>
===============================================================================

--------------------------- MODULE FrameClockProofs ---------------------------
(***************************************************************************)
(* Safety of the PPU clock for every frame geometry.                       *)
(*                                                                         *)
(* The properties speak of the position in the frame, the code of the      *)
(* remainders of two counters.  The inductive invariant therefore states   *)
(* how the counters split into whole lines and a dot of the line (Split)   *)
(* and which half of the line count the frame parity selects (Half), from  *)
(* which the remainders follow by the uniqueness of quotients.             *)
(* VBlankFlagOnce needs besides that no read takes the flag before v-blank,*)
(* and that the first frame too ends with the flag cleared.                *)
(***************************************************************************)
EXTENDS StatusPolling, TLAPS

\* l is the number of whole lines in c dots.
Split(c, l) ==
    /\ c \in Nat /\ l \in Nat
    /\ CYCLE_MAX * l <= c /\ c < CYCLE_MAX * l + CYCLE_MAX

Half ==
    /\ odd_frame \in BOOLEAN
    /\ IF odd_frame THEN LINE_MAX <= lines /\ lines < 2 * LINE_MAX
                    ELSE lines < LINE_MAX

Flags ==
    /\ vblank \in BOOLEAN /\ sp_zero_hit \in BOOLEAN /\ sp_overflow \in BOOLEAN
    /\ fired \in Nat /\ taken \in Nat /\ warm \in BOOLEAN

\* No read has found v-blank before it started.
NotTakenEarly == warm /\ Pos <= VBlankDot => taken = 0

\* The pre-render line ends v-blank in the first frame as well.
OverAtEnd == Pos > PreRenderDot => ~vblank

IInv ==
    /\ Split(cycles, lines) /\ Half /\ Flags
    /\ OneNMIPerFrame /\ VBlankFlagOnce /\ NotTakenEarly /\ OverAtEnd

\* What % and \div compute from a number given as a quotient and a remainder.
LEMMA DivMod ==
  ASSUME NEW m \in Nat, m > 0, NEW q \in Int, NEW r \in 0 .. m - 1,
         NEW n \in Int, n = m * q + r
  PROVE  n % m = r /\ n \div m = q
<1>1. PICK p \in Int, s \in 0 .. m - 1 : n = m * p + s /\ p = n \div m /\ s = n % m
  OBVIOUS
<1>2. m * (q - p) = s - r /\ m * (q - p) < m /\ -m < m * (q - p)
  BY <1>1
<1>3. /\ q - p >= 1 => m * (q - p) >= m
      /\ q - p <= -1 => m * (q - p) <= -m
  OBVIOUS
<1>4. q = p
  BY <1>2, <1>3
<1>5. QED
  BY <1>1, <1>4

\* A quotient and a remainder below the divisor are unique.
LEMMA QuotientUnique ==
  ASSUME NEW m \in Nat, m > 0, NEW q \in Int, NEW p \in Int,
         NEW r \in 0 .. m - 1, NEW s \in 0 .. m - 1,
         m * q + r = m * p + s
  PROVE  q = p /\ r = s
<1>1. PICK n \in Int : n = m * q + r /\ n = m * p + s
  OBVIOUS
<1>2. QED
  BY <1>1, DivMod

\* The last two assignments of run() keep the counters split.
LEMMA TickSplit ==
  ASSUME NEW c, NEW l, Split(c, l), tick(c, l)
  PROVE  Split(cycles', lines') /\ lines' = (IF c + 1 = CYCLE_MAX * l + CYCLE_MAX
                                             THEN l + 1 ELSE l)
<1> USE GeometryAssumption DEF Split
<1>1. CASE c + 1 = CYCLE_MAX * l + CYCLE_MAX
  <2>1. c + 1 = CYCLE_MAX * (l + 1) + 0
    BY <1>1
  <2>2. (c + 1) % CYCLE_MAX = 0
    BY <2>1, DivMod
  <2>3. lines' = l + 1 /\ cycles' = c + 1
    BY <2>2 DEF tick
  <2>4. QED
    BY <2>1, <2>3
<1>2. CASE c + 1 # CYCLE_MAX * l + CYCLE_MAX
  <2>0. c + 1 - CYCLE_MAX * l \in 1 .. CYCLE_MAX - 1
    BY <1>2
  <2>1. PICK r \in 1 .. CYCLE_MAX - 1 : c + 1 = CYCLE_MAX * l + r
    BY <2>0
  <2>2. (c + 1) % CYCLE_MAX = r
    <3>1. r \in 0 .. CYCLE_MAX - 1 /\ c + 1 \in Int /\ l \in Int
      OBVIOUS
    <3>2. QED
      BY <2>1, <3>1, DivMod
  <2>3. lines' = l /\ cycles' = c + 1
    BY <2>1, <2>2 DEF tick
  <2>4. QED
    BY <1>2, <2>3
<1>3. QED
  BY <1>1, <1>2

Line == lines - (IF odd_frame THEN LINE_MAX ELSE 0)
Dot == cycles - CYCLE_MAX * lines

\* The position in the frame is a line and a dot of it.
LEMMA PosSplit ==
  ASSUME IInv
  PROVE  /\ Line \in 0 .. LINE_MAX - 1 /\ Dot \in 0 .. CYCLE_MAX - 1
         /\ Pos \in Nat /\ Pos = CYCLE_MAX * Line + Dot
         /\ lines % LINE_MAX = Line /\ cycles % CYCLE_MAX = Dot
<1> USE GeometryAssumption DEF IInv, Split, Half
<1>1. Line \in 0 .. LINE_MAX - 1 /\ Dot \in 0 .. CYCLE_MAX - 1
  BY DEF Line, Dot
<1>2. Pos = CYCLE_MAX * Line + Dot
  BY DEF Line, Dot, Pos, FrameDots
<1>3. CYCLE_MAX * Line \in Nat
  BY <1>1
<1>4. lines % LINE_MAX = Line
  <2>1. lines = LINE_MAX * (IF odd_frame THEN 1 ELSE 0) + Line
    BY DEF Line
  <2>2. QED
    BY <1>1, <2>1, DivMod
<1>5. cycles % CYCLE_MAX = Dot
  <2>1. cycles = CYCLE_MAX * lines + Dot
    BY DEF Dot
  <2>2. QED
    BY <1>1, <2>1, DivMod
<1>6. QED
  BY <1>1, <1>2, <1>3, <1>4, <1>5

\* The test that lcycle() makes on the remainders is a test of the position.
LEMMA AtPos ==
  ASSUME IInv, NEW line \in 0 .. LINE_MAX - 1, NEW dot \in 0 .. CYCLE_MAX - 1
  PROVE  At(line, dot) <=> Pos = CYCLE_MAX * line + dot
<1> USE GeometryAssumption
<1>1. At(line, dot) <=> line = Line /\ dot = Dot
  BY PosSplit DEF At
<1>2. Pos = CYCLE_MAX * line + dot => line = Line /\ dot = Dot
  <2> SUFFICES ASSUME Pos = CYCLE_MAX * line + dot PROVE line = Line /\ dot = Dot
    OBVIOUS
  <2>1. /\ CYCLE_MAX * line + dot = CYCLE_MAX * Line + Dot
        /\ Line \in Int /\ Dot \in 0 .. CYCLE_MAX - 1
    BY PosSplit
  <2>2. QED
    BY <2>1, QuotientUnique
<1>3. QED
  BY <1>1, <1>2, PosSplit

\* The three dots at which lcycle() does more than draw, in the order of the frame.
LEMMA SpecialDots ==
  /\ VBlankDot \in Nat /\ PreRenderDot \in Nat /\ FrameDots \in Nat
  /\ 1 <= VBlankDot /\ VBlankDot < PreRenderDot /\ PreRenderDot < FrameDots - 1
<1> USE GeometryAssumption
<1>1. PICK k \in Nat : LINE_MAX - 1 = VBLANK_LINE + 1 + k
  <2>1. LINE_MAX - 2 - VBLANK_LINE \in Nat
    OBVIOUS
  <2>2. QED
    BY <2>1
<1>2. CYCLE_MAX * VBLANK_LINE \in Nat /\ CYCLE_MAX * k \in Nat
  BY <1>1
<1>3. CYCLE_MAX * (LINE_MAX - 1) = CYCLE_MAX * VBLANK_LINE + CYCLE_MAX + CYCLE_MAX * k
  BY <1>1
<1>4. FrameDots = CYCLE_MAX * (LINE_MAX - 1) + CYCLE_MAX
  BY DEF FrameDots
<1>5. QED
  BY <1>2, <1>3, <1>4 DEF VBlankDot, PreRenderDot

\* The same, as the guards of the actions test them.
LEMMA Guards ==
  ASSUME IInv
  PROVE  /\ At(VBLANK_LINE, 1) <=> Pos = VBlankDot
         /\ At(LINE_MAX - 1, 1) <=> Pos = PreRenderDot
         /\ At(LINE_MAX - 1, CYCLE_MAX - 1) <=> Pos = FrameDots - 1
<1> USE GeometryAssumption
<1>1. At(VBLANK_LINE, 1) <=> Pos = CYCLE_MAX * VBLANK_LINE + 1
  BY AtPos
<1>2. At(LINE_MAX - 1, 1) <=> Pos = CYCLE_MAX * (LINE_MAX - 1) + 1
  BY AtPos
<1>3. At(LINE_MAX - 1, CYCLE_MAX - 1)
        <=> Pos = CYCLE_MAX * (LINE_MAX - 1) + (CYCLE_MAX - 1)
  BY AtPos
<1>4. CYCLE_MAX * (LINE_MAX - 1) + (CYCLE_MAX - 1) = FrameDots - 1
  BY DEF FrameDots
<1>5. QED
  BY <1>1, <1>2, <1>3, <1>4 DEF VBlankDot, PreRenderDot

\* A dot that is not the last of its frame moves one position on.
LEMMA Advance ==
  ASSUME IInv, tick(cycles, lines), odd_frame' = odd_frame, Pos # FrameDots - 1
  PROVE  Split(cycles, lines)' /\ Half' /\ Pos' = Pos + 1
<1> USE GeometryAssumption
<1>1. Split(cycles', lines') /\ lines' = (IF cycles + 1 = CYCLE_MAX * lines + CYCLE_MAX
                                          THEN lines + 1 ELSE lines)
  BY TickSplit DEF IInv
<1>2. Pos' = Pos + 1
  BY DEF Pos, tick, IInv, Split, FrameDots
<1>3. Half'
  <2>1. CASE lines' = lines
    BY <2>1 DEF Half, IInv
  <2>2. CASE cycles + 1 = CYCLE_MAX * lines + CYCLE_MAX /\ lines' = lines + 1
    <3>1. Dot = CYCLE_MAX - 1
      BY <2>2 DEF Dot, IInv, Split
    <3>2. Line # LINE_MAX - 1
      BY <3>1, PosSplit DEF FrameDots
    <3>3. QED
      BY <2>2, <3>2, PosSplit DEF Half, IInv, Line, Split
  <2>3. QED
    BY <1>1, <2>1, <2>2
<1>4. QED
  BY <1>1, <1>2, <1>3 DEF Split

\* The last dot of a frame is followed by dot 0 of an odd frame or dot 1 of an even one.
LEMMA Wrap ==
  ASSUME IInv, begin_frame
  PROVE  Split(cycles, lines)' /\ Half' /\ Pos' = (IF odd_frame THEN 1 ELSE 0)
<1> USE GeometryAssumption
<1>1. Pos = FrameDots - 1
  BY Guards DEF begin_frame
<1>2. CASE odd_frame
  <2>1. tick(0, 0) /\ odd_frame' = FALSE
    BY <1>2 DEF begin_frame
  <2>2. Split(0, 0)
    BY DEF Split
  <2>3. Split(cycles', lines') /\ lines' = 0 /\ cycles' = 1
    BY <2>1, <2>2, TickSplit DEF tick
  <2>4. Split(cycles, lines)'
    BY <2>3 DEF Split
  <2>5. Half'
    <3>1. lines' < LINE_MAX
      BY <2>3
    <3>2. QED
      BY <2>1, <3>1, Zenon DEF Half
  <2>6. Pos' = 1
    BY <2>1, <2>3 DEF Pos
  <2>7. QED
    BY <1>2, <2>4, <2>5, <2>6
<1>3. CASE ~odd_frame
  <2>1. tick(cycles, lines) /\ odd_frame' = TRUE
    BY <1>3 DEF begin_frame
  <2>2. cycles = FrameDots - 1 /\ cycles \in Nat /\ lines \in Nat
    BY <1>1, <1>3 DEF Pos, IInv, Split
  <2>3. lines = LINE_MAX - 1 /\ Dot = CYCLE_MAX - 1
    BY <1>3, PosSplit DEF begin_frame, At, Line, IInv, Split
  <2>4. cycles + 1 = CYCLE_MAX * lines + CYCLE_MAX
    BY <2>2, <2>3 DEF Dot
  <2>5. Split(cycles', lines') /\ lines' = LINE_MAX
    BY <2>1, <2>3, <2>4, TickSplit DEF IInv
  <2>6. cycles' = FrameDots
    BY <2>1, <2>2, SpecialDots DEF tick
  <2>7. QED
    BY <1>3, <2>1, <2>5, <2>6, SpecialDots DEF Split, Half, Pos, IInv, FrameDots
<1>4. QED
  BY <1>2, <1>3 DEF IInv, Half

\* run() goes through the dots of a line, through the lines of a frame, and from the last
\* dot of a frame to the first or the second one of the next.
LEMMA NextDot ==
  ASSUME IInv, run, IInv'
  PROVE  \/ Dot # CYCLE_MAX - 1 /\ Dot' = Dot + 1 /\ Line' = Line
         \/ Dot = CYCLE_MAX - 1 /\ Line # LINE_MAX - 1 /\ Dot' = 0 /\ Line' = Line + 1
         \/ Dot = CYCLE_MAX - 1 /\ Line = LINE_MAX - 1 /\ (Dot' = 0 \/ Dot' = 1) /\ Line' = 0
<1> USE GeometryAssumption
<1>1. cycles \in Nat /\ lines \in Nat /\ Line \in Int
  BY PosSplit DEF IInv, Split
<1>2. CASE begin_frame
  <2>1. Line = LINE_MAX - 1 /\ Dot = CYCLE_MAX - 1
    BY <1>2, PosSplit DEF begin_frame, At
  <2>2. Pos' \in {0, 1}
    BY <1>2, Wrap
  <2>3. Line' \in Nat /\ Dot' \in Nat /\ Pos' = CYCLE_MAX * Line' + Dot'
    <3>1. IInv' => (/\ Line \in 0 .. LINE_MAX - 1 /\ Dot \in 0 .. CYCLE_MAX - 1
                    /\ Pos = CYCLE_MAX * Line + Dot)'
      BY PosSplit, PTL
    <3>2. QED
      BY <3>1
  <2>4. PICK l \in Nat, d \in Nat : l = Line' /\ d = Dot' /\ Pos' = CYCLE_MAX * l + d
    BY <2>3, Zenon
  <2>5. PICK m \in Nat : m = CYCLE_MAX * l
    OBVIOUS
  <2>6. m + d = 0 \/ m + d = 1
    BY <2>2, <2>4, <2>5, Zenon
  <2>7. l = 0
    <3>1. SUFFICES ASSUME l >= 1 PROVE FALSE
      OBVIOUS
    <3>2. CYCLE_MAX * l >= CYCLE_MAX
      BY <3>1
    <3>3. m >= CYCLE_MAX
      BY <2>5, <3>2
    <3>4. QED
      BY <2>6, <3>3
  <2>8. d = 0 \/ d = 1
    BY <2>6
  <2>9. QED
    BY <2>1, <2>4, <2>7, <2>8
<1>3. CASE ~begin_frame
  <2>1. tick(cycles, lines) /\ odd_frame' = odd_frame /\ ~At(LINE_MAX - 1, CYCLE_MAX - 1)
    <3>1. CASE vblank_begin
      BY <3>1, Guards, SpecialDots DEF vblank_begin
    <3>2. CASE vblank_end
      BY <3>2, Guards, SpecialDots DEF vblank_end
    <3>3. CASE lcycle
      BY <3>3 DEF lcycle
    <3>4. QED
      BY <1>3, <3>1, <3>2, <3>3 DEF run
  <2>2. /\ cycles' = cycles + 1
        /\ lines' = (IF cycles + 1 = CYCLE_MAX * lines + CYCLE_MAX THEN lines + 1 ELSE lines)
    BY <2>1, TickSplit DEF IInv, tick
  <2>3. ~(Line = LINE_MAX - 1 /\ Dot = CYCLE_MAX - 1)
    BY <2>1, PosSplit DEF At
  <2>4. Line' = Line + (lines' - lines)
    BY <1>1, <2>1, <2>2 DEF Line
  <2>5. CASE Dot = CYCLE_MAX - 1
    <3>1. cycles + 1 = CYCLE_MAX * lines + CYCLE_MAX
      BY <1>1, <2>5 DEF Dot
    <3>2. lines' = lines + 1
      BY <2>2, <3>1
    <3>3. Dot' = 0
      BY <1>1, <2>2, <3>1, <3>2 DEF Dot
    <3>4. Line' = Line + 1
      BY <1>1, <2>4, <3>2
    <3>5. QED
      BY <2>3, <2>5, <3>3, <3>4
  <2>6. CASE Dot # CYCLE_MAX - 1
    <3>1. lines' = lines
      BY <1>1, <2>2, <2>6 DEF Dot
    <3>2. Dot' = Dot + 1
      BY <1>1, <2>2, <3>1 DEF Dot
    <3>3. Line' = Line
      BY <1>1, <2>4, <3>1
    <3>4. QED
      BY <2>6, <3>2, <3>3
  <2>7. QED
    BY <2>5, <2>6
<1>4. QED
  BY <1>2, <1>3

-------------------------------------------------------------------------------

\* IInv holds of a PPU that has just been powered.
LEMMA InitIInv == Init => IInv
<1> SUFFICES ASSUME Init PROVE IInv
  OBVIOUS
<1> USE GeometryAssumption DEF Init, PowerState
<1>1. Split(cycles, lines)
  BY DEF Split
<1>2. Half
  <2>1. lines < LINE_MAX
    OBVIOUS
  <2>2. QED
    BY <2>1, Zenon DEF Half
<1>3. Flags
  BY DEF Flags
<1>4. OneNMIPerFrame /\ VBlankFlagOnce /\ NotTakenEarly /\ OverAtEnd
  BY SpecialDots DEF OneNMIPerFrame, VBlankFlagOnce, InVBlank, NotTakenEarly, OverAtEnd, Pos
<1>5. QED
  BY <1>1, <1>2, <1>3, <1>4 DEF IInv

\* Every call of run(), power(), reset() and every PPUSTATUS read preserves IInv.
LEMMA NextIInv == IInv /\ [Next]_vars => IInv'
<1> SUFFICES ASSUME IInv, [Next]_vars PROVE IInv'
  OBVIOUS
<1> USE GeometryAssumption, SpecialDots
<1>1. Pos \in Nat
  BY PosSplit
<1>2. CASE vblank_begin
  <2>1. Pos = VBlankDot
    BY <1>2, Guards DEF vblank_begin
  <2>2. Split(cycles, lines)' /\ Half' /\ Pos' = Pos + 1
    BY <1>2, <2>1, Advance DEF vblank_begin
  <2>3. Flags' /\ OneNMIPerFrame'
    BY <1>2, <2>1, <2>2 DEF IInv, Flags, OneNMIPerFrame, vblank_begin, sprites
  <2>4. VBlankFlagOnce' /\ NotTakenEarly' /\ OverAtEnd'
    BY <1>2, <2>1, <2>2 DEF IInv, Flags, VBlankFlagOnce, InVBlank, NotTakenEarly, OverAtEnd,
                                vblank_begin
  <2>5. QED
    BY <2>2, <2>3, <2>4 DEF IInv
<1>3. CASE vblank_end
  <2>1. Pos = PreRenderDot
    BY <1>3, Guards DEF vblank_end
  <2>2. Split(cycles, lines)' /\ Half' /\ Pos' = Pos + 1
    BY <1>3, <2>1, Advance DEF vblank_end
  <2>3. Flags'
    BY <1>3 DEF IInv, Flags, vblank_end, history
  <2>6. OneNMIPerFrame'
    BY <1>3, <2>1, <2>2 DEF IInv, OneNMIPerFrame, vblank_end, history
  <2>4. VBlankFlagOnce' /\ NotTakenEarly' /\ OverAtEnd'
    BY <1>3, <2>1, <2>2
       DEF IInv, Flags, VBlankFlagOnce, InVBlank, NotTakenEarly, OverAtEnd, vblank_end, history
  <2>5. QED
    BY <2>2, <2>3, <2>4, <2>6 DEF IInv
<1>4. CASE begin_frame
  <2>1. Pos = FrameDots - 1
    BY <1>4, Guards DEF begin_frame
  <2>2. Split(cycles, lines)' /\ Half' /\ Pos' = (IF odd_frame THEN 1 ELSE 0)
    BY <1>4, Wrap
  <2>3. Pos' \in {0, 1}
    BY <2>2
  <2>4. Flags' /\ OneNMIPerFrame'
    BY <1>4, <2>3 DEF IInv, Flags, OneNMIPerFrame, begin_frame, sprites
  <2>5. ~vblank'
    BY <1>4, <2>1 DEF IInv, OverAtEnd, begin_frame
  <2>6. ~(VBlankDot < Pos')
    BY <2>3
  <2>7. taken' = 0
    BY <1>4 DEF begin_frame
  <2>8. VBlankFlagOnce' /\ NotTakenEarly' /\ OverAtEnd'
    BY <2>5, <2>6, <2>7 DEF VBlankFlagOnce, InVBlank, NotTakenEarly, OverAtEnd
  <2>9. QED
    BY <2>2, <2>4, <2>8 DEF IInv
<1>5. CASE lcycle
  <2>1. Pos # VBlankDot /\ Pos # PreRenderDot /\ Pos # FrameDots - 1
    BY <1>5, Guards DEF lcycle
  <2>2. Split(cycles, lines)' /\ Half' /\ Pos' = Pos + 1
    BY <1>5, <2>1, Advance DEF lcycle
  <2>3. Flags'
    BY <1>5 DEF IInv, Flags, lcycle, sprites, history
  <2>4. OneNMIPerFrame' /\ NotTakenEarly' /\ OverAtEnd'
    BY <1>5, <1>1, <2>1, <2>2
       DEF IInv, OneNMIPerFrame, NotTakenEarly, OverAtEnd, lcycle, history
  <2>5. (VBlankDot < Pos' <=> VBlankDot < Pos) /\ (Pos' <= PreRenderDot <=> Pos <= PreRenderDot)
    BY <1>1, <2>1, <2>2
  <2>6. VBlankFlagOnce'
    <3>1. UNCHANGED <<vblank, taken, warm>>
      BY <1>5 DEF lcycle, history
    <3>2. QED
      BY <2>5, <3>1, Zenon DEF IInv, VBlankFlagOnce, InVBlank
  <2>7. QED
    BY <2>2, <2>3, <2>4, <2>6 DEF IInv
<1>6. CASE power \/ reset
  <2>1. cycles' = 0 /\ lines' = 0 /\ odd_frame' = FALSE /\ warm' = FALSE /\ fired' = 0 /\ taken' = 0
    BY <1>6 DEF power, reset
  <2>2. Split(cycles, lines)'
    BY <2>1 DEF Split
  <2>3. Pos' = 0
    <3>1. Pos' = cycles' - 0
      BY <2>1, Zenon DEF Pos
    <3>2. QED
      BY <2>1, <3>1
  <2>4. Half'
    <3>1. lines' < LINE_MAX
      BY <2>1
    <3>2. QED
      BY <2>1, <3>1, Zenon DEF Half
  <2>5. Flags'
    <3>1. fired' \in Nat /\ taken' \in Nat
      BY <2>1
    <3>2. QED
      BY <1>6, <2>1, <3>1, Zenon DEF IInv, Flags, power, reset
  <2>6. OneNMIPerFrame' /\ VBlankFlagOnce' /\ NotTakenEarly' /\ OverAtEnd'
    BY <2>1, <2>3 DEF OneNMIPerFrame, VBlankFlagOnce, InVBlank, NotTakenEarly, OverAtEnd
  <2>7. QED
    BY <2>2, <2>4, <2>5, <2>6 DEF IInv
<1>7. CASE read_status
  <2>1. UNCHANGED <<cycles, lines, odd_frame, fired, warm>> /\ ~vblank'
    BY <1>7 DEF read_status, counters
  <2>2. Split(cycles, lines)' /\ Half' /\ Pos' = Pos
    BY <2>1 DEF IInv, Split, Half, Pos
  <2>3. Flags'
    <3>1. taken' \in Nat
      BY <1>7 DEF IInv, Flags, read_status
    <3>2. QED
      BY <1>7, <2>1, <3>1, Zenon DEF IInv, Flags, read_status, sprites
  <2>4. OneNMIPerFrame' /\ OverAtEnd'
    BY <2>1, <2>2 DEF IInv, OneNMIPerFrame, OverAtEnd
  <2>5. NotTakenEarly'
    <3>1. warm /\ Pos <= VBlankDot => ~vblank
      BY <1>1 DEF IInv, VBlankFlagOnce, InVBlank
    <3>2. QED
      BY <1>7, <2>1, <2>2, <3>1 DEF IInv, Flags, NotTakenEarly, read_status
  <2>6. VBlankFlagOnce'
    <3>1. taken' # 0 \/ ~(VBlankDot < Pos /\ Pos <= PreRenderDot) \/ ~warm
      <4>1. CASE vblank
        BY <1>7, <4>1 DEF IInv, Flags, read_status
      <4>2. CASE ~vblank
        BY <1>7, <4>2 DEF IInv, Flags, VBlankFlagOnce, InVBlank, read_status
      <4>3. QED
        BY <4>1, <4>2
    <3>2. QED
      BY <2>1, <2>2, <3>1 DEF VBlankFlagOnce, InVBlank
  <2>7. QED
    BY <2>2, <2>3, <2>4, <2>5, <2>6 DEF IInv
<1>8. CASE UNCHANGED vars
  BY <1>8 DEF IInv, Split, Half, Flags, OneNMIPerFrame, VBlankFlagOnce, InVBlank, NotTakenEarly,
              OverAtEnd, Pos, vars, counters, sprites, history
<1>9. QED
  BY <1>2, <1>3, <1>4, <1>5, <1>6, <1>7, <1>8 DEF Next, run

\* The strengthened invariant holds in every reachable state.
THEOREM Invariance == Spec => []IInv
BY InitIInv, NextIInv, PTL DEF Spec

\* The counters stay below two frames.
LEMMA InvTypeOK == ASSUME IInv PROVE TypeOK
<1> USE GeometryAssumption
<1>1. cycles \in Nat /\ lines \in Nat /\ lines < 2 * LINE_MAX
  BY DEF IInv, Split, Half
<1>2. cycles < CYCLE_MAX * (lines + 1) /\ lines + 1 <= 2 * LINE_MAX
  BY <1>1 DEF IInv, Split
<1>3. CYCLE_MAX * (lines + 1) <= CYCLE_MAX * (2 * LINE_MAX)
  BY <1>1, <1>2
<1>4. CYCLE_MAX * (2 * LINE_MAX) = 2 * FrameDots /\ FrameDots \in Nat
  BY DEF FrameDots
<1>5. cycles \in 0 .. 2 * FrameDots - 1 /\ lines \in 0 .. 2 * LINE_MAX - 1
  BY <1>1, <1>2, <1>3, <1>4
<1>6. QED
  BY <1>5 DEF IInv, Half, Flags, TypeOK

\* PPU::run()'s counters stay below two frames: neither overflows, and nmi_callback
\* and PPUSTATUS history are well typed.
THEOREM TypeCorrect == Spec => []TypeOK
  BY InvTypeOK, Invariance, PTL

\* lines always is the number of whole lines in cycles, and odd_frame selects the
\* frame the counters are in, for every geometry: what begin_frame() asserts holds.
THEOREM Counters == Spec => []CountersAgree
<1>1. IInv => CountersAgree
  <2> SUFFICES ASSUME IInv PROVE CountersAgree
    OBVIOUS
  <2> USE GeometryAssumption
  <2>1. cycles \in Nat /\ lines \in Nat
    BY DEF IInv, Split
  <2>2. PICK r \in 0 .. CYCLE_MAX - 1 : cycles = CYCLE_MAX * lines + r
    <3>1. cycles - CYCLE_MAX * lines \in 0 .. CYCLE_MAX - 1
      BY <2>1 DEF IInv, Split
    <3>2. cycles = CYCLE_MAX * lines + (cycles - CYCLE_MAX * lines)
      BY <2>1
    <3>3. QED
      BY <3>1, <3>2
  <2>3. lines = cycles \div CYCLE_MAX
    BY <2>1, <2>2, DivMod
  <2>4. CASE odd_frame
    <3>1. LINE_MAX <= lines
      BY <2>4 DEF IInv, Half
    <3>2. CYCLE_MAX * LINE_MAX <= CYCLE_MAX * lines
      BY <2>1, <3>1
    <3>3. cycles >= FrameDots
      BY <2>1, <2>2, <3>2 DEF FrameDots
    <3>4. QED
      BY <2>3, <2>4, <3>3 DEF CountersAgree
  <2>5. CASE ~odd_frame
    <3>1. lines + 1 <= LINE_MAX
      BY <2>1, <2>5 DEF IInv, Half
    <3>2. CYCLE_MAX * (lines + 1) <= CYCLE_MAX * LINE_MAX
      BY <2>1, <3>1
    <3>3. ~(cycles >= FrameDots)
      BY <2>1, <2>2, <3>2 DEF FrameDots
    <3>4. QED
      BY <2>3, <2>5, <3>3 DEF CountersAgree
  <2>6. QED
    BY <2>4, <2>5
<1>2. QED
  BY <1>1, Invariance, PTL

\* Every frame calls the NMI callback once, wherever power() and reset() restart it.
THEOREM OneNMI == Spec => []OneNMIPerFrame
<1>1. IInv => OneNMIPerFrame
  BY DEF IInv
<1>2. QED
  BY <1>1, Invariance, PTL

\* io.vblank is set through each v-blank of a warm PPU, until one PPUSTATUS read takes it.
THEOREM FlagOnce == Spec => []VBlankFlagOnce
<1>1. IInv => VBlankFlagOnce
  BY DEF IInv
<1>2. QED
  BY <1>1, Invariance, PTL

-------------------------------------------------------------------------------
(* Polling *)

\* With the latch beside it the PPU is still a clock: an access other than a read of
\* PPUSTATUS leaves it alone.
LEMMA PollStep == [PollNext]_<<vars, latched>> => [Next]_vars
BY DEF PollNext, poll, access, Next

\* So what is proved of every behaviour of the clock holds while a program polls it.
LEMMA PollImplements == PollSpec => Spec
<1>1. PollInit => Init
  BY DEF PollInit
<1>2. QED
  BY <1>1, PollStep, PTL DEF PollSpec, Spec

\* A poll with bit 7 clear on the latch reads v-blank exactly if it is the first since
\* v-blank has started: what io.latch |= adds to it is the flag, before it is cleared.
THEOREM CleanPolls == PollSpec => CleanPollTells
<1> DEFINE Tells == warm /\ poll /\ ~latched => (latched' <=> InVBlank /\ taken = 0)
<1>1. ASSUME IInv, [PollNext]_<<vars, latched>> PROVE [Tells]_<<vars, latched>>
  <2> SUFFICES ASSUME warm, poll, ~latched PROVE latched' <=> InVBlank /\ taken = 0
    OBVIOUS
  <2>1. latched' <=> vblank
    BY DEF poll
  <2>2. vblank <=> InVBlank /\ taken = 0
    BY <1>1, Zenon DEF IInv, VBlankFlagOnce
  <2>3. QED
    BY <2>1, <2>2, Zenon
<1>2. PollSpec => []IInv
  BY PollImplements, Invariance, PTL
<1>3. QED
  BY <1>1, <1>2, PTL DEF PollSpec, CleanPollTells
===============================================================================

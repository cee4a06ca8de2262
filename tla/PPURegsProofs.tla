----------------------------- MODULE PPURegsProofs -----------------------------
(***************************************************************************)
(* The PPUADDR protocol for every sequence of register accesses with every *)
(* byte.  TypeOK, HalfAddress and AddressPair are inductive together: the  *)
(* low byte completes an address only because the temporary still holds    *)
(* the high one.                                                           *)
(***************************************************************************)
EXTENDS PPURegs, TLAPS

\* The bits of a number above and below a field.
above(a, w, s) == (a \div w) \div s
below(a, w) == a % w

\* A number around one of its fields, and what setbits() makes of it.
Around(a, w, s, d) ==
    /\ above(a, w, s) \in Nat
    /\ below(a, w) \in Nat /\ below(a, w) < w
    /\ getfield(a, w, s) \in Nat /\ getfield(a, w, s) < s
    /\ d % s \in Nat /\ (d % s) < s
    /\ a = w * (s * above(a, w, s)) + w * getfield(a, w, s) + below(a, w)
    /\ setbits(a, w, s, d) =
          w * (s * above(a, w, s)) + w * (d % s) + below(a, w)

\* What % and \div compute from a number given as a quotient and a remainder.
LEMMA DivMod ==
  ASSUME NEW m \in Nat, m > 0, NEW q \in Int, NEW r \in 0 .. m - 1,
         NEW n \in Int, n = m * q + r
  PROVE  n % m = r /\ n \div m = q
<1>1. PICK p \in Int, s \in 0 .. m - 1 : n = m * p + s /\ p = n \div m /\ s = n % m
  OBVIOUS
<1>2. m * (q - p) = s - r /\ m * (q - p) < m /\ -m < m * (q - p)
  BY <1>1
<1>3. /\ q - p >= 1 => m * (q - p) >= m
      /\ q - p <= -1 => m * (q - p) <= -m
  OBVIOUS
<1>4. q = p
  BY <1>2, <1>3
<1>5. QED
  BY <1>1, <1>4

\* Every number has a quotient and a remainder, which \div and % compute.
LEMMA Divides ==
  ASSUME NEW m \in Nat, m > 0, NEW n \in Nat
  PROVE  \E q \in Nat, r \in 0 .. m - 1 :
            n = m * q + r /\ n \div m = q /\ n % m = r
<1>1. PICK q \in Int, r \in 0 .. m - 1 : n = m * q + r /\ q = n \div m /\ r = n % m
  OBVIOUS
<1>2. q <= -1 => m * q <= -m
  OBVIOUS
<1>3. QED
  BY <1>1, <1>2

\* Every number is so.
LEMMA Field ==
  ASSUME NEW w \in Nat, w > 0, NEW s \in Nat, s > 0, NEW a \in Nat, NEW d \in Nat
  PROVE  Around(a, w, s, d)
<1>1. PICK n \in Nat, r \in 0 .. w - 1 : a = w * n + r /\ a \div w = n /\ a % w = r
  BY Divides
<1>2. PICK q \in Nat, f \in 0 .. s - 1 : n = s * q + f /\ n \div s = q /\ n % s = f
  BY Divides
<1>3. PICK e \in 0 .. s - 1 : e = d % s
  BY Divides
<1>4. getfield(a, w, s) = f /\ above(a, w, s) = q /\ below(a, w) = r
  BY <1>1, <1>2 DEF getfield, above, below
<1>5. PICK g \in Nat : g = s * q
  OBVIOUS
<1>6. w * (g + f) = w * g + w * f /\ w * (e - f) = w * e - w * f
  OBVIOUS
<1>7. a = w * (s * q) + w * f + r
  BY <1>1, <1>2, <1>5, <1>6
<1>8. setbits(a, w, s, d) = w * (s * q) + w * e + r
  <2>1. setbits(a, w, s, d) = a + w * (e - f)
    BY <1>3, <1>4 DEF setbits
  <2>2. w * f \in Int /\ w * e \in Int /\ w * g \in Int
    OBVIOUS
  <2>3. QED
    BY <1>5, <1>6, <1>7, <2>1, <2>2
<1>9. QED
  BY <1>3, <1>4, <1>7, <1>8 DEF Around

Address == {n \in Nat : n < 32768}

\* setbits() on each field of a fifteen-bit address leaves fifteen bits.
LEMMA FieldTypes ==
  ASSUME NEW a \in Address, NEW d \in Nat
  PROVE  /\ set_nt(a, d) \in Address
         /\ set_coarse_x(a, d) \in Address
         /\ set_coarse_y(a, d) \in Address
         /\ set_fine_y(a, d) \in Address
<1>0. a \in Nat /\ a < 32768
  BY DEF Address
<1>1. set_nt(a, d) \in Address
  <2>1. Around(a, 1024, 4, d)
    BY <1>0, Field
  <2>2. QED
    BY <1>0, <2>1 DEF Around, set_nt, Address
<1>2. set_coarse_x(a, d) \in Address
  <2>1. Around(a, 1, 32, d)
    BY <1>0, Field
  <2>2. QED
    BY <1>0, <2>1 DEF Around, set_coarse_x, Address
<1>3. set_coarse_y(a, d) \in Address
  <2>1. Around(a, 32, 32, d)
    BY <1>0, Field
  <2>2. QED
    BY <1>0, <2>1 DEF Around, set_coarse_y, Address
<1>4. set_fine_y(a, d) \in Address
  <2>1. Around(a, 4096, 8, d)
    BY <1>0, Field
  <2>2. QED
    BY <1>0, <2>1 DEF Around, set_fine_y, Address
<1>5. QED
  BY <1>1, <1>2, <1>3, <1>4

\* The remainders and the quotient that the register writes take of a byte.
LEMMA ByteParts ==
  ASSUME NEW d \in Nat, NEW m \in Nat, m > 0
  PROVE  /\ d \div m \in Nat /\ d % m \in Nat /\ (d % m) < m
         /\ d < m => d % m = d
<1>1. d \div m \in Nat /\ d % m \in Nat /\ (d % m) < m
  BY Divides
<1>2. ASSUME d < m PROVE d % m = d
  <2>1. PICK z \in Int : z = 0
    OBVIOUS
  <2>2. d = m * z + d /\ d \in 0 .. m - 1
    BY <1>2, <2>1
  <2>3. QED
    BY <2>2, DivMod
<1>3. QED
  BY <1>1, <1>2

\* The first PPUADDR write leaves a fourteen-bit temporary whose high part is the
\* low six bits of the byte.
LEMMA HighByte ==
  ASSUME NEW a \in Address, NEW d \in Nat
  PROVE  LET c == setbits(setbits(a, 256, 64, d), 16384, 2, 0)
         IN  c \in Address /\ c \div 256 = d % 64
<1>1. a \in Nat /\ a < 32768
  BY DEF Address
<1>2. PICK b : b = setbits(a, 256, 64, d)
  OBVIOUS
<1>3. Around(a, 256, 64, d)
  BY <1>1, Field
<1>4. PICK q, r, e, g : /\ q = above(a, 256, 64) /\ r = below(a, 256)
                        /\ e = d % 64 /\ g = getfield(a, 256, 64)
  OBVIOUS
<1>5. /\ q \in Nat /\ r \in Nat /\ e \in Nat /\ g \in Nat /\ r < 256 /\ e < 64
       /\ a = 256 * (64 * q) + 256 * g + r
       /\ b = 256 * (64 * q) + 256 * e + r
  BY <1>2, <1>3, <1>4 DEF Around
<1>6. q <= 1 /\ b \in Nat /\ b = 16384 * q + 256 * e + r
  BY <1>1, <1>5
<1>7. Around(b, 16384, 2, 0)
  BY <1>6, Field
<1>8. 0 % 2 = 0
  OBVIOUS
<1>9. PICK c : c = setbits(b, 16384, 2, 0)
  OBVIOUS
<1>10. c = 256 * e + r
  <2>1. PICK p, t, f : p = above(b, 16384, 2) /\ t = below(b, 16384)
                       /\ f = getfield(b, 16384, 2)
    OBVIOUS
  <2>2. /\ p \in Nat /\ t \in Nat /\ f \in Nat /\ f < 2 /\ t < 16384
        /\ b = 16384 * (2 * p) + 16384 * f + t
        /\ c = 16384 * (2 * p) + 16384 * (0 % 2) + t
    BY <1>7, <1>9, <2>1 DEF Around
  <2>3. p = 0 /\ f = q /\ t = 256 * e + r
    BY <1>5, <1>6, <2>2
  <2>4. QED
    BY <1>8, <2>2, <2>3
<1>11. PICK m \in Nat : m = 256
  OBVIOUS
<1>12. c \div m = e
  <2>1. m > 0 /\ r \in 0 .. m - 1 /\ c \in Int /\ c = m * e + r
    BY <1>5, <1>10, <1>11
  <2>2. QED
    BY <1>5, <2>1, DivMod
<1>13. c \in Address
  BY <1>5, <1>10 DEF Address
<1>14. QED
  BY <1>2, <1>4, <1>9, <1>11, <1>12, <1>13

\* The second PPUADDR write replaces the low byte.
LEMMA LowByte ==
  ASSUME NEW a \in Address, NEW d \in Nat, d < 256
  PROVE  /\ setbits(a, 1, 256, d) \in Address
         /\ setbits(a, 1, 256, d) = (a \div 256) * 256 + d
<1>1. a \in Nat /\ a < 32768
  BY DEF Address
<1>2. Around(a, 1, 256, d)
  BY <1>1, Field
<1>3. PICK m \in Nat : m = 256
  OBVIOUS
<1>4. d % m = d
  BY <1>3, ByteParts
<1>5. PICK q \in Nat, f \in Nat :
        f < 256 /\ a = 256 * q + f /\ setbits(a, 1, 256, d) = 256 * q + d
  BY <1>2, <1>3, <1>4 DEF Around
<1>6. a \div m = q
  <2>1. m > 0 /\ f \in 0 .. m - 1 /\ a \in Int /\ a = m * q + f
    BY <1>1, <1>3, <1>5
  <2>2. QED
    BY <2>1, DivMod
<1>7. QED
  BY <1>1, <1>3, <1>5, <1>6 DEF Address

\* The increment stays within sixteen bits.
LEMMA IncrementType ==
  ASSUME NEW a \in Nat
  PROVE  increment(a) \in Nat /\ increment(a) < 65536
<1>1. PICK m \in Nat, n \in Nat : m = 65536 /\ n = a + (IF vram_inc THEN 32 ELSE 1)
  OBVIOUS
<1>2. n % m \in Nat /\ (n % m) < m
  BY <1>1, ByteParts
<1>3. QED
  BY <1>1, <1>2 DEF increment

\* What a write takes of a byte.
LEMMA ByteTypes ==
  ASSUME NEW d \in Nat
  PROVE  d \div 8 \in Nat /\ d % 8 \in 0 .. 7 /\ d % 64 \in 0 .. 63 /\ d % 32 \in 0 .. 31
<1>1. PICK e \in Nat, k \in Nat, m \in Nat : e = 8 /\ k = 64 /\ m = 32
  OBVIOUS
<1>2. /\ d \div e \in Nat /\ d % e \in Nat /\ (d % e) < e
      /\ d % k \in Nat /\ (d % k) < k
      /\ d % m \in Nat /\ (d % m) < m
  BY <1>1, ByteParts
<1>3. QED
  BY <1>1, <1>2

-------------------------------------------------------------------------------

\* The inductive invariant: the types, the toggle that tells the two PPUADDR writes
\* apart, and the address they set.
IInv == BitsOK /\ NumbersOK /\ HalfAddress /\ AddressPair

\* IInv holds of a PPU that has just been powered.
LEMMA InitIInv == Init => IInv
<1>1. SUFFICES ASSUME Init PROVE IInv
  OBVIOUS
<1>2. BitsOK
  BY <1>1, Zenon DEF Init, PowerState, BitsOK
<1>3. NumbersOK
  BY <1>1, DataAssumption DEF Init, PowerState, NumbersOK, NONE
<1>4. HalfAddress
  BY <1>1 DEF Init, PowerState, HalfAddress
<1>5. AddressPair
  BY <1>1 DEF Init, PowerState, AddressPair
<1>6. QED
  BY <1>2, <1>3, <1>4, <1>5 DEF IInv

\* Every call of readreg(), writereg(), power() and reset() preserves IInv.
LEMMA NextIInv ==
  ASSUME IInv, [Next]_vars
  PROVE  IInv'
<1> USE DEF IInv
<1>1. /\ addr \in Nat /\ addr < 65536
      /\ tmp \in Nat /\ tmp < 32768 /\ tmp \in Address
  BY DEF NumbersOK, Address
<1>2. ASSUME NEW d \in Data PROVE d \in Nat /\ d < 256 /\ d \in 0 .. 255
  BY DataAssumption
<1>3. ASSUME NEW d \in Data, write_ctrl(d) PROVE IInv'
  <2>1. tmp' \in Nat /\ tmp' < 32768
    BY <1>1, <1>2, <1>3, FieldTypes DEF write_ctrl, Address
  <2>2. BitsOK'
    BY <1>3, Zenon DEF BitsOK, write_ctrl, NoStatus, bit
  <2>3. NumbersOK'
    BY <1>3, <1>2, <2>1 DEF NumbersOK, write_ctrl, NoStatus, NONE
  <2>4. HalfAddress'
    BY <1>3, Zenon DEF write_ctrl, HalfAddress
  <2>5. AddressPair'
    BY <1>3, Zenon DEF write_ctrl, AddressPair
  <2>6. QED
    BY <2>2, <2>3, <2>4, <2>5
<1>4. ASSUME NEW d \in Data, write_mask(d) PROVE IInv'
  <2>1. BitsOK'
    BY <1>4, Zenon DEF BitsOK, write_mask, NoStatus, bit, scroll, belief
  <2>2. NumbersOK'
    BY <1>4, <1>2 DEF NumbersOK, write_mask, NoStatus, NONE, scroll, belief
  <2>3. HalfAddress'
    BY <1>4, Zenon DEF write_mask, HalfAddress, scroll, belief
  <2>4. AddressPair'
    BY <1>4, Zenon DEF write_mask, AddressPair, scroll, belief
  <2>5. QED
    BY <2>1, <2>2, <2>3, <2>4
<1>5. ASSUME NEW d \in Data, write_other(d) PROVE IInv'
  <2>1. BitsOK'
    BY <1>5, Zenon DEF BitsOK, write_other, NoStatus, scroll, ctrl, belief
  <2>2. NumbersOK'
    BY <1>5, <1>2 DEF NumbersOK, write_other, NoStatus, NONE, scroll, belief
  <2>3. HalfAddress'
    BY <1>5, Zenon DEF write_other, HalfAddress, scroll, belief
  <2>4. AddressPair'
    BY <1>5, Zenon DEF write_other, AddressPair, scroll, belief
  <2>5. QED
    BY <2>1, <2>2, <2>3, <2>4
<1>6. ASSUME NEW d \in Data, write_scroll(d) PROVE IInv'
  <2>1. d \div 8 \in Nat /\ d % 8 \in Nat /\ d % 8 \in 0 .. 7
    BY <1>2, ByteTypes
  <2>2. set_coarse_x(tmp, d \div 8) \in Address
    BY <1>1, <2>1, FieldTypes
  <2>3. set_fine_y(set_coarse_y(tmp, d \div 8), d % 8) \in Address
    <3>1. set_coarse_y(tmp, d \div 8) \in Address
      BY <1>1, <2>1, FieldTypes
    <3>2. PICK u : u = set_coarse_y(tmp, d \div 8)
      OBVIOUS
    <3>3. u \in Address
      BY <3>1, <3>2
    <3>4. set_fine_y(u, d % 8) \in Address
      BY <2>1, <3>3, FieldTypes
    <3>5. QED
      BY <3>2, <3>4
  <2>4. tmp' \in Nat /\ tmp' < 32768
    BY <1>6, <2>2, <2>3 DEF write_scroll, Address
  <2>5. fine_x' \in 0 .. 7
    BY <1>6, <2>1 DEF write_scroll, NumbersOK
  <2>6. BitsOK'
    BY <1>6, Zenon DEF BitsOK, write_scroll, NoStatus, ctrl
  <2>7. NumbersOK'
    BY <1>6, <1>2, <2>4, <2>5 DEF NumbersOK, write_scroll, NoStatus, NONE
  <2>8. HalfAddress'
    BY <1>6, Zenon DEF write_scroll, BitsOK, HalfAddress
  <2>9. AddressPair'
    BY <1>6, Zenon DEF write_scroll, AddressPair
  <2>10. QED
    BY <2>6, <2>7, <2>8, <2>9
<1>7. ASSUME NEW d \in Data, write_addr(d) PROVE IInv'
  <2>1. BitsOK'
    <3>1. first' = ~first /\ scroll_latch' = ~scroll_latch /\ flag' = FALSE /\ UNCHANGED ctrl
      BY <1>7 DEF write_addr, believe, NoStatus
    <3>2. QED
      BY <3>1, Zenon DEF BitsOK, ctrl
  <2>2. CASE ~scroll_latch
    <3>1. first = TRUE /\ scroll_latch = FALSE
      BY <2>2 DEF BitsOK, HalfAddress
    <3>2. /\ tmp' = setbits(setbits(tmp, 256, 64, d), 16384, 2, 0)
          /\ addr' = addr /\ accesses' = accesses /\ scroll_latch' = TRUE
          /\ first' = FALSE /\ hi' = d /\ target' = target
      <4>1. /\ tmp' = setbits(setbits(tmp, 256, 64, d), 16384, 2, 0)
            /\ addr' = addr /\ accesses' = accesses
        BY <1>7, <2>2 DEF write_addr
      <4>2. hi' = d /\ target' = target
        BY <1>7, <3>1 DEF write_addr, believe
      <4>3. scroll_latch' = ~scroll_latch /\ first' = ~first
        BY <1>7 DEF write_addr, believe
      <4>4. scroll_latch' = TRUE /\ first' = FALSE
        BY <3>1, <4>3
      <4>5. QED
        BY <4>1, <4>2, <4>4
    <3>3. tmp' \in Address /\ tmp' \div 256 = d % 64
      BY <1>1, <1>2, <3>2, HighByte
    <3>4. NumbersOK'
      BY <1>2, <1>7, <3>2, <3>3 DEF NumbersOK, write_addr, NoStatus, NONE, Address
    <3>5. HalfAddress'
      BY <3>2, <3>3 DEF HalfAddress
    <3>6. AddressPair'
      BY <3>2 DEF AddressPair
    <3>7. QED
      BY <2>1, <3>4, <3>5, <3>6
  <2>3. CASE scroll_latch
    <3>1. first = FALSE /\ scroll_latch = TRUE
      BY <2>3 DEF BitsOK, HalfAddress
    <3>2. /\ tmp' = setbits(tmp, 1, 256, d)
          /\ addr' = tmp' /\ accesses' = 0 /\ scroll_latch' = FALSE
          /\ first' = TRUE /\ hi' = NONE
          /\ target' = IF hi = NONE THEN NONE ELSE (hi % 64) * 256 + d
      <4>1. tmp' = setbits(tmp, 1, 256, d) /\ addr' = tmp' /\ accesses' = 0
        BY <1>7, <2>3 DEF write_addr
      <4>2. /\ hi' = NONE
            /\ target' = IF hi = NONE THEN NONE ELSE (hi % 64) * 256 + d
        BY <1>7, <3>1 DEF write_addr, believe
      <4>3. scroll_latch' = ~scroll_latch /\ first' = ~first
        BY <1>7 DEF write_addr, believe
      <4>4. scroll_latch' = FALSE /\ first' = TRUE
        BY <3>1, <4>3
      <4>5. QED
        BY <4>1, <4>2, <4>4
    <3>3. tmp' \in Address /\ tmp' = (tmp \div 256) * 256 + d
      BY <1>1, <1>2, <3>2, LowByte
    <3>4. hi # NONE => tmp \div 256 = hi % 64
      BY Zenon DEF HalfAddress
    <3>5. target' # NONE => addr' = target'
      BY <3>2, <3>3, <3>4, Zenon
    <3>6. target' = NONE \/ (target' \in Nat /\ target' < 65536)
      BY <3>2, <3>3, <3>5 DEF Address
    <3>7. NumbersOK'
      BY <1>2, <1>7, <3>2, <3>3, <3>6, DataAssumption
         DEF NumbersOK, write_addr, NoStatus, NONE, Address
    <3>8. HalfAddress'
      BY <3>2, Zenon DEF HalfAddress
    <3>9. AddressPair'
      BY <3>5, Zenon DEF AddressPair
    <3>10. QED
      BY <2>1, <3>7, <3>8, <3>9
  <2>4. QED
    BY <2>2, <2>3
<1>8. ASSUME advance
      PROVE  /\ addr' \in Nat /\ addr' < 65536 /\ accesses' \in 0 .. ACCESS_MAX
             /\ target' = NONE \/ (target' \in Nat /\ target' < 65536)
             /\ target' # NONE => addr' = target'
  <2>1. increment(addr) \in Nat /\ increment(addr) < 65536
    BY <1>1, IncrementType
  <2>2. target # NONE => addr = target
    BY Zenon DEF AddressPair
  <2>3. target' = NONE \/ (target' = increment(addr))
    BY <1>8, <2>2, Zenon DEF advance
  <2>4. addr' = increment(addr)
    BY <1>8 DEF advance
  <2>5. accesses' \in 0 .. ACCESS_MAX
    BY <1>8, DataAssumption DEF advance, NumbersOK
  <2>6. QED
    BY <2>1, <2>3, <2>4, <2>5
<1>9. ASSUME NEW d \in Data, write_data(d) PROVE IInv'
  <2>1. BitsOK'
    BY <1>9, Zenon DEF BitsOK, write_data, NoStatus, ctrl
  <2>2. NumbersOK'
    BY <1>2, <1>8, <1>9 DEF NumbersOK, write_data, NoStatus, NONE
  <2>3. HalfAddress'
    BY <1>9, Zenon DEF write_data, HalfAddress
  <2>4. AddressPair'
    BY <1>8, <1>9 DEF write_data, AddressPair
  <2>5. QED
    BY <2>1, <2>2, <2>3, <2>4
<1>10. ASSUME NEW vb \in BOOLEAN, NEW hit \in BOOLEAN, NEW over \in BOOLEAN,
              read_status(vb, hit, over)
       PROVE  IInv'
  <2>1. latch' \in 0 .. 255 /\ status' \in 0 .. 255
    <3>1. latch % 32 \in 0 .. 31
      BY ByteTypes DEF NumbersOK
    <3>2. PICK n, a, b, c : /\ n = latch % 32
                            /\ a = (IF over \/ bit(latch, 32) THEN 32 ELSE 0)
                            /\ b = (IF hit \/ bit(latch, 64) THEN 64 ELSE 0)
                            /\ c = (IF vb \/ bit(latch, 128) THEN 128 ELSE 0)
      OBVIOUS
    <3>3. a \in {0, 32} /\ b \in {0, 64} /\ c \in {0, 128}
      BY <3>2, Zenon
    <3>4. latch' = n + a + b + c /\ status' = latch'
      BY <1>10, <3>2, Zenon DEF read_status
    <3>5. QED
      BY <3>1, <3>2, <3>3, <3>4
  <2>2. BitsOK'
    BY <1>10, Zenon DEF BitsOK, read_status, ctrl
  <2>3. NumbersOK'
    BY <1>10, <2>1 DEF NumbersOK, read_status, NONE
  <2>4. HalfAddress'
    BY <1>10, Zenon DEF read_status, HalfAddress
  <2>5. AddressPair'
    BY <1>10, Zenon DEF read_status, AddressPair
  <2>6. QED
    BY <2>2, <2>3, <2>4, <2>5
<1>11. ASSUME read_oamdata PROVE IInv'
  <2>1. BitsOK'
    BY <1>11, Zenon DEF BitsOK, read_oamdata, NoStatus, scroll, ctrl, belief
  <2>2. NumbersOK'
    BY <1>11 DEF NumbersOK, read_oamdata, NoStatus, NONE, scroll, belief
  <2>3. HalfAddress'
    BY <1>11, Zenon DEF read_oamdata, HalfAddress, scroll, belief
  <2>4. AddressPair'
    BY <1>11, Zenon DEF read_oamdata, AddressPair, scroll, belief
  <2>5. QED
    BY <2>1, <2>2, <2>3, <2>4
<1>12. ASSUME read_data PROVE IInv'
  <2>0. NoStatus /\ UNCHANGED <<tmp, fine_x, scroll_latch, ctrl, first, hi>>
    BY <1>12 DEF read_data
  <2>1. BitsOK'
    BY <2>0, Zenon DEF BitsOK, NoStatus, ctrl
  <2>2. latch' \in 0 .. 255 /\ data_buf' \in 0 .. 255
    BY <1>2, <1>12 DEF NumbersOK, read_data
  <2>3. NumbersOK'
    BY <1>8, <1>12, <2>2 DEF NumbersOK, read_data, NoStatus, NONE
  <2>4. HalfAddress'
    BY <2>0, Zenon DEF HalfAddress
  <2>5. AddressPair'
    BY <1>8, <1>12 DEF read_data, AddressPair
  <2>6. QED
    BY <2>1, <2>3, <2>4, <2>5
<1>13. ASSUME power PROVE IInv'
  <2>1. BitsOK'
    BY <1>13, Zenon DEF BitsOK, power, NoStatus
  <2>2. NumbersOK'
    BY <1>13, DataAssumption DEF NumbersOK, power, NoStatus, NONE
  <2>3. HalfAddress'
    BY <1>13 DEF power, HalfAddress
  <2>4. AddressPair'
    BY <1>13 DEF power, AddressPair
  <2>5. QED
    BY <2>1, <2>2, <2>3, <2>4
<1>14. ASSUME reset PROVE IInv'
  <2>1. BitsOK'
    BY <1>14, Zenon DEF BitsOK, reset, NoStatus
  <2>2. NumbersOK'
    BY <1>14 DEF NumbersOK, reset, NoStatus, NONE
  <2>3. HalfAddress'
    BY <1>14 DEF reset, HalfAddress
  <2>4. AddressPair'
    BY <1>14 DEF reset, AddressPair
  <2>5. QED
    BY <2>1, <2>2, <2>3, <2>4
<1>15. ASSUME UNCHANGED vars PROVE IInv'
  <2> USE <1>15 DEF vars, scroll, ctrl, io, belief
  <2>1. BitsOK'
    BY Zenon DEF BitsOK
  <2>2. NumbersOK'
    BY DEF NumbersOK
  <2>3. HalfAddress'
    BY Zenon DEF HalfAddress
  <2>4. AddressPair'
    BY Zenon DEF AddressPair
  <2>5. QED
    BY <2>1, <2>2, <2>3, <2>4
<1>16. QED
  BY <1>3, <1>4, <1>5, <1>6, <1>7, <1>9, <1>10, <1>11, <1>12, <1>13, <1>14, <1>15, Zenon
     DEF Next, writereg, readreg

\* The registers keep their widths, the toggle is the program's count of its writes and
\* the address is the one it has spelled, for every set of bytes.
THEOREM Invariance == Spec => []IInv
  BY InitIInv, NextIInv, PTL DEF Spec

\* No register write carries a bit out of its field: setbits() and the increment keep
\* vram.addr to sixteen bits and vram.tmp to fifteen.
THEOREM TypeCorrect == Spec => []TypeOK
<1>1. IInv => TypeOK
  BY DEF IInv, TypeOK
<1>2. QED
  BY <1>1, Invariance, PTL

\* Two PPUADDR writes after a PPUSTATUS read set the address they spell, whatever
\* writereg() and readreg() were called with before.
THEOREM AddressPairs == Spec => []AddressPair
<1>1. IInv => AddressPair
  BY DEF IInv
<1>2. QED
  BY <1>1, Invariance, PTL

\* The toggle of writereg() follows the program's own count of its writes.
THEOREM HalfAddresses == Spec => []HalfAddress
<1>1. IInv => HalfAddress
  BY DEF IInv
<1>2. QED
  BY <1>1, Invariance, PTL
===============================================================================

--------------------------- MODULE BackgroundProofs ---------------------------
(***************************************************************************)
(* The background pipeline for every number of lines and every scroll      *)
(* position: tiles, rows and pixels come in order.                         *)
(*                                                                         *)
(* The first part is the arithmetic of VRAMAddress: what each function     *)
(* does to the position of an address, proved by taking addresses apart    *)
(* into their fields.  The second part is the inductive invariant, one     *)
(* conjunct for each stage of the pipeline: where the address is (Loaded   *)
(* and TilesInOrder), what the latches hold at each of the eight dots of a *)
(* fetch (Latched and NextTile) and what has been shifted where (Filled).  *)
(***************************************************************************)
EXTENDS Background, TLAPS

\* The latch of StatusPolling is no part of this composition.
ClockP == INSTANCE FrameClockProofs WITH latched <- FALSE

Addresses == Below(65536)

\* An address and its fields: the bit above them, fine y, the two bits of the nametable,
\* coarse y and coarse x.
Parts == [h : Below(2), f : Below(8), v : Below(2), w : Below(2), y : Below(32), x : Below(32)]
Address(p) == 32768 * p.h + 4096 * p.f + 2048 * p.v + 1024 * p.w + 32 * p.y + p.x

\* What the code reads of an address besides its fields.
Low(p) ==
    /\ Address(p) % 32 = p.x /\ Address(p) % 8 = p.x % 8
    /\ Address(p) % 4096 = Address([p EXCEPT !.h = 0, !.f = 0])

\* The fields of an address are what it is put together from.
LEMMA Fields ==
  ASSUME NEW p \in Parts
  PROVE  /\ Address(p) \in Addresses
         /\ coarse_x(Address(p)) = p.x /\ coarse_y(Address(p)) = p.y
         /\ nt(Address(p)) = 2 * p.v + p.w /\ fine_y(Address(p)) = p.f
         /\ Low(p)
<1>1. PICK h \in Nat, f \in Nat, v \in Nat, w \in Nat, y \in Nat, x \in Nat :
         /\ h = p.h /\ f = p.f /\ v = p.v /\ w = p.w /\ y = p.y /\ x = p.x
         /\ h < 2 /\ f < 8 /\ v < 2 /\ w < 2 /\ y < 32 /\ x < 32
  BY DEF Parts, Below
<1>2. PICK a \in Nat, b \in Nat, c \in Nat, d \in Nat, e \in Nat, n \in Nat, z \in Nat :
         /\ a = Address(p) /\ b = 1024 * h + 128 * f + 32 * n + y
         /\ c = 32 * h + 4 * f + n /\ d = 8 * h + f
         /\ e = Address([p EXCEPT !.h = 0, !.f = 0]) /\ n = 2 * v + w /\ z = 32 * y + x
  <2>1. /\ Address(p) = 32768 * h + 4096 * f + 2048 * v + 1024 * w + 32 * y + x
        /\ Address([p EXCEPT !.h = 0, !.f = 0]) = 2048 * v + 1024 * w + 32 * y + x
    BY <1>1 DEF Address, Parts
  <2>2. QED
    BY <2>1
<1>3. a = 32768 * h + 4096 * f + 2048 * v + 1024 * w + 32 * y + x
      /\ e = 2048 * v + 1024 * w + 32 * y + x
  BY <1>1, <1>2 DEF Address, Parts
<1>4. a = 32 * b + x
  BY <1>1, <1>2, <1>3, SMT
<1>5. b = 32 * c + y
  BY <1>1, <1>2, SMT
<1>6. a = 1024 * c + z /\ z < 1024
  BY <1>1, <1>2, <1>3, SMT
<1>7. c = 4 * d + n /\ n < 4
  BY <1>1, <1>2, SMT
<1>8. a = 4096 * d + e /\ e < 4096 /\ a < 65536
  BY <1>1, <1>2, <1>3, SMT
<1>9. x < 32 /\ y < 32 /\ f < 8 /\ d = 8 * h + f
  BY <1>1, <1>2, SMT
<1>10. a % 32 = x /\ a % 8 = x % 8
  BY <1>4, <1>9, SMT
<1>11. a \div 32 = b
  BY <1>4, <1>9, SMT
<1>12. b % 32 = y
  BY <1>5, <1>9, SMT
<1>13. a \div 1024 = c
  BY <1>6, SMT
<1>14. c % 4 = n
  BY <1>7, SMT
<1>15. a \div 4096 = d /\ a % 4096 = e
  BY <1>8, SMT
<1>16. d % 8 = f
  BY <1>9, SMT
<1>17. a \div 1 = a
  BY SMT
<1>18. coarse_x(a) = x /\ coarse_y(a) = y /\ nt(a) = n /\ fine_y(a) = f
  BY <1>10, <1>11, <1>12, <1>13, <1>14, <1>15, <1>16, <1>17, SMT
     DEF coarse_x, coarse_y, nt, fine_y, getfield
<1>19. QED
  BY <1>1, <1>2, <1>8, <1>10, <1>15, <1>18, SMT DEF Below, Addresses, Low

\* Every address is put together from its fields.
LEMMA Composed ==
  ASSUME NEW a \in Addresses
  PROVE  \E p \in Parts : a = Address(p)
<1>0. a \in Nat /\ a < 65536
  BY SMT DEF Addresses, Below
<1>1. PICK b \in Nat, x \in Nat : a = 32 * b + x /\ x < 32
  <2>1. a = 32 * (a \div 32) + (a % 32) /\ a \div 32 \in Nat /\ a % 32 \in Nat /\ a % 32 < 32
    BY <1>0, SMT
  <2>2. QED
    BY <1>0, <2>1, SMT
<1>2. PICK c \in Nat, y \in Nat : b = 32 * c + y /\ y < 32
  <2>1. b = 32 * (b \div 32) + (b % 32) /\ b \div 32 \in Nat /\ b % 32 \in Nat /\ b % 32 < 32
    BY SMT
  <2>2. QED
    BY <2>1, SMT
<1>3. PICK d \in Nat, w \in Nat : c = 2 * d + w /\ w < 2
  <2>1. c = 2 * (c \div 2) + (c % 2) /\ c \div 2 \in Nat /\ c % 2 \in Nat /\ c % 2 < 2
    BY SMT
  <2>2. QED
    BY <2>1, SMT
<1>4. PICK e \in Nat, v \in Nat : d = 2 * e + v /\ v < 2
  <2>1. d = 2 * (d \div 2) + (d % 2) /\ d \div 2 \in Nat /\ d % 2 \in Nat /\ d % 2 < 2
    BY SMT
  <2>2. QED
    BY <2>1, SMT
<1>5. PICK h \in Nat, f \in Nat : e = 8 * h + f /\ f < 8
  <2>1. e = 8 * (e \div 8) + (e % 8) /\ e \div 8 \in Nat /\ e % 8 \in Nat /\ e % 8 < 8
    BY SMT
  <2>2. QED
    BY <2>1, SMT
<1>6. a = 32768 * h + 4096 * f + 2048 * v + 1024 * w + 32 * y + x /\ h < 2
  BY <1>0, <1>1, <1>2, <1>3, <1>4, <1>5, SMT
<1> DEFINE p == [h |-> h, f |-> f, v |-> v, w |-> w, y |-> y, x |-> x]
<1>7. p \in Parts
  BY <1>1, <1>2, <1>3, <1>4, <1>5, <1>6, SMT DEF Parts, Below
<1>8. a = Address(p)
  BY <1>6, SMT DEF Address
<1>9. QED
  BY <1>7, <1>8, SMT

\* setbits() on a field of an address replaces that field.
LEMMA SetFields ==
  ASSUME NEW p \in Parts, NEW d \in Nat
  PROVE  /\ set_coarse_x(Address(p), d) = Address([p EXCEPT !.x = d % 32])
         /\ set_coarse_y(Address(p), d) = Address([p EXCEPT !.y = d % 32])
         /\ set_fine_y(Address(p), d) = Address([p EXCEPT !.f = d % 8])
<1>1. PICK a \in Nat : a = Address(p)
  <2>1. Address(p) \in Addresses
    BY Fields, Zenon
  <2>2. QED
    BY <2>1 DEF Addresses, Below
<1>2. PICK h \in Nat, f \in Nat, v \in Nat, w \in Nat, y \in Nat, x \in Nat :
         /\ h = p.h /\ f = p.f /\ v = p.v /\ w = p.w /\ y = p.y /\ x = p.x
  BY Zenon DEF Parts, Below
<1>3. coarse_x(a) = x /\ coarse_y(a) = y /\ fine_y(a) = f
  BY <1>1, <1>2, Fields, Zenon
<1>4. PICK e \in Nat, g \in Nat : e = d % 32 /\ g = d % 8
  BY SMT
<1>5. a = 32768 * h + 4096 * f + 2048 * v + 1024 * w + 32 * y + x
  BY <1>1, <1>2, SMT DEF Address
<1>6. set_coarse_x(a, d) = Address([p EXCEPT !.x = e])
  <2>1. set_coarse_x(a, d) = a + 1 * (e - x)
    BY <1>3, <1>4, SMT DEF set_coarse_x, setbits, coarse_x
  <2>2. QED
    BY <1>2, <1>5, <2>1, SMT DEF Address, Parts
<1>7. set_coarse_y(a, d) = Address([p EXCEPT !.y = e])
  <2>1. set_coarse_y(a, d) = a + 32 * (e - y)
    BY <1>3, <1>4, SMT DEF set_coarse_y, setbits, coarse_y
  <2>2. QED
    BY <1>2, <1>5, <2>1, SMT DEF Address, Parts
<1>8. set_fine_y(a, d) = Address([p EXCEPT !.f = g])
  <2>1. set_fine_y(a, d) = a + 4096 * (g - f)
    BY <1>3, <1>4, SMT DEF set_fine_y, setbits, fine_y
  <2>2. QED
    BY <1>2, <1>5, <2>1, SMT DEF Address, Parts
<1>9. QED
  BY <1>1, <1>4, <1>6, <1>7, <1>8, Zenon

\* The same for the nametable, bit by bit.
LEMMA SetNametable ==
  ASSUME NEW p \in Parts, NEW q \in Below(2), NEW r \in Below(2)
  PROVE  set_nt(Address(p), 2 * q + r) = Address([p EXCEPT !.v = q, !.w = r])
<1>1. PICK a \in Nat : a = Address(p)
  <2>1. Address(p) \in Addresses
    BY Fields, Zenon
  <2>2. QED
    BY <2>1 DEF Addresses, Below
<1>2. PICK h \in Nat, f \in Nat, v \in Nat, w \in Nat, y \in Nat, x \in Nat :
         /\ h = p.h /\ f = p.f /\ v = p.v /\ w = p.w /\ y = p.y /\ x = p.x
  BY Zenon DEF Parts, Below
<1>3. nt(a) = 2 * v + w
  BY <1>1, <1>2, Fields, Zenon
<1>4. q \in Nat /\ r \in Nat /\ (2 * q + r) % 4 = 2 * q + r
  BY SMT DEF Below
<1>5. a = 32768 * h + 4096 * f + 2048 * v + 1024 * w + 32 * y + x
  BY <1>1, <1>2, SMT DEF Address
<1>6. set_nt(a, 2 * q + r) = a + 1024 * (2 * q + r - (2 * v + w))
  BY <1>3, <1>4, SMT DEF set_nt, setbits, nt
<1>7. QED
  BY <1>1, <1>2, <1>4, <1>5, <1>6, SMT DEF Address, Parts

\* The fields of an address as numbers.
LEMMA Numbers ==
  ASSUME NEW p \in Parts
  PROVE  /\ p.h \in Nat /\ p.f \in Nat /\ p.v \in Nat /\ p.w \in Nat /\ p.y \in Nat /\ p.x \in Nat
         /\ p.h < 2 /\ p.f < 8 /\ p.v < 2 /\ p.w < 2 /\ p.y < 32 /\ p.x < 32
         /\ X(Address(p)) = p.x + 32 * p.w
         /\ Y(Address(p)) = p.f + 8 * p.y + 240 * p.v
<1>1. PICK v \in Nat, w \in Nat : v = p.v /\ w = p.w /\ v < 2 /\ w < 2
  BY DEF Parts, Below
<1>2. (2 * v + w) % 2 = w /\ (2 * v + w) \div 2 = v
  <2>1. v < 2 /\ w < 2
    BY <1>1, Zenon
  <2>2. QED
    BY <2>1, SMT
<1>3. /\ coarse_x(Address(p)) = p.x /\ coarse_y(Address(p)) = p.y
      /\ nt(Address(p)) = 2 * v + w /\ fine_y(Address(p)) = p.f
  BY <1>1, Fields, Zenon
<1>4. X(Address(p)) = p.x + 32 * p.w /\ Y(Address(p)) = p.f + 8 * p.y + 240 * p.v
  BY <1>1, <1>2, <1>3, Zenon DEF X, Y
<1>5. QED
  BY <1>4 DEF Parts, Below

\* A field may be replaced.
LEMMA Replace ==
  ASSUME NEW p \in Parts
  PROVE  /\ \A x \in Below(32) : [p EXCEPT !.x = x] \in Parts
         /\ \A y \in Below(32) : [p EXCEPT !.y = y] \in Parts
         /\ \A f \in Below(8) : [p EXCEPT !.f = f] \in Parts
         /\ \A v, w \in Below(2) : [p EXCEPT !.v = v, !.w = w] \in Parts
BY Zenon DEF Parts

\* The next tile to the right, across the edge in the other nametable.
right(p) == IF p.x = 31 THEN [p EXCEPT !.x = 0, !.w = 1 - p.w] ELSE [p EXCEPT !.x = p.x + 1]

\* inc_v_horzpos() goes there.
LEMMA Right ==
  ASSUME NEW p \in Parts
  PROVE  right(p) \in Parts /\ inc_v_horzpos(Address(p)) = Address(right(p))
<1>1. coarse_x(Address(p)) = p.x /\ nt(Address(p)) = 2 * p.v + p.w
  BY Fields, Zenon
<1>2. CASE p.x = 31
  <2>1. PICK q \in Parts : q = [p EXCEPT !.x = 0]
    <3>1. 0 \in Below(32)
      BY SMT DEF Below
    <3>2. QED
      BY <3>1, Replace, Zenon
  <2>2. PICK v \in Below(2), w \in Below(2), u \in Below(2) : v = p.v /\ w = p.w /\ u = 1 - w
    BY DEF Parts, Below
  <2>3. set_coarse_x(Address(p), 0) = Address(q)
    <3>1. 0 % 32 = 0 /\ 0 \in Nat
      BY SMT
    <3>2. set_coarse_x(Address(p), 0) = Address([p EXCEPT !.x = 0 % 32])
      BY <3>1, SetFields, Zenon
    <3>3. QED
      BY <2>1, <3>1, <3>2, Zenon
  <2>4. xor1(2 * v + w) = 2 * v + u
    <3>1. v \in Nat /\ w \in Nat /\ w < 2
      BY DEF Below
    <3>2. (2 * v + w) % 2 = w
      BY <3>1, SMT
    <3>3. QED
      BY <2>2, <3>1, <3>2, SMT DEF xor1
  <2>5. [q EXCEPT !.v = v, !.w = u] = [p EXCEPT !.x = 0, !.w = 1 - p.w]
    BY <2>1, <2>2, Zenon DEF Parts
  <2>6. set_nt(Address(q), 2 * v + u) = Address([q EXCEPT !.v = v, !.w = u])
    BY SetNametable, Zenon
  <2>7. [q EXCEPT !.v = v, !.w = u] \in Parts
    BY Replace, Zenon
  <2>8. inc_v_horzpos(Address(p)) = Address([q EXCEPT !.v = v, !.w = u])
    BY <1>1, <1>2, <2>2, <2>3, <2>4, <2>6, Zenon DEF inc_v_horzpos
  <2>9. QED
    BY <1>2, <2>5, <2>7, <2>8, Zenon DEF right
<1>3. CASE p.x # 31
  <2>1. p.x \in Nat /\ p.x + 1 \in Nat /\ (p.x + 1) % 32 = p.x + 1 /\ p.x + 1 < 32
    <3>1. PICK x \in Nat : x = p.x /\ x < 31
      BY <1>3, Numbers
    <3>2. x + 1 \in Nat /\ (x + 1) % 32 = x + 1 /\ x + 1 < 32
      BY <3>1, SMT
    <3>3. QED
      BY <3>1, <3>2, Zenon
  <2>2. set_coarse_x(Address(p), p.x + 1) = Address([p EXCEPT !.x = p.x + 1])
    <3>1. set_coarse_x(Address(p), p.x + 1) = Address([p EXCEPT !.x = (p.x + 1) % 32])
      BY <2>1, SetFields, Zenon
    <3>2. QED
      BY <2>1, <3>1, Zenon
  <2>3. [p EXCEPT !.x = p.x + 1] \in Parts
    BY <2>1 DEF Parts, Below
  <2>4. QED
    BY <1>1, <1>3, <2>2, <2>3, Zenon DEF inc_v_horzpos, right
<1>4. QED
  BY <1>2, <1>3, Zenon

\* The next row: after row 29 of tiles the first one of the nametable below, after row 31
\* the first one of the same nametable.
down(p) ==
    IF p.f < 7 THEN [p EXCEPT !.f = p.f + 1]
    ELSE IF p.y = 29 THEN [p EXCEPT !.f = 0, !.v = 1 - p.v, !.y = 0]
    ELSE [p EXCEPT !.f = 0, !.y = IF p.y = 31 THEN 0 ELSE p.y + 1]

\* inc_v_vertpos() goes there.
LEMMA Down ==
  ASSUME NEW p \in Parts
  PROVE  down(p) \in Parts /\ inc_v_vertpos(Address(p)) = Address(down(p))
<1>1. fine_y(Address(p)) = p.f
  BY Fields, Zenon
<1>2. CASE p.f < 7
  <2>1. PICK f \in Nat : f = p.f /\ f < 7
    BY <1>2, Numbers
  <2>2. PICK g \in Nat : g = f + 1 /\ g % 8 = g /\ g \in Below(8)
    BY <2>1, SMT DEF Below
  <2>3. set_fine_y(Address(p), g) = Address([p EXCEPT !.f = g])
    BY <2>2, SetFields, Zenon
  <2>4. [p EXCEPT !.f = g] \in Parts
    BY <2>2, Replace, Zenon
  <2>5. QED
    BY <1>1, <1>2, <2>1, <2>2, <2>3, <2>4, Zenon DEF inc_v_vertpos, down
<1>3. CASE ~(p.f < 7)
  <2>1. 0 \in Nat /\ 0 % 8 = 0 /\ 0 % 32 = 0 /\ 0 \in Below(8) /\ 0 \in Below(32)
    BY SMT DEF Below
  <2>2. PICK q \in Parts : q = [p EXCEPT !.f = 0]
    BY <2>1, Replace, Zenon
  <2>3. set_fine_y(Address(p), 0) = Address(q)
    BY <2>1, <2>2, SetFields, Zenon
  <2>4. q.v = p.v /\ q.w = p.w /\ q.y = p.y
    BY <2>2 DEF Parts
  <2>5. coarse_y(Address(q)) = p.y /\ nt(Address(q)) = 2 * p.v + p.w
    BY <2>4, Fields, Zenon
  <2>6. CASE p.y = 29
    <3>1. PICK v \in Below(2), w \in Below(2), u \in Below(2) : v = p.v /\ w = p.w /\ u = 1 - v
      BY DEF Parts, Below
    <3>2. xor2(2 * v + w) = 2 * u + w
      <4>1. v \in Nat /\ w \in Nat /\ v < 2 /\ w < 2
        BY DEF Below
      <4>2. QED
        BY <3>1, <4>1, SMT DEF xor2
    <3>3. PICK r \in Parts : r = [q EXCEPT !.v = u, !.w = w]
      BY Replace, Zenon
    <3>4. set_nt(Address(q), 2 * u + w) = Address(r)
      BY <3>3, SetNametable, Zenon
    <3>5. set_coarse_y(Address(r), 0) = Address([r EXCEPT !.y = 0])
      BY <2>1, SetFields, ZenonT(40)
    <3>6. [r EXCEPT !.y = 0] \in Parts
      BY <2>1, Replace, Zenon
    <3>7. [r EXCEPT !.y = 0] = [p EXCEPT !.f = 0, !.v = 1 - p.v, !.y = 0]
      BY <2>2, <3>1, <3>3, Zenon DEF Parts
    <3>8. inc_v_vertpos(Address(p)) = Address([r EXCEPT !.y = 0])
      BY <1>1, <1>3, <2>3, <2>5, <2>6, <3>1, <3>2, <3>4, <3>5, Zenon DEF inc_v_vertpos
    <3>9. QED
      BY <1>3, <2>6, <3>6, <3>7, <3>8, Zenon DEF down
  <2>7. CASE p.y # 29
    <3>1. PICK y \in Nat : y = p.y /\ y < 32
      BY Numbers, Zenon
    <3>2. PICK d \in Nat : d = (IF y = 31 THEN 0 ELSE y + 1) /\ d % 32 = d /\ d \in Below(32)
      BY <3>1, SMT DEF Below
    <3>3. set_coarse_y(Address(q), d) = Address([q EXCEPT !.y = d])
      BY <3>2, SetFields, ZenonT(40)
    <3>4. [q EXCEPT !.y = d] \in Parts
      BY <3>2, Replace, Zenon
    <3>5. [q EXCEPT !.y = d] = [p EXCEPT !.f = 0, !.y = d]
      BY <2>2 DEF Parts
    <3>6. inc_v_vertpos(Address(p)) = Address([q EXCEPT !.y = d])
      BY <1>1, <1>3, <2>3, <2>5, <2>7, <3>1, <3>2, <3>3, Zenon DEF inc_v_vertpos
    <3>7. down(p) = [p EXCEPT !.f = 0, !.y = d]
      BY <1>3, <2>7, <3>1, <3>2, Zenon DEF down
    <3>8. QED
      BY <3>4, <3>5, <3>6, <3>7, Zenon
  <2>8. QED
    BY <2>6, <2>7, Zenon
<1>4. QED
  BY <1>2, <1>3, Zenon

\* The fields of p with the column and with the row of t.  Both parts of the row are taken
\* from the low bits, which hold coarse x.
column(p, t) == [p EXCEPT !.x = t.x, !.w = t.w]
row(p, t) == [p EXCEPT !.f = t.x % 8, !.y = t.x, !.v = t.v]

\* copy_v_horzpos() and copy_v_vertpos() compute them.
LEMMA Copies ==
  ASSUME NEW p \in Parts, NEW t \in Parts
  PROVE  /\ column(p, t) \in Parts
         /\ copy_v_horzpos(Address(p), Address(t)) = Address(column(p, t))
         /\ row(p, t) \in Parts
         /\ copy_v_vertpos(Address(p), Address(t)) = Address(row(p, t))
<1>1. PICK b \in Nat : b = Address(t) /\ b % 32 = t.x /\ b % 8 = t.x % 8
  <2>1. Address(t) \in Addresses /\ Low(t)
    BY Fields, Zenon
  <2>2. QED
    BY <2>1, SMT DEF Addresses, Below, Low
<1>2. PICK v \in Below(2), w \in Below(2) : v = p.v /\ w = p.w
  BY DEF Parts
<1>3. PICK vv \in Below(2), ww \in Below(2), x \in Below(32) : vv = t.v /\ ww = t.w /\ x = t.x
  BY DEF Parts
<1>4. v \in Nat /\ v < 2 /\ w \in Nat /\ w < 2 /\ vv \in Nat /\ vv < 2 /\ ww \in Nat /\ ww < 2
  BY DEF Below
<1>5. nt(b) % 2 = ww /\ nt(b) \div 2 = vv
  <2>1. nt(b) = 2 * vv + ww
    BY <1>1, <1>3, Fields, Zenon
  <2>2. QED
    BY <1>4, <2>1, SMT
<1>6. /\ copy_v_horzpos(Address(p), b) = Address([p EXCEPT !.x = t.x, !.w = t.w])
      /\ [p EXCEPT !.x = t.x, !.w = t.w] \in Parts
  <2>1. PICK q \in Parts : q = [p EXCEPT !.x = x]
    BY Replace, Zenon
  <2>2. set_coarse_x(Address(p), b) = Address(q)
    BY <1>1, <1>3, <2>1, SetFields, ZenonT(40)
  <2>3. q.v = v /\ q.w = w
    BY <1>2, <2>1 DEF Parts
  <2>4. nt(Address(q)) = 2 * v + w
    BY <2>3, Fields, Zenon
  <2>5. setbits(2 * v + w, 1, 2, ww) = 2 * v + ww
    <3>1. (2 * v + w) \div 1 = 2 * v + w /\ (2 * v + w) % 2 = w /\ ww % 2 = ww
      BY <1>4, SMT
    <3>2. QED
      BY <1>4, <3>1, SMT DEF setbits, getfield
  <2>6. set_nt(Address(q), 2 * v + ww) = Address([q EXCEPT !.v = v, !.w = ww])
    BY SetNametable, Zenon
  <2>7. [q EXCEPT !.v = v, !.w = ww] \in Parts
    BY Replace, Zenon
  <2>8. [q EXCEPT !.v = v, !.w = ww] = [p EXCEPT !.x = t.x, !.w = t.w]
    BY <1>2, <1>3, <2>1, Zenon DEF Parts
  <2>9. QED
    BY <1>5, <2>2, <2>4, <2>5, <2>6, <2>7, <2>8, Zenon DEF copy_v_horzpos
<1>7. /\ copy_v_vertpos(Address(p), b) = Address([p EXCEPT !.f = t.x % 8, !.y = t.x, !.v = t.v])
      /\ [p EXCEPT !.f = t.x % 8, !.y = t.x, !.v = t.v] \in Parts
  <2>1. PICK f \in Below(8) : f = t.x % 8
    <3>1. x % 8 \in Below(8)
      BY SMT DEF Below
    <3>2. QED
      BY <1>3, <3>1, Zenon
  <2>2. PICK q \in Parts : q = [p EXCEPT !.y = x]
    BY Replace, Zenon
  <2>3. set_coarse_y(Address(p), b) = Address(q)
    BY <1>1, <1>3, <2>2, SetFields, ZenonT(40)
  <2>4. PICK r \in Parts : r = [q EXCEPT !.f = f]
    BY Replace, Zenon
  <2>5. set_fine_y(Address(q), b) = Address(r)
    <3>1. set_fine_y(Address(q), b) = Address([q EXCEPT !.f = b % 8])
      BY SetFields, Zenon
    <3>2. QED
      BY <1>1, <2>1, <2>4, <3>1, Zenon
  <2>6. r.v = v /\ r.w = w
    BY <1>2, <2>2, <2>4 DEF Parts
  <2>7. nt(Address(r)) = 2 * v + w
    BY <2>6, Fields, Zenon
  <2>8. setbits(2 * v + w, 2, 2, vv % 2) = 2 * vv + w
    <3>1. (2 * v + w) \div 2 = v /\ v % 2 = v /\ (vv % 2) % 2 = vv
      BY <1>4, SMT
    <3>2. QED
      BY <1>4, <3>1, SMT DEF setbits, getfield
  <2>9. set_nt(Address(r), 2 * vv + w) = Address([r EXCEPT !.v = vv, !.w = w])
    BY SetNametable, Zenon
  <2>10. [r EXCEPT !.v = vv, !.w = w] \in Parts
    BY Replace, Zenon
  <2>11. [r EXCEPT !.v = vv, !.w = w] = [p EXCEPT !.f = t.x % 8, !.y = t.x, !.v = t.v]
    BY <1>2, <1>3, <2>1, <2>2, <2>4, Zenon DEF Parts
  <2>12. QED
    BY <1>5, <2>3, <2>5, <2>7, <2>8, <2>9, <2>10, <2>11, Zenon DEF copy_v_vertpos
<1>8. QED
  BY <1>1, <1>6, <1>7, Zenon DEF column, row

-------------------------------------------------------------------------------

\* Two addresses in the same row of the same nametables above each other.
SameRow(a, b) == fine_y(a) = fine_y(b) /\ coarse_y(a) = coarse_y(b) /\ Y(a) = Y(b)

\* The row of an address is in these fields.
LEMMA Rows ==
  ASSUME NEW p \in Parts, NEW q \in Parts, p.f = q.f, p.y = q.y, p.v = q.v
  PROVE  SameRow(Address(p), Address(q))
<1>1. fine_y(Address(p)) = fine_y(Address(q)) /\ coarse_y(Address(p)) = coarse_y(Address(q))
  BY Fields, Zenon
<1>2. /\ Y(Address(p)) = p.f + 8 * p.y + 240 * p.v
      /\ Y(Address(q)) = q.f + 8 * q.y + 240 * q.v
  BY Numbers, Zenon
<1>3. QED
  BY <1>1, <1>2, Zenon DEF SameRow

\* Positions are numbers.
LEMMA Positions ==
  ASSUME NEW a \in Addresses
  PROVE  /\ X(a) \in Nat /\ X(a) < 64
         /\ Y(a) \in Nat /\ coarse_y(a) \in Nat
         /\ fine_y(a) \in Nat /\ fine_y(a) < 8
         /\ coarse_y(a) <= 29 => Y(a) < 480
<1>1. PICK p \in Parts : a = Address(p)
  BY Composed
<1>2. PICK f \in Nat, v \in Nat, w \in Nat, y \in Nat, x \in Nat :
         /\ f = p.f /\ v = p.v /\ w = p.w /\ y = p.y /\ x = p.x
         /\ f < 8 /\ v < 2 /\ w < 2 /\ y < 32 /\ x < 32
  BY Numbers, Zenon
<1>3. /\ X(a) = x + 32 * w /\ Y(a) = f + 8 * y + 240 * v
      /\ coarse_y(a) = y /\ fine_y(a) = f
  BY <1>1, <1>2, Fields, Numbers, Zenon
<1>4. QED
  BY <1>2, <1>3, SMT

\* inc_v_horzpos() moves one tile to the right and wraps after two nametables.
LEMMA Horizontal ==
  ASSUME NEW a \in Addresses
  PROVE  /\ inc_v_horzpos(a) \in Addresses
         /\ X(inc_v_horzpos(a)) = (X(a) + 1) % 64
         /\ SameRow(inc_v_horzpos(a), a)
<1>1. PICK p \in Parts : a = Address(p)
  BY Composed
<1>2. PICK q \in Parts : q = right(p) /\ inc_v_horzpos(a) = Address(q)
  BY <1>1, Right, Zenon
<1>3. q.f = p.f /\ q.y = p.y /\ q.v = p.v
  BY <1>2 DEF right, Parts
<1>4. PICK x \in Nat, w \in Nat : x = p.x /\ w = p.w /\ x < 32 /\ w < 2
  BY Numbers, Zenon
<1>5. PICK xx \in Nat, ww \in Nat : xx = q.x /\ ww = q.w
  BY Numbers, Zenon
<1>6. X(a) = x + 32 * w /\ X(Address(q)) = xx + 32 * ww
  BY <1>1, <1>4, <1>5, Numbers, Zenon
<1>11. /\ x < 32 /\ w < 2
       /\ x = 31 => xx = 0 /\ ww = 1 - w
       /\ x # 31 => xx = x + 1 /\ ww = w
  BY <1>2, <1>4, <1>5 DEF right, Parts
<1>7. X(Address(q)) = (x + 32 * w + 1) % 64
  <2>1. CASE x = 31
    <3>1. X(Address(q)) = 32 * (1 - w) /\ (w = 0 \/ w = 1)
      BY <1>6, <1>11, <2>1, SMT
    <3>2. (31 + 32 * 0 + 1) % 64 = 32 /\ (31 + 32 * 1 + 1) % 64 = 0
      BY SMT
    <3>3. QED
      BY <2>1, <3>1, <3>2, SMT
  <2>2. CASE x # 31
    BY <1>6, <1>11, <2>2, SMT
  <2>3. QED
    BY <2>1, <2>2
<1>8. SameRow(Address(q), a)
  BY <1>1, <1>3, Rows, Zenon
<1>9. Address(q) \in Addresses
  BY Fields, Zenon
<1>10. QED
  BY <1>2, <1>6, <1>7, <1>8, <1>9, Zenon

\* inc_v_vertpos() moves one row down, and wraps after two nametables unless it started in
\* the rows of the attributes.
LEMMA Vertical ==
  ASSUME NEW a \in Addresses
  PROVE  /\ inc_v_vertpos(a) \in Addresses
         /\ X(inc_v_vertpos(a)) = X(a)
         /\ coarse_y(a) <= 29 => /\ coarse_y(inc_v_vertpos(a)) <= 29
                                 /\ Y(inc_v_vertpos(a)) = (Y(a) + 1) % 480
<1>1. PICK p \in Parts : a = Address(p)
  BY Composed
<1>2. PICK q \in Parts : q = down(p) /\ inc_v_vertpos(a) = Address(q)
  BY <1>1, Down, Zenon
<1>3. q.x = p.x /\ q.w = p.w
  BY <1>2 DEF down, Parts
<1>4. PICK f \in Nat, y \in Nat, v \in Nat :
         f = p.f /\ y = p.y /\ v = p.v /\ f < 8 /\ y < 32 /\ v < 2
  BY Numbers, Zenon
<1>5. PICK ff \in Nat, yy \in Nat, vv \in Nat : ff = q.f /\ yy = q.y /\ vv = q.v
  BY Numbers, Zenon
<1>6. /\ Y(a) = f + 8 * y + 240 * v /\ Y(Address(q)) = ff + 8 * yy + 240 * vv
      /\ coarse_y(a) = y /\ coarse_y(Address(q)) = yy
  <2>1. /\ Y(Address(p)) = p.f + 8 * p.y + 240 * p.v /\ Y(Address(q)) = q.f + 8 * q.y + 240 * q.v
        /\ coarse_y(Address(p)) = p.y /\ coarse_y(Address(q)) = q.y
    BY Fields, Numbers, Zenon
  <2>2. QED
    BY <1>1, <1>4, <1>5, <2>1, Zenon
<1>11. /\ f < 7 => ff = f + 1 /\ yy = y /\ vv = v
       /\ ~(f < 7) /\ y = 29 => ff = 0 /\ yy = 0 /\ vv = 1 - v
       /\ ~(f < 7) /\ y < 29 => ff = 0 /\ yy = y + 1 /\ vv = v
  BY <1>2, <1>4, <1>5 DEF down, Parts
<1>12. f < 8 /\ y < 32 /\ v < 2
  BY <1>4
<1>7. ASSUME y <= 29
      PROVE  coarse_y(Address(q)) <= 29 /\ Y(Address(q)) = (f + 8 * y + 240 * v + 1) % 480
  <2>1. CASE f < 7
    <3>1. PICK n \in Nat : n = f + 8 * y + 240 * v + 1 /\ n < 480
      BY <1>12, <1>7, <2>1, SMT
    <3>2. Y(Address(q)) = n /\ coarse_y(Address(q)) <= 29
      BY <1>6, <1>11, <1>12, <1>7, <2>1, <3>1, SMT
    <3>3. n % 480 = n
      BY <3>1, SMT
    <3>4. QED
      BY <3>1, <3>2, <3>3, SMT
  <2>2. CASE ~(f < 7) /\ y = 29
    <3>1. /\ Y(Address(q)) = 240 * (1 - v) /\ coarse_y(Address(q)) = 0
          /\ f + 8 * y + 240 * v + 1 = 240 + 240 * v /\ (v = 0 \/ v = 1)
      BY <1>6, <1>11, <1>12, <2>2, SMT
    <3>2. (240 + 240 * 0) % 480 = 240 /\ (240 + 240 * 1) % 480 = 0
      BY SMT
    <3>3. QED
      BY <3>1, <3>2, SMT
  <2>3. CASE ~(f < 7) /\ y < 29
    <3>1. PICK n \in Nat : n = f + 8 * y + 240 * v + 1 /\ n < 480
      BY <1>12, <2>3, SMT
    <3>2. Y(Address(q)) = n /\ coarse_y(Address(q)) <= 29
      BY <1>6, <1>11, <1>12, <2>3, <3>1, SMT
    <3>3. n % 480 = n
      BY <3>1, SMT
    <3>4. QED
      BY <3>1, <3>2, <3>3, SMT
  <2>4. QED
    BY <1>7, <2>1, <2>2, <2>3, SMT
<1>8. X(Address(q)) = X(a)
  <2>1. X(Address(q)) = q.x + 32 * q.w /\ X(Address(p)) = p.x + 32 * p.w
    BY Numbers, Zenon
  <2>2. QED
    BY <1>1, <1>3, <2>1, Zenon
<1>9. Address(q) \in Addresses
  BY Fields, Zenon
<1>10. QED
  BY <1>2, <1>6, <1>7, <1>8, <1>9, Zenon

\* copy_v_horzpos() takes the column from the temporary address and keeps the row.
LEMMA CopyColumn ==
  ASSUME NEW a \in Addresses, NEW b \in Addresses
  PROVE  /\ copy_v_horzpos(a, b) \in Addresses
         /\ X(copy_v_horzpos(a, b)) = X(b)
         /\ SameRow(copy_v_horzpos(a, b), a)
<1>1. PICK p \in Parts, t \in Parts : a = Address(p) /\ b = Address(t)
  BY Composed
<1>2. PICK q \in Parts : q = column(p, t) /\ copy_v_horzpos(a, b) = Address(q)
  BY <1>1, Copies, Zenon
<1>3. q.f = p.f /\ q.y = p.y /\ q.v = p.v /\ q.x = t.x /\ q.w = t.w
  BY <1>2 DEF column, Parts
<1>4. X(Address(q)) = X(b)
  <2>1. X(Address(q)) = q.x + 32 * q.w /\ X(Address(t)) = t.x + 32 * t.w
    BY Numbers, Zenon
  <2>2. QED
    BY <1>1, <1>3, <2>1, Zenon
<1>5. SameRow(Address(q), a)
  BY <1>1, <1>3, Rows, Zenon
<1>6. Address(q) \in Addresses
  BY Fields, Zenon
<1>7. QED
  BY <1>2, <1>4, <1>5, <1>6, Zenon

\* copy_v_vertpos() takes the row from the temporary address, whatever the address has
\* been, and keeps the column.
LEMMA CopyRow ==
  ASSUME NEW a \in Addresses, NEW b \in Addresses
  PROVE  /\ copy_v_vertpos(a, b) \in Addresses
         /\ X(copy_v_vertpos(a, b)) = X(a)
         /\ SameRow(copy_v_vertpos(a, b), copy_v_vertpos(0, b))
<1>1. PICK p \in Parts, t \in Parts, z \in Parts :
         a = Address(p) /\ b = Address(t) /\ 0 = Address(z)
  <2>1. 0 \in Addresses
    BY SMT DEF Addresses, Below
  <2>2. QED
    BY <2>1, Composed, Zenon
<1>2. PICK q \in Parts : q = row(p, t) /\ copy_v_vertpos(a, b) = Address(q)
  BY <1>1, Copies, Zenon
<1>3. PICK r \in Parts : r = row(z, t) /\ copy_v_vertpos(0, b) = Address(r)
  BY <1>1, Copies, Zenon
<1>4. q.f = r.f /\ q.y = r.y /\ q.v = r.v /\ q.x = p.x /\ q.w = p.w
  BY <1>2, <1>3, Zenon DEF row, Parts
<1>5. X(Address(q)) = X(a)
  <2>1. X(Address(q)) = q.x + 32 * q.w /\ X(Address(p)) = p.x + 32 * p.w
    BY Numbers, Zenon
  <2>2. QED
    BY <1>1, <1>4, <2>1, Zenon
<1>6. SameRow(Address(q), Address(r))
  BY <1>4, Rows, Zenon
<1>7. Address(q) \in Addresses
  BY Fields, Zenon
<1>8. QED
  BY <1>2, <1>3, <1>5, <1>6, <1>7, Zenon

\* The fetches of the nametable and of the attribute stay in the nametables, and what the
\* nametable address keeps of the VRAM address says which tile it is and which attribute
\* covers it.
LEMMA Fetches ==
  ASSUME NEW a \in Addresses
  PROVE  /\ nt_address(a) \in Nat /\ nt_address(a) < 12288
         /\ attr_address(a) \in Nat /\ attr_address(a) < 12288
         /\ X(nt_address(a) - 8192) = X(a)
         /\ attr_address(nt_address(a) - 8192) = attr_address(a)
<1>1. PICK p \in Parts : a = Address(p)
  BY Composed
<1>2. PICK q \in Parts : q = [p EXCEPT !.h = 0, !.f = 0]
  <2>1. 0 \in Below(2) /\ 0 \in Below(8)
    BY SMT DEF Below
  <2>2. QED
    BY <2>1, Zenon DEF Parts
<1>0. PICK b \in Nat : b = Address(q)
  <2>1. Address(q) \in Addresses
    BY Fields, Zenon
  <2>2. QED
    BY <2>1, SMT DEF Addresses, Below
<1>3. a % 4096 = b
  <2>1. Low(p) /\ Address(q) \in Addresses
    BY Fields, Zenon
  <2>2. QED
    BY <1>0, <1>1, <1>2, <2>1, SMT DEF Low, Addresses, Below
<1>4. a \in Nat /\ b < 4096
  BY <1>3, SMT DEF Addresses, Below
<1>5. nt_address(a) = 8192 + b /\ nt_address(a) - 8192 = b
  BY <1>3, <1>4, SMT DEF nt_address
<1>6. q.x = p.x /\ q.y = p.y /\ q.v = p.v /\ q.w = p.w
  BY <1>2 DEF Parts
<1>7. X(b) = X(a)
  <2>1. X(Address(q)) = q.x + 32 * q.w /\ X(Address(p)) = p.x + 32 * p.w
    BY Numbers, Zenon
  <2>2. QED
    BY <1>0, <1>1, <1>6, <2>1, Zenon
<1>8. coarse_x(b) = coarse_x(a) /\ coarse_y(b) = coarse_y(a) /\ nt(b) = nt(a)
  <2>1. /\ coarse_x(Address(q)) = q.x /\ coarse_x(Address(p)) = p.x
        /\ coarse_y(Address(q)) = q.y /\ coarse_y(Address(p)) = p.y
        /\ nt(Address(q)) = 2 * q.v + q.w /\ nt(Address(p)) = 2 * p.v + p.w
    BY Fields, Zenon
  <2>2. QED
    BY <1>0, <1>1, <1>6, <2>1, Zenon
<1>9. attr_address(b) = attr_address(a)
  BY <1>8, SMT DEF attr_address
<1>10. attr_address(a) \in Nat /\ attr_address(a) < 12288
  <2>1. PICK x \in Nat, y \in Nat, v \in Nat, w \in Nat :
           x = p.x /\ y = p.y /\ v = p.v /\ w = p.w /\ x < 32 /\ y < 32 /\ v < 2 /\ w < 2
    BY Numbers, Zenon
  <2>2. coarse_x(a) = x /\ coarse_y(a) = y /\ nt(a) = 2 * v + w
    BY <1>1, <2>1, Fields, Zenon
  <2>3. PICK c \in Nat, r \in Nat : c = x \div 4 /\ r = y \div 4 /\ c < 8 /\ r < 8
    BY <2>1, SMT
  <2>4. attr_address(a) = 9152 + (2 * v + w) * 1024 + r * 8 + c
    BY <2>2, <2>3, SMT DEF attr_address
  <2>5. QED
    BY <2>1, <2>3, <2>4, SMT
<1>11. QED
  BY <1>4, <1>5, <1>7, <1>9, <1>10, SMT

-------------------------------------------------------------------------------

\* The row that the pre-render line loads.
top == copy_v_vertpos(0, tmp)

InPicture == line < VBLANK_LINE - 1

\* The rows as RowsInOrder has them, from the dot of the pre-render line on that loads the
\* first one, and never one of the attributes.
Loaded ==
    bg_show /\ coarse_y(top) <= 29 /\ (InPicture \/ (PreRender /\ dot > 280))
        => /\ coarse_y(addr) <= 29
           /\ Y(addr) = (Y(top) + (IF PreRender THEN 0
                                   ELSE line + (IF dot > 256 THEN 1 ELSE 0))) % 480

\* Dots of the current tile that are over.
Phase == (dot - 1) % 8

\* A whole tile is in the latches.
Complete == (Fetching /\ Phase = 0 /\ dot # 1) \/ (257 <= dot /\ dot <= 321)

OneTile ==
    tile.low = tile.high /\ tile.low[1] = tile.nt /\ tile.attr = attr_address(tile.nt - 8192)

\* The latches belong to the tile at the address, which does not move before the last of
\* its four fetches.
Latched ==
    Rendering =>
        /\ Fetching /\ Phase >= 2 => tile.nt = nt_address(addr)
        /\ Fetching /\ Phase >= 4 => tile.attr = attr_address(addr)
        /\ Fetching /\ Phase >= 6 => tile.low = <<tile.nt, fine_y(addr)>>
        /\ Complete => OneTile

\* A tile that is about to be filled in is the one behind the address.
NextTile ==
    bg_show /\ InPicture /\ Phase = 0 /\ 9 <= dot /\ dot <= 249
        => /\ X(tile.nt - 8192) = (X(tmp) + (dot - 1) \div 8 + 1) % 64
           /\ tile.low[2] = fine_y(addr)

\* The column of the line that a bit of the shift registers belongs to: seven for every
\* tile, and bit 0 one before the dot.
Column(i) == 7 * ((dot - 2) \div 8) + ((dot - 2) % 8) + i - 1

\* A bit is the pixel in column n of the row y of its tiles, the first of which is tile x.
Pixel(bit, n, x, y) ==
    /\ X(bit[1][1] - 8192) = (x + n \div 7) % 64
    /\ bit[1][2] = y
    /\ bit[2] = n % 7

\* The bits that can still be drawn are those of the columns of the line.
Filled ==
    bg_show /\ InPicture /\ 2 <= dot /\ dot <= 256
        => \A i \in Bitnos :
              i + ((dot - 2) % 8) <= 14 /\ Column(i) >= 14
                  => /\ shift.tlow[i] = shift.thigh[i]
                     /\ Pixel(shift.tlow[i], Column(i), X(tmp), fine_y(addr))

Bytes == Nat \X Nat
Entries == Below(12288)
Tiles == [nt : Entries, attr : Entries, low : Bytes, high : Bytes]

Types ==
    /\ addr \in Addresses /\ tmp \in Below(32768) /\ fine_x \in Below(8)
    /\ tile \in Tiles
    /\ DOMAIN shift.tlow = Bitnos /\ DOMAIN shift.thigh = Bitnos
    /\ bg_show \in BOOLEAN /\ set \in BOOLEAN

IInv ==
    /\ ClockP!IInv /\ Types
    /\ TilesInOrder /\ Loaded /\ Latched /\ NextTile /\ Filled

-------------------------------------------------------------------------------

\* The assumption of the clock is part of the one on the lines.
LEMMA Geometry == ClockP!GeometryAssumption
BY RenderAssumption DEF ClockP!GeometryAssumption

\* dot and line are the dot of the line and the line of the frame.
LEMMA Here ==
  ASSUME ClockP!IInv
  PROVE  /\ dot = ClockP!Dot /\ line = ClockP!Line
         /\ dot \in Nat /\ dot < 341 /\ line \in Nat /\ line < LINE_MAX
<1>1. /\ ClockP!Line \in 0 .. LINE_MAX - 1 /\ ClockP!Dot \in 0 .. CYCLE_MAX - 1
      /\ lines % LINE_MAX = ClockP!Line /\ cycles % CYCLE_MAX = ClockP!Dot
  BY Geometry, ClockP!PosSplit
<1>2. dot = ClockP!Dot /\ line = ClockP!Line
  BY <1>1 DEF dot, line
<1>3. QED
  BY <1>1, <1>2, RenderAssumption

\* PPU::run() goes on to the next dot of the line, to the first dot of the next line, or
\* from the pre-render line to one of the first two dots of the picture.
LEMMA NextDot ==
  ASSUME ClockP!IInv, Clock!run
  PROVE  /\ ClockP!IInv'
         /\ \/ dot # 340 /\ dot' = dot + 1 /\ line' = line
            \/ dot = 340 /\ ~PreRender /\ dot' = 0 /\ line' = line + 1
            \/ dot = 340 /\ PreRender /\ (dot' = 0 \/ dot' = 1) /\ line' = 0
<1>1. ClockP!run
  BY DEF Clock!run, Clock!vblank_begin, Clock!vblank_end, Clock!begin_frame, Clock!lcycle,
         Clock!At, Clock!tick, Clock!sprites, Clock!history,
         ClockP!run, ClockP!vblank_begin, ClockP!vblank_end, ClockP!begin_frame,
         ClockP!lcycle, ClockP!At, ClockP!tick, ClockP!sprites, ClockP!history
<1>2. ClockP!IInv'
  BY <1>1, Geometry, ClockP!NextIInv DEF ClockP!Next
<1>3. \/ ClockP!Dot # CYCLE_MAX - 1 /\ ClockP!Dot' = ClockP!Dot + 1 /\ ClockP!Line' = ClockP!Line
      \/ /\ ClockP!Dot = CYCLE_MAX - 1 /\ ClockP!Line # LINE_MAX - 1
         /\ ClockP!Dot' = 0 /\ ClockP!Line' = ClockP!Line + 1
      \/ /\ ClockP!Dot = CYCLE_MAX - 1 /\ ClockP!Line = LINE_MAX - 1
         /\ (ClockP!Dot' = 0 \/ ClockP!Dot' = 1) /\ ClockP!Line' = 0
  BY <1>1, <1>2, Geometry, ClockP!NextDot
<1>4. dot' = ClockP!Dot' /\ line' = ClockP!Line'
  <2>1. ClockP!IInv' => (dot = ClockP!Dot /\ line = ClockP!Line)'
    BY Here, PTL
  <2>2. QED
    BY <1>2, <2>1
<1>5. CYCLE_MAX - 1 = 340
  BY RenderAssumption
<1>6. QED
  BY <1>2, <1>3, <1>4, <1>5, Here, SMT DEF PreRender

-------------------------------------------------------------------------------

\* The dots that move the address along the row, to the next row and back to the start of
\* the row, and those that load the row.
StepsRight == Fetching /\ dot % 8 = 0 /\ dot # 256
StepsDown == dot = 256
Returns == dot = 257
LoadsRow == PreRender /\ 280 <= dot /\ dot <= 304

\* The temporary address is an address, and so is the row it loads.
LEMMA Loads ==
  ASSUME Types
  PROVE  /\ addr \in Addresses /\ tmp \in Addresses /\ top \in Addresses
         /\ X(addr) \in Nat /\ X(tmp) \in Nat /\ X(tmp) < 64
<1>1. tmp \in Nat /\ tmp < 65536 /\ 0 < 65536
  BY SMT DEF Types, Below
<1>2. addr \in Addresses /\ tmp \in Addresses /\ 0 \in Addresses
  BY <1>1, SMT DEF Types, Addresses, Below
<1>3. top \in Addresses
  BY <1>2, CopyRow, Zenon DEF top
<1>4. QED
  BY <1>2, <1>3, Positions, SMT

\* What a dot does to the address, as ccycle() and lcycle() leave it.
LEMMA Scrolled ==
  ASSUME ClockP!IInv, Types, run
  PROVE  /\ addr' \in Addresses
         /\ (~StepsRight /\ ~StepsDown /\ ~Returns /\ ~LoadsRow) => addr' = addr
         /\ ~(StepsDown \/ LoadsRow) => SameRow(addr', addr)
         /\ Rendering /\ bg_show =>
               /\ StepsRight => X(addr') = (X(addr) + 1) % 64
               /\ StepsDown =>
                     /\ X(addr') = X(addr)
                     /\ coarse_y(addr) <= 29 =>
                           coarse_y(addr') <= 29 /\ Y(addr') = (Y(addr) + 1) % 480
               /\ Returns => X(addr') = X(tmp)
               /\ LoadsRow => X(addr') = X(addr) /\ SameRow(addr', top)
<1>1. addr \in Addresses /\ tmp \in Addresses
  BY Loads DEF Types
<1>2. dot \in Nat /\ dot < 341
  BY Here
<1>3. SameRow(addr, addr)
  BY DEF SameRow
<1>4. CASE ~(Rendering /\ bg_show)
  <2>1. addr' = addr
    BY <1>4, Zenon DEF run
  <2>2. QED
    BY <1>1, <1>3, <1>4, <2>1, Zenon
<1>5. CASE Rendering /\ bg_show
  <2>1. addr' = scroll
    BY <1>5, Zenon DEF run
  <2>2. CASE StepsRight
    <3>1. ~StepsDown /\ ~Returns /\ ~LoadsRow
      BY <1>2, <2>2, SMT DEF StepsRight, StepsDown, Returns, LoadsRow, Fetching
    <3>2. addr' = inc_v_horzpos(addr)
      BY <1>2, <2>1, <2>2, SMT DEF scroll, StepsRight, Fetching
    <3>3. QED
      BY <1>1, <2>2, <3>1, <3>2, Horizontal, Zenon
  <2>3. CASE StepsDown
    <3>1. ~StepsRight /\ ~Returns /\ ~LoadsRow
      BY <2>3, SMT DEF StepsRight, StepsDown, Returns, LoadsRow
    <3>2. addr' = inc_v_vertpos(addr)
      BY <2>1, <2>3, SMT DEF scroll, StepsDown
    <3>3. QED
      BY <1>1, <2>3, <3>1, <3>2, Vertical, ZenonT(40)
  <2>4. CASE Returns
    <3>1. ~StepsRight /\ ~StepsDown /\ ~LoadsRow
      BY <2>4, SMT DEF StepsRight, StepsDown, Returns, LoadsRow, Fetching
    <3>2. addr' = copy_v_horzpos(addr, tmp)
      BY <1>2, <2>1, <2>4, SMT DEF scroll, Fetching, Returns
    <3>3. QED
      BY <1>1, <2>4, <3>1, <3>2, CopyColumn, Zenon
  <2>5. CASE LoadsRow
    <3>1. ~StepsRight /\ ~StepsDown /\ ~Returns
      BY <1>2, <2>5, SMT DEF StepsRight, StepsDown, Returns, LoadsRow, Fetching
    <3>2. addr' = copy_v_vertpos(addr, tmp)
      BY <1>2, <2>1, <2>5, SMT DEF scroll, Fetching, LoadsRow
    <3>3. QED
      BY <1>1, <2>5, <3>1, <3>2, CopyRow, Zenon DEF top
  <2>6. CASE ~StepsRight /\ ~StepsDown /\ ~Returns /\ ~LoadsRow
    <3>1. addr' = addr
      BY <2>1, <2>6, SMT DEF scroll, StepsRight, StepsDown, Returns, LoadsRow
    <3>2. QED
      BY <1>1, <1>3, <2>6, <3>1, Zenon
  <2>7. QED
    BY <2>2, <2>3, <2>4, <2>5, <2>6
<1>6. QED
  BY <1>4, <1>5

\* What a dot does to the latches, as background_cycle() leaves them.
LEMMA Fetched ==
  ASSUME ClockP!IInv, Types, run
  PROVE  /\ tile' \in Tiles
         /\ ~(Rendering /\ Fetching) => tile' = tile
         /\ Rendering /\ Fetching =>
               /\ dot % 8 \notin {2, 4, 6, 0} => tile' = tile
               /\ dot % 8 = 2 => tile' = [tile EXCEPT !.nt = nt_address(addr)]
               /\ dot % 8 = 4 => tile' = [tile EXCEPT !.attr = attr_address(addr)]
               /\ dot % 8 = 6 => tile' = [tile EXCEPT !.low = <<tile.nt, fine_y(addr)>>]
               /\ dot % 8 = 0 => tile' = [tile EXCEPT !.high = <<tile.nt, fine_y(addr)>>]
<1>1. addr \in Addresses /\ tile \in Tiles
  BY DEF Types
<1>2. tile.nt \in Nat /\ dot \in Nat
  BY <1>1, Here DEF Tiles, Entries, Below
<1>3. /\ <<tile.nt, fine_y(addr)>> \in Bytes
      /\ nt_address(addr) \in Entries /\ attr_address(addr) \in Entries
  BY <1>1, <1>2, Fetches, Positions, SMT DEF Bytes, Entries, Below
<1>4. CASE ~(Rendering /\ Fetching)
  BY <1>1, <1>4, Zenon DEF run
<1>5. CASE Rendering /\ Fetching
  <2>1. tile' = fetch
    BY <1>5, Zenon DEF run
  <2>2. /\ dot % 8 \notin {2, 4, 6, 0} => tile' = tile
        /\ dot % 8 = 2 => tile' = [tile EXCEPT !.nt = nt_address(addr)]
        /\ dot % 8 = 4 => tile' = [tile EXCEPT !.attr = attr_address(addr)]
        /\ dot % 8 = 6 => tile' = [tile EXCEPT !.low = <<tile.nt, fine_y(addr)>>]
        /\ dot % 8 = 0 => tile' = [tile EXCEPT !.high = <<tile.nt, fine_y(addr)>>]
    BY <1>2, <2>1, SMT DEF fetch
  <2>3. tile' \in Tiles
    <3>1. /\ [tile EXCEPT !.nt = nt_address(addr)] \in Tiles
          /\ [tile EXCEPT !.attr = attr_address(addr)] \in Tiles
          /\ [tile EXCEPT !.low = <<tile.nt, fine_y(addr)>>] \in Tiles
          /\ [tile EXCEPT !.high = <<tile.nt, fine_y(addr)>>] \in Tiles
      BY <1>1, <1>3, Zenon DEF Tiles
    <3>2. QED
      BY <1>1, <2>2, <3>1, Zenon
  <2>4. QED
    BY <1>5, <2>2, <2>3, Zenon
<1>6. QED
  BY <1>4, <1>5

-------------------------------------------------------------------------------

\* TilesAhead of a dot.
Ahead(d) ==
    IF d <= 257 THEN 2 + (IF d = 0 THEN 0 ELSE IF d > 248 THEN 31 ELSE (d - 1) \div 8)
    ELSE IF d <= 328 THEN 0
    ELSE IF d <= 336 THEN 1 ELSE 2

\* The dots that step to the right are those at which another tile has been fetched.
LEMMA AheadStep ==
  ASSUME NEW d \in Nat, d < 340, d # 257
  PROVE  /\ Ahead(d) \in Nat
         /\ Ahead(d + 1) = Ahead(d) + (IF /\ d % 8 = 0 /\ d # 256
                                          /\ (1 <= d /\ d <= 256) \/ (321 <= d /\ d <= 340)
                                       THEN 1 ELSE 0)
<1>1. CASE d <= 248
  <2>1. PICK k \in Nat, r \in Nat : d = 8 * k + r /\ r < 8
    <3>1. d = 8 * (d \div 8) + (d % 8) /\ d \div 8 \in Nat /\ d % 8 \in Nat /\ d % 8 < 8
      BY SMT
    <3>2. QED
      BY <3>1, SMT
  <2>2. d % 8 = r /\ d \div 8 = k
    BY <2>1, SMT
  <2>3. CASE r = 0
    <3>1. CASE k = 0
      BY <1>1, <2>1, <2>2, <2>3, <3>1, SMT DEF Ahead
    <3>2. CASE k > 0
      <4>1. (d - 1) \div 8 = k - 1
        BY <2>1, <2>3, <3>2, SMT
      <4>2. Ahead(d) = k + 1
        BY <1>1, <2>1, <2>3, <3>2, <4>1, SMT DEF Ahead
      <4>3. Ahead(d + 1) = k + 2
        BY <1>1, <2>1, <2>2, <2>3, SMT DEF Ahead
      <4>4. QED
        BY <1>1, <2>1, <2>2, <2>3, <3>2, <4>2, <4>3, SMT
    <3>3. QED
      BY <2>1, <3>1, <3>2, SMT
  <2>4. CASE r # 0
    <3>1. (d - 1) \div 8 = k
      BY <2>1, <2>4, SMT
    <3>2. Ahead(d) = k + 2 /\ Ahead(d + 1) = k + 2
      BY <1>1, <2>1, <2>2, <2>4, <3>1, SMT DEF Ahead
    <3>3. QED
      BY <2>1, <2>2, <2>4, <3>2, SMT
  <2>5. QED
    BY <2>3, <2>4
<1>2. CASE d > 248
  BY <1>2, SMT DEF Ahead
<1>3. QED
  BY <1>1, <1>2, SMT

\* Counting up modulo two nametables.
LEMMA Wrap ==
  ASSUME NEW s \in Nat, NEW n \in Nat, n = s % 64
  PROVE  (n + 1) % 64 = (s + 1) % 64
BY SMT

\* The column of the address, dot by dot: two tiles at the end of a line, one every eight
\* dots of the next, and back to the scroll position.
LEMMA StepTiles ==
  ASSUME IInv, run
  PROVE  TilesInOrder'
<1>1. ClockP!IInv /\ Types /\ TilesInOrder
  BY DEF IInv
<1>2. /\ bg_show' = bg_show /\ tmp' = tmp
      /\ dot \in Nat /\ dot < 341 /\ line \in Nat /\ LINE_MAX \in Nat /\ VBLANK_LINE \in Nat
      /\ VBLANK_LINE + 1 < LINE_MAX /\ VBLANK_LINE > 1
  BY <1>1, Here, RenderAssumption DEF run, Clock!GeometryAssumption
<1>3. PICK t \in Nat, n \in Nat : t = X(tmp) /\ n = X(addr) /\ t < 64
  BY <1>1, Loads
<1>4. bg_show /\ Rendering /\ (PreRender => dot > 257) => n = (t + Ahead(dot)) % 64
  BY <1>1, <1>3 DEF TilesInOrder, TilesAhead, Ahead
<1>5. SUFFICES ASSUME bg_show, Rendering', PreRender' => dot' > 257
               PROVE  X(addr') = (t + Ahead(dot')) % 64
  BY <1>2, <1>3 DEF TilesInOrder, TilesAhead, Ahead
<1>6. CASE dot # 340 /\ dot' = dot + 1 /\ line' = line
  <2>1. Rendering /\ (PreRender => dot + 1 > 257)
    BY <1>5, <1>6 DEF Rendering, PreRender
  <2>2. CASE Returns
    <3>1. X(addr') = t
      BY <1>1, <1>3, <1>5, <2>1, <2>2, Scrolled, Zenon
    <3>2. dot' = 258
      BY <1>6, <2>2 DEF Returns
    <3>3. QED
      BY <1>3, <3>1, <3>2, SMT DEF Ahead
  <2>3. CASE ~Returns
    <3>1. dot < 340 /\ dot # 257
      BY <1>2, <1>6, <2>3 DEF Returns
    <3>2. n = (t + Ahead(dot)) % 64
      BY <1>1, <1>2, <1>4, <1>5, <2>1, <3>1
    <3>3. Ahead(dot) \in Nat /\ Ahead(dot + 1) = Ahead(dot) + (IF StepsRight THEN 1 ELSE 0)
      BY <1>2, <3>1, AheadStep DEF StepsRight, Fetching
    <3>4. CASE StepsRight
      <4>1. X(addr') = (n + 1) % 64
        BY <1>1, <1>3, <1>5, <2>1, <3>4, Scrolled, Zenon
      <4>2. (n + 1) % 64 = (t + Ahead(dot) + 1) % 64
        BY <1>3, <3>2, <3>3, Wrap
      <4>3. QED
        BY <1>3, <1>6, <3>3, <3>4, <4>1, <4>2
    <3>5. CASE ~StepsRight
      <4>1. X(addr') = n
        BY <1>1, <1>3, <1>5, <2>1, <2>3, <3>5, Scrolled, Zenon
      <4>2. QED
        BY <1>3, <1>6, <3>2, <3>3, <3>5, <4>1
    <3>6. QED
      BY <3>4, <3>5
  <2>4. QED
    BY <2>2, <2>3
<1>7. CASE dot = 340 /\ (dot' = 0 \/ dot' = 1) /\ (PreRender \/ line' = line + 1)
  <2>1. Rendering
    <3>1. ~PreRender'
      BY <1>5, <1>7
    <3>2. QED
      BY <1>2, <1>5, <1>7, <3>1 DEF Rendering
  <2>2. ~StepsRight /\ ~StepsDown /\ ~Returns /\ ~LoadsRow
    BY <1>7, SMT DEF StepsRight, StepsDown, Returns, LoadsRow
  <2>3. addr' = addr
    BY <1>1, <2>2, Scrolled, Zenon
  <2>4. n = (t + Ahead(dot)) % 64
    BY <1>1, <1>4, <1>5, <1>7, <2>1
  <2>5. Ahead(dot') = Ahead(dot)
    BY <1>7, SMT DEF Ahead
  <2>6. QED
    BY <1>3, <2>3, <2>4, <2>5
<1>8. QED
  BY <1>1, <1>6, <1>7, NextDot, SMT DEF run

\* The row of the address, line by line: loaded on the pre-render line, and moved down at
\* the end of each line.
LEMMA StepRows ==
  ASSUME IInv, run
  PROVE  Loaded'
<1>1. ClockP!IInv /\ Types /\ Loaded
  BY DEF IInv
<1>2. /\ bg_show' = bg_show /\ top' = top
      /\ dot \in Nat /\ dot < 341 /\ line \in Nat /\ LINE_MAX \in Nat /\ VBLANK_LINE \in Nat
      /\ VBLANK_LINE + 1 < LINE_MAX /\ VBLANK_LINE > 1
  BY <1>1, Here, RenderAssumption DEF run, top, Clock!GeometryAssumption
<1>3. PICK t \in Nat, y \in Nat, c \in Nat :
         t = Y(top) /\ y = Y(addr) /\ c = coarse_y(addr) /\ (coarse_y(top) <= 29 => t < 480)
  BY <1>1, Loads, Positions, SMT
<1>4. PICK tt \in Nat, yy \in Nat, cc \in Nat :
         tt = coarse_y(top) /\ yy = Y(addr') /\ cc = coarse_y(addr')
  <2>1. addr' \in Addresses
    BY <1>1, Scrolled, Zenon
  <2>2. QED
    BY <1>1, <2>1, Loads, Positions, SMT
<1>5. SUFFICES ASSUME bg_show, tt <= 29, InPicture' \/ (PreRender' /\ dot' > 280)
               PROVE  cc <= 29 /\ yy = (t + (IF PreRender' THEN 0
                                             ELSE line' + (IF dot' > 256 THEN 1 ELSE 0))) % 480
  BY <1>2, <1>3, <1>4, SMT DEF Loaded
<1>6. InPicture \/ (PreRender /\ dot > 280)
        => c <= 29 /\ y = (t + (IF PreRender THEN 0
                                ELSE line + (IF dot > 256 THEN 1 ELSE 0))) % 480
  BY <1>1, <1>3, <1>4, <1>5, SMT DEF Loaded
<1>7. CASE dot # 340 /\ dot' = dot + 1 /\ line' = line
  <2>1. /\ PreRender' <=> PreRender
        /\ Rendering /\ (InPicture \/ (PreRender /\ dot + 1 > 280)) /\ (InPicture => ~PreRender)
    BY <1>2, <1>5, <1>7, SMT DEF InPicture, PreRender, Rendering
  <2>2. CASE StepsDown
    <3>1. c <= 29 => cc <= 29 /\ yy = (y + 1) % 480
      BY <1>1, <1>3, <1>4, <1>5, <2>1, <2>2, Scrolled, SMT
    <3>2. dot = 256 /\ InPicture /\ ~PreRender
      BY <2>1, <2>2, SMT DEF StepsDown
    <3>3. c <= 29 /\ y = (t + line) % 480
      BY <1>2, <1>3, <1>6, <3>2, SMT
    <3>4. (y + 1) % 480 = (t + line + 1) % 480
      BY <1>2, <1>3, <3>3, SMT
    <3>5. QED
      BY <1>2, <1>3, <1>7, <2>1, <3>1, <3>2, <3>3, <3>4, SMT
  <2>3. CASE LoadsRow
    <3>1. cc = tt /\ yy = t
      BY <1>1, <1>3, <1>4, <1>5, <2>1, <2>3, Scrolled, Zenon DEF SameRow
    <3>2. t % 480 = t /\ PreRender
      BY <1>3, <1>4, <1>5, <2>3, SMT DEF LoadsRow
    <3>3. QED
      BY <1>3, <1>5, <2>1, <3>1, <3>2, SMT
  <2>4. CASE ~StepsDown /\ ~LoadsRow
    <3>1. cc = c /\ yy = y
      BY <1>1, <1>3, <1>4, <2>4, Scrolled, Zenon DEF SameRow
    <3>2. InPicture \/ (PreRender /\ dot > 280)
      BY <1>2, <2>1, <2>4, SMT DEF LoadsRow
    <3>3. (dot' > 256) <=> (dot > 256)
      BY <1>2, <1>7, <2>4, SMT DEF StepsDown
    <3>4. QED
      BY <1>2, <1>6, <1>7, <2>1, <3>1, <3>2, <3>3, SMT
  <2>5. QED
    BY <2>2, <2>3, <2>4
<1>8. CASE dot = 340
  <2>1. ~StepsRight /\ ~StepsDown /\ ~Returns /\ ~LoadsRow
    BY <1>8, SMT DEF StepsRight, StepsDown, Returns, LoadsRow
  <2>2. cc = c /\ yy = y
    <3>1. addr' = addr
      BY <1>1, <2>1, Scrolled, Zenon
    <3>2. QED
      BY <1>3, <1>4, <3>1
  <2>3. CASE ~PreRender /\ dot' = 0 /\ line' = line + 1
    <3>1. InPicture /\ ~PreRender'
      BY <1>2, <1>5, <2>3, SMT DEF InPicture, PreRender
    <3>2. QED
      BY <1>2, <1>3, <1>6, <1>8, <2>2, <2>3, <3>1, SMT
  <2>4. CASE PreRender /\ (dot' = 0 \/ dot' = 1) /\ line' = 0
    <3>1. ~PreRender'
      BY <1>2, <2>4, SMT DEF PreRender
    <3>2. QED
      BY <1>3, <1>6, <1>8, <2>2, <2>4, <3>1, SMT
  <2>5. QED
    BY <1>1, <1>8, <2>3, <2>4, NextDot, SMT DEF run
<1>9. QED
  BY <1>1, <1>7, <1>8, NextDot, SMT DEF run

\* The address stays while a tile is fetched, up to the last of the eight dots.
LEMMA Stays ==
  ASSUME ClockP!IInv, Types, run, Fetching, dot % 8 # 0
  PROVE  addr' = addr
<1>1. dot \in Nat /\ dot < 341
  BY Here
<1>2. ~StepsRight /\ ~StepsDown /\ ~Returns /\ ~LoadsRow
  BY <1>1, SMT DEF StepsRight, StepsDown, Returns, LoadsRow, Fetching
<1>3. QED
  BY <1>2, Scrolled, Zenon

\* A latch changes only at the dot that fetches it.
LEMMA Keeps ==
  ASSUME ClockP!IInv, Types, run
  PROVE  /\ dot % 8 # 2 => tile'.nt = tile.nt
         /\ dot % 8 # 4 => tile'.attr = tile.attr
         /\ dot % 8 # 6 => tile'.low = tile.low
<1>1. tile \in Tiles
  BY DEF Types
<1>2. CASE ~(Rendering /\ Fetching)
  BY <1>2, Fetched, Zenon
<1>3. CASE Rendering /\ Fetching
  <2>1. \/ tile' = tile
        \/ dot % 8 = 2 /\ tile' = [tile EXCEPT !.nt = nt_address(addr)]
        \/ dot % 8 = 4 /\ tile' = [tile EXCEPT !.attr = attr_address(addr)]
        \/ dot % 8 = 6 /\ tile' = [tile EXCEPT !.low = <<tile.nt, fine_y(addr)>>]
        \/ dot % 8 = 0 /\ tile' = [tile EXCEPT !.high = <<tile.nt, fine_y(addr)>>]
    BY <1>3, Fetched, Zenon
  <2>2. /\ 2 # 4 /\ 2 # 6 /\ 4 # 6 /\ 4 # 2 /\ 6 # 2 /\ 6 # 4 /\ 0 # 2 /\ 0 # 4 /\ 0 # 6
    BY SMT
  <2>3. QED
    BY <1>1, <2>1, Zenon DEF Tiles
<1>4. QED
  BY <1>2, <1>3

\* The last fetch of a tile leaves the four latches of one tile.
LEMMA LastFetch ==
  ASSUME ClockP!IInv, Types, run, Latched, Rendering, Fetching, dot % 8 = 0
  PROVE  /\ tile.nt = nt_address(addr) /\ tile'.nt = tile.nt
         /\ tile'.low = <<tile.nt, fine_y(addr)>> /\ tile'.high = tile'.low
         /\ tile'.attr = attr_address(tile.nt - 8192)
<1>1. dot \in Nat /\ addr \in Addresses /\ tile \in Tiles
  BY Here DEF Types
<1>2. Phase = 7
  BY <1>1, SMT DEF Phase
<1>3. Phase >= 2 /\ Phase >= 4 /\ Phase >= 6
  BY <1>2, SMT
<1>4. /\ tile.nt = nt_address(addr) /\ tile.attr = attr_address(addr)
      /\ tile.low = <<tile.nt, fine_y(addr)>>
  BY <1>3, Zenon DEF Latched
<1>5. attr_address(tile.nt - 8192) = attr_address(addr)
  BY <1>1, <1>4, Fetches, SMT
<1>6. tile' = [tile EXCEPT !.high = <<tile.nt, fine_y(addr)>>]
  BY Fetched, Zenon
<1>7. /\ tile'.nt = tile.nt /\ tile'.attr = tile.attr /\ tile'.low = tile.low
      /\ tile'.high = <<tile.nt, fine_y(addr)>>
  BY <1>1, <1>6, Zenon DEF Tiles
<1>8. QED
  BY <1>4, <1>5, <1>7

\* The latches of a tile, fetch by fetch.
LEMMA StepLatches ==
  ASSUME IInv, run
  PROVE  Latched'
<1>1. ClockP!IInv /\ Types /\ Latched
  BY DEF IInv
<1>2. dot \in Nat /\ dot < 341 /\ tile \in Tiles
  BY <1>1, Here DEF Types
<1>3. CASE dot = 340
  <2>1. dot' = 0 \/ dot' = 1
    BY <1>1, <1>3, NextDot, SMT DEF run
  <2>2. ~(Fetching' /\ Phase' >= 2) /\ ~Complete'
    BY <2>1, SMT DEF Fetching, Phase, Complete
  <2>3. ~(Fetching' /\ Phase' >= 4) /\ ~(Fetching' /\ Phase' >= 6)
    BY <2>1, SMT DEF Fetching, Phase
  <2>4. QED
    BY <2>2, <2>3, Zenon DEF Latched
<1>4. CASE dot # 340
  <2>1. dot' = dot + 1 /\ line' = line
    BY <1>1, <1>4, NextDot, SMT DEF run
  <2>2. SUFFICES ASSUME Rendering
                 PROVE  Latched'
    BY <2>1 DEF Latched, Rendering, PreRender
  <2>3. Phase' = dot % 8
    BY <1>2, <2>1, SMT DEF Phase
  <2>4. (Fetching' /\ dot % 8 # 0) => Fetching
    BY <1>2, <2>1, SMT DEF Fetching
  <2>5. dot % 8 # 0 => Phase = (dot % 8) - 1
    BY <1>2, SMT DEF Phase
  <2>6. ASSUME Fetching', dot % 8 >= 2
        PROVE  tile'.nt = nt_address(addr')
    <3>1. Fetching /\ addr' = addr
      BY <1>1, <1>2, <2>4, <2>6, Stays, SMT
    <3>2. CASE dot % 8 = 2
      <4>1. tile' = [tile EXCEPT !.nt = nt_address(addr)]
        BY <1>1, <2>2, <3>1, <3>2, Fetched, Zenon
      <4>2. QED
        BY <1>2, <3>1, <4>1, Zenon DEF Tiles
    <3>3. CASE dot % 8 # 2
      <4>1. Phase >= 2
        BY <1>2, <2>5, <2>6, <3>3, SMT
      <4>2. tile.nt = nt_address(addr)
        BY <1>1, <2>2, <3>1, <4>1, Zenon DEF Latched
      <4>3. QED
        BY <1>1, <3>1, <3>3, <4>2, Keeps, Zenon
    <3>4. QED
      BY <3>2, <3>3
  <2>7. ASSUME Fetching', dot % 8 >= 4
        PROVE  tile'.attr = attr_address(addr')
    <3>1. Fetching /\ addr' = addr
      BY <1>1, <1>2, <2>4, <2>7, Stays, SMT
    <3>2. CASE dot % 8 = 4
      <4>1. tile' = [tile EXCEPT !.attr = attr_address(addr)]
        BY <1>1, <2>2, <3>1, <3>2, Fetched, Zenon
      <4>2. QED
        BY <1>2, <3>1, <4>1, Zenon DEF Tiles
    <3>3. CASE dot % 8 # 4
      <4>1. Phase >= 4
        BY <1>2, <2>5, <2>7, <3>3, SMT
      <4>2. tile.attr = attr_address(addr)
        BY <1>1, <2>2, <3>1, <4>1, Zenon DEF Latched
      <4>3. QED
        BY <1>1, <3>1, <3>3, <4>2, Keeps, Zenon
    <3>4. QED
      BY <3>2, <3>3
  <2>8. ASSUME Fetching', dot % 8 >= 6
        PROVE  tile'.low = <<tile'.nt, fine_y(addr')>>
    <3>1. Fetching /\ addr' = addr
      BY <1>1, <1>2, <2>4, <2>8, Stays, SMT
    <3>2. dot % 8 # 2
      BY <1>2, <2>8, SMT
    <3>3. tile'.nt = tile.nt
      BY <1>1, <3>2, Keeps, Zenon
    <3>4. CASE dot % 8 = 6
      <4>1. tile' = [tile EXCEPT !.low = <<tile.nt, fine_y(addr)>>]
        BY <1>1, <2>2, <3>1, <3>4, Fetched, Zenon
      <4>2. tile'.low = <<tile.nt, fine_y(addr)>>
        BY <1>2, <4>1, Zenon DEF Tiles
      <4>3. QED
        BY <3>1, <3>3, <4>2
    <3>5. CASE dot % 8 # 6
      <4>1. Phase >= 6
        BY <1>2, <2>5, <2>8, <3>5, SMT
      <4>2. tile.low = <<tile.nt, fine_y(addr)>>
        BY <1>1, <2>2, <3>1, <4>1, Zenon DEF Latched
      <4>3. tile'.low = tile.low
        BY <1>1, <3>5, Keeps, Zenon
      <4>4. QED
        BY <3>1, <3>3, <4>2, <4>3
    <3>6. QED
      BY <3>4, <3>5
  <2>9. ASSUME Complete'
        PROVE  OneTile'
    <3>1. CASE Fetching
      <4>1. dot % 8 = 0
        BY <1>2, <2>1, <2>3, <2>9, <3>1, SMT DEF Complete, Fetching
      <4>2. /\ tile'.nt = tile.nt /\ tile'.low = <<tile.nt, fine_y(addr)>>
            /\ tile'.high = tile'.low /\ tile'.attr = attr_address(tile.nt - 8192)
        BY <1>1, <2>2, <3>1, <4>1, LastFetch
      <4>3. QED
        BY <4>2 DEF OneTile
    <3>2. CASE ~Fetching
      <4>1. Complete
        BY <1>2, <2>1, <2>3, <2>9, <3>2, SMT DEF Complete, Fetching
      <4>2. tile' = tile
        BY <1>1, <3>2, Fetched, Zenon
      <4>3. OneTile
        BY <1>1, <2>2, <4>1, Zenon DEF Latched
      <4>4. QED
        BY <4>2, <4>3 DEF OneTile
    <3>3. QED
      BY <3>1, <3>2
  <2>10. QED
    BY <2>3, <2>6, <2>7, <2>8, <2>9 DEF Latched
<1>5. QED
  BY <1>3, <1>4

\* The tile that the last fetch has completed is the one that the address has left.
LEMMA StepNextTile ==
  ASSUME IInv, run
  PROVE  NextTile'
<1>1. ClockP!IInv /\ Types /\ TilesInOrder /\ Latched
  BY DEF IInv
<1>2. /\ bg_show' = bg_show /\ tmp' = tmp
      /\ dot \in Nat /\ dot < 341 /\ addr \in Addresses
  BY <1>1, Here DEF run, Types
<1>3. PICK t \in Nat : t = X(tmp)
  BY <1>1, Loads
<1>4. SUFFICES ASSUME bg_show, InPicture', Phase' = 0, 9 <= dot', dot' <= 249
               PROVE  /\ X(tile'.nt - 8192) = (t + (dot' - 1) \div 8 + 1) % 64
                      /\ tile'.low[2] = fine_y(addr')
  BY <1>2, <1>3 DEF NextTile
<1>5. dot' = dot + 1 /\ line' = line
  BY <1>1, <1>4, NextDot, SMT DEF run
<1>6. /\ dot % 8 = 0 /\ 8 <= dot /\ dot <= 248 /\ Fetching
      /\ Rendering /\ InPicture
  <2>1. Phase' = dot % 8
    BY <1>2, <1>5, SMT DEF Phase
  <2>2. QED
    BY <1>2, <1>4, <1>5, <2>1 DEF Fetching, InPicture, Rendering
<1>7. /\ tile.nt = nt_address(addr) /\ tile'.nt = tile.nt
      /\ tile'.low = <<tile.nt, fine_y(addr)>>
  BY <1>1, <1>6, LastFetch
<1>8. tile'.low[2] = fine_y(addr')
  <2>1. ~(StepsDown \/ LoadsRow)
    BY <1>2, <1>6, SMT DEF StepsDown, LoadsRow
  <2>2. fine_y(addr') = fine_y(addr)
    BY <1>1, <2>1, Scrolled, Zenon DEF SameRow
  <2>3. QED
    BY <1>7, <2>2
<1>9. X(tile'.nt - 8192) = (t + (dot' - 1) \div 8 + 1) % 64
  <2>1. X(tile'.nt - 8192) = X(addr)
    BY <1>2, <1>7, Fetches
  <2>2. ~PreRender
    BY <1>1, <1>6, Here, RenderAssumption DEF PreRender, InPicture, Clock!GeometryAssumption
  <2>3. X(addr) = (t + (2 + (dot - 1) \div 8)) % 64
    <3>1. X(addr) = (t + TilesAhead) % 64
      BY <1>1, <1>3, <1>4, <1>6, <2>2 DEF TilesInOrder
    <3>2. TilesAhead = 2 + (dot - 1) \div 8
      BY <1>2, <1>6, SMT DEF TilesAhead
    <3>3. QED
      BY <3>1, <3>2
  <2>4. 2 + (dot - 1) \div 8 = (dot' - 1) \div 8 + 1
    BY <1>2, <1>5, <1>6, SMT
  <2>5. (dot' - 1) \div 8 \in Nat
    BY <1>2, <1>5, SMT
  <2>6. QED
    BY <1>3, <2>1, <2>3, <2>4, <2>5, SMT
<1>10. QED
  BY <1>8, <1>9

\* The bits of a shift register.
LEMMA Bits ==
  ASSUME NEW i
  PROVE  i \in Bitnos <=> i \in Nat /\ i < 16
BY DEF Bitnos

\* In the dots of the picture that move the registers the column of a bit of them goes one
\* place down, or stays when eight more bits are filled in.
LEMMA Columns ==
  ASSUME NEW d \in Nat, NEW i \in Nat, 2 <= d
  PROVE  LET old(j) == 7 * ((d - 2) \div 8) + ((d - 2) % 8) + j - 1
             new    == 7 * ((d - 1) \div 8) + ((d - 1) % 8) + i - 1
         IN  /\ d % 8 # 1 => /\ old(i + 1) = new /\ (d - 1) % 8 >= 1
                             /\ (i + 1) + ((d - 2) % 8) = i + ((d - 1) % 8)
             /\ d % 8 = 1 => /\ old(i) = new /\ (d - 2) % 8 = 7 /\ (d - 1) % 8 = 0
                             /\ i >= 8 => new = 7 * ((d - 1) \div 8 + 1) + (i - 8)
<1>1. PICK k \in Nat, r \in Nat : d - 2 = 8 * k + r /\ r < 8
  <2>1. /\ d - 2 = 8 * ((d - 2) \div 8) + ((d - 2) % 8)
        /\ (d - 2) \div 8 \in Nat /\ (d - 2) % 8 \in Nat /\ (d - 2) % 8 < 8
    BY SMT
  <2>2. QED
    BY <2>1, SMT
<1>2. (d - 2) \div 8 = k /\ (d - 2) % 8 = r
  BY <1>1, SMT
<1>3. CASE r < 7
  <2>1. (d - 1) \div 8 = k /\ (d - 1) % 8 = r + 1 /\ d % 8 # 1
    BY <1>1, <1>3, SMT
  <2>2. QED
    BY <1>1, <1>2, <2>1, SMT
<1>4. CASE r = 7
  <2>1. (d - 1) \div 8 = k + 1 /\ (d - 1) % 8 = 0 /\ d % 8 = 1
    BY <1>1, <1>4, SMT
  <2>2. QED
    BY <1>1, <1>2, <1>4, <2>1, SMT
<1>5. QED
  BY <1>1, <1>3, <1>4, SMT

\* The bits of the shift registers, dot by dot.
LEMMA StepBits ==
  ASSUME IInv, run
  PROVE  Filled'
<1>1. ClockP!IInv /\ Types /\ Latched /\ NextTile /\ Filled
  BY DEF IInv
<1>2. bg_show' = bg_show /\ tmp' = tmp /\ dot \in Nat /\ dot < 341
  BY <1>1, Here DEF run
<1>3. SUFFICES ASSUME bg_show, InPicture', 2 <= dot', dot' <= 256,
                      NEW i \in Bitnos, i + ((dot' - 2) % 8) <= 14, Column(i)' >= 14
               PROVE  /\ shift'.tlow[i] = shift'.thigh[i]
                      /\ Pixel(shift'.tlow[i], Column(i)', X(tmp), fine_y(addr'))
  BY <1>2 DEF Filled
<1>4. dot' = dot + 1 /\ line' = line
  BY <1>1, <1>3, NextDot, SMT DEF run
<1>5. 1 <= dot /\ dot <= 255 /\ Fetching /\ InPicture /\ Rendering /\ i \in Nat /\ i < 16
  BY <1>2, <1>3, <1>4, Bits DEF Fetching, InPicture, Rendering
<1>6. /\ Column(i)' = 7 * ((dot - 1) \div 8) + ((dot - 1) % 8) + i - 1
      /\ i + ((dot - 1) % 8) <= 14
  <2>1. dot' - 2 = dot - 1
    BY <1>2, <1>4, SMT
  <2>2. QED
    BY <1>3, <2>1 DEF Column
<1>7. dot # 1
  <2>1. SUFFICES ASSUME dot = 1 PROVE FALSE
    OBVIOUS
  <2>2. Column(i)' = i - 1 /\ i <= 14
    BY <1>5, <1>6, <2>1, SMT
  <2>3. QED
    BY <1>3, <1>5, <2>2, SMT
<1>8. fine_y(addr') = fine_y(addr)
  <2>1. ~(StepsDown \/ LoadsRow)
    BY <1>2, <1>5, SMT DEF StepsDown, LoadsRow
  <2>2. QED
    BY <1>1, <2>1, Scrolled, Zenon DEF SameRow
<1>9. CASE dot % 8 # 1
  <2>1. Column(i + 1) = Column(i)' /\ (i + 1) + ((dot - 2) % 8) <= 14 /\ i < 15
    <3>1. /\ 7 * ((dot - 2) \div 8) + ((dot - 2) % 8) + (i + 1) - 1 = Column(i)'
          /\ (dot - 1) % 8 >= 1 /\ (i + 1) + ((dot - 2) % 8) = i + ((dot - 1) % 8)
      BY <1>2, <1>5, <1>6, <1>7, <1>9, Columns
    <3>2. (dot - 1) % 8 \in Nat
      BY <1>2, <1>5, SMT
    <3>3. QED
      BY <1>5, <1>6, <3>1, <3>2 DEF Column
  <2>2. i + 1 \in Bitnos
    BY <1>5, <2>1, Bits
  <2>3. /\ shift.tlow[i + 1] = shift.thigh[i + 1]
        /\ Pixel(shift.tlow[i + 1], Column(i + 1), X(tmp), fine_y(addr))
    <3>1. 2 <= dot /\ dot <= 256 /\ Column(i + 1) >= 14
      BY <1>2, <1>3, <1>5, <1>7, <2>1
    <3>2. QED
      BY <1>1, <1>3, <1>5, <2>1, <2>2, <3>1 DEF Filled
  <2>4. shift' = shift_run
    BY <1>5, <1>9 DEF run, Shifted
  <2>5. shift'.tlow[i] = shift.tlow[i + 1] /\ shift'.thigh[i] = shift.thigh[i + 1]
    BY <1>3, <2>1, <2>4 DEF shift_run, Halve
  <2>6. QED
    BY <1>8, <2>1, <2>3, <2>5
<1>10. CASE dot % 8 = 1
  <2>1. Column(i) = Column(i)' /\ (dot - 2) % 8 = 7 /\ (dot - 1) % 8 = 0
    BY <1>2, <1>5, <1>6, <1>7, <1>10, Columns DEF Column
  <2>2. shift' = shift_fill
    BY <1>5, <1>7, <1>10 DEF run, Shifted
  <2>3. CASE i < 8
    <3>1. shift'.tlow[i] = shift.tlow[i] /\ shift'.thigh[i] = shift.thigh[i]
      BY <1>3, <2>2, <2>3 DEF shift_fill, Fill
    <3>2. 2 <= dot /\ dot <= 256 /\ i + ((dot - 2) % 8) <= 14 /\ Column(i) >= 14
      BY <1>2, <1>3, <1>5, <1>7, <2>1, <2>3
    <3>3. /\ shift.tlow[i] = shift.thigh[i]
          /\ Pixel(shift.tlow[i], Column(i), X(tmp), fine_y(addr))
      BY <1>1, <1>3, <1>5, <3>2 DEF Filled
    <3>4. QED
      BY <1>8, <2>1, <3>1, <3>3
  <2>4. CASE i >= 8
    <3>1. shift'.tlow[i] = <<tile.low, i - 8>> /\ shift'.thigh[i] = <<tile.high, i - 8>>
      BY <1>3, <1>5, <2>2, <2>4 DEF shift_fill, Fill
    <3>2. Phase = 0 /\ 9 <= dot /\ dot <= 249
      BY <1>2, <1>5, <1>7, <1>10, <2>1, SMT DEF Phase
    <3>3. tile.low = tile.high /\ tile.low[1] = tile.nt
      BY <1>1, <1>5, <1>7, <3>2 DEF Latched, Complete, OneTile
    <3>4. /\ X(tile.nt - 8192) = (X(tmp) + (dot - 1) \div 8 + 1) % 64
          /\ tile.low[2] = fine_y(addr)
      BY <1>1, <1>3, <1>5, <3>2 DEF NextTile
    <3>5. PICK k \in Nat, c \in Nat, t \in Nat :
             k = (dot - 1) \div 8 /\ c = i - 8 /\ t = X(tmp) /\ c < 7
      <4>1. (dot - 1) \div 8 \in Nat /\ i - 8 \in Nat /\ i - 8 < 7
        BY <1>2, <1>5, <1>6, <2>1, <2>4, SMT
      <4>2. QED
        BY <1>1, <4>1, Loads
    <3>6. Column(i)' = 7 * (k + 1) + c
      BY <1>2, <1>5, <1>6, <1>7, <1>10, <2>4, <3>5, Columns
    <3>7. (7 * (k + 1) + c) \div 7 = k + 1 /\ (7 * (k + 1) + c) % 7 = c
      BY <3>5, SMT
    <3>8. (t + k) + 1 = t + (k + 1)
      BY <3>5, SMT
    <3>9. Pixel(<<tile.low, i - 8>>, Column(i)', X(tmp), fine_y(addr))
      BY <3>3, <3>4, <3>5, <3>6, <3>7, <3>8 DEF Pixel
    <3>10. QED
      BY <1>8, <3>1, <3>3, <3>9
  <2>5. QED
    BY <1>5, <2>3, <2>4
<1>11. QED
  BY <1>9, <1>10

-------------------------------------------------------------------------------

\* run() keeps the types: sixteen bits of address, latches within the nametables.
LEMMA StepTypes ==
  ASSUME IInv, run
  PROVE  Types'
<1>1. ClockP!IInv /\ Types
  BY DEF IInv
<1>2. addr' \in Addresses /\ tile' \in Tiles
  BY <1>1, Scrolled, Fetched, Zenon
<1>3. DOMAIN shift'.tlow = Bitnos /\ DOMAIN shift'.thigh = Bitnos
  <2>1. shift' = shift \/ shift' = shift_run \/ shift' = shift_fill
    BY Zenon DEF run, Shifted
  <2>2. DOMAIN shift.tlow = Bitnos /\ DOMAIN shift.thigh = Bitnos
    BY <1>1 DEF Types
  <2>3. DOMAIN shift_run.tlow = Bitnos /\ DOMAIN shift_run.thigh = Bitnos
    BY Zenon DEF shift_run, Halve
  <2>4. DOMAIN shift_fill.tlow = Bitnos /\ DOMAIN shift_fill.thigh = Bitnos
    BY Zenon DEF shift_fill, Fill
  <2>5. QED
    BY <2>1, <2>2, <2>3, <2>4, Zenon
<1>4. set' \in BOOLEAN
  BY Zenon DEF run
<1>5. tmp' = tmp /\ fine_x' = fine_x /\ bg_show' = bg_show
  BY DEF run
<1>6. QED
  BY <1>1, <1>2, <1>3, <1>4, <1>5, SMT DEF Types

\* The program writes to the registers on the v-blank line, which does not render: what it
\* writes is of the right type, and nothing else is promised there.
LEMMA StepProgram ==
  ASSUME IInv, program
  PROVE  IInv'
<1>1. ClockP!IInv /\ Types
  BY DEF IInv
<1>2. UNCHANGED clock
  BY DEF program
<1>3. dot' = dot /\ line' = line /\ dot = 2 /\ line = VBLANK_LINE
  BY <1>2 DEF program, clock, dot, line, Clock!At
<1>4. ClockP!IInv'
  <2>1. UNCHANGED ClockP!vars
    BY <1>2 DEF clock, ClockP!vars, ClockP!counters, ClockP!sprites, ClockP!history
  <2>2. QED
    BY <1>1, <2>1, Geometry, ClockP!NextIInv
<1>5. Types'
  <2>1. /\ TmpValues \subseteq Below(32768) /\ AddrValues \subseteq Addresses
        /\ FineValues \subseteq Below(8)
    BY RenderAssumption DEF Addresses
  <2>2. tmp' \in Below(32768) /\ tmp' \in Addresses
    <3>1. tmp' \in Below(32768)
      BY <2>1 DEF program
    <3>2. tmp' \in Nat /\ tmp' < 65536
      BY <3>1, SMT DEF Below
    <3>3. QED
      BY <3>1, <3>2, SMT DEF Addresses, Below
  <2>3. addr' \in Addresses
    <3>1. addr \in Addresses /\ addr' \in {addr, tmp'} \cup AddrValues
      BY <1>1 DEF program, Types
    <3>2. QED
      BY <2>1, <2>2, <3>1
  <2>4. fine_x' \in Below(8) /\ bg_show' \in BOOLEAN /\ set' \in BOOLEAN
    BY <2>1 DEF program
  <2>5. tile' = tile /\ shift' = shift
    BY DEF program
  <2>6. QED
    BY <1>1, <2>2, <2>3, <2>4, <2>5, SMT DEF Types
<1>6. ~Rendering' /\ ~PreRender' /\ ~InPicture'
  <2>1. /\ VBLANK_LINE \in Nat /\ LINE_MAX \in Nat /\ VBLANK_LINE + 1 < LINE_MAX
    BY RenderAssumption DEF Clock!GeometryAssumption
  <2>2. QED
    BY <1>3, <2>1 DEF Rendering, PreRender, InPicture
<1>7. TilesInOrder'
  BY <1>6 DEF TilesInOrder
<1>8. Loaded'
  BY <1>6 DEF Loaded
<1>9. Latched'
  BY <1>6 DEF Latched
<1>10. NextTile'
  BY <1>6 DEF NextTile
<1>11. Filled'
  BY <1>6 DEF Filled
<1>12. QED
  BY <1>4, <1>5, <1>7, <1>8, <1>9, <1>10, <1>11 DEF IInv

\* A PPU that has just been switched on shows no background and has fetched nothing.
LEMMA InitIInv == Init => IInv
<1> SUFFICES ASSUME Init PROVE IInv
  OBVIOUS
<1>1. ClockP!IInv
  <2>1. ClockP!Init
    BY DEF Init, Clock!Init, Clock!PowerState, ClockP!Init, ClockP!PowerState
  <2>2. QED
    BY <2>1, Geometry, ClockP!InitIInv
<1>2. Types
  <2>1. /\ addr = 0 /\ tmp = 0 /\ fine_x = 0 /\ bg_show = FALSE /\ set = FALSE
        /\ tile = [nt |-> 0, attr |-> 0, low |-> <<0, 0>>, high |-> <<0, 0>>]
    BY DEF Init
  <2>2. addr \in Addresses /\ tmp \in Below(32768) /\ fine_x \in Below(8)
    BY <2>1, SMT DEF Addresses, Below
  <2>3. 0 \in Entries /\ <<0, 0>> \in Bytes
    BY SMT DEF Entries, Bytes, Below
  <2>4. tile \in Tiles
    BY <2>1, <2>3, Zenon DEF Tiles
  <2>5. DOMAIN shift.tlow = Bitnos /\ DOMAIN shift.thigh = Bitnos
    <3>1. shift = [tlow |-> [i \in Bitnos |-> NOBIT], thigh |-> [i \in Bitnos |-> NOBIT]]
      BY SMT DEF Init
    <3>2. QED
      BY <3>1, Zenon
  <2>6. bg_show \in BOOLEAN /\ set \in BOOLEAN
    BY <2>1, Zenon
  <2>7. QED
    BY <2>2, <2>4, <2>5, <2>6, SMT DEF Types
<1>3. bg_show = FALSE /\ dot = 0
  <2>1. cycles = 0 /\ CYCLE_MAX = 341
    BY RenderAssumption DEF Init, Clock!Init, Clock!PowerState
  <2>2. QED
    BY <2>1, SMT DEF Init, dot
<1>4. TilesInOrder
  BY <1>3 DEF TilesInOrder
<1>5. Loaded
  BY <1>3 DEF Loaded
<1>6. Latched
  <2>1. ~Fetching /\ ~Complete
    BY <1>3, SMT DEF Fetching, Complete
  <2>2. QED
    BY <2>1, Zenon DEF Latched
<1>7. NextTile
  BY <1>3 DEF NextTile
<1>8. Filled
  BY <1>3 DEF Filled
<1>9. QED
  BY <1>1, <1>2, <1>4, <1>5, <1>6, <1>7, <1>8 DEF IInv

\* Every dot and every v-blank of the program preserve the invariant.
LEMMA NextIInv == IInv /\ [Next]_vars => IInv'
<1> SUFFICES ASSUME IInv, [Next]_vars PROVE IInv'
  OBVIOUS
<1>1. CASE run
  <2>1. ClockP!IInv'
    BY <1>1, NextDot DEF IInv, run
  <2>2. QED
    BY <1>1, <2>1, StepTypes, StepTiles, StepRows, StepLatches, StepNextTile, StepBits
       DEF IInv
<1>2. CASE program
  BY <1>2, StepProgram
<1>3. CASE UNCHANGED vars
  <2>1. UNCHANGED <<clock, addr, tmp, fine_x, bg_show, tile, shift, set>>
    BY <1>3 DEF vars
  <2>2. ClockP!IInv'
    <3>1. UNCHANGED ClockP!vars
      BY <2>1 DEF clock, ClockP!vars, ClockP!counters, ClockP!sprites, ClockP!history
    <3>2. QED
      BY <3>1, Geometry, ClockP!NextIInv DEF IInv
  <2>3. dot' = dot /\ line' = line
    BY <2>1 DEF clock, dot, line
  <2>4. Types'
    BY <2>1, SMT DEF IInv, Types
  <2>5. /\ Rendering' <=> Rendering
        /\ PreRender' <=> PreRender
        /\ InPicture' <=> InPicture
        /\ Fetching' <=> Fetching
        /\ Complete' <=> Complete
        /\ OneTile' <=> OneTile
        /\ Phase' = Phase /\ TilesAhead' = TilesAhead /\ top' = top
    BY <2>1, <2>3, SMT DEF Rendering, PreRender, InPicture, Fetching, Phase, Complete,
                           OneTile, TilesAhead, top
  <2>6. TilesInOrder'
    BY <2>1, <2>3, <2>5 DEF IInv, TilesInOrder
  <2>7. Loaded'
    BY <2>1, <2>3, <2>5 DEF IInv, Loaded
  <2>8. Latched'
    BY <2>1, <2>5 DEF IInv, Latched
  <2>9. NextTile'
    BY <2>1, <2>3, <2>5 DEF IInv, NextTile
  <2>10. Filled'
    <3>1. \A i \in Bitnos : Column(i)' = Column(i)
      BY <2>3 DEF Column
    <3>2. QED
      BY <2>1, <2>3, <2>5, <3>1 DEF IInv, Filled
  <2>11. QED
    BY <2>2, <2>4, <2>6, <2>7, <2>8, <2>9, <2>10, SMT DEF IInv
<1>4. QED
  BY <1>1, <1>2, <1>3 DEF Next

\* The strengthened invariant holds in every reachable state.
THEOREM Invariance == Spec => []IInv
BY InitIInv, NextIInv, PTL DEF Spec

\* Counting the fields of the address up and copying them never leaves its sixteen bits, and
\* the nametable and attribute fetches stay below $3000.
THEOREM TypeCorrect == Spec => []TypeOK
<1>1. IInv => TypeOK
  <2> SUFFICES ASSUME IInv PROVE TypeOK
    OBVIOUS
  <2>1. ClockP!TypeOK
    BY Geometry, ClockP!InvTypeOK DEF IInv
  <2>2. Clock!TypeOK
    BY <2>1 DEF Clock!TypeOK, Clock!FrameDots, ClockP!TypeOK, ClockP!FrameDots
  <2>3. tile \in Tiles
    BY DEF IInv, Types
  <2>4. tile.nt \in Entries /\ tile.attr \in Entries
    BY <2>3, Zenon DEF Tiles
  <2>5. /\ addr \in Addresses /\ tmp \in Below(32768) /\ fine_x \in Below(8)
        /\ DOMAIN shift.tlow = Bitnos /\ DOMAIN shift.thigh = Bitnos
        /\ bg_show \in BOOLEAN /\ set \in BOOLEAN
    BY SMT DEF IInv, Types
  <2>6. QED
    BY <2>2, <2>4, <2>5, SMT DEF TypeOK, Addresses, Entries
<1>2. QED
  BY <1>1, Invariance, PTL

\* For every geometry with a v-blank, every scroll position and every address that the
\* program leaves behind, ccycle() reads the tiles of a line from left to right from the
\* scroll position of the temporary address on.
THEOREM TilesOrdered == Spec => []TilesInOrder
<1>1. IInv => TilesInOrder
  BY DEF IInv
<1>2. QED
  BY <1>1, Invariance, PTL

\* Line n of a picture of any height shows the row n below the one that lcycle() has loaded
\* on the pre-render line, unless that is one of the two rows of attributes.
THEOREM RowsOrdered == Spec => []RowsInOrder
<1>1. IInv => RowsInOrder
  <2> SUFFICES ASSUME IInv, bg_show, InPicture, coarse_y(top) <= 29
               PROVE  Y(addr) = (Y(top) + line + (IF dot > 256 THEN 1 ELSE 0)) % 480
    BY DEF RowsInOrder, InPicture, top
  <2>1. ClockP!IInv /\ Types /\ Loaded
    BY DEF IInv
  <2>2. line \in Nat /\ line < LINE_MAX /\ ~PreRender
    BY <2>1, Here, RenderAssumption DEF PreRender, InPicture, Clock!GeometryAssumption
  <2>3. Y(addr) = (Y(top) + (line + (IF dot > 256 THEN 1 ELSE 0))) % 480
    BY <2>1, <2>2 DEF Loaded
  <2>4. PICK t \in Nat : t = Y(top)
    BY <2>1, Loads, Positions
  <2>5. QED
    BY <2>2, <2>3, <2>4, SMT
<1>2. QED
  BY <1>1, Invariance, PTL

\* Whenever shift_fill() is called the latches hold the four bytes of one tile, whatever
\* the program has done to the registers in the v-blank before.
THEOREM TilesCoherent == Spec => []TileCoherent
<1>1. IInv => TileCoherent
  <2> SUFFICES ASSUME IInv, Rendering, Fetching, dot % 8 = 1, dot # 1
               PROVE  OneTile
    BY DEF TileCoherent, OneTile
  <2>1. ClockP!IInv /\ Latched
    BY DEF IInv
  <2>2. dot \in Nat
    BY <2>1, Here
  <2>3. Complete
    BY <2>2, SMT DEF Complete, Phase
  <2>4. QED
    BY <2>1, <2>3, Zenon DEF Latched
<1>2. QED
  BY <1>1, Invariance, PTL

\* From the third tile of a line on bg_output() gives the columns of the tiles in order, for
\* every fine x and every scroll position.
THEOREM PixelsOrdered == Spec => []PixelsInOrder
<1>1. IInv => PixelsInOrder
  <2> SUFFICES ASSUME IInv, bg_show, Draws, Column(fine_x) >= 14
               PROVE  /\ shift.tlow[fine_x] = shift.thigh[fine_x]
                      /\ Pixel(shift.tlow[fine_x], Column(fine_x), X(tmp), fine_y(addr))
    BY DEF PixelsInOrder, bg_output, Column, Pixel
  <2>1. ClockP!IInv /\ Types /\ Filled
    BY DEF IInv
  <2>2. dot \in Nat /\ fine_x \in Nat /\ fine_x < 8
    BY <2>1, Here, SMT DEF Types, Below
  <2>3. fine_x \in Bitnos
    BY <2>2, Bits
  <2>4. 2 <= dot /\ dot <= 256 /\ InPicture
    BY <2>2 DEF Draws, InPicture
  <2>5. fine_x + ((dot - 2) % 8) <= 14
    BY <2>2, <2>4, SMT
  <2>6. QED
    BY <2>1, <2>3, <2>4, <2>5 DEF Filled
<1>2. QED
  BY <1>1, Invariance, PTL
===============================================================================

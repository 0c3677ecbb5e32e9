---------------------------- MODULE Fonts_proofs ----------------------------
(***************************************************************************)
(* Proofs about the SPI flash and the font area, for every size of the     *)
(* chip, its sectors, the area and the font files.                         *)
(***************************************************************************)
EXTENDS Fonts, TLAPS, WellFoundedInduction

-----------------------------------------------------------------------------
(* Types.                                                                  *)

FontInfo == [ok : BOOLEAN, addr : [Font -> Addr], size : [Font -> Nat]]

Units == {FF, Garbage}
         \cup {Glyphs(v, f, k) : v \in Nat, f \in Font, k \in Nat}
         \cup {Foreign(n) : n \in Nat}
         \cup {Header(h) : h \in FontInfo}

Works(m) == {Nothing} \cup
            {[at |-> a, data |-> d] : a \in Addr, d \in {e \in Seq(Units) : Len(e) \in 1 .. m}}

Pcs == {"init", "idle", "erase", "open", "read", "written", "save"}

FlashTypes == /\ flash \in [Addr -> Units] /\ goal \in [Addr -> Units]
              /\ w \in Works(SECT)
              /\ todo \in Works(SECT) /\ todo.at + Len(todo.data) <= Size

UpdateTypes == /\ version \in Nat \ {0} /\ crashes \in Nat /\ disks \in Nat
               /\ skipped \in BOOLEAN
               /\ pc \in Pcs /\ i \in Nat
               /\ ftinfo \in FontInfo /\ flashaddr \in Addr
               /\ offx \in Nat /\ bread \in Nat
               /\ tempbuf \in [1 .. SECT -> Units]

Places == /\ pc \in {"open", "read", "written"} => i \in Font
          /\ pc \in {"read", "written"} => offx <= FileSize[i]
          /\ pc = "written" => offx + bread <= FileSize[i]
          /\ pc = "erase" => i < FSEC
          /\ pc \in {"erase", "open", "read", "save"} => Idle

TypeOK == FlashTypes /\ UpdateTypes /\ Places

-----------------------------------------------------------------------------
(* What the chip holds once the write under way is complete.               *)
Middle == Over(flash, todo.at, todo.data)
Target == Over(Middle, w.at, w.data)

(* The write under way stays between two addresses.                        *)
Within(lo, hi) ==
    /\ w # Nothing => lo <= w.at /\ w.at + Len(w.data) <= hi
    /\ todo # Nothing => lo <= todo.at /\ todo.at + Len(todo.data) <= hi

Exact   == Busy => Target = goal
OnDisk  == pc = "idle" => Within(0, Base)
InArea  == pc # "idle" => Within(Base, Base + (FSEC + 1) * SECT)
Ram     == pc = "idle" => ftinfo = Installed

(* The header is blank while the fonts are written.                        *)
Writing == pc \in {"open", "read", "written", "save"}

Unmarked ==
    /\ Writing \/ (pc = "erase" /\ i > 0) \/ (pc = "init" /\ Busy) => flash[Base] = FF
    /\ Writing /\ w # Nothing => w.at > Base
    /\ Writing => Target[Base] = FF

(* The first n units of font f are in chip c where they belong.            *)
Copied(c, at, v, f, n) == \A k \in 0 .. n - 1 : c[at[f] + k] = Glyphs(v, f, k)

Located(h, at, f) == h.addr[f] = at[f] /\ h.size[f] = FileSize[f]

Progress(at) ==
    /\ Writing => \A f \in Font : f < i =>
         Located(ftinfo, at, f) /\ Copied(Target, at, version, f, FileSize[f])
    /\ pc = "save" => i > NF
    /\ pc \in {"read", "written"} => Located(ftinfo, at, i) /\ flashaddr = at[i]
    /\ pc = "read" => Copied(Target, at, version, i, offx)
    /\ pc = "written" =>
         /\ bread # SECT => offx + bread = FileSize[i]
         /\ Copied(Target, at, version, i, offx + bread)

AllIn(h, at, c, v) == \A f \in Font : Located(h, at, f) /\ Copied(c, at, v, f, FileSize[f])

HeaderWork == [at |-> Base, data |-> <<Header(ftinfo)>>]

Saving(at) ==
    pc = "init" /\ Busy =>
      /\ \/ w = HeaderWork /\ todo = Nothing
         \/ w = Nothing /\ todo = HeaderWork
      /\ AllIn(ftinfo, at, flash, version)

Whole(at) == Installed.ok => \E v \in 1 .. version : AllIn(Installed, at, flash, v)

-----------------------------------------------------------------------------
(* Arithmetic of addresses.                                                *)

LEMMA Geometry ==
  /\ SECT \in Nat /\ SECT >= 1 /\ Size \in Nat /\ Size >= SECT + SECT
  /\ Base \in Nat /\ FSEC \in Nat /\ FSEC >= 1 /\ FSEC * SECT \in Nat
  /\ (FSEC + 1) * SECT = FSEC * SECT + SECT
  /\ FSEC * SECT >= SECT
  /\ Base + FSEC * SECT + SECT + SECT <= Size
<1>1. SECT \in Nat /\ SECT >= 1 /\ Size \in Nat /\ Base \in Nat /\ FSEC \in Nat /\ FSEC >= 1
  BY SpiFlashAssumption, FontsAssumption
<1>2. FSEC * SECT \in Nat /\ (FSEC + 1) * SECT = FSEC * SECT + SECT
      /\ (FSEC + 2) * SECT = FSEC * SECT + SECT + SECT
      /\ FSEC * SECT = (FSEC - 1) * SECT + SECT /\ (FSEC - 1) * SECT \in Nat
  BY <1>1
<1>3. Base + (FSEC + 2) * SECT <= Size
  BY FontsAssumption
<1> QED
  BY <1>1, <1>2, <1>3

LEMMA ModSmall ==
  ASSUME NEW m \in Nat, NEW x \in 0 .. m - 1
  PROVE  (x % m) = x
OBVIOUS

LEMMA ModBelow ==
  ASSUME NEW m \in Nat, NEW x \in Int, x < 0, x + m >= 0, m >= 1
  PROVE  (x % m) = x + m
OBVIOUS

LEMMA DivMod ==
  ASSUME NEW m \in Nat, m >= 1, NEW x \in Int
  PROVE  x = (x \div m) * m + (x % m) /\ x \div m \in Int /\ (x % m) \in 0 .. m - 1
OBVIOUS

LEMMA Remainder ==
  ASSUME NEW m \in Nat, m >= 1, NEW x \in Int, NEW q \in Int, NEW r \in 0 .. m - 1,
         x = q * m + r
  PROVE  (x % m) = r
<1>1. PICK d \in Int, e \in 0 .. m - 1 : d = x \div m /\ e = x % m /\ x = d * m + e
  OBVIOUS
<1>2. d * m + e = q * m + r
  BY <1>1
<1>3. ~(q > d)
  <2>1. SUFFICES ASSUME q >= d + 1 PROVE FALSE
    OBVIOUS
  <2>2. q * m >= (d + 1) * m
    BY <2>1
  <2>3. (d + 1) * m = d * m + m /\ d * m \in Int /\ q * m \in Int
    OBVIOUS
  <2> QED
    BY <1>1, <1>2, <2>2, <2>3
<1>4. ~(q < d)
  <2>1. SUFFICES ASSUME d >= q + 1 PROVE FALSE
    OBVIOUS
  <2>2. d * m >= (q + 1) * m
    BY <2>1
  <2>3. (q + 1) * m = q * m + m /\ d * m \in Int /\ q * m \in Int
    OBVIOUS
  <2> QED
    BY <1>1, <1>2, <2>2, <2>3
<1>5. q = d
  BY <1>3, <1>4
<1>6. d * m \in Int
  OBVIOUS
<1> QED
  BY <1>1, <1>2, <1>5, <1>6

(* A multiple of SECT is either behind the whole sector or not behind it.  *)
LEMMA SectorFits ==
  ASSUME NEW n \in Nat, (n % SECT) = 0, NEW a \in Nat
  PROVE  /\ a < n => (a \div SECT) * SECT + SECT <= n
         /\ a >= n => (a \div SECT) * SECT >= n
<1>1. SECT \in Nat /\ SECT >= 1
  BY Geometry
<1>2. PICK q \in Nat : n = q * SECT
  BY <1>1
<1>3. PICK s \in Nat : s = a \div SECT /\ s * SECT <= a /\ a < s * SECT + SECT
  BY <1>1
<1>4. ASSUME a < n PROVE s * SECT + SECT <= n
  <2>1. s < q
    <3>1. SUFFICES ASSUME s >= q PROVE FALSE
      OBVIOUS
    <3>2. s * SECT >= q * SECT
      BY <3>1, <1>1
    <3> QED
      BY <3>2, <1>4, <1>2, <1>3, <1>1
  <2>2. (s + 1) * SECT <= q * SECT
    BY <2>1, <1>1
  <2>3. (s + 1) * SECT = s * SECT + SECT
    BY <1>1
  <2> QED
    BY <2>2, <2>3, <1>2
<1>5. ASSUME a >= n PROVE s * SECT >= n
  <2>1. s >= q
    <3>1. SUFFICES ASSUME s < q PROVE FALSE
      OBVIOUS
    <3>2. (s + 1) * SECT <= q * SECT /\ (s + 1) * SECT = s * SECT + SECT
      BY <3>1, <1>1
    <3> QED
      BY <3>2, <1>5, <1>2, <1>3, <1>1
  <2> QED
    BY <2>1, <1>1, <1>2
<1> QED
  BY <1>3, <1>4, <1>5

LEMMA SectorOf ==
  ASSUME NEW a \in Nat
  PROVE  /\ (a \div SECT) * SECT \in Nat
         /\ (a \div SECT) * SECT <= a /\ a < (a \div SECT) * SECT + SECT
         /\ (a % SECT) = a - (a \div SECT) * SECT
<1>1. SECT \in Nat /\ SECT >= 1
  BY Geometry
<1> QED
  BY <1>1

-----------------------------------------------------------------------------
(* What a write makes of the chip.                                         *)

(* The distance from at to a, the way the chip counts.                     *)
Ahead(a, at) == IF a >= at THEN a - at ELSE a - at + Size

LEMMA AheadIs ==
  ASSUME NEW a \in Addr, NEW at \in Addr
  PROVE  ((a - at) % Size) = Ahead(a, at) /\ Ahead(a, at) \in Nat
<1>1. Size \in Nat /\ Size >= 1 /\ a \in Nat /\ at \in Nat /\ a < Size /\ at < Size
  BY Geometry DEF Addr
<1>2. CASE a >= at
  <2>1. a - at \in 0 .. Size - 1
    BY <1>1, <1>2
  <2>2. ((a - at) % Size) = a - at
    BY <1>1, <2>1, ModSmall
  <2> QED
    BY <1>2, <2>1, <2>2 DEF Ahead
<1>3. CASE ~(a >= at)
  <2>1. a - at \in Int /\ a - at < 0 /\ a - at + Size >= 0
    BY <1>1, <1>3
  <2>2. ((a - at) % Size) = a - at + Size
    BY <1>1, <2>1, ModBelow
  <2> QED
    BY <1>1, <1>3, <2>1, <2>2 DEF Ahead
<1> QED
  BY <1>2, <1>3

LEMMA OverAt ==
  ASSUME NEW f, NEW at \in Addr, NEW data, NEW a \in Addr
  PROVE  Over(f, at, data)[a] =
           IF 1 + Ahead(a, at) <= Len(data) THEN data[1 + Ahead(a, at)] ELSE f[a]
<1>1. ((a - at) % Size) = Ahead(a, at)
  BY AheadIs
<1> QED
  BY <1>1, Zenon DEF Over

LEMMA OverType ==
  ASSUME NEW U, NEW f \in [Addr -> U], NEW at \in Addr, NEW data \in Seq(U)
  PROVE  Over(f, at, data) \in [Addr -> U]
<1>1. Over(f, at, data) = [a \in Addr |-> Over(f, at, data)[a]]
  BY DEF Over
<1>2. ASSUME NEW a \in Addr PROVE Over(f, at, data)[a] \in U
  <2>1. CASE 1 + Ahead(a, at) <= Len(data)
    <3>1. 1 + Ahead(a, at) \in 1 .. Len(data)
      BY <2>1, AheadIs
    <3>2. data[1 + Ahead(a, at)] \in U
      BY <3>1
    <3> QED
      BY <2>1, <3>2, OverAt
  <2>2. CASE ~(1 + Ahead(a, at) <= Len(data))
    <3>1. Over(f, at, data)[a] = f[a]
      BY <2>2, OverAt
    <3> QED
      BY <3>1
  <2> QED
    BY <2>1, <2>2
<1> QED
  BY <1>1, <1>2, Zenon

LEMMA OverSame ==
  ASSUME NEW U, NEW f \in [Addr -> U], NEW g \in [Addr -> U],
         \A a \in Addr : f[a] = g[a]
  PROVE  f = g
OBVIOUS

LEMMA OverNothing ==
  ASSUME NEW U, NEW f \in [Addr -> U]
  PROVE  Over(f, Nothing.at, Nothing.data) = f
<1>1. Nothing.at \in Addr /\ Nothing.data = << >> /\ Len(Nothing.data) = 0
      /\ Nothing.data \in Seq(U)
  BY Geometry DEF Nothing, Addr
<1>2. Over(f, Nothing.at, Nothing.data) \in [Addr -> U]
  BY <1>1, OverType
<1>3. ASSUME NEW a \in Addr PROVE Over(f, Nothing.at, Nothing.data)[a] = f[a]
  <2>1. ~(1 + Ahead(a, Nothing.at) <= Len(Nothing.data))
    BY <1>1, AheadIs
  <2> QED
    BY <1>1, <2>1, OverAt
<1> QED
  BY <1>2, <1>3, OverSame

(* A range that does not wrap: inside it the data, outside it the chip.    *)
LEMMA OverRange ==
  ASSUME NEW U, NEW f, NEW at \in Addr, NEW data \in Seq(U),
         at + Len(data) <= Size, NEW a \in Addr
  PROVE  /\ at <= a /\ a < at + Len(data) => Over(f, at, data)[a] = data[a - at + 1]
         /\ ~(at <= a /\ a < at + Len(data)) => Over(f, at, data)[a] = f[a]
<1>1. Size \in Nat /\ a \in Nat /\ at \in Nat /\ a < Size /\ at < Size /\ Len(data) \in Nat
  BY Geometry DEF Addr
<1>2. ASSUME at <= a, a < at + Len(data) PROVE Over(f, at, data)[a] = data[a - at + 1]
  <2>1. Ahead(a, at) = a - at /\ 1 + Ahead(a, at) <= Len(data) /\ 1 + Ahead(a, at) = a - at + 1
    BY <1>1, <1>2 DEF Ahead
  <2> QED
    BY <2>1, OverAt
<1>3. ASSUME ~(at <= a /\ a < at + Len(data)) PROVE Over(f, at, data)[a] = f[a]
  <2>1. ~(1 + Ahead(a, at) <= Len(data))
    BY <1>1, <1>3 DEF Ahead
  <2> QED
    BY <2>1, OverAt
<1> QED
  BY <1>2, <1>3

LEMMA WorkType ==
  ASSUME NEW m \in Nat, NEW x \in Works(m)
  PROVE  /\ x.at \in Addr /\ x.data \in Seq(Units) /\ Len(x.data) \in 0 .. m
         /\ x = [at |-> x.at, data |-> x.data]
         /\ x # Nothing => Len(x.data) >= 1
         /\ x = Nothing => x.at = 0 /\ x.data = << >> /\ Len(x.data) = 0
<1>1. 0 \in Addr
  BY Geometry DEF Addr
<1>2. CASE x = Nothing
  BY <1>1, <1>2 DEF Nothing
<1>3. CASE x # Nothing
  <2>1. PICK a \in Addr, d \in {e \in Seq(Units) : Len(e) \in 1 .. m} :
            x = [at |-> a, data |-> d]
    BY <1>3 DEF Works
  <2>2. d \in Seq(Units) /\ Len(d) \in 1 .. m /\ x.at = a /\ x.data = d
    BY <2>1
  <2> QED
    BY <1>3, <2>1, <2>2
<1> QED
  BY <1>2, <1>3

OverDone(g, at, data, a) ==
    /\ at <= a /\ a < at + Len(data) => Over(g, at, data)[a] = data[a - at + 1]
    /\ ~(at <= a /\ a < at + Len(data)) => Over(g, at, data)[a] = g[a]

LEMMA OverUnits ==
  \A at \in Addr, data \in Seq(Units), a \in Addr :
    at + Len(data) <= Size => \A g : OverDone(g, at, data, a)
<1> SUFFICES ASSUME NEW at \in Addr, NEW data \in Seq(Units), NEW a \in Addr,
                    at + Len(data) <= Size, NEW g
             PROVE  OverDone(g, at, data, a)
  OBVIOUS
<1>1. /\ at <= a /\ a < at + Len(data) => Over(g, at, data)[a] = data[a - at + 1]
      /\ ~(at <= a /\ a < at + Len(data)) => Over(g, at, data)[a] = g[a]
  BY OverRange
<1> QED
  BY <1>1 DEF OverDone

LEMMA IsWork ==
  ASSUME NEW m \in Nat, NEW a \in Addr, NEW d \in Seq(Units), Len(d) >= 1, Len(d) <= m
  PROVE  [at |-> a, data |-> d] \in Works(m) /\ [at |-> a, data |-> d] # Nothing
<1>1. Len(d) \in 1 .. m /\ d # << >>
  OBVIOUS
<1> QED
  BY <1>1 DEF Works, Nothing

LEMMA NoWork ==
  ASSUME NEW m \in Nat
  PROVE  Nothing \in Works(m) /\ Nothing.at = 0 /\ Len(Nothing.data) = 0
BY DEF Works, Nothing

LEMMA NextStart ==
  ASSUME NEW at \in Addr, NEW n \in Nat, at + n <= Size
  PROVE  /\ ((at + n) % Size) = IF at + n = Size THEN 0 ELSE at + n
         /\ ((at + n) % Size) \in Addr
<1>1. Size \in Nat /\ Size >= 1 /\ at \in Nat
  BY Geometry DEF Addr
<1>2. CASE at + n = Size
  <2>1. (Size % Size) = 0
    BY <1>1
  <2> QED
    BY <1>1, <1>2, <2>1 DEF Addr
<1>3. CASE at + n # Size
  <2>1. at + n \in 0 .. Size - 1
    BY <1>1, <1>3
  <2> QED
    BY <1>1, <1>3, <2>1, ModSmall DEF Addr
<1> QED
  BY <1>2, <1>3

(* The first n units and then the rest are the whole.                      *)
LEMMA Split ==
  ASSUME NEW U, NEW f \in [Addr -> U], NEW at \in Addr, NEW data \in Seq(U),
         Len(data) <= Size, NEW n \in 1 .. Len(data), at + n <= Size
  PROVE  Over(Over(f, at, SubSeq(data, 1, n)),
              (at + n) % Size, SubSeq(data, n + 1, Len(data)))
           = Over(f, at, data)
<1>1. Size \in Nat /\ Size >= 1 /\ at \in Nat /\ at < Size /\ Len(data) \in Nat /\ n \in Nat
  BY Geometry DEF Addr
<1> DEFINE p == SubSeq(data, 1, n)
           r == SubSeq(data, n + 1, Len(data))
           x == (at + n) % Size
           mid == Over(f, at, p)
<1>2. /\ p \in Seq(U) /\ Len(p) = n /\ \A k \in 1 .. n : p[k] = data[k]
      /\ r \in Seq(U) /\ Len(r) = Len(data) - n
      /\ \A k \in 1 .. Len(data) - n : r[k] = data[n + k]
  BY <1>1
<1>3. x \in Addr /\ x = IF at + n = Size THEN 0 ELSE at + n
  BY <1>1, NextStart
<1> HIDE DEF p, r, x
<1>4. mid \in [Addr -> U]
  BY <1>2, OverType
<1>5. Over(mid, x, r) \in [Addr -> U] /\ Over(f, at, data) \in [Addr -> U]
  BY <1>2, <1>3, <1>4, OverType
<1> HIDE DEF mid
<1>6. ASSUME NEW a \in Addr PROVE Over(mid, x, r)[a] = Over(f, at, data)[a]
  <2>1. a \in Nat /\ a < Size
    BY <1>1 DEF Addr
  <2>2. mid[a] = IF 1 + Ahead(a, at) <= n THEN p[1 + Ahead(a, at)] ELSE f[a]
    BY <1>2, OverAt DEF mid
  <2>3. Over(mid, x, r)[a] = IF 1 + Ahead(a, x) <= Len(data) - n
                               THEN r[1 + Ahead(a, x)] ELSE mid[a]
    <3>1. Over(mid, x, r)[a] = IF 1 + Ahead(a, x) <= Len(r)
                                 THEN r[1 + Ahead(a, x)] ELSE mid[a]
      <4>1. x \in Addr
        BY <1>3
      <4>2. \A g : Over(g, x, r)[a] = IF 1 + Ahead(a, x) <= Len(r)
                                       THEN r[1 + Ahead(a, x)] ELSE g[a]
        BY <4>1, OverAt
      <4> QED
        BY <4>2, Zenon
    <3>2. Len(r) = Len(data) - n
      BY <1>2
    <3> QED
      BY <3>1, <3>2, Zenon
  <2>4. Over(f, at, data)[a] = IF 1 + Ahead(a, at) <= Len(data)
                                 THEN data[1 + Ahead(a, at)] ELSE f[a]
    BY OverAt
  <2>5. Ahead(a, at) \in Nat
    BY AheadIs
  <2>6. CASE Ahead(a, at) >= n
    <3>1. Ahead(a, x) = Ahead(a, at) - n
      BY <1>1, <1>3, <2>1, <2>6 DEF Ahead
    <3>2. CASE 1 + Ahead(a, at) <= Len(data)
      <4>1. 1 + Ahead(a, x) \in 1 .. Len(data) - n /\ n + (1 + Ahead(a, x)) = 1 + Ahead(a, at)
        BY <1>1, <2>5, <2>6, <3>1, <3>2
      <4>2. r[1 + Ahead(a, x)] = data[1 + Ahead(a, at)]
        BY <1>2, <4>1
      <4> QED
        BY <1>1, <2>3, <2>4, <3>2, <4>1, <4>2
    <3>3. CASE ~(1 + Ahead(a, at) <= Len(data))
      <4>1. ~(1 + Ahead(a, x) <= Len(data) - n) /\ ~(1 + Ahead(a, at) <= n)
        BY <1>1, <2>5, <2>6, <3>1, <3>3
      <4> QED
        BY <2>2, <2>3, <2>4, <3>3, <4>1
    <3> QED
      BY <3>2, <3>3
  <2>7. CASE ~(Ahead(a, at) >= n)
    <3>1. Ahead(a, x) = Ahead(a, at) - n + Size
      BY <1>1, <1>3, <2>1, <2>7 DEF Ahead
    <3>2. ~(1 + Ahead(a, x) <= Len(data) - n)
      BY <1>1, <2>5, <3>1
    <3>3. 1 + Ahead(a, at) \in 1 .. n /\ 1 + Ahead(a, at) <= Len(data)
      BY <1>1, <2>5, <2>7
    <3>4. p[1 + Ahead(a, at)] = data[1 + Ahead(a, at)]
      BY <1>2, <3>3
    <3> QED
      BY <2>2, <2>3, <2>4, <3>2, <3>3, <3>4
  <2> QED
    BY <2>6, <2>7
<1>7. Over(mid, x, r) = Over(f, at, data)
  BY <1>5, <1>6, OverSame
<1> QED
  BY <1>7 DEF mid, x, r, p

-----------------------------------------------------------------------------
(* The two steps of W25QXX_Write.                                          *)

LEMMA PageStep ==
  ASSUME FlashTypes, WritePage
  PROVE  /\ FlashTypes' /\ Target' = Target /\ goal' = goal /\ w' = w /\ Busy
         /\ todo.at \in Addr
         /\ flash'[todo.at] = Middle[todo.at]
         /\ \A a \in Addr : a # todo.at => flash'[a] = flash[a]
         /\ \/ todo' = Nothing
            \/ /\ todo'.at = todo.at + 1
               /\ todo'.at + Len(todo'.data) = todo.at + Len(todo.data)
         /\ Len(todo.data) = 1 => todo' = Nothing
<1>1. SECT \in Nat /\ SECT >= 1 /\ Size \in Nat /\ Size >= 1
  BY Geometry
<1>2. PICK t, d : t = todo.at /\ d = todo.data
  OBVIOUS
<1>3. /\ t \in Addr /\ d \in Seq(Units) /\ Len(d) \in 1 .. SECT /\ t + Len(d) <= Size
      /\ t \in Nat
  BY <1>1, <1>2, WorkType DEF FlashTypes, WritePage, Addr
<1>4. /\ flash \in [Addr -> Units] /\ flash' = [flash EXCEPT ![t] = Head(d)]
      /\ todo # Nothing
      /\ todo' = IF Len(d) = 1 THEN Nothing ELSE [at |-> t + 1, data |-> Tail(d)]
      /\ w' = w /\ goal' = goal
  BY <1>2 DEF WritePage, FlashTypes
<1>5. Head(d) = d[1] /\ d[1] \in Units
  BY <1>3
<1>6. flash' \in [Addr -> Units] /\ flash'[t] = d[1]
      /\ \A a \in Addr : a # t => flash'[a] = flash[a]
  BY <1>3, <1>4, <1>5
<1>7. Middle \in [Addr -> Units] /\ Middle = Over(flash, t, d)
  BY <1>2, <1>3, <1>4, OverType DEF Middle
<1>8. \A a \in Addr : /\ t <= a /\ a < t + Len(d) => Middle[a] = d[a - t + 1]
                      /\ ~(t <= a /\ a < t + Len(d)) => Middle[a] = flash[a]
  <2> TAKE a \in Addr
  <2>1. /\ t <= a /\ a < t + Len(d) => Over(flash, t, d)[a] = d[a - t + 1]
        /\ ~(t <= a /\ a < t + Len(d)) => Over(flash, t, d)[a] = flash[a]
    BY <1>3, OverRange
  <2> QED
    BY <2>1, <1>7, Zenon
<1>9. Middle[t] = d[1]
  BY <1>3, <1>8
<1>10. /\ Middle' = Middle
       /\ todo' \in Works(SECT) /\ todo'.at + Len(todo'.data) <= Size
       /\ \/ todo' = Nothing
          \/ todo'.at = t + 1 /\ todo'.at + Len(todo'.data) = t + Len(d)
  <2>1. CASE Len(d) = 1
    <3>1. todo' = Nothing
      BY <1>4, <2>1
    <3>2. Middle' = flash'
      BY <1>6, <3>1, OverNothing DEF Middle
    <3>3. \A a \in Addr : flash'[a] = Middle[a]
      <4> TAKE a \in Addr
      <4>1. a \in Nat
        BY <1>1 DEF Addr
      <4>2. CASE a = t
        BY <4>2, <1>6, <1>9
      <4>3. CASE a # t
        <5>1. ~(t <= a /\ a < t + Len(d))
          BY <1>3, <2>1, <4>1, <4>3
        <5> QED
          BY <1>6, <1>8, <4>3, <5>1
      <4> QED
        BY <4>2, <4>3
    <3>4. flash' = Middle
      BY <1>6, <1>7, <3>3, OverSame
    <3> QED
      BY <1>1, <3>1, <3>2, <3>4, NoWork
  <2>2. CASE Len(d) # 1
    <3>1. PICK r : r = Tail(d)
      OBVIOUS
    <3>2. r \in Seq(Units) /\ Len(r) = Len(d) - 1 /\ \A k \in 1 .. Len(r) : r[k] = d[k + 1]
      BY <1>3, <2>2, <3>1
    <3>3. t + 1 \in Addr /\ (t + 1) + Len(r) = t + Len(d)
      BY <1>1, <1>3, <2>2, <3>2 DEF Addr
    <3>4. todo' = [at |-> t + 1, data |-> r]
      BY <1>4, <2>2, <3>1
    <3>5. todo'.at = t + 1 /\ todo'.data = r
      BY <3>4
    <3>6. todo' \in Works(SECT)
      BY <1>1, <1>3, <2>2, <3>2, <3>3, <3>4, IsWork
    <3>7. Middle' = Over(flash', t + 1, r)
      BY <3>5 DEF Middle
    <3>8. Middle' \in [Addr -> Units]
      BY <1>6, <3>2, <3>3, <3>7, OverType
    <3>9. \A a \in Addr : Middle'[a] = Middle[a]
      <4> TAKE a \in Addr
      <4>1. a \in Nat
        BY <1>1 DEF Addr
      <4>2. (t + 1) + Len(r) <= Size
        BY <1>3, <3>3
      <4>3. /\ t + 1 <= a /\ a < (t + 1) + Len(r) => Middle'[a] = r[a - (t + 1) + 1]
            /\ ~(t + 1 <= a /\ a < (t + 1) + Len(r)) => Middle'[a] = flash'[a]
        BY <1>6, <3>2, <3>3, <3>7, <4>2, OverRange
      <4>4. CASE a = t
        <5>1. ~(t + 1 <= a)
          BY <1>3, <4>4
        <5> QED
          BY <1>6, <1>9, <4>3, <4>4, <5>1
      <4>5. CASE t + 1 <= a /\ a < t + Len(d)
        <5>1. a - (t + 1) + 1 \in 1 .. Len(r) /\ (a - (t + 1) + 1) + 1 = a - t + 1
              /\ t <= a /\ a < (t + 1) + Len(r)
          BY <1>3, <3>2, <3>3, <4>1, <4>5
        <5> QED
          BY <1>8, <3>2, <4>3, <4>5, <5>1
      <4>6. CASE a # t /\ ~(t + 1 <= a /\ a < t + Len(d))
        <5>1. ~(t <= a /\ a < t + Len(d)) /\ ~(t + 1 <= a /\ a < (t + 1) + Len(r))
          BY <1>3, <3>3, <4>1, <4>6
        <5> QED
          BY <1>6, <1>8, <4>3, <4>6, <5>1
      <4> QED
        BY <4>4, <4>5, <4>6
    <3>10. Middle' = Middle
      BY <1>7, <3>8, <3>9, OverSame
    <3> QED
      BY <1>3, <3>3, <3>5, <3>6, <3>10
  <2> QED
    BY <2>1, <2>2
<1>11. Target' = Target
  BY <1>4, <1>10 DEF Target
<1>12. FlashTypes'
  BY <1>4, <1>6, <1>10 DEF FlashTypes
<1> QED
  BY <1>2, <1>3, <1>4, <1>6, <1>9, <1>10, <1>11, <1>12 DEF Busy, Idle

(* The step of WriteSector, with the sector it is about.                   *)
LEMMA SectorStep ==
  ASSUME FlashTypes, WriteSector
  PROVE  /\ FlashTypes' /\ Target' = Target /\ goal' = goal
         /\ w # Nothing /\ todo = Nothing /\ Busy'
         /\ \E base \in Nat, n \in 1 .. Len(w.data) :
              /\ base = (w.at \div SECT) * SECT
              /\ base <= w.at /\ w.at + n <= base + SECT /\ base + SECT <= Size
              /\ \A a \in Addr : /\ flash'[a] \in {flash[a], FF}
                                 /\ flash'[a] # flash[a] => base <= a /\ a < base + SECT
              /\ base <= todo'.at /\ todo'.at + Len(todo'.data) <= base + SECT
              /\ \/ n = Len(w.data) /\ w' = Nothing
                 \/ /\ n < Len(w.data)
                    /\ w'.at = IF w.at + n = Size THEN 0 ELSE w.at + n
                    /\ Len(w'.data) = Len(w.data) - n
              /\ n = Len(w.data) /\ (\A a \in Addr : w.at <= a /\ a < w.at + n => flash[a] = FF)
                   => flash' = flash /\ todo' = w
<1>1. SECT \in Nat /\ SECT >= 1 /\ Size \in Nat /\ Size >= SECT + SECT
  BY Geometry
<1>2. PICK t, d : t = w.at /\ d = w.data
  OBVIOUS
<1>3. /\ t \in Addr /\ d \in Seq(Units) /\ Len(d) \in 1 .. SECT /\ t \in Nat /\ t < Size
      /\ w # Nothing /\ todo = Nothing /\ flash \in [Addr -> Units] /\ goal' = goal
      /\ w = [at |-> t, data |-> d]
  <2>1. w \in Works(SECT) /\ w # Nothing /\ todo = Nothing /\ goal' = goal
        /\ flash \in [Addr -> Units]
    BY DEF FlashTypes, WriteSector
  <2>2. /\ w.at \in Addr /\ w.data \in Seq(Units) /\ Len(w.data) \in 0 .. SECT
        /\ w = [at |-> w.at, data |-> w.data] /\ Len(w.data) >= 1
    BY <1>1, <2>1, WorkType
  <2>3. t \in Nat /\ t < Size
    BY <1>1, <1>2, <2>2 DEF Addr
  <2>4. Len(d) \in 1 .. SECT
    BY <1>1, <1>2, <2>2
  <2> QED
    BY <1>2, <2>1, <2>2, <2>3, <2>4
<1>4. PICK base \in Nat : base = (t \div SECT) * SECT
  BY <1>3, SectorOf
<1>5. /\ base <= t /\ t < base + SECT /\ (t % SECT) = t - base
      /\ base + SECT <= Size
  BY <1>3, <1>4, SectorOf, SectorFits, SpiFlashAssumption
<1>6. PICK n : n = Share
  OBVIOUS
<1>7. n \in 1 .. Len(d) /\ t + n <= base + SECT /\ t + n <= Size
      /\ (n # Len(d) => n < Len(d))
  <2>1. PICK x : x = SECT - (t % SECT)
    OBVIOUS
  <2>2. x = SECT - (t - base)
    BY <1>5, <2>1
  <2>3. x \in Nat /\ x >= 1 /\ t + x <= base + SECT
    BY <1>1, <1>3, <1>5, <2>2
  <2>4. n = IF Len(d) <= x THEN Len(d) ELSE x
    BY <1>2, <1>6, <2>1, Zenon DEF Share
  <2> QED
    BY <1>1, <1>3, <1>5, <2>3, <2>4
<1>8. PICK part : part = SubSeq(d, 1, n)
  OBVIOUS
<1>9. part \in Seq(Units) /\ Len(part) = n /\ \A k \in 1 .. n : part[k] = d[k]
  BY <1>3, <1>7, <1>8
<1>10. PICK new : new = Over(flash, t, part)
  OBVIOUS
<1>11. new \in [Addr -> Units]
  BY <1>3, <1>9, <1>10, OverType
<1>12. \A a \in Addr : ~(t <= a /\ a < t + n) => new[a] = flash[a]
  <2> TAKE a \in Addr
  <2>0. t + Len(part) <= Size /\ t \in Addr /\ part \in Seq(Units)
    BY <1>3, <1>7, <1>9
  <2>1. ~(t <= a /\ a < t + Len(part)) => Over(flash, t, part)[a] = flash[a]
    BY <2>0, OverRange
  <2> QED
    BY <2>1, <1>9, <1>10
<1> DEFINE blank == \A a \in t .. t + n - 1 : flash[a] = FF
              image == [k \in 1 .. SECT |-> new[base + k - 1]]
<1>14. IF blank THEN todo' = [at |-> t, data |-> part] /\ flash' = flash
       ELSE /\ todo' = [at |-> base, data |-> image]
            /\ flash' = [a \in Addr |-> IF a \in base .. base + SECT - 1 THEN FF ELSE flash[a]]
  BY <1>2, <1>4, <1>6, <1>8, <1>10, Zenon
     DEF WriteSector, W25QXX_Erase_Sector, Sector
<1>15. w' = IF n = Len(d) THEN Nothing
            ELSE [at |-> (t + n) % Size, data |-> SubSeq(d, n + 1, Len(d))]
  BY <1>2, <1>6, Zenon DEF WriteSector
<1> HIDE DEF blank, image
<1>16. image \in Seq(Units) /\ Len(image) = SECT
       /\ \A k \in 1 .. SECT : image[k] = new[base + k - 1]
  <2>1. \A k \in 1 .. SECT : new[base + k - 1] \in Units
    <3> TAKE k \in 1 .. SECT
    <3>1. base + k - 1 \in Addr
      BY <1>1, <1>5 DEF Addr
    <3> QED
      BY <1>11, <3>1
  <2>2. image \in [1 .. SECT -> Units]
    BY <2>1, Zenon DEF image
  <2>3. \A k \in 1 .. SECT : image[k] = new[base + k - 1]
    BY Zenon DEF image
  <2>4. ASSUME NEW g \in [1 .. SECT -> Units] PROVE g \in Seq(Units) /\ Len(g) = SECT
    BY <1>1
  <2> QED
    BY <2>2, <2>3, <2>4
<1>17. flash' \in [Addr -> Units]
       /\ \A a \in Addr : /\ flash'[a] \in {flash[a], FF}
                          /\ flash'[a] # flash[a] => base <= a /\ a < base + SECT
  <2>1. CASE blank
    BY <1>3, <1>14, <2>1
  <2>2. CASE ~blank
    <3>1. FF \in Units
      BY DEF Units
    <3>2. flash' = [a \in Addr |-> IF a \in base .. base + SECT - 1 THEN FF ELSE flash[a]]
      BY <1>14, <2>2
    <3>3. \A a \in Addr : a \in base .. base + SECT - 1 => base <= a /\ a < base + SECT
      BY <1>1
    <3> QED
      BY <1>3, <3>1, <3>2, <3>3
  <2> QED
    BY <2>1, <2>2
<1>18. /\ todo' \in Works(SECT) /\ todo' # Nothing
       /\ base <= todo'.at /\ todo'.at + Len(todo'.data) <= base + SECT
       /\ todo'.at + Len(todo'.data) <= Size
  <2>1. CASE blank
    <3>0. Len(part) >= 1 /\ Len(part) <= SECT
      BY <1>1, <1>3, <1>7, <1>9
    <3>1. todo' = [at |-> t, data |-> part] /\ Len(part) >= 1 /\ Len(part) <= SECT
      BY <1>14, <2>1, <3>0
    <3>2. todo' \in Works(SECT) /\ todo' # Nothing
      BY <1>1, <1>3, <1>9, <3>1, IsWork
    <3>3. todo'.at = t /\ Len(todo'.data) = n
      BY <1>9, <3>1
    <3> QED
      BY <1>5, <1>7, <3>2, <3>3
  <2>2. CASE ~blank
    <3>1. todo' = [at |-> base, data |-> image] /\ base \in Addr
      BY <1>1, <1>5, <1>14, <2>2 DEF Addr
    <3>2. todo' \in Works(SECT) /\ todo' # Nothing
      <4>1. SECT \in Nat /\ image \in Seq(Units) /\ Len(image) >= 1 /\ Len(image) <= SECT
        BY <1>1, <1>16
      <4>2. \A x \in Addr : [at |-> x, data |-> image] \in Works(SECT)
                            /\ [at |-> x, data |-> image] # Nothing
        BY <4>1, IsWork
      <4> QED
        BY <3>1, <4>2, Zenon
    <3>3. todo'.at = base /\ Len(todo'.data) = SECT
      BY <1>16, <3>1
    <3> QED
      BY <1>1, <1>5, <3>2, <3>3
  <2> QED
    BY <2>1, <2>2
<1>19. Middle' = new
  <2>1. CASE blank
    <3>1. todo'.at = t /\ todo'.data = part /\ flash' = flash
      BY <1>14, <2>1
    <3> QED
      BY <1>10, <3>1 DEF Middle
  <2>2. CASE ~blank
    <3>1. todo'.at = base /\ todo'.data = image /\ base \in Addr
      BY <1>1, <1>5, <1>14, <2>2 DEF Addr
    <3>2. Middle' = Over(flash', base, image)
      BY <3>1 DEF Middle
    <3>3. Over(flash', base, image) \in [Addr -> Units]
      BY <1>16, <1>17, <3>1, OverType
    <3>4. \A a \in Addr : Over(flash', base, image)[a] = new[a]
      <4> TAKE a \in Addr
      <4>1. a \in Nat
        BY <1>1 DEF Addr
      <4>2. /\ base <= a /\ a < base + SECT => Over(flash', base, image)[a] = image[a - base + 1]
            /\ ~(base <= a /\ a < base + SECT) => Over(flash', base, image)[a] = flash'[a]
        <5>1. base + Len(image) <= Size /\ Len(image) = SECT
          BY <1>5, <1>16
        <5>2. /\ base <= a /\ a < base + Len(image) => Over(flash', base, image)[a] = image[a - base + 1]
              /\ ~(base <= a /\ a < base + Len(image)) => Over(flash', base, image)[a] = flash'[a]
          BY <1>16, <3>1, <5>1, OverRange
        <5> QED
          BY <5>1, <5>2, Zenon
      <4>3. CASE base <= a /\ a < base + SECT
        <5>1. a - base + 1 \in 1 .. SECT /\ base + (a - base + 1) - 1 = a
          BY <1>1, <4>1, <4>3
        <5>2. image[a - base + 1] = new[a]
          BY <1>16, <5>1
        <5> QED
          BY <4>2, <4>3, <5>2
      <4>4. CASE ~(base <= a /\ a < base + SECT)
        <5>1. ~(t <= a /\ a < t + n)
          BY <1>1, <1>3, <1>5, <1>7, <4>1, <4>4
        <5>2. new[a] = flash[a]
          BY <1>12, <5>1
        <5>3. flash'[a] = flash[a]
          BY <1>17, <4>4
        <5> QED
          BY <4>2, <4>4, <5>2, <5>3
      <4> QED
        BY <4>3, <4>4
    <3> QED
      BY <1>11, <3>2, <3>3, <3>4, OverSame
  <2> QED
    BY <2>1, <2>2
<1>20. Target = Over(flash, t, d)
  <2>1. Middle = flash
    BY <1>3, OverNothing DEF Middle
  <2> QED
    BY <1>2, <2>1 DEF Target
<1>21. CASE n = Len(d)
  <2>1. w' = Nothing /\ part = d
    BY <1>3, <1>8, <1>15, <1>21
  <2>2. Target' = Middle'
    BY <1>11, <1>19, <2>1, OverNothing DEF Target
  <2>3. Target' = Target
    BY <1>10, <1>19, <1>20, <2>1, <2>2
  <2>4. FlashTypes'
    BY <1>1, <1>3, <1>17, <1>18, <2>1, NoWork DEF FlashTypes
  <2>5. (\A a \in Addr : t <= a /\ a < t + n => flash[a] = FF) => blank
    <3>1. \A a \in t .. t + n - 1 : a \in Addr /\ t <= a /\ a < t + n
      BY <1>1, <1>3, <1>7 DEF Addr
    <3> QED
      BY <3>1 DEF blank
  <2>6. (\A a \in Addr : t <= a /\ a < t + n => flash[a] = FF) => flash' = flash /\ todo' = w
    BY <1>3, <1>14, <2>1, <2>5
  <2> QED
    BY <1>2, <1>3, <1>4, <1>5, <1>7, <1>17, <1>18, <1>21, <2>1, <2>3, <2>4, <2>6 DEF Busy, Idle
<1>22. CASE n # Len(d)
  <2>1. n < Len(d) /\ n \in Nat
    BY <1>7, <1>22
  <2>2. PICK r, x : r = SubSeq(d, n + 1, Len(d)) /\ x = (t + n) % Size
    OBVIOUS
  <2>3. r \in Seq(Units) /\ Len(r) = Len(d) - n
    BY <1>3, <2>1, <2>2
  <2>4. x \in Addr /\ x = IF t + n = Size THEN 0 ELSE t + n
    BY <1>3, <1>7, <2>1, <2>2, NextStart
  <2>5. w' = [at |-> x, data |-> r]
    BY <1>15, <1>22, <2>2
  <2>6. w'.at = x /\ w'.data = r
    BY <2>5
  <2>7. w' \in Works(SECT)
    BY <1>1, <1>3, <2>1, <2>3, <2>4, <2>5, IsWork
  <2>8. Target' = Over(new, x, r)
    BY <1>19, <2>6 DEF Target
  <2>9. Over(Over(flash, t, SubSeq(d, 1, n)), (t + n) % Size, SubSeq(d, n + 1, Len(d)))
          = Over(flash, t, d)
    BY <1>1, <1>3, <1>7, Split
  <2>10. Target' = Target
    BY <1>8, <1>10, <1>20, <2>2, <2>8, <2>9
  <2>11. FlashTypes'
    BY <1>3, <1>17, <1>18, <2>7 DEF FlashTypes
  <2> QED
    BY <1>2, <1>3, <1>4, <1>5, <1>7, <1>17, <1>18, <1>22, <2>1, <2>3, <2>4, <2>6, <2>10, <2>11
       DEF Busy, Idle
<1> QED
  BY <1>21, <1>22

(* A write between two sector boundaries stays between them.               *)
LEMMA WriteStays ==
  ASSUME FlashTypes, WriteSector \/ WritePage,
         NEW lo \in Nat, NEW hi \in Nat, (lo % SECT) = 0, (hi % SECT) = 0,
         hi <= Size, Within(lo, hi)
  PROVE  /\ Within(lo, hi)'
         /\ \A a \in Addr : flash'[a] # flash[a] => lo <= a /\ a < hi
<1>1. SECT \in Nat /\ SECT >= 1 /\ Size \in Nat
  BY Geometry
<1>2. w \in Works(SECT) /\ todo \in Works(SECT)
  BY DEF FlashTypes
<1>3. w.at \in Nat /\ Len(w.data) \in Nat /\ (w # Nothing => Len(w.data) >= 1)
  BY <1>1, <1>2, WorkType DEF Addr
<1>4. todo.at \in Nat /\ Len(todo.data) \in Nat /\ (todo # Nothing => Len(todo.data) >= 1)
  BY <1>1, <1>2, WorkType DEF Addr
<1>5. CASE WriteSector
  <2>1. w # Nothing /\ todo = Nothing
    BY <1>5, SectorStep
  <2>2. PICK base \in Nat, n \in 1 .. Len(w.data) :
              /\ base = (w.at \div SECT) * SECT
              /\ base <= w.at /\ w.at + n <= base + SECT /\ base + SECT <= Size
              /\ \A a \in Addr : /\ flash'[a] \in {flash[a], FF}
                                 /\ flash'[a] # flash[a] => base <= a /\ a < base + SECT
              /\ base <= todo'.at /\ todo'.at + Len(todo'.data) <= base + SECT
              /\ \/ n = Len(w.data) /\ w' = Nothing
                 \/ /\ n < Len(w.data)
                    /\ w'.at = IF w.at + n = Size THEN 0 ELSE w.at + n
                    /\ Len(w'.data) = Len(w.data) - n
    BY <1>5, SectorStep
  <2>3. lo <= w.at /\ w.at + Len(w.data) <= hi /\ w.at < hi
    BY <1>3, <2>1 DEF Within
  <2>4. base + SECT <= hi /\ base >= lo
    BY <1>3, <2>2, <2>3, SectorFits
  <2>5. FlashTypes'
    BY <1>5, SectorStep
  <2>6. todo'.at \in Nat /\ Len(todo'.data) \in Nat
    BY <1>1, <2>5, WorkType DEF FlashTypes, Addr
  <2>7. lo <= todo'.at /\ todo'.at + Len(todo'.data) <= hi
    BY <1>1, <2>2, <2>4, <2>6
  <2>8. w' # Nothing => lo <= w'.at /\ w'.at + Len(w'.data) <= hi
    <3>1. CASE n = Len(w.data) /\ w' = Nothing
      BY <3>1
    <3>2. CASE n < Len(w.data)
      <4>1. w.at + n # Size
        BY <1>1, <1>3, <2>3, <3>2
      <4>2. w'.at = w.at + n /\ Len(w'.data) = Len(w.data) - n
        BY <2>2, <3>2, <4>1
      <4> QED
        BY <1>3, <2>3, <3>2, <4>2
    <3> QED
      BY <2>2, <3>1, <3>2
  <2>9. ASSUME NEW a \in Addr, flash'[a] # flash[a] PROVE lo <= a /\ a < hi
    <3>1. base <= a /\ a < base + SECT /\ a \in Nat
      BY <1>1, <2>2, <2>9 DEF Addr
    <3> QED
      BY <1>1, <2>4, <3>1
  <2> QED
    BY <2>7, <2>8, <2>9 DEF Within
<1>6. CASE WritePage
  <2>1. /\ w' = w /\ todo # Nothing
        /\ \A a \in Addr : a # todo.at => flash'[a] = flash[a]
        /\ \/ todo' = Nothing
           \/ /\ todo'.at = todo.at + 1
              /\ todo'.at + Len(todo'.data) = todo.at + Len(todo.data)
    BY <1>6, PageStep DEF WritePage
  <2>2. lo <= todo.at /\ todo.at + Len(todo.data) <= hi
    BY <2>1 DEF Within
  <2>3. todo' # Nothing => lo <= todo'.at /\ todo'.at + Len(todo'.data) <= hi
    BY <1>4, <2>1, <2>2
  <2>4. ASSUME NEW a \in Addr, flash'[a] # flash[a] PROVE lo <= a /\ a < hi
    <3>1. a = todo.at
      BY <2>1, <2>4
    <3> QED
      BY <1>4, <2>1, <2>2, <3>1
  <2> QED
    BY <2>1, <2>3, <2>4 DEF Within
<1> QED
  BY <1>5, <1>6

(* A call of W25QXX_Write: nothing has changed yet.                        *)
LEMMA WriteStarts ==
  ASSUME FlashTypes, Idle, NEW at \in Addr, NEW data \in Seq(Units),
         Len(data) >= 1, Len(data) <= SECT, StartWrite(at, data)
  PROVE  /\ FlashTypes' /\ flash' = flash
         /\ w' = [at |-> at, data |-> data] /\ todo' = Nothing /\ w' # Nothing
         /\ Target = flash
         /\ Target' = Over(flash, at, data) /\ goal' = Target' /\ Busy'
<1>1. SECT \in Nat /\ SECT >= 1 /\ Size \in Nat /\ Size >= 1
  BY Geometry
<1>2. w = Nothing /\ todo = Nothing /\ flash \in [Addr -> Units]
  BY DEF FlashTypes, Idle
<1>3. (at % Size) = at
  BY <1>1, ModSmall DEF Addr
<1>4. /\ w' = [at |-> at, data |-> data] /\ todo' = Nothing /\ flash' = flash
      /\ goal' = Over(flash, at, data)
  BY <1>2, <1>3 DEF StartWrite
<1>5. w' \in Works(SECT) /\ w' # Nothing
  BY <1>1, <1>4, IsWork
<1>6. Middle = flash
  BY <1>2, OverNothing DEF Middle
<1>7. Target = flash
  BY <1>2, <1>6, OverNothing DEF Target
<1>8. Middle' = flash
  BY <1>2, <1>4, OverNothing DEF Middle
<1>9. w'.at = at /\ w'.data = data
  BY <1>4
<1>10. Target' = Over(flash, at, data)
  BY <1>8, <1>9 DEF Target
<1>11. goal' \in [Addr -> Units]
  BY <1>2, <1>4, OverType
<1>12. FlashTypes'
  BY <1>2, <1>4, <1>5, <1>11 DEF FlashTypes
<1> QED
  BY <1>4, <1>5, <1>7, <1>10, <1>12 DEF Busy, Idle

(* Between writes the chip is what the last one made of it.                *)
LEMMA IdleTarget ==
  ASSUME FlashTypes, Idle
  PROVE  Target = flash /\ Middle = flash
<1>1. w = Nothing /\ todo = Nothing /\ flash \in [Addr -> Units]
  BY DEF FlashTypes, Idle
<1>2. Middle = flash
  BY <1>1, OverNothing DEF Middle
<1> QED
  BY <1>1, <1>2, OverNothing DEF Target

-----------------------------------------------------------------------------
(* Types.                                                                  *)

LEMMA UnitsHave ==
  /\ FF \in Units /\ Garbage \in Units
  /\ \A v \in Nat, f \in Font, k \in Nat : Glyphs(v, f, k) \in Units
  /\ \A n \in Nat : Foreign(n) \in Units
  /\ \A h \in FontInfo : Header(h) \in Units
BY DEF Units

LEMMA NoInfoType == NoInfo \in FontInfo /\ NoInfo.ok = FALSE
<1>1. Size - 1 \in Addr /\ Size - 1 \in Nat
  BY Geometry DEF Addr
<1> QED
  BY <1>1 DEF NoInfo, FontInfo

LEMMA InfoType ==
  ASSUME NEW u \in Units
  PROVE  Info(u) \in FontInfo
<1>1. CASE u # FF /\ u.kind = "info"
  <2>1. u # Garbage
    BY <1>1 DEF Garbage
  <2>2. \A v \in Nat, f \in Font, k \in Nat : u # Glyphs(v, f, k)
    BY <1>1 DEF Glyphs
  <2>3. \A n \in Nat : u # Foreign(n)
    BY <1>1 DEF Foreign
  <2>4. PICK h \in FontInfo : u = Header(h)
    BY <1>1, <2>1, <2>2, <2>3 DEF Units
  <2>5. u.info = h
    BY <2>4 DEF Header
  <2> QED
    BY <1>1, <2>5 DEF Info
<1>2. CASE ~(u # FF /\ u.kind = "info")
  <2>1. Info(u) = NoInfo
    BY <1>2, Zenon DEF Info
  <2> QED
    BY <2>1, NoInfoType
<1> QED
  BY <1>1, <1>2

LEMMA InfoHeader ==
  ASSUME NEW h \in FontInfo, Header(h) # FF
  PROVE  Info(Header(h)) = h
BY DEF Header, Info

LEMMA InfoBlank == Info(FF) = NoInfo
BY DEF Info

LEMMA SetOk ==
  ASSUME NEW h \in FontInfo, NEW b \in BOOLEAN
  PROVE  /\ [h EXCEPT !.ok = b] \in FontInfo
         /\ [h EXCEPT !.ok = b].ok = b
         /\ [h EXCEPT !.ok = b].addr = h.addr /\ [h EXCEPT !.ok = b].size = h.size
BY DEF FontInfo

Placed(h, f, a, n) == [h EXCEPT !.addr[f] = a, !.size[f] = n]

LEMMA SetFont ==
  ASSUME NEW h \in FontInfo, NEW f \in Font, NEW a \in Addr, NEW n \in Nat, NEW h2,
         h2 = Placed(h, f, a, n)
  PROVE  /\ h2 \in FontInfo
         /\ h2.addr[f] = a /\ h2.size[f] = n
         /\ \A g \in Font : g # f => h2.addr[g] = h.addr[g] /\ h2.size[g] = h.size[g]
<1>1. PICK o, x, y : o \in BOOLEAN /\ x \in [Font -> Addr] /\ y \in [Font -> Nat]
                     /\ h = [ok |-> o, addr |-> x, size |-> y]
  BY DEF FontInfo
<1>2. h2 = [ok |-> o, addr |-> [x EXCEPT ![f] = a], size |-> [y EXCEPT ![f] = n]]
  BY <1>1 DEF Placed
<1>3. PICK x2, y2 : x2 = [x EXCEPT ![f] = a] /\ y2 = [y EXCEPT ![f] = n]
  OBVIOUS
<1>4. /\ x2 \in [Font -> Addr] /\ y2 \in [Font -> Nat] /\ x2[f] = a /\ y2[f] = n
      /\ \A g \in Font : g # f => x2[g] = x[g] /\ y2[g] = y[g]
  BY <1>1, <1>3
<1>5. h2 = [ok |-> o, addr |-> x2, size |-> y2]
  BY <1>2, <1>3
<1>6. h2.addr = x2 /\ h2.size = y2 /\ h.addr = x /\ h.size = y
  BY <1>1, <1>5
<1>7. h2 \in FontInfo
  BY <1>1, <1>4, <1>5 DEF FontInfo
<1> QED
  BY <1>4, <1>6, <1>7, Zenon

LEMMA BehindType ==
  ASSUME ftinfo \in FontInfo, NEW f \in Font
  PROVE  Behind(f) \in Addr
<1>1. Size \in Nat /\ Size >= 1 /\ NF \in Nat
  BY Geometry, FontsAssumption
<1>2. CASE f = 1
  <2>1. Base + 1 \in Addr
    BY Geometry DEF Addr
  <2> QED
    BY <1>2, <2>1 DEF Behind
<1>3. CASE f # 1
  <2>1. f - 1 \in Font
    BY <1>1, <1>3 DEF Font
  <2>2. PICK x : x = ftinfo.addr[f - 1] + ftinfo.size[f - 1]
    OBVIOUS
  <2>3. x \in Nat
    BY <2>1, <2>2 DEF FontInfo, Addr
  <2>4. (x % Size) \in Addr
    BY <1>1, <2>3 DEF Addr
  <2> QED
    BY <1>3, <2>2, <2>4 DEF Behind
<1> QED
  BY <1>2, <1>3

LEMMA EraseSets ==
  ASSUME flash \in [Addr -> Units], NEW s \in Nat, W25QXX_Erase_Sector(s)
  PROVE  /\ flash' \in [Addr -> Units]
         /\ \A a \in Addr : flash'[a] = IF s * SECT <= a /\ a < s * SECT + SECT
                                          THEN FF ELSE flash[a]
<1>1. s * SECT \in Nat /\ SECT \in Nat
  BY Geometry
<1>2. \A a \in Addr : a \in Sector(s) <=> (s * SECT <= a /\ a < s * SECT + SECT)
  BY <1>1 DEF Sector, Addr
<1>3. flash' = [a \in Addr |-> IF a \in Sector(s) THEN FF ELSE flash[a]]
  BY DEF W25QXX_Erase_Sector
<1> QED
  BY <1>2, <1>3, UnitsHave

LEMMA ChunkType ==
  ASSUME NEW g \in [1 .. SECT -> Units]
  PROVE  g \in Seq(Units) /\ Len(g) = SECT
BY Geometry

LEMMA Numbers ==
  /\ NF \in Nat /\ NF >= 1 /\ FSEC \in Nat /\ FSEC >= 1
  /\ SECT \in Nat /\ SECT >= 1 /\ Size \in Nat /\ Size >= 1
  /\ FileSize \in [Font -> Nat] /\ 1 \in Font /\ 0 \in Addr /\ Base \in Addr
  /\ \A f \in Font : f \in Nat /\ f >= 1 /\ f <= NF
BY Geometry, FontsAssumption DEF Font, Addr

LEMMA SameFlash ==
  ASSUME FlashTypes, UNCHANGED flashvars
  PROVE  FlashTypes' /\ Target' = Target /\ (Idle' <=> Idle)
         /\ flash' = flash /\ w' = w /\ todo' = todo /\ goal' = goal
<1>1. flash' = flash /\ w' = w /\ todo' = todo /\ goal' = goal
  BY DEF flashvars
<1> QED
  BY <1>1 DEF FlashTypes, Target, Middle, Idle

LEMMA TypeInit == Init => TypeOK
<1> SUFFICES ASSUME Init PROVE TypeOK
  OBVIOUS
<1>1. flash \in [Addr -> Units] /\ goal \in [Addr -> Units]
  BY UnitsHave DEF Init
<1>2. w = Nothing /\ todo = Nothing
  BY DEF Init
<1>3. FlashTypes
  BY <1>1, <1>2, NoWork, Numbers DEF FlashTypes
<1>4. tempbuf \in [1 .. SECT -> Units]
  BY UnitsHave DEF Init
<1>5. UpdateTypes
  <2>1. ftinfo \in FontInfo
    BY NoInfoType DEF Init
  <2> QED
    <3>1. /\ version = 1 /\ pc = "init" /\ i = 0 /\ flashaddr = 0 /\ offx = 0 /\ bread = 0
          /\ skipped = FALSE /\ crashes = 0 /\ disks = 0
      BY DEF Init
    <3> QED
      <4>1. version \in Nat \ {0} /\ crashes \in Nat /\ disks \in Nat /\ skipped \in BOOLEAN
        <5>1. skipped \in BOOLEAN
          BY <3>1, Zenon
        <5>2. version \in Nat \ {0} /\ crashes \in Nat /\ disks \in Nat
          BY <3>1
        <5> QED
          BY <5>1, <5>2
      <4>2. pc \in Pcs /\ i \in Nat /\ flashaddr \in Addr /\ offx \in Nat /\ bread \in Nat
        BY <3>1, Numbers DEF Pcs
      <4> QED
        BY <1>4, <2>1, <4>1, <4>2 DEF UpdateTypes
<1>6. Places
  BY <1>2 DEF Init, Places
<1> QED
  BY <1>3, <1>5, <1>6 DEF TypeOK

LEMMA TypeFontInit ==
  ASSUME TypeOK, FontInit
  PROVE  TypeOK'
<1>1. FlashTypes'
  BY SameFlash DEF TypeOK, FontInit
<1>2. ftinfo' \in FontInfo
  BY InfoType, Numbers DEF TypeOK, FlashTypes, FontInit
<1>3. UpdateTypes'
  BY <1>2 DEF TypeOK, UpdateTypes, FontInit, Pcs, rest
<1>4. Places'
  BY DEF FontInit, Places
<1> QED
  BY <1>1, <1>3, <1>4 DEF TypeOK

LEMMA TypeUpdateFont ==
  ASSUME TypeOK, UpdateFont
  PROVE  TypeOK'
<1>1. FlashTypes' /\ (Idle' <=> Idle)
  BY SameFlash DEF TypeOK, UpdateFont
<1>2. ftinfo' \in FontInfo
  BY SetOk DEF TypeOK, UpdateTypes, UpdateFont
<1>3. UpdateTypes'
  BY <1>2 DEF TypeOK, UpdateTypes, UpdateFont, Pcs, rest
<1>4. Places'
  BY <1>1, Numbers DEF UpdateFont, Places
<1> QED
  BY <1>1, <1>3, <1>4 DEF TypeOK

LEMMA EraseIs ==
  ASSUME TypeOK, EraseSector
  PROVE  /\ Base \div SECT + i \in Nat
         /\ (Base \div SECT + i) * SECT = Base + i * SECT /\ i * SECT \in Nat
         /\ flash' \in [Addr -> Units]
         /\ \A a \in Addr : flash'[a] = IF Base + i * SECT <= a /\ a < Base + i * SECT + SECT
                                          THEN FF ELSE flash[a]
<1>1. i \in Nat /\ SECT \in Nat /\ SECT >= 1 /\ Base \in Nat /\ (Base % SECT) = 0
  BY Geometry, FontsAssumption DEF TypeOK, UpdateTypes
<1>2. PICK q \in Nat : Base = q * SECT
  BY <1>1
<1>3. Base \div SECT = q
  BY <1>1, <1>2
<1>4. (q + i) * SECT = q * SECT + i * SECT /\ i * SECT \in Nat /\ q + i \in Nat
  BY <1>1
<1>5. W25QXX_Erase_Sector(q + i) /\ flash \in [Addr -> Units]
  BY <1>3 DEF EraseSector, TypeOK, FlashTypes
<1>6. PICK n \in Nat : n = q + i
  BY <1>4
<1>7. /\ flash' \in [Addr -> Units]
      /\ \A a \in Addr : flash'[a] = IF n * SECT <= a /\ a < n * SECT + SECT
                                       THEN FF ELSE flash[a]
  BY <1>5, <1>6, EraseSets
<1>8. n * SECT = Base + i * SECT
  BY <1>2, <1>4, <1>6
<1> QED
  BY <1>2, <1>3, <1>4, <1>6, <1>7, <1>8

LEMMA TypeEraseSector ==
  ASSUME TypeOK, EraseSector
  PROVE  TypeOK'
<1>1. flash' \in [Addr -> Units]
  BY EraseIs
<1>2. FlashTypes' /\ Idle'
  BY <1>1 DEF TypeOK, FlashTypes, EraseSector, Idle
<1>3. i \in Nat /\ i < FSEC
  BY DEF TypeOK, UpdateTypes, Places, EraseSector
<1>4. UpdateTypes' /\ Places'
  <2>1. CASE i + 1 < FSEC
    BY <1>2, <1>3, <2>1 DEF TypeOK, UpdateTypes, Places, EraseSector, Pcs, rest, ram
  <2>2. CASE ~(i + 1 < FSEC)
    BY <1>2, <2>2, Numbers DEF TypeOK, UpdateTypes, Places, EraseSector, Pcs, rest, ram
  <2> QED
    BY <2>1, <2>2
<1> QED
  BY <1>2, <1>4 DEF TypeOK

LEMMA TypeOpenFont ==
  ASSUME TypeOK, OpenFont
  PROVE  TypeOK'
<1>1. FlashTypes' /\ (Idle' <=> Idle)
  BY SameFlash DEF TypeOK, OpenFont
<1>2. i \in Font /\ ftinfo \in FontInfo /\ FileSize[i] \in Nat
  BY Numbers DEF TypeOK, UpdateTypes, Places, OpenFont
<1>3. Behind(i) \in Addr
  BY <1>2, BehindType
<1>4. ftinfo' \in FontInfo
  <2>1. ftinfo' = Placed(ftinfo, i, Behind(i), FileSize[i])
    BY DEF OpenFont, Placed
  <2> QED
    BY <1>2, <1>3, <2>1, SetFont
<1>5. tempbuf' \in [1 .. SECT -> Units]
  BY UnitsHave DEF OpenFont
<1>6. UpdateTypes'
  BY <1>3, <1>4, <1>5 DEF TypeOK, UpdateTypes, OpenFont, Pcs, rest
<1>7. Places'
  BY <1>1, <1>2 DEF OpenFont, Places
<1> QED
  BY <1>1, <1>6, <1>7 DEF TypeOK

LEMMA TypeGiveUp ==
  ASSUME TypeOK, OpenFails \/ ReadFails
  PROVE  TypeOK'
<1>1. FlashTypes'
  BY SameFlash DEF TypeOK, OpenFails, ReadFails
<1>2. UpdateTypes'
  BY DEF TypeOK, UpdateTypes, OpenFails, ReadFails, Pcs, rest, ram
<1>3. Places'
  BY DEF OpenFails, ReadFails, Places
<1> QED
  BY <1>1, <1>2, <1>3 DEF TypeOK

LEMMA NextFontIs ==
  ASSUME i \in Font, NextFont
  PROVE  \/ i < NF /\ i' = i + 1 /\ i' \in Font /\ pc' = "open"
         \/ i = NF /\ i' = NF + 1 /\ i' \in Nat /\ pc' = "save"
BY Numbers DEF NextFont, Font

LEMMA TypeBufferMissing ==
  ASSUME TypeOK, BufferMissing
  PROVE  TypeOK'
<1>1. FlashTypes' /\ Idle'
  BY SameFlash DEF TypeOK, BufferMissing
<1>2. i \in Font
  BY DEF TypeOK, Places, BufferMissing
<1>3. \/ i' \in Font /\ pc' = "open"
      \/ i' \in Nat /\ pc' = "save"
  BY <1>2, NextFontIs DEF BufferMissing
<1>4. UpdateTypes'
  BY <1>3, Numbers DEF TypeOK, UpdateTypes, BufferMissing, Pcs, ram
<1>5. Places'
  BY <1>1, <1>3 DEF Places
<1> QED
  BY <1>1, <1>4, <1>5 DEF TypeOK

(* What ReadFont reads.                                                    *)
LEMMA ReadIs ==
  ASSUME TypeOK, ReadFont
  PROVE  /\ i \in Font /\ offx <= FileSize[i]
         /\ bread' \in Nat /\ bread' <= SECT /\ offx + bread' <= FileSize[i]
         /\ (bread' # SECT => offx + bread' = FileSize[i])
         /\ tempbuf' \in [1 .. SECT -> Units]
         /\ \A k \in 1 .. bread' : tempbuf'[k] = Glyphs(version, i, offx + k - 1)
         /\ StartWrite(offx + flashaddr, tempbuf')
<1>1. i \in Font /\ offx <= FileSize[i] /\ offx \in Nat /\ version \in Nat
      /\ tempbuf \in [1 .. SECT -> Units] /\ FileSize[i] \in Nat
  BY Numbers DEF TypeOK, UpdateTypes, Places, ReadFont
<1>2. PICK n : n = IF FileSize[i] - offx < SECT THEN FileSize[i] - offx ELSE SECT
  OBVIOUS
<1>3. /\ bread' = n
      /\ tempbuf' = [k \in 1 .. SECT |-> IF k <= n THEN Glyphs(version, i, offx + k - 1)
                                                   ELSE tempbuf[k]]
      /\ StartWrite(offx + flashaddr, tempbuf')
  BY <1>2, Zenon DEF ReadFont
<1>4. n \in Nat /\ n <= SECT /\ offx + n <= FileSize[i]
      /\ (n # SECT => offx + n = FileSize[i])
  BY <1>1, <1>2, Numbers
<1>5. ASSUME NEW k \in 1 .. SECT PROVE Glyphs(version, i, offx + k - 1) \in Units
  <2>1. offx + k - 1 \in Nat
    BY <1>1
  <2> QED
    BY <1>1, <2>1, UnitsHave
<1>6. tempbuf' \in [1 .. SECT -> Units]
  BY <1>1, <1>3, <1>5
<1>7. ASSUME NEW k \in 1 .. n PROVE tempbuf'[k] = Glyphs(version, i, offx + k - 1)
  <2>1. k \in 1 .. SECT /\ k <= n
    BY <1>4, Numbers
  <2> QED
    BY <1>3, <2>1
<1> QED
  BY <1>1, <1>3, <1>4, <1>6, <1>7

(* A write may be asked for beyond the chip; the address is cut.           *)
LEMMA StartWriteCut ==
  ASSUME FlashTypes, Idle, NEW n \in Nat, NEW data \in Seq(Units),
         Len(data) >= 1, Len(data) <= SECT, StartWrite(n, data)
  PROVE  /\ (n % Size) \in Addr /\ StartWrite(n % Size, data)
<1>1. (n % Size) \in Addr
  BY Numbers DEF Addr
<1>2. ((n % Size) % Size) = (n % Size)
  BY <1>1, Numbers, ModSmall DEF Addr
<1>3. Over(flash, n % Size, data) = Over(flash, n, data)
  <2>1. \A a \in Addr : ((a - (n % Size)) % Size) = ((a - n) % Size)
    <3> TAKE a \in Addr
    <3>1. PICK q \in Nat, r \in 0 .. Size - 1 : n = q * Size + r
      <4>1. n = (n \div Size) * Size + (n % Size) /\ n \div Size \in Nat
            /\ (n % Size) \in 0 .. Size - 1
        BY Numbers
      <4> QED
        BY <4>1
    <3>2. (n % Size) = r
      <4>1. n \in Int /\ q \in Int
        BY <3>1
      <4> QED
        BY <3>1, <4>1, Numbers, Remainder
    <3>3. PICK p \in Int, u \in 0 .. Size - 1 : a - r = p * Size + u
      <4>1. PICK x \in Int : x = a - r
        BY <3>1, Numbers DEF Addr
      <4>2. x = (x \div Size) * Size + (x % Size) /\ x \div Size \in Int
            /\ (x % Size) \in 0 .. Size - 1
        BY <4>1, Numbers, DivMod
      <4> QED
        BY <4>1, <4>2
    <3>4. ((a - r) % Size) = u
      <4>1. a - r \in Int
        BY <3>1, Numbers DEF Addr
      <4> QED
        BY <3>3, <4>1, Numbers, Remainder
    <3>5. ((a - n) % Size) = u
      <4>1. a - n \in Int /\ p - q \in Int
        BY <3>1, <3>3, Numbers DEF Addr
      <4>2. (p - q) * Size = p * Size - q * Size /\ p * Size \in Int /\ q * Size \in Int
        BY <3>1, <3>3, Numbers
      <4>3. a - n = (p - q) * Size + u
        BY <3>1, <3>3, <4>1, <4>2, Numbers DEF Addr
      <4> QED
        BY <3>3, <4>1, <4>3, Numbers, Remainder
    <3> QED
      BY <3>2, <3>4, <3>5
  <2> QED
    BY <2>1, Zenon DEF Over
<1> QED
  BY <1>1, <1>2, <1>3 DEF StartWrite

LEMMA TypeReadFont ==
  ASSUME TypeOK, ReadFont
  PROVE  TypeOK'
<1>1. FlashTypes /\ Idle
  BY DEF TypeOK, ReadFont
<1>2. tempbuf' \in Seq(Units) /\ Len(tempbuf') = SECT
  BY ReadIs, ChunkType
<1>3. offx + flashaddr \in Nat
  BY DEF TypeOK, UpdateTypes, Addr
<1>4. /\ ((offx + flashaddr) % Size) \in Addr
      /\ StartWrite((offx + flashaddr) % Size, tempbuf')
  BY <1>1, <1>2, <1>3, ReadIs, StartWriteCut, Numbers
<1>5. FlashTypes'
  BY <1>1, <1>2, <1>4, WriteStarts, Numbers
<1>6. UpdateTypes'
  <2>1. bread' \in Nat /\ tempbuf' \in [1 .. SECT -> Units]
    BY ReadIs
  <2> QED
    BY <2>1 DEF TypeOK, UpdateTypes, ReadFont, Pcs, rest
<1>7. Places'
  <2>1. i' = i /\ offx' = offx /\ pc' = "written"
    BY DEF ReadFont
  <2>2. i \in Font /\ offx <= FileSize[i] /\ offx + bread' <= FileSize[i]
    BY ReadIs
  <2> QED
    BY <2>1, <2>2 DEF Places
<1> QED
  BY <1>5, <1>6, <1>7 DEF TypeOK

LEMMA TypeFontWritten ==
  ASSUME TypeOK, FontWritten
  PROVE  TypeOK'
<1>1. FlashTypes' /\ Idle'
  BY SameFlash DEF TypeOK, FontWritten
<1>2. i \in Font /\ offx' \in Nat /\ offx' <= FileSize[i]
  BY DEF TypeOK, UpdateTypes, Places, FontWritten
<1>3. \/ i' = i /\ pc' = "read"
      \/ i' \in Font /\ i' \in Nat /\ pc' = "open"
      \/ i' \in Nat /\ pc' = "save"
  BY <1>2, NextFontIs, Numbers DEF FontWritten
<1>4. UpdateTypes'
  BY <1>2, <1>3, Numbers DEF TypeOK, UpdateTypes, FontWritten, Pcs, rest
<1>5. Places'
  BY <1>1, <1>2, <1>3 DEF Places
<1> QED
  BY <1>1, <1>4, <1>5 DEF TypeOK

LEMMA HeaderChunk ==
  ASSUME NEW h \in FontInfo
  PROVE  /\ <<Header(h)>> \in Seq(Units) /\ Len(<<Header(h)>>) = 1
         /\ <<Header(h)>>[1] = Header(h)
BY UnitsHave

LEMMA TypeSaveInfo ==
  ASSUME TypeOK, SaveInfo
  PROVE  TypeOK' /\ ftinfo' \in FontInfo
<1>1. FlashTypes /\ Idle /\ StartWrite(Base, <<Header(ftinfo')>>)
  BY DEF TypeOK, SaveInfo
<1>2. ftinfo' \in FontInfo
  BY SetOk DEF TypeOK, UpdateTypes, SaveInfo
<1>3. FlashTypes'
  BY <1>1, <1>2, HeaderChunk, WriteStarts, Numbers
<1>4. UpdateTypes'
  BY <1>2 DEF TypeOK, UpdateTypes, SaveInfo, Pcs, rest
<1>5. Places'
  BY DEF SaveInfo, Places
<1> QED
  BY <1>2, <1>3, <1>4, <1>5 DEF TypeOK

(* What DiskWrite starts.                                                  *)
LEMMA DiskIs ==
  ASSUME TypeOK, DiskWrite
  PROVE  \E a \in Addr, d \in Seq(Units) :
           a \in Nat /\ a < Base /\ Len(d) = 1 /\ StartWrite(a, d)
<1>1. PICK a \in 0 .. Base - 1 : StartWrite(a, <<Foreign(disks + 1)>>)
  BY DEF DiskWrite
<1>2. disks + 1 \in Nat
  BY DEF TypeOK, UpdateTypes
<1>3. PICK u \in Units : u = Foreign(disks + 1)
  BY <1>2, UnitsHave
<1>4. <<u>> \in Seq(Units) /\ Len(<<u>>) = 1
  OBVIOUS
<1>5. a \in Addr /\ a \in Nat /\ a < Base
  BY Geometry DEF Addr
<1> QED
  BY <1>1, <1>3, <1>4, <1>5

LEMMA TypeDiskWrite ==
  ASSUME TypeOK, DiskWrite
  PROVE  TypeOK'
<1>1. PICK a \in Addr, d \in Seq(Units) : Len(d) = 1 /\ StartWrite(a, d)
  BY DiskIs
<1>2. FlashTypes'
  BY <1>1, WriteStarts, Numbers DEF TypeOK, DiskWrite
<1>3. UpdateTypes'
  BY DEF TypeOK, UpdateTypes, DiskWrite, ram
<1>4. Places'
  BY DEF DiskWrite, Places
<1> QED
  BY <1>2, <1>3, <1>4 DEF TypeOK

LEMMA TypeNewFiles ==
  ASSUME TypeOK, NewFiles
  PROVE  TypeOK'
<1>1. FlashTypes' /\ (Idle' <=> Idle)
  BY SameFlash DEF TypeOK, NewFiles
<1>2. UpdateTypes'
  BY DEF TypeOK, UpdateTypes, NewFiles, ram
<1>3. Places'
  BY DEF NewFiles, Places
<1> QED
  BY <1>1, <1>2, <1>3 DEF TypeOK

LEMMA TypeCrash ==
  ASSUME TypeOK, Crash
  PROVE  TypeOK'
<1>1. FlashTypes'
  <2>1. w' = Nothing /\ todo' = Nothing /\ flash' = flash /\ goal' = goal
    BY DEF Crash
  <2>2. w' \in Works(SECT) /\ todo' \in Works(SECT) /\ todo'.at + Len(todo'.data) <= Size
    BY <2>1, NoWork, Numbers
  <2> QED
    BY <2>1, <2>2 DEF TypeOK, FlashTypes
<1>2. UpdateTypes'
  <2>1. tempbuf' \in [1 .. SECT -> Units]
    BY UnitsHave DEF Crash
  <2>2. ftinfo' \in FontInfo
    BY NoInfoType DEF Crash
  <2>3. flashaddr' \in Addr /\ offx' \in Nat /\ bread' \in Nat /\ i' \in Nat
    BY Numbers DEF Crash
  <2> QED
    BY <2>1, <2>2, <2>3 DEF TypeOK, UpdateTypes, Crash, Pcs
<1>3. Places'
  BY DEF Crash, Places
<1> QED
  BY <1>1, <1>2, <1>3 DEF TypeOK

LEMMA TypeWrite ==
  ASSUME TypeOK, W25QXX_Write
  PROVE  TypeOK'
<1>1. FlashTypes' /\ Busy
  BY SectorStep, PageStep DEF TypeOK, W25QXX_Write, Busy, Idle
<1>2. pc' = pc /\ i' = i /\ offx' = offx /\ bread' = bread
  BY DEF W25QXX_Write, ram
<1>3. UpdateTypes'
  BY DEF TypeOK, UpdateTypes, W25QXX_Write, ram, rest
<1>4. Places'
  BY <1>1, <1>2 DEF TypeOK, Places, Busy
<1> QED
  BY <1>1, <1>3, <1>4 DEF TypeOK

LEMMA TypeStep == TypeOK /\ [Next]_vars => TypeOK'
<1> SUFFICES ASSUME TypeOK, [Next]_vars PROVE TypeOK'
  OBVIOUS
<1>1. CASE FontInit
  BY <1>1, TypeFontInit
<1>2. CASE Update
  BY <1>2, TypeUpdateFont, TypeEraseSector, TypeOpenFont, TypeGiveUp, TypeBufferMissing,
     TypeReadFont, TypeFontWritten, TypeSaveInfo DEF Update
<1>3. CASE W25QXX_Write
  BY <1>3, TypeWrite
<1>4. CASE DiskWrite
  BY <1>4, TypeDiskWrite
<1>5. CASE NewFiles
  BY <1>5, TypeNewFiles
<1>6. CASE Crash
  BY <1>6, TypeCrash
<1>7. CASE UNCHANGED vars
  <2>1. FlashTypes' /\ (Idle' <=> Idle)
    BY <1>7, SameFlash DEF TypeOK, vars
  <2>2. UpdateTypes'
    BY <1>7 DEF TypeOK, UpdateTypes, vars, ram
  <2>3. Places'
    BY <1>7, <2>1 DEF TypeOK, Places, vars, ram
  <2> QED
    BY <2>1, <2>2, <2>3 DEF TypeOK
<1> QED
  BY <1>1, <1>2, <1>3, <1>4, <1>5, <1>6, <1>7 DEF Next

-----------------------------------------------------------------------------
(* What holds whatever the files are and whatever was left out.            *)

BasicInv == TypeOK /\ Exact /\ OnDisk /\ Ram

LEMMA IdleTargetNext ==
  ASSUME FlashTypes', Idle'
  PROVE  Target' = flash'
<1>1. w' = Nothing /\ todo' = Nothing /\ flash' \in [Addr -> Units]
  BY DEF FlashTypes, Idle
<1>2. Middle' = flash'
  BY <1>1, OverNothing DEF Middle
<1> QED
  BY <1>1, <1>2, OverNothing DEF Target

LEMMA IdleWithin ==
  ASSUME Idle', NEW lo \in Nat, NEW hi \in Nat
  PROVE  Within(lo, hi)'
BY DEF Within, Idle

LEMMA BaseFits == 0 \in Nat /\ (0 % SECT) = 0 /\ Base \in Nat /\ (Base % SECT) = 0 /\ Base <= Size
<1>1. (0 % SECT) = 0
  BY Numbers
<1> QED
  BY <1>1, Geometry, FontsAssumption

(* A disk write in progress never reaches the area.                        *)
LEMMA DiskStays ==
  ASSUME TypeOK, OnDisk, W25QXX_Write, pc = "idle"
  PROVE  /\ Within(0, Base)'
         /\ \A a \in Addr : flash'[a] # flash[a] => a < Base
         /\ flash'[Base] = flash[Base]
<1>1. FlashTypes /\ Within(0, Base) /\ (WriteSector \/ WritePage)
  BY DEF TypeOK, OnDisk, W25QXX_Write
<1>2. Within(0, Base)' /\ \A a \in Addr : flash'[a] # flash[a] => 0 <= a /\ a < Base
  BY <1>1, BaseFits, WriteStays
<1>3. flash'[Base] = flash[Base]
  BY <1>2, Numbers, BaseFits
<1> QED
  BY <1>2, <1>3

LEMMA BasicInit == Init => BasicInv
<1> SUFFICES ASSUME Init PROVE BasicInv
  OBVIOUS
<1>1. Idle /\ pc = "init"
  BY DEF Init, Idle
<1> QED
  BY <1>1, TypeInit DEF BasicInv, Exact, Busy, OnDisk, Ram

LEMMA BasicSame ==
  ASSUME BasicInv, UNCHANGED flashvars
  PROVE  Exact'
BY SameFlash DEF BasicInv, TypeOK, Exact, Busy

LEMMA BasicIdle ==
  ASSUME Idle', pc' # "idle"
  PROVE  Exact' /\ OnDisk' /\ Ram'
BY DEF Exact, Busy, OnDisk, Ram

LEMMA BasicStep == BasicInv /\ [Next]_vars => BasicInv'
<1> SUFFICES ASSUME BasicInv, [Next]_vars PROVE BasicInv'
  OBVIOUS
<1>0. TypeOK' /\ TypeOK /\ FlashTypes /\ FlashTypes'
  BY TypeStep DEF BasicInv, TypeOK
<1> SUFFICES Exact' /\ OnDisk' /\ Ram'
  BY <1>0 DEF BasicInv
<1>1. CASE FontInit
  <2>1. Exact'
    BY <1>1, BasicSame DEF FontInit
  <2>2. OnDisk'
    BY <1>1, SameFlash, <1>0, IdleWithin, BaseFits DEF FontInit, OnDisk
  <2>3. Ram'
    <3>1. ftinfo' = Info(flash[Base]) /\ flash' = flash
      BY <1>1 DEF FontInit, flashvars
    <3> QED
      BY <3>1 DEF Ram, Installed
  <2> QED
    BY <2>1, <2>2, <2>3
<1>2. CASE UpdateFont \/ OpenFont \/ OpenFails \/ BufferMissing \/ ReadFails \/ FontWritten
  <2>1. UNCHANGED flashvars /\ Idle
    BY <1>2 DEF UpdateFont, OpenFont, OpenFails, BufferMissing, ReadFails, FontWritten
  <2>2. pc' # "idle"
    BY <1>2 DEF UpdateFont, OpenFont, OpenFails, BufferMissing, ReadFails, FontWritten, NextFont
  <2> QED
    BY <1>0, <2>1, <2>2, BasicIdle, SameFlash
<1>3. CASE EraseSector
  <2>1. Idle' /\ pc' # "idle"
    BY <1>3 DEF EraseSector, Idle
  <2> QED
    BY <2>1, BasicIdle
<1>4. CASE ReadFont
  <2>1. tempbuf' \in Seq(Units) /\ Len(tempbuf') = SECT /\ offx + flashaddr \in Nat
    BY <1>0, <1>4, ReadIs, ChunkType DEF TypeOK, UpdateTypes, Addr
  <2>2. Idle
    BY <1>4 DEF ReadFont
  <2>3. /\ ((offx + flashaddr) % Size) \in Addr
        /\ StartWrite((offx + flashaddr) % Size, tempbuf')
    BY <1>0, <1>4, <2>1, <2>2, ReadIs, StartWriteCut, Numbers
  <2>4. goal' = Target'
    BY <1>0, <2>1, <2>2, <2>3, WriteStarts, Numbers
  <2> QED
    BY <1>4, <2>4 DEF ReadFont, Exact, OnDisk, Ram
<1>5. CASE SaveInfo
  <2>1. ftinfo' \in FontInfo /\ StartWrite(Base, <<Header(ftinfo')>>) /\ Idle
    BY <1>0, <1>5, TypeSaveInfo DEF SaveInfo
  <2>2. goal' = Target'
    BY <1>0, <2>1, HeaderChunk, WriteStarts, Numbers
  <2> QED
    BY <1>5, <2>2 DEF SaveInfo, Exact, OnDisk, Ram
<1>6. CASE W25QXX_Write
  <2>1. Target' = Target /\ goal' = goal /\ Busy
    BY <1>0, <1>6, SectorStep, PageStep DEF W25QXX_Write, Busy, Idle
  <2>2. Exact'
    BY <2>1 DEF BasicInv, Exact
  <2>3. pc' = pc /\ ftinfo' = ftinfo
    BY <1>6 DEF W25QXX_Write, ram
  <2>4. CASE pc = "idle"
    <3>1. Within(0, Base)' /\ flash'[Base] = flash[Base]
      BY <1>6, <2>4, DiskStays DEF BasicInv
    <3> QED
      BY <2>2, <2>3, <2>4, <3>1 DEF BasicInv, OnDisk, Ram, Installed
  <2>5. CASE pc # "idle"
    BY <2>2, <2>3, <2>5 DEF OnDisk, Ram
  <2> QED
    BY <2>4, <2>5
<1>7. CASE DiskWrite
  <2>1. PICK a \in Addr, d \in Seq(Units) :
          a \in Nat /\ a < Base /\ Len(d) = 1 /\ StartWrite(a, d)
    BY <1>0, <1>7, DiskIs
  <2>2. /\ flash' = flash /\ w' = [at |-> a, data |-> d] /\ todo' = Nothing
        /\ goal' = Target'
    BY <1>0, <1>7, <2>1, WriteStarts, Numbers DEF DiskWrite
  <2>3. w'.at = a /\ Len(w'.data) = 1
    BY <2>1, <2>2
  <2>4. Within(0, Base)'
    <3>1. 0 <= a /\ a + 1 <= Base
      BY <2>1, BaseFits
    <3>2. 0 <= w'.at /\ w'.at + Len(w'.data) <= Base
      BY <2>3, <3>1
    <3> QED
      BY <2>2, <3>2, Zenon DEF Within
  <2>5. pc' = pc /\ pc = "idle" /\ ftinfo' = ftinfo
    BY <1>7 DEF DiskWrite, ram
  <2> QED
    BY <2>2, <2>4, <2>5 DEF BasicInv, Exact, OnDisk, Ram, Installed
<1>8. CASE NewFiles \/ UNCHANGED vars
  <2>1. UNCHANGED flashvars /\ pc' = pc /\ ftinfo' = ftinfo
    BY <1>8 DEF NewFiles, vars, ram
  <2>2. Exact'
    BY <2>1, BasicSame
  <2>3. flash' = flash /\ w' = w /\ todo' = todo
    BY <2>1 DEF flashvars
  <2> QED
    BY <2>1, <2>2, <2>3 DEF BasicInv, OnDisk, Within, Ram, Installed
<1>9. CASE Crash
  <2>1. Idle' /\ pc' # "idle"
    BY <1>9 DEF Crash, Idle
  <2> QED
    BY <2>1, BasicIdle
<1> QED
  BY <1>1, <1>2, <1>3, <1>4, <1>5, <1>6, <1>7, <1>8, <1>9 DEF Next, Update

LEMMA BasicAlways == Spec => []BasicInv
<1> QED
  BY BasicInit, BasicStep, PTL DEF Spec

(***************************************************************************)
(* What the text functions find in RAM is what the flash says unless an    *)
(* update is under way, for every chip and every set of files: font_init   *)
(* reads the header again on each way out of update_font.                  *)
(***************************************************************************)
THEOREM RamIsFlash == Spec => []InfoIsInstalled
<1>1. BasicInv => InfoIsInstalled
  BY DEF BasicInv, Ram, InfoIsInstalled
<1> QED
  BY <1>1, BasicAlways, PTL

(***************************************************************************)
(* W25QXX_Write writes its data and nothing else, for every length and     *)
(* place of the range, aligned or not, blank or not, also where a chunk    *)
(* runs over the end of the chip: Target, what the chip will be when the   *)
(* write is complete, is the same before and after each of its steps.      *)
(***************************************************************************)
THEOREM WritesExactly == Spec => WriteIsExact
<1>1. ASSUME BasicInv, BasicInv', [Next]_vars, Busy, Idle', crashes' = crashes
      PROVE  flash' = goal
  <2>1. FlashTypes /\ FlashTypes' /\ ~Idle /\ Target = goal
    BY <1>1 DEF BasicInv, TypeOK, Exact, Busy
  <2>2. W25QXX_Write
    <3>1. ~(FontInit \/ Update \/ DiskWrite \/ NewFiles)
      BY <2>1 DEF FontInit, Update, UpdateFont, EraseSector, OpenFont, OpenFails, BufferMissing,
         ReadFont, ReadFails, FontWritten, SaveInfo, DiskWrite, NewFiles
    <3>2. ~Crash
      BY <1>1 DEF Crash, BasicInv, TypeOK, UpdateTypes
    <3>3. ~(UNCHANGED vars)
      BY <1>1, <2>1 DEF vars, flashvars, Idle
    <3> QED
      BY <1>1, <3>1, <3>2, <3>3 DEF Next
  <2>3. Target' = Target
    BY <2>1, <2>2, SectorStep, PageStep DEF W25QXX_Write
  <2> QED
    BY <1>1, <2>1, <2>3, IdleTargetNext
<1>2. BasicInv /\ BasicInv' /\ [Next]_vars
        => [Busy /\ Idle' /\ crashes' = crashes => flash' = goal]_vars
  BY <1>1
<1> QED
  BY <1>2, BasicAlways, PTL DEF Spec, WriteIsExact

-----------------------------------------------------------------------------
(* Where the fonts are.                                                    *)

LEMMA LeastNumber ==
  ASSUME NEW T, T \subseteq Nat, T # {}
  PROVE  \E x \in T : \A y \in T : ~(y < x)
<1>1. IsWellFoundedOn(OpToRel(<, Nat), Nat)
  BY NatLessThanWellFounded
<1>2. PICK x \in T : \A y \in T : ~(<<y, x>> \in OpToRel(<, Nat))
  BY <1>1, WFMin
<1> QED
  BY <1>2 DEF OpToRel

(* A font ends before the next one begins.                                 *)
LEMMA LayoutOrder ==
  ASSUME NEW at \in Layouts, NEW f \in Font, NEW g \in Font, f < g
  PROVE  at[f] + FileSize[f] <= at[g]
<1>1. /\ at \in [Font -> Addr] /\ FileSize \in [Font -> Nat]
      /\ \A n \in 2 .. NF : at[n] = at[n - 1] + FileSize[n - 1]
  BY Numbers DEF Layouts, Follows
<1> DEFINE T == {n \in Font : f < n /\ ~(at[f] + FileSize[f] <= at[n])}
<1> SUFFICES ASSUME T # {} PROVE FALSE
  OBVIOUS
<1>2. T \subseteq Nat
  BY Numbers
<1>3. PICK n \in T : \A m \in T : ~(m < n)
  BY <1>2, LeastNumber
<1>4. n \in Font /\ n \in Nat /\ f < n /\ n <= NF /\ ~(at[f] + FileSize[f] <= at[n])
  BY <1>3, Numbers
<1>5. n - 1 \in Font /\ n \in 2 .. NF /\ n - 1 < n /\ f <= n - 1
  BY <1>4, Numbers DEF Font
<1>6. at[n] = at[n - 1] + FileSize[n - 1]
  BY <1>1, <1>5
<1>7. at[n - 1] \in Nat /\ FileSize[n - 1] \in Nat /\ at[f] \in Nat /\ FileSize[f] \in Nat
      /\ at[n] \in Nat
  BY <1>1, <1>4, <1>5 DEF Addr
<1>8. CASE f = n - 1
  BY <1>4, <1>6, <1>7, <1>8
<1>9. CASE f < n - 1
  <2>1. at[f] + FileSize[f] <= at[n - 1]
    BY <1>3, <1>5, <1>9
  <2> QED
    BY <1>4, <1>6, <1>7, <2>1
<1> QED
  BY <1>4, <1>5, <1>8, <1>9, Numbers

LEMMA LayoutIs ==
  ASSUME NEW at \in Layouts, NEW f \in Font
  PROVE  /\ at[f] \in Addr /\ at[f] \in Nat /\ FileSize[f] \in Nat
         /\ at[f] > Base /\ at[f] + FileSize[f] <= Base + FSEC * SECT
         /\ f = 1 => at[f] = Base + 1
         /\ f # 1 => f - 1 \in Font /\ at[f] = at[f - 1] + FileSize[f - 1]
<1>1. /\ at \in [Font -> Addr] /\ FileSize \in [Font -> Nat]
      /\ \A n \in Font : at[n] + FileSize[n] <= Base + FSEC * SECT
      /\ \A n \in 2 .. NF : at[n] = at[n - 1] + FileSize[n - 1]
      /\ at[1] = Base + 1
  BY Numbers DEF Layouts, Follows
<1>2. at[f] \in Addr /\ at[f] \in Nat /\ FileSize[f] \in Nat /\ at[1] \in Nat /\ FileSize[1] \in Nat
  BY <1>1, Numbers DEF Addr
<1>3. f # 1 => f - 1 \in Font /\ f \in 2 .. NF /\ 1 < f
  BY Numbers DEF Font
<1>4. at[f] > Base
  <2>1. CASE f = 1
    BY <1>1, <2>1, Geometry
  <2>2. CASE f # 1
    <3>1. at[1] + FileSize[1] <= at[f]
      BY <1>3, <2>2, LayoutOrder, Numbers
    <3> QED
      BY <1>1, <1>2, <3>1, Geometry
  <2> QED
    BY <2>1, <2>2
<1> QED
  BY <1>1, <1>2, <1>3, <1>4

(* Every unit of a font is an address of the area, behind the header.      *)
LEMMA UnitPlace ==
  ASSUME NEW at \in Layouts, NEW f \in Font, NEW k \in 0 .. FileSize[f] - 1
  PROVE  /\ k \in Nat /\ k < FileSize[f]
         /\ at[f] + k \in Addr /\ at[f] + k \in Nat /\ at[f] + k > Base
         /\ at[f] + k < Base + FSEC * SECT
         /\ \A g \in Font : f < g => at[f] + k < at[g]
<1>1. at[f] \in Nat /\ FileSize[f] \in Nat /\ at[f] > Base
      /\ at[f] + FileSize[f] <= Base + FSEC * SECT
  BY LayoutIs
<1>2. k \in Nat /\ k < FileSize[f]
  BY <1>1
<1>3. at[f] + k \in Nat /\ at[f] + k < Size /\ at[f] + k > Base /\ at[f] + k < Base + FSEC * SECT
  BY <1>1, <1>2, Geometry
<1>4. ASSUME NEW g \in Font, f < g PROVE at[f] + k < at[g]
  <2>1. at[f] + FileSize[f] <= at[g] /\ at[g] \in Nat
    BY <1>4, LayoutOrder, LayoutIs
  <2> QED
    BY <1>1, <1>2, <2>1
<1> QED
  BY <1>2, <1>3, <1>4, Numbers DEF Addr

(* The fonts of a chip that keeps its contents behind the header.          *)
LEMMA AllKept ==
  ASSUME NEW at \in Layouts, NEW h, NEW c, NEW d, NEW v,
         \A a \in Addr : a > Base => d[a] = c[a],
         AllIn(h, at, c, v)
  PROVE  AllIn(h, at, d, v)
<1> SUFFICES ASSUME NEW f \in Font, NEW k \in 0 .. FileSize[f] - 1
             PROVE  Located(h, at, f) /\ d[at[f] + k] = Glyphs(v, f, k)
  BY LayoutIs DEF AllIn, Copied
<1>1. Located(h, at, f) /\ c[at[f] + k] = Glyphs(v, f, k)
  BY DEF AllIn, Copied
<1>2. at[f] + k \in Addr /\ at[f] + k > Base
  BY UnitPlace
<1> QED
  BY <1>1, <1>2

-----------------------------------------------------------------------------
(* The fonts, unless one was left out: one step after the other.           *)

Good(at) == InArea /\ Unmarked /\ Progress(at) /\ Saving(at) /\ Whole(at)

LEMMA AreaFits ==
  /\ Base + (FSEC + 1) * SECT \in Nat /\ Base + (FSEC + 1) * SECT <= Size
  /\ ((Base + (FSEC + 1) * SECT) % SECT) = 0
  /\ Base + (FSEC + 1) * SECT = Base + FSEC * SECT + SECT
<1>1. Base + (FSEC + 1) * SECT = Base + FSEC * SECT + SECT
  BY Geometry
<1>2. PICK q \in Nat : Base = q * SECT
  <2>1. SECT \in Nat /\ SECT >= 1 /\ Base \in Nat /\ (Base % SECT) = 0
    BY Geometry, FontsAssumption
  <2> QED
    BY <2>1
<1>3. PICK n \in Nat : n = q + (FSEC + 1)
  BY Geometry
<1>4. n * SECT = q * SECT + (FSEC + 1) * SECT
  BY <1>3, Geometry
<1>5. ((n * SECT) % SECT) = 0
  <2>1. PICK x \in Nat : x = n * SECT
    BY Geometry
  <2>2. x = n * SECT + 0 /\ 0 \in 0 .. SECT - 1 /\ n \in Int /\ x \in Int
    BY <2>1, Geometry
  <2> QED
    BY <2>1, <2>2, Remainder, Geometry
<1>6. n * SECT = Base + (FSEC + 1) * SECT
  BY <1>2, <1>4
<1> QED
  BY <1>1, <1>5, <1>6, Geometry

LEMMA BlankHeader ==
  ASSUME NEW at, flash'[Base] = FF
  PROVE  Whole(at)'
<1>1. Installed' = NoInfo
  BY InfoBlank DEF Installed
<1> QED
  BY <1>1, NoInfoType DEF Whole

(* No write is under way, and none of the fonts' places is reached.        *)
LEMMA GoodIdle ==
  ASSUME NEW at, Idle', pc' \in {"init", "idle"}, Whole(at)'
  PROVE  Good(at)'
<1>1. InArea'
  BY AreaFits, BaseFits, IdleWithin DEF InArea
<1>2. Unmarked' /\ Progress(at)' /\ Saving(at)'
  BY DEF Unmarked, Writing, Busy, Progress, Saving
<1> QED
  BY <1>1, <1>2 DEF Good

LEMMA WholeSame ==
  ASSUME NEW at, Whole(at), flash' = flash, version \in Nat, version' \in Nat,
         version <= version'
  PROVE  Whole(at)'
<1>1. Installed' = Installed
  BY DEF Installed
<1>2. SUFFICES ASSUME Installed.ok PROVE \E v \in 1 .. version' : AllIn(Installed, at, flash, v)
  BY <1>1 DEF Whole
<1>3. PICK v \in 1 .. version : AllIn(Installed, at, flash, v)
  BY <1>2 DEF Whole
<1> QED
  BY <1>3

LEMMA FontsInit == ASSUME NEW at, Init PROVE Good(at)
<1>1. flash[Base] = FF
  BY Geometry, Numbers DEF Init
<1>2. Installed = NoInfo
  BY <1>1, InfoBlank DEF Installed
<1>3. Whole(at)
  BY <1>2, NoInfoType DEF Whole
<1>4. Idle /\ pc = "init" /\ i = 0
  BY DEF Init, Idle
<1>5. InArea
  BY <1>4 DEF InArea, Within, Idle
<1>6. Unmarked /\ Progress(at) /\ Saving(at)
  BY <1>4 DEF Unmarked, Writing, Busy, Progress, Saving
<1> QED
  BY <1>3, <1>5, <1>6 DEF Good

LEMMA GoodQuiet ==
  ASSUME NEW at, TypeOK, TypeOK', Good(at),
         FontInit \/ OpenFails \/ ReadFails \/ Crash
  PROVE  Good(at)'
<1>1. Idle' /\ flash' = flash /\ pc' \in {"init", "idle"}
  BY SameFlash DEF TypeOK, FontInit, OpenFails, ReadFails, Crash, Idle, flashvars
<1>2. version' = version /\ version \in Nat
  BY DEF TypeOK, UpdateTypes, FontInit, OpenFails, ReadFails, Crash, rest
<1>3. Whole(at)'
  BY <1>1, <1>2, WholeSame DEF Good
<1> QED
  BY <1>1, <1>3, GoodIdle

LEMMA GoodUpdateFont ==
  ASSUME NEW at, TypeOK, TypeOK', Good(at), UpdateFont
  PROVE  Good(at)'
<1>1. Idle' /\ flash' = flash /\ pc' \in {"erase", "init"} /\ i' = 0
  BY SameFlash DEF TypeOK, UpdateFont, flashvars
<1>2. version' = version /\ version \in Nat
  BY DEF TypeOK, UpdateTypes, UpdateFont, rest
<1>3. Whole(at)'
  BY <1>1, <1>2, WholeSame DEF Good
<1>4. InArea'
  BY <1>1, AreaFits, BaseFits, IdleWithin DEF InArea
<1>5. Unmarked' /\ Progress(at)' /\ Saving(at)'
  BY <1>1 DEF Unmarked, Writing, Busy, Progress, Saving
<1> QED
  BY <1>3, <1>4, <1>5 DEF Good

LEMMA GoodErase ==
  ASSUME NEW at, TypeOK, TypeOK', Good(at), EraseSector
  PROVE  Good(at)'
<1>1. Idle' /\ w' = Nothing
  BY DEF EraseSector, Idle
<1>2. i \in Nat /\ i * SECT \in Nat
  BY EraseIs DEF TypeOK, UpdateTypes
<1>3. flash'[Base] = IF Base + i * SECT <= Base /\ Base < Base + i * SECT + SECT
                       THEN FF ELSE flash[Base]
  BY EraseIs, Numbers
<1>4. flash'[Base] = FF
  <2>1. CASE i = 0
    <3>1. Base + i * SECT <= Base /\ Base < Base + i * SECT + SECT
      BY <2>1, Geometry
    <3> QED
      BY <1>3, <3>1
  <2>2. CASE i # 0
    <3>1. flash[Base] = FF
      BY <1>2, <2>2 DEF Good, Unmarked, EraseSector
    <3> QED
      BY <1>3, <3>1
  <2> QED
    BY <2>1, <2>2
<1>5. Target' = flash'
  BY <1>1, IdleTargetNext DEF TypeOK
<1>6. InArea'
  BY <1>1, AreaFits, BaseFits, IdleWithin DEF InArea
<1>7. Unmarked'
  BY <1>1, <1>4, <1>5 DEF Unmarked
<1>8. \/ pc' = "erase"
      \/ pc' = "open" /\ i' = 1
  BY DEF EraseSector
<1>9. Progress(at)'
  <2>1. \A f \in Font : ~(f < 1)
    BY Numbers
  <2> QED
    BY <1>8, <2>1 DEF Progress, Writing
<1>10. Saving(at)'
  BY <1>8 DEF Saving
<1>11. Whole(at)'
  BY <1>4, BlankHeader
<1> QED
  BY <1>6, <1>7, <1>9, <1>10, <1>11 DEF Good

LEMMA GoodOpen ==
  ASSUME NEW at \in Layouts, TypeOK, TypeOK', Good(at), OpenFont
  PROVE  Good(at)'
<1>1. /\ Idle' /\ Idle /\ flash' = flash /\ Target' = Target /\ w' = Nothing
      /\ pc = "open" /\ pc' = "read" /\ i' = i /\ version' = version /\ offx' = 0
      /\ flashaddr' = Behind(i)
      /\ ftinfo' = Placed(ftinfo, i, Behind(i), FileSize[i])
  BY SameFlash DEF TypeOK, OpenFont, Idle, Placed, rest
<1>2. i \in Font /\ ftinfo \in FontInfo /\ FileSize[i] \in Nat
  BY Numbers DEF TypeOK, UpdateTypes, Places, OpenFont
<1>3. Behind(i) \in Addr
  BY <1>2, BehindType
<1>4. Behind(i) = at[i]
  <2>1. CASE i = 1
    BY <2>1, <1>2, LayoutIs DEF Behind
  <2>2. CASE i # 1
    <3>1. i - 1 \in Font /\ at[i] = at[i - 1] + FileSize[i - 1] /\ at[i] \in Addr
      BY <1>2, <2>2, LayoutIs
    <3>2. i - 1 < i
      BY <1>2, Numbers
    <3>3. Located(ftinfo, at, i - 1)
      BY <1>1, <3>1, <3>2 DEF Good, Progress, Writing
    <3>4. Behind(i) = (at[i] % Size)
      BY <2>2, <3>1, <3>3 DEF Behind, Located
    <3> QED
      BY <3>1, <3>4, ModSmall, Numbers DEF Addr
  <2> QED
    BY <2>1, <2>2
<1>5. /\ ftinfo'.addr[i] = at[i] /\ ftinfo'.size[i] = FileSize[i]
      /\ \A g \in Font : g # i => ftinfo'.addr[g] = ftinfo.addr[g] /\ ftinfo'.size[g] = ftinfo.size[g]
  BY <1>1, <1>2, <1>3, <1>4, SetFont
<1>6. InArea'
  BY <1>1, AreaFits, BaseFits, IdleWithin DEF InArea
<1>7. Unmarked'
  BY <1>1 DEF Good, Unmarked, Writing
<1>8. Progress(at)'
  <2>1. ASSUME NEW f \in Font, f < i
        PROVE  Located(ftinfo', at, f) /\ Copied(Target', at, version', f, FileSize[f])
    <3>1. Located(ftinfo, at, f) /\ Copied(Target, at, version, f, FileSize[f])
      BY <1>1, <2>1 DEF Good, Progress, Writing
    <3>2. f # i
      BY <2>1, <1>2, Numbers
    <3>3. Located(ftinfo', at, f)
      BY <1>5, <3>1, <3>2 DEF Located
    <3> QED
      BY <1>1, <3>1, <3>3
  <2>2. Located(ftinfo', at, i)
    BY <1>5 DEF Located
  <2>3. Copied(Target', at, version', i, 0)
    BY DEF Copied
  <2> QED
    BY <1>1, <1>4, <2>1, <2>2, <2>3 DEF Progress
<1>9. Saving(at)'
  BY <1>1 DEF Saving
<1>10. Whole(at)'
  <2>1. flash'[Base] = FF
    BY <1>1 DEF Good, Unmarked, Writing
  <2> QED
    BY <2>1, BlankHeader
<1> QED
  BY <1>6, <1>7, <1>8, <1>9, <1>10 DEF Good

LEMMA GoodRead ==
  ASSUME NEW at \in Layouts, TypeOK, TypeOK', Good(at), ReadFont
  PROVE  Good(at)'
<1>1. /\ Idle /\ FlashTypes /\ pc = "read" /\ pc' = "written" /\ i' = i /\ offx' = offx
      /\ version' = version /\ ftinfo' = ftinfo /\ flashaddr' = flashaddr
      /\ offx \in Nat /\ version \in Nat
  BY DEF TypeOK, UpdateTypes, ReadFont, rest
<1>2. /\ i \in Font /\ offx <= FileSize[i]
      /\ bread' \in Nat /\ bread' <= SECT /\ offx + bread' <= FileSize[i]
      /\ (bread' # SECT => offx + bread' = FileSize[i])
      /\ tempbuf' \in Seq(Units) /\ Len(tempbuf') = SECT
      /\ \A k \in 1 .. bread' : tempbuf'[k] = Glyphs(version, i, offx + k - 1)
      /\ StartWrite(offx + flashaddr, tempbuf')
  BY ReadIs, ChunkType
<1>3. /\ at[i] \in Nat /\ FileSize[i] \in Nat /\ at[i] > Base
      /\ at[i] + FileSize[i] <= Base + FSEC * SECT
  BY <1>2, LayoutIs
<1>4. /\ Located(ftinfo, at, i) /\ flashaddr = at[i] /\ Copied(Target, at, version, i, offx)
      /\ \A f \in Font : f < i =>
           Located(ftinfo, at, f) /\ Copied(Target, at, version, f, FileSize[f])
  BY <1>1 DEF Good, Progress, Writing
<1>5. PICK o \in Nat, n \in Nat, p \in Nat, size \in Nat, x \in Nat :
        /\ o = offx /\ n = bread' /\ p = at[i] /\ size = FileSize[i] /\ x = p + o
        /\ o + n <= size /\ n <= SECT /\ p > Base /\ p + size <= Base + FSEC * SECT
        /\ x = offx + flashaddr
  <2>1. PICK o \in Nat : o = offx
    BY <1>1
  <2>2. PICK n \in Nat : n = bread'
    BY <1>2
  <2>3. PICK p \in Nat : p = at[i]
    BY <1>3
  <2>4. PICK size \in Nat : size = FileSize[i]
    BY <1>3
  <2>5. o + n <= size /\ n <= SECT
    BY <1>2, <2>1, <2>2, <2>4
  <2>6. p > Base /\ p + size <= Base + FSEC * SECT
    BY <1>3, <2>3, <2>4
  <2>7. p + o \in Nat
    OBVIOUS
  <2>8. p + o = offx + flashaddr
    <3>1. flashaddr = p
      BY <1>4, <2>3
    <3> QED
      BY <2>1, <3>1
  <2> QED
    BY <2>1, <2>2, <2>3, <2>4, <2>5, <2>6, <2>7, <2>8, Zenon
<1>6. /\ x > Base /\ x <= Base + FSEC * SECT /\ x + SECT <= Size /\ x < Size
  BY <1>5, Geometry
<1>7. x \in Addr
  BY <1>6, Numbers DEF Addr
<1>8. StartWrite(x, tempbuf')
  BY <1>2, <1>5
<1>9. /\ flash' = flash /\ w' = [at |-> x, data |-> tempbuf'] /\ todo' = Nothing /\ w' # Nothing
      /\ Target = flash /\ Target' = Over(flash, x, tempbuf') /\ flash \in [Addr -> Units]
  <2>1. PICK b \in Seq(Units) : b = tempbuf' /\ Len(b) = SECT
    BY <1>2
  <2>2. StartWrite(x, b) /\ Len(b) >= 1 /\ Len(b) <= SECT
    BY <1>8, <2>1, Numbers
  <2>3. /\ flash' = flash /\ w' = [at |-> x, data |-> b] /\ todo' = Nothing /\ w' # Nothing
        /\ Target = flash /\ Target' = Over(flash, x, b)
    BY <1>1, <1>7, <2>2, WriteStarts
  <2> QED
    BY <1>1, <2>1, <2>3 DEF FlashTypes
<1>10. \A a \in Addr : /\ x <= a /\ a < x + SECT => Target'[a] = tempbuf'[a - x + 1]
                       /\ ~(x <= a /\ a < x + SECT) => Target'[a] = flash[a]
  <2> TAKE a \in Addr
  <2>1. PICK b \in Seq(Units) : b = tempbuf' /\ Len(b) = SECT
    BY <1>2
  <2>2. x + Len(b) <= Size
    BY <1>6, <2>1
  <2>3. /\ x <= a /\ a < x + Len(b) => Over(flash, x, b)[a] = b[a - x + 1]
        /\ ~(x <= a /\ a < x + Len(b)) => Over(flash, x, b)[a] = flash[a]
    <3>1. OverDone(flash, x, b, a)
      BY <1>7, <2>2, OverUnits, Zenon
    <3> QED
      BY <3>1, Zenon DEF OverDone
  <2> QED
    BY <1>9, <2>1, <2>3, Zenon
<1>11. InArea'
  <2>1. w'.at = x /\ Len(w'.data) = SECT
    BY <1>2, <1>9
  <2>2. Base <= w'.at /\ w'.at + Len(w'.data) <= Base + (FSEC + 1) * SECT
    BY <1>6, <2>1, AreaFits, Geometry
  <2>3. Within(Base, Base + (FSEC + 1) * SECT)'
    BY <1>9, <2>2, Zenon DEF Within
  <2> QED
    BY <2>3 DEF InArea
<1>12. flash[Base] = FF
  BY <1>1 DEF Good, Unmarked, Writing
<1>13. Unmarked'
  <2>1. w'.at > Base
    BY <1>6, <1>9
  <2>2. Target'[Base] = flash[Base]
    <3>1. ~(x <= Base)
      BY <1>6, Geometry
    <3> QED
      BY <1>10, <3>1, Numbers
  <2> QED
    BY <1>1, <1>9, <1>12, <2>1, <2>2 DEF Unmarked
<1>14. ASSUME NEW f \in Font, NEW k \in 0 .. FileSize[f] - 1, f < i
       PROVE  Target'[at[f] + k] = flash[at[f] + k]
  <2>1. at[f] + k \in Addr /\ at[f] + k \in Nat /\ at[f] + k < at[i]
    BY <1>2, <1>14, UnitPlace
  <2>2. ~(x <= at[f] + k)
    BY <1>5, <2>1
  <2> QED
    BY <1>10, <2>1, <2>2
<1>15. ASSUME NEW f \in Font, f < i
       PROVE  Copied(Target', at, version', f, FileSize[f])
  <2> SUFFICES ASSUME NEW k \in 0 .. FileSize[f] - 1
               PROVE  Target'[at[f] + k] = Glyphs(version, f, k)
    BY <1>1 DEF Copied
  <2>1. Target[at[f] + k] = Glyphs(version, f, k)
    BY <1>4, <1>15 DEF Copied
  <2> QED
    BY <1>9, <1>14, <1>15, <2>1
<1>16. ASSUME NEW k \in 0 .. o + n - 1
       PROVE  Target'[at[i] + k] = Glyphs(version, i, k)
  <2>1. k \in 0 .. size - 1 /\ k \in Nat /\ k < o + n
    <3>1. o \in Nat /\ n \in Nat /\ size \in Nat /\ o + n <= size
      BY <1>5
    <3> QED
      BY <3>1
  <2>2. at[i] + k \in Addr
    BY <1>2, <1>5, <2>1, UnitPlace
  <2>3. CASE k < o
    <3>1. k \in 0 .. o - 1 /\ ~(x <= p + k)
      BY <1>5, <2>1, <2>3
    <3>2. Target[at[i] + k] = Glyphs(version, i, k)
      BY <1>4, <1>5, <3>1 DEF Copied
    <3> QED
      BY <1>5, <1>9, <1>10, <2>2, <3>1, <3>2
  <2>4. CASE k >= o
    <3>1. PICK m \in 1 .. n : m = k - o + 1
      <4>1. o \in Nat /\ n \in Nat /\ k \in Nat /\ k < o + n /\ k >= o
        BY <1>5, <2>1, <2>4
      <4>2. k - o + 1 \in 1 .. n
        BY <4>1
      <4> QED
        BY <4>2
    <3>2. (p + k) - x + 1 = m /\ x <= p + k /\ p + k < x + SECT /\ o + m - 1 = k
      BY <1>5, <2>1, <2>4, <3>1, Geometry
    <3>3. Target'[at[i] + k] = tempbuf'[m]
      BY <1>5, <1>10, <2>2, <3>2
    <3>4. tempbuf'[m] = Glyphs(version, i, offx + m - 1)
      BY <1>2, <1>5, <3>1
    <3> QED
      BY <1>5, <3>2, <3>3, <3>4
  <2> QED
    BY <1>5, <2>1, <2>3, <2>4
<1>17. Progress(at)'
  <2>1. Copied(Target', at, version, i, o + n)
    BY <1>16 DEF Copied
  <2>2. Copied(Target', at, version', i', offx' + bread')
    BY <1>1, <1>5, <2>1, Zenon
  <2> QED
    BY <1>1, <1>2, <1>4, <1>15, <2>2 DEF Progress, Writing
<1>18. Saving(at)'
  BY <1>1 DEF Saving
<1>19. Whole(at)'
  BY <1>9, <1>12, BlankHeader
<1> QED
  BY <1>11, <1>13, <1>17, <1>18, <1>19 DEF Good

LEMMA GoodWritten ==
  ASSUME NEW at \in Layouts, TypeOK, TypeOK', Good(at), FontWritten
  PROVE  Good(at)'
<1>1. /\ Idle' /\ Idle /\ flash' = flash /\ Target' = Target /\ w' = Nothing
      /\ pc = "written" /\ version' = version /\ offx' = offx + bread
      /\ ftinfo' = ftinfo /\ flashaddr' = flashaddr
  BY SameFlash DEF TypeOK, FontWritten, Idle, rest
<1>2. i \in Font /\ i \in Nat
  BY Numbers DEF TypeOK, Places, FontWritten
<1>3. /\ Located(ftinfo, at, i) /\ flashaddr = at[i]
      /\ bread # SECT => offx + bread = FileSize[i]
      /\ Copied(Target, at, version, i, offx + bread)
      /\ \A f \in Font : f < i =>
           Located(ftinfo, at, f) /\ Copied(Target, at, version, f, FileSize[f])
  BY <1>1 DEF Good, Progress, Writing
<1>4. InArea'
  BY <1>1, AreaFits, BaseFits, IdleWithin DEF InArea
<1>5. \/ bread = SECT /\ pc' = "read" /\ i' = i
      \/ bread # SECT /\ i' = i + 1 /\ pc' = "open"
      \/ bread # SECT /\ i' = i + 1 /\ pc' = "save" /\ i = NF
  BY <1>2, NextFontIs DEF FontWritten
<1>6. flash[Base] = FF /\ Target[Base] = FF
  BY <1>1 DEF Good, Unmarked, Writing
<1>7. Unmarked'
  BY <1>1, <1>5, <1>6 DEF Unmarked
<1>8. Progress(at)'
  <2>1. CASE bread = SECT /\ pc' = "read" /\ i' = i
    BY <1>1, <1>3, <2>1 DEF Progress, Writing
  <2>2. CASE bread # SECT /\ i' = i + 1
    <3>1. ASSUME NEW f \in Font, f < i'
          PROVE  Located(ftinfo', at, f) /\ Copied(Target', at, version', f, FileSize[f])
      <4>1. f < i \/ f = i
        BY <1>2, <2>2, <3>1, Numbers
      <4> QED
        BY <1>1, <1>3, <2>2, <4>1
    <3>2. pc' \in {"open", "save"} /\ (pc' = "save" => i' > NF)
      BY <1>2, <1>5, <2>2, Numbers
    <3> QED
      BY <3>1, <3>2 DEF Progress
  <2> QED
    BY <1>5, <2>1, <2>2
<1>9. Saving(at)'
  BY <1>1 DEF Saving, Busy
<1>10. Whole(at)'
  BY <1>1, <1>6, BlankHeader
<1> QED
  BY <1>4, <1>7, <1>8, <1>9, <1>10 DEF Good

LEMMA GoodSave ==
  ASSUME NEW at \in Layouts, TypeOK, TypeOK', Good(at), SaveInfo
  PROVE  Good(at)'
<1>1. /\ Idle /\ FlashTypes /\ pc = "save" /\ pc' = "init" /\ version' = version
      /\ StartWrite(Base, <<Header(ftinfo')>>) /\ ftinfo' \in FontInfo /\ ftinfo \in FontInfo
      /\ ftinfo'.addr = ftinfo.addr /\ ftinfo'.size = ftinfo.size
  BY TypeSaveInfo, SetOk DEF TypeOK, UpdateTypes, SaveInfo, rest
<1>2. /\ flash' = flash /\ w' = [at |-> Base, data |-> <<Header(ftinfo')>>] /\ todo' = Nothing
      /\ w' # Nothing /\ Target = flash
  BY <1>1, HeaderChunk, WriteStarts, Numbers
<1>3. flash[Base] = FF
  BY <1>1 DEF Good, Unmarked, Writing
<1>4. InArea'
  <2>1. w'.at = Base /\ Len(w'.data) = 1
    BY <1>2
  <2>2. Base <= w'.at /\ w'.at + Len(w'.data) <= Base + (FSEC + 1) * SECT
    BY <2>1, AreaFits, Geometry
  <2>3. Within(Base, Base + (FSEC + 1) * SECT)'
    BY <1>2, <2>2, Zenon DEF Within
  <2> QED
    BY <2>3 DEF InArea
<1>5. Unmarked' /\ Progress(at)'
  BY <1>1, <1>2, <1>3 DEF Unmarked, Progress, Writing
<1>6. Saving(at)'
  <2>1. ASSUME NEW f \in Font
        PROVE  Located(ftinfo', at, f) /\ Copied(flash', at, version', f, FileSize[f])
    <3>1. f < i
      BY <1>1, Numbers DEF Good, Progress, TypeOK, UpdateTypes
    <3>2. Located(ftinfo, at, f) /\ Copied(Target, at, version, f, FileSize[f])
      BY <1>1, <3>1 DEF Good, Progress, Writing
    <3> QED
      BY <1>1, <1>2, <3>2 DEF Located
  <2>2. w' = HeaderWork'
    BY <1>2 DEF HeaderWork
  <2> QED
    BY <1>2, <2>1, <2>2 DEF Saving, AllIn
<1>7. Whole(at)'
  BY <1>2, <1>3, BlankHeader
<1> QED
  BY <1>4, <1>5, <1>6, <1>7 DEF Good

(* A write of the disk leaves the fonts alone.                             *)
LEMMA GoodDiskWrite ==
  ASSUME NEW at \in Layouts, TypeOK, TypeOK', OnDisk, Good(at), W25QXX_Write, pc = "idle"
  PROVE  Good(at)'
<1>1. pc' = "idle" /\ version' = version
  BY DEF W25QXX_Write, rest
<1>2. /\ \A a \in Addr : flash'[a] # flash[a] => a < Base
      /\ flash'[Base] = flash[Base]
  BY DiskStays
<1>3. Installed' = Installed
  BY <1>2 DEF Installed
<1>4. \A a \in Addr : a > Base => flash'[a] = flash[a]
  BY <1>2, Numbers DEF Addr
<1>5. ASSUME NEW v, AllIn(Installed, at, flash, v)
      PROVE  AllIn(Installed', at, flash', v)
  BY <1>3, <1>4, <1>5, AllKept
<1>6. Whole(at)'
  BY <1>1, <1>3, <1>5 DEF Good, Whole
<1>7. InArea' /\ Unmarked' /\ Progress(at)' /\ Saving(at)'
  BY <1>1 DEF InArea, Unmarked, Writing, Progress, Saving
<1> QED
  BY <1>6, <1>7 DEF Good

(* A write of a font changes what it is to change, and not the header.     *)
LEMMA GoodFontWrite ==
  ASSUME NEW at \in Layouts, TypeOK, TypeOK', Good(at), W25QXX_Write, pc = "written"
  PROVE  Good(at)'
<1>1. /\ pc' = "written" /\ version' = version /\ i' = i /\ ftinfo' = ftinfo
      /\ flashaddr' = flashaddr /\ offx' = offx /\ bread' = bread /\ FlashTypes
      /\ (WriteSector \/ WritePage)
  BY DEF W25QXX_Write, rest, ram, TypeOK
<1>2. /\ flash[Base] = FF /\ Target[Base] = FF /\ (w # Nothing => w.at > Base)
      /\ Within(Base, Base + (FSEC + 1) * SECT)
  BY DEF Good, Unmarked, Writing, InArea
<1>3. Within(Base, Base + (FSEC + 1) * SECT)'
  BY <1>1, <1>2, AreaFits, BaseFits, WriteStays
<1>4. Target' = Target
  BY <1>1, SectorStep, PageStep
<1>5. w \in Works(SECT) /\ w.at \in Nat /\ Len(w.data) \in Nat /\ w.at \in Addr
      /\ w.data \in Seq(Units)
  BY <1>1, WorkType, Numbers DEF FlashTypes, Addr
<1>6. w # Nothing => w.at + Len(w.data) <= Size
  <2>1. SUFFICES ASSUME w # Nothing PROVE w.at + Len(w.data) <= Size
    OBVIOUS
  <2>2. PICK hi \in Nat : hi = Base + (FSEC + 1) * SECT /\ hi <= Size
    BY AreaFits
  <2>3. w.at + Len(w.data) <= hi
    BY <1>2, <2>1, <2>2 DEF Within
  <2> QED
    BY <1>5, <2>2, <2>3, Numbers
<1>7. flash'[Base] = FF /\ (w' # Nothing => w'.at > Base)
  <2>1. CASE WriteSector
    <3>1. w # Nothing
      BY <1>1, <2>1, SectorStep
    <3>2. PICK n \in 1 .. Len(w.data) :
            /\ \A a \in Addr : flash'[a] \in {flash[a], FF}
            /\ \/ n = Len(w.data) /\ w' = Nothing
               \/ /\ n < Len(w.data)
                  /\ w'.at = IF w.at + n = Size THEN 0 ELSE w.at + n
      BY <1>1, <2>1, SectorStep
    <3>3. flash'[Base] = FF
      BY <1>2, <3>2, Numbers
    <3>4. ASSUME n < Len(w.data) PROVE w'.at > Base
      <4>1. w.at + n # Size
        BY <1>5, <1>6, <3>1, <3>4, Numbers
      <4>2. w'.at = w.at + n
        BY <3>2, <3>4, <4>1
      <4>3. n \in Nat /\ n >= 1 /\ w.at > Base /\ w.at \in Nat /\ Base \in Nat
        BY <1>2, <1>5, <3>1, Geometry
      <4>4. w.at + n > Base
        BY <4>3
      <4> QED
        BY <4>2, <4>4
    <3> QED
      BY <3>2, <3>3, <3>4
  <2>2. CASE WritePage
    <3>1. /\ w' = w /\ flash'[todo.at] = Middle[todo.at]
          /\ \A a \in Addr : a # todo.at => flash'[a] = flash[a]
      BY <1>1, <2>2, PageStep
    <3>2. Middle \in [Addr -> Units]
      <4>1. flash \in [Addr -> Units] /\ todo.at \in Addr /\ todo.data \in Seq(Units)
        BY <1>1, WorkType, Numbers DEF FlashTypes
      <4> QED
        BY <4>1, OverType DEF Middle
    <3>3. Target[Base] = Middle[Base]
      <4>1. CASE w = Nothing
        BY <3>2, <4>1, OverNothing DEF Target
      <4>2. CASE w # Nothing
        <5>1. ~(w.at <= Base)
          BY <1>2, <1>5, <4>2, Geometry
        <5>2. \A g : ~(w.at <= Base /\ Base < w.at + Len(w.data))
                       => Over(g, w.at, w.data)[Base] = g[Base]
          BY <1>5, <1>6, <4>2, OverRange, Numbers
        <5> QED
          BY <5>1, <5>2, Zenon DEF Target
      <4> QED
        BY <4>1, <4>2
    <3> QED
      BY <1>2, <3>1, <3>3, Numbers
  <2> QED
    BY <1>1, <2>1, <2>2
<1>8. InArea' /\ Unmarked'
  BY <1>1, <1>2, <1>3, <1>4, <1>7 DEF InArea, Unmarked
<1>9. Progress(at)'
  BY <1>1, <1>4 DEF Good, Progress, Writing
<1>10. Saving(at)'
  BY <1>1 DEF Saving
<1>11. Whole(at)'
  BY <1>7, BlankHeader
<1> QED
  BY <1>8, <1>9, <1>10, <1>11 DEF Good

(* The header takes effect with its one unit, and the fonts are there.     *)
LEMMA GoodHeaderWrite ==
  ASSUME NEW at \in Layouts, TypeOK, TypeOK', Good(at), W25QXX_Write, pc = "init"
  PROVE  Good(at)'
<1>1. /\ pc' = "init" /\ version' = version /\ ftinfo' = ftinfo /\ FlashTypes
      /\ (WriteSector \/ WritePage) /\ ftinfo \in FontInfo /\ version \in Nat /\ version >= 1
  BY DEF W25QXX_Write, rest, ram, TypeOK, UpdateTypes
<1>2. Busy
  BY <1>1, SectorStep, PageStep DEF Busy, Idle
<1>3. /\ flash[Base] = FF /\ AllIn(ftinfo, at, flash, version)
      /\ \/ w = HeaderWork /\ todo = Nothing
         \/ w = Nothing /\ todo = HeaderWork
      /\ Within(Base, Base + (FSEC + 1) * SECT) /\ Whole(at)
  BY <1>2 DEF Good, Unmarked, Saving, InArea
<1>4. Within(Base, Base + (FSEC + 1) * SECT)'
  BY <1>1, <1>3, AreaFits, BaseFits, WriteStays
<1>5. HeaderWork.at = Base /\ HeaderWork.data = <<Header(ftinfo)>> /\ Len(HeaderWork.data) = 1
      /\ HeaderWork' = HeaderWork
  BY <1>1 DEF HeaderWork
<1>6. CASE WriteSector
  <2>1. w # Nothing /\ todo = Nothing /\ w = HeaderWork
    BY <1>1, <1>3, <1>6, SectorStep
  <2>2. PICK n \in 1 .. Len(w.data) :
          /\ \/ n = Len(w.data) /\ w' = Nothing
             \/ n < Len(w.data)
          /\ n = Len(w.data) /\ (\A a \in Addr : w.at <= a /\ a < w.at + n => flash[a] = FF)
               => flash' = flash /\ todo' = w
    BY <1>1, <1>6, SectorStep
  <2>3. n = 1 /\ Len(w.data) = 1 /\ w' = Nothing
    <3>1. Len(w.data) = 1
      BY <1>5, <2>1
    <3>2. n = 1
      BY <3>1
    <3> QED
      BY <2>2, <3>1, <3>2
  <2>4. \A a \in Addr : Base <= a /\ a < Base + 1 => a = Base
    BY Numbers, Geometry DEF Addr
  <2>5. flash' = flash /\ todo' = HeaderWork
    BY <1>3, <1>5, <2>1, <2>2, <2>3, <2>4
  <2>6. InArea' /\ Unmarked' /\ Progress(at)'
    BY <1>1, <1>3, <1>4, <2>5 DEF InArea, Unmarked, Progress, Writing
  <2>7. Saving(at)'
    BY <1>1, <1>3, <1>5, <2>3, <2>5 DEF Saving
  <2>8. Whole(at)'
    BY <1>1, <1>3, <2>5, WholeSame
  <2> QED
    BY <2>6, <2>7, <2>8 DEF Good
<1>7. CASE WritePage
  <2>1. todo = HeaderWork /\ w = Nothing
    BY <1>3, <1>7 DEF WritePage
  <2>2. /\ w' = Nothing /\ todo' = Nothing /\ flash'[Base] = Middle[Base]
        /\ \A a \in Addr : a # Base => flash'[a] = flash[a]
    BY <1>1, <1>5, <1>7, <2>1, PageStep
  <2>3. Middle[Base] = Header(ftinfo)
    <3>1. PICK d \in Seq(Units) : d = <<Header(ftinfo)>> /\ Len(d) = 1 /\ d[1] = Header(ftinfo)
      <4>1. PICK u \in Units : u = Header(ftinfo)
        BY <1>1, UnitsHave
      <4>2. <<u>> \in Seq(Units) /\ Len(<<u>>) = 1 /\ <<u>>[1] = u
        OBVIOUS
      <4> QED
        BY <4>1, <4>2
    <3>2. Base + Len(d) <= Size /\ Base <= Base /\ Base < Base + Len(d) /\ Base - Base + 1 = 1
      BY <3>1, Geometry
    <3>3. \A g : Over(g, Base, d)[Base] = d[1]
      <4>1. Base \in Addr
        BY Numbers
      <4>2. ASSUME NEW a \in Addr
            PROVE  \A g : /\ Base <= a /\ a < Base + Len(d)
                              => Over(g, Base, d)[a] = d[a - Base + 1]
                          /\ ~(Base <= a /\ a < Base + Len(d))
                              => Over(g, Base, d)[a] = g[a]
        BY <3>2, <4>1, OverRange
      <4> QED
        BY <3>2, <4>1, <4>2, Zenon
    <3> QED
      BY <1>5, <2>1, <3>1, <3>3, Zenon DEF Middle
  <2>4. Installed' = Info(Header(ftinfo))
    BY <2>2, <2>3 DEF Installed
  <2>5. \A a \in Addr : a > Base => flash'[a] = flash[a]
    BY <2>2, Numbers, Geometry
  <2>6. AllIn(ftinfo, at, flash', version)
    BY <1>3, <2>5, AllKept
  <2>7. Whole(at)'
    <3>1. CASE Header(ftinfo) = FF
      BY <2>2, <2>3, <3>1, BlankHeader
    <3>2. CASE Header(ftinfo) # FF
      <4>1. Installed' = ftinfo
        BY <1>1, <2>4, <3>2, InfoHeader
      <4>2. version \in 1 .. version
        BY <1>1
      <4> QED
        BY <1>1, <2>6, <4>1, <4>2 DEF Whole
    <3> QED
      BY <3>1, <3>2
  <2>8. Idle'
    BY <2>2 DEF Idle
  <2> QED
    BY <1>1, <2>7, <2>8, GoodIdle
<1> QED
  BY <1>1, <1>6, <1>7

LEMMA GoodWrite ==
  ASSUME NEW at \in Layouts, TypeOK, TypeOK', OnDisk, Good(at), W25QXX_Write
  PROVE  Good(at)'
<1>1. Busy
  BY SectorStep, PageStep DEF TypeOK, W25QXX_Write, Busy, Idle
<1>2. pc \in {"init", "idle", "written"}
  BY <1>1 DEF TypeOK, UpdateTypes, Pcs, Places, Busy
<1> QED
  BY <1>2, GoodDiskWrite, GoodFontWrite, GoodHeaderWrite

(* The disk is used, or other files are put on it.                         *)
LEMMA GoodUse ==
  ASSUME NEW at, TypeOK, TypeOK', Good(at), DiskWrite \/ NewFiles
  PROVE  Good(at)'
<1>1. pc' = "idle" /\ flash' = flash /\ version \in Nat /\ version' \in Nat
      /\ version <= version'
  BY DEF DiskWrite, NewFiles, StartWrite, flashvars, TypeOK, UpdateTypes
<1>2. Whole(at)'
  BY <1>1, WholeSame DEF Good
<1>3. InArea' /\ Unmarked' /\ Progress(at)' /\ Saving(at)'
  BY <1>1 DEF InArea, Unmarked, Writing, Progress, Saving
<1> QED
  BY <1>2, <1>3 DEF Good

LEMMA GoodSame ==
  ASSUME NEW at, Good(at), UNCHANGED vars
  PROVE  Good(at)'
<1>1. /\ flash' = flash /\ w' = w /\ todo' = todo /\ pc' = pc /\ i' = i /\ version' = version
      /\ ftinfo' = ftinfo /\ flashaddr' = flashaddr /\ offx' = offx /\ bread' = bread
  BY DEF vars, flashvars, ram
<1>2. Target' = Target /\ (Busy' <=> Busy) /\ HeaderWork' = HeaderWork /\ Installed' = Installed
  BY <1>1 DEF Target, Middle, Busy, Idle, HeaderWork, Installed
<1>3. InArea' /\ Unmarked'
  BY <1>1, <1>2 DEF Good, InArea, Within, Unmarked, Writing
<1>4. Progress(at)'
  BY <1>1, <1>2 DEF Good, Progress, Writing
<1>5. Saving(at)' /\ Whole(at)'
  BY <1>1, <1>2 DEF Good, Saving, Whole
<1> QED
  BY <1>3, <1>4, <1>5 DEF Good

-----------------------------------------------------------------------------
(* All of it together, for one place of the fonts.                         *)

FontInv(at) == BasicInv /\ (~skipped => Good(at))

LEMMA FontsStart == ASSUME NEW at PROVE Init => FontInv(at)
BY BasicInit, FontsInit DEF FontInv

(* Nothing but a missing buffer leaves a font out, once and for all.       *)
LEMMA SkippedStays ==
  ASSUME TypeOK, [Next]_vars
  PROVE  \/ skipped'
         \/ ~skipped /\ ~BufferMissing
<1>1. ASSUME BufferMissing PROVE skipped'
  BY <1>1 DEF BufferMissing
<1>2. ASSUME skipped, ~BufferMissing PROVE skipped'
  BY <1>2 DEF Next, Update, FontInit, UpdateFont, EraseSector, OpenFont, OpenFails, ReadFont,
     ReadFails, FontWritten, SaveInfo, W25QXX_Write, DiskWrite, NewFiles, Crash, rest, vars
<1> QED
  BY <1>1, <1>2

LEMMA FontsStep ==
  ASSUME NEW at \in Layouts
  PROVE  FontInv(at) /\ [Next]_vars => FontInv(at)'
<1> SUFFICES ASSUME FontInv(at), [Next]_vars PROVE FontInv(at)'
  OBVIOUS
<1>1. BasicInv /\ BasicInv' /\ TypeOK /\ TypeOK' /\ OnDisk
  BY BasicStep DEF FontInv, BasicInv
<1> SUFFICES ASSUME ~skipped' PROVE Good(at)'
  BY <1>1 DEF FontInv
<1>2. Good(at) /\ ~BufferMissing
  BY <1>1, SkippedStays DEF FontInv
<1>3. CASE FontInit \/ OpenFails \/ ReadFails \/ Crash
  BY <1>1, <1>2, <1>3, GoodQuiet
<1>4. CASE UpdateFont \/ EraseSector \/ OpenFont
  BY <1>1, <1>2, <1>4, GoodUpdateFont, GoodErase, GoodOpen
<1>5. CASE ReadFont \/ FontWritten \/ SaveInfo
  BY <1>1, <1>2, <1>5, GoodRead, GoodWritten, GoodSave
<1>6. CASE W25QXX_Write
  BY <1>1, <1>2, <1>6, GoodWrite
<1>7. CASE DiskWrite \/ NewFiles
  BY <1>1, <1>2, <1>7, GoodUse
<1>8. CASE UNCHANGED vars
  BY <1>2, <1>8, GoodSame
<1> QED
  BY <1>2, <1>3, <1>4, <1>5, <1>6, <1>7, <1>8 DEF Next, Update

LEMMA FontsAlways == ASSUME NEW at \in Layouts PROVE Spec => []FontInv(at)
<1>1. Init => FontInv(at)
  BY FontsStart
<1>2. FontInv(at) /\ [Next]_vars => FontInv(at)'
  BY FontsStep
<1> QED
  BY <1>1, <1>2, PTL DEF Spec

(***************************************************************************)
(* If the files fit into the area (fontupd.c:24), then whenever the header *)
(* says 0xAA every font is whole and all are of one edition, for every     *)
(* number and length of files, also when power fails between any two units *)
(* of any write; unless a font was left out for want of a buffer.          *)
(***************************************************************************)
THEOREM FontsAreGood == ASSUME FilesFit PROVE Spec => []FontsGoodOtherwise
<1>1. PICK at \in Layouts : TRUE
  BY DEF FilesFit
<1>2. FontInv(at) => FontsGoodOtherwise
  <2> SUFFICES ASSUME Good(at), Installed.ok
               PROVE \E v \in 1 .. version : \A f \in Font :
                        /\ Installed.size[f] = FileSize[f]
                        /\ \A k \in 0 .. FileSize[f] - 1 :
                             flash[Installed.addr[f] + k] = Glyphs(v, f, k)
    BY DEF FontInv, FontsGoodOtherwise, FontsGood
  <2>1. PICK v \in 1 .. version : AllIn(Installed, at, flash, v)
    BY DEF Good, Whole
  <2>2. ASSUME NEW f \in Font
        PROVE  /\ Installed.size[f] = FileSize[f]
               /\ \A k \in 0 .. FileSize[f] - 1 :
                    flash[Installed.addr[f] + k] = Glyphs(v, f, k)
    BY <2>1 DEF AllIn, Located, Copied
  <2> QED
    BY <2>2
<1> QED
  BY <1>2, FontsAlways, PTL

(* Only an erase of update_font and W25QXX_Write change the chip.           *)
LEMMA FlashSteps ==
  ASSUME [Next]_vars, NEW a, flash'[a] # flash[a]
  PROVE  EraseSector \/ W25QXX_Write
BY DEF Next, Update, FontInit, UpdateFont, OpenFont, OpenFails, BufferMissing, ReadFont,
   ReadFails, FontWritten, SaveInfo, DiskWrite, NewFiles, Crash, StartWrite, flashvars, vars

(* An update stays in the area and the sector behind it.                   *)
LEMMA AreaStays ==
  ASSUME TypeOK, InArea, EraseSector \/ W25QXX_Write, pc # "idle",
         NEW a \in Addr, flash'[a] # flash[a]
  PROVE  Base <= a /\ a < Base + (FSEC + 1) * SECT
<1>1. CASE W25QXX_Write
  <2>1. FlashTypes /\ (WriteSector \/ WritePage) /\ Within(Base, Base + (FSEC + 1) * SECT)
    BY <1>1 DEF TypeOK, W25QXX_Write, InArea
  <2> QED
    BY <2>1, AreaFits, BaseFits, WriteStays
<1>2. CASE EraseSector
  <2>1. PICK n \in Nat : n = i /\ n < FSEC
    BY <1>2 DEF EraseSector, TypeOK, UpdateTypes, Places
  <2>2. flash'[a] = IF Base + n * SECT <= a /\ a < Base + n * SECT + SECT THEN FF ELSE flash[a]
    BY <1>2, <2>1, EraseIs
  <2>3. Base + n * SECT <= a /\ a < Base + n * SECT + SECT
    BY <2>2
  <2>4. n * SECT \in Nat /\ n * SECT <= FSEC * SECT
    BY <2>1, Geometry
  <2> QED
    BY <2>3, <2>4, AreaFits, Numbers, Geometry DEF Addr
<1> QED
  BY <1>1, <1>2

(***************************************************************************)
(* An update never touches the disk below the area, and a write of the     *)
(* disk never touches the area or what is above it, for every disk, area   *)
(* and set of files that fit; unless a font was left out.                  *)
(***************************************************************************)
THEOREM DiskIsKept == ASSUME FilesFit PROVE Spec => DiskKept
<1>1. PICK at \in Layouts : TRUE
  BY DEF FilesFit
<1>2. ASSUME FontInv(at), [Next]_vars, NEW a \in Addr, flash'[a] # flash[a], ~skipped
      PROVE  (a < Base) <=> (pc = "idle")
  <2>1. TypeOK /\ OnDisk /\ Good(at)
    BY <1>2 DEF FontInv, BasicInv
  <2>2. EraseSector \/ W25QXX_Write
    BY <1>2, FlashSteps
  <2>3. CASE pc = "idle"
    <3>1. W25QXX_Write
      BY <2>2, <2>3 DEF EraseSector
    <3> QED
      BY <1>2, <2>1, <2>3, <3>1, DiskStays
  <2>4. CASE pc # "idle"
    <3>1. Base <= a
      BY <1>2, <2>1, <2>2, <2>4, AreaStays DEF Good
    <3> QED
      BY <2>4, <3>1, Numbers DEF Addr
  <2> QED
    BY <2>3, <2>4
<1>3. FontInv(at) /\ [Next]_vars =>
        [\A a \in Addr : flash'[a] # flash[a] => ((a < Base) <=> (pc = "idle")) \/ skipped]_vars
  BY <1>2
<1>4. Spec => []FontInv(at)
  BY FontsAlways
<1> QED
  BY <1>3, <1>4, PTL DEF Spec, DiskKept

(***************************************************************************)
(* Above the area an update changes one sector at most, that of the last   *)
(* chunk of the last file, for every chip, area and set of files that fit; *)
(* unless a font was left out.                                             *)
(***************************************************************************)
THEOREM OverrunBounded == ASSUME FilesFit PROVE Spec => OverrunIsOneSector
<1>1. PICK at \in Layouts : TRUE
  BY DEF FilesFit
<1>2. ASSUME FontInv(at), [Next]_vars, NEW a \in Base + (FSEC + 1) * SECT .. Size - 1,
             flash'[a] # flash[a]
      PROVE  skipped
  <2>1. SUFFICES ASSUME ~skipped PROVE FALSE
    OBVIOUS
  <2>2. TypeOK /\ OnDisk /\ Good(at)
    BY <1>2, <2>1 DEF FontInv, BasicInv
  <2>3. a \in Addr /\ ~(a < Base + (FSEC + 1) * SECT) /\ ~(a < Base)
    BY AreaFits, Numbers, Geometry DEF Addr
  <2>4. EraseSector \/ W25QXX_Write
    BY <1>2, <2>3, FlashSteps
  <2>5. CASE pc = "idle"
    <3>1. W25QXX_Write
      BY <2>4, <2>5 DEF EraseSector
    <3> QED
      BY <1>2, <2>2, <2>3, <2>5, <3>1, DiskStays
  <2>6. CASE pc # "idle"
    BY <1>2, <2>2, <2>3, <2>4, <2>6, AreaStays DEF Good
  <2> QED
    BY <2>5, <2>6
<1>3. FontInv(at) /\ [Next]_vars =>
        [\A a \in Base + (FSEC + 1) * SECT .. Size - 1 : flash'[a] = flash[a] \/ skipped]_vars
  BY <1>2
<1>4. Spec => []FontInv(at)
  BY FontsAlways
<1> QED
  BY <1>3, <1>4, PTL DEF Spec, OverrunIsOneSector

=============================================================================

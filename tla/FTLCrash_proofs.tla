-------------------------- MODULE FTLCrash_proofs ---------------------------
(***************************************************************************)
(* What FTLProps and FTLCrash promise, for every geometry: durability over *)
(* any number of power failures, a capacity that never shrinks, the cause  *)
(* of every repair, that the FTL is a block device, and, last, that every  *)
(* block in use is marked.                                                 *)
(***************************************************************************)
EXTENDS FTLCrash, FTL_proofs, FiniteSetTheorems, WellFoundedInduction,
        NaturalsInduction

-----------------------------------------------------------------------------
(* Quotients and remainders.                                               *)

LEMMA DivModIs ==
  ASSUME NEW x \in Nat, NEW m \in Nat \ {0}
  PROVE  x = (x \div m) * m + (x % m)
<1>1. PICK q \in Nat : q = x \div m
  BY DivMod
<1>2. PICK r \in Nat : r = x % m
  BY DivMod
<1>3. x = m * q + r
  BY <1>1, <1>2, SMT
<1> QED
  BY <1>1, <1>2, <1>3, SMT

LEMMA DivModUnique ==
  ASSUME NEW m \in Nat \ {0}, NEW q \in Nat, NEW r \in 0 .. m - 1,
         NEW x \in Nat, x = q * m + r
  PROVE  x \div m = q /\ x % m = r
  BY SMT

LEMMA ProductType ==
  ASSUME NEW x \in Nat, NEW y \in Nat
  PROVE  x * y \in Nat
  BY SMT

LEMMA ProductGrows ==
  ASSUME NEW x \in Nat, NEW y \in Nat, NEW m \in Nat, x <= y
  PROVE  x * m <= y * m
  BY SMT

LEMMA ProductNext ==
  ASSUME NEW x \in Nat, NEW m \in Nat
  PROVE  (x + 1) * m = x * m + m
  BY SMT

LEMMA ColumnIs ==
  \A q \in Nat, c \in Sec, x \in Nat : x = q * SPP + c => x % SPP = c
<1> SUFFICES ASSUME NEW q \in Nat, NEW c \in Sec, NEW x \in Nat, x = q * SPP + c
             PROVE  x % SPP = c
  OBVIOUS
<1>1. SPP \in Nat \ {0} /\ c \in 0 .. SPP - 1
  BY GeometryAssumption DEF Sec
<1> QED
  BY <1>1, DivModUnique

(* A sector's place: block l, page p, column c. *)
LEMMA PlaceIs ==
  ASSUME NEW l \in Nat, NEW p \in Page, NEW c \in Sec, NEW s \in Nat,
         s = l * SPB + (p * SPP + c)
  PROVE  /\ s \div SPB = l /\ s % SPB = p * SPP + c
         /\ (s % SPB) \div SPP = p /\ (s % SPB) % SPP = c /\ s % SPP = c
<1>1. p \in Nat /\ p <= PPB - 1 /\ c \in 0 .. SPP - 1 /\ SPP \in Nat \ {0} /\ PPB \in Nat \ {0}
  BY GeometryAssumption DEF Page, Sec
<1>2. p * SPP \in Nat /\ p * SPP <= (PPB - 1) * SPP
  BY <1>1, ProductType, ProductGrows
<1>3. (PPB - 1) * SPP = PPB * SPP - SPP
  BY <1>1, SMT
<1>4. p * SPP + c \in 0 .. SPB - 1
  BY <1>1, <1>2, <1>3, SPBType DEF SPB
<1>5. s \div SPB = l /\ s % SPB = p * SPP + c
  BY <1>4, SPBType, DivModUnique
<1>6. p * SPP + c \in Nat
  BY <1>4, SPBType
<1>7. (s % SPB) \div SPP = p /\ (s % SPB) % SPP = c
  BY <1>1, <1>5, <1>6, DivModUnique
<1>8. s % SPP = c
  <2>1. l * PPB \in Nat /\ l * PPB + p \in Nat
    BY <1>1, ProductType
  <2>2. l * (PPB * SPP) = (l * PPB) * SPP
    BY <1>1, SMT
  <2>3. (l * PPB + p) * SPP = (l * PPB) * SPP + p * SPP
    BY <1>1, <2>1, SMT
  <2>4. PICK q \in Nat : q = l * PPB + p
    BY <2>1
  <2>5. s = q * SPP + c
    BY <1>1, <1>2, <2>1, <2>2, <2>3, <2>4, ProductType DEF SPB
  <2> QED
    BY <2>5, ColumnIs, Zenon
<1> QED
  BY <1>5, <1>7, <1>8

LEMMA PlaceOf ==
  ASSUME NEW s \in Nat
  PROVE  /\ s \div SPB \in Nat /\ s % SPB \in 0 .. SPB - 1
         /\ (s % SPB) \div SPP \in Page /\ s % SPP \in Sec
         /\ s % SPB = ((s % SPB) \div SPP) * SPP + (s % SPP)
         /\ s = (s \div SPB) * SPB + (s % SPB)
<1> DEFINE l == s \div SPB
           i == s % SPB
           p == i \div SPP
           c == i % SPP
<1>0. SPB \in Nat \ {0}
  BY SPBType
<1>1. l \in Nat /\ i \in 0 .. SPB - 1 /\ i \in Nat /\ s = l * SPB + i
  <2>1. l \in Nat /\ i \in 0 .. SPB - 1
    BY <1>0, DivMod
  <2>2. s = (s \div SPB) * SPB + (s % SPB)
    BY <1>0, DivModIs
  <2> QED
    BY <1>0, <2>1, <2>2
<1>2. SPP \in Nat \ {0} /\ PPB \in Nat \ {0}
  BY GeometryAssumption
<1>3. p \in Nat /\ c \in Sec /\ i = p * SPP + c
  BY <1>1, <1>2, DivMod, DivModIs DEF Sec
<1>4. p \in Page
  <2>1. ASSUME p >= PPB PROVE FALSE
    <3>1. PPB * SPP <= p * SPP
      BY <1>2, <1>3, <2>1, ProductGrows
    <3> QED
      BY <1>1, <1>2, <1>3, <3>1, ProductType DEF SPB, Sec
  <2> QED
    BY <1>2, <1>3, <2>1 DEF Page
<1>5. s % SPP = c
  <2> HIDE DEF l, i, p, c
  <2>1. s = l * SPB + (p * SPP + c)
    BY <1>1, <1>3
  <2> QED
    BY <1>1, <1>3, <1>4, <2>1, PlaceIs
<1> QED
  BY <1>1, <1>3, <1>4, <1>5

LEMMA SectorPlace ==
  ASSUME NEW s \in Sectors
  PROVE  s \in Nat /\ s \div SPB \in Blk
<1>1. s \in Nat /\ s < NB * SPB
  BY GeometryAssumption, SPBType, ProductType DEF Sectors
<1>2. s \div SPB \in Nat /\ s % SPB \in Nat /\ s = (s \div SPB) * SPB + (s % SPB)
  BY <1>1, PlaceOf, SPBType
<1>3. ASSUME s \div SPB >= NB PROVE FALSE
  <2>1. NB * SPB <= (s \div SPB) * SPB
    BY <1>2, <1>3, GeometryAssumption, SPBType, ProductGrows
  <2> QED
    BY <1>1, <1>2, <2>1, GeometryAssumption, SPBType, ProductType
<1> QED
  BY <1>1, <1>2, <1>3, GeometryAssumption DEF Blk

-----------------------------------------------------------------------------
(* The first and the last block of a set exist.                            *)

LEMMA LeastNumber ==
  ASSUME NEW S \in SUBSET Nat, S # {}
  PROVE  \E m \in S : \A x \in S : m <= x
<1>1. PICK m \in S : \A y \in S : ~(<<y, m>> \in OpToRel(<, Nat))
  BY NatLessThanWellFounded, WFMin
<1>2. ASSUME NEW y \in S PROVE m <= y
  <2>1. ~(y < m)
    BY <1>1 DEF OpToRel
  <2> QED
    BY <2>1
<1> QED
  BY <1>2

LEMMA LowestIs ==
  ASSUME NEW S \in SUBSET Blk, S # {}
  PROVE  Lowest(S) \in S /\ \A x \in S : Lowest(S) <= x
<1>1. S \in SUBSET Nat
  BY GeometryAssumption DEF Blk
<1>2. \E m \in S : \A x \in S : m <= x
  BY <1>1, LeastNumber
<1> QED
  BY <1>2 DEF Lowest

LEMMA HighestIs ==
  ASSUME NEW S \in SUBSET Blk, S # {}
  PROVE  Highest(S) \in S
<1> DEFINE T == {NB - b : b \in S}
<1>0. NB \in Nat /\ \A b \in S : b \in 0 .. NB - 1
  BY GeometryAssumption DEF Blk
<1>1. T \in SUBSET Nat /\ T # {}
  BY <1>0
<1>2. PICK m \in T : \A x \in T : m <= x
  BY <1>1, LeastNumber
<1>3. PICK b \in S : m = NB - b
  BY <1>2
<1>4. ASSUME NEW x \in S PROVE x <= b
  <2>1. NB - x \in T
    OBVIOUS
  <2>2. NB - b <= NB - x
    BY <1>2, <1>3, <2>1
  <2> QED
    BY <1>0, <2>2
<1> QED
  BY <1>4 DEF Highest

(***************************************************************************)
(* FTL_CreateLUT finds every number that a good block carries; the count   *)
(* of valid blocks is where the first one is missing.                      *)
(***************************************************************************)
LEMMA Rebuilt ==
  ASSUME TypeInv, NEW t, CreateLUT(t)
  PROVE  /\ \A l \in Blk : (\E b \in Blk : ~t[b].bad /\ t[b].lbn = l) => lut'[l] # NB
         /\ \/ (\A l \in Blk : lut'[l] # NB) /\ valid' = valid
            \/ /\ valid' \in Blk /\ lut'[valid'] = NB
               /\ \A l \in Blk : l < valid' => lut'[l] # NB
<1> DEFINE S(l) == {b \in Blk : ~t[b].bad /\ t[b].lbn = l}
           holes == {l \in Blk : TaggedLut(t)[l] = NB}
<1>1. lut' = TaggedLut(t) /\ valid' = FirstHole(TaggedLut(t))
  BY DEF CreateLUT
<1>2. ASSUME NEW l \in Blk, S(l) # {} PROVE lut'[l] # NB
  <2>1. S(l) \in SUBSET Blk
    OBVIOUS
  <2>2. Highest(S(l)) \in Blk
    BY <1>2, <2>1, HighestIs
  <2>3. lut'[l] = Highest(S(l))
    BY <1>1 DEF TaggedLut
  <2> QED
    BY <2>2, <2>3, GeometryAssumption DEF Blk
<1>3. CASE holes = {}
  BY <1>1, <1>3 DEF FirstHole
<1>4. CASE holes # {}
  <2>1. valid' = Lowest(holes)
    BY <1>1, <1>4 DEF FirstHole
  <2>2. Lowest(holes) \in holes /\ \A x \in holes : Lowest(holes) <= x
    BY <1>4, LowestIs
  <2>3. lut'[valid'] = NB /\ valid' \in Blk
    BY <1>1, <2>1, <2>2
  <2>4. ASSUME NEW l \in Blk, l < valid' PROVE lut'[l] # NB
    <3>1. l \notin holes
      BY <2>1, <2>2, <2>3, <2>4, GeometryAssumption DEF Blk
    <3> QED
      BY <1>1, <3>1
  <2> QED
    BY <1>2, <2>3, <2>4
<1> QED
  BY <1>2, <1>3, <1>4

-----------------------------------------------------------------------------
(* Repairs.                                                                *)

(* The status that NAND_ReadPage returns is the status of one sector. *)
LEMMA StatusOfOne ==
  ASSUME NEW page, NEW o, NEW w, RunStatus(page, o, w) # "ok"
  PROVE  \E k \in o .. o + w - 1 : Decode(page[k]).sta = RunStatus(page, o, w)
<1> DEFINE bad == {k \in o .. o + w - 1 : Decode(page[k]).sta # "ok"}
           last(k) == \A j \in bad : j <= k
<1>1. \E k \in bad : last(k)
  BY DEF RunStatus
<1>2. RunStatus(page, o, w) = Decode(page[CHOOSE k \in bad : last(k)]).sta
  BY <1>1 DEF RunStatus
<1>3. (CHOOSE k \in bad : last(k)) \in bad
  BY <1>1
<1> QED
  BY <1>2, <1>3

(* A bit has flipped, or the contents have odd parity and lie over 0xFF. *)
Suspect(c) == c.flip \/ (c.val \in Odd /\ c.ecc \in {FF, BlankEcc})

RepairCause == pc = "read" /\ pc' = "find"
                 => \E s \in Run : Suspect(cell[PBN][PageNo][s])

LEMMA RepairStep == TypeInv /\ [Next]_vars => RepairCause
<1> SUFFICES ASSUME TypeInv, [Next]_vars, pc = "read", pc' = "find"
             PROVE  \E s \in Run : Suspect(cell[PBN][PageNo][s])
  BY DEF RepairCause
<1>1. ReadRun
  BY DEF Next, Call, Step, WriteStep, ReadStep, CopyStep, FormatStep, CallWrite,
         CallRead, Reinit, Unmapped, ReadTimeout, Return, WriteDirect, Mark, WriteMove,
         CompareFF, Compare00, EraseTested, CondemnSource, Find, CopyPage,
         Condemn, MarkCopy, EraseSource, FixLUT, Boot, FormatErase, FormatTag,
         FormatEraseUnmarked, FormatUnnumbered, Crash, Flip, vars
<1>2. req.op = "read"
  BY DEF TypeInv, Shape
<1>3. NeedsRepair(cell[PBN][PageNo])
  BY <1>1, <1>2 DEF ReadRun, Advance, Return
<1>4. PICK s \in Run : Decode(cell[PBN][PageNo][s]).sta = "ecc1"
  BY <1>3, StatusOfOne DEF NeedsRepair, Run
<1> DEFINE c == cell[PBN][PageNo][s]
<1>5. Suspect(c)
  <2>0. c.flip \in BOOLEAN
    <3>1. /\ PBN \in 0 .. NB /\ PageNo \in Page /\ SecNo \in Sec /\ Left \in Nat
          /\ PageRun \in 1 .. Left /\ PBN # NB
      BY <1>1, Addressing DEF ReadRun, LoopPcs
    <3>2. s \in Sec
      BY <1>4, <3>1, GeometryAssumption DEF Run, PageRun, Least, Sec
    <3>3. PBN \in Blk
      BY <3>1, GeometryAssumption DEF Blk
    <3>4. c \in Cell
      BY <3>1, <3>2, <3>3 DEF TypeInv, TypeOK, FlashType
    <3> QED
      BY <3>4 DEF Cell
  <2> HIDE DEF c
  <2>1. Decode(c).sta = "ecc1"
    BY <1>4 DEF c
  <2>2. CASE c.ecc = c.val
    BY <2>1, <2>2 DEF Decode, Suspect
  <2>3. CASE c.ecc # c.val
    <3>1. c.ecc \in {FF, BlankEcc} /\ (c.val \in Odd) # c.flip
      BY <2>1, <2>3 DEF Decode
    <3>2. CASE c.flip = FALSE
      <4>0. (c.val \in Odd) \in BOOLEAN
        OBVIOUS
      <4>1. PICK parity \in BOOLEAN : parity = (c.val \in Odd)
        BY <4>0, Zenon
      <4>2. parity # FALSE
        BY <3>1, <3>2, <4>1, Zenon
      <4>3. parity = TRUE
        BY <4>1, <4>2
      <4>4. c.val \in Odd
        BY <4>1, <4>3, Zenon
      <4> QED
        BY <3>1, <4>4 DEF Suspect
    <3>3. CASE c.flip = TRUE
      BY <3>3 DEF Suspect
    <3> QED
      BY <2>0, <3>2, <3>3
  <2> QED
    BY <2>2, <2>3
<1> QED
  BY <1>5

(***************************************************************************)
(* FTL_ReadSectors moves a block only where a stored bit has flipped, or   *)
(* where data of odd parity was programmed over 0xFF: then the stored code *)
(* is that of 0xFF and the difference looks like one flipped bit.          *)
(***************************************************************************)
THEOREM RepairsExplained == Spec => [][RepairCause]_vars
<1> QED
  BY TypeInvariance, RepairStep, PTL DEF Spec

(* Without data of odd parity only a flipped bit starts a repair. *)
COROLLARY RepairsReal == ASSUME Odd = {} PROVE Spec => RepairsAreReal
<1>1. RepairCause =>
        (pc = "read" /\ pc' = "find" => \E s \in Run : cell[PBN][PageNo][s].flip)
  BY DEF RepairCause, Suspect
<1> QED
  BY <1>1, RepairsExplained, PTL DEF RepairsAreReal

-----------------------------------------------------------------------------
(* The capacity.                                                           *)

(* Below valid_blocknum every number is in the table, and on a good block  *)
(* when FTL_Init reads the tags again; a format has too few to shrink.     *)
CapInv ==
    /\ pc \notin FormatPcs => \A l \in Blk : l < valid => lut[l] # NB
    /\ pc = "boot" => \A l \in Blk : l < valid => \E b \in Blk : Tagged(b, l)
    /\ pc \in {"fmtErase", "fmtTag"} => valid < MinBlocks

Grows == valid >= MinBlocks /\ crashes' = crashes /\ ~lost => valid' >= valid

LEMMA BlkNat == NB \in Nat \ {0} /\ \A b \in Blk : b \in Nat /\ b < NB /\ b # NB
  BY GeometryAssumption DEF Blk

(* The table is rebuilt from tags that still have all numbers below valid. *)
LEMMA RebuiltCap ==
  ASSUME TypeInv, CreateLUT(tag'),
         \A l \in Blk : l < valid => \E b \in Blk : Tagged(b, l)'
  PROVE  /\ valid' >= valid
         /\ \A l \in Blk : l < valid' => lut'[l] # NB
<1>1. valid \in 0 .. NB
  BY DEF TypeInv, TypeOK, RamType
<1>2. \A l \in Blk : l < valid => lut'[l] # NB
  BY Rebuilt DEF Tagged
<1>3. CASE (\A l \in Blk : lut'[l] # NB) /\ valid' = valid
  BY <1>1, <1>3
<1>4. CASE /\ valid' \in Blk /\ lut'[valid'] = NB
           /\ \A l \in Blk : l < valid' => lut'[l] # NB
  BY <1>1, <1>2, <1>4, BlkNat
<1> QED
  BY <1>3, <1>4, Rebuilt

(* Steps that leave the count and what the table names alone. *)
LEMMA QuietCap ==
  ASSUME CapInv, valid' = valid, pc \notin FormatPcs, pc' \notin FormatPcs,
         \A l \in Blk : lut[l] # NB => lut'[l] # NB
  PROVE  CapInv'
  BY DEF CapInv, FormatPcs

(* What the table names is tagged, before a source is erased. *)
LEMMA BelowValid ==
  ASSUME TypeInv, LutInv, CapInv, ~lost, pc \notin FormatPcs \cup {"fixlut"}
  PROVE  \A l \in Blk : l < valid => lut[l] \in Blk /\ Tagged(lut[l], l)
  BY MappedTagged DEF CapInv

LEMMA CapStep ==
  ASSUME TypeInv, LutInv, CapInv, ~lost, Next
  PROVE  Grows /\ (lost' \/ CapInv')
<1>0. valid \in 0 .. NB /\ tag \in [Blk -> Tag] /\ lut \in [Blk -> 0 .. NB]
  BY DEF TypeInv, TypeOK, RamType, FlashType
<1>1. CASE \/ CallWrite \/ CallRead \/ Unmapped \/ ReadTimeout \/ Flip
           \/ WriteDirect \/ Mark \/ WriteMove \/ ReadRun
           \/ CompareFF \/ Compare00 \/ EraseTested
           \/ Find \/ CopyPage \/ MarkCopy \/ EraseSource
  <2>1. lut' = lut /\ valid' = valid
    BY <1>1 DEF CallWrite, CallRead, Unmapped, ReadTimeout, Flip, WriteDirect, Mark,
                WriteMove, ReadRun, CompareFF, Compare00, EraseTested, Find, CopyPage,
                MarkCopy, EraseSource, ram
  <2>2. pc \notin FormatPcs
    BY <1>1 DEF CallWrite, CallRead, Unmapped, ReadTimeout, Flip, WriteDirect, Mark,
                WriteMove, ReadRun, CompareFF, Compare00, EraseTested, Find, CopyPage,
                MarkCopy, EraseSource, FormatPcs
  <2>3. pc' \notin FormatPcs
    <3>1. pc \in {"write", "read", "mark"} \cup TestPcs => req.op \in {"write", "read"}
      BY DEF TypeInv, Shape
    <3>2. CASE CallWrite \/ CallRead \/ Unmapped \/ ReadTimeout \/ Flip \/ Find
      BY <3>2 DEF CallWrite, CallRead, Unmapped, ReadTimeout, Flip, Find, Return,
                  FormatPcs
    <3>3. CASE WriteDirect \/ Mark \/ WriteMove \/ ReadRun
      BY <3>1, <3>3 DEF WriteDirect, Mark, WriteMove, ReadRun, Return, StartCopy,
                        Advance, FormatPcs
    <3>4. CASE CompareFF \/ Compare00 \/ CopyPage \/ MarkCopy \/ EraseSource
      BY <3>4 DEF CompareFF, Compare00, CopyPage, MarkCopy, EraseSource, FormatPcs
    <3>5. CASE EraseTested
      BY <3>1, <3>5 DEF EraseTested, Return, Advance, FormatPcs, TestPcs
    <3> QED
      BY <1>1, <3>2, <3>3, <3>4, <3>5
  <2> QED
    BY <1>0, <2>1, <2>2, <2>3, QuietCap DEF Grows
<1>2. CASE FixLUT
  <2>1. valid' = valid /\ pc = "fixlut" /\ cp.dst \in Blk /\ req.op \in {"write", "read"}
    BY <1>2 DEF FixLUT, TypeInv, Shape, DestPcs, CopyPcs
  <2>2. \A l \in Blk : lut[l] # NB => lut'[l] # NB
    BY <1>2, <2>1, BlkNat DEF FixLUT
  <2>3. pc' \in {"idle", "write", "read", "compareFF"}
    BY <1>2, <2>1 DEF FixLUT, Advance, Return
  <2> QED
    BY <1>0, <2>1, <2>2, <2>3, QuietCap DEF Grows, FormatPcs
<1>3. CASE Reinit
  BY <1>0, <1>3, BelowValid DEF Reinit, ram, flash, CapInv, Grows, FormatPcs, Tagged
<1>4. CASE Condemn \/ CondemnSource
  <2>1. PICK b : BadBlockMark(b) /\ ~Mapped(b)
    BY <1>4 DEF Condemn, CondemnSource, LutInv, CopyInv, DestPcs, TestPcs
  <2>2. \A c \in Blk \ {b} : tag'[c] = tag[c]
    BY <1>0, <2>1 DEF BadBlockMark
  <2>3. CreateLUT(tag') /\ pc \notin FormatPcs \cup {"fixlut"}
    BY <1>4 DEF Condemn, CondemnSource, FormatPcs
  <2>4. \A l \in Blk : l < valid => \E c \in Blk : Tagged(c, l)'
    <3>1. \A l \in Blk : l < valid => lut[l] \in Blk \ {b} /\ Tagged(lut[l], l)
      BY <2>1, <2>3, BelowValid DEF Mapped
    <3>2. \A l \in Blk : l < valid => \E c \in Blk \ {b} : Tagged(c, l)
      BY <3>1
    <3> QED
      BY <2>2, <3>2 DEF Tagged
  <2>5. valid' >= valid /\ \A l \in Blk : l < valid' => lut'[l] # NB
    BY <2>3, <2>4, RebuiltCap
  <2>6. pc' \notin FormatPcs
    BY <1>4 DEF Condemn, CondemnSource, Advance, Return, FormatPcs, TypeInv, Shape,
                TestPcs
  <2> QED
    BY <2>5, <2>6 DEF Grows, CapInv, FormatPcs
<1>5. CASE Boot
  <2>1. CreateLUT(tag) /\ tag' = tag
    BY <1>5 DEF Boot, flash
  <2>2. \A l \in Blk : l < valid => \E b \in Blk : Tagged(b, l)'
    BY <1>5, <2>1 DEF Boot, CapInv, Tagged
  <2>3. valid' >= valid /\ \A l \in Blk : l < valid' => lut'[l] # NB
    BY <2>1, <2>2, RebuiltCap
  <2>4. pc' = IF valid' < MinBlocks THEN "fmtErase" ELSE "idle"
    BY <1>5 DEF Boot
  <2> QED
    BY <2>3, <2>4 DEF Grows, CapInv, FormatPcs
<1>6. CASE FormatErase \/ FormatEraseUnmarked
  <2>1. valid' = valid /\ pc = "fmtErase" /\ (pc' \in {"fmtErase", "fmtTag"} \/ lost')
    BY <1>6 DEF FormatErase, FormatEraseUnmarked, ram
  <2> QED
    BY <1>0, <2>1 DEF Grows, CapInv, FormatPcs
<1>7. CASE FormatTag \/ FormatUnnumbered
  <2>1. valid < MinBlocks /\ MinBlocks \in Nat
    BY <1>7, FTLAssumption DEF FormatTag, FormatUnnumbered, CapInv
  <2>2. Grows
    BY <1>0, <2>1 DEF Grows
  <2>3. \/ CreateLUT(tag') /\ pc' = "idle"
        \/ valid' = valid /\ pc' = "fmtTag" /\ pc = "fmtTag"
    <3>1. CASE FormatTag
      BY <3>1 DEF FormatTag
    <3>2. CASE FormatUnnumbered
      <4>1. tag' = tag
        BY <3>2 DEF FormatUnnumbered, flash
      <4> QED
        BY <3>2, <4>1 DEF FormatUnnumbered
    <3> QED
      BY <1>7, <3>1, <3>2
  <2>4. CASE CreateLUT(tag') /\ pc' = "idle"
    <3>1. \A l \in Blk : l < valid' => lut'[l] # NB
      BY <2>4, Rebuilt
    <3> QED
      BY <2>2, <2>4, <3>1 DEF CapInv, FormatPcs
  <2>5. CASE valid' = valid /\ pc' = "fmtTag" /\ pc = "fmtTag"
    BY <2>2, <2>5 DEF CapInv, FormatPcs
  <2> QED
    BY <2>3, <2>4, <2>5
<1>8. CASE Crash
  <2>1. crashes' # crashes
    BY <1>8 DEF Crash, TypeInv, TypeOK, EnvType
  <2>2. valid' = 0 /\ pc' = "boot"
    BY <1>8 DEF Crash
  <2>3. \A l \in Blk : ~(l < valid')
    BY <2>2, BlkNat
  <2> QED
    BY <2>1, <2>2, <2>3 DEF Grows, CapInv, FormatPcs
<1> QED
  BY <1>1, <1>2, <1>3, <1>4, <1>5, <1>6, <1>7, <1>8
  DEF Next, Call, Step, WriteStep, ReadStep, CopyStep, FormatStep

CapOrLost == lost \/ CapInv

LEMMA CapNext == TypeInv /\ LutInv /\ CapOrLost /\ [Next]_vars => Grows /\ CapOrLost'
<1> SUFFICES ASSUME TypeInv, LutInv, CapOrLost, [Next]_vars
             PROVE  Grows /\ CapOrLost'
  OBVIOUS
<1>0. valid \in 0 .. NB
  BY DEF TypeInv, TypeOK, RamType
<1>1. CASE Next /\ ~lost
  BY <1>1, CapStep DEF CapOrLost
<1>2. CASE Next /\ lost
  BY <1>2, LostStays DEF CapOrLost, Grows, TypeInv
<1>3. CASE UNCHANGED vars
  BY <1>0, <1>3 DEF vars, flash, ram, CapOrLost, CapInv, Grows, Tagged
<1> QED
  BY <1>1, <1>2, <1>3

(***************************************************************************)
(* The sector count reported to FatFs and to the USB host never shrinks    *)
(* while the board is on, as long as no bad mark reaches page 1 without    *)
(* page 0 (WholeMarks): copies that fail, blocks condemned, numbers that   *)
(* FTL_Format could not write, and every rebuilding of the table keep the  *)
(* numbers below valid_blocknum.                                           *)
(***************************************************************************)
THEOREM CapacityIsKept == ASSUME WholeMarks PROVE Spec => CapacityKept
<1>0. Spec => []LutInv
  BY LutInvariance
<1>1. Init => CapOrLost
  BY BlkNat DEF Init, CapOrLost, CapInv, FormatPcs
<1>2. Grows => (valid >= MinBlocks /\ crashes' = crashes /\ ~lost => valid' >= valid)
  BY DEF Grows
<1>3. Spec => []CapOrLost
  BY <1>0, <1>1, CapNext, TypeInvariance, PTL DEF Spec
<1> QED
  BY <1>0, <1>2, <1>3, CapNext, TypeInvariance, PTL DEF Spec, CapacityKept

(* Both marks of a block FTL_Format cannot erase, and every number.        *)
LEMMA FormatMarks ==
  ASSUME TypeInv, WholeMarks, ErasesMarked
  PROVE  ~FormatEraseUnmarked
<1>1. faults \in Nat /\ MaxFaults \in Nat
  BY FTLAssumption DEF TypeInv, TypeOK, EnvType
<1>2. ~FaultsAt("fmterase", "badmark")
  BY <1>1 DEF FaultsAt, ErasesMarked
<1> QED
  BY <1>2, FormatIsWhole

LEMMA FormatNumbers ==
  ASSUME "fmttag" \notin FaultOps
  PROVE  ~FormatUnnumbered
  BY DEF FormatUnnumbered, FaultAt

-----------------------------------------------------------------------------
(* The inductive invariant behind Durable, besides TypeInv and LutInv.     *)

Writing == req.op = "write" /\ pc \in LoopPcs

(***************************************************************************)
(* What the flash has to hold now: in the middle of a write the sectors    *)
(* that the loop has passed are promised already.                          *)
(***************************************************************************)
Promise(s) == IF Writing /\ s >= req.first /\ s < At THEN buf[s - req.first]
                                                     ELSE acked[s]

Value(b, s) == cell[b][(s % SPB) \div SPP][s % SPP].val

Holds(b, s, v) == b \in Blk /\ Tagged(b, s \div SPB) /\ Value(b, s) = v

(* A destination is not counted on before its source is erased.            *)
Spared(b) == pc \in DestPcs \ {"fixlut"} /\ b = cp.dst

Backed(s, v) == \E b \in Blk : ~Spared(b) /\ Holds(b, s, v)

Kept == \A s \in Sectors : Promise(s) # Unknown => Backed(s, Promise(s))

(* Nothing is promised about the sectors a write was asked to change.      *)
Closed == Writing => \A s \in Asked : acked[s] = Unknown

(* No bit flips, so no repair starts, and every copy belongs to a write.   *)
Unflipped == \A b \in Blk, p \in Page, s \in Sec : cell[b][p][s].flip = FALSE

Clean == /\ Unflipped
         /\ pc \notin TestPcs
         /\ pc \in CopyPcs => req.op = "write"

(* Free blocks are blank: FTL_CopyAndWriteToBlock does not erase them.     *)
BlankAt(b, p) == \A s \in Sec : cell[b][p][s] = BlankCell

FreeBlank == \A b \in Blk : Free(b) => \A p \in Page : BlankAt(b, p)

(* The loop's run, programmed before the block is marked.                  *)
RunWritten ==
    pc = "mark" => \A s \in Sectors : s >= At /\ s < At + PageRun
                     => Value(PBN, s) = buf[s - req.first]

(* What is left of the caller's sectors: of the block in a write, of the   *)
(* page in the repair that a read has started.                             *)
Span == IF req.op = "write" THEN BlockRun ELSE PageRun

(* The locals of a copy ...                                                *)
Begun == /\ cp.off = PageNo /\ cp.col = SecNo /\ cp.pos = done
         /\ cp.left = Span

Ahead == cp.page * SPP - InBlock        \* sectors of the run before the page

Underway ==
    /\ cp.off = PageNo
    /\ cp.page <= cp.off => Begun
    /\ cp.page > cp.off => /\ cp.col = 0
                           /\ cp.pos + cp.left = done + Span
                           /\ cp.left = 0 => Ahead >= Span
                           /\ cp.left > 0 => cp.pos = done + Ahead

(* ... and what has been copied: the source, with the caller's data in it. *)
CopiedTo(p) ==
    \A s \in Sec :
      cell[cp.dst][p][s] =
        LET k == p * SPP + s - InBlock
        IN  IF k >= 0 /\ k < Span THEN DataCell(buf[done + k])
                                      ELSE cell[cp.src][p][s]

Copying ==
    /\ pc \in CopyPcs \ {"fixlut"} => Tagged(cp.src, At \div SPB)
    /\ pc \in DestPcs => cp.dst # cp.src
    /\ pc \in {"find", "condemn"} => Begun
    /\ pc = "copy" => /\ Underway
                      /\ cp.page = 0 => Free(cp.dst)
                      /\ cp.page # 0 => Tagged(cp.dst, At \div SPB)
                      /\ \A p \in Page : IF p < cp.page THEN CopiedTo(p)
                                                        ELSE BlankAt(cp.dst, p)
    /\ pc \in {"used", "erase", "fixlut"} => Tagged(cp.dst, At \div SPB)
    /\ pc \in {"used", "erase"} => \A p \in Page : CopiedTo(p)
    /\ pc = "fixlut" => \A s \in Sectors : s >= At /\ s < At + Span
                          => Holds(cp.dst, s, buf[s - req.first])

(* Once something is promised the blocks are numbered, and no format comes *)
(* between; the last number is never given.                                *)
Numbered == \A l \in Blk : l < MinBlocks => \E b \in Blk : ~Spared(b) /\ Tagged(b, l)

Promised == \E s \in Sectors : acked[s] # Unknown

Numbers ==
    /\ \A b \in Blk : tag[b].lbn # NB - 1
    /\ pc \notin FormatPcs => Numbered
    /\ pc = "boot" /\ Promised => Numbered
    /\ pc \in {"fmtErase", "fmtTag"} => ~Promised

(* The two loops of FTL_Format.                                            *)
GoodBelow(n) == {b \in Blk : b < n /\ ~tag[b].bad}

Quota == (fmt.good * Percent) \div 100

Formatting ==
    /\ pc = "fmtErase" => /\ \A b \in Blk : b < fmt.i /\ ~tag[b].bad => tag[b].lbn = NB
                          /\ fmt.good = Cardinality(GoodBelow(fmt.i))
    /\ pc = "fmtTag" =>
         LET i == fmt.i - NB
         IN  /\ fmt.good = Cardinality(GoodBelow(NB))
             /\ fmt.n = Cardinality(GoodBelow(i)) /\ fmt.n < Quota
             /\ \A b \in Blk : b >= i /\ ~tag[b].bad => tag[b].lbn = NB
             /\ \A l \in Blk : l < fmt.n => \E b \in Blk : b < i /\ Tagged(b, l)

(* Every bad block was shipped bad or cost a fault.                        *)
Bad == {b \in Blk : tag[b].bad}

Pending == IF pc = "condemn" THEN 1 ELSE 0

FewBad == \E F \in FactoryBad : Cardinality(Bad) + Pending <= Cardinality(F) + faults

HoldInv == /\ ~lost
           /\ Clean /\ FreeBlank /\ RunWritten /\ Copying
           /\ Closed /\ Kept
           /\ Numbers /\ Formatting /\ FewBad

-----------------------------------------------------------------------------
LEMMA BlockUnique ==
  \A q \in Nat, r \in 0 .. SPB - 1, x \in Nat :
    x = q * SPB + r => x \div SPB = q /\ x % SPB = r
<1> SUFFICES ASSUME NEW q \in Nat, NEW r \in 0 .. SPB - 1, NEW x \in Nat,
                    x = q * SPB + r
             PROVE  x \div SPB = q /\ x % SPB = r
  OBVIOUS
<1>1. SPB \in Nat \ {0}
  BY SPBType
<1> QED
  BY <1>1, DivModUnique

AtPlace(x, q, p, c) == x = q * SPB + (p * SPP + c)

LEMMA PlaceUnique ==
  \A x \in Nat, q \in Nat, p \in Page, c \in Sec :
    AtPlace(x, q, p, c)
      => x \div SPB = q /\ (x % SPB) \div SPP = p /\ x % SPP = c
  BY PlaceIs DEF AtPlace

(* The places of the sectors a loop is at.                                 *)

LEMMA LoopPlace ==
  ASSUME TypeInv, pc \in LoopPcs
  PROVE  /\ At \in Nat /\ At \div SPB \in Nat /\ InBlock \in 0 .. SPB - 1
         /\ At = (At \div SPB) * SPB + InBlock
         /\ InBlock = PageNo * SPP + SecNo
         /\ PageNo \in Page /\ SecNo \in Sec
<1>1. At \in Nat
  BY Addressing
<1>2. /\ At \div SPB \in Nat /\ At % SPB \in 0 .. SPB - 1
      /\ (At % SPB) \div SPP \in Page /\ At % SPP \in Sec
      /\ At % SPB = ((At % SPB) \div SPP) * SPP + (At % SPP)
      /\ At = (At \div SPB) * SPB + (At % SPB)
  BY <1>1, PlaceOf
<1>3. (At % SPB) % SPP = At % SPP
  <2> DEFINE l == At \div SPB
             p == (At % SPB) \div SPP
             c == At % SPP
  <2>1. At = l * SPB + (p * SPP + c)
    BY <1>2
  <2>2. l \in Nat /\ p \in Page /\ c \in Sec
    BY <1>2
  <2> HIDE DEF l, p, c, At
  <2>3. (At % SPB) % SPP = c
    BY <1>1, <2>1, <2>2, PlaceIs
  <2> QED
    BY <2>3 DEF c
<1> QED
  BY <1>1, <1>2, <1>3 DEF InBlock, PageNo, SecNo

(* The sectors from the loop's place to the end of the block or the page. *)
LEMMA SpanRun ==
  ASSUME TypeInv, pc \in LoopPcs
  PROVE  Span \in 1 .. Left /\ Span <= SPB - InBlock
<1>1. BlockRun \in 1 .. Left /\ PageRun \in 1 .. Left /\ Left \in Nat
  BY Addressing
<1>2. /\ InBlock \in 0 .. SPB - 1 /\ InBlock = PageNo * SPP + SecNo
      /\ PageNo \in Page /\ SecNo \in Sec
  BY LoopPlace
<1>3. SPB \in Nat /\ SPP \in Nat /\ PPB \in Nat /\ SecNo \in Nat
  BY <1>2, SPBType, GeometryAssumption DEF Sec
<1>4. BlockRun <= SPB - InBlock
  BY <1>1, <1>2, <1>3 DEF BlockRun, Least
<1>5. PageRun <= SPP - SecNo
  BY <1>1, <1>3 DEF PageRun, Least
<1>6. PageNo * SPP + SPP <= SPB
  <2>1. PICK q \in Nat : q = PageNo /\ q + 1 <= PPB
    BY <1>2, GeometryAssumption DEF Page
  <2>2. (q + 1) * SPP = q * SPP + SPP /\ (q + 1) * SPP <= PPB * SPP
    BY <1>3, <2>1, ProductNext, ProductGrows
  <2> QED
    BY <2>1, <2>2 DEF SPB
<1>7. PICK base \in Nat : base = PageNo * SPP
  BY <1>2, <1>3, ProductType, GeometryAssumption DEF Page
<1>8. PageRun <= SPB - InBlock
  BY <1>1, <1>2, <1>3, <1>5, <1>6, <1>7
<1> QED
  BY <1>1, <1>4, <1>8 DEF Span

LEMMA SpanPlace ==
  ASSUME TypeInv, pc \in LoopPcs, NEW s \in Sectors
  PROVE  s >= At /\ s < At + Span
           <=> /\ s \div SPB = At \div SPB
               /\ (s % SPB) - InBlock = s - At
               /\ (s % SPB) - InBlock >= 0 /\ (s % SPB) - InBlock < Span
<1> DEFINE l == At \div SPB
<1>1. /\ At \in Nat /\ l \in Nat /\ InBlock \in 0 .. SPB - 1 /\ At = l * SPB + InBlock
  BY LoopPlace
<1>2. Span \in Nat /\ Span <= SPB - InBlock
  BY SpanRun, Addressing
<1>3. /\ s \in Nat /\ s \div SPB \in Nat /\ s % SPB \in 0 .. SPB - 1
      /\ s = (s \div SPB) * SPB + (s % SPB)
  BY SectorPlace, PlaceOf
<1>4. SPB \in Nat \ {0} /\ l * SPB \in Nat
  BY <1>1, SPBType, ProductType
<1>5. ASSUME s >= At, s < At + Span
      PROVE  s \div SPB = l /\ (s % SPB) - InBlock = s - At
  <2>1. PICK k \in 0 .. SPB - 1 : k = InBlock + (s - At)
    BY <1>1, <1>2, <1>3, <1>4, <1>5
  <2>2. s = l * SPB + k
    BY <1>1, <1>3, <1>4, <2>1
  <2> HIDE DEF l
  <2>3. s \div SPB = l /\ s % SPB = k
    BY <1>1, <1>3, <2>2, BlockUnique, Zenon
  <2> QED
    BY <1>1, <1>3, <2>1, <2>3
<1>6. ASSUME s \div SPB = l PROVE (s % SPB) - InBlock = s - At
  BY <1>1, <1>3, <1>4, <1>6
<1> QED
  BY <1>1, <1>2, <1>3, <1>5, <1>6

LEMMA SamePageOffset ==
  ASSUME TypeInv, pc \in LoopPcs, NEW s \in Sectors,
         s \div SPB = At \div SPB, (s % SPB) \div SPP = PageNo
  PROVE  (s % SPP) - SecNo = s - At
<1> DEFINE l == At \div SPB
<1>1. /\ At \in Nat /\ l \in Nat /\ PageNo \in Page /\ SecNo \in 0 .. SPP - 1
      /\ At = l * SPB + InBlock /\ InBlock = PageNo * SPP + SecNo
  BY LoopPlace DEF Sec
<1>2. /\ s \in Nat /\ s % SPP \in 0 .. SPP - 1
      /\ s % SPB = ((s % SPB) \div SPP) * SPP + (s % SPP)
      /\ s = (s \div SPB) * SPB + (s % SPB)
  BY SectorPlace, PlaceOf DEF Sec
<1>3. /\ SPP \in Nat \ {0} /\ l * SPB \in Nat /\ PageNo * SPP \in Nat
      /\ Page \subseteq Nat
  BY <1>1, SPBType, ProductType, GeometryAssumption DEF Page
<1>4. s = l * SPB + (PageNo * SPP + (s % SPP))
  BY <1>2
<1> QED
  BY <1>1, <1>2, <1>3, <1>4

LEMMA PageRunPlace ==
  ASSUME TypeInv, pc \in LoopPcs, NEW s \in Sectors
  PROVE  s >= At /\ s < At + PageRun
           <=> /\ s \div SPB = At \div SPB
               /\ (s % SPB) \div SPP = PageNo
               /\ s % SPP \in Run /\ (s % SPP) - SecNo = s - At
<1> DEFINE l == At \div SPB
<1>1. /\ At \in Nat /\ l \in Nat /\ PageNo \in Page /\ SecNo \in 0 .. SPP - 1
      /\ At = l * SPB + InBlock /\ InBlock = PageNo * SPP + SecNo
  BY LoopPlace DEF Sec
<1>2. PageRun \in Nat /\ PageRun <= SPP - SecNo
  BY Addressing, <1>1, GeometryAssumption DEF PageRun, Least
<1>3. /\ s \in Nat /\ s \div SPB \in Nat
      /\ (s % SPB) \div SPP \in Page /\ s % SPP \in 0 .. SPP - 1
      /\ s % SPB = ((s % SPB) \div SPP) * SPP + (s % SPP)
      /\ s = (s \div SPB) * SPB + (s % SPB)
  BY SectorPlace, PlaceOf DEF Sec
<1>4. /\ SPP \in Nat \ {0} /\ l * SPB \in Nat /\ PageNo * SPP \in Nat
      /\ Page \subseteq Nat
  BY <1>1, SPBType, ProductType, GeometryAssumption DEF Page
<1>5. ASSUME s >= At, s < At + PageRun
      PROVE  /\ s \div SPB = l /\ (s % SPB) \div SPP = PageNo
             /\ (s % SPP) - SecNo = s - At
  <2>1. PICK c \in 0 .. SPP - 1 : c = SecNo + (s - At)
    BY <1>1, <1>2, <1>3, <1>4, <1>5
  <2>2. s = l * SPB + (PageNo * SPP + c)
    BY <1>1, <1>3, <1>4, <2>1
  <2>3. c \in Sec
    BY <2>1 DEF Sec
  <2>4. AtPlace(s, l, PageNo, c)
    BY <2>2 DEF AtPlace
  <2> HIDE DEF l
  <2>5. s \div SPB = l /\ (s % SPB) \div SPP = PageNo /\ s % SPP = c
    BY <1>1, <1>3, <2>3, <2>4, PlaceUnique, Zenon
  <2> QED
    BY <1>1, <1>3, <2>1, <2>5
<1>6. ASSUME s \div SPB = l, (s % SPB) \div SPP = PageNo
      PROVE  (s % SPP) - SecNo = s - At
  BY <1>6, SamePageOffset
<1> QED
  BY <1>1, <1>2, <1>3, <1>5, <1>6 DEF Run

-----------------------------------------------------------------------------
(* Without flips and odd contents no repair starts.                        *)

LEMMA CleanDecode ==
  ASSUME Odd = {}, NEW c, c.flip = FALSE
  PROVE  Decode(c).data = c.val /\ Decode(c).sta # "ecc1"
<1>1. (c.val \in Odd) = FALSE
  OBVIOUS
<1>2. ~((c.val \in Odd) # c.flip)
  BY <1>1, Zenon
<1>3. CASE c.ecc = c.val
  BY <1>3, Zenon DEF Decode
<1>4. CASE c.ecc # c.val
  <2>1. Decode(c) = [sta |-> "ecc2", data |-> c.val]
    BY <1>2, <1>4, Zenon DEF Decode
  <2> QED
    BY <2>1
<1> QED
  BY <1>3, <1>4

LEMMA NoRepair ==
  ASSUME TypeInv, Clean, Odd = {}, pc \in LoopPcs, PBN \in Blk
  PROVE  ~NeedsRepair(cell[PBN][PageNo])
<1> SUFFICES ASSUME NeedsRepair(cell[PBN][PageNo]) PROVE FALSE
  OBVIOUS
<1>1. PICK k \in Run : Decode(cell[PBN][PageNo][k]).sta = "ecc1"
  BY StatusOfOne DEF NeedsRepair, Run
<1>2. k \in Sec /\ PageNo \in Page
  BY Addressing, GeometryAssumption DEF Run, PageRun, Least, Sec
<1> QED
  BY <1>1, <1>2, CleanDecode DEF Clean, Unflipped

LEMMA WrittenClean ==
  ASSUME TypeInv, Clean, pc \in LoopPcs, PBN \in Blk, NEW p \in Page, NEW s \in Sec
  PROVE  Written(cell[PBN][p])[s].flip = FALSE
<1>1. cell[PBN][p][s].flip = FALSE
  BY DEF Clean, Unflipped
<1> QED
  BY <1>1 DEF Written, Program, DataCell

LEMMA PageUpdate ==
  ASSUME FlashType, NEW b \in Blk, NEW p \in Page, NEW page,
         cell' = [cell EXCEPT ![b][p] = page]
  PROVE  /\ cell'[b][p] = page
         /\ \A c \in Blk, q \in Page : c # b \/ q # p => cell'[c][q] = cell[c][q]
  BY Zenon DEF FlashType

LEMMA ErasedIs ==
  ASSUME FlashType, NEW b \in Blk, Erased(b)
  PROVE  /\ \A p \in Page, s \in Sec : cell'[b][p][s] = BlankCell
         /\ tag'[b] = FreshTag
         /\ \A c \in Blk \ {b} : cell'[c] = cell[c] /\ tag'[c] = tag[c]
<1>1. cell' = [cell EXCEPT ![b] = Blank] /\ tag' = [tag EXCEPT ![b] = FreshTag]
  BY DEF Erased
<1>2. cell'[b] = Blank /\ tag'[b] = FreshTag
  BY <1>1 DEF FlashType
<1>3. \A c \in Blk \ {b} : cell'[c] = cell[c] /\ tag'[c] = tag[c]
  BY <1>1 DEF FlashType
<1> QED
  BY <1>2, <1>3 DEF Blank

LEMMA PageClean ==
  ASSUME FlashType, Unflipped, NEW b \in Blk, NEW p \in Page, NEW page,
         cell' = [cell EXCEPT ![b][p] = page],
         \A s \in Sec : page[s].flip = FALSE
  PROVE  Unflipped'
  BY PageUpdate DEF Unflipped

LEMMA ErasedClean ==
  ASSUME FlashType, Unflipped, NEW b \in Blk, Erased(b) \/ UNCHANGED cell
  PROVE  Unflipped'
<1>1. CASE Erased(b)
  BY <1>1, ErasedIs DEF Unflipped, BlankCell
<1>2. CASE UNCHANGED cell
  BY <1>2 DEF Unflipped
<1> QED
  BY <1>1, <1>2

LEMMA CleanStep ==
  ASSUME TypeInv, Clean, Odd = {}, MaxFlips = 0, Next, ~FormatEraseUnmarked,
         ~FormatUnnumbered
  PROVE  Clean'
<1>0. /\ FlashType /\ Unflipped /\ pc \notin TestPcs
      /\ pc \in CopyPcs => req.op = "write"
      /\ pc = "write" => req.op = "write"
      /\ pc = "read" => req.op = "read"
      /\ PBN # NB /\ pc \in LoopPcs => PBN \in Blk /\ PageNo \in Page
  <2>1. PBN # NB /\ pc \in LoopPcs => PBN \in Blk /\ PageNo \in Page
    BY Addressing, GeometryAssumption DEF Blk
  <2> QED
    BY <2>1 DEF TypeInv, TypeOK, Shape, Clean
<1>1. CASE CallWrite \/ CallRead \/ Reinit \/ Unmapped \/ ReadTimeout \/ Boot \/ FormatTag \/ Crash
  <2>1. UNCHANGED cell
    BY <1>1 DEF CallWrite, CallRead, Reinit, Unmapped, ReadTimeout, Boot, FormatTag,
                Crash, flash
  <2>2. pc' \notin CopyPcs \cup TestPcs
    BY <1>1 DEF CallWrite, CallRead, Reinit, Unmapped, ReadTimeout, Boot, FormatTag,
                Crash, Return, CopyPcs, TestPcs
  <2> QED
    BY <1>0, <2>1, <2>2 DEF Clean, Unflipped
<1>2. CASE WriteMove
  BY <1>0, <1>2 DEF WriteMove, StartCopy, flash, Clean, Unflipped, TestPcs
<1>3. CASE WriteDirect
  <2>1. PBN \in Blk /\ PageNo \in Page /\ pc \in LoopPcs
    BY <1>0, <1>3 DEF WriteDirect, LoopPcs
  <2>2. Unflipped'
    <3>1. \A s \in Sec : Written(cell[PBN][PageNo])[s].flip = FALSE
      BY <2>1, WrittenClean
    <3>2. cell' = [cell EXCEPT ![PBN][PageNo] = Written(cell[PBN][PageNo])] \/ UNCHANGED cell
      BY <1>3, <2>1 DEF WriteDirect
    <3>3. UNCHANGED cell => Unflipped'
      BY <1>0 DEF Unflipped
    <3> QED
      BY <1>0, <2>1, <3>1, <3>2, <3>3, PageClean
  <2>3. req.op = "write" /\ pc' \in {"mark", "idle", "write", "find"} /\ (pc' = "find" => req' = req)
    BY <1>0, <1>3 DEF WriteDirect, Advance, Return, StartCopy, Frame
  <2> QED
    BY <2>2, <2>3 DEF Clean, TestPcs, CopyPcs
<1>4. CASE Mark
  <2>1. req.op = "write"
    BY <1>4 DEF Mark, TypeInv, Shape
  <2>2. pc' \in {"idle", "write", "find"} /\ (pc' = "find" => req' = req) /\ UNCHANGED cell
    BY <1>4, <2>1 DEF Mark, Advance, Return, StartCopy, Frame
  <2> QED
    BY <1>0, <2>1, <2>2 DEF Clean, Unflipped, TestPcs, CopyPcs
<1>5. CASE ReadRun
  <2>1. PBN \in Blk /\ PageNo \in Page /\ pc \in LoopPcs
    BY <1>0, <1>5 DEF ReadRun, LoopPcs
  <2>2. Advance(PageRun)
    BY <1>5, <2>1, NoRepair DEF ReadRun
  <2> QED
    BY <1>0, <1>5, <2>2 DEF ReadRun, Advance, Return, flash, Clean, Unflipped, TestPcs, CopyPcs
<1>6. CASE CompareFF \/ Compare00 \/ EraseTested \/ CondemnSource
  BY <1>0, <1>6 DEF CompareFF, Compare00, EraseTested, CondemnSource, TestPcs
<1>7. CASE Find
  BY <1>0, <1>7 DEF Find, Return, Frame, flash, Clean, Unflipped, TestPcs, CopyPcs
<1>8. CASE CopyPage
  <2>1. cp.src \in Blk /\ cp.dst \in Blk /\ cp.page \in Page /\ req.op = "write"
    BY <1>0, <1>8 DEF CopyPage, TypeInv, Shape, DestPcs, CopyPcs
  <2>2. Unflipped'
    <3> DEFINE page == CopiedPage(cell[cp.src][cp.page], cell[cp.dst][cp.page], cp.col,
                                  Merged, buf, cp.pos)
    <3>1. \A s \in Sec : cell[cp.src][cp.page][s].flip = FALSE
                         /\ cell[cp.dst][cp.page][s].flip = FALSE
      BY <1>0, <2>1 DEF Unflipped
    <3>2. \A s \in Sec : page[s].flip = FALSE
      BY <3>1 DEF CopiedPage, Program, DataCell
    <3>3. cell' = [cell EXCEPT ![cp.dst][cp.page] = page] \/ UNCHANGED cell
      BY <1>8, <2>1 DEF CopyPage, PageCopied, flash
    <3>4. UNCHANGED cell => Unflipped'
      BY <1>0 DEF Unflipped
    <3> QED
      BY <1>0, <2>1, <3>2, <3>3, <3>4, PageClean
  <2>3. pc' \in {"used", "copy", "condemn"} /\ req' = req
    BY <1>8 DEF CopyPage
  <2> QED
    BY <2>1, <2>2, <2>3 DEF Clean, TestPcs
<1>9. CASE Condemn \/ MarkCopy
  BY <1>0, <1>9 DEF Condemn, MarkCopy, Clean, Unflipped, TestPcs, CopyPcs
<1>10. CASE EraseSource
  <2>1. cp.src \in Blk /\ req.op = "write"
    BY <1>0, <1>10 DEF EraseSource, TypeInv, Shape, CopyPcs
  <2>2. Erased(cp.src) \/ UNCHANGED cell
    BY <1>10 DEF EraseSource, flash
  <2>3. Unflipped'
    BY <1>0, <2>1, <2>2, ErasedClean
  <2> QED
    BY <1>10, <2>1, <2>3 DEF EraseSource, Clean, TestPcs
<1>11. CASE FixLUT
  BY <1>0, <1>11 DEF FixLUT, Advance, Return, Clean, Unflipped, flash, TestPcs, CopyPcs
<1>12. CASE FormatErase
  <2>1. fmt.i \in Blk
    BY <1>12 DEF FormatErase, TypeInv, Shape
  <2>2. (Erased(fmt.i) \/ UNCHANGED cell) /\ pc' \in {"fmtErase", "fmtTag", "idle"}
    BY <1>12 DEF FormatErase, flash
  <2>3. Unflipped'
    BY <1>0, <2>1, <2>2, ErasedClean
  <2> QED
    BY <2>2, <2>3 DEF Clean, TestPcs, CopyPcs
<1>13. CASE Flip
  BY <1>13 DEF Flip, TypeInv, TypeOK, EnvType
<1> QED
  BY <1>1, <1>2, <1>3, <1>4, <1>5, <1>6, <1>7, <1>8, <1>9, <1>10, <1>11, <1>12, <1>13
  DEF Next, Call, Step, WriteStep, ReadStep, CopyStep, FormatStep

-----------------------------------------------------------------------------
(* Each bad block beyond those shipped costs a fault.                      *)

LEMMA BlkFinite == IsFiniteSet(Blk) /\ Cardinality(Blk) = NB
<1>1. 0 \in Int /\ NB - 1 \in Int /\ NB \in Nat \ {0}
  BY GeometryAssumption
<1>2. IsFiniteSet(0 .. NB - 1) /\ Cardinality(0 .. NB - 1) = IF 0 > NB - 1 THEN 0 ELSE NB - 1 - 0 + 1
  BY <1>1, FS_Interval
<1> QED
  BY <1>1, <1>2 DEF Blk

LEMMA PartCounted ==
  ASSUME NEW S \in SUBSET Blk
  PROVE  /\ IsFiniteSet(S) /\ Cardinality(S) \in Nat /\ Cardinality(S) <= NB
         /\ \A T \in SUBSET S : Cardinality(T) <= Cardinality(S)
<1>1. IsFiniteSet(S) /\ Cardinality(S) <= NB
  BY BlkFinite, FS_Subset
<1> QED
  BY <1>1, FS_Subset, FS_CardinalityType

LEMMA OneMore ==
  ASSUME NEW S \in SUBSET Blk, NEW T \in SUBSET Blk, NEW b, T \subseteq S \cup {b}
  PROVE  Cardinality(T) <= Cardinality(S) + 1
<1>1. IsFiniteSet(S) /\ Cardinality(S) \in Nat /\ Cardinality(T) \in Nat
  BY PartCounted
<1>2. /\ IsFiniteSet(S \cup {b})
      /\ Cardinality(S \cup {b}) = IF b \in S THEN Cardinality(S) ELSE Cardinality(S) + 1
  BY <1>1, FS_AddElement, Zenon
<1>3. Cardinality(T) <= Cardinality(S \cup {b}) /\ Cardinality(S \cup {b}) \in Nat
  BY <1>2, FS_Subset, FS_CardinalityType
<1> QED
  BY <1>1, <1>2, <1>3

(* The bad blocks after a step, and what it may cost.                      *)
BadStep(new) ==
    /\ \E b : Bad' \subseteq Bad \cup {b}
    /\ new = 0 => Bad' \subseteq Bad
    /\ new + Pending' + faults <= Pending + faults'

LEMMA FewBadStep ==
  ASSUME TypeInv, faults' \in Nat, FewBad, NEW new \in {0, 1}, BadStep(new)
  PROVE  FewBad'
<1>0. faults \in Nat
  BY DEF TypeInv, TypeOK, EnvType
<1>1. PICK F \in FactoryBad : Cardinality(Bad) + Pending <= Cardinality(F) + faults
  BY DEF FewBad
<1>2. Cardinality(F) \in Nat
  <2>1. F \in SUBSET Blk
    BY <1>1, FTLAssumption
  <2> QED
    BY <2>1, PartCounted
<1>3. Bad \in SUBSET Blk /\ Bad' \in SUBSET Blk
  BY DEF Bad
<1>4. Cardinality(Bad) \in Nat /\ Cardinality(Bad') \in Nat
  BY <1>3, PartCounted
<1>5. Cardinality(Bad') <= Cardinality(Bad) + new
  <2>1. CASE new = 0
    BY <1>3, <1>4, <2>1, PartCounted DEF BadStep
  <2>2. CASE new = 1
    <3>1. PICK b : Bad' \subseteq Bad \cup {b}
      BY DEF BadStep
    <3> QED
      BY <1>3, <2>2, <3>1, OneMore
  <2> QED
    BY <2>1, <2>2
<1>6. Pending \in {0, 1} /\ Pending' \in {0, 1}
  BY DEF Pending
<1>7. Cardinality(Bad') + Pending' <= Cardinality(F) + faults'
  <2>1. new + Pending' + faults <= Pending + faults'
    BY DEF BadStep
  <2>2. PICK p1 \in Nat, p2 \in Nat : p1 = Pending /\ p2 = Pending'
    BY <1>6
  <2>3. PICK b1 \in Nat, b2 \in Nat : b1 = Cardinality(Bad) /\ b2 = Cardinality(Bad')
    BY <1>4
  <2>4. PICK n \in Nat, f2 \in Nat : n = Cardinality(F) /\ f2 = faults'
    BY <1>2
  <2>5. new + p2 + faults <= p1 + f2 /\ b1 + p1 <= n + faults /\ b2 <= b1 + new
    BY <1>1, <1>5, <2>1, <2>2, <2>3, <2>4
  <2>6. b2 + p2 <= n + f2
    BY <1>0, <2>5
  <2> QED
    BY <2>2, <2>3, <2>4, <2>6
<1>8. F \in FactoryBad
  BY <1>1
<1> QED
  BY <1>7, <1>8 DEF FewBad

-----------------------------------------------------------------------------
(* What the steps do to the tags.                                          *)

LEMMA CopyTag ==
  ASSUME TypeInv, Copying, pc = "copy", TagCopied \/ UNCHANGED tag
  PROVE  /\ cp.src \in Blk /\ cp.dst \in Blk /\ cp.page \in Page
         /\ \A b \in Blk \ {cp.dst} : tag'[b] = tag[b]
         /\ ~tag'[cp.dst].bad
         /\ TagCopied => tag'[cp.dst].lbn = At \div SPB
         /\ tag' # tag => TagCopied
         /\ TagCopied \/ cp.page # 0 => tag'[cp.dst].lbn = At \div SPB
<1>1. /\ cp.src \in Blk /\ cp.dst \in Blk /\ cp.page \in Page /\ tag \in [Blk -> Tag]
  BY DEF TypeInv, TypeOK, FlashType, Shape, CopyPcs, DestPcs
<1>2. ~tag[cp.src].bad /\ tag[cp.src].lbn = At \div SPB
  BY DEF Copying, CopyPcs, Tagged
<1>3. \A b \in Blk \ {cp.dst} : tag'[b] = tag[b]
  BY <1>1 DEF TagCopied
<1>4. CASE cp.page = 0 /\ TagCopied
  <2>1. tag'[cp.dst] = AndTag(tag[cp.dst], tag[cp.src]) /\ Free(cp.dst)
    BY <1>1, <1>4 DEF TagCopied, Copying
  <2>2. /\ tag'[cp.dst].bad = (tag[cp.dst].bad \/ tag[cp.src].bad)
        /\ tag'[cp.dst].lbn = IF tag[cp.dst].lbn = NB THEN tag[cp.src].lbn
                                                      ELSE tag[cp.dst].lbn
    BY <2>1 DEF AndTag
  <2>3. ~tag[cp.dst].bad /\ tag[cp.dst].lbn = NB
    BY <2>1 DEF Free, FreshTag
  <2>4. ~tag'[cp.dst].bad /\ tag'[cp.dst].lbn = At \div SPB
    BY <1>2, <2>2, <2>3
  <2> QED
    BY <1>1, <1>3, <1>4, <2>4
<1>5. CASE cp.page # 0 \/ ~TagCopied
  <2>1. tag' = tag
    BY <1>5 DEF TagCopied
  <2>2. cp.page = 0 => ~tag[cp.dst].bad
    BY DEF Copying, Free, FreshTag
  <2>3. cp.page # 0 => ~tag[cp.dst].bad /\ tag[cp.dst].lbn = At \div SPB
    BY DEF Copying, Tagged
  <2> QED
    BY <1>1, <1>5, <2>1, <2>2, <2>3
<1> QED
  BY <1>4, <1>5

LEMMA CondemnTag ==
  ASSUME TypeInv, WholeMarks, Whole, pc \in {"condemn", "condemnSrc"},
         NEW b \in Blk, BadBlockMark(b)
  PROVE  /\ \A c \in Blk \ {b} : tag'[c] = tag[c]
         /\ tag'[b] = BadTag \/ (FaultAt("badmark") /\ tag'[b] = tag[b])
         /\ faults' = faults \/ (tag' = tag /\ faults' = faults + 1)
<1>1. \/ tag' = [tag EXCEPT ![b] = BadTag] /\ UNCHANGED faults
      \/ FaultAt("badmark") /\ UNCHANGED tag
  BY MarkIsWhole
<1>2. tag \in [Blk -> Tag]
  BY DEF TypeInv, TypeOK, FlashType
<1> QED
  BY <1>1, <1>2 DEF FaultAt

(* FTL_Format gives the block a number, or its number stays.               *)
LEMMA FormatTagIs ==
  ASSUME TypeInv, FormatTag, NEW b, b = fmt.i - NB
  PROVE  /\ b \in Blk
         /\ \A c \in Blk \ {b} : tag'[c] = tag[c]
         /\ tag[b].bad => tag'[b] = tag[b]
         /\ ~tag[b].bad => /\ ~tag'[b].bad
                           /\ tag'[b].lbn = IF tag[b].lbn = NB THEN fmt.n ELSE tag[b].lbn
         /\ tag'[b].used = tag[b].used
<1>1. b \in Blk /\ tag \in [Blk -> Tag]
  BY GeometryAssumption DEF FormatTag, TypeInv, TypeOK, FlashType, Shape, Blk
<1>2. tag' = IF ~tag[b].bad
               THEN [tag EXCEPT ![b].lbn = IF @ = NB THEN fmt.n ELSE @] ELSE tag
  BY Zenon DEF FormatTag
<1>3. CASE tag[b].bad
  BY <1>1, <1>2, <1>3
<1>4. CASE ~tag[b].bad
  <2>1. tag' = [tag EXCEPT ![b].lbn = IF @ = NB THEN fmt.n ELSE @]
    BY <1>2, <1>4
  <2>2. \A c \in Blk \ {b} : tag'[c] = tag[c]
    BY <1>1, <2>1, Zenon
  <2>3. tag'[b] = [tag[b] EXCEPT !.lbn = IF @ = NB THEN fmt.n ELSE @]
    BY <1>1, <2>1, Zenon
  <2>4. tag[b] \in Tag
    BY <1>1
  <2> QED
    BY <1>1, <1>4, <2>2, <2>3, <2>4 DEF Tag
<1> QED
  BY <1>3, <1>4

-----------------------------------------------------------------------------
(* FewBad is kept.                                                         *)

LEMMA FewBadSame ==
  ASSUME TypeInv, faults' \in Nat, FewBad, \A b \in Blk : tag'[b].bad => tag[b].bad,
         faults' = faults \/ faults' = faults + 1,
         pc' # "condemn" \/ faults' = faults + 1
  PROVE  FewBad'
<1>0. faults \in Nat /\ Pending \in {0, 1} /\ Pending' \in {0, 1}
  BY DEF Pending, TypeInv, TypeOK, EnvType
<1>1. Bad' \subseteq Bad
  BY DEF Bad
<1>2. PICK p1 \in 0 .. 1, p2 \in 0 .. 1, f2 \in Nat :
        p1 = Pending /\ p2 = Pending' /\ f2 = faults'
  BY <1>0
<1>3. (p2 = 0 /\ f2 = faults) \/ f2 = faults + 1
  BY <1>2 DEF Pending
<1>4. 0 + p2 + faults <= p1 + f2
  BY <1>0, <1>3
<1>5. 0 + Pending' + faults <= Pending + faults'
  BY <1>2, <1>4
<1>6. BadStep(0)
  BY <1>1, <1>5 DEF BadStep
<1> QED
  BY <1>6, FewBadStep

LEMMA FewBadOne ==
  ASSUME TypeInv, faults' \in Nat, FewBad, NEW b \in Blk,
         \A c \in Blk \ {b} : tag'[c] = tag[c], pc' # "condemn",
         \/ faults' = faults /\ pc = "condemn"
         \/ faults' = faults + 1
  PROVE  FewBad'
<1>0. faults \in Nat /\ Pending \in {0, 1} /\ Pending' = 0
  BY DEF Pending, TypeInv, TypeOK, EnvType
<1>1. Bad' \subseteq Bad \cup {b}
  BY DEF Bad
<1>2. PICK p1 \in 0 .. 1, p2 \in 0 .. 1, f2 \in Nat :
        p1 = Pending /\ p2 = Pending' /\ f2 = faults'
  BY <1>0
<1>3. p2 = 0 /\ ((f2 = faults /\ p1 = 1) \/ f2 = faults + 1)
  BY <1>0, <1>2 DEF Pending
<1>4. 1 + p2 + faults <= p1 + f2
  BY <1>0, <1>3
<1>5. 1 + Pending' + faults <= Pending + faults'
  BY <1>2, <1>4
<1>6. BadStep(1)
  BY <1>1, <1>5 DEF BadStep
<1> QED
  BY <1>6, FewBadStep

LEMMA FewBadNext ==
  ASSUME TypeInv, TypeInv', WholeMarks, Whole, pc \notin TestPcs, Copying, FewBad, Next,
         ~FormatEraseUnmarked, ~FormatUnnumbered
  PROVE  FewBad'
<1>0. /\ faults \in Nat /\ faults' \in Nat /\ tag \in [Blk -> Tag] /\ FlashType
      /\ pc \notin TestPcs
  BY FTLAssumption DEF TypeInv, TypeOK, EnvType, FlashType
<1>1. ASSUME \A b \in Blk : tag'[b].bad => tag[b].bad,
             faults' = faults \/ faults' = faults + 1, pc' # "condemn"
      PROVE  FewBad'
  BY <1>0, <1>1, FewBadSame
<1>2. CASE \/ CallWrite \/ CallRead \/ Reinit \/ Unmapped \/ WriteMove
           \/ ReadRun \/ Boot \/ Crash \/ Find \/ FixLUT
  <2>1. UNCHANGED <<tag, faults>>
    BY <1>2 DEF CallWrite, CallRead, Reinit, Unmapped, WriteMove, ReadRun, Boot, Crash,
                Find, FixLUT, flash, env
  <2>2. pc' # "condemn"
    <3>1. pc \in {"read", "fixlut"} => req.op \in {"read", "write"}
      BY DEF TypeInv, Shape, CopyPcs
    <3> QED
      BY <1>2, <3>1 DEF CallWrite, CallRead, Reinit, Unmapped, WriteMove, ReadRun, Boot,
                        Crash, Find, FixLUT, Return, Advance, StartCopy
  <2> QED
    BY <1>1, <2>1, <2>2
<1>3. CASE WriteDirect \/ ReadTimeout
  <2>1. tag' = tag /\ (faults' = faults \/ faults' = faults + 1)
    BY <1>3 DEF WriteDirect, ReadTimeout, FaultAt, flash
  <2>2. pc' # "condemn"
    <3>1. pc = "write" => req.op = "write"
      BY DEF TypeInv, Shape
    <3> QED
      BY <1>3, <3>1 DEF WriteDirect, ReadTimeout, Return, Advance, StartCopy
  <2> QED
    BY <1>1, <2>1, <2>2
<1>4. CASE Mark \/ MarkCopy
  <2>1. \E b : tag' \in {tag, [tag EXCEPT ![b].used = TRUE]}
    BY <1>4 DEF Mark, MarkCopy
  <2>2. faults' = faults \/ faults' = faults + 1
    BY <1>4 DEF Mark, MarkCopy, FaultAt
  <2>3. pc' # "condemn"
    <3>1. pc = "mark" => req.op = "write"
      BY DEF TypeInv, Shape
    <3> QED
      BY <1>4, <3>1 DEF Mark, MarkCopy, Return, Advance, StartCopy
  <2>4. KeepsNumbers
    BY <2>1, UsedKeepsNumbers
  <2> QED
    BY <1>1, <2>2, <2>3, <2>4 DEF KeepsNumbers
<1>5. CASE CopyPage
  <2>1. /\ pc = "copy" /\ (TagCopied \/ UNCHANGED tag)
        /\ \/ faults' = faults /\ pc' \in {"used", "copy"}
           \/ faults' = faults + 1 /\ pc' = "condemn"
    BY <1>5 DEF CopyPage, FaultAt, flash
  <2>2. \A b \in Blk : tag'[b].bad => tag[b].bad
    BY <2>1, CopyTag
  <2> QED
    BY <1>0, <2>1, <2>2, FewBadSame
<1>6. CASE Condemn
  <2>1. cp.dst \in Blk /\ pc = "condemn" /\ pc' = "find" /\ BadBlockMark(cp.dst)
    BY <1>6 DEF Condemn, TypeInv, Shape, DestPcs
  <2>2. faults' = faults \/ (tag' = tag /\ faults' = faults + 1)
    BY <2>1, CondemnTag
  <2>3. \A c \in Blk \ {cp.dst} : tag'[c] = tag[c]
    BY <2>1, CondemnTag
  <2>4. CASE faults' = faults
    BY <1>0, <2>1, <2>3, <2>4, FewBadOne
  <2>5. CASE tag' = tag /\ faults' = faults + 1
    BY <1>0, <2>1, <2>5, FewBadSame
  <2> QED
    BY <2>2, <2>4, <2>5
<1>7. CASE EraseSource
  <2>1. cp.src \in Blk /\ pc' # "condemn" /\ (faults' = faults \/ faults' = faults + 1)
    BY <1>7 DEF EraseSource, FaultAt, TypeInv, Shape, CopyPcs
  <2>2. Erased(cp.src) \/ UNCHANGED tag
    BY <1>7 DEF EraseSource, flash
  <2>3. \A b \in Blk : tag'[b].bad => tag[b].bad
    BY <1>0, <2>1, <2>2, ErasedIs DEF FreshTag
  <2> QED
    BY <1>1, <2>1, <2>3
<1>8. CASE FormatErase
  <2>1. fmt.i \in Blk /\ pc = "fmtErase" /\ pc' # "condemn"
    BY <1>8 DEF FormatErase, TypeInv, Shape
  <2>2. CASE UNCHANGED <<tag, faults>>
    BY <1>1, <2>1, <2>2
  <2>3. CASE Erased(fmt.i) /\ faults' = faults
    <3>1. \A b \in Blk : tag'[b].bad => tag[b].bad
      BY <1>0, <2>1, <2>3, ErasedIs DEF FreshTag
    <3> QED
      BY <1>1, <2>1, <2>3, <3>1
  <2>4. CASE faults' = faults + 1 /\ tag' = [tag EXCEPT ![fmt.i] = BadTag]
    <3>1. \A c \in Blk \ {fmt.i} : tag'[c] = tag[c]
      BY <1>0, <2>4
    <3> QED
      BY <1>0, <2>1, <2>4, <3>1, FewBadOne
  <2> QED
    BY <1>8, <2>2, <2>3, <2>4 DEF FormatErase, FaultAt, flash
<1>9. CASE FormatTag
  <2>1. PICK b : b = fmt.i - NB
    OBVIOUS
  <2>2. \A c \in Blk : tag'[c].bad => tag[c].bad
    BY <1>9, <2>1, FormatTagIs
  <2>3. faults' = faults /\ pc' # "condemn"
    BY <1>9 DEF FormatTag, env
  <2> QED
    BY <1>1, <2>2, <2>3
<1>10. CASE CompareFF \/ Compare00 \/ EraseTested \/ CondemnSource
  BY <1>0, <1>10 DEF CompareFF, Compare00, EraseTested, CondemnSource, TestPcs
<1>11. CASE Flip
  BY <1>1, <1>11 DEF Flip
<1> QED
  BY <1>2, <1>3, <1>4, <1>5, <1>6, <1>7, <1>8, <1>9, <1>10, <1>11
  DEF Next, Call, Step, WriteStep, ReadStep, CopyStep, FormatStep

-----------------------------------------------------------------------------
(* The two loops of FTL_Format.                                            *)

LEMMA GoodAndBad == Cardinality(GoodBelow(NB)) + Cardinality(Bad) = NB
<1>1. Bad \in SUBSET Blk /\ GoodBelow(NB) = Blk \ Bad
  BY BlkNat DEF Bad, GoodBelow
<1>2. IsFiniteSet(Bad) /\ Bad \cap Blk = Bad
  BY <1>1, PartCounted
<1>3. Cardinality(Blk \ Bad) = Cardinality(Blk) - Cardinality(Blk \cap Bad)
  BY <1>2, BlkFinite, FS_Difference
<1>4. Blk \cap Bad = Bad /\ Cardinality(Bad) \in Nat /\ NB \in Nat
  BY <1>1, PartCounted, BlkNat
<1>5. PICK k \in Nat : k = Cardinality(Bad)
  BY <1>4
<1>6. Cardinality(GoodBelow(NB)) = NB - k
  BY <1>1, <1>3, <1>4, <1>5, BlkFinite, Zenon
<1>7. (NB - k) + k = NB
  BY <1>4
<1> QED
  BY <1>5, <1>6, <1>7

LEMMA GoodCounted ==
  ASSUME NEW n \in Nat
  PROVE  Cardinality(GoodBelow(n)) \in 0 .. NB
<1>1. GoodBelow(n) \in SUBSET Blk
  BY DEF GoodBelow
<1> QED
  BY <1>1, PartCounted, BlkNat

LEMMA NoneBelow == Cardinality(GoodBelow(0)) = 0
<1>1. GoodBelow(0) = {}
  BY BlkNat DEF GoodBelow
<1> QED
  BY <1>1, FS_EmptySet

(* The good blocks up to b, when only the tag of b may have changed.       *)
LEMMA GoodNext ==
  ASSUME NEW b \in Blk, \A c \in Blk : c < b => tag'[c].bad = tag[c].bad
  PROVE  Cardinality(GoodBelow(b + 1))' =
           IF tag'[b].bad THEN Cardinality(GoodBelow(b)) ELSE Cardinality(GoodBelow(b)) + 1
<1>0. b \in Nat /\ GoodBelow(b) \in SUBSET Blk /\ b \notin GoodBelow(b)
  BY BlkNat DEF GoodBelow
<1>3. \A c \in Blk : c < b + 1 <=> c < b \/ c = b
  BY BlkNat
<1>4. \A c \in Blk : c < b => (~tag'[c].bad <=> ~tag[c].bad)
  OBVIOUS
<1>5. \A c \in Blk : c = b => ~(c < b)
  BY BlkNat
<1>1. CASE tag'[b].bad
  <2>1. GoodBelow(b + 1)' = GoodBelow(b)
    BY <1>1, <1>3, <1>4, <1>5, Zenon DEF GoodBelow
  <2> QED
    BY <1>1, <2>1
<1>2. CASE ~tag'[b].bad
  <2>1. GoodBelow(b + 1)' = GoodBelow(b) \cup {b}
    BY <1>2, <1>3, <1>4, <1>5, Zenon DEF GoodBelow
  <2>2. IsFiniteSet(GoodBelow(b))
    BY <1>0, PartCounted
  <2>3. Cardinality(GoodBelow(b) \cup {b}) = Cardinality(GoodBelow(b)) + 1
    BY <1>0, <2>2, FS_AddElement
  <2> QED
    BY <1>2, <2>1, <2>3
<1> QED
  BY <1>1, <1>2

(* A format finds enough good blocks.                                      *)
Enough == LET good == Cardinality(GoodBelow(NB))
              q    == (good * Percent) \div 100
          IN  good >= MinBlocks /\ q \in 1 .. NB - 1 /\ q >= MinBlocks

LEMMA EnoughGood == ASSUME EnoughBlocks PROVE TypeInv /\ FewBad => Enough
<1> SUFFICES ASSUME TypeInv, FewBad PROVE Enough
  OBVIOUS
<1>1. PICK F \in FactoryBad : Cardinality(Bad) + Pending <= Cardinality(F) + faults
  BY DEF FewBad
<1>2. PICK g \in 0 .. NB : g = Cardinality(GoodBelow(NB))
  BY GoodCounted, BlkNat
<1>3. PICK b \in 0 .. NB : b = Cardinality(Bad)
  <2>1. Bad \in SUBSET Blk
    BY DEF Bad
  <2> QED
    BY <2>1, PartCounted, BlkNat
<1>4. PICK n \in 0 .. NB : n = Cardinality(F)
  <2>1. F \in SUBSET Blk
    BY <1>1, FTLAssumption
  <2> QED
    BY <2>1, PartCounted, BlkNat
<1>5. PICK p \in 0 .. 1 : p = Pending
  BY DEF Pending
<1>6. faults \in Nat /\ faults <= MaxFaults /\ MaxFaults \in Nat /\ NB \in Nat
  BY FTLAssumption, BlkNat DEF TypeInv, TypeOK, EnvType
<1>7. g + b = NB
  BY <1>2, <1>3, GoodAndBad
<1>8. b + p <= n + faults
  BY <1>1, <1>3, <1>4, <1>5
<1>9. g + n + MaxFaults >= NB
  BY <1>6, <1>7, <1>8
<1>10. g + Cardinality(F) + MaxFaults >= NB
  BY <1>4, <1>9
<1>11. LET q == (g * Percent) \div 100
       IN  g >= MinBlocks /\ q \in 1 .. NB - 1 /\ q >= MinBlocks
  BY <1>10 DEF EnoughBlocks
<1> QED
  BY <1>2, <1>11 DEF Enough

LEMMA EnoughGoodNext == ASSUME EnoughBlocks, TypeInv', FewBad' PROVE Enough'
  BY EnoughGood, PTL

LEMMA Unremembered ==
  ASSUME Remember, pc # "idle",
         pc \in FormatPcs \/ req.op # "write" \/ pc' # "idle" \/ rc' # 0
  PROVE  acked' = acked
  BY DEF Remember, Serving, FormatPcs

(* One block of the first loop ...                                        *)
LEMMA FormatEraseStep ==
  ASSUME TypeInv, TypeInv', ~lost, Formatting, FewBad', EnoughBlocks, FormatErase
  PROVE  /\ ~lost' /\ Formatting' /\ pc' \in {"fmtErase", "fmtTag"}
         /\ \E b \in Blk :
              /\ \A c \in Blk \ {b} : cell'[c] = cell[c] /\ tag'[c] = tag[c]
              /\ \/ tag[b].bad /\ tag'[b] = tag[b] /\ cell'[b] = cell[b]
                 \/ /\ \A p \in Page, s \in Sec : cell'[b][p][s] = BlankCell
                    /\ tag'[b] = FreshTag
                 \/ tag'[b] = BadTag /\ cell'[b] = cell[b]
<1>b. PICK b \in Blk : b = fmt.i
  BY DEF FormatErase, TypeInv, Shape
<1>0. /\ b \in Blk /\ fmt \in Formats /\ fmt.n = 0 /\ fmt.good \in Nat
      /\ FlashType /\ pc = "fmtErase" /\ NB \in Nat \ {0} /\ b \in Nat
      /\ FreshTag.lbn = NB /\ BadTag.lbn = NB /\ BadTag.bad /\ ~FreshTag.bad
  BY <1>b, BlkNat DEF FormatErase, TypeInv, TypeOK, CallType, Shape, Formats, FreshTag, BadTag
<1>2. /\ \A c \in Blk \ {b} : cell'[c] = cell[c] /\ tag'[c] = tag[c]
      /\ \/ /\ tag[b].bad /\ tag'[b] = tag[b] /\ cell'[b] = cell[b]
            /\ fmt'.good = fmt.good
         \/ /\ \A p \in Page, s \in Sec : cell'[b][p][s] = BlankCell
            /\ tag'[b] = FreshTag /\ fmt'.good = fmt.good + 1
         \/ tag'[b] = BadTag /\ cell'[b] = cell[b] /\ fmt'.good = fmt.good
      /\ fmt'.i = b + 1 /\ fmt'.n = 0
  <2>1. CASE tag[b].bad /\ fmt' = [fmt EXCEPT !.i = b + 1] /\ UNCHANGED flash
    BY <1>b, <1>0, <2>1 DEF flash, Formats
  <2>2. CASE Erased(b) /\ fmt' = [fmt EXCEPT !.i = b + 1, !.good = @ + 1]
    BY <1>0, <2>2, ErasedIs DEF Formats
  <2>3. CASE /\ tag' = [tag EXCEPT ![b] = BadTag] /\ UNCHANGED cell
             /\ fmt' = [fmt EXCEPT !.i = b + 1]
    BY <1>0, <2>3 DEF Formats, FlashType
  <2> QED
    BY <1>b, <2>1, <2>2, <2>3 DEF FormatErase, flash
<1>3. \A c \in Blk : c < b + 1 /\ ~tag'[c].bad => tag'[c].lbn = NB
  BY <1>b, <1>0, <1>2, BlkNat DEF Formatting
<1>4. fmt'.good = Cardinality(GoodBelow(b + 1))'
  <2>1. \A c \in Blk : c < b => tag'[c].bad = tag[c].bad
    BY <1>0, <1>2, BlkNat
  <2>2. Cardinality(GoodBelow(b + 1))' =
          IF tag'[b].bad THEN Cardinality(GoodBelow(b)) ELSE Cardinality(GoodBelow(b)) + 1
    BY <1>0, <2>1, GoodNext
  <2>3. fmt.good = Cardinality(GoodBelow(b))
    BY <1>b, <1>0 DEF Formatting
  <2> QED
    BY <1>0, <1>2, <2>2, <2>3
<1>5. /\ pc' = IF b # NB - 1 THEN "fmtErase"
                ELSE IF fmt'.good < MinBlocks THEN "idle" ELSE "fmtTag"
      /\ lost' = (lost \/ pc' = "idle")
  BY <1>b DEF FormatErase
<1>6. b = NB - 1 => /\ b + 1 = NB /\ fmt'.good >= MinBlocks
                    /\ fmt'.good \in Nat /\ (0 < Quota)'
  <2>1. SUFFICES ASSUME b = NB - 1
                 PROVE /\ b + 1 = NB /\ fmt'.good >= MinBlocks
                       /\ fmt'.good \in Nat /\ (0 < Quota)'
    OBVIOUS
  <2>2. b + 1 = NB
    BY <1>0, <2>1
  <2>3. fmt'.good = Cardinality(GoodBelow(NB))'
    BY <1>4, <2>2
  <2>4. Enough'
    BY EnoughGoodNext
  <2>5. fmt'.good \in Nat
    BY <1>0, <1>2
  <2> QED
    BY <1>0, <2>2, <2>3, <2>4, <2>5 DEF Enough, Quota
<1>7. pc' \in {"fmtErase", "fmtTag"} /\ (pc' = "fmtTag" => b = NB - 1) /\ ~lost'
  <2>1. MinBlocks \in Nat
    BY FTLAssumption
  <2>2. b = NB - 1 => ~(fmt'.good < MinBlocks)
    BY <1>6, <2>1
  <2>3. pc' \in {"fmtErase", "fmtTag"} /\ (pc' = "fmtTag" => b = NB - 1)
    BY <1>5, <2>2, Zenon
  <2> QED
    BY <1>5, <2>3
<1>8. Formatting'
  <2>1. CASE pc' = "fmtErase"
    BY <1>2, <1>3, <1>4, <2>1 DEF Formatting
  <2>2. CASE pc' = "fmtTag"
    <3>1. fmt'.i - NB = 0 /\ b + 1 = NB
      BY <1>0, <1>2, <1>6, <1>7, <2>2
    <3>2. fmt'.good = Cardinality(GoodBelow(NB))' /\ (0 < Quota)'
      BY <1>4, <1>6, <1>7, <2>2, <3>1
    <3>3. (Cardinality(GoodBelow(0)) = 0)'
      BY NoneBelow, PTL
    <3>4. \A c \in Blk : c >= 0 /\ ~tag'[c].bad => tag'[c].lbn = NB
      BY <1>0, <1>3, <3>1, BlkNat
    <3>5. \A l \in Blk : ~(l < 0)
      BY BlkNat
    <3> QED
      BY <1>2, <2>2, <3>1, <3>2, <3>3, <3>4, <3>5 DEF Formatting
  <2> QED
    BY <1>7, <2>1, <2>2
<1> QED
  BY <1>0, <1>2, <1>7, <1>8

(* ... and of the second.                                                  *)
TagStep(b, n) ==
    /\ b = fmt.i - NB /\ fmt.n \in Nat /\ fmt.n <= n /\ n < NB
    /\ n = IF ~tag[b].bad THEN fmt.n + 1 ELSE fmt.n
    /\ \A c \in Blk \ {b} : tag'[c] = tag[c]
    /\ tag[b].bad => tag'[b] = tag[b]
    /\ ~tag[b].bad => ~tag'[b].bad /\ tag'[b].lbn = fmt.n
    /\ tag'[b].used = tag[b].used
    /\ \A l \in Blk : l < n => \E c \in Blk : c < b + 1 /\ Tagged(c, l)'
    /\ \A c \in Blk : c >= b + 1 /\ ~tag'[c].bad => tag'[c].lbn = NB
    /\ \/ CreateLUT(tag') /\ pc' = "idle" /\ n >= MinBlocks
       \/ pc' = "fmtTag" /\ fmt'.i = fmt.i + 1 /\ fmt'.n = n

LEMMA FormatTagStep ==
  ASSUME TypeInv, Formatting, FewBad, EnoughBlocks, FormatTag
  PROVE  /\ cell' = cell /\ lost' = lost /\ Formatting' /\ pc' \in {"fmtTag", "idle"}
         /\ \E b \in Blk, n \in Nat : TagStep(b, n)
<1>b. PICK b : b = fmt.i - NB
  OBVIOUS
<1>0. /\ b \in Blk /\ b \in Nat /\ fmt \in Formats /\ pc = "fmtTag" /\ NB \in Nat \ {0}
      /\ fmt.good = Cardinality(GoodBelow(NB)) /\ fmt.n = Cardinality(GoodBelow(b))
      /\ fmt.n \in Nat /\ fmt.n < Quota /\ fmt.i = NB + b /\ tag \in [Blk -> Tag]
  <2>1. b \in Blk /\ fmt \in Formats /\ pc = "fmtTag" /\ fmt.i \in Nat /\ fmt.n \in Nat
    BY <1>b, FormatTagIs DEF FormatTag, TypeInv, TypeOK, CallType, Formats
  <2> QED
    BY <1>b, <2>1, BlkNat DEF Formatting, TypeInv, TypeOK, FlashType
<1>2. /\ \A c \in Blk \ {b} : tag'[c] = tag[c]
      /\ tag[b].bad => tag'[b] = tag[b]
      /\ ~tag[b].bad => ~tag'[b].bad /\ tag'[b].lbn = fmt.n
      /\ tag'[b].used = tag[b].used
  <2>1. ~tag[b].bad => tag[b].lbn = NB
    BY <1>b, <1>0, BlkNat DEF Formatting
  <2> QED
    BY <1>b, <2>1, FormatTagIs
<1>3. PICK n \in Nat : /\ n = IF ~tag[b].bad THEN fmt.n + 1 ELSE fmt.n
                       /\ n = Cardinality(GoodBelow(b + 1))' /\ fmt.n <= n
  <2>1. tag'[b].bad <=> tag[b].bad
    BY <1>2
  <2>2. Cardinality(GoodBelow(b + 1))' =
          IF tag'[b].bad THEN Cardinality(GoodBelow(b)) ELSE Cardinality(GoodBelow(b)) + 1
    BY <1>0, <1>2, GoodNext
  <2> QED
    BY <1>0, <2>1, <2>2
<1>4. Enough /\ MinBlocks \in Nat /\ Quota \in 1 .. NB - 1 /\ Quota >= MinBlocks
      /\ fmt.good >= MinBlocks /\ fmt.good \in Nat
  <2>1. Enough
    BY EnoughGood
  <2> QED
    BY <1>0, <2>1, FTLAssumption DEF Enough, Quota, Formats
<1>5. \/ /\ CreateLUT(tag') /\ pc' = "idle" /\ fmt' = NoFmt
         /\ b = NB - 1 \/ (~tag[b].bad /\ n = Quota)
      \/ /\ pc' = "fmtTag" /\ fmt' = [fmt EXCEPT !.i = @ + 1, !.n = n]
         /\ b # NB - 1 /\ ~(~tag[b].bad /\ n = Quota)
  BY <1>b, <1>0, <1>3, Zenon DEF FormatTag, Quota
<1>6. Cardinality(GoodBelow(NB))' = fmt.good
  <2>1. \A c \in Blk : ~tag'[c].bad <=> ~tag[c].bad
    BY <1>2
  <2>2. GoodBelow(NB)' = GoodBelow(NB)
    BY <2>1, Zenon DEF GoodBelow
  <2> QED
    BY <1>0, <2>2
<1>7. \A l \in Blk : l < n => \E c \in Blk : c < b + 1 /\ Tagged(c, l)'
  <2>1. SUFFICES ASSUME NEW l \in Blk, l < n
                 PROVE  \E c \in Blk : c < b + 1 /\ Tagged(c, l)'
    OBVIOUS
  <2>2. CASE l < fmt.n
    <3>1. PICK c \in Blk : c < b /\ Tagged(c, l)
      BY <1>b, <1>0, <2>2 DEF Formatting
    <3>2. c < b + 1 /\ c # b
      BY <1>0, <3>1, BlkNat
    <3> QED
      BY <1>2, <3>1, <3>2 DEF Tagged
  <2>3. CASE ~(l < fmt.n)
    <3>1. l = fmt.n /\ ~tag[b].bad /\ b < b + 1
      BY <1>0, <1>3, <2>1, <2>3, BlkNat
    <3> QED
      BY <1>0, <1>2, <3>1 DEF Tagged
  <2> QED
    BY <2>2, <2>3
<1>8. /\ \A c \in Blk : c >= b + 1 /\ ~tag'[c].bad => tag'[c].lbn = NB
      /\ n < NB
  <2>1. \A c \in Blk : c >= b + 1 => c # b /\ c >= b
    BY <1>0, BlkNat
  <2>2. n <= fmt.n + 1
    BY <1>0, <1>3
  <2> QED
    BY <1>b, <1>0, <1>2, <1>4, <2>1, <2>2 DEF Formatting
<1>9. cell' = cell /\ lost' = lost
  BY DEF FormatTag
<1>10. CASE pc' = "idle"
  <2>1. n >= MinBlocks
    <3>1. CASE b = NB - 1
      <4>1. b + 1 = NB
        BY <1>0, <3>1
      <4> QED
        BY <1>3, <1>4, <1>6, <4>1
    <3>2. CASE n = Quota
      BY <1>4, <3>2
    <3> QED
      BY <1>5, <1>10, <3>1, <3>2
  <2>2. Formatting' /\ CreateLUT(tag')
    BY <1>5, <1>10 DEF Formatting
  <2>3. TagStep(b, n)
    BY <1>b, <1>0, <1>2, <1>3, <1>7, <1>8, <1>10, <2>1, <2>2 DEF TagStep
  <2> QED
    BY <1>0, <1>9, <1>10, <2>2, <2>3
<1>11. CASE pc' # "idle"
  <2>1. pc' = "fmtTag" /\ fmt'.i = fmt.i + 1 /\ fmt'.n = n /\ fmt'.good = fmt.good
    BY <1>0, <1>5, <1>11 DEF Formats
  <2>2. fmt'.i - NB = b + 1
    BY <1>0, <2>1
  <2>3. n < Quota /\ Quota' = Quota
    <3>1. Quota' = Quota
      BY <2>1 DEF Quota
    <3> QED
      BY <1>0, <1>3, <1>4, <1>5, <1>11, <3>1
  <2>4. Formatting'
    BY <1>3, <1>6, <1>7, <1>8, <2>1, <2>2, <2>3 DEF Formatting
  <2>5. TagStep(b, n)
    BY <1>b, <1>0, <1>2, <1>3, <1>7, <1>8, <2>1 DEF TagStep
  <2> QED
    BY <1>0, <1>9, <2>1, <2>4, <2>5
<1> QED
  BY <1>10, <1>11

LEMMA FormatEraseHold ==
  ASSUME TypeInv, TypeInv', HoldInv, FewBad', EnoughBlocks, Remember, FormatErase
  PROVE  ~lost' /\ FreeBlank' /\ Numbers' /\ Formatting' /\ pc' \in {"fmtErase", "fmtTag"}
<1>0. /\ pc = "fmtErase" /\ NB \in Nat \ {0} /\ ~lost /\ Formatting
      /\ FreshTag.lbn = NB /\ BadTag.lbn = NB /\ BadTag.bad /\ ~FreshTag.bad
  BY BlkNat DEF FormatErase, FreshTag, BadTag, HoldInv
<1>1. acked' = acked
  BY <1>0, Unremembered DEF FormatPcs
<1>7. /\ ~lost' /\ Formatting' /\ pc' \in {"fmtErase", "fmtTag"}
  BY <1>0, FormatEraseStep
<1>2. PICK b \in Blk :
        /\ \A c \in Blk \ {b} : cell'[c] = cell[c] /\ tag'[c] = tag[c]
        /\ \/ tag[b].bad /\ tag'[b] = tag[b] /\ cell'[b] = cell[b]
           \/ /\ \A p \in Page, s \in Sec : cell'[b][p][s] = BlankCell
              /\ tag'[b] = FreshTag
           \/ tag'[b] = BadTag /\ cell'[b] = cell[b]
  BY <1>0, FormatEraseStep
<1>8. FreeBlank'
  <2>1. ASSUME NEW c \in Blk, Free(c)', NEW p \in Page, NEW s \in Sec
        PROVE  cell'[c][p][s] = BlankCell
    <3>1. CASE c # b
      BY <1>2, <2>1, <3>1 DEF HoldInv, FreeBlank, Free, BlankAt
    <3>2. CASE c = b
      BY <1>0, <1>2, <2>1, <3>2 DEF HoldInv, FreeBlank, Free, FreshTag
    <3> QED
      BY <3>1, <3>2
  <2> QED
    BY <2>1 DEF FreeBlank, BlankAt
<1>9. Numbers'
  <2>1. \A c \in Blk : tag'[c].lbn # NB - 1
    BY <1>0, <1>2 DEF HoldInv, Numbers
  <2>2. ~Promised'
    BY <1>0, <1>1 DEF HoldInv, Numbers, Promised
  <2> QED
    BY <1>7, <2>1, <2>2 DEF Numbers, FormatPcs
<1> QED
  BY <1>7, <1>8, <1>9

LEMMA FormatTagHold ==
  ASSUME TypeInv, HoldInv, EnoughBlocks, Remember, FormatTag
  PROVE  ~lost' /\ FreeBlank' /\ Numbers' /\ Formatting' /\ pc' \in {"fmtTag", "idle"}
<1>0. pc = "fmtTag" /\ Formatting /\ FewBad /\ ~lost /\ tag \in [Blk -> Tag]
  BY DEF FormatTag, HoldInv, TypeInv, TypeOK, FlashType
<1>1. /\ acked' = acked /\ cell' = cell /\ ~lost' /\ Formatting' /\ pc' \in {"fmtTag", "idle"}
  BY <1>0, FormatTagStep, Unremembered DEF FormatPcs
<1>2. PICK b \in Blk, n \in Nat : TagStep(b, n)
  BY <1>0, FormatTagStep
<1>8. FreeBlank'
  <2>1. ASSUME NEW c \in Blk, Free(c)' PROVE Free(c)
    <3>1. tag[b] \in Tag
      BY <1>0, <1>2
    <3>2. fmt.n # NB
      BY <1>2, BlkNat DEF TagStep
    <3> QED
      BY <1>2, <2>1, <3>1, <3>2 DEF Free, FreshTag, TagStep
  <2> QED
    BY <1>1, <2>1 DEF HoldInv, FreeBlank, BlankAt
<1>9. \A c \in Blk : tag'[c].lbn # NB - 1
  <2>1. ~tag[b].bad => fmt.n # NB - 1
    BY <1>2, BlkNat DEF TagStep
  <2> QED
    BY <1>2, <2>1 DEF HoldInv, Numbers, TagStep
<1>10. CASE pc' = "idle"
  <2>1. n >= MinBlocks /\ MinBlocks \in Nat
    BY <1>2, <1>10, FTLAssumption DEF TagStep
  <2>2. \A l \in Blk : l < MinBlocks => l < n
    BY <1>2, <2>1, BlkNat
  <2>3. \A c \in Blk : ~Spared(c)'
    BY <1>10 DEF Spared, DestPcs
  <2>4. Numbered'
    BY <1>2, <2>2, <2>3 DEF Numbered, TagStep
  <2> QED
    BY <1>1, <1>8, <1>9, <1>10, <2>4 DEF Numbers, FormatPcs
<1>11. CASE pc' # "idle"
  <2>1. ~Promised'
    BY <1>0, <1>1 DEF HoldInv, Numbers, Promised
  <2> QED
    BY <1>1, <1>8, <1>9, <1>11, <2>1 DEF Numbers, FormatPcs
<1> QED
  BY <1>10, <1>11

-----------------------------------------------------------------------------
(* What is promised before and after a step.                               *)

PromiseKept == \A s \in Sectors : Promise(s)' # Unknown
                 => Promise(s)' = Promise(s) \/ Backed(s, Promise(s))'

LEMMA PromiseSame ==
  ASSUME Closed, pc \in LoopPcs, pc' \in LoopPcs, UNCHANGED <<req, done, buf, acked>>
  PROVE  PromiseKept /\ Closed'
<1>1. Writing' = Writing /\ Asked' = Asked /\ At' = At
  BY DEF Writing, Asked, At
<1>2. \A s \in Sectors : Promise(s)' = Promise(s)
  BY <1>1 DEF Promise
<1> QED
  BY <1>1, <1>2 DEF Closed, PromiseKept

LEMMA AskedBelow ==
  ASSUME TypeInv, pc \in LoopPcs
  PROVE  /\ \A s \in Sectors : s >= req.first /\ s < At => s \in Asked
         /\ \A n \in 1 .. Left, s \in Sectors : s >= At /\ s < At + n => s \in Asked
<1>1. /\ req.first \in Nat /\ req.len \in Nat /\ done \in Nat /\ done < req.len
      /\ \A s \in Sectors : s \in Nat
  BY SectorPlace DEF TypeInv, TypeOK, CallType, Shape, Requests
<1>2. At = req.first + done /\ Left = req.len - done
  BY DEF At, Left
<1>3. \A s \in Sectors : s >= req.first /\ s < At => s < req.first + req.len
  BY <1>1, <1>2
<1>4. ASSUME NEW n \in 1 .. Left, NEW s \in Sectors, s >= At, s < At + n
      PROVE  s >= req.first /\ s < req.first + req.len
  BY <1>1, <1>2, <1>4
<1> QED
  BY <1>3, <1>4 DEF Asked

(* Outside a write only the acknowledged data is promised.                 *)
LEMMA PromiseEnd ==
  ASSUME TypeInv, Closed, acked' = acked, ~Writing'
  PROVE  PromiseKept /\ Closed'
<1>1. \A s \in Sectors : Promise(s)' = acked[s]
  BY DEF Promise
<1>2. ASSUME NEW s \in Sectors, acked[s] # Unknown PROVE Promise(s) = acked[s]
  <2>1. CASE Writing
    <3>1. s \notin Asked
      BY <1>2, <2>1 DEF Closed
    <3> QED
      BY <2>1, <3>1, AskedBelow DEF Promise, Writing
  <2>2. CASE ~Writing
    BY <2>2 DEF Promise
  <2> QED
    BY <2>1, <2>2
<1> QED
  BY <1>1, <1>2 DEF Closed, PromiseKept

LEMMA PromiseCall ==
  ASSUME TypeInv, TypeInv', CallWrite, Remember
  PROVE  PromiseKept /\ Closed'
<1>1. /\ pc = "idle" /\ pc' = "write" /\ done' = 0 /\ ~Writing
      /\ req'.first \in Nat /\ \A s \in Sectors : s \in Nat
  BY SectorPlace DEF CallWrite, Writing, LoopPcs, CopyPcs, TestPcs, TypeInv, TypeOK,
                     CallType, Requests
<1>2. acked' = [s \in Sectors |-> IF s \in Asking THEN Unknown ELSE acked[s]]
  BY <1>1 DEF Remember
<1>3. Asking = Asked'
  BY DEF Asking, Asked
<1>4. \A s \in Sectors : ~(s >= req'.first /\ s < At')
  BY <1>1 DEF At
<1>5. \A s \in Sectors : Promise(s)' = acked'[s] /\ Promise(s) = acked[s]
  BY <1>1, <1>4 DEF Promise
<1>6. Closed'
  <2>1. \A s \in Asked' : s \in Sectors
    BY DEF Asked
  <2> QED
    BY <1>2, <1>3, <2>1 DEF Closed
<1> QED
  BY <1>2, <1>5, <1>6 DEF PromiseKept

(* The caller's data for the sector is in the flash after the step.        *)
Arrived(s) == \E v : v = buf[s - req.first] /\ Backed(s, v)'

(* A write's loop goes on past n sectors, or returns 0 at the end.         *)
LEMMA PromiseAdvance ==
  ASSUME TypeInv, TypeInv', Closed, Writing, NEW n \in 1 .. Left, NEW m,
         Advance(n), Frame(m, buf), Remember,
         \A s \in Sectors : s >= At /\ s < At + n => Arrived(s)
  PROVE  PromiseKept /\ Closed'
<1>0. /\ pc \in LoopPcs /\ req.op = "write" /\ pc # "idle"
      /\ req.first \in Nat /\ done \in Nat /\ Left \in Nat /\ n \in Nat
      /\ Left = req.len - done /\ At = req.first + done /\ req.len \in Nat
      /\ \A s \in Sectors : s \in Nat
  BY Addressing, SectorPlace DEF Writing, LoopPcs, CopyPcs, TestPcs, TypeInv, TypeOK,
     CallType, Requests, Left, At
<1>1. CASE n >= Left
  <2>1. pc' = "idle" /\ rc' = 0 /\ ~Writing' /\ n = Left
    BY <1>0, <1>1 DEF Advance, Return, Writing, LoopPcs, CopyPcs, TestPcs
  <2>2. acked' = [s \in Sectors |-> IF s \in Asked THEN buf[s - req.first] ELSE acked[s]]
    <3>1. Serving
      BY <1>0 DEF Serving, LoopPcs, CopyPcs, TestPcs
    <3> QED
      BY <1>0, <2>1, <3>1 DEF Remember
  <2>3. ASSUME NEW s \in Sectors PROVE Promise(s)' = Promise(s) \/ Backed(s, Promise(s))'
    <3>1. Promise(s)' = IF s \in Asked THEN buf[s - req.first] ELSE acked[s]
      BY <2>1, <2>2 DEF Promise
    <3>2. CASE s \notin Asked
      <4>1. ~(s >= req.first /\ s < At)
        BY <1>0, <3>2, AskedBelow
      <4> QED
        BY <3>1, <3>2, <4>1 DEF Promise
    <3>3. CASE s \in Asked /\ s < At
      <4>1. s >= req.first
        BY <3>3 DEF Asked
      <4> QED
        BY <3>1, <3>3, <4>1 DEF Promise
    <3>4. CASE s \in Asked /\ ~(s < At)
      <4>1. s >= At /\ s < At + n
        BY <1>0, <2>1, <3>4 DEF Asked
      <4>2. PICK v : v = buf[s - req.first] /\ Backed(s, v)'
        BY <4>1 DEF Arrived
      <4> QED
        BY <3>1, <3>4, <4>2 DEF Backed
    <3> QED
      BY <3>2, <3>3, <3>4
  <2> QED
    BY <2>1, <2>3 DEF Closed, PromiseKept
<1>2. CASE ~(n >= Left)
  <2>1. /\ pc' = "write" /\ done' = done + n /\ req' = req /\ buf' = buf
        /\ acked' = acked /\ Writing' /\ At' = At + n
    <3>1. pc' = "write" /\ done' = done + n
      BY <1>0, <1>2 DEF Advance
    <3>2. req' = req /\ buf' = buf
      BY <3>1 DEF Frame
    <3>3. acked' = acked
      BY <1>0, <3>1, Unremembered
    <3>4. At' = At + n
      BY <1>0, <3>1, <3>2 DEF At
    <3> QED
      BY <1>0, <3>1, <3>2, <3>3, <3>4 DEF Writing, LoopPcs
  <2>2. ASSUME NEW s \in Sectors PROVE Promise(s)' = Promise(s) \/ Backed(s, Promise(s))'
    <3>1. Promise(s)' = IF s >= req.first /\ s < At + n THEN buf[s - req.first] ELSE acked[s]
      BY <2>1 DEF Promise
    <3>2. CASE s >= At /\ s < At + n
      <4>1. PICK v : v = buf[s - req.first] /\ Backed(s, v)'
        BY <3>2 DEF Arrived
      <4>2. s >= req.first
        BY <1>0, <3>2
      <4> QED
        BY <3>1, <3>2, <4>1, <4>2 DEF Backed
    <3>3. CASE ~(s >= At /\ s < At + n)
      <4>1. s < At + n <=> s < At
        BY <1>0, <3>3
      <4> QED
        BY <3>1, <4>1 DEF Promise
    <3> QED
      BY <3>2, <3>3
  <2>3. Closed'
    BY <2>1 DEF Closed, Asked
  <2> QED
    BY <2>2, <2>3 DEF PromiseKept
<1> QED
  BY <1>1, <1>2

-----------------------------------------------------------------------------
(* Steps that leave the numbered blocks, but a copy's destination, alone.  *)

Settled ==
    \A b \in Blk : ~Spared(b) /\ ~tag[b].bad /\ tag[b].lbn # NB
      => /\ ~Spared(b)' /\ cell'[b] = cell[b]
         /\ ~tag'[b].bad /\ tag'[b].lbn = tag[b].lbn

LEMMA SettledBacked ==
  ASSUME Settled, NEW s \in Sectors, NEW v, Backed(s, v)
  PROVE  Backed(s, v)'
<1>1. PICK b \in Blk : ~Spared(b) /\ Holds(b, s, v)
  BY DEF Backed
<1>2. ~tag[b].bad /\ tag[b].lbn = s \div SPB /\ Value(b, s) = v
  BY <1>1 DEF Holds, Tagged
<1>3. tag[b].lbn # NB
  BY <1>2, SectorPlace, BlkNat
<1>4. ~Spared(b)' /\ cell'[b] = cell[b] /\ ~tag'[b].bad /\ tag'[b].lbn = s \div SPB
  BY <1>1, <1>2, <1>3 DEF Settled
<1>5. Holds(b, s, v)'
  BY <1>2, <1>4 DEF Holds, Tagged, Value
<1> QED
  BY <1>4, <1>5 DEF Backed

LEMMA SettledKept ==
  ASSUME Settled, Kept, PromiseKept
  PROVE  Kept'
<1> SUFFICES ASSUME NEW s \in Sectors, Promise(s)' # Unknown
             PROVE  Backed(s, Promise(s))'
  BY DEF Kept
<1>1. CASE Promise(s)' = Promise(s)
  <2>1. PICK v : v = Promise(s)
    OBVIOUS
  <2>2. Backed(s, v)
    BY <1>1, <2>1 DEF Kept
  <2>3. Backed(s, v)'
    BY <2>2, SettledBacked
  <2> QED
    BY <1>1, <2>1, <2>3 DEF Backed
<1> QED
  BY <1>1 DEF PromiseKept

LEMMA SettledNumbers ==
  ASSUME Settled, Numbers, pc \notin FormatPcs, pc' \notin FormatPcs,
         \A b \in Blk : tag'[b].lbn # NB - 1
  PROVE  Numbers'
<1>1. ASSUME NEW l \in Blk, l < MinBlocks
      PROVE  \E b \in Blk : ~Spared(b)' /\ Tagged(b, l)'
  <2>1. PICK b \in Blk : ~Spared(b) /\ Tagged(b, l)
    BY <1>1 DEF Numbers, Numbered
  <2>2. tag[b].lbn # NB
    BY <2>1, BlkNat DEF Tagged
  <2> QED
    BY <2>1, <2>2 DEF Settled, Tagged
<1> QED
  BY <1>1 DEF Numbers, Numbered, FormatPcs

(* Where no destination is chosen yet, unchanged flash is settled.         *)
LEMMA QuietSettled ==
  ASSUME UNCHANGED flash, pc' \notin DestPcs \ {"fixlut"}
  PROVE  Settled
  BY DEF Settled, flash, Spared

(* The parts of HoldInv that a step of a call leaves alone.                *)
Rest == ~lost' /\ FreeBlank' /\ Numbers' /\ Formatting' /\ RunWritten' /\ Copying'

LEMMA OutsideHold ==
  ASSUME TypeInv, HoldInv, Remember, UNCHANGED flash, lost' = lost,
         pc \notin FormatPcs, pc' \in {"idle", "write", "read"}
  PROVE  Rest
<1>1. FreeBlank'
  BY DEF HoldInv, FreeBlank, Free, BlankAt, flash
<1>2. Settled
  BY QuietSettled DEF DestPcs
<1>3. Numbers'
  BY <1>2, SettledNumbers DEF HoldInv, Numbers, FormatPcs, flash
<1> QED
  BY <1>1, <1>3 DEF Rest, Formatting, RunWritten, Copying, HoldInv, CopyPcs, DestPcs

LEMMA CallHold ==
  ASSUME TypeInv, TypeInv', HoldInv, Odd = {}, Remember,
         CallWrite \/ CallRead \/ Unmapped \/ ReadTimeout \/ ReadRun
  PROVE  Rest /\ Closed' /\ Kept'
<1>1. /\ UNCHANGED flash /\ lost' = lost
      /\ pc \notin FormatPcs /\ pc' \in {"idle", "write", "read"}
  <2>1. CASE CallWrite \/ CallRead \/ Unmapped \/ ReadTimeout
    BY <2>1 DEF CallWrite, CallRead, Unmapped, ReadTimeout, Return, FormatPcs
  <2>2. CASE ReadRun
    <3>1. pc \in LoopPcs /\ req.op = "read" /\ PBN \in Blk
      <4>1. pc = "read" /\ req.op = "read" /\ PBN # NB
        BY <2>2 DEF ReadRun, TypeInv, Shape
      <4>2. pc \in LoopPcs
        BY <4>1 DEF LoopPcs
      <4>3. PBN \in 0 .. NB
        BY <4>2, Addressing
      <4> QED
        BY <4>1, <4>2, <4>3, BlkNat DEF Blk
    <3>2. Advance(PageRun)
      BY <2>2, <3>1, NoRepair DEF ReadRun, HoldInv
    <3> QED
      BY <2>2, <3>1, <3>2 DEF ReadRun, Advance, Return, FormatPcs
  <2> QED
    BY <2>1, <2>2
<1>2. Rest
  BY <1>1, OutsideHold
<1>3. PromiseKept /\ Closed'
  <2>1. CASE CallWrite
    BY <2>1, PromiseCall
  <2>2. CASE CallRead \/ Unmapped \/ ReadTimeout \/ ReadRun
    <3>1. acked' = acked
      <4>1. CASE CallRead
        BY <4>1 DEF CallRead, Remember, Serving
      <4>2. CASE Unmapped \/ ReadTimeout
        <5>1. pc # "idle" /\ rc' # 0
          BY <4>2 DEF Unmapped, ReadTimeout, Return
        <5> QED
          BY <5>1, Unremembered
      <4>3. CASE ReadRun
        <5>1. pc # "idle" /\ req.op # "write"
          BY <4>3 DEF ReadRun, TypeInv, Shape
        <5> QED
          BY <5>1, Unremembered
      <4> QED
        BY <2>2, <4>1, <4>2, <4>3
    <3>2. ~Writing'
      <4>1. CASE CallRead
        BY <4>1 DEF CallRead, Writing
      <4>2. CASE Unmapped \/ ReadTimeout
        BY <4>2 DEF Unmapped, ReadTimeout, Return, Writing, LoopPcs, CopyPcs, TestPcs
      <4>3. CASE ReadRun
        <5>1. req.op = "read"
          BY <4>3 DEF ReadRun, TypeInv, Shape
        <5>2. req'.op = "read" \/ pc' = "idle"
          BY <4>3, <5>1 DEF ReadRun, Frame
        <5> QED
          BY <5>2 DEF Writing, LoopPcs, CopyPcs, TestPcs
      <4> QED
        BY <2>2, <4>1, <4>2, <4>3
    <3> QED
      BY <3>1, <3>2, PromiseEnd DEF HoldInv
  <2> QED
    BY <2>1, <2>2
<1>4. Kept'
  BY <1>1, <1>3, QuietSettled, SettledKept DEF HoldInv, DestPcs
<1> QED
  BY <1>2, <1>3, <1>4

LEMMA BootHold ==
  ASSUME TypeInv, TypeInv', HoldInv, Remember, Boot
  PROVE  Rest /\ Closed' /\ Kept'
<1>0. /\ pc = "boot" /\ UNCHANGED flash /\ lost' = lost /\ CreateLUT(tag')
      /\ pc' = IF valid' < MinBlocks THEN "fmtErase" ELSE "idle"
      /\ fmt' = NoFmt /\ MinBlocks \in Nat
  BY FTLAssumption DEF Boot, flash
<1>1. acked' = acked /\ ~Writing' /\ pc' \in {"idle", "fmtErase"}
  BY <1>0, Unremembered DEF FormatPcs, Writing, LoopPcs, CopyPcs, TestPcs
<1>2. PromiseKept /\ Closed'
  BY <1>1, PromiseEnd DEF HoldInv
<1>3. Kept'
  BY <1>0, <1>1, <1>2, QuietSettled, SettledKept DEF HoldInv, DestPcs
<1>4. \A l \in Blk : lut'[l] # NB <=> \E b \in Blk : Tagged(b, l)
  <2>1. tag' = tag /\ lut' = TaggedLut(tag)
    BY <1>0 DEF flash, CreateLUT
  <2>2. \A l \in Blk : (\E b \in Blk : Tagged(b, l)) => lut'[l] # NB
    BY <1>0, <2>1, Rebuilt DEF Tagged
  <2>3. TaggedLut(tag) \in [Blk -> 0 .. NB]
    BY TaggedLutType
  <2>4. ASSUME NEW l \in Blk, lut'[l] # NB PROVE \E b \in Blk : Tagged(b, l)
    <3>1. lut'[l] \in Blk
      BY <2>1, <2>3, <2>4, BlkNat DEF Blk
    <3>2. Tagged(lut'[l], l)
      BY <2>1, <2>4, TaggedLutType DEF Tagged
    <3> QED
      BY <3>1, <3>2
  <2> QED
    BY <2>2, <2>4
<1>5. /\ valid' \in Nat /\ \A l \in Blk : l < valid' => lut'[l] # NB
      /\ valid' \in Blk /\ lut'[valid'] = NB
  <2>1. NB - 1 \in Blk /\ ~\E b \in Blk : Tagged(b, NB - 1)
    <3>1. NB - 1 \in Blk
      BY BlkNat DEF Blk
    <3> QED
      BY <3>1 DEF HoldInv, Numbers, Tagged
  <2>2. lut'[NB - 1] = NB
    BY <1>4, <2>1
  <2> QED
    BY <1>0, <2>1, <2>2, Rebuilt, BlkNat
<1>6. Promised => pc' = "idle"
  <2>1. SUFFICES ASSUME Promised PROVE ~(valid' < MinBlocks)
    BY <1>0
  <2>2. \A l \in Blk : l < MinBlocks => lut'[l] # NB
    BY <1>0, <1>4, <2>1 DEF HoldInv, Numbers, Numbered
  <2> QED
    BY <1>5, <2>2
<1>7. pc' = "idle" => Numbered'
  <2>1. SUFFICES ASSUME pc' = "idle", NEW l \in Blk, l < MinBlocks
                 PROVE  \E b \in Blk : ~Spared(b)' /\ Tagged(b, l)'
    BY DEF Numbered
  <2>2. l < valid'
    <3>1. ~(valid' < MinBlocks)
      BY <1>0, <2>1
    <3> QED
      BY <1>0, <1>5, <2>1, <3>1, BlkNat
  <2>3. PICK b \in Blk : Tagged(b, l)
    BY <1>4, <1>5, <2>2
  <2> QED
    BY <1>0, <2>1, <2>3 DEF Spared, DestPcs, Tagged, flash
<1>8. Numbers'
  <2>1. Promised' = Promised
    BY <1>1 DEF Promised
  <2> QED
    BY <1>0, <1>1, <1>6, <1>7, <2>1 DEF Numbers, FormatPcs, HoldInv, flash
<1>9. Formatting'
  <2>1. (Cardinality(GoodBelow(0)) = 0)'
    BY NoneBelow, PTL
  <2>2. \A b \in Blk : ~(b < 0)
    BY BlkNat
  <2> QED
    BY <1>0, <1>1, <2>1, <2>2 DEF Formatting, NoFmt
<1>10. FreeBlank' /\ RunWritten' /\ Copying' /\ ~lost'
  BY <1>0, <1>1 DEF HoldInv, FreeBlank, Free, BlankAt, flash, RunWritten, Copying, CopyPcs,
                    DestPcs
<1> QED
  BY <1>2, <1>3, <1>8, <1>9, <1>10 DEF Rest

LEMMA RebootHold ==
  ASSUME TypeInv, HoldInv, Remember, Reinit \/ Crash
  PROVE  Rest /\ Closed' /\ Kept'
<1>0. pc' = "boot" /\ UNCHANGED flash /\ lost' = lost /\ acked' = acked
  BY DEF Reinit, Crash, Remember
<1>1. PromiseKept /\ Closed'
  BY <1>0, PromiseEnd DEF HoldInv, Writing, LoopPcs, CopyPcs, TestPcs
<1>2. Settled
  BY <1>0, QuietSettled DEF DestPcs
<1>3. Kept'
  BY <1>1, <1>2, SettledKept DEF HoldInv
<1>4. Promised' => Numbered'
  <2>1. SUFFICES ASSUME Promised, NEW l \in Blk, l < MinBlocks
                 PROVE  \E b \in Blk : ~Spared(b)' /\ Tagged(b, l)'
    BY <1>0 DEF Promised, Numbered
  <2>2. Numbered
    BY <2>1 DEF HoldInv, Numbers, FormatPcs
  <2>3. PICK b \in Blk : Tagged(b, l)
    BY <2>1, <2>2 DEF Numbered
  <2> QED
    BY <1>0, <2>3 DEF Spared, DestPcs, Tagged, flash
<1>5. Numbers'
  BY <1>0, <1>4 DEF HoldInv, Numbers, FormatPcs, flash
<1> QED
  BY <1>0, <1>1, <1>3, <1>5
  DEF Rest, HoldInv, FreeBlank, Free, BlankAt, flash, Formatting, RunWritten, Copying,
      CopyPcs, DestPcs

-----------------------------------------------------------------------------
(* The write loop.                                                         *)

LEMMA SamePlace ==
  ASSUME UNCHANGED <<req, done>>
  PROVE  /\ At' = At /\ InBlock' = InBlock /\ PageNo' = PageNo /\ SecNo' = SecNo
         /\ BlockRun' = BlockRun /\ PageRun' = PageRun /\ Left' = Left /\ Span' = Span
  BY DEF At, InBlock, PageNo, SecNo, BlockRun, PageRun, Left, Span

LEMMA LoopBlock ==
  ASSUME TypeInv, LutInv, ~lost, pc \in {"write", "mark", "read"}, PBN # NB
  PROVE  /\ PBN \in Blk /\ Tagged(PBN, At \div SPB) /\ tag[PBN].lbn # NB
         /\ pc \in LoopPcs /\ At \div SPB \in Blk
<1>1. pc \in LoopPcs /\ pc \notin FormatPcs \cup {"fixlut"}
  BY DEF LoopPcs, FormatPcs
<1>2. At \div SPB \in Nat
  BY <1>1, Addressing
<1>3. PBN = lut[At \div SPB] /\ At \div SPB \in Blk
  BY <1>2, BlkNat DEF PBN, LBNToPBN, Blk
<1>4. PBN \in Blk /\ Tagged(PBN, At \div SPB)
  BY <1>1, <1>3, MappedTagged
<1> QED
  BY <1>1, <1>3, <1>4, BlkNat DEF Tagged

LEMMA StartCopyHold ==
  ASSUME TypeInv, LutInv, ~lost, pc \in {"write", "mark", "read"}, PBN # NB, req' = req,
         KeepsNumbers, StartCopy(Span)
  PROVE  Copying' /\ pc' = "find"
<1>1. /\ cp' = [src |-> PBN, dst |-> NB, page |-> 0, off |-> PageNo,
                col |-> SecNo, pos |-> done, left |-> Span]
      /\ pc' = "find" /\ done' = done
  BY DEF StartCopy
<1>2. Begun'
  BY <1>1, SamePlace DEF Begun
<1>3. ~tag'[PBN].bad /\ tag'[PBN].lbn = At \div SPB
  BY LoopBlock DEF KeepsNumbers, Tagged
<1>4. cp'.src = PBN /\ At' = At
  BY <1>1, SamePlace
<1>5. Tagged(cp.src, At \div SPB)'
  BY <1>3, <1>4 DEF Tagged
<1> QED
  BY <1>1, <1>2, <1>5 DEF Copying, DestPcs

LEMMA WriteMoveHold ==
  ASSUME TypeInv, LutInv, HoldInv, Remember, WriteMove
  PROVE  Rest /\ Closed' /\ Kept'
<1>0. /\ pc = "write" /\ PBN # NB /\ StartCopy(Span) /\ UNCHANGED flash
      /\ UNCHANGED <<req, buf, lost>> /\ ~lost
  BY DEF WriteMove, HoldInv, TypeInv, Shape, Span
<1>1. pc' = "find" /\ Copying'
  <2>1. KeepsNumbers
    BY <1>0 DEF KeepsNumbers, flash
  <2> QED
    BY <1>0, <2>1, StartCopyHold
<1>2. done' = done /\ acked' = acked
  BY <1>0, <1>1, Unremembered DEF StartCopy
<1>3. PromiseKept /\ Closed'
  BY <1>0, <1>1, <1>2, PromiseSame DEF HoldInv, LoopPcs, CopyPcs
<1>4. Settled
  BY <1>0, <1>1, QuietSettled DEF DestPcs
<1>5. Kept'
  BY <1>3, <1>4, SettledKept DEF HoldInv
<1>6. Numbers'
  BY <1>0, <1>1, <1>4, SettledNumbers DEF HoldInv, Numbers, FormatPcs, flash
<1> QED
  BY <1>0, <1>1, <1>3, <1>5, <1>6
  DEF Rest, HoldInv, FreeBlank, Free, BlankAt, flash, Formatting, RunWritten

(* Blank cells take what is programmed.                                    *)
LEMMA WrittenIs ==
  ASSUME TypeInv, pc \in LoopPcs, PBN \in Blk,
         \A s \in Run : LooksBlank(cell[PBN][PageNo][s])
  PROVE  \A s \in Sec :
           /\ s \in Run => /\ Written(cell[PBN][PageNo])[s].val = buf[done + (s - SecNo)]
                           /\ Written(cell[PBN][PageNo])[s].flip = FALSE
           /\ s \notin Run => Written(cell[PBN][PageNo])[s] = cell[PBN][PageNo][s]
<1>1. ASSUME NEW s \in Sec, s \in Run
      PROVE  /\ Written(cell[PBN][PageNo])[s].val = buf[done + (s - SecNo)]
             /\ Written(cell[PBN][PageNo])[s].flip = FALSE
  <2>1. cell[PBN][PageNo][s].val = FF /\ ~cell[PBN][PageNo][s].flip
    BY <1>1 DEF LooksBlank
  <2>2. Written(cell[PBN][PageNo])[s]
          = Program(cell[PBN][PageNo][s], DataCell(buf[done + (s - SecNo)]))
    BY <1>1 DEF Written
  <2>3. PICK old : old = cell[PBN][PageNo][s]
    OBVIOUS
  <2>4. PICK v : v = buf[done + (s - SecNo)]
    OBVIOUS
  <2>5. Program(old, DataCell(v)).val = v
    BY <2>1, <2>3 DEF Program, AndVal, DataCell
  <2>6. Program(old, DataCell(v)).flip = (old.flip \/ DataCell(v).flip)
    BY DEF Program
  <2>7. DataCell(v).flip = FALSE
    BY DEF DataCell
  <2>8. Program(old, DataCell(v)).flip = FALSE
    BY <2>1, <2>3, <2>6, <2>7, Zenon
  <2> QED
    BY <2>2, <2>3, <2>4, <2>5, <2>8, Zenon
<1>2. ASSUME NEW s \in Sec, s \notin Run
      PROVE  Written(cell[PBN][PageNo])[s] = cell[PBN][PageNo][s]
  BY <1>2 DEF Written
<1> QED
  BY <1>1, <1>2

StillBacked == \A s \in Sectors : Promise(s) # Unknown
                 => \E v : v = Promise(s) /\ Backed(s, v)'

LEMMA KeptFrom ==
  ASSUME PromiseKept, StillBacked
  PROVE  Kept'
<1> SUFFICES ASSUME NEW s \in Sectors, Promise(s)' # Unknown
             PROVE  Backed(s, Promise(s))'
  BY DEF Kept
<1>1. CASE Promise(s)' = Promise(s)
  <2>1. PICK v : v = Promise(s) /\ Backed(s, v)'
    BY <1>1 DEF StillBacked
  <2> QED
    BY <1>1, <2>1 DEF Backed
<1> QED
  BY <1>1 DEF PromiseKept

(* What the loop is writing is not promised yet.                           *)
LEMMA RunUnpromised ==
  ASSUME TypeInv, Closed, Writing, NEW n \in 1 .. Left, NEW s \in Sectors,
         s >= At, s < At + n
  PROVE  Promise(s) = Unknown
<1>1. s \in Asked /\ pc \in LoopPcs
  BY AskedBelow DEF Writing
<1>2. acked[s] = Unknown
  BY <1>1 DEF Closed
<1>3. At \in Nat /\ s \in Nat
  BY <1>1, Addressing, SectorPlace
<1>4. ~(s < At)
  BY <1>3
<1> QED
  BY <1>2, <1>4 DEF Promise

LEMMA SectorOffset ==
  ASSUME TypeInv, pc \in LoopPcs, NEW s \in Sectors, NEW k, k = s - At
  PROVE  done + k = s - req.first
<1>1. /\ At = req.first + done /\ req.first \in Nat /\ done \in Nat /\ s \in Nat
  BY SectorPlace DEF At, TypeInv, TypeOK, CallType, Requests
<1> QED
  BY <1>1

(* What one iteration programs, and where the loop goes on.                *)
RunArrived == \A s \in Sectors : s >= At /\ s < At + PageRun =>
                /\ cell'[PBN][(s % SPB) \div SPP][s % SPP].val = buf[s - req.first]
                /\ cell'[PBN][(s % SPB) \div SPP][s % SPP].flip = FALSE

LEMMA WriteDirectStep ==
  ASSUME TypeInv, PBN \in Blk, WriteDirect
  PROVE  /\ \A b \in Blk, p \in Page, s \in Sec :
              b # PBN \/ p # PageNo \/ s \notin Run => cell'[b][p][s] = cell[b][p][s]
         /\ \/ /\ RunArrived
               /\ (pc' = "mark" /\ UNCHANGED <<done, cp, rc>>) \/ Advance(PageRun)
            \/ StartCopy(Span)
<1>0. /\ pc = "write" /\ PBN \in Blk /\ pc \in LoopPcs /\ req.op = "write"
      /\ PageNo \in Page /\ FlashType
  <2>1. pc = "write" /\ pc \in LoopPcs
    BY DEF WriteDirect, LoopPcs
  <2> QED
    BY <2>1, Addressing DEF TypeInv, TypeOK, Shape
<1>1. \A s \in Run : LooksBlank(cell[PBN][PageNo][s])
  BY DEF WriteDirect
<1>2. \/ /\ cell' = [cell EXCEPT ![PBN][PageNo] = Written(cell[PBN][PageNo])]
         /\ \/ pc' = "mark" /\ UNCHANGED <<done, cp, rc>>
            \/ Advance(PageRun)
      \/ StartCopy(Span)
  BY <1>0 DEF WriteDirect, Span
<1>3. \/ cell' = [cell EXCEPT ![PBN][PageNo] = Written(cell[PBN][PageNo])]
      \/ cell' = cell
  BY DEF WriteDirect
<1>4. \A b \in Blk, p \in Page, s \in Sec :
        b # PBN \/ p # PageNo \/ s \notin Run => cell'[b][p][s] = cell[b][p][s]
  <2>1. CASE cell' = [cell EXCEPT ![PBN][PageNo] = Written(cell[PBN][PageNo])]
    <3>1. \A s \in Sec : s \notin Run
             => Written(cell[PBN][PageNo])[s] = cell[PBN][PageNo][s]
      BY <1>0, <1>1, WrittenIs
    <3>2. PICK d \in Blk, q \in Page : d = PBN /\ q = PageNo
      BY <1>0
    <3>3. PICK page : page = Written(cell[PBN][PageNo])
      OBVIOUS
    <3>4. cell' = [cell EXCEPT ![d][q] = page] /\ FlashType
      BY <1>0, <2>1, <3>2, <3>3, Zenon
    <3>5. ASSUME NEW b \in Blk, NEW p \in Page
          PROVE  cell'[b][p] = IF b = d /\ p = q THEN page ELSE cell[b][p]
      BY <3>4 DEF FlashType
    <3>6. \A s \in Sec : s \notin Run => page[s] = cell[d][q][s]
      BY <3>1, <3>2, <3>3, Zenon
    <3> QED
      BY <3>2, <3>5, <3>6
  <2>2. CASE cell' = cell
    BY <2>2
  <2> QED
    BY <1>3, <2>1, <2>2
<1>5. ASSUME cell' = [cell EXCEPT ![PBN][PageNo] = Written(cell[PBN][PageNo])],
             NEW s \in Sectors, s >= At, s < At + PageRun
      PROVE  /\ cell'[PBN][(s % SPB) \div SPP][s % SPP].val = buf[s - req.first]
             /\ cell'[PBN][(s % SPB) \div SPP][s % SPP].flip = FALSE
  <2>1. /\ s \div SPB = At \div SPB /\ (s % SPB) \div SPP = PageNo
        /\ s % SPP \in Run /\ (s % SPP) - SecNo = s - At
    BY <1>0, <1>5, PageRunPlace
  <2>2. s % SPP \in Sec /\ done + ((s % SPP) - SecNo) = s - req.first
    BY <1>0, <2>1, SectorPlace, PlaceOf, SectorOffset
  <2>3. /\ cell'[PBN][PageNo][s % SPP].val = buf[done + ((s % SPP) - SecNo)]
        /\ cell'[PBN][PageNo][s % SPP].flip = FALSE
    <3>1. cell'[PBN][PageNo] = Written(cell[PBN][PageNo])
      <4>1. PICK b \in Blk, p \in Page : b = PBN /\ p = PageNo
        BY <1>0
      <4>2. PICK page : page = Written(cell[PBN][PageNo])
        OBVIOUS
      <4>3. cell' = [cell EXCEPT ![b][p] = page] /\ FlashType
        BY <1>0, <1>5, <4>1, <4>2, Zenon
      <4>4. cell'[b][p] = page
        BY <4>3, Zenon DEF FlashType
      <4> QED
        BY <4>1, <4>2, <4>4
    <3>2. PICK c \in Sec : c = s % SPP
      BY <2>2
    <3>3. /\ Written(cell[PBN][PageNo])[c].val = buf[done + (c - SecNo)]
          /\ Written(cell[PBN][PageNo])[c].flip = FALSE
      BY <1>0, <1>1, <2>1, <3>2, WrittenIs
    <3> QED
      BY <3>1, <3>2, <3>3
  <2> QED
    BY <2>1, <2>2, <2>3
<1>6. cell' = [cell EXCEPT ![PBN][PageNo] = Written(cell[PBN][PageNo])] => RunArrived
  BY <1>5 DEF RunArrived
<1> QED
  BY <1>2, <1>4, <1>6

LEMMA WriteDirectHold ==
  ASSUME TypeInv, TypeInv', LutInv, HoldInv, Remember, WriteDirect
  PROVE  Rest /\ Closed' /\ Kept'
<1>0. /\ pc = "write" /\ PBN \in Blk /\ PBN # NB /\ Tagged(PBN, At \div SPB)
      /\ tag[PBN].lbn # NB /\ pc \in LoopPcs /\ req.op = "write" /\ Writing
      /\ PageNo \in Page /\ FlashType /\ PageRun \in 1 .. Left
      /\ UNCHANGED <<tag, lut, valid, lost>> /\ Frame(markd, buf) /\ ~lost
  <2>1. pc = "write" /\ PBN # NB /\ ~lost /\ req.op = "write"
    BY DEF WriteDirect, HoldInv, TypeInv, Shape
  <2> QED
    BY <2>1, LoopBlock, Addressing DEF WriteDirect, ram, Writing, TypeInv, TypeOK
<1>2. \/ /\ RunArrived
         /\ (pc' = "mark" /\ UNCHANGED <<done, cp, rc>>) \/ Advance(PageRun)
      \/ StartCopy(Span)
  BY <1>0, WriteDirectStep
<1>4. \A b \in Blk, p \in Page, s \in Sec :
        b # PBN \/ p # PageNo \/ s \notin Run => cell'[b][p][s] = cell[b][p][s]
  BY <1>0, WriteDirectStep
<1>5. ASSUME RunArrived, NEW s \in Sectors, s >= At, s < At + PageRun
      PROVE  /\ s \div SPB = At \div SPB
             /\ cell'[PBN][(s % SPB) \div SPP][s % SPP].val = buf[s - req.first]
  BY <1>0, <1>5, PageRunPlace DEF RunArrived
<1>6. ~lost' /\ pc' \in {"mark", "idle", "write", "find"} /\ (pc' # "idle" => req' = req /\ buf' = buf)
  BY <1>0, <1>2 DEF Advance, Return, StartCopy, Frame
<1>7. StillBacked
  <2>1. SUFFICES ASSUME NEW s \in Sectors, NEW v, v = Promise(s), v # Unknown
                 PROVE  Backed(s, v)'
    BY DEF StillBacked
  <2>2. PICK b \in Blk : Holds(b, s, v)
    BY <2>1 DEF HoldInv, Kept, Backed
  <2>3. (s % SPB) \div SPP \in Page /\ s % SPP \in Sec
    BY SectorPlace, PlaceOf
  <2>4. cell'[b][(s % SPB) \div SPP][s % SPP] = cell[b][(s % SPB) \div SPP][s % SPP]
    <3>1. SUFFICES ASSUME b = PBN, (s % SPB) \div SPP = PageNo, s % SPP \in Run PROVE FALSE
      BY <1>4, <2>2, <2>3
    <3>2. s \div SPB = At \div SPB
      BY <1>0, <2>2, <3>1 DEF Holds, Tagged
    <3>3. s >= At /\ s < At + PageRun
      <4>1. At \in Nat /\ SecNo \in Nat /\ PageRun \in Nat /\ s \in Nat /\ s % SPP \in Nat
        BY <1>0, <2>3, SectorPlace, Addressing, GeometryAssumption DEF Sec
      <4>2. (s % SPP) - SecNo = s - At
        BY <1>0, <3>1, <3>2, SamePageOffset
      <4> QED
        BY <3>1, <4>1, <4>2 DEF Run
    <3> QED
      BY <1>0, <2>1, <3>3, RunUnpromised DEF HoldInv
  <2>5. Holds(b, s, v)'
    BY <1>0, <2>2, <2>4 DEF Holds, Tagged, Value
  <2>6. ~Spared(b)'
    BY <1>6 DEF Spared, DestPcs
  <2> QED
    BY <2>2, <2>5, <2>6 DEF Backed
<1>8. FreeBlank'
  <2>1. ASSUME NEW b \in Blk, Free(b)', NEW p \in Page, NEW s \in Sec
        PROVE  cell'[b][p][s] = BlankCell
    <3>1. b # PBN /\ Free(b)
      BY <1>0, <2>1 DEF Free, FreshTag
    <3> QED
      BY <1>4, <3>1 DEF HoldInv, FreeBlank, BlankAt
  <2> QED
    BY <2>1 DEF FreeBlank, BlankAt
<1>9. Numbers' /\ Formatting'
  <2>1. \A b \in Blk : ~Spared(b)'
    BY <1>6 DEF Spared, DestPcs
  <2>2. Numbered'
    BY <1>0, <2>1 DEF HoldInv, Numbers, Numbered, FormatPcs, Tagged
  <2> QED
    BY <1>0, <1>6, <2>2 DEF HoldInv, Numbers, Formatting, FormatPcs
<1>10. CASE pc' = "mark" /\ UNCHANGED <<done, cp, rc>>
            /\ RunArrived
  <2>1. UNCHANGED <<req, done, buf, acked>>
    BY <1>0, <1>6, <1>10, Unremembered
  <2>2. PromiseKept /\ Closed'
    BY <1>0, <1>10, <2>1, PromiseSame DEF HoldInv, LoopPcs
  <2>3. At' = At /\ PageRun' = PageRun /\ PBN' = PBN
    BY <1>0, <2>1, SamePlace DEF PBN, LBNToPBN
  <2>4. RunWritten'
    BY <1>5, <1>10, <2>1, <2>3 DEF RunWritten, Value
  <2>5. Copying'
    BY <1>10 DEF Copying, CopyPcs, DestPcs
  <2> QED
    BY <1>6, <1>7, <1>8, <1>9, <2>2, <2>4, <2>5, KeptFrom DEF Rest
<1>11. CASE Advance(PageRun)
            /\ RunArrived
  <2>1. pc' \in {"idle", "write"}
    BY <1>0, <1>11 DEF Advance, Return
  <2>2. ASSUME NEW s \in Sectors, s >= At, s < At + PageRun
        PROVE  Arrived(s)
    <3>1. PICK v : v = buf[s - req.first]
      OBVIOUS
    <3>3. \E b \in Blk : ~Spared(b)' /\ Holds(b, s, v)'
      <4>1. PICK b \in Blk : b = PBN
        BY <1>0
      <4>2. ~Spared(b)' /\ Holds(b, s, v)'
        BY <1>0, <1>5, <1>11, <2>1, <2>2, <3>1, <4>1
        DEF Spared, DestPcs, Holds, Tagged, Value
      <4> QED
        BY <4>2
    <3> QED
      BY <3>1, <3>3 DEF Arrived, Backed
  <2>3. PromiseKept /\ Closed'
    BY <1>0, <1>11, <2>2, PromiseAdvance DEF HoldInv
  <2>4. RunWritten' /\ Copying'
    BY <2>1 DEF RunWritten, Copying, CopyPcs, DestPcs
  <2> QED
    BY <1>6, <1>7, <1>8, <1>9, <2>3, <2>4, KeptFrom DEF Rest
<1>12. CASE StartCopy(Span)
  <2>1. KeepsNumbers
    BY <1>0 DEF KeepsNumbers
  <2>2. pc' = "find" /\ done' = done
    BY <1>12 DEF StartCopy
  <2>3. UNCHANGED <<req, done, buf, acked>>
    BY <1>0, <1>6, <2>2, Unremembered
  <2>4. Copying'
    BY <1>0, <1>12, <2>1, <2>3, StartCopyHold
  <2>5. PromiseKept /\ Closed'
    BY <1>0, <2>2, <2>3, PromiseSame DEF HoldInv, LoopPcs, CopyPcs
  <2>6. RunWritten'
    BY <2>2 DEF RunWritten
  <2> QED
    BY <1>6, <1>7, <1>8, <1>9, <2>4, <2>5, <2>6, KeptFrom DEF Rest
<1> QED
  BY <1>2, <1>10, <1>11, <1>12

LEMMA MarkHold ==
  ASSUME TypeInv, TypeInv', LutInv, HoldInv, Remember, Mark
  PROVE  Rest /\ Closed' /\ Kept'
<1>0. /\ pc = "mark" /\ PBN \in Blk /\ PBN # NB /\ Tagged(PBN, At \div SPB)
      /\ pc \in LoopPcs /\ req.op = "write" /\ Writing /\ PageRun \in 1 .. Left
      /\ UNCHANGED <<cell, lut, valid, lost>> /\ Frame(PBN, buf) /\ ~lost
      /\ tag \in [Blk -> Tag] /\ KeepsNumbers /\ tag[PBN].lbn # NB
  <2>1. pc = "mark" /\ ~lost /\ req.op = "write" /\ PBN \in Blk
    BY DEF Mark, HoldInv, TypeInv, Shape
  <2>2. tag' \in {tag, [tag EXCEPT ![PBN].used = TRUE]}
    BY DEF Mark
  <2>3. KeepsNumbers
    BY <2>1, <2>2, UsedKeepsNumbers
  <2>4. PBN # NB
    BY <2>1, BlkNat
  <2>5. Tagged(PBN, At \div SPB) /\ pc \in LoopPcs /\ tag[PBN].lbn # NB
    BY <2>1, <2>4, LoopBlock
  <2> QED
    BY <2>1, <2>3, <2>4, <2>5, Addressing DEF Mark, ram, Writing, TypeInv, TypeOK, FlashType
<1>1. Advance(PageRun) \/ StartCopy(Span)
  BY <1>0 DEF Mark, Span
<1>2. pc' \in {"idle", "write", "find"} /\ (pc' # "idle" => req' = req /\ buf' = buf)
  BY <1>0, <1>1 DEF Advance, Return, StartCopy, Frame
<1>3. Settled
  BY <1>0, <1>2 DEF Settled, Spared, DestPcs, KeepsNumbers
<1>4. FreeBlank'
  <2>1. ASSUME NEW b \in Blk, Free(b)' PROVE Free(b)
    <3>1. tag' \in {tag, [tag EXCEPT ![PBN].used = TRUE]}
      BY DEF Mark
    <3>2. b # PBN
      BY <1>0, <2>1 DEF KeepsNumbers, Free, FreshTag
    <3> QED
      BY <1>0, <2>1, <3>1, <3>2 DEF Free
  <2> QED
    BY <1>0, <2>1 DEF HoldInv, FreeBlank, BlankAt
<1>5. Numbers'
  BY <1>0, <1>2, <1>3, SettledNumbers DEF HoldInv, Numbers, FormatPcs, KeepsNumbers
<1>6. CASE Advance(PageRun)
  <2>1. pc' \in {"idle", "write"}
    BY <1>0, <1>6 DEF Advance, Return
  <2>2. ASSUME NEW s \in Sectors, s >= At, s < At + PageRun
        PROVE  Arrived(s)
    <3>1. PICK v : v = buf[s - req.first]
      OBVIOUS
    <3>2. PICK b \in Blk : b = PBN
      BY <1>0
    <3>3. s \div SPB = At \div SPB
      BY <1>0, <2>2, PageRunPlace
    <3>4. Value(b, s) = v
      BY <1>0, <2>2, <3>1, <3>2 DEF HoldInv, RunWritten
    <3>5. ~Spared(b)' /\ Holds(b, s, v)'
      BY <1>0, <2>1, <3>2, <3>3, <3>4
      DEF Spared, DestPcs, Holds, Tagged, Value, KeepsNumbers
    <3> QED
      BY <3>1, <3>5 DEF Arrived, Backed
  <2>3. PromiseKept /\ Closed'
    BY <1>0, <1>6, <2>2, PromiseAdvance DEF HoldInv
  <2>4. RunWritten' /\ Copying' /\ Formatting'
    BY <2>1 DEF RunWritten, Copying, CopyPcs, DestPcs, Formatting
  <2>5. Kept'
    BY <1>3, <2>3, SettledKept DEF HoldInv
  <2> QED
    BY <1>0, <1>4, <1>5, <2>3, <2>4, <2>5 DEF Rest
<1>7. CASE StartCopy(Span)
  <2>1. pc' = "find" /\ done' = done
    BY <1>7 DEF StartCopy
  <2>2. UNCHANGED <<req, done, buf, acked>>
    BY <1>0, <1>2, <2>1, Unremembered
  <2>3. Copying'
    BY <1>0, <1>7, <2>2, StartCopyHold
  <2>4. PromiseKept /\ Closed'
    BY <1>0, <2>1, <2>2, PromiseSame DEF HoldInv, LoopPcs, CopyPcs
  <2>5. RunWritten' /\ Formatting'
    BY <2>1 DEF RunWritten, Formatting
  <2>6. Kept'
    BY <1>3, <2>4, SettledKept DEF HoldInv
  <2> QED
    BY <1>0, <1>4, <1>5, <2>3, <2>4, <2>5, <2>6 DEF Rest
<1> QED
  BY <1>1, <1>6, <1>7

-----------------------------------------------------------------------------
(* The copy.                                                               *)

LEMMA CopyLoop ==
  ASSUME TypeInv, LutInv, HoldInv, pc \in CopyPcs
  PROVE  /\ pc \in LoopPcs /\ pc \notin FormatPcs /\ pc # "idle" /\ ~lost
         /\ req.op = "write" /\ Writing /\ cp.src \in Blk
         /\ tag \in [Blk -> Tag] /\ cp \in Copies /\ FlashType
         /\ pc # "fixlut" => Tagged(cp.src, At \div SPB) /\ At \div SPB \in Blk
<1>1. /\ pc \in LoopPcs /\ pc \notin FormatPcs /\ pc # "idle"
  BY DEF LoopPcs, CopyPcs, FormatPcs
<1>2. /\ req.op = "write" /\ Writing /\ cp.src \in Blk /\ ~lost
      /\ tag \in [Blk -> Tag] /\ cp \in Copies /\ FlashType
  BY <1>1 DEF HoldInv, Clean, Writing, TypeInv, TypeOK, CallType, FlashType, Shape
<1>3. ASSUME pc # "fixlut"
      PROVE  Tagged(cp.src, At \div SPB) /\ At \div SPB \in Blk
  <2>1. Tagged(cp.src, At \div SPB) /\ tag[cp.src].lbn # NB
    BY <1>2, <1>3 DEF HoldInv, Copying, LutInv, CopyInv
  <2>2. tag[cp.src].lbn \in 0 .. NB
    BY <1>2 DEF Tag
  <2> QED
    BY <2>1, <2>2, BlkNat DEF Tagged, Blk
<1> QED
  BY <1>1, <1>2, <1>3

(* The free block of the source's plane that a move takes.                  *)
LEMMA FindIs ==
  ASSUME TypeInv, WholeMarks, Whole
  PROVE  /\ FindBlock # NB => /\ FindBlock \in Blk /\ Free(FindBlock)
                              /\ FindBlock % 2 = cp.src % 2
         /\ FindBlock = NB => Full(cp.src)
<1> DEFINE spare == {b \in Blk : Unused(b) /\ b % 2 = cp.src % 2}
           below == {b \in spare : b <= cur}
<1>1. FindBlock = IF below # {} THEN Highest(below) ELSE Highest(spare)
  BY Zenon DEF FindBlock
<1>2. Highest(below) \in below \cup {NB} /\ Highest(spare) \in spare \cup {NB}
  BY Extremes
<1>3. ASSUME FindBlock = NB PROVE Full(cp.src)
  <2>1. below # {} => Highest(below) \in below
    BY HighestIs
  <2>2. below = {}
    BY <1>1, <1>3, <2>1, BlkNat
  <2>3. spare # {} => Highest(spare) \in spare
    BY HighestIs
  <2>4. spare = {}
    BY <1>1, <1>3, <2>2, <2>3, BlkNat
  <2>5. \A b \in Blk : Free(b) => Unused(b)
    BY DEF Free, FreshTag, Unused
  <2> QED
    BY <2>4, <2>5 DEF Full
<1>4. ASSUME FindBlock # NB PROVE FindBlock \in spare
  BY <1>1, <1>2, <1>4
<1>5. FindBlock \in spare => Free(FindBlock)
  BY UnusedIsFree
<1> QED
  BY <1>3, <1>4, <1>5

(* A spare block is blank: the copy begins on page 0.                      *)
LEMMA FindStep ==
  ASSUME TypeInv, WholeMarks, Whole, Copying, FreeBlank, Find, FindBlock # NB
  PROVE  \E d \in Blk :
           /\ Free(d) /\ d % 2 = cp.src % 2 /\ pc' = "copy"
           /\ cp'.src = cp.src /\ cp'.dst = d /\ cp'.page = 0
           /\ UNCHANGED <<flash, lut, valid, req, buf, done, markd, rc, lost>>
           /\ tag[cp.src].lbn # NB => Copying'
<1>0. /\ pc = "find" /\ pc \in LoopPcs /\ cp.src \in Blk
      /\ UNCHANGED <<flash, lut, valid>> /\ Frame(markd, buf) /\ cp \in Copies
      /\ Tagged(cp.src, At \div SPB) /\ Begun
  BY DEF Find, CopyPcs, LoopPcs, Copying, TypeInv, TypeOK, CallType, Shape
<1>1. PICK d \in Blk : d = FindBlock /\ Free(d) /\ d % 2 = cp.src % 2
  BY FindIs
<1>2. /\ pc' = "copy" /\ cp' = [cp EXCEPT !.dst = d, !.page = 0]
      /\ UNCHANGED <<done, rc, lost>>
  BY <1>1, Zenon DEF Find
<1>3. UNCHANGED <<req, buf, markd>>
  BY <1>0, <1>2 DEF Frame
<1>4. /\ cp'.dst = d /\ cp'.page = 0 /\ cp'.src = cp.src /\ cp'.off = cp.off
      /\ cp'.col = cp.col /\ cp'.pos = cp.pos /\ cp'.left = cp.left
      /\ cp.off \in Nat
  BY <1>0, <1>2, GeometryAssumption DEF Copies, Page
<1>5. ASSUME tag[cp.src].lbn # NB PROVE Copying'
  <2>1. Begun' /\ cp'.off = PageNo' /\ cp'.page <= cp'.off
    BY <1>0, <1>2, <1>3, <1>4, SamePlace DEF Begun
  <2>2. Underway'
    BY <2>1, <1>4 DEF Underway
  <2>3. Tagged(cp.src, At \div SPB)'
    BY <1>0, <1>2, <1>3, <1>4, SamePlace DEF Tagged, flash
  <2>4. d # cp.src /\ Free(cp.dst)'
    BY <1>0, <1>1, <1>4, <1>5 DEF Free, FreshTag, flash
  <2>5. \A p \in Page : BlankAt(d, p)'
    BY <1>0, <1>1 DEF FreeBlank, BlankAt, flash
  <2>6. \A p \in Page : ~(p < 0)
    BY GeometryAssumption DEF Page
  <2>7. \A p \in Page : BlankAt(cp.dst, p)'
    BY <1>4, <2>5 DEF BlankAt
  <2> QED
    BY <1>2, <1>4, <2>2, <2>3, <2>4, <2>6, <2>7 DEF Copying
<1> QED
  BY <1>0, <1>1, <1>2, <1>3, <1>4, <1>5

LEMMA FindHold ==
  ASSUME TypeInv, TypeInv', WholeMarks, Whole, LutInv, HoldInv, Remember, Find
  PROVE  Rest /\ Closed' /\ Kept'
<1>0. /\ pc = "find" /\ pc \in LoopPcs /\ req.op = "write" /\ Writing /\ cp.src \in Blk
      /\ UNCHANGED flash /\ Frame(markd, buf) /\ ~lost /\ cp \in Copies
      /\ Tagged(cp.src, At \div SPB) /\ tag[cp.src].lbn # NB /\ Begun
  <2>1. pc = "find" /\ pc \in CopyPcs /\ UNCHANGED flash /\ Frame(markd, buf)
    BY DEF Find, CopyPcs
  <2>2. Tagged(cp.src, At \div SPB) /\ At \div SPB \in Blk
    BY <2>1, CopyLoop
  <2> QED
    BY <2>1, <2>2, CopyLoop, BlkNat DEF HoldInv, Copying, Tagged
<1>1. FreeBlank'
  BY <1>0 DEF HoldInv, FreeBlank, Free, BlankAt, flash
<1>2. CASE FindBlock = NB
  <2>1. pc' = "idle" /\ rc' = 3 /\ lost' = lost
    BY <1>0, <1>2, Zenon DEF Find, Return
  <2>2. acked' = acked /\ ~Writing'
    BY <1>0, <2>1, Unremembered DEF Writing, LoopPcs, CopyPcs, TestPcs
  <2>3. PromiseKept /\ Closed'
    BY <2>2, PromiseEnd DEF HoldInv
  <2>4. Settled
    BY <1>0, <2>1, QuietSettled DEF DestPcs
  <2>5. Kept'
    BY <2>3, <2>4, SettledKept DEF HoldInv
  <2>6. Rest
    BY <1>0, <2>1, OutsideHold DEF FormatPcs
  <2> QED
    BY <2>3, <2>5, <2>6
<1>3. CASE FindBlock # NB
  <2>1. PICK d \in Blk :
          /\ Free(d) /\ d % 2 = cp.src % 2 /\ pc' = "copy"
          /\ cp'.src = cp.src /\ cp'.dst = d /\ cp'.page = 0
          /\ UNCHANGED <<flash, lut, valid, req, buf, done, markd, rc, lost>>
          /\ tag[cp.src].lbn # NB => Copying'
    BY <1>3, FindStep DEF HoldInv
  <2>2. pc' = "copy" /\ UNCHANGED <<done, lost, req, buf>> /\ Copying'
    BY <1>0, <2>1
  <2>3. acked' = acked
    BY <1>0, <2>2, Unremembered
  <2>6. PromiseKept /\ Closed'
    BY <1>0, <2>2, <2>3, PromiseSame DEF HoldInv, LoopPcs, CopyPcs
  <2>7. Settled
    BY <1>0, <2>1, <2>2 DEF Settled, flash, Spared, DestPcs, Free, FreshTag
  <2>8. Kept'
    BY <2>6, <2>7, SettledKept DEF HoldInv
  <2>9. Numbers'
    BY <1>0, <2>2, <2>7, SettledNumbers DEF HoldInv, Numbers, FormatPcs, flash
  <2> QED
    BY <1>0, <1>1, <2>2, <2>6, <2>8, <2>9 DEF Rest, Formatting, RunWritten
<1> QED
  BY <1>2, <1>3

(* The steps of a copy after its pages leave its locals right.             *)
LEMMA CondemnStep ==
  ASSUME TypeInv, WholeMarks, Whole, Copying, Condemn
  PROVE  /\ Copying' /\ cp.dst \in Blk /\ cp.src \in Blk /\ cp.dst # cp.src
         /\ \A c \in Blk \ {cp.dst} : tag'[c] = tag[c]
         /\ tag'[cp.dst] = BadTag \/ (FaultAt("badmark") /\ tag'[cp.dst] = tag[cp.dst])
<1>0. /\ pc = "condemn" /\ BadBlockMark(cp.dst) /\ pc' = "find"
      /\ UNCHANGED <<req, buf, done, cp>> /\ cp.dst \in Blk /\ cp.src \in Blk
      /\ cp.dst # cp.src /\ Begun /\ Tagged(cp.src, At \div SPB)
      /\ tag \in [Blk -> Tag]
  BY DEF Condemn, CopyPcs, DestPcs, Copying, TypeInv, TypeOK, FlashType, Shape
<1>1. /\ \A c \in Blk \ {cp.dst} : tag'[c] = tag[c]
      /\ tag'[cp.dst] = BadTag \/ (FaultAt("badmark") /\ tag'[cp.dst] = tag[cp.dst])
  BY <1>0, CondemnTag
<1>2. Begun'
  BY <1>0, SamePlace DEF Begun
<1>3. Tagged(cp.src, At \div SPB)'
  BY <1>0, <1>1, SamePlace DEF Tagged
<1> QED
  BY <1>0, <1>1, <1>2, <1>3 DEF Copying, DestPcs

LEMMA MarkCopyStep ==
  ASSUME TypeInv, Copying, MarkCopy
  PROVE  /\ Copying' /\ KeepsNumbers /\ cp.dst \in Blk /\ Tagged(cp.dst, At \div SPB)
         /\ \A b \in Blk \ {cp.dst} : tag'[b] = tag[b]
<1>0. /\ pc = "used" /\ pc' = "erase" /\ UNCHANGED <<cell, req, buf, done, cp>>
      /\ cp.dst \in Blk /\ cp.src \in Blk /\ cp.dst # cp.src
      /\ Tagged(cp.src, At \div SPB) /\ Tagged(cp.dst, At \div SPB)
      /\ \A p \in Page : CopiedTo(p)
  BY DEF MarkCopy, CopyPcs, DestPcs, Copying, TypeInv, Shape
<1>1. tag' \in {tag, [tag EXCEPT ![cp.dst].used = TRUE]} /\ tag \in [Blk -> Tag]
  BY DEF MarkCopy, TypeInv, TypeOK, FlashType
<1>2. KeepsNumbers /\ \A b \in Blk \ {cp.dst} : tag'[b] = tag[b]
  BY <1>1, UsedKeepsNumbers
<1>3. Tagged(cp.src, At \div SPB)' /\ Tagged(cp.dst, At \div SPB)'
  BY <1>0, <1>2, SamePlace DEF Tagged, KeepsNumbers
<1>4. \A p \in Page : CopiedTo(p)'
  BY <1>0, SamePlace DEF CopiedTo
<1> QED
  BY <1>0, <1>2, <1>3, <1>4 DEF Copying, DestPcs

LEMMA CondemnHold ==
  ASSUME TypeInv, TypeInv', WholeMarks, Whole, LutInv, HoldInv, Remember, Condemn
  PROVE  Rest /\ Closed' /\ Kept'
<1>0. /\ pc = "condemn" /\ pc \in LoopPcs /\ req.op = "write" /\ Writing
      /\ cp.src \in Blk /\ cp.dst \in Blk /\ cp.dst # cp.src /\ Begun
      /\ BadBlockMark(cp.dst) /\ pc' = "find" /\ ~lost
      /\ UNCHANGED <<cell, req, buf, done, cp, lost>> /\ tag \in [Blk -> Tag]
      /\ Tagged(cp.src, At \div SPB)
  <2>1. /\ pc = "condemn" /\ BadBlockMark(cp.dst) /\ pc' = "find"
        /\ UNCHANGED <<cell, req, buf, done, cp, lost>>
    BY DEF Condemn
  <2>2. pc \in CopyPcs /\ cp.dst \in Blk
    BY <2>1 DEF CopyPcs, DestPcs, TypeInv, Shape
  <2>3. cp.dst # cp.src /\ Begun
    BY <2>1 DEF HoldInv, Copying, DestPcs
  <2> QED
    BY <2>1, <2>2, <2>3, CopyLoop
<1>1. /\ \A c \in Blk \ {cp.dst} : tag'[c] = tag[c]
      /\ tag'[cp.dst] = BadTag \/ tag'[cp.dst] = tag[cp.dst]
  BY CondemnStep DEF HoldInv
<1>2. acked' = acked
  BY <1>0, Unremembered
<1>3. PromiseKept /\ Closed'
  BY <1>0, <1>2, PromiseSame DEF HoldInv, LoopPcs, CopyPcs
<1>4. Settled
  BY <1>0, <1>1 DEF Settled, Spared, DestPcs
<1>5. Kept'
  BY <1>3, <1>4, SettledKept DEF HoldInv
<1>6. Numbers'
  <2>1. \A b \in Blk : tag'[b].lbn # NB - 1
    BY <1>0, <1>1, BlkNat DEF HoldInv, Numbers, BadTag
  <2> QED
    BY <1>0, <1>4, <2>1, SettledNumbers DEF HoldInv, FormatPcs
<1>7. FreeBlank'
  <2>1. ASSUME NEW b \in Blk, Free(b)' PROVE Free(b)
    BY <1>0, <1>1, <2>1 DEF Free, FreshTag, BadTag
  <2> QED
    BY <1>0, <2>1 DEF HoldInv, FreeBlank, BlankAt
<1>8. Copying'
  BY CondemnStep DEF HoldInv
<1> QED
  BY <1>0, <1>3, <1>5, <1>6, <1>7, <1>8 DEF Rest, Formatting, RunWritten

LEMMA MarkCopyHold ==
  ASSUME TypeInv, TypeInv', LutInv, HoldInv, Remember, MarkCopy
  PROVE  Rest /\ Closed' /\ Kept'
<1>0. /\ pc = "used" /\ pc \in LoopPcs /\ req.op = "write" /\ Writing
      /\ cp.src \in Blk /\ cp.dst \in Blk /\ cp.dst # cp.src
      /\ pc' = "erase" /\ ~lost /\ KeepsNumbers
      /\ UNCHANGED <<cell, req, buf, done, cp, lost>>
      /\ Tagged(cp.src, At \div SPB) /\ Tagged(cp.dst, At \div SPB)
      /\ tag[cp.dst].lbn # NB /\ \A p \in Page : CopiedTo(p)
  <2>1. pc = "used" /\ pc' = "erase" /\ UNCHANGED <<cell, req, buf, done, cp, lost>>
    BY DEF MarkCopy
  <2>2. pc \in CopyPcs /\ cp.dst \in Blk
    BY <2>1 DEF CopyPcs, DestPcs, TypeInv, Shape
  <2>3. /\ cp.dst # cp.src /\ Tagged(cp.dst, At \div SPB)
        /\ \A p \in Page : CopiedTo(p)
    BY <2>1 DEF HoldInv, Copying, DestPcs
  <2>4. KeepsNumbers
    BY UsedKeepsNumbers DEF MarkCopy
  <2>5. tag[cp.dst].lbn # NB
    BY <2>1, <2>2, <2>3, CopyLoop, BlkNat DEF Tagged
  <2> QED
    BY <2>1, <2>2, <2>3, <2>4, <2>5, CopyLoop
<1>2. acked' = acked
  BY <1>0, Unremembered
<1>3. PromiseKept /\ Closed'
  BY <1>0, <1>2, PromiseSame DEF HoldInv, LoopPcs, CopyPcs
<1>4. Settled
  BY <1>0 DEF Settled, Spared, DestPcs, KeepsNumbers
<1>5. Kept'
  BY <1>3, <1>4, SettledKept DEF HoldInv
<1>6. Numbers'
  BY <1>0, <1>4, SettledNumbers DEF HoldInv, Numbers, FormatPcs, KeepsNumbers
<1>7. FreeBlank'
  <2>1. ASSUME NEW b \in Blk, Free(b)' PROVE Free(b)
    <3>1. b # cp.dst
      BY <1>0, <2>1 DEF KeepsNumbers, Free, FreshTag
    <3>2. tag' \in {tag, [tag EXCEPT ![cp.dst].used = TRUE]} /\ tag \in [Blk -> Tag]
      BY DEF MarkCopy, TypeInv, TypeOK, FlashType
    <3> QED
      BY <2>1, <3>1, <3>2 DEF Free
  <2> QED
    BY <1>0, <2>1 DEF HoldInv, FreeBlank, BlankAt
<1>8. Copying'
  BY MarkCopyStep DEF HoldInv
<1> QED
  BY <1>0, <1>3, <1>5, <1>6, <1>7, <1>8 DEF Rest, Formatting, RunWritten

LEMMA PageOrder ==
  ASSUME NEW p \in Page, NEW q \in Page
  PROVE  /\ p * SPP \in Nat /\ q * SPP \in Nat
         /\ p < q => p * SPP + SPP <= q * SPP
         /\ (p + 1) * SPP = p * SPP + SPP
<1>1. p \in Nat /\ q \in Nat /\ SPP \in Nat
  BY GeometryAssumption DEF Page
<1>2. p * SPP \in Nat /\ q * SPP \in Nat /\ (p + 1) * SPP = p * SPP + SPP
  BY <1>1, ProductType, ProductNext
<1>3. p < q => (p + 1) * SPP <= q * SPP
  BY <1>1, ProductGrows
<1> QED
  BY <1>2, <1>3

(* The numbers of a copy, with names for the products.                     *)
LEMMA CopyNumbers ==
  ASSUME TypeInv, pc = "copy", Underway
  PROVE  \E here \in Nat, first \in Nat, run \in Nat \ {0} :
           /\ here = cp.page * SPP /\ first = PageNo * SPP /\ run = Span
           /\ (cp.page + 1) * SPP = here + SPP
           /\ cp.page < PageNo => here + SPP <= first
           /\ cp.page = PageNo => here = first
           /\ cp.page > PageNo => first + SPP <= here
           /\ InBlock = first + SecNo /\ SecNo \in Nat /\ SecNo < SPP
           /\ SPP \in Nat \ {0} /\ done \in Nat
           /\ cp.page \in Nat /\ PageNo \in Nat /\ cp.off = PageNo
           /\ cp.col \in Nat /\ cp.pos \in Nat /\ cp.left \in Nat
<1>1. /\ pc \in LoopPcs /\ cp.page \in Page /\ cp \in Copies /\ done \in Nat
  BY DEF LoopPcs, CopyPcs, TypeInv, TypeOK, CallType, Shape
<1>2. /\ InBlock = PageNo * SPP + SecNo /\ PageNo \in Page /\ SecNo \in Sec
  BY <1>1, LoopPlace
<1>3. Span \in Nat \ {0}
  BY <1>1, SpanRun, Addressing
<1>4. PICK p \in Page : p = cp.page
  BY <1>1
<1>5. PICK q \in Page : q = PageNo
  BY <1>2
<1>6. /\ p * SPP \in Nat /\ q * SPP \in Nat
      /\ p < q => p * SPP + SPP <= q * SPP
      /\ q < p => q * SPP + SPP <= p * SPP
      /\ (p + 1) * SPP = p * SPP + SPP
  BY PageOrder
<1>7. PICK here \in Nat, first \in Nat : here = p * SPP /\ first = q * SPP
  BY <1>6
<1>8. /\ cp.page \in Nat /\ PageNo \in Nat /\ cp.off = PageNo /\ SPP \in Nat \ {0}
      /\ cp.col \in Nat /\ cp.pos \in Nat /\ cp.left \in Nat
      /\ SecNo \in Nat /\ SecNo < SPP /\ p \in Nat /\ q \in Nat
  BY <1>1, <1>2, GeometryAssumption DEF Copies, Page, Sec, Underway
<1>9. p > q => q < p
  BY <1>8
<1> QED
  BY <1>1, <1>2, <1>3, <1>4, <1>5, <1>6, <1>7, <1>8, <1>9

(***************************************************************************)
(* Where a copy is, in numbers: the page's first sector, that of the run's *)
(* first page, the run, the run's column, the loop index, and then ColNum, *)
(* the place in the buffer, the sectors left and those this page takes.    *)
(***************************************************************************)
Plan(here, first, run, sec, i, col, pos, left, m) ==
    /\ sec < SPP /\ run > 0
    /\ \/ here + SPP <= first /\ col = sec /\ pos = i /\ left = run /\ m = 0
       \/ /\ here = first /\ col = sec /\ pos = i /\ left = run
          /\ m = IF run < SPP - sec THEN run ELSE SPP - sec
       \/ /\ first + SPP <= here /\ col = 0 /\ pos + left = i + run
          /\ \/ left = 0 /\ m = 0 /\ here - (first + sec) >= run
             \/ /\ left > 0 /\ pos = i + (here - (first + sec))
                /\ m = IF left < SPP THEN left ELSE SPP

LEMMA CopyPlan ==
  ASSUME TypeInv, pc = "copy", Underway
  PROVE  \E here, first, run, sec, i, col, pos, left, m \in Nat :
           /\ here = cp.page * SPP /\ (cp.page + 1) * SPP = here + SPP
           /\ InBlock = first + sec /\ sec = SecNo /\ run = Span /\ i = done
           /\ col = cp.col /\ pos = cp.pos /\ left = cp.left /\ m = Merged
           /\ cp.page < PageNo => here + SPP <= first
           /\ cp.page = PageNo => here = first
           /\ cp.page > PageNo => first + SPP <= here
           /\ Plan(here, first, run, sec, i, col, pos, left, m)
<1>1. PICK here \in Nat, first \in Nat, run \in Nat \ {0} :
        /\ here = cp.page * SPP /\ first = PageNo * SPP /\ run = Span
        /\ (cp.page + 1) * SPP = here + SPP
        /\ cp.page < PageNo => here + SPP <= first
        /\ cp.page = PageNo => here = first
        /\ cp.page > PageNo => first + SPP <= here
        /\ InBlock = first + SecNo /\ SecNo \in Nat /\ SecNo < SPP
        /\ SPP \in Nat \ {0} /\ done \in Nat
        /\ cp.page \in Nat /\ PageNo \in Nat /\ cp.off = PageNo
        /\ cp.col \in Nat /\ cp.pos \in Nat /\ cp.left \in Nat
  BY CopyNumbers
<1>2. PICK sec \in Nat, i \in Nat : sec = SecNo /\ i = done
  BY <1>1
<1>3. PICK col \in Nat, pos \in Nat, left \in Nat :
        col = cp.col /\ pos = cp.pos /\ left = cp.left
  BY <1>1
<1>4. /\ cp.page <= PageNo => col = sec /\ pos = i /\ left = run
      /\ cp.page > PageNo => /\ col = 0 /\ pos + left = i + run
                             /\ left = 0 => here - (first + sec) >= run
                             /\ left > 0 => pos = i + (here - (first + sec))
  BY <1>1, <1>2, <1>3 DEF Underway, Begun, Ahead
<1>5. Merged = IF cp.page >= PageNo /\ left > 0
                 THEN IF left < SPP - col THEN left ELSE SPP - col ELSE 0
  BY <1>1, <1>3 DEF Merged, Least
<1>6. PICK m \in Nat : m = Merged
  BY <1>1, <1>2, <1>3, <1>4, <1>5
<1>7. Plan(here, first, run, sec, i, col, pos, left, m)
  <2>1. sec < SPP /\ run > 0
    BY <1>1, <1>2
  <2>2. CASE cp.page < PageNo
    <3>1. here + SPP <= first /\ col = sec /\ pos = i /\ left = run /\ m = 0
      BY <1>1, <1>4, <1>5, <1>6, <2>2
    <3> QED
      BY <2>1, <3>1 DEF Plan
  <2>3. CASE cp.page = PageNo
    <3>1. /\ here = first /\ col = sec /\ pos = i /\ left = run
          /\ m = IF run < SPP - sec THEN run ELSE SPP - sec
      BY <1>1, <1>4, <1>5, <1>6, <2>3
    <3> QED
      BY <2>1, <3>1 DEF Plan
  <2>4. CASE cp.page > PageNo
    <3>1. first + SPP <= here /\ col = 0 /\ pos + left = i + run
      BY <1>1, <1>4, <2>4
    <3>2. CASE left = 0
      BY <1>1, <1>4, <1>5, <1>6, <2>1, <2>4, <3>1, <3>2 DEF Plan
    <3>3. CASE left > 0
      BY <1>1, <1>4, <1>5, <1>6, <2>1, <2>4, <3>1, <3>3 DEF Plan
    <3> QED
      BY <3>2, <3>3
  <2> QED
    BY <1>1, <2>2, <2>3, <2>4
<1> QED
  BY <1>1, <1>2, <1>3, <1>6, <1>7

(* A page takes the run's sectors that belong on it ...                    *)
Takes(here, first, run, sec, i, col, pos, m) ==
    \A s \in Sec, k \in Int : k = here + s - (first + sec) =>
      /\ k >= 0 /\ k < run <=> s \in col .. col + m - 1
      /\ k >= 0 /\ k < run => i + k = pos + (s - col)

LEMMA PlanTakes ==
  \A here, first, run, sec, i, col, pos, left, m \in Nat :
    Plan(here, first, run, sec, i, col, pos, left, m)
      => Takes(here, first, run, sec, i, col, pos, m)
<1> SUFFICES ASSUME NEW here \in Nat, NEW first \in Nat, NEW run \in Nat, NEW sec \in Nat,
                    NEW i \in Nat, NEW col \in Nat, NEW pos \in Nat, NEW left \in Nat,
                    NEW m \in Nat, Plan(here, first, run, sec, i, col, pos, left, m)
             PROVE  Takes(here, first, run, sec, i, col, pos, m)
  OBVIOUS
<1>1. ASSUME NEW s \in Sec, NEW k \in Int, k = here + s - (first + sec)
      PROVE  /\ k >= 0 /\ k < run <=> s >= col /\ s < col + m
             /\ k >= 0 /\ k < run => i + k = pos + (s - col)
  BY <1>1, GeometryAssumption DEF Plan, Sec
<1>2. \A s \in Sec : s \in col .. col + m - 1 <=> s >= col /\ s < col + m
  BY GeometryAssumption DEF Sec
<1> QED
  BY <1>1, <1>2 DEF Takes

(* ... and leaves the rest to the next one.                                *)
Leaves(here, first, run, sec, i, col, pos, left, m) ==
    /\ m <= left /\ (m = 0 => col = 0)
    /\ (pos + m) + (left - m) = i + run
    /\ left - m = 0 => (here + SPP) - (first + sec) >= run
    /\ left - m > 0 => pos + m = i + ((here + SPP) - (first + sec))

LEMMA PlanLeaves ==
  \A here, first, run, sec, i, col, pos, left, m \in Nat :
    first <= here => (Plan(here, first, run, sec, i, col, pos, left, m)
                        => Leaves(here, first, run, sec, i, col, pos, left, m))
<1>1. ASSUME NEW here \in Nat, NEW first \in Nat, NEW run \in Nat, NEW sec \in Nat,
             NEW i \in Nat, NEW col \in Nat, NEW pos \in Nat, NEW left \in Nat,
             NEW m \in Nat, first <= here,
             Plan(here, first, run, sec, i, col, pos, left, m)
      PROVE  Leaves(here, first, run, sec, i, col, pos, left, m)
  BY <1>1, GeometryAssumption DEF Plan, Leaves
<1> QED
  BY <1>1, Zenon

(* The caller's sectors that a page takes, and where they come from.       *)
LEMMA MergePlace ==
  ASSUME TypeInv, pc = "copy", Underway, NEW s \in Sec, NEW k \in Int,
         k = cp.page * SPP + s - InBlock
  PROVE  /\ k >= 0 /\ k < Span <=> s \in cp.col .. cp.col + Merged - 1
         /\ k >= 0 /\ k < Span => done + k = cp.pos + (s - cp.col)
<1>1. PICK here, first, run, sec, i, col, pos, left, m \in Nat :
        /\ here = cp.page * SPP /\ (cp.page + 1) * SPP = here + SPP
        /\ InBlock = first + sec /\ sec = SecNo /\ run = Span /\ i = done
        /\ col = cp.col /\ pos = cp.pos /\ left = cp.left /\ m = Merged
        /\ cp.page < PageNo => here + SPP <= first
        /\ cp.page = PageNo => here = first
        /\ cp.page > PageNo => first + SPP <= here
        /\ Plan(here, first, run, sec, i, col, pos, left, m)
  BY CopyPlan
<1>2. Takes(here, first, run, sec, i, col, pos, m)
  BY <1>1, PlanTakes
<1>3. k = here + s - (first + sec)
  BY <1>1
<1>4. /\ k >= 0 /\ k < run <=> s \in col .. col + m - 1
      /\ k >= 0 /\ k < run => i + k = pos + (s - col)
  BY <1>2, <1>3 DEF Takes
<1> QED
  BY <1>1, <1>4

LEMMA NextUnderway ==
  ASSUME TypeInv, TypeInv', pc = "copy", Underway, UNCHANGED <<req, done>>,
         cp' = [Consumed EXCEPT !.page = @ + 1]
  PROVE  Underway' /\ cp'.page = cp.page + 1 /\ cp'.src = cp.src /\ cp'.dst = cp.dst
<1>1. PICK here, first, run, sec, i, col, pos, left, m \in Nat :
        /\ here = cp.page * SPP /\ (cp.page + 1) * SPP = here + SPP
        /\ InBlock = first + sec /\ sec = SecNo /\ run = Span /\ i = done
        /\ col = cp.col /\ pos = cp.pos /\ left = cp.left /\ m = Merged
        /\ cp.page < PageNo => here + SPP <= first
        /\ cp.page = PageNo => here = first
        /\ cp.page > PageNo => first + SPP <= here
        /\ Plan(here, first, run, sec, i, col, pos, left, m)
  BY CopyPlan
<1>0. /\ cp.page \in Nat /\ PageNo \in Nat /\ cp.off = PageNo /\ SPP \in Nat \ {0}
  BY CopyNumbers
<1>2. cp \in Copies
  BY DEF TypeInv, TypeOK, CallType
<1>3. /\ cp'.page = cp.page + 1 /\ cp'.src = cp.src /\ cp'.dst = cp.dst
      /\ cp'.off = cp.off
      /\ m = 0 => cp'.col = col /\ cp'.pos = pos /\ cp'.left = left
      /\ m # 0 => cp'.col = 0 /\ cp'.pos = pos + m /\ cp'.left = left - m
  BY <1>1, <1>2 DEF Consumed, Copies
<1>4. /\ PageNo' = PageNo /\ SecNo' = SecNo /\ Span' = Span /\ InBlock' = InBlock
  BY SamePlace
<1>5. CASE cp.page < PageNo
  <2>1. m = 0
    BY <1>0, <1>1, <1>5 DEF Plan, Merged
  <2>2. Begun
    BY <1>0, <1>5 DEF Underway
  <2>3. Begun'
    BY <1>1, <1>3, <1>4, <2>1, <2>2 DEF Begun
  <2>4. ~(cp'.page > cp'.off) /\ cp'.off = PageNo'
    BY <1>0, <1>3, <1>4, <1>5
  <2> QED
    BY <1>3, <2>3, <2>4 DEF Underway
<1>6. CASE ~(cp.page < PageNo)
  <2>1. first <= here
    BY <1>0, <1>1, <1>6
  <2>2. Leaves(here, first, run, sec, i, col, pos, left, m)
    BY <1>1, <2>1, PlanLeaves
  <2>3. PICK next \in Nat : next = here + SPP
    BY <1>0
  <2>4. Ahead' = next - (first + sec)
    BY <1>1, <1>3, <1>4, <2>3 DEF Ahead
  <2>5. PICK ahead \in Int : ahead = next - (first + sec)
    OBVIOUS
  <2>6. PICK col2 \in Nat, pos2 \in Nat, left2 \in Nat :
          col2 = 0 /\ pos2 = pos + m /\ left2 = left - m
    BY <2>2 DEF Leaves
  <2>7. cp'.col = col2 /\ cp'.pos = pos2 /\ cp'.left = left2
    BY <1>3, <2>2, <2>6 DEF Leaves
  <2>8. /\ pos2 + left2 = i + run
        /\ left2 = 0 => ahead >= run
        /\ left2 > 0 => pos2 = i + ahead
    BY <2>2, <2>3, <2>5, <2>6 DEF Leaves
  <2>9. ~(cp'.page <= cp'.off) /\ cp'.off = PageNo'
    BY <1>0, <1>3, <1>4, <1>6
  <2> QED
    BY <1>1, <1>3, <1>4, <2>4, <2>5, <2>6, <2>7, <2>8, <2>9 DEF Underway
<1> QED
  BY <1>5, <1>6

(* What is programmed over a blank cell is what the cell then holds.       *)
LEMMA OverBlank ==
  /\ \A v : Program(BlankCell, DataCell(v)) = DataCell(v)
  /\ \A c \in Cell : Program(BlankCell, c) = c
<1>1. ASSUME NEW v PROVE Program(BlankCell, DataCell(v)) = DataCell(v)
  BY DEF Program, BlankCell, DataCell, AndVal, AndEcc
<1>2. ASSUME NEW c \in Cell PROVE Program(BlankCell, c) = c
  <2>1. PICK v \in Stored, e \in Stored \cup {BlankEcc}, f \in BOOLEAN :
          c = [val |-> v, ecc |-> e, flip |-> f]
    BY DEF Cell
  <2>2. Program(BlankCell, c) = [val |-> AndVal(FF, v), ecc |-> AndEcc(BlankEcc, e),
                                 flip |-> FALSE \/ f]
    BY <2>1 DEF Program, BlankCell
  <2>3. AndVal(FF, v) = v /\ AndEcc(BlankEcc, e) = e /\ (FALSE \/ f) = f
    BY Zenon DEF AndVal, AndEcc
  <2> QED
    BY <2>1, <2>2, <2>3, Zenon
<1> QED
  BY <1>1, <1>2

LEMMA PageTaken ==
  ASSUME TypeInv, Copying, pc = "copy", PageCopied, cp.src \in Blk, cp.dst \in Blk,
         NEW p \in Page, p = cp.page, BlankAt(cp.dst, p),
         UNCHANGED <<req, done, buf>>, cp'.src = cp.src, cp'.dst = cp.dst
  PROVE  /\ CopiedTo(p)'
         /\ \A b \in Blk, q \in Page : b # cp.dst \/ q # p => cell'[b][q] = cell[b][q]
<1>0. cp.src # cp.dst /\ FlashType /\ Underway
  BY DEF Copying, DestPcs, TypeInv, TypeOK
<1>1. PICK dst \in Blk, src \in Blk : dst = cp.dst /\ src = cp.src
  OBVIOUS
<1>2. PICK page : page = CopiedPage(cell[src][p], cell[dst][p], cp.col, Merged, buf, cp.pos)
  OBVIOUS
<1>3. cell' = [cell EXCEPT ![dst][p] = page]
  BY <1>1, <1>2, Zenon DEF PageCopied
<1>4. /\ cell'[dst][p] = page
      /\ \A b \in Blk, q \in Page : b # dst \/ q # p => cell'[b][q] = cell[b][q]
  BY <1>0, <1>3, Zenon DEF FlashType
<1>5. cell'[src][p] = cell[src][p]
  BY <1>0, <1>1, <1>4
<1>6. ASSUME NEW s \in Sec
      PROVE  page[s] = LET k == p * SPP + s - InBlock
                       IN  IF k >= 0 /\ k < Span THEN DataCell(buf[done + k])
                                                     ELSE cell[src][p][s]
  <2>1. page[s] = Program(cell[dst][p][s],
                          IF s \in cp.col .. cp.col + Merged - 1
                            THEN DataCell(buf[cp.pos + (s - cp.col)])
                            ELSE cell[src][p][s])
    BY <1>2 DEF CopiedPage
  <2>2. cell[dst][p][s] = BlankCell /\ cell[src][p][s] \in Cell
    BY <1>0, <1>1 DEF BlankAt, FlashType
  <2>3. page[s] = IF s \in cp.col .. cp.col + Merged - 1
                    THEN DataCell(buf[cp.pos + (s - cp.col)])
                    ELSE cell[src][p][s]
    BY <2>1, <2>2, OverBlank
  <2>4. PICK k \in Int : k = p * SPP + s - InBlock
    <3>1. p * SPP \in Nat /\ InBlock \in Int /\ s \in Int
      BY PageOrder, LoopPlace, SPBType DEF Sec, LoopPcs, CopyPcs
    <3> QED
      BY <3>1
  <2>5. /\ k >= 0 /\ k < Span <=> s \in cp.col .. cp.col + Merged - 1
        /\ k >= 0 /\ k < Span => done + k = cp.pos + (s - cp.col)
    BY <1>0, <2>4, MergePlace
  <2>6. page[s] = IF k >= 0 /\ k < Span THEN DataCell(buf[done + k])
                                            ELSE cell[src][p][s]
    BY <2>3, <2>5
  <2> QED
    BY <2>4, <2>6
<1>7. InBlock' = InBlock /\ Span' = Span /\ done' = done /\ buf' = buf
  BY SamePlace
<1>8. CopiedTo(p)'
  BY <1>1, <1>4, <1>5, <1>6, <1>7 DEF CopiedTo
<1> QED
  BY <1>1, <1>4, <1>8

(* A page that a step does not touch stays as it was copied.               *)
LEMMA PageStays ==
  ASSUME NEW p \in Page, CopiedTo(p), UNCHANGED <<req, done, buf>>,
         cp'.src = cp.src, cp'.dst = cp.dst,
         cell'[cp.src][p] = cell[cp.src][p], cell'[cp.dst][p] = cell[cp.dst][p]
  PROVE  CopiedTo(p)'
  BY SamePlace DEF CopiedTo

(* A page that fails before the caller's data moved on leaves a copy as it *)
(* was begun: the retry starts from the same place.                        *)
LEMMA FaultBegun ==
  ASSUME TypeInv, pc = "copy", Underway, Consumed = cp, cp.pos = done
  PROVE  Begun
<1>1. PICK here, first, run, sec, i, col, pos, left, m \in Nat :
        /\ here = cp.page * SPP /\ (cp.page + 1) * SPP = here + SPP
        /\ InBlock = first + sec /\ sec = SecNo /\ run = Span /\ i = done
        /\ col = cp.col /\ pos = cp.pos /\ left = cp.left /\ m = Merged
        /\ cp.page < PageNo => here + SPP <= first
        /\ cp.page = PageNo => here = first
        /\ cp.page > PageNo => first + SPP <= here
        /\ Plan(here, first, run, sec, i, col, pos, left, m)
  BY CopyPlan
<1>0. cp.page \in Nat /\ PageNo \in Nat /\ cp.off = PageNo /\ SPP \in Nat \ {0}
  BY CopyNumbers
<1>2. cp \in Copies
  BY DEF TypeInv, TypeOK, CallType
<1>3. ASSUME m # 0 PROVE FALSE
  <2>1. Consumed.left = left - m
    BY <1>1, <1>2, <1>3 DEF Consumed, Copies
  <2> QED
    BY <1>1, <1>3, <2>1
<1>4. ASSUME cp.page > cp.off PROVE FALSE
  <2>1. first + SPP <= here /\ pos = i
    BY <1>0, <1>1, <1>4
  <2> QED
    BY <1>0, <1>1, <1>3, <2>1 DEF Plan
<1> QED
  BY <1>0, <1>4 DEF Underway

LEMMA CopyPageStep ==
  ASSUME TypeInv, TypeInv', Copying, "merge" \notin FaultOps, CopyPage
  PROVE  /\ Copying' /\ pc' \in {"used", "copy", "condemn"}
         /\ cp'.src = cp.src /\ cp'.dst = cp.dst
         /\ \A b \in Blk \ {cp.dst} : tag'[b] = tag[b] /\ cell'[b] = cell[b]
         /\ ~tag'[cp.dst].bad
         /\ TagCopied => tag'[cp.dst].lbn = At \div SPB
         /\ TagCopied \/ UNCHANGED flash
<1>0. /\ pc = "copy" /\ pc \in LoopPcs /\ cp \in Copies /\ Underway
      /\ cp.src \in Blk /\ cp.dst \in Blk /\ cp.page \in Page /\ cp.dst # cp.src
      /\ UNCHANGED <<req, buf, done>> /\ Tagged(cp.src, At \div SPB)
  <2>1. pc = "copy" /\ UNCHANGED <<req, buf, done>>
    BY DEF CopyPage
  <2>2. /\ pc \in CopyPcs \ {"fixlut"} /\ pc \in DestPcs /\ pc \in LoopPcs
        /\ cp.src \in Blk /\ cp.dst \in Blk /\ cp.page \in Page /\ cp \in Copies
    BY <2>1 DEF CopyPcs, DestPcs, LoopPcs, TypeInv, TypeOK, CallType, Shape
  <2> QED
    BY <2>1, <2>2 DEF Copying
<1>1. \/ PageCopied /\ TagCopied
      \/ UNCHANGED flash
  BY DEF CopyPage
<1>2. \/ /\ PageCopied /\ TagCopied /\ cp' = [Consumed EXCEPT !.page = @ + 1]
         /\ pc' = IF AllCopied THEN "used" ELSE "copy"
      \/ /\ Consumed = cp /\ cp.pos = done /\ cp' = cp /\ pc' = "condemn"
  BY DEF CopyPage, FaultAt
<1>3. cp'.src = cp.src /\ cp'.dst = cp.dst /\ pc' \in {"used", "copy", "condemn"}
  BY <1>0, <1>2, NextUnderway
<1>4. /\ \A b \in Blk \ {cp.dst} : tag'[b] = tag[b]
      /\ ~tag'[cp.dst].bad
      /\ TagCopied => tag'[cp.dst].lbn = At \div SPB
  <2>1. TagCopied \/ UNCHANGED tag
    BY <1>1 DEF flash
  <2> QED
    BY <1>0, <2>1, CopyTag
<1>5. PICK page \in Page : page = cp.page
  BY <1>0
<1>6. \A p \in Page : IF p < page THEN CopiedTo(p) ELSE BlankAt(cp.dst, p)
  BY <1>0, <1>5 DEF Copying
<1>7. \A p \in Page : p \in Nat /\ ~(p < p)
  BY GeometryAssumption DEF Page
<1>8. ASSUME PageCopied
      PROVE  /\ CopiedTo(page)'
             /\ \A b \in Blk, q \in Page : b # cp.dst \/ q # page => cell'[b][q] = cell[b][q]
  BY <1>0, <1>3, <1>5, <1>6, <1>7, <1>8, PageTaken
<1>9. \A b \in Blk \ {cp.dst} : cell'[b] = cell[b]
  <2>1. CASE PageCopied
    BY <1>0, <2>1, Zenon DEF PageCopied, TypeInv, TypeOK, FlashType
  <2>2. CASE UNCHANGED flash
    BY <2>2 DEF flash
  <2> QED
    BY <1>1, <2>1, <2>2
<1>15. Tagged(cp.src, At \div SPB)' /\ cp'.dst # cp'.src
  BY <1>0, <1>3, <1>4, SamePlace DEF Tagged
<1>16. Copying'
  <2>1. CASE /\ PageCopied /\ TagCopied /\ cp' = [Consumed EXCEPT !.page = @ + 1]
             /\ pc' = IF AllCopied THEN "used" ELSE "copy"
    <3>1. Underway' /\ cp'.page = page + 1
      BY <1>0, <1>5, <2>1, NextUnderway
    <3>2. Tagged(cp.dst, At \div SPB)'
      BY <1>0, <1>3, <1>4, <2>1, SamePlace DEF Tagged
    <3>3. ASSUME NEW p \in Page, p <= page PROVE CopiedTo(p)'
      <4>1. CASE p = page
        BY <1>8, <2>1, <4>1
      <4>2. CASE p < page
        <5>1. p # page
          BY <1>7, <4>2
        <5>2. cell'[cp.src][p] = cell[cp.src][p] /\ cell'[cp.dst][p] = cell[cp.dst][p]
          BY <1>0, <1>8, <2>1, <5>1
        <5>3. CopiedTo(p)
          BY <1>6, <4>2
        <5> QED
          BY <1>0, <1>3, <5>2, <5>3, PageStays
      <4> QED
        BY <1>7, <3>3, <4>1, <4>2
    <3>4. ASSUME NEW p \in Page, p > page PROVE BlankAt(cp.dst, p)'
      <4>1. p # page /\ ~(p < page)
        BY <1>7, <3>4
      <4>2. cell'[cp.dst][p] = cell[cp.dst][p] /\ BlankAt(cp.dst, p)
        BY <1>0, <1>6, <1>8, <2>1, <4>1
      <4> QED
        BY <1>3, <4>2 DEF BlankAt
    <3>5. \A p \in Page : IF p < page + 1 THEN p <= page ELSE p > page
      BY <1>7
    <3>6. CASE AllCopied
      <4>1. pc' = "used"
        BY <2>1, <3>6
      <4>2. \A p \in Page : p <= page
        BY <1>5, <1>7, <3>6, GeometryAssumption DEF AllCopied, Page
      <4> QED
        BY <1>15, <3>2, <3>3, <4>1, <4>2 DEF Copying, CopyPcs, DestPcs
    <3>7. CASE ~AllCopied
      <4>1. pc' = "copy" /\ page + 1 # 0
        BY <1>7, <2>1, <3>7
      <4>2. \A p \in Page : IF p < page + 1 THEN CopiedTo(p)' ELSE BlankAt(cp.dst, p)'
        BY <3>3, <3>4, <3>5
      <4>3. (\A p \in Page : IF p < cp.page THEN CopiedTo(p) ELSE BlankAt(cp.dst, p))'
        BY <3>1, <4>2
      <4> QED
        BY <1>15, <3>1, <3>2, <4>1, <4>3 DEF Copying, CopyPcs, DestPcs
    <3> QED
      BY <3>6, <3>7
  <2>2. CASE Consumed = cp /\ cp.pos = done /\ cp' = cp /\ pc' = "condemn"
    <3>1. Begun
      BY <1>0, <2>2, FaultBegun
    <3>2. Begun'
      BY <1>0, <2>2, <3>1, SamePlace DEF Begun
    <3> QED
      BY <1>15, <2>2, <3>2 DEF Copying, CopyPcs, DestPcs
  <2> QED
    BY <1>2, <2>1, <2>2
<1> QED
  BY <1>1, <1>3, <1>4, <1>9, <1>16

LEMMA CopyPageHold ==
  ASSUME TypeInv, TypeInv', LutInv, HoldInv, "merge" \notin FaultOps, Remember, CopyPage
  PROVE  Rest /\ Closed' /\ Kept'
<1>0. /\ pc = "copy" /\ pc \in LoopPcs /\ req.op = "write" /\ Writing /\ ~lost
      /\ UNCHANGED <<req, buf, done, lost>> /\ acked' = acked
      /\ At \div SPB # NB /\ At \div SPB # NB - 1
  <2>1. pc = "copy" /\ UNCHANGED <<req, buf, done, lost>>
    BY DEF CopyPage
  <2>2. pc \in CopyPcs /\ pc \in DestPcs
    BY <2>1 DEF CopyPcs, DestPcs
  <2>3. Tagged(cp.src, At \div SPB) /\ cp.src \in Blk /\ At \div SPB # NB
    BY <2>1, <2>2, CopyLoop, BlkNat
  <2>4. At \div SPB # NB - 1
    BY <2>3 DEF HoldInv, Numbers, Tagged
  <2>5. acked' = acked
    <3>1. pc # "idle" /\ pc' # "idle"
      BY DEF CopyPage
    <3> QED
      BY <3>1, Unremembered
  <2> QED
    BY <2>1, <2>2, <2>3, <2>4, <2>5, CopyLoop
<1>3. /\ Copying' /\ pc' \in {"used", "copy", "condemn"}
      /\ cp'.src = cp.src /\ cp'.dst = cp.dst
      /\ \A b \in Blk \ {cp.dst} : tag'[b] = tag[b] /\ cell'[b] = cell[b]
      /\ ~tag'[cp.dst].bad
      /\ TagCopied => tag'[cp.dst].lbn = At \div SPB
      /\ TagCopied \/ UNCHANGED flash
  BY CopyPageStep DEF HoldInv
<1>10. Settled
  BY <1>0, <1>3 DEF Settled, Spared, DestPcs
<1>11. PromiseKept /\ Closed'
  BY <1>0, <1>3, PromiseSame DEF HoldInv, LoopPcs, CopyPcs
<1>12. Kept'
  BY <1>10, <1>11, SettledKept DEF HoldInv
<1>13. Numbers'
  <2>1. \A b \in Blk : tag'[b].lbn # NB - 1
    <3>1. CASE TagCopied
      BY <1>0, <1>3, <3>1 DEF HoldInv, Numbers
    <3>2. CASE UNCHANGED flash
      BY <3>2 DEF HoldInv, Numbers, flash
    <3> QED
      BY <1>3, <3>1, <3>2
  <2> QED
    BY <1>0, <1>3, <1>10, <2>1, SettledNumbers DEF HoldInv, FormatPcs
<1>14. FreeBlank'
  <2>1. CASE TagCopied
    <3>1. ASSUME NEW b \in Blk, Free(b)' PROVE b # cp.dst /\ Free(b)
      BY <1>0, <1>3, <2>1, <3>1 DEF Free, FreshTag
    <3> QED
      BY <1>3, <3>1 DEF HoldInv, FreeBlank, BlankAt
  <2>2. CASE UNCHANGED flash
    BY <2>2 DEF HoldInv, FreeBlank, BlankAt, Free, flash
  <2> QED
    BY <1>3, <2>1, <2>2
<1> QED
  BY <1>0, <1>3, <1>11, <1>12, <1>13, <1>14 DEF Rest, Formatting, RunWritten

(* What the copy holds for a sector: the caller's data or the source's.    *)
LEMMA CopyCell ==
  ASSUME TypeInv, pc \in LoopPcs, \A p \in Page : CopiedTo(p), NEW s \in Sectors,
         s \div SPB = At \div SPB, NEW p \in Page, p = (s % SPB) \div SPP,
         NEW c \in Sec, c = s % SPP
  PROVE  /\ s >= At /\ s < At + Span
              => cell[cp.dst][p][c] = DataCell(buf[s - req.first])
         /\ ~(s >= At /\ s < At + Span) => cell[cp.dst][p][c] = cell[cp.src][p][c]
<1>1. /\ s % SPB \in 0 .. SPB - 1
      /\ s % SPB = ((s % SPB) \div SPP) * SPP + (s % SPP)
  BY SectorPlace, PlaceOf
<1>2. PICK k \in Int : k = (s % SPB) - InBlock
  BY <1>1, LoopPlace, SPBType
<1>3. k = p * SPP + c - InBlock
  <2>1. PICK x \in Nat, y \in Nat, first \in Nat :
          x = s % SPB /\ y = InBlock /\ first = p * SPP
    BY <1>1, LoopPlace, PageOrder, SPBType
  <2>2. x = first + c /\ c \in Nat
    BY <1>1, <2>1, GeometryAssumption DEF Sec
  <2>3. k = first + c - y
    BY <1>2, <2>1, <2>2
  <2> QED
    BY <2>1, <2>3
<1>4. cell[cp.dst][p][c] = IF k >= 0 /\ k < Span THEN DataCell(buf[done + k])
                                                     ELSE cell[cp.src][p][c]
  BY <1>3 DEF CopiedTo
<1>5. s >= At /\ s < At + Span <=> k = s - At /\ k >= 0 /\ k < Span
  BY <1>2, SpanPlace
<1>6. k = s - At
  <2>1. /\ At \in Nat /\ At \div SPB \in Nat /\ InBlock \in 0 .. SPB - 1
        /\ At = (At \div SPB) * SPB + InBlock
    BY LoopPlace
  <2>2. s \in Nat /\ s = (s \div SPB) * SPB + (s % SPB)
    BY SectorPlace, PlaceOf
  <2>3. PICK base \in Nat : base = (At \div SPB) * SPB
    BY <2>1, SPBType, ProductType
  <2>4. PICK x \in Nat, y \in Nat : x = s % SPB /\ y = InBlock
    BY <1>1, <2>1, SPBType
  <2>5. s = base + x /\ At = base + y
    BY <2>1, <2>2, <2>3, <2>4
  <2> QED
    BY <1>2, <2>4, <2>5
<1>7. done + k = s - req.first
  BY <1>6, SectorOffset
<1> QED
  BY <1>4, <1>5, <1>6, <1>7

LEMMA CopyHolds ==
  ASSUME TypeInv, pc \in LoopPcs, \A p \in Page : CopiedTo(p), NEW s \in Sectors,
         s \div SPB = At \div SPB
  PROVE  /\ s >= At /\ s < At + Span => Value(cp.dst, s) = buf[s - req.first]
         /\ ~(s >= At /\ s < At + Span) => Value(cp.dst, s) = Value(cp.src, s)
<1>1. PICK p \in Page, c \in Sec : p = (s % SPB) \div SPP /\ c = s % SPP
  BY SectorPlace, PlaceOf
<1>2. /\ s >= At /\ s < At + Span
           => cell[cp.dst][p][c] = DataCell(buf[s - req.first])
      /\ ~(s >= At /\ s < At + Span) => cell[cp.dst][p][c] = cell[cp.src][p][c]
  BY <1>1, CopyCell
<1> QED
  BY <1>1, <1>2 DEF Value, DataCell

LEMMA EraseSourceStep ==
  ASSUME TypeInv, Copying, EraseSource
  PROVE  /\ Copying' /\ cp.dst \in Blk /\ cp.src \in Blk /\ cp.dst # cp.src
         /\ Tagged(cp.src, At \div SPB) /\ Tagged(cp.dst, At \div SPB)
         /\ \A p \in Page : CopiedTo(p)
         /\ \A b \in Blk \ {cp.src} : cell'[b] = cell[b] /\ tag'[b] = tag[b]
         /\ \/ /\ FaultAt("erase")
               /\ tag'[cp.src] = tag[cp.src] /\ cell'[cp.src] = cell[cp.src]
            \/ /\ tag'[cp.src] = FreshTag
               /\ \A p \in Page, s \in Sec : cell'[cp.src][p][s] = BlankCell
<1>0. /\ pc = "erase" /\ pc' = "fixlut" /\ pc \in LoopPcs
      /\ UNCHANGED <<req, buf, done, cp>> /\ FlashType
      /\ cp.dst \in Blk /\ cp.src \in Blk /\ cp.dst # cp.src
      /\ Tagged(cp.src, At \div SPB) /\ Tagged(cp.dst, At \div SPB)
      /\ \A p \in Page : CopiedTo(p)
  BY DEF EraseSource, CopyPcs, DestPcs, LoopPcs, Copying, TypeInv, TypeOK, Shape
<1>1. /\ \A b \in Blk \ {cp.src} : cell'[b] = cell[b] /\ tag'[b] = tag[b]
      /\ \/ /\ FaultAt("erase")
            /\ tag'[cp.src] = tag[cp.src] /\ cell'[cp.src] = cell[cp.src]
         \/ /\ tag'[cp.src] = FreshTag
            /\ \A p \in Page, s \in Sec : cell'[cp.src][p][s] = BlankCell
  <2>1. CASE Erased(cp.src)
    BY <1>0, <2>1, ErasedIs
  <2>2. CASE FaultAt("erase") /\ UNCHANGED flash
    BY <2>2 DEF flash
  <2> QED
    BY <2>1, <2>2 DEF EraseSource
<1>2. cell'[cp.dst] = cell[cp.dst] /\ tag'[cp.dst] = tag[cp.dst]
  BY <1>0, <1>1
<1>3. Copying'
  <2>1. ASSUME NEW s \in Sectors, s >= At, s < At + Span
        PROVE  \E v : v = buf[s - req.first] /\ Holds(cp.dst, s, v)'
    <3>1. s \div SPB = At \div SPB
      BY <1>0, <2>1, SpanPlace
    <3>2. PICK v : v = buf[s - req.first]
      OBVIOUS
    <3>3. Value(cp.dst, s) = v
      BY <1>0, <2>1, <3>1, <3>2, CopyHolds
    <3>4. Holds(cp.dst, s, v)'
      BY <1>0, <1>2, <3>1, <3>3 DEF Holds, Tagged, Value
    <3> QED
      BY <3>2, <3>4
  <2>2. At' = At /\ Span' = Span /\ buf' = buf /\ req' = req
    BY <1>0, SamePlace
  <2>3. (\A s \in Sectors : s >= At /\ s < At + Span
           => Holds(cp.dst, s, buf[s - req.first]))'
    BY <2>1, <2>2 DEF Holds
  <2>4. Tagged(cp.dst, At \div SPB)'
    BY <1>0, <1>2, <2>2 DEF Tagged
  <2> QED
    BY <1>0, <2>3, <2>4 DEF Copying, CopyPcs
<1> QED
  BY <1>0, <1>1, <1>3

LEMMA EraseSourceHold ==
  ASSUME TypeInv, TypeInv', LutInv, HoldInv, Remember, EraseSource
  PROVE  Rest /\ Closed' /\ Kept'
<1>0. /\ pc = "erase" /\ pc \in LoopPcs /\ req.op = "write" /\ Writing
      /\ cp.src \in Blk /\ cp.dst \in Blk /\ cp.dst # cp.src
      /\ pc' = "fixlut" /\ ~lost /\ FlashType
      /\ UNCHANGED <<req, buf, done, cp, lost>>
      /\ Tagged(cp.src, At \div SPB) /\ Tagged(cp.dst, At \div SPB)
      /\ tag[cp.dst].lbn # NB /\ \A p \in Page : CopiedTo(p)
      /\ Span \in 1 .. Left
  <2>1. pc = "erase" /\ pc' = "fixlut" /\ UNCHANGED <<req, buf, done, cp, lost>>
    BY DEF EraseSource
  <2>2. pc \in CopyPcs /\ cp.dst \in Blk
    BY <2>1 DEF CopyPcs, DestPcs, TypeInv, Shape
  <2>3. /\ cp.dst # cp.src /\ Tagged(cp.dst, At \div SPB)
        /\ \A p \in Page : CopiedTo(p)
    BY <2>1 DEF HoldInv, Copying, DestPcs
  <2>4. tag[cp.dst].lbn # NB
    BY <2>1, <2>2, <2>3, CopyLoop, BlkNat DEF Tagged
  <2> QED
    BY <2>1, <2>2, <2>3, <2>4, CopyLoop, SpanRun
<1>2. /\ \A b \in Blk \ {cp.src} : cell'[b] = cell[b] /\ tag'[b] = tag[b]
      /\ \/ tag'[cp.src] = tag[cp.src] /\ cell'[cp.src] = cell[cp.src]
         \/ /\ tag'[cp.src] = FreshTag
            /\ \A p \in Page, s \in Sec : cell'[cp.src][p][s] = BlankCell
  BY EraseSourceStep DEF HoldInv
<1>3. acked' = acked
  BY <1>0, Unremembered
<1>4. PromiseKept /\ Closed'
  BY <1>0, <1>3, PromiseSame DEF HoldInv, LoopPcs, CopyPcs
<1>5. \A b : ~Spared(b)'
  BY <1>0 DEF Spared
<1>6. cell'[cp.dst] = cell[cp.dst] /\ tag'[cp.dst] = tag[cp.dst]
  BY <1>0, <1>2
<1>7. StillBacked
  <2>1. SUFFICES ASSUME NEW s \in Sectors, NEW v, v = Promise(s), v # Unknown
                 PROVE  Backed(s, v)'
    BY DEF StillBacked
  <2>2. PICK b \in Blk : Holds(b, s, v)
    BY <2>1 DEF HoldInv, Kept, Backed
  <2>3. CASE b # cp.src
    <3>1. Holds(b, s, v)'
      BY <1>2, <2>2, <2>3 DEF Holds, Tagged, Value
    <3> QED
      BY <1>5, <2>2, <3>1 DEF Backed
  <2>4. CASE b = cp.src
    <3>1. s \div SPB = At \div SPB
      BY <1>0, <2>2, <2>4 DEF Holds, Tagged
    <3>2. ~(s >= At /\ s < At + Span)
      BY <1>0, <2>1, RunUnpromised DEF HoldInv
    <3>3. Value(cp.dst, s) = v
      BY <1>0, <2>2, <2>4, <3>1, <3>2, CopyHolds DEF Holds
    <3>4. PICK d \in Blk : d = cp.dst
      BY <1>0
    <3>5. Holds(d, s, v)'
      BY <1>0, <1>6, <3>1, <3>3, <3>4 DEF Holds, Tagged, Value
    <3> QED
      BY <1>5, <3>5 DEF Backed
  <2> QED
    BY <2>3, <2>4
<1>8. Numbers'
  <2>1. ASSUME NEW l \in Blk, l < MinBlocks
        PROVE  \E b \in Blk : ~Spared(b)' /\ Tagged(b, l)'
    <3>1. PICK b \in Blk : Tagged(b, l)
      BY <1>0, <2>1 DEF HoldInv, Numbers, Numbered, FormatPcs
    <3>2. PICK d \in Blk : d # cp.src /\ Tagged(d, l)
      BY <1>0, <3>1 DEF Tagged
    <3> QED
      BY <1>2, <1>5, <3>2 DEF Tagged
  <2>2. \A b \in Blk : tag'[b].lbn # NB - 1
    BY <1>0, <1>2, BlkNat DEF HoldInv, Numbers, FreshTag
  <2> QED
    BY <1>0, <2>1, <2>2 DEF Numbers, Numbered, FormatPcs
<1>9. FreeBlank'
  <2>1. ASSUME NEW b \in Blk, Free(b)', NEW p \in Page
        PROVE  BlankAt(b, p)'
    <3>1. CASE b # cp.src
      BY <1>2, <2>1, <3>1 DEF HoldInv, FreeBlank, BlankAt, Free
    <3>2. CASE b = cp.src
      <4>1. tag[cp.src] # FreshTag
        BY <1>0, BlkNat DEF Tagged, FreshTag, HoldInv, Numbers
      <4> QED
        BY <1>2, <2>1, <3>2, <4>1 DEF BlankAt, Free
    <3> QED
      BY <3>1, <3>2
  <2> QED
    BY <2>1 DEF FreeBlank
<1>10. Copying'
  BY EraseSourceStep DEF HoldInv
<1> QED
  BY <1>0, <1>4, <1>7, <1>8, <1>9, <1>10, KeptFrom DEF Rest, Formatting, RunWritten

LEMMA FixLUTHold ==
  ASSUME TypeInv, TypeInv', LutInv, HoldInv, Remember, FixLUT
  PROVE  Rest /\ Closed' /\ Kept'
<1>0. /\ pc = "fixlut" /\ pc \in LoopPcs /\ pc \notin FormatPcs
      /\ req.op = "write" /\ Writing /\ cp.dst \in Blk
      /\ Advance(Span) /\ Frame(markd, buf) /\ UNCHANGED flash /\ lost' = lost
      /\ Span \in 1 .. Left
      /\ \A s \in Sectors : s >= At /\ s < At + Span
           => Holds(cp.dst, s, buf[s - req.first])
  <2>1. pc = "fixlut" /\ Frame(markd, buf) /\ UNCHANGED flash /\ lost' = lost
    BY DEF FixLUT
  <2>2. pc \in CopyPcs /\ cp.dst \in Blk
    BY <2>1 DEF CopyPcs, DestPcs, TypeInv, Shape
  <2>3. pc \in LoopPcs /\ req.op = "write" /\ Writing /\ pc \notin FormatPcs
    BY <2>2, CopyLoop
  <2>4. Advance(Span)
    BY <2>3 DEF FixLUT, Span
  <2>5. Span \in 1 .. Left
    BY <2>3, SpanRun
  <2>6. \A s \in Sectors : s >= At /\ s < At + Span
          => Holds(cp.dst, s, buf[s - req.first])
    BY <2>1 DEF HoldInv, Copying
  <2> QED
    BY <2>1, <2>2, <2>3, <2>4, <2>5, <2>6
<1>1. pc' \in {"idle", "write"}
  BY <1>0 DEF Advance, Return
<1>2. Rest
  BY <1>0, <1>1, OutsideHold
<1>3. ASSUME NEW s \in Sectors, s >= At, s < At + Span
      PROVE  Arrived(s)
  <2>1. PICK v : v = buf[s - req.first]
    OBVIOUS
  <2>2. PICK d \in Blk : d = cp.dst
    BY <1>0
  <2>3. Holds(d, s, v)
    BY <1>0, <1>3, <2>1, <2>2
  <2>4. ~Spared(d)' /\ Holds(d, s, v)'
    BY <1>0, <1>1, <2>3 DEF Spared, DestPcs, Holds, Tagged, Value, flash
  <2> QED
    BY <2>1, <2>4 DEF Arrived, Backed
<1>4. PromiseKept /\ Closed'
  BY <1>0, <1>3, PromiseAdvance DEF HoldInv
<1>5. Settled
  BY <1>0, <1>1, QuietSettled DEF DestPcs
<1>6. Kept'
  BY <1>4, <1>5, SettledKept DEF HoldInv
<1> QED
  BY <1>2, <1>4, <1>6

-----------------------------------------------------------------------------
(* Every step.                                                             *)

(* Outside a write nothing but acknowledged data is promised, and a format *)
(* runs only while there is none.                                          *)
LEMMA FormatHold ==
  ASSUME TypeInv, TypeInv', HoldInv, FewBad', EnoughBlocks, Remember,
         FormatErase \/ FormatTag
  PROVE  Rest /\ Closed' /\ Kept'
<1>1. ~lost' /\ FreeBlank' /\ Numbers' /\ Formatting' /\ pc' \in {"fmtErase", "fmtTag", "idle"}
  BY FormatEraseHold, FormatTagHold
<1>2. ~Writing' /\ RunWritten' /\ Copying'
  BY <1>1 DEF Writing, RunWritten, Copying, LoopPcs, CopyPcs, DestPcs, TestPcs
<1>3. /\ pc \in FormatPcs /\ pc # "idle" /\ ~Promised
  BY DEF FormatErase, FormatTag, FormatPcs, HoldInv, Numbers
<1>4. acked' = acked
  BY <1>3, Unremembered
<1>5. \A s \in Sectors : Promise(s)' = Unknown
  BY <1>2, <1>3, <1>4 DEF Promise, Promised
<1> QED
  BY <1>1, <1>2, <1>5 DEF Rest, Closed, Kept

LEMMA StutterHold == ASSUME HoldInv, UNCHANGED <<vars, acked>> PROVE HoldInv'
<1>1. UNCHANGED <<cell, tag, lut, valid, cur, pc, req, buf, done, markd, cp, fmt, rc,
                  lost, faults, crashes, flips, acked>>
  BY DEF vars, flash, ram, env
<1>2. \A b : Spared(b)' = Spared(b)
  BY <1>1 DEF Spared
<1>3. Clean' /\ FreeBlank' /\ ~lost'
  BY <1>1 DEF HoldInv, Clean, Unflipped, FreeBlank, BlankAt, Free
<1>4. RunWritten'
  BY <1>1 DEF HoldInv, RunWritten, Value, PBN, LBNToPBN, At, PageRun, Left, SecNo, InBlock
<1>5. Copying'
  BY <1>1 DEF HoldInv, Copying, Underway, Begun, Ahead, CopiedTo, BlankAt, Free, Tagged,
              Holds, Value, At, Span, BlockRun, PageRun, Left, PageNo, SecNo, InBlock
<1>6. Closed' /\ Kept'
  BY <1>1, <1>2 DEF HoldInv, Closed, Kept, Promise, Writing, Asked, At, Backed, Holds,
                    Tagged, Value
<1>7. Numbers' /\ Formatting'
  BY <1>1, <1>2 DEF HoldInv, Numbers, Numbered, Promised, Tagged, Formatting, GoodBelow,
                    Quota
<1>8. FewBad'
  BY <1>1 DEF HoldInv, FewBad, Bad, Pending
<1> QED
  BY <1>3, <1>4, <1>5, <1>6, <1>7, <1>8 DEF HoldInv

LEMMA HoldNext ==
  ASSUME Steady
  PROVE  TypeInv /\ Whole /\ LutInv /\ HoldInv /\ [HNext]_<<vars, acked>> => HoldInv'
<1> SUFFICES ASSUME TypeInv, Whole, LutInv, HoldInv, HNext PROVE HoldInv'
  BY StutterHold
<1>0. /\ Next /\ Remember /\ WholeMarks
      /\ ~FormatEraseUnmarked /\ ~FormatUnnumbered
  BY FormatMarks, FormatNumbers DEF HNext, Steady
<1>1. TypeInv'
  BY <1>0, NextType
<1>2. Clean'
  BY <1>0, CleanStep DEF Steady, HoldInv
<1>3. FewBad'
  BY <1>0, <1>1, FewBadNext DEF HoldInv, Clean
<1>4. Rest /\ Closed' /\ Kept'
  <2>1. ~(CompareFF \/ Compare00 \/ EraseTested \/ CondemnSource \/ Flip)
    BY DEF CompareFF, Compare00, EraseTested, CondemnSource, Flip, HoldInv, Clean, TestPcs,
           Steady, TypeInv, TypeOK, EnvType
  <2>2. CASE CallWrite \/ CallRead \/ Unmapped \/ ReadTimeout \/ ReadRun
    BY <1>0, <1>1, <2>2, CallHold DEF Steady
  <2>3. CASE WriteDirect \/ Mark \/ WriteMove
    BY <1>0, <1>1, <2>3, WriteDirectHold, MarkHold, WriteMoveHold
  <2>4. CASE Find \/ CopyPage \/ Condemn
    BY <1>0, <1>1, <2>4, FindHold, CopyPageHold, CondemnHold DEF Steady
  <2>5. CASE MarkCopy \/ EraseSource \/ FixLUT
    BY <1>0, <1>1, <2>5, MarkCopyHold, EraseSourceHold, FixLUTHold
  <2>6. CASE Boot \/ Reinit \/ Crash
    BY <1>0, <1>1, <2>6, BootHold, RebootHold
  <2>7. CASE FormatErase \/ FormatTag
    BY <1>0, <1>1, <1>3, <2>7, FormatHold DEF Steady
  <2> QED
    BY <1>0, <2>1, <2>2, <2>3, <2>4, <2>5, <2>6, <2>7
    DEF Next, Call, Step, WriteStep, ReadStep, CopyStep, FormatStep
<1> QED
  BY <1>2, <1>3, <1>4 DEF HoldInv, Rest

LEMMA FewBadInit == Init => FewBad
<1> SUFFICES ASSUME Init PROVE FewBad
  OBVIOUS
<1>1. PICK bad \in FactoryBad :
        tag = [b \in Blk |-> IF b \in bad THEN BadTag ELSE FreshTag]
  BY DEF Init
<1>2. bad \in SUBSET Blk
  BY <1>1, FTLAssumption
<1>3. Bad = bad
  <2>1. \A b \in Blk : tag[b].bad <=> b \in bad
    BY <1>1 DEF BadTag, FreshTag
  <2> QED
    BY <1>2, <2>1 DEF Bad
<1>4. PICK n \in Nat : n = Cardinality(bad)
  BY <1>2, PartCounted
<1>5. Cardinality(Bad) + Pending <= Cardinality(bad) + faults
  BY <1>3, <1>4 DEF Init, Pending
<1> QED
  BY <1>5 DEF FewBad

LEMMA HoldInit == HInit => HoldInv
<1> SUFFICES ASSUME HInit PROVE HoldInv
  OBVIOUS
<1>0. /\ pc = "boot" /\ ~lost /\ cell = [b \in Blk |-> Blank] /\ faults = 0
      /\ acked = [s \in Sectors |-> Unknown]
  BY DEF HInit, Init
<1>1. PICK bad \in FactoryBad :
        tag = [b \in Blk |-> IF b \in bad THEN BadTag ELSE FreshTag]
  BY DEF HInit, Init
<1>2. Clean /\ FreeBlank
  BY <1>0 DEF Clean, Unflipped, FreeBlank, BlankAt, Blank, BlankCell, TestPcs, CopyPcs
<1>3. RunWritten /\ Copying /\ Formatting /\ ~Writing
  BY <1>0 DEF RunWritten, Copying, Formatting, Writing, CopyPcs, DestPcs, LoopPcs, TestPcs
<1>4. Closed /\ Kept /\ ~Promised
  BY <1>0, <1>3 DEF Closed, Kept, Promise, Promised
<1>5. Numbers
  <2>1. \A b \in Blk : tag[b].lbn = NB
    BY <1>1 DEF BadTag, FreshTag
  <2> QED
    BY <1>0, <1>4, <2>1, BlkNat DEF Numbers, FormatPcs
<1>6. FewBad
  BY FewBadInit DEF HInit
<1> QED
  BY <1>0, <1>2, <1>3, <1>4, <1>5, <1>6 DEF HoldInv

(* What is promised can be read back.                                      *)
LEMMA HoldDurable ==
  ASSUME Odd = {}, TypeInv, HoldInv
  PROVE  Durable
<1> SUFFICES ASSUME NEW s \in Sectors, acked[s] # Unknown
             PROVE  \E b \in Blk : /\ Tagged(b, s \div SPB)
                                   /\ Decode(cell[b][(s % SPB) \div SPP][s % SPP]).data = acked[s]
  BY DEF Durable, Tagged
<1>1. Promise(s) = acked[s]
  <2>1. CASE Writing
    <3>1. s \notin Asked /\ pc \in LoopPcs
      BY <2>1 DEF HoldInv, Closed, Writing
    <3> QED
      BY <2>1, <3>1, AskedBelow DEF Promise
  <2>2. CASE ~Writing
    BY <2>2 DEF Promise
  <2> QED
    BY <2>1, <2>2
<1>2. PICK b \in Blk : Holds(b, s, acked[s])
  BY <1>1 DEF HoldInv, Kept, Backed
<1>3. PICK p \in Page, c \in Sec : p = (s % SPB) \div SPP /\ c = s % SPP
  BY SectorPlace, PlaceOf
<1>4. cell[b][p][c].flip = FALSE
  BY DEF HoldInv, Clean, Unflipped
<1>5. Decode(cell[b][p][c]).data = cell[b][p][c].val
  BY <1>4, CleanDecode
<1> QED
  BY <1>2, <1>3, <1>5 DEF Holds, Value

(***************************************************************************)
(* A power failure at any point between two NAND commands, any number of   *)
(* them, and NAND commands that fail (but not on a page that carries the   *)
(* caller's data past its first sectors, not one mark of two alone, and    *)
(* not the numbers of a format: Steady) never destroy what a write         *)
(* acknowledged: FTL_CopyAndWriteToBlock erases the source only when every *)
(* sector of it that is still wanted is in the copy, and FTL_Init formats  *)
(* only chips that hold nothing.                                           *)
(***************************************************************************)
THEOREM Durability == ASSUME Steady PROVE HSpec => []Durable
<1>1. HSpec => Spec
  <2>1. HInit => Init
    BY DEF HInit
  <2>2. [HNext]_<<vars, acked>> => [Next]_vars
    BY DEF HNext
  <2> QED
    BY <2>1, <2>2, PTL DEF HSpec, Spec
<1>2. HSpec => []HoldInv
  <2>1. Spec => []LutInv
    BY LutInvariance DEF Steady
  <2> QED
    BY <1>1, <2>1, HoldInit, HoldNext, TypeInvariance, WholeInvariance, PTL DEF HSpec
<1>3. TypeInv /\ HoldInv => Durable
  BY HoldDurable DEF Steady
<1> QED
  BY <1>1, <1>2, <1>3, TypeInvariance, PTL

-----------------------------------------------------------------------------
(* The inductive invariant behind IsBlockDevice.                           *)

(* Free blocks are blank, but for the one under test while it is zeroed.   *)
Zeroing(b) == pc \in {"eraseSrc", "eraseBad"} /\ b = cp.src

Blanked == \A b \in Blk : Free(b) /\ ~Zeroing(b) => \A p \in Page : BlankAt(b, p)

Virgin == \A b \in Blk, p \in Page : BlankAt(b, p)

Untagged == \A b \in Blk : ~tag[b].bad => tag[b].lbn = NB

(***************************************************************************)
(* One good block carries a number, the one the table names, except that   *)
(* the destination of a copy carries its source's: FTL_CreateLUT finds the *)
(* same table again.                                                       *)
(***************************************************************************)
Spare(b) == pc \in DestPcs /\ b = cp.dst

Sole == \A l, b \in Blk : Tagged(b, l) => lut[l] = b \/ (Spare(b) /\ lut[l] = cp.src)

InTable == \A l \in Blk : lut[l] = NB \/ Tagged(lut[l], l)

Stocked == valid >= MinBlocks /\ Sole

Serviceable ==
    /\ pc \notin FormatPcs => Stocked
    /\ pc = "boot" => \/ valid = 0 /\ Virgin /\ Untagged
                      \/ Stocked /\ InTable
    /\ pc \in {"fmtErase", "fmtTag"} => Virgin /\ valid < MinBlocks

Tested == pc \in TestPcs \cup {"fixlut"} => tag[cp.src] = FreshTag

Faulted == pc = "condemn" => faults >= 1

FewBadYet == pc \in FormatPcs /\ valid < MinBlocks => FewBad

(* A number is given once.                                                 *)
Numbering ==
    pc = "fmtTag" =>
      /\ \A b \in Blk : b < fmt.i - NB /\ ~tag[b].bad => tag[b].lbn < fmt.n
      /\ \A b, c \in Blk : /\ b < fmt.i - NB /\ ~tag[b].bad
                           /\ c < fmt.i - NB /\ ~tag[c].bad
                           /\ tag[b].lbn = tag[c].lbn
                           => b = c

(***************************************************************************)
(* How far beyond the loop's sector the caller's buffer and the medium     *)
(* agree already: after the run is programmed, after it is read, and after *)
(* the source of a copy is erased.                                         *)
(***************************************************************************)
Ready == IF pc = "mark" THEN PageRun
         ELSE IF pc = "fixlut" \/ (req.op = "read" /\ pc # "read") THEN Span ELSE 0

Ok == pc \in LoopPcs => \A s \in Sectors : s >= req.first /\ s < At + Ready
                          => Disk[s] = buf[s - req.first]

DevInv == /\ ~lost
          /\ Blanked /\ Serviceable /\ Copying
          /\ Tested /\ Faulted
          /\ Formatting /\ Numbering /\ FewBadYet
          /\ Ok

-----------------------------------------------------------------------------
(* What the medium looks like from outside.                                *)

LEMMA DiskAt ==
  ASSUME NEW s \in Sectors
  PROVE  /\ Place(s \div SPB) = NB => Disk[s] = FF
         /\ Place(s \div SPB) # NB =>
              Disk[s] = Decode(cell[Place(s \div SPB)][(s % SPB) \div SPP][s % SPP]).data
  BY DEF Disk

LEMMA DiskNextAt ==
  ASSUME NEW s \in Sectors, NEW b, b = Place(s \div SPB)'
  PROVE  /\ b = NB => Disk'[s] = FF
         /\ b # NB => Disk'[s] = Decode(cell'[b][(s % SPB) \div SPP][s % SPP]).data
<1>1. SPB' = SPB /\ SPP' = SPP
  BY DEF SPB
<1> QED
  BY <1>1 DEF Disk

LEMMA SectorStill ==
  ASSUME NEW s \in Sectors, NEW b, b = Place(s \div SPB), b = Place(s \div SPB)',
         NEW p, p = (s % SPB) \div SPP, NEW c, c = s % SPP,
         b # NB => cell'[b][p][c] = cell[b][p][c]
  PROVE  Disk'[s] = Disk[s]
<1>1. CASE b = NB
  BY <1>1, DiskAt, DiskNextAt
<1>2. CASE b # NB
  <2>1. Disk[s] = Decode(cell[b][p][c]).data
    BY <1>2, DiskAt
  <2>2. Disk'[s] = Decode(cell'[b][p][c]).data
    BY <1>2, DiskNextAt
  <2> QED
    BY <1>2, <2>1, <2>2, Zenon
<1> QED
  BY <1>1, <1>2

LEMMA DecodeType == \A c \in Cell : Decode(c).data \in Stored
  BY ValueAssumption DEF Cell, Decode, Stored

LEMMA PlaceType == TypeInv => \A l \in Blk : Place(l) \in 0 .. NB
  BY DEF Place, TypeInv, TypeOK, RamType, CallType, Copies

LEMMA DiskType == TypeInv => Disk \in [Sectors -> Stored]
<1> SUFFICES ASSUME TypeInv, NEW s \in Sectors
             PROVE  Disk[s] \in Stored
  BY DEF Disk
<1>1. PICK b \in 0 .. NB : b = Place(s \div SPB)
  BY SectorPlace, PlaceType
<1>2. PICK p \in Page, c \in Sec : p = (s % SPB) \div SPP /\ c = s % SPP
  BY SectorPlace, PlaceOf
<1>3. CASE b = NB
  BY <1>1, <1>3, DiskAt, ValueAssumption DEF Stored
<1>4. CASE b # NB
  <2>1. b \in Blk
    BY <1>4, BlkNat DEF Blk
  <2>2. cell[b][p][c] \in Cell
    BY <2>1 DEF TypeInv, TypeOK, FlashType
  <2> QED
    BY <1>1, <1>2, <1>4, <2>2, DiskAt, DecodeType
<1> QED
  BY <1>3, <1>4

LEMMA DiskEqual ==
  ASSUME TypeInv, TypeInv', \A s \in Sectors : Disk'[s] = Disk[s]
  PROVE  Disk' = Disk
<1>1. PICK d : d = Disk
  OBVIOUS
<1>2. PICK e : e = Disk'
  OBVIOUS
<1>3. d \in [Sectors -> Stored]
  BY <1>1, DiskType
<1>4. (Disk \in [Sectors -> Stored])'
  BY DiskType, PTL
<1>5. e \in [Sectors -> Stored]
  BY <1>2, <1>4 DEF Sectors, SPB, Stored
<1>6. \A s \in Sectors : e[s] = d[s]
  BY <1>1, <1>2
<1>7. e = d
  BY <1>3, <1>5, <1>6
<1> QED
  BY <1>1, <1>2, <1>7

(* Steps that leave every block of the table alone.                        *)
LEMMA DiskSame ==
  ASSUME TypeInv, TypeInv',
         \A l \in Blk : /\ Place(l)' = Place(l)
                        /\ Place(l) # NB => cell'[Place(l)] = cell[Place(l)]
  PROVE  Disk' = Disk
<1>1. ASSUME NEW s \in Sectors PROVE Disk'[s] = Disk[s]
  <2>1. PICK l \in Blk : l = s \div SPB
    BY SectorPlace
  <2>2. PICK b : b = Place(l) /\ b = Place(l)'
    OBVIOUS
  <2>3. b # NB => cell'[b] = cell[b]
    BY <2>2
  <2>4. b = Place(s \div SPB) /\ b = Place(s \div SPB)'
    BY <2>1, <2>2 DEF Place, SPB
  <2> QED
    BY <2>3, <2>4, DiskAt, DiskNextAt
<1> QED
  BY <1>1, DiskEqual

LEMMA BlankDecode == Decode(BlankCell).data = FF /\ Decode(BlankCell).sta = "ecc2"
<1> DEFINE c == BlankCell
<1>1. c.val = FF /\ c.ecc = BlankEcc /\ c.flip = FALSE
  BY DEF BlankCell
<1>2. c.ecc # c.val /\ (c.val \in Odd) = FALSE
  BY <1>1, ValueAssumption
<1>3. ~((c.val \in Odd) # c.flip)
  BY <1>1, <1>2, Zenon
<1>4. Decode(c) = [sta |-> "ecc2", data |-> c.val]
  <2> HIDE DEF c
  <2> QED
    BY <1>1, <1>2, <1>3, Zenon DEF Decode
<1> QED
  BY <1>1, <1>4

LEMMA VirginDisk == TypeInv /\ Virgin => \A s \in Sectors : Disk[s] = FF
<1> SUFFICES ASSUME TypeInv, Virgin, NEW s \in Sectors PROVE Disk[s] = FF
  OBVIOUS
<1>1. PICK b \in 0 .. NB : b = Place(s \div SPB)
  BY SectorPlace, PlaceType
<1>2. PICK p \in Page, c \in Sec : p = (s % SPB) \div SPP /\ c = s % SPP
  BY SectorPlace, PlaceOf
<1>3. ASSUME b # NB PROVE Disk[s] = FF
  <2>1. b \in Blk
    BY <1>3, BlkNat DEF Blk
  <2>2. cell[b][p][c] = BlankCell
    BY <2>1 DEF Virgin, BlankAt
  <2> QED
    BY <1>1, <1>2, <1>3, <2>2, BlankDecode, DiskAt
<1> QED
  BY <1>1, <1>3, DiskAt

LEMMA StillVirgin ==
  ASSUME TypeInv, TypeInv', Virgin, Virgin'
  PROVE  Disk' = Disk
<1>1. \A s \in Sectors : Disk[s] = FF
  BY VirginDisk
<1>2. (\A s \in Sectors : Disk[s] = FF)'
  BY VirginDisk, PTL
<1>3. \A s \in Sectors : Disk'[s] = FF
  BY <1>2 DEF Sectors, SPB
<1> QED
  BY <1>1, <1>3, DiskEqual

-----------------------------------------------------------------------------
(* What the caller sees of a step.                                         *)

LEMMA InCall ==
  TypeInv => /\ Serving <=> pc \in LoopPcs
             /\ pc \in LoopPcs => req.op \in {"write", "read"}
  BY DEF Serving, LoopPcs, CopyPcs, TestPcs, TypeInv, TypeOK, CallType, Pcs, Shape

LEMMA InCallNext == TypeInv' => (Serving' <=> pc' \in LoopPcs)
<1>1. (TypeInv => (Serving <=> pc \in LoopPcs))'
  BY InCall, PTL
<1> QED
  BY <1>1 DEF LoopPcs

LEMMA JobIs ==
  /\ ~Serving => Job = Device!NoJob
  /\ Serving => /\ Job.op = req.op /\ Job.first = req.first /\ Job.len = req.len
                /\ Job.data = IF req.op = "write" THEN Data ELSE << >>
  BY DEF Job, Device!NoJob

LEMMA NoJobIs == Device!NoJob.op = "none"
  BY DEF Device!NoJob

LEMMA AskedIs == Serving => Device!Asked(Job) = Asked
  BY JobIs DEF Device!Asked, Asked

(* Between calls, and where a step changes nothing that is seen.           *)
LEMMA OutsideStays ==
  ASSUME TypeInv, TypeInv', pc \notin LoopPcs, pc' \notin LoopPcs,
         UNCHANGED <<req, buf, rc>>, Disk' = Disk
  PROVE  UNCHANGED Device!dvars
<1>1. ~Serving /\ ~Serving'
  BY InCall, InCallNext
<1>2. Job' = Job
  BY <1>1 DEF Job
<1>3. Data' = Data
  BY DEF Data
<1>4. Reply' = Reply
  BY <1>1, <1>3 DEF Reply
<1> QED
  BY <1>2, <1>4 DEF Device!dvars

LEMMA LoopSame ==
  ASSUME TypeInv, TypeInv', pc \in LoopPcs, pc' \in LoopPcs,
         req' = req, req.op = "write" => buf' = buf
  PROVE  Job' = Job /\ Reply' = Reply
<1>1. Serving /\ Serving'
  BY InCall, InCallNext
<1>2. req.op = "write" => Data' = Data
  BY DEF Data
<1>3. Job' = Job
  BY <1>1, <1>2 DEF Job
<1>4. Reply' = Reply
  BY <1>1 DEF Reply
<1> QED
  BY <1>3, <1>4

LEMMA LoopStays ==
  ASSUME TypeInv, TypeInv', pc \in LoopPcs, pc' \in LoopPcs,
         req' = req, req.op = "write" => buf' = buf, Disk' = Disk
  PROVE  UNCHANGED Device!dvars
  BY LoopSame DEF Device!dvars

(* A step of a write that changes the sectors it was asked for at most.    *)
OnlyAsked == \A s \in Sectors : s \notin Asked => Disk'[s] = Disk[s]

LEMMA LoopScribbles ==
  ASSUME TypeInv, TypeInv', pc \in LoopPcs, pc' \in LoopPcs,
         req' = req, req.op = "write", buf' = buf, OnlyAsked
  PROVE  Device!DNext
<1>1. Job' = Job /\ Reply' = Reply
  BY LoopSame
<1>2. Job.op = "write" /\ Device!Asked(Job) = Asked
  BY InCall, JobIs, AskedIs
<1>3. Disk' \in [Sectors -> Stored]
  <2>1. (Disk \in [Sectors -> Stored])'
    BY DiskType, PTL
  <2> QED
    BY <2>1 DEF Sectors, SPB, Stored
<1>4. \A s \in Sectors \ Device!Asked(Job) : Disk'[s] = Disk[s]
  BY <1>2 DEF OnlyAsked
<1>5. Device!Scribble
  BY <1>1, <1>2, <1>3, <1>4 DEF Device!Scribble
<1> QED
  BY <1>5 DEF Device!DNext

LEMMA CallStarts ==
  ASSUME TypeInv, TypeInv', pc \notin LoopPcs, pc' \in LoopPcs, Disk' = Disk
  PROVE  Device!DNext
<1>1. ~Serving /\ Serving'
  BY InCall, InCallNext
<1>2. Job = Device!NoJob
  BY <1>1, JobIs
<1>3. Job' # Device!NoJob
  <2>1. Job'.op = req'.op
    BY <1>1 DEF Job
  <2>2. (pc \in LoopPcs => req.op \in {"write", "read"})'
    BY InCall, PTL
  <2> QED
    BY <2>1, <2>2, NoJobIs DEF LoopPcs
<1>4. Reply' = Device!Pending
  BY <1>1 DEF Reply, Device!Pending
<1> QED
  BY <1>2, <1>3, <1>4 DEF Device!Call, Device!DNext

(* The answer of a call that ends: a read's data are what it has read.     *)
LEMMA ReplyIs ==
  ASSUME TypeInv, TypeInv', pc \in LoopPcs, pc' = "idle", NEW m, NEW b, Frame(m, b)
  PROVE  /\ Job # Device!NoJob /\ Job' = Device!NoJob /\ Reply'.code = rc'
         /\ req.op = "read" => \A s \in Asked : Reply'.data[s - req.first] = b[s - req.first]
<1>1. Serving /\ ~Serving' /\ req.op \in {"write", "read"}
  BY InCall, InCallNext DEF LoopPcs, CopyPcs, TestPcs
<1>2. Job # Device!NoJob
  BY <1>1, JobIs, NoJobIs
<1>3. Job' = Device!NoJob
  BY <1>1 DEF Job, Device!NoJob
<1>4. req'.op = req.op /\ req'.op # "none"
  BY <1>1 DEF Frame, TypeInv, TypeOK, CallType, Requests, NoReq
<1>5. Reply'.code = rc'
  BY <1>1, <1>4 DEF Reply
<1>6. ASSUME req.op = "read", NEW s \in Asked
      PROVE  Reply'.data[s - req.first] = b[s - req.first]
  <2>1. req'.len = req.len /\ buf' = b
    BY <1>6 DEF Frame, TypeInv, TypeOK, CallType, Requests
  <2>2. Reply'.data = Data'
    BY <1>1, <1>4, <1>6 DEF Reply
  <2>3. s - req.first \in 0 .. req.len - 1
    BY <1>6, SectorPlace DEF Asked, TypeInv, TypeOK, CallType, Requests
  <2>4. Data' = [k \in 0 .. req.len - 1 |-> b[k]]
    BY <2>1 DEF Data
  <2> QED
    BY <2>2, <2>3, <2>4
<1> QED
  BY <1>2, <1>3, <1>5, <1>6

LEMMA CallFails ==
  ASSUME TypeInv, TypeInv', pc \in LoopPcs, NEW c, c # 0, Return(c),
         NEW m, NEW b, Frame(m, b), Disk' = Disk
  PROVE  Device!DNext
<1>1. pc' = "idle" /\ rc' = c
  BY DEF Return
<1>2. Job # Device!NoJob /\ Job' = Device!NoJob /\ Reply'.code # 0
  BY <1>1, ReplyIs
<1> QED
  BY <1>2 DEF Device!Fail, Device!DNext

(* The loop goes on, or the call ends with everything asked for.           *)
LEMMA CallGoesOn ==
  ASSUME TypeInv, TypeInv', pc \in LoopPcs, NEW n \in 1 .. Left, Advance(n),
         NEW m, NEW b, Frame(m, b), req.op = "write" => b = buf /\ OnlyAsked,
         req.op = "read" => Disk' = Disk,
         \A s \in Sectors : s >= req.first /\ s < At + n => Disk'[s] = b[s - req.first]
  PROVE  Ok' /\ (Device!DNext \/ UNCHANGED Device!dvars)
<1>0. /\ req.op \in {"write", "read"} /\ At \in Nat /\ Left \in Nat /\ req.first \in Nat
      /\ req.len \in Nat /\ done \in Nat /\ At = req.first + done /\ Left = req.len - done
      /\ Serving
  BY InCall, Addressing DEF TypeInv, TypeOK, CallType, Requests, At, Left
<1>1. CASE n < Left
  <2>1. /\ pc' = req.op /\ done' = done + n /\ req' = req /\ buf' = b /\ pc' \in LoopPcs
    BY <1>0, <1>1 DEF Advance, Frame, LoopPcs
  <2>2. At' = At + n
    BY <1>0, <2>1 DEF At
  <2>3. Ready' = 0
    BY <1>0, <2>1 DEF Ready
  <2>4. (At + Ready)' = At + n
    BY <1>0, <2>2, <2>3
  <2>5. ASSUME NEW s \in Sectors, s >= req'.first, s < (At + Ready)'
        PROVE  Disk'[s] = buf'[s - req'.first]
    BY <2>1, <2>4, <2>5
  <2>6. Sectors' = Sectors
    BY DEF Sectors, SPB
  <2>7. Ok'
    BY <2>5, <2>6 DEF Ok
  <2>8. CASE req.op = "write"
    BY <2>1, <2>7, <2>8, LoopScribbles
  <2>9. CASE req.op = "read"
    BY <2>1, <2>7, <2>9, LoopStays
  <2> QED
    BY <1>0, <2>8, <2>9
<1>2. CASE n >= Left
  <2>1. pc' = "idle" /\ rc' = 0 /\ Ok'
    BY <1>0, <1>2 DEF Advance, Return, Ok, LoopPcs, CopyPcs, TestPcs
  <2>2. /\ Job # Device!NoJob /\ Job' = Device!NoJob /\ Reply'.code = 0
        /\ req.op = "read" => \A s \in Asked : Reply'.data[s - req.first] = b[s - req.first]
    BY <2>1, ReplyIs
  <2>3. /\ Job.op = req.op /\ Job.first = req.first
        /\ req.op = "write" => Job.data = Data
        /\ Device!Asked(Job) = Asked
    BY <1>0, JobIs, AskedIs
  <2>4. \A s \in Asked : Disk'[s] = b[s - req.first] /\ s \in Sectors
    <3>1. \A s \in Asked : s \in Sectors /\ s \in Nat /\ s >= req.first /\ s < At + n
      BY <1>0, <1>2, SectorPlace DEF Asked
    <3> QED
      BY <3>1
  <2>5. req.op = "write" => \A s \in Asked : Disk'[s] = Job.data[s - Job.first]
    <3>1. SUFFICES ASSUME req.op = "write", NEW s \in Asked
                   PROVE  Disk'[s] = Data[s - req.first]
      BY <2>3
    <3>2. s - req.first \in 0 .. req.len - 1
      BY <1>0, SectorPlace DEF Asked
    <3> QED
      BY <2>4, <3>1, <3>2 DEF Data
  <2>6. req.op = "read" =>
          \A s \in Asked : Reply'.data[s - Job.first] = Disk[s]
    BY <2>2, <2>3, <2>4
  <2>7. \A s \in Sectors \ (IF Job.op = "write" THEN Asked ELSE {}) : Disk'[s] = Disk[s]
    BY <1>0, <2>3 DEF OnlyAsked
  <2>8. Device!Succeed
    BY <2>2, <2>3, <2>5, <2>6, <2>7 DEF Device!Succeed
  <2> QED
    BY <2>1, <2>8 DEF Device!DNext
<1> QED
  BY <1>0, <1>1, <1>2

-----------------------------------------------------------------------------
(* The table.                                                              *)

(* Steps that keep table and numbers, with no copy before or after.        *)
LEMMA QuietServe ==
  ASSUME Serviceable, pc \notin FormatPcs \cup DestPcs,
         pc' \in {"idle", "write", "read", "mark", "find"},
         UNCHANGED <<lut, valid>>, KeepsNumbers
  PROVE  Serviceable' /\ Tested' /\ Faulted' /\ Formatting' /\ Numbering' /\ FewBadYet'
<1>1. Stocked /\ \A b : ~Spare(b) /\ ~Spare(b)'
  BY DEF Serviceable, Spare, DestPcs
<1>2. Sole'
  BY <1>1 DEF Stocked, Sole, Tagged, KeepsNumbers
<1>3. Serviceable'
  BY <1>1, <1>2 DEF Stocked, Serviceable, FormatPcs
<1> QED
  BY <1>3 DEF Tested, TestPcs, Faulted, Formatting, Numbering, FewBadYet, FormatPcs

(* The tags give the table that is in use.                                 *)
LEMMA SoleRebuilt ==
  ASSUME TypeInv, NEW t, CreateLUT(t),
         \A l, b \in Blk : ~t[b].bad /\ t[b].lbn = l => lut[l] = b,
         \A l \in Blk : lut[l] # NB => ~t[lut[l]].bad /\ t[lut[l]].lbn = l
  PROVE  lut' = lut
<1>1. lut' = TaggedLut(t) /\ TaggedLut(t) \in [Blk -> 0 .. NB] /\ lut \in [Blk -> 0 .. NB]
  BY TaggedLutType DEF CreateLUT, TypeInv, TypeOK, RamType
<1>2. ASSUME NEW l \in Blk PROVE lut'[l] = lut[l]
  <2>1. CASE lut'[l] # NB
    <3>1. lut'[l] \in Blk /\ ~t[lut'[l]].bad /\ t[lut'[l]].lbn = l
      <4>1. PICK b : b = TaggedLut(t)[l]
        OBVIOUS
      <4>2. b = NB \/ (~t[b].bad /\ t[b].lbn = l)
        BY <4>1, TaggedLutType
      <4>3. b \in 0 .. NB /\ b = lut'[l]
        BY <1>1, <4>1
      <4> QED
        BY <2>1, <4>2, <4>3, BlkNat DEF Blk
    <3> QED
      BY <3>1
  <2>2. CASE lut'[l] = NB
    <3>1. SUFFICES ASSUME lut[l] # NB PROVE FALSE
      BY <2>2
    <3>2. lut[l] \in Blk
      BY <1>1, <3>1, BlkNat DEF Blk
    <3>3. \E b \in Blk : ~t[b].bad /\ t[b].lbn = l
      BY <3>1, <3>2
    <3>4. lut'[l] # NB
      BY <3>3, Rebuilt
    <3> QED
      BY <2>2, <3>4
  <2> QED
    BY <2>1, <2>2
<1> QED
  BY <1>1, <1>2

(* What the table names, while no source is erased.                        *)
LEMMA TableIs ==
  ASSUME TypeInv, LutInv, ~lost, pc \notin FormatPcs
  PROVE  \A l \in Blk : \/ lut[l] = NB
                        \/ lut[l] \in Blk /\ Tagged(lut[l], l)
                        \/ pc = "fixlut" /\ lut[l] = cp.src /\ Tagged(cp.dst, l)
  BY BlkNat DEF LutInv, LutTagged, FormatPcs, TypeInv, TypeOK, RamType, Blk

(* Outside the table's correction a block is where the table says.         *)
LEMMA PlaceIsEntry ==
  ASSUME pc # "fixlut", pc' # "fixlut"
  PROVE  \A l : Place(l) = lut[l] /\ Place(l)' = lut'[l]
  BY DEF Place

-----------------------------------------------------------------------------
(* The loops, step by step.                                                *)

Implements == Device!DNext \/ UNCHANGED Device!dvars

LEMMA BlankedSame ==
  ASSUME Blanked, UNCHANGED flash, pc \notin {"eraseSrc", "eraseBad"}
  PROVE  Blanked'
  BY DEF Blanked, Zeroing, Free, BlankAt, flash

LEMMA DiskKept ==
  ASSUME TypeInv, TypeInv', UNCHANGED <<flash, lut>>, pc # "fixlut", pc' # "fixlut"
  PROVE  Disk' = Disk
  BY PlaceIsEntry, DiskSame DEF flash

LEMMA DevCall ==
  ASSUME TypeInv, TypeInv', DevInv, CallWrite \/ CallRead
  PROVE  DevInv' /\ Implements
<1>0. /\ pc = "idle" /\ pc' \in {"write", "read"} /\ UNCHANGED <<flash, lut, valid, lost>>
      /\ done' = 0 /\ req'.op = pc'
  BY DEF CallWrite, CallRead, ram
<1>1. Disk' = Disk
  BY <1>0, DiskKept
<1>2. /\ Serviceable' /\ Tested' /\ Faulted' /\ Formatting' /\ Numbering' /\ FewBadYet'
      /\ Blanked'
  BY <1>0, QuietServe, BlankedSame DEF DevInv, FormatPcs, DestPcs, KeepsNumbers, flash
<1>3. Copying'
  BY <1>0 DEF Copying, CopyPcs, DestPcs
<1>4. Ok'
  <2>1. Ready' = 0 /\ At' = req'.first
    <3>1. req'.first \in Nat
      BY DEF TypeInv, TypeOK, CallType, Requests
    <3> QED
      BY <1>0, <3>1 DEF Ready, At
  <2>2. req'.first \in Nat /\ \A s \in Sectors' : s \in Nat
    <3>1. Sectors' = Sectors /\ \A s \in Sectors : s \in Nat
      BY SectorPlace DEF Sectors, SPB
    <3> QED
      BY <3>1 DEF TypeInv, TypeOK, CallType, Requests
  <2>3. (At + Ready)' = req'.first
    BY <2>1, <2>2
  <2> QED
    BY <2>2, <2>3 DEF Ok
<1>5. Device!DNext
  BY <1>0, <1>1, CallStarts DEF LoopPcs, CopyPcs, TestPcs
<1> QED
  BY <1>0, <1>2, <1>3, <1>4, <1>5 DEF DevInv, Implements

LEMMA DevFail ==
  ASSUME TypeInv, TypeInv', DevInv,
         \/ Unmapped \/ ReadTimeout
         \/ Find /\ FindBlock = NB /\ req.op = "write"
  PROVE  DevInv' /\ Implements
<1>0. /\ pc \in {"write", "read", "find"} /\ pc' = "idle"
      /\ UNCHANGED <<flash, lut, valid, lost>> /\ Frame(markd, buf)
      /\ Return(1) \/ Return(2) \/ Return(3)
  <2>1. CASE Unmapped \/ ReadTimeout
    BY <2>1 DEF Unmapped, ReadTimeout, Return, ram
  <2>2. CASE Find /\ FindBlock = NB /\ req.op = "write"
    BY <2>2, Zenon DEF Find, Return
  <2> QED
    BY <2>1, <2>2
<1>1. Disk' = Disk
  BY <1>0, DiskKept
<1>2. /\ Serviceable' /\ Tested' /\ Faulted' /\ Formatting' /\ Numbering' /\ FewBadYet'
      /\ Blanked'
  BY <1>0, QuietServe, BlankedSame DEF DevInv, FormatPcs, DestPcs, KeepsNumbers, flash
<1>3. Copying' /\ Ok'
  BY <1>0 DEF Copying, CopyPcs, DestPcs, Ok, LoopPcs, TestPcs
<1>4. Device!DNext
  BY <1>0, <1>1, CallFails DEF LoopPcs, CopyPcs
<1> QED
  BY <1>0, <1>2, <1>3, <1>4 DEF DevInv, Implements

(* The block of the loop is where its sectors are.                         *)
LEMMA LoopEntry ==
  ASSUME TypeInv, LutInv, ~lost, pc \in {"write", "mark", "read"}, PBN # NB
  PROVE  /\ PBN \in Blk /\ At \div SPB \in Blk /\ lut[At \div SPB] = PBN
         /\ Place(At \div SPB) = PBN
         /\ \A l \in Blk : Place(l) = lut[l]
         /\ \A l \in Blk : lut[l] = PBN => l = At \div SPB
<1>1. PBN \in Blk /\ Tagged(PBN, At \div SPB) /\ At \div SPB \in Blk
  BY LoopBlock
<1>2. lut[At \div SPB] = PBN
  BY DEF PBN, LBNToPBN
<1>3. \A l \in Blk : Place(l) = lut[l]
  BY DEF Place
<1>4. \A l \in Blk : lut[l] = PBN => Tagged(PBN, l)
  BY MappedTagged, BlkNat DEF FormatPcs
<1> QED
  BY <1>1, <1>2, <1>3, <1>4 DEF Tagged

LEMMA DevReadRun ==
  ASSUME TypeInv, TypeInv', LutInv, DevInv, ReadRun
  PROVE  DevInv' /\ Implements
<1> DEFINE b == [k \in 0 .. MaxLen - 1 |->
                   IF k \in done .. done + PageRun - 1
                     THEN Decode(cell[PBN][PageNo][SecNo + k - done]).data
                     ELSE buf[k]]
<1>0. /\ pc = "read" /\ PBN # NB /\ req.op = "read" /\ pc \in LoopPcs /\ ~lost
      /\ StartCopy(PageRun) \/ Advance(PageRun)
      /\ UNCHANGED <<flash, lut, valid, lost>>
  BY DEF ReadRun, DevInv, TypeInv, Shape, LoopPcs, ram
<1>1. Frame(markd, b)
  BY Zenon DEF ReadRun
<1> HIDE DEF b
<1>2. /\ PageRun \in 1 .. Left /\ Span = PageRun /\ done + PageRun \in 0 .. MaxLen
      /\ done \in Nat /\ PageRun \in Nat
  <2>1. PICK n \in 1 .. Left : n = PageRun
    BY <1>0, Addressing
  <2>2. Left \in Nat /\ done + Left <= MaxLen /\ MaxLen \in Nat /\ done \in Nat
    BY <1>0, Addressing, FTLAssumption DEF TypeInv, TypeOK, CallType
  <2>3. done + n \in 0 .. MaxLen
    BY <2>1, <2>2
  <2> QED
    BY <1>0, <2>1, <2>2, <2>3 DEF Span
<1>3. pc' \in {"idle", "read", "find"}
  BY <1>0 DEF StartCopy, Advance, Return
<1>4. Disk' = Disk
  BY <1>0, <1>3, DiskKept
<1>5. ASSUME NEW s \in Sectors, s >= req.first, s < At + PageRun
      PROVE  Disk[s] = b[s - req.first]
  <2>1. /\ s \in Nat /\ At \in Nat /\ req.first \in Nat /\ done \in Nat /\ At = req.first + done
    BY SectorPlace DEF At, TypeInv, TypeOK, CallType, Requests
  <2>2. PICK k \in 0 .. MaxLen - 1 : k = s - req.first
    <3>1. PICK n \in Nat : n = PageRun
      BY <1>2
    <3>2. MaxLen \in Nat /\ done + n <= MaxLen /\ s < req.first + done + n
      BY <1>2, <1>5, <2>1, <3>1, FTLAssumption
    <3>3. s - req.first \in 0 .. MaxLen - 1
      BY <1>5, <2>1, <3>2
    <3> QED
      BY <3>3
  <2>3. CASE s < At
    <3>1. Disk[s] = buf[s - req.first]
      <4>1. Ready = 0
        BY <1>0 DEF Ready
      <4> QED
        BY <1>0, <1>5, <2>1, <2>3, <4>1 DEF DevInv, Ok
    <3>2. ~(k \in done .. done + PageRun - 1)
      BY <2>1, <2>2, <2>3
    <3>3. b[k] = buf[k]
      BY <3>2 DEF b
    <3> QED
      BY <2>2, <3>1, <3>3
  <2>4. CASE s >= At
    <3>1. /\ s \div SPB = At \div SPB /\ (s % SPB) \div SPP = PageNo
          /\ s % SPP \in Run /\ (s % SPP) - SecNo = s - At
      BY <1>0, <1>5, <2>4, PageRunPlace
    <3>2. k \in done .. done + PageRun - 1
      BY <1>2, <1>5, <2>1, <2>2, <2>4
    <3>3. SecNo + k - done = s % SPP
      <4>1. s % SPP \in Sec /\ SecNo \in Sec
        BY <1>0, Addressing, SectorPlace, PlaceOf
      <4>2. PICK x \in Nat, y \in Nat : x = s % SPP /\ y = SecNo
        BY <4>1, GeometryAssumption DEF Sec
      <4>3. y + k - done = x
        BY <2>1, <2>2, <3>1, <4>2
      <4> QED
        BY <4>2, <4>3
    <3>4. b[k] = Decode(cell[PBN][PageNo][s % SPP]).data
      BY <3>2, <3>3 DEF b
    <3>5. Place(s \div SPB) = PBN
      BY <1>0, <3>1, LoopEntry
    <3> QED
      BY <1>0, <2>2, <3>1, <3>4, <3>5, DiskAt
  <2> QED
    BY <2>1, <2>3, <2>4
<1>6. /\ Serviceable' /\ Tested' /\ Faulted' /\ Formatting' /\ Numbering' /\ FewBadYet'
      /\ Blanked'
  BY <1>0, <1>3, QuietServe, BlankedSame DEF DevInv, FormatPcs, DestPcs, KeepsNumbers, flash
<1>7. CASE Advance(PageRun)
  <2>1. pc' \in {"idle", "read"}
    BY <1>0, <1>7 DEF Advance, Return
  <2>2. Copying'
    BY <2>1 DEF Copying, CopyPcs, DestPcs
  <2>3. Ok' /\ Implements
    BY <1>0, <1>1, <1>2, <1>4, <1>5, <1>7, CallGoesOn DEF Implements
  <2> QED
    BY <1>0, <1>6, <2>2, <2>3 DEF DevInv
<1>8. CASE StartCopy(PageRun)
  <2>1. pc' = "find" /\ done' = done /\ req' = req /\ buf' = b
    BY <1>1, <1>8 DEF StartCopy, Frame
  <2>2. Copying'
    BY <1>0, <1>2, <1>8, <2>1, StartCopyHold DEF KeepsNumbers, flash
  <2>3. Ready' = PageRun /\ At' = At
    BY <1>0, <1>2, <2>1, SamePlace DEF Ready
  <2>4. (At + Ready)' = At + PageRun /\ Sectors' = Sectors
    BY <2>3 DEF Sectors, SPB
  <2>5. Ok'
    BY <1>4, <1>5, <2>1, <2>4 DEF Ok
  <2>6. Implements
    BY <1>0, <1>4, <2>1, LoopStays DEF Implements, LoopPcs, CopyPcs
  <2> QED
    BY <1>0, <1>6, <2>2, <2>5, <2>6 DEF DevInv
<1> QED
  BY <1>0, <1>7, <1>8

(* What a page program changes is what the loop is at.                     *)
LEMMA DevWriteDirect ==
  ASSUME Odd = {}, TypeInv, TypeInv', LutInv, DevInv, WriteDirect
  PROVE  DevInv' /\ Implements
<1>0. /\ pc = "write" /\ PBN # NB /\ req.op = "write" /\ pc \in LoopPcs /\ ~lost
      /\ UNCHANGED <<tag, lut, valid, lost>> /\ Frame(markd, buf)
  BY DEF WriteDirect, DevInv, TypeInv, Shape, LoopPcs, ram
<1>1. /\ PBN \in Blk /\ Tagged(PBN, At \div SPB) /\ tag[PBN].lbn # NB
      /\ PageRun \in 1 .. Left
  BY <1>0, LoopBlock, Addressing
<1>2. /\ \A b \in Blk, p \in Page, s \in Sec :
           b # PBN \/ p # PageNo \/ s \notin Run => cell'[b][p][s] = cell[b][p][s]
      /\ \/ /\ RunArrived
            /\ (pc' = "mark" /\ UNCHANGED <<done, cp, rc>>) \/ Advance(PageRun)
         \/ StartCopy(Span)
  BY <1>1, WriteDirectStep
<1>3. pc' \in {"idle", "write", "mark", "find"}
  BY <1>0, <1>2 DEF StartCopy, Advance, Return
<1>4. \A l \in Blk : Place(l) = lut[l] /\ Place(l)' = lut[l]
  BY <1>0, <1>3 DEF Place
<1>5. ASSUME NEW s \in Sectors, ~(s >= At /\ s < At + PageRun)
      PROVE  Disk'[s] = Disk[s]
  <2>1. PICK p \in Page, c \in Sec : p = (s % SPB) \div SPP /\ c = s % SPP
    BY SectorPlace, PlaceOf
  <2>2. PICK b : b = Place(s \div SPB) /\ b = Place(s \div SPB)' /\ b = lut[s \div SPB]
    <3>1. PICK l \in Blk : l = s \div SPB
      BY SectorPlace
    <3> QED
      BY <1>4, <3>1 DEF Place, SPB
  <2>3. CASE b = NB
    BY <2>2, <2>3, DiskAt, DiskNextAt
  <2>4. CASE b # NB
    <3>1. b \in Blk
      <4>1. lut[s \div SPB] \in 0 .. NB
        BY SectorPlace DEF TypeInv, TypeOK, RamType
      <4> QED
        BY <2>2, <2>4, <4>1, BlkNat DEF Blk
    <3>2. cell'[b][p][c] = cell[b][p][c]
      <4>1. SUFFICES ASSUME b = PBN, p = PageNo, c \in Run PROVE FALSE
        BY <1>2, <3>1
      <4>2. s \div SPB = At \div SPB
        BY <1>0, <2>2, <4>1, SectorPlace, LoopEntry
      <4>3. (s % SPP) - SecNo = s - At
        BY <1>0, <2>1, <4>1, <4>2, SamePageOffset
      <4>4. s >= At /\ s < At + PageRun
        BY <1>0, <2>1, <4>1, <4>2, <4>3, PageRunPlace
      <4> QED
        BY <1>5, <4>4
    <3> QED
      BY <2>1, <2>2, <3>2, SectorStill
  <2> QED
    BY <2>3, <2>4
<1>6. OnlyAsked
  <2>1. \A s \in Sectors : s >= At /\ s < At + PageRun => s \in Asked
    BY <1>0, <1>1, AskedBelow
  <2> QED
    BY <1>5, <2>1 DEF OnlyAsked
<1>7. ASSUME RunArrived, NEW s \in Sectors, s >= req.first, s < At + PageRun
      PROVE  Disk'[s] = buf[s - req.first]
  <2>1. s \in Nat /\ At \in Nat
    BY <1>0, SectorPlace, Addressing
  <2>2. CASE s < At
    <3>1. Ready = 0 /\ At + Ready = At
      BY <1>0, <2>1 DEF Ready
    <3>2. Disk[s] = buf[s - req.first]
      BY <1>0, <1>7, <2>2, <3>1 DEF DevInv, Ok
    <3>3. Disk'[s] = Disk[s]
      BY <1>5, <2>1, <2>2
    <3> QED
      BY <3>2, <3>3
  <2>3. CASE s >= At
    <3>1. s \div SPB = At \div SPB
      BY <1>0, <1>7, <2>3, PageRunPlace
    <3>2. PICK b \in Blk : b = PBN /\ b = Place(s \div SPB)'
      <4>1. lut[At \div SPB] = PBN /\ At \div SPB \in Blk
        BY <1>0, LoopEntry
      <4>2. Place(s \div SPB)' = lut[s \div SPB]
        BY <1>4, <3>1, <4>1 DEF Place, SPB
      <4> QED
        BY <1>1, <3>1, <4>1, <4>2
    <3>3. PICK c : c = cell'[b][(s % SPB) \div SPP][s % SPP]
      OBVIOUS
    <3>4. c.val = buf[s - req.first] /\ c.flip = FALSE
      BY <1>7, <2>3, <3>2, <3>3 DEF RunArrived
    <3>5. Decode(c).data = buf[s - req.first]
      BY <3>4, CleanDecode
    <3> QED
      BY <3>2, <3>3, <3>5, BlkNat, DiskNextAt
  <2> QED
    BY <2>1, <2>2, <2>3
<1>8. /\ Serviceable' /\ Tested' /\ Faulted' /\ Formatting' /\ Numbering' /\ FewBadYet'
  BY <1>0, <1>3, QuietServe DEF DevInv, FormatPcs, DestPcs, KeepsNumbers
<1>9. Blanked'
  <2>1. ASSUME NEW b \in Blk, Free(b)', NEW p \in Page, NEW s \in Sec
        PROVE  cell'[b][p][s] = BlankCell
    <3>1. b # PBN /\ Free(b)
      BY <1>0, <1>1, <2>1 DEF Free, FreshTag
    <3> QED
      BY <1>0, <1>2, <3>1 DEF DevInv, Blanked, Zeroing, BlankAt
  <2> QED
    BY <2>1 DEF Blanked, BlankAt
<1>10. CASE Advance(PageRun) /\ RunArrived
  <2>1. pc' \in {"idle", "write"}
    BY <1>0, <1>10 DEF Advance, Return
  <2>2. Copying'
    BY <2>1 DEF Copying, CopyPcs, DestPcs
  <2>3. Ok' /\ Implements
    BY <1>0, <1>1, <1>6, <1>7, <1>10, CallGoesOn DEF Implements
  <2> QED
    BY <1>0, <1>8, <1>9, <2>2, <2>3 DEF DevInv
<1>11. CASE RunArrived /\ pc' = "mark" /\ UNCHANGED <<done, cp, rc>>
  <2>1. UNCHANGED <<req, buf>>
    BY <1>0, <1>11 DEF Frame
  <2>2. (At + Ready)' = At + PageRun /\ Sectors' = Sectors
    BY <1>11, <2>1, SamePlace DEF Ready, Sectors, SPB
  <2>3. Ok'
    BY <1>7, <1>11, <2>1, <2>2 DEF Ok
  <2>4. Copying'
    BY <1>11 DEF Copying, CopyPcs, DestPcs
  <2>5. Implements
    BY <1>0, <1>6, <1>11, <2>1, LoopScribbles DEF Implements, LoopPcs
  <2> QED
    BY <1>0, <1>8, <1>9, <2>3, <2>4, <2>5 DEF DevInv
<1>12. CASE StartCopy(Span)
  <2>1. pc' = "find" /\ done' = done /\ UNCHANGED <<req, buf>>
    BY <1>0, <1>12 DEF StartCopy, Frame
  <2>2. Copying'
    BY <1>0, <1>12, <2>1, StartCopyHold DEF KeepsNumbers
  <2>3. At' = At /\ Ready = 0 /\ Ready' = 0 /\ Sectors' = Sectors /\ At \in Nat
    BY <1>0, <2>1, SamePlace, Addressing DEF Ready, Sectors, SPB
  <2>4. (At + Ready)' = At /\ At + Ready = At
    BY <2>3
  <2>5. Ok'
    <3>1. ASSUME NEW s \in Sectors, s >= req.first, s < At
          PROVE  Disk'[s] = buf[s - req.first]
      <4>1. Disk[s] = buf[s - req.first]
        BY <1>0, <2>4, <3>1 DEF DevInv, Ok
      <4>2. Disk'[s] = Disk[s]
        BY <1>5, <2>3, <3>1, SectorPlace
      <4> QED
        BY <4>1, <4>2
    <3> QED
      BY <2>1, <2>3, <2>4, <3>1 DEF Ok
  <2>6. Implements
    BY <1>0, <1>6, <2>1, LoopScribbles DEF Implements, LoopPcs, CopyPcs
  <2> QED
    BY <1>0, <1>8, <1>9, <2>2, <2>5, <2>6 DEF DevInv
<1> QED
  BY <1>2, <1>10, <1>11, <1>12

LEMMA DevMark ==
  ASSUME TypeInv, TypeInv', LutInv, DevInv, Mark
  PROVE  DevInv' /\ Implements
<1>0. /\ pc = "mark" /\ req.op = "write" /\ pc \in LoopPcs /\ PBN \in Blk /\ PBN # NB
      /\ UNCHANGED <<cell, lut, valid, lost>> /\ Frame(PBN, buf) /\ KeepsNumbers /\ ~lost
      /\ tag[PBN].lbn # NB /\ tag \in [Blk -> Tag] /\ PageRun \in 1 .. Left
      /\ Advance(PageRun) \/ StartCopy(Span)
      /\ tag' \in {tag, [tag EXCEPT ![PBN].used = TRUE]}
  <2>1. /\ pc = "mark" /\ req.op = "write" /\ pc \in LoopPcs /\ PBN \in Blk /\ PBN # NB
        /\ UNCHANGED <<cell, lut, valid, lost>> /\ Frame(PBN, buf) /\ ~lost
        /\ tag' \in {tag, [tag EXCEPT ![PBN].used = TRUE]}
    BY BlkNat DEF Mark, DevInv, TypeInv, Shape, LoopPcs, ram
  <2>2. KeepsNumbers
    BY <2>1, UsedKeepsNumbers
  <2>3. Advance(PageRun) \/ StartCopy(Span)
    BY <2>1 DEF Mark, Span
  <2> QED
    BY <2>1, <2>2, <2>3, LoopBlock, Addressing DEF TypeInv, TypeOK, FlashType
<1>1. pc' \in {"idle", "write", "find"}
  BY <1>0 DEF StartCopy, Advance, Return
<1>2. Disk' = Disk
  <2>1. \A l \in Blk : Place(l)' = Place(l)
    BY <1>0, <1>1 DEF Place
  <2> QED
    BY <1>0, <2>1, DiskSame
<1>3. /\ Serviceable' /\ Tested' /\ Faulted' /\ Formatting' /\ Numbering' /\ FewBadYet'
  BY <1>0, <1>1, QuietServe DEF DevInv, FormatPcs, DestPcs
<1>4. Blanked'
  <2>1. ASSUME NEW b \in Blk, Free(b)' PROVE Free(b)
    <3>1. b # PBN
      BY <1>0, <2>1 DEF KeepsNumbers, Free, FreshTag
    <3> QED
      BY <1>0, <2>1, <3>1 DEF Free
  <2> QED
    BY <1>0, <2>1 DEF DevInv, Blanked, Zeroing, BlankAt
<1>5. ASSUME NEW s \in Sectors, s >= req.first, s < At + PageRun
      PROVE  Disk[s] = buf[s - req.first]
  BY <1>0, <1>5 DEF DevInv, Ok, Ready
<1>6. CASE Advance(PageRun)
  <2>1. pc' \in {"idle", "write"}
    BY <1>0, <1>6 DEF Advance, Return
  <2>2. Copying'
    BY <2>1 DEF Copying, CopyPcs, DestPcs
  <2>3. Ok' /\ Implements
    BY <1>0, <1>2, <1>5, <1>6, CallGoesOn DEF Implements, OnlyAsked
  <2> QED
    BY <1>0, <1>3, <1>4, <2>2, <2>3 DEF DevInv
<1>7. CASE StartCopy(Span)
  <2>1. pc' = "find" /\ done' = done /\ UNCHANGED <<req, buf>>
    BY <1>0, <1>7 DEF StartCopy, Frame
  <2>2. Copying'
    BY <1>0, <1>7, <2>1, StartCopyHold
  <2>3. At' = At /\ Ready' = 0 /\ Sectors' = Sectors /\ At \in Nat
    BY <1>0, <2>1, SamePlace, Addressing DEF Ready, Sectors, SPB
  <2>4. (At + Ready)' = At
    BY <2>3
  <2>5. Ok'
    <3>1. ASSUME NEW s \in Sectors, s >= req.first, s < At
          PROVE  Disk'[s] = buf[s - req.first]
      <4>1. PICK n \in Nat : n = PageRun
        BY <1>0, Addressing
      <4>2. s < At + n
        BY <2>3, <3>1, <4>1, SectorPlace
      <4> QED
        BY <1>2, <1>5, <3>1, <4>1, <4>2
    <3> QED
      BY <2>1, <2>3, <2>4, <3>1 DEF Ok
  <2>6. Implements
    BY <1>0, <1>2, <2>1, LoopStays DEF Implements, LoopPcs, CopyPcs
  <2> QED
    BY <1>0, <1>3, <1>4, <2>2, <2>5, <2>6 DEF DevInv
<1> QED
  BY <1>0, <1>6, <1>7

(* Steps under way that nobody outside sees.                               *)
LEMMA RunStays ==
  ASSUME TypeInv, TypeInv', pc \in LoopPcs, pc' \in LoopPcs, Ok,
         UNCHANGED <<req, buf, done>>, Ready' = Ready, Disk' = Disk
  PROVE  Ok' /\ Implements
<1>1. (At + Ready)' = At + Ready /\ Sectors' = Sectors
  BY SamePlace DEF Sectors, SPB
<1>2. Ok'
  BY <1>1 DEF Ok
<1> QED
  BY <1>2, LoopStays DEF Implements

LEMMA ReadySame ==
  ASSUME UNCHANGED <<req, done>>,
         \/ pc \notin {"mark", "fixlut", "read"} /\ pc' \notin {"mark", "fixlut", "read"}
         \/ pc \notin {"mark", "read"} /\ pc' \notin {"mark", "read"} /\ req.op = "read"
  PROVE  Ready' = Ready
  BY SamePlace DEF Ready

LEMMA DevWriteMove ==
  ASSUME TypeInv, TypeInv', LutInv, DevInv, WriteMove
  PROVE  DevInv' /\ Implements
<1>0. /\ pc = "write" /\ req.op = "write" /\ PBN # NB /\ ~lost /\ StartCopy(Span)
      /\ pc' = "find" /\ UNCHANGED <<flash, lut, valid, lost, req, buf, done>>
  BY DEF WriteMove, StartCopy, Span, DevInv, TypeInv, Shape, ram
<1>1. Disk' = Disk
  BY <1>0, DiskKept
<1>2. /\ Serviceable' /\ Tested' /\ Faulted' /\ Formatting' /\ Numbering' /\ FewBadYet'
      /\ Blanked'
  BY <1>0, QuietServe, BlankedSame DEF DevInv, FormatPcs, DestPcs, KeepsNumbers, flash
<1>3. Copying'
  BY <1>0, StartCopyHold DEF KeepsNumbers, flash
<1>4. Ready' = Ready
  BY <1>0 DEF Ready
<1>5. Ok' /\ Implements
  BY <1>0, <1>1, <1>4, RunStays DEF DevInv, LoopPcs, CopyPcs
<1> QED
  BY <1>0, <1>2, <1>3, <1>5 DEF DevInv

-----------------------------------------------------------------------------
(* The copy, step by step.                                                 *)

LEMMA DevFind ==
  ASSUME TypeInv, TypeInv', WholeMarks, Whole, LutInv, DevInv, Find
  PROVE  lost' \/ (DevInv' /\ Implements)
<1>0. pc = "find" /\ pc \in LoopPcs /\ req.op \in {"write", "read"} /\ ~lost
  BY InCall DEF Find, DevInv, LoopPcs, CopyPcs
<1>1. CASE FindBlock = NB /\ req.op = "write"
  BY <1>1, DevFail
<1>2. CASE FindBlock = NB /\ req.op = "read"
  BY <1>2, Zenon DEF Find
<1>3. CASE FindBlock # NB
  <2>1. Blanked /\ FreeBlank
    BY <1>0 DEF DevInv, Blanked, Zeroing, FreeBlank
  <2>2. PICK d \in Blk :
          /\ Free(d) /\ pc' = "copy"
          /\ cp'.src = cp.src /\ cp'.dst = d /\ cp'.page = 0
          /\ UNCHANGED <<flash, lut, valid, req, buf, done, markd, rc, lost>>
          /\ tag[cp.src].lbn # NB => Copying'
    BY <1>3, <2>1, FindStep DEF DevInv
  <2>3. tag[cp.src].lbn # NB
    BY <1>0 DEF LutInv, CopyInv, CopyPcs
  <2>4. Disk' = Disk
    BY <1>0, <2>2, DiskKept
  <2>5. Serviceable'
    <3>1. Stocked
      BY <1>0 DEF DevInv, Serviceable, FormatPcs
    <3>2. \A l, b \in Blk : Tagged(b, l) => lut[l] = b
      BY <1>0, <3>1 DEF Stocked, Sole, Spare, DestPcs
    <3>3. Sole'
      BY <2>2, <3>2 DEF Sole, Tagged, flash
    <3> QED
      BY <2>2, <3>1, <3>3 DEF Serviceable, Stocked, FormatPcs
  <2>6. Blanked'
    BY <1>0, <2>1, <2>2, BlankedSame
  <2>7. Tested' /\ Faulted' /\ Formatting' /\ Numbering' /\ FewBadYet'
    BY <2>2 DEF Tested, TestPcs, Faulted, Formatting, Numbering, FewBadYet, FormatPcs
  <2>8. Ok' /\ Implements
    BY <1>0, <2>2, <2>4, ReadySame, RunStays DEF DevInv, LoopPcs, CopyPcs
  <2> QED
    BY <1>0, <2>2, <2>3, <2>5, <2>6, <2>7, <2>8 DEF DevInv
<1> QED
  BY <1>0, <1>1, <1>2, <1>3

(* The destination of a copy is not in the table.                          *)
LEMMA SpareUnmapped ==
  ASSUME TypeInv, LutInv, ~lost, pc \in DestPcs
  PROVE  /\ cp.dst \in Blk /\ cp.src \in Blk /\ cp.dst # cp.src
         /\ \A l \in Blk : lut[l] # cp.dst
         /\ pc \in LoopPcs
  BY DEF TypeInv, Shape, LutInv, CopyInv, Mapped, DestPcs, CopyPcs, LoopPcs

(* What happens to the destination is not seen.                            *)
LEMMA SpareUnseen ==
  ASSUME TypeInv, TypeInv', LutInv, ~lost, pc \in DestPcs \ {"fixlut"}, pc' # "fixlut",
         lut' = lut, \A b \in Blk \ {cp.dst} : cell'[b] = cell[b]
  PROVE  Disk' = Disk
<1>1. ASSUME NEW l \in Blk
      PROVE  Place(l)' = Place(l) /\ (Place(l) # NB => cell'[Place(l)] = cell[Place(l)])
  <2>1. Place(l) = lut[l] /\ Place(l)' = lut[l]
    BY DEF Place
  <2>2. lut[l] \in 0 .. NB /\ lut[l] # cp.dst
    BY SpareUnmapped DEF TypeInv, TypeOK, RamType
  <2> QED
    BY <2>1, <2>2, BlkNat DEF Blk
<1> QED
  BY <1>1, DiskSame

LEMMA DevCopyPage ==
  ASSUME "merge" \notin FaultOps, TypeInv, TypeInv', LutInv, DevInv, CopyPage
  PROVE  DevInv' /\ Implements
<1>0. /\ pc = "copy" /\ pc \in LoopPcs /\ pc \in DestPcs /\ ~lost
      /\ UNCHANGED <<lut, valid, req, buf, done, lost>>
      /\ cp.dst \in Blk /\ cp.src \in Blk /\ cp.dst # cp.src
  BY SpareUnmapped DEF CopyPage, DevInv, LoopPcs, DestPcs, CopyPcs, ram
<1>1. /\ Copying' /\ pc' \in {"used", "copy", "condemn"}
      /\ cp'.src = cp.src /\ cp'.dst = cp.dst
      /\ \A b \in Blk \ {cp.dst} : tag'[b] = tag[b] /\ cell'[b] = cell[b]
      /\ ~tag'[cp.dst].bad
      /\ TagCopied => tag'[cp.dst].lbn = At \div SPB
      /\ TagCopied \/ UNCHANGED flash
  BY CopyPageStep DEF DevInv
<1>2. Disk' = Disk
  BY <1>0, <1>1, SpareUnseen
<1>3. Stocked /\ Tagged(cp.src, At \div SPB) /\ Blanked
  BY <1>0 DEF DevInv, Serviceable, FormatPcs, Copying, CopyPcs
<1>4. Sole'
  <2>1. ASSUME NEW l \in Blk, NEW b \in Blk, Tagged(b, l)'
        PROVE  lut[l] = b \/ (b = cp.dst /\ lut[l] = cp.src)
    <3>1. CASE b # cp.dst
      <4>1. Tagged(b, l)
        BY <1>1, <2>1, <3>1 DEF Tagged
      <4> QED
        BY <1>3, <3>1, <4>1 DEF Stocked, Sole, Spare
    <3>2. CASE b = cp.dst /\ TagCopied
      <4>1. l = At \div SPB
        BY <1>1, <2>1, <3>2 DEF Tagged
      <4>2. lut[l] = cp.src
        BY <1>0, <1>3, <4>1 DEF Stocked, Sole, Spare
      <4> QED
        BY <3>2, <4>2
    <3>3. CASE UNCHANGED flash
      <4>1. Tagged(b, l)
        BY <2>1, <3>3 DEF Tagged, flash
      <4> QED
        BY <1>3, <4>1 DEF Stocked, Sole, Spare
    <3> QED
      BY <1>1, <3>1, <3>2, <3>3
  <2> QED
    BY <1>0, <1>1, <2>1 DEF Sole, Spare, DestPcs
<1>5. Serviceable'
  BY <1>0, <1>1, <1>3, <1>4 DEF Serviceable, Stocked, FormatPcs
<1>6. Blanked'
  <2>1. CASE UNCHANGED flash
    BY <1>0, <1>3, <2>1, BlankedSame
  <2>2. CASE TagCopied
    <3>1. ~Free(cp.dst)'
      <4>1. PICK d \in Blk : d = cp.dst
        BY <1>0
      <4>2. tag[cp.src].lbn # NB
        BY <1>0 DEF LutInv, CopyInv, CopyPcs
      <4>3. tag'[d].lbn # NB
        BY <1>1, <1>3, <2>2, <4>1, <4>2 DEF Tagged
      <4> QED
        BY <1>1, <4>1, <4>3 DEF Free, FreshTag
    <3>2. ASSUME NEW b \in Blk, Free(b)' PROVE b # cp.dst
      <4>1. b # cp'.dst
        BY <1>1, <3>1, <3>2 DEF Free
      <4> QED
        BY <1>1, <4>1
    <3> QED
      BY <1>0, <1>1, <1>3, <3>2 DEF Blanked, Zeroing, Free, BlankAt
  <2> QED
    BY <1>1, <2>1, <2>2
<1>7. Tested' /\ Formatting' /\ Numbering' /\ FewBadYet'
  BY <1>1 DEF Tested, TestPcs, Formatting, Numbering, FewBadYet, FormatPcs
<1>8. Faulted'
  <2>1. pc' = "condemn" => faults' = faults + 1 /\ faults \in Nat
    BY FTLAssumption DEF CopyPage, FaultAt, TypeInv, TypeOK, EnvType
  <2> QED
    BY <2>1 DEF Faulted
<1>9. Ok' /\ Implements
  BY <1>0, <1>1, <1>2, ReadySame, RunStays DEF DevInv, LoopPcs, CopyPcs
<1> QED
  BY <1>0, <1>1, <1>5, <1>6, <1>7, <1>8, <1>9 DEF DevInv

MarksWork == "badmark" \notin FaultOps \/ MaxFaults <= 1

(* The condemned destination is marked bad: the table is as it was.        *)
LEMMA DevCondemn ==
  ASSUME MarksWork, TypeInv, TypeInv', WholeMarks, Whole, LutInv, DevInv, Grows, Condemn
  PROVE  DevInv' /\ Implements
<1>0. /\ pc = "condemn" /\ pc' = "find" /\ pc \in LoopPcs /\ pc \in DestPcs /\ ~lost
      /\ UNCHANGED <<cell, req, buf, done, lost, crashes>> /\ CreateLUT(tag')
      /\ cp.dst \in Blk /\ cp.src \in Blk /\ cp.dst # cp.src
      /\ \A l \in Blk : lut[l] # cp.dst
  BY SpareUnmapped DEF Condemn, DevInv, LoopPcs, DestPcs, CopyPcs
<1>1. /\ Copying'
      /\ \A c \in Blk \ {cp.dst} : tag'[c] = tag[c]
      /\ tag'[cp.dst] = BadTag \/ FaultAt("badmark")
  BY CondemnStep DEF DevInv
<1>2. tag'[cp.dst] = BadTag
  <2>1. ~FaultAt("badmark")
    <3>1. faults \in Nat /\ faults >= 1 /\ MaxFaults \in Nat
      BY <1>0, FTLAssumption DEF DevInv, Faulted, TypeInv, TypeOK, EnvType
    <3> QED
      BY <3>1 DEF MarksWork, FaultAt
  <2> QED
    BY <1>1, <2>1
<1>3. Stocked /\ Blanked
  BY <1>0 DEF DevInv, Serviceable, FormatPcs
<1>4. ASSUME NEW l \in Blk, NEW b \in Blk, ~tag'[b].bad, tag'[b].lbn = l
      PROVE  lut[l] = b
  <2>1. b # cp.dst
    BY <1>2, <1>4 DEF BadTag
  <2>2. Tagged(b, l)
    BY <1>1, <1>4, <2>1 DEF Tagged
  <2> QED
    BY <1>3, <2>1, <2>2 DEF Stocked, Sole, Spare
<1>5. ASSUME NEW l \in Blk, lut[l] # NB
      PROVE  ~tag'[lut[l]].bad /\ tag'[lut[l]].lbn = l
  <2>1. lut[l] \in Blk /\ Tagged(lut[l], l) /\ lut[l] # cp.dst
    BY <1>0, <1>5, MappedTagged DEF FormatPcs
  <2> QED
    BY <1>1, <2>1 DEF Tagged
<1>6. lut' = lut
  BY <1>0, <1>4, <1>5, SoleRebuilt
<1>7. Disk' = Disk
  BY <1>0, <1>6, SpareUnseen
<1>8. Serviceable'
  <2>1. Sole'
    BY <1>0, <1>4, <1>6 DEF Sole, Tagged
  <2>2. valid' >= MinBlocks
    <3>1. valid' >= valid /\ valid >= MinBlocks
      BY <1>0, <1>3 DEF Grows, Stocked
    <3> QED
      BY <3>1, FTLAssumption DEF TypeInv, TypeOK, RamType
  <2> QED
    BY <1>0, <2>1, <2>2 DEF Serviceable, Stocked, FormatPcs
<1>9. Blanked'
  <2>1. ASSUME NEW b \in Blk, Free(b)' PROVE Free(b)
    BY <1>1, <1>2, <2>1 DEF Free, FreshTag, BadTag
  <2> QED
    BY <1>0, <1>3, <2>1 DEF Blanked, Zeroing, BlankAt
<1>10. Tested' /\ Faulted' /\ Formatting' /\ Numbering' /\ FewBadYet'
  BY <1>0 DEF Tested, TestPcs, Faulted, Formatting, Numbering, FewBadYet, FormatPcs
<1>11. Ok' /\ Implements
  BY <1>0, <1>7, ReadySame, RunStays DEF Condemn, DevInv, LoopPcs, CopyPcs
<1> QED
  BY <1>0, <1>1, <1>8, <1>9, <1>10, <1>11 DEF DevInv

LEMMA DevMarkCopy ==
  ASSUME TypeInv, TypeInv', LutInv, DevInv, MarkCopy
  PROVE  DevInv' /\ Implements
<1>0. /\ pc = "used" /\ pc' = "erase" /\ pc \in LoopPcs /\ pc \in DestPcs /\ ~lost
      /\ UNCHANGED <<cell, lut, valid, req, buf, done, cp, lost>>
  BY DEF MarkCopy, DevInv, LoopPcs, DestPcs, CopyPcs, ram
<1>1. /\ Copying' /\ KeepsNumbers /\ cp.dst \in Blk /\ Tagged(cp.dst, At \div SPB)
      /\ \A b \in Blk \ {cp.dst} : tag'[b] = tag[b]
  BY MarkCopyStep DEF DevInv
<1>2. Disk' = Disk
  BY <1>0, SpareUnseen
<1>3. Stocked /\ Blanked /\ Tagged(cp.src, At \div SPB) /\ tag[cp.src].lbn # NB
  BY <1>0 DEF DevInv, Serviceable, FormatPcs, Copying, CopyPcs, LutInv, CopyInv
<1>4. Serviceable'
  <2>1. Sole'
    BY <1>0, <1>1, <1>3 DEF Stocked, Sole, Spare, DestPcs, Tagged, KeepsNumbers
  <2> QED
    BY <1>0, <1>3, <2>1 DEF Serviceable, Stocked, FormatPcs
<1>5. Blanked'
  <2>1. ASSUME NEW b \in Blk, Free(b)' PROVE Free(b)
    <3>1. tag[cp.dst].lbn # NB
      BY <1>1, <1>3 DEF Tagged
    <3>2. b # cp.dst
      BY <1>1, <2>1, <3>1 DEF KeepsNumbers, Free, FreshTag
    <3> QED
      BY <1>1, <2>1, <3>2 DEF Free
  <2> QED
    BY <1>0, <1>3, <2>1 DEF Blanked, Zeroing, BlankAt
<1>6. Tested' /\ Faulted' /\ Formatting' /\ Numbering' /\ FewBadYet'
  BY <1>0 DEF Tested, TestPcs, Faulted, Formatting, Numbering, FewBadYet, FormatPcs
<1>7. Ok' /\ Implements
  BY <1>0, <1>2, ReadySame, RunStays DEF DevInv, LoopPcs, CopyPcs
<1> QED
  BY <1>0, <1>1, <1>4, <1>5, <1>6, <1>7 DEF DevInv

LEMMA DataDecode == ASSUME NEW v PROVE Decode(DataCell(v)).data = v
  BY DEF Decode, DataCell

(* When the source is erased its block is where the copy is.               *)
LEMMA DevEraseSource ==
  ASSUME "erase" \notin FaultOps, TypeInv, TypeInv', LutInv, DevInv, EraseSource
  PROVE  DevInv' /\ Implements
<1>0. /\ pc = "erase" /\ pc' = "fixlut" /\ pc \in LoopPcs /\ pc \in DestPcs /\ ~lost
      /\ UNCHANGED <<lut, valid, req, buf, done, cp, lost>> /\ req.op \in {"write", "read"}
      /\ \A l \in Blk : lut[l] # cp.dst
  BY SpareUnmapped, InCall DEF EraseSource, DevInv, LoopPcs, DestPcs, CopyPcs, ram
<1>1. /\ Copying' /\ cp.dst \in Blk /\ cp.src \in Blk /\ cp.dst # cp.src
      /\ Tagged(cp.src, At \div SPB) /\ Tagged(cp.dst, At \div SPB)
      /\ \A p \in Page : CopiedTo(p)
      /\ \A b \in Blk \ {cp.src} : cell'[b] = cell[b] /\ tag'[b] = tag[b]
      /\ tag'[cp.src] = FreshTag
      /\ \A p \in Page, s \in Sec : cell'[cp.src][p][s] = BlankCell
  BY EraseSourceStep DEF DevInv, FaultAt
<1>2. Stocked /\ Blanked
  BY <1>0 DEF DevInv, Serviceable, FormatPcs
<1>3. \A l \in Blk : lut[l] = NB \/ (lut[l] \in Blk /\ Tagged(lut[l], l))
  BY <1>0, MappedTagged DEF FormatPcs
<1>4. \A l \in Blk : lut[l] = cp.src => l = At \div SPB
  BY <1>1, <1>3, BlkNat DEF Tagged
<1>5. \A l \in Blk : /\ Place(l) = lut[l]
                     /\ Place(l)' = IF lut[l] = cp.src THEN cp.dst ELSE lut[l]
  BY <1>0 DEF Place
<1>6. ASSUME NEW s \in Sectors
      PROVE  /\ s >= At /\ s < At + Span /\ lut[s \div SPB] = cp.src
                  => Disk'[s] = buf[s - req.first]
             /\ ~(s >= At /\ s < At + Span /\ lut[s \div SPB] = cp.src)
                  => Disk'[s] = Disk[s]
  <2>1. PICK p \in Page, c \in Sec : p = (s % SPB) \div SPP /\ c = s % SPP
    BY SectorPlace, PlaceOf
  <2>2. PICK l \in Blk : l = s \div SPB
    BY SectorPlace
  <2>3. CASE lut[l] # cp.src
    <3>1. PICK b : b = lut[l]
      OBVIOUS
    <3>2. b = Place(s \div SPB) /\ b = Place(s \div SPB)'
      <4>1. (s \div SPB)' = s \div SPB
        BY DEF SPB
      <4> QED
        BY <1>5, <2>2, <2>3, <3>1, <4>1 DEF Place
    <3>3. b # NB => cell'[b] = cell[b]
      BY <1>1, <1>3, <2>3, <3>1
    <3> QED
      BY <2>1, <2>2, <2>3, <3>2, <3>3, SectorStill
  <2>4. CASE lut[l] = cp.src
    <3>1. PICK b \in Blk : b = cp.dst /\ b = Place(s \div SPB)'
      <4>1. (s \div SPB)' = s \div SPB
        BY DEF SPB
      <4> QED
        BY <1>1, <1>5, <2>2, <2>4, <4>1 DEF Place
    <3>2. s \div SPB = At \div SPB
      BY <1>4, <2>2, <2>4
    <3>3. Disk'[s] = Decode(cell[b][p][c]).data
      <4>1. cell'[b] = cell[b]
        BY <1>1, <3>1
      <4>2. Disk'[s] = Decode(cell'[b][p][c]).data
        BY <2>1, <3>1, DiskNextAt, BlkNat
      <4> QED
        BY <4>1, <4>2
    <3>4. PICK src \in Blk : src = cp.src /\ Disk[s] = Decode(cell[src][p][c]).data
      <4>1. Place(s \div SPB) = cp.src
        BY <1>5, <2>2, <2>4
      <4> QED
        BY <1>1, <2>1, <4>1, DiskAt, BlkNat
    <3>5. /\ s >= At /\ s < At + Span => cell[b][p][c] = DataCell(buf[s - req.first])
          /\ ~(s >= At /\ s < At + Span) => cell[b][p][c] = cell[src][p][c]
      BY <1>0, <1>1, <2>1, <3>1, <3>2, <3>4, CopyCell
    <3> QED
      BY <2>2, <2>4, <3>3, <3>4, <3>5, DataDecode
  <2> QED
    BY <2>3, <2>4
<1>7. ASSUME NEW s \in Sectors
      PROVE  /\ s >= At /\ s < At + Span => Disk'[s] = buf[s - req.first]
             /\ ~(s >= At /\ s < At + Span) => Disk'[s] = Disk[s]
  <2>1. lut[At \div SPB] = cp.src
    <3>1. At \div SPB \in Blk
      <4>1. tag[cp.src].lbn # NB /\ tag[cp.src].lbn \in 0 .. NB
        BY <1>0, <1>1 DEF LutInv, CopyInv, CopyPcs, TypeInv, TypeOK, FlashType, Tag
      <4> QED
        BY <1>1, <4>1, BlkNat DEF Tagged, Blk
    <3> QED
      BY <1>1, <1>2, <3>1 DEF Stocked, Sole, Spare
  <2>2. s >= At /\ s < At + Span => s \div SPB = At \div SPB
    BY <1>0, SpanPlace
  <2> QED
    BY <1>6, <2>1, <2>2
<1>8. Span \in 1 .. Left /\ Span \in Nat /\ At \in Nat
  BY <1>0, SpanRun, Addressing
<1>9. Ok'
  <2>1. ASSUME NEW s \in Sectors, s >= req.first, s < At + Span
        PROVE  Disk'[s] = buf[s - req.first]
    <3>1. CASE s < At
      <4>1. Ready \in Nat /\ s \in Nat
        BY <1>0, <1>8, SectorPlace DEF Ready
      <4>2. s < At + Ready
        BY <1>8, <3>1, <4>1
      <4>3. Disk[s] = buf[s - req.first]
        BY <1>0, <2>1, <4>2 DEF DevInv, Ok
      <4>4. Disk'[s] = Disk[s]
        BY <1>7, <1>8, <3>1, <4>1
      <4> QED
        BY <4>3, <4>4
    <3>2. CASE ~(s < At)
      BY <1>7, <1>8, <2>1, <3>2, SectorPlace
    <3> QED
      BY <3>1, <3>2
  <2>2. (At + Ready)' = At + Span /\ Sectors' = Sectors
    BY <1>0, SamePlace DEF Ready, Sectors, SPB
  <2> QED
    BY <1>0, <2>1, <2>2 DEF Ok
<1>10. Implements
  <2>1. CASE req.op = "write"
    <3>1. OnlyAsked
      BY <1>0, <1>7, <1>8, AskedBelow DEF OnlyAsked
    <3> QED
      BY <1>0, <2>1, <3>1, LoopScribbles DEF Implements, LoopPcs, CopyPcs
  <2>2. CASE req.op = "read"
    <3>1. \A s \in Sectors : s >= At /\ s < At + Span => s >= req.first
      <4>1. At = req.first + done /\ req.first \in Nat /\ done \in Nat
        BY DEF At, TypeInv, TypeOK, CallType, Requests
      <4> QED
        BY <4>1, SectorPlace
    <3>2. Ready = Span
      BY <1>0, <2>2 DEF Ready
    <3>3. \A s \in Sectors : s >= At /\ s < At + Span => Disk[s] = buf[s - req.first]
      BY <1>0, <3>1, <3>2 DEF DevInv, Ok
    <3>4. Disk' = Disk
      BY <1>7, <3>3, DiskEqual
    <3> QED
      BY <1>0, <3>4, LoopStays DEF Implements, LoopPcs, CopyPcs
  <2> QED
    BY <1>0, <2>1, <2>2
<1>11. Serviceable'
  <2>1. ASSUME NEW l \in Blk, NEW b \in Blk, Tagged(b, l)'
        PROVE  lut[l] = b \/ (b = cp.dst /\ lut[l] = cp.src)
    <3>1. b # cp.src
      BY <1>1, <2>1, BlkNat DEF Tagged, FreshTag
    <3>2. Tagged(b, l)
      BY <1>1, <2>1, <3>1 DEF Tagged
    <3> QED
      BY <1>2, <3>2 DEF Stocked, Sole, Spare
  <2>2. Sole'
    BY <1>0, <2>1 DEF Sole, Spare, DestPcs
  <2> QED
    BY <1>0, <1>2, <2>2 DEF Serviceable, Stocked, FormatPcs
<1>12. Blanked'
  <2>1. ASSUME NEW b \in Blk, Free(b)', NEW p \in Page PROVE BlankAt(b, p)'
    <3>1. CASE b = cp.src
      BY <1>1, <3>1 DEF BlankAt
    <3>2. CASE b # cp.src
      BY <1>0, <1>1, <1>2, <2>1, <3>2 DEF Blanked, Zeroing, BlankAt, Free
    <3> QED
      BY <3>1, <3>2
  <2> QED
    BY <2>1 DEF Blanked
<1>13. Tested' /\ Faulted' /\ Formatting' /\ Numbering' /\ FewBadYet'
  BY <1>0, <1>1 DEF Tested, Faulted, Formatting, Numbering, FewBadYet, FormatPcs
<1> QED
  BY <1>0, <1>1, <1>9, <1>10, <1>11, <1>12, <1>13 DEF DevInv

(* The table follows.                                                      *)
LEMMA DevFixLUT ==
  ASSUME TypeInv, TypeInv', LutInv, DevInv, FixLUT
  PROVE  DevInv' /\ Implements
<1>0. /\ pc = "fixlut" /\ pc \in LoopPcs /\ pc \in DestPcs /\ ~lost
      /\ UNCHANGED <<flash, valid, lost>> /\ Frame(markd, buf)
      /\ cp.dst \in Blk /\ cp.src \in Blk /\ cp.dst # cp.src
      /\ \/ req.op = "write" /\ Advance(Span)
         \/ req.op = "read" /\ pc' = "compareFF" /\ UNCHANGED <<cp, done, rc>>
      /\ Tagged(cp.dst, At \div SPB) /\ tag[cp.src] = FreshTag /\ Stocked /\ Blanked
  <2>1. pc = "fixlut" /\ pc \in LoopPcs /\ pc \in DestPcs /\ ~lost
    BY DEF FixLUT, DevInv, LoopPcs, DestPcs, CopyPcs
  <2>2. \/ req.op = "write" /\ Advance(Span)
        \/ req.op = "read" /\ pc' = "compareFF" /\ UNCHANGED <<cp, done, rc>>
    BY <2>1, InCall DEF FixLUT, Span
  <2> QED
    BY <2>1, <2>2, SpareUnmapped
    DEF FixLUT, DevInv, Copying, Tested, Serviceable, FormatPcs
<1>1. pc' \in {"idle", "write", "compareFF"}
  BY <1>0 DEF Advance, Return
<1>2. \A l \in Blk : lut[l] = cp.src => l = At \div SPB
  <2>1. \A l \in Blk : lut[l] = cp.src => Tagged(cp.dst, l)
    BY <1>0, TableIs, BlkNat DEF FormatPcs, Tagged, FreshTag
  <2> QED
    BY <1>0, <2>1 DEF Tagged
<1>3. \A l \in Blk : lut'[l] = IF lut[l] = cp.src THEN cp.dst ELSE lut[l]
  <2> DEFINE S == {i \in Blk : lut[i] = cp.src}
  <2>1. PICK k : k = Lowest(S)
    OBVIOUS
  <2>2. lut' = [i \in Blk |-> IF i = k THEN cp.dst ELSE lut[i]]
    BY <2>1 DEF FixLUT
  <2>3. S # {} => k \in S
    BY <2>1, LowestIs
  <2>4. k \in Blk => lut[k] = cp.src
    <3>1. k \in S \cup {NB}
      BY <2>1, Extremes
    <3> QED
      BY <3>1, BlkNat
  <2>5. \A l \in Blk : lut[l] = cp.src => l = k
    <3>1. \A l \in Blk : lut[l] = cp.src => l \in S
      OBVIOUS
    <3> QED
      BY <1>2, <2>3, <3>1
  <2> QED
    BY <2>2, <2>4, <2>5
<1>4. Disk' = Disk
  <2>1. ASSUME NEW l \in Blk
        PROVE  Place(l)' = Place(l) /\ (Place(l) # NB => cell'[Place(l)] = cell[Place(l)])
    BY <1>0, <1>1, <1>3 DEF Place, flash
  <2> QED
    BY <2>1, DiskSame
<1>5. Serviceable'
  <2>1. ASSUME NEW l \in Blk, NEW b \in Blk, Tagged(b, l)'
        PROVE  lut'[l] = b
    <3>1. Tagged(b, l) /\ b # cp.src
      BY <1>0, <2>1, BlkNat DEF Tagged, flash, FreshTag
    <3> QED
      BY <1>0, <1>3, <3>1 DEF Stocked, Sole, Spare
  <2> QED
    BY <1>0, <1>1, <2>1 DEF Serviceable, Stocked, Sole, FormatPcs
<1>6. Blanked'
  BY <1>0, BlankedSame
<1>7. Faulted' /\ Formatting' /\ Numbering' /\ FewBadYet' /\ Copying'
  BY <1>1 DEF Faulted, Formatting, Numbering, FewBadYet, FormatPcs, Copying, CopyPcs, DestPcs
<1>8. Tested'
  <2>1. req.op = "write" => pc' \in {"idle", "write"}
    BY <1>0 DEF Advance, Return
  <2>2. pc' \in TestPcs \cup {"fixlut"} => cp' = cp
    BY <1>0, <2>1 DEF TestPcs
  <2> QED
    BY <1>0, <2>2 DEF Tested, flash
<1>9. Ready = Span
  BY <1>0 DEF Ready
<1>10. CASE req.op = "write" /\ Advance(Span)
  <2>1. \A s \in Sectors : s >= req.first /\ s < At + Span => Disk'[s] = buf[s - req.first]
    BY <1>0, <1>4, <1>9 DEF DevInv, Ok
  <2>2. Ok' /\ Implements
    BY <1>0, <1>4, <1>10, <2>1, SpanRun, CallGoesOn DEF Implements, OnlyAsked
  <2> QED
    BY <1>0, <1>5, <1>6, <1>7, <1>8, <2>2 DEF DevInv
<1>11. CASE req.op = "read" /\ pc' = "compareFF" /\ UNCHANGED <<cp, done, rc>>
  <2>1. UNCHANGED <<req, buf>>
    BY <1>0, <1>11 DEF Frame
  <2>2. Ok' /\ Implements
    BY <1>0, <1>4, <1>11, <2>1, ReadySame, RunStays DEF DevInv, LoopPcs, TestPcs
  <2> QED
    BY <1>0, <1>5, <1>6, <1>7, <1>8, <2>2 DEF DevInv
<1> QED
  BY <1>0, <1>10, <1>11

-----------------------------------------------------------------------------
(* The test of a repaired block, step by step.                             *)

(* The block under test is not in the table.                               *)
LEMMA TestUnseen ==
  ASSUME TypeInv, TypeInv', LutInv, ~lost, pc \in TestPcs, pc' # "fixlut", lut' = lut,
         \A b \in Blk \ {cp.src} : cell'[b] = cell[b]
  PROVE  Disk' = Disk
<1>0. cp.src \in Blk /\ \A l \in Blk : lut[l] # cp.src /\ lut[l] \in 0 .. NB
  BY DEF LutInv, CopyInv, Mapped, TypeInv, Shape, TypeOK, RamType
<1>1. ASSUME NEW l \in Blk
      PROVE  Place(l)' = Place(l) /\ (Place(l) # NB => cell'[Place(l)] = cell[Place(l)])
  <2>1. Place(l) = lut[l] /\ Place(l)' = lut[l]
    BY DEF Place, TestPcs
  <2> QED
    BY <1>0, <2>1, BlkNat DEF Blk
<1> QED
  BY <1>1, DiskSame

LEMMA TestCall ==
  ASSUME TypeInv, DevInv, pc \in TestPcs
  PROVE  /\ pc \in LoopPcs /\ pc \notin FormatPcs \cup DestPcs /\ req.op = "read"
         /\ cp.src \in Blk /\ tag[cp.src] = FreshTag /\ FlashType /\ Stocked
         /\ Blanked /\ ~lost
<1>1. pc \in LoopPcs /\ pc \notin FormatPcs \cup DestPcs
  BY DEF LoopPcs, TestPcs, FormatPcs, DestPcs
<1> QED
  BY <1>1 DEF DevInv, Tested, Serviceable, TypeInv, TypeOK, Shape

(* What a step of the test does to the flash.                              *)
Tests == \/ Erased(cp.src)
         \/ Zeroed(cp.src) /\ pc' \in {"eraseSrc", "eraseBad"}
         \/ UNCHANGED flash

LEMMA TestedFlash ==
  ASSUME TypeInv, DevInv, pc \in TestPcs \ {"eraseSrc", "eraseBad"}, Tests, cp' = cp
  PROVE  /\ \A b \in Blk : tag'[b] = tag[b]
         /\ \A b \in Blk \ {cp.src} : cell'[b] = cell[b]
         /\ Blanked'
<1>0. /\ cp.src \in Blk /\ tag[cp.src] = FreshTag /\ FlashType /\ Blanked
  BY TestCall
<1>1. /\ \A b \in Blk : tag'[b] = tag[b]
      /\ \A b \in Blk \ {cp.src} : cell'[b] = cell[b]
  <2>1. CASE Erased(cp.src)
    BY <1>0, <2>1, ErasedIs
  <2>2. CASE Zeroed(cp.src)
    BY <1>0, <2>2 DEF Zeroed, FlashType
  <2> QED
    BY <2>1, <2>2 DEF Tests, flash
<1>2. ASSUME NEW b \in Blk, Free(b)', ~Zeroing(b)', NEW p \in Page
      PROVE  BlankAt(b, p)'
  <2>1. Free(b) /\ BlankAt(b, p)
    BY <1>0, <1>1, <1>2 DEF Free, Blanked, Zeroing
  <2>2. CASE b # cp.src \/ UNCHANGED flash
    BY <1>1, <2>1, <2>2 DEF BlankAt, flash
  <2>3. CASE Erased(cp.src) /\ b = cp.src
    BY <1>0, <2>3, ErasedIs DEF BlankAt
  <2>4. CASE Zeroed(cp.src) /\ pc' \in {"eraseSrc", "eraseBad"} /\ b = cp.src
    BY <1>2, <2>4 DEF Zeroing
  <2> QED
    BY <2>2, <2>3, <2>4 DEF Tests
<1> QED
  BY <1>1, <1>2 DEF Blanked

LEMMA DevTest ==
  ASSUME TypeInv, TypeInv', LutInv, DevInv, CompareFF \/ Compare00
  PROVE  DevInv' /\ Implements
<1>0. /\ pc \in TestPcs \ {"eraseSrc", "eraseBad"} /\ pc' \in TestPcs
      /\ UNCHANGED <<lut, valid, req, buf, done, cp, lost>> /\ Tests
  <2>1. CASE CompareFF
    BY <2>1 DEF CompareFF, TestPcs, Tests, ram
  <2>2. CASE Compare00
    BY <2>2 DEF Compare00, TestPcs, Tests, ram
  <2> QED
    BY <2>1, <2>2
<1>1. /\ pc \in LoopPcs /\ pc' \in LoopPcs /\ pc \notin FormatPcs \cup DestPcs
      /\ pc' \notin FormatPcs \cup DestPcs \cup CopyPcs \cup {"condemn"} /\ req.op = "read"
      /\ tag[cp.src] = FreshTag /\ Stocked /\ cp.src \in Blk /\ ~lost
  BY <1>0, TestCall DEF LoopPcs, TestPcs, FormatPcs, DestPcs, CopyPcs
<1>2. /\ \A b \in Blk : tag'[b] = tag[b]
      /\ \A b \in Blk \ {cp.src} : cell'[b] = cell[b]
      /\ Blanked'
  BY <1>0, TestedFlash
<1>3. Disk' = Disk
  BY <1>0, <1>1, <1>2, TestUnseen DEF TestPcs
<1>4. Serviceable'
  <2>1. Sole'
    BY <1>0, <1>1, <1>2 DEF Stocked, Sole, Spare, Tagged
  <2> QED
    BY <1>0, <1>1, <2>1 DEF Serviceable, Stocked, FormatPcs
<1>5. Tested'
  BY <1>0, <1>1, <1>2 DEF Tested
<1>6. Faulted' /\ Formatting' /\ Numbering' /\ FewBadYet' /\ Copying'
  BY <1>1 DEF Faulted, Formatting, Numbering, FewBadYet, FormatPcs, Copying, CopyPcs, DestPcs
<1>7. Ok' /\ Implements
  BY <1>0, <1>1, <1>3, ReadySame, RunStays DEF DevInv, TestPcs
<1> QED
  BY <1>0, <1>1, <1>2, <1>4, <1>5, <1>6, <1>7 DEF DevInv

(* The end of a repair: the loop goes on with what was read.               *)
LEMMA RepairEnds ==
  ASSUME TypeInv, TypeInv', DevInv, pc \in TestPcs, Disk' = Disk, Advance(PageRun),
         Frame(markd, buf)
  PROVE  Ok' /\ Implements
<1>0. pc \in LoopPcs /\ req.op = "read"
  BY TestCall
<1>1. Ready = PageRun
  BY <1>0 DEF Ready, Span, TestPcs
<1>2. \A s \in Sectors : s >= req.first /\ s < At + PageRun => Disk'[s] = buf[s - req.first]
  BY <1>0, <1>1 DEF DevInv, Ok
<1>3. PageRun \in 1 .. Left
  BY <1>0, Addressing
<1> QED
  BY <1>0, <1>2, <1>3, CallGoesOn DEF Implements

LEMMA DevEraseTested ==
  ASSUME "erase" \notin FaultOps, TypeInv, TypeInv', LutInv, DevInv, EraseTested
  PROVE  DevInv' /\ Implements
<1>0. /\ pc \in TestPcs /\ Erased(cp.src) /\ Frame(markd, buf)
      /\ UNCHANGED <<lut, valid, lost>>
      /\ \/ Advance(PageRun)
         \/ pc' = "condemnSrc" /\ UNCHANGED <<cp, done, rc>>
  BY DEF EraseTested, TestPcs, FaultAt, ram
<1>1. /\ pc \in LoopPcs /\ pc \notin FormatPcs \cup DestPcs /\ req.op = "read"
      /\ tag[cp.src] = FreshTag /\ Stocked /\ cp.src \in Blk /\ ~lost /\ Blanked
      /\ FlashType
  BY <1>0, TestCall
<1>2. pc' \in {"idle", "read", "condemnSrc"}
  BY <1>0, <1>1 DEF Advance, Return
<1>3. /\ \A b \in Blk : tag'[b] = tag[b]
      /\ \A b \in Blk \ {cp.src} : cell'[b] = cell[b]
      /\ \A p \in Page, s \in Sec : cell'[cp.src][p][s] = BlankCell
  BY <1>0, <1>1, ErasedIs
<1>4. Disk' = Disk
  BY <1>0, <1>1, <1>2, <1>3, TestUnseen
<1>5. Blanked'
  <2>1. ASSUME NEW b \in Blk, Free(b)', NEW p \in Page PROVE BlankAt(b, p)'
    <3>1. CASE b = cp.src
      BY <1>3, <3>1 DEF BlankAt
    <3>2. CASE b # cp.src
      BY <1>1, <1>3, <2>1, <3>2 DEF Blanked, Zeroing, BlankAt, Free
    <3> QED
      BY <3>1, <3>2
  <2> QED
    BY <2>1 DEF Blanked
<1>6. Serviceable'
  <2>1. Sole'
    BY <1>0, <1>1, <1>2, <1>3 DEF Stocked, Sole, Spare, Tagged, DestPcs
  <2> QED
    BY <1>0, <1>1, <1>2, <2>1 DEF Serviceable, Stocked, FormatPcs
<1>7. Faulted' /\ Formatting' /\ Numbering' /\ FewBadYet' /\ Copying'
  BY <1>2 DEF Faulted, Formatting, Numbering, FewBadYet, FormatPcs, Copying, CopyPcs, DestPcs
<1>8. CASE Advance(PageRun)
  <2>1. Tested'
    BY <1>1, <1>8 DEF Tested, TestPcs, Advance, Return
  <2>2. Ok' /\ Implements
    BY <1>0, <1>4, <1>8, RepairEnds
  <2> QED
    BY <1>0, <1>1, <1>5, <1>6, <1>7, <2>1, <2>2 DEF DevInv
<1>9. CASE pc' = "condemnSrc" /\ UNCHANGED <<cp, done, rc>>
  <2>1. UNCHANGED <<req, buf>>
    BY <1>0, <1>9 DEF Frame
  <2>2. Tested'
    BY <1>1, <1>3, <1>9 DEF Tested
  <2>3. Ok' /\ Implements
    BY <1>0, <1>1, <1>4, <1>9, <2>1, ReadySame, RunStays DEF DevInv, TestPcs, LoopPcs
  <2> QED
    BY <1>0, <1>1, <1>5, <1>6, <1>7, <2>2, <2>3 DEF DevInv
<1> QED
  BY <1>0, <1>8, <1>9

LEMMA DevCondemnSource ==
  ASSUME TypeInv, TypeInv', WholeMarks, Whole, LutInv, DevInv, Grows, CondemnSource
  PROVE  DevInv' /\ Implements
<1>0. /\ pc = "condemnSrc" /\ pc \in TestPcs /\ BadBlockMark(cp.src) /\ CreateLUT(tag')
      /\ Advance(PageRun) /\ Frame(markd, buf) /\ UNCHANGED <<cell, lost, crashes>>
  BY DEF CondemnSource, TestPcs
<1>1. /\ pc \in LoopPcs /\ pc \notin FormatPcs \cup DestPcs /\ req.op = "read"
      /\ tag[cp.src] = FreshTag /\ Stocked /\ cp.src \in Blk /\ ~lost /\ Blanked
  BY <1>0, TestCall
<1>2. pc' \in {"idle", "read"}
  BY <1>0, <1>1 DEF Advance, Return
<1>3. /\ \A b \in Blk \ {cp.src} : tag'[b] = tag[b]
      /\ tag'[cp.src] = BadTag \/ tag'[cp.src] = tag[cp.src]
  BY <1>0, <1>1, CondemnTag
<1>4. \A b, l \in Blk : Tagged(b, l)' <=> Tagged(b, l)
  <2>1. \A b, l \in Blk : b # cp.src => (Tagged(b, l)' <=> Tagged(b, l))
    BY <1>3 DEF Tagged
  <2>2. \A l \in Blk : ~Tagged(cp.src, l)
    BY <1>1, BlkNat DEF Tagged, FreshTag
  <2>3. \A l \in Blk : ~(~tag'[cp.src].bad /\ tag'[cp.src].lbn = l)
    BY <1>1, <1>3, BlkNat DEF FreshTag, BadTag
  <2> QED
    BY <2>1, <2>2, <2>3 DEF Tagged
<1>5. \A l, b \in Blk : ~tag'[b].bad /\ tag'[b].lbn = l => lut[l] = b
  BY <1>1, <1>4 DEF Stocked, Sole, Spare, Tagged
<1>6. lut' = lut
  <2>1. \A l \in Blk : lut[l] # NB => lut[l] \in Blk /\ Tagged(lut[l], l)
    BY <1>0, <1>1, MappedTagged DEF FormatPcs
  <2>2. \A l \in Blk : lut[l] # NB => ~tag'[lut[l]].bad /\ tag'[lut[l]].lbn = l
    BY <1>4, <2>1 DEF Tagged
  <2> QED
    BY <1>0, <1>5, <2>2, SoleRebuilt
<1>7. Disk' = Disk
  BY <1>0, <1>1, <1>2, <1>6, TestUnseen
<1>8. Serviceable'
  <2>1. Sole'
    BY <1>5, <1>6 DEF Sole, Tagged
  <2>2. valid' >= MinBlocks
    <3>1. valid' >= valid /\ valid >= MinBlocks
      BY <1>0, <1>1 DEF Grows, Stocked
    <3> QED
      BY <3>1, FTLAssumption DEF TypeInv, TypeOK, RamType
  <2> QED
    BY <1>2, <2>1, <2>2 DEF Serviceable, Stocked, FormatPcs
<1>9. Blanked'
  <2>1. ASSUME NEW b \in Blk, Free(b)' PROVE Free(b)
    BY <1>3, <2>1 DEF Free, FreshTag, BadTag
  <2> QED
    BY <1>0, <1>1, <2>1 DEF Blanked, Zeroing, BlankAt
<1>10. Tested' /\ Faulted' /\ Formatting' /\ Numbering' /\ FewBadYet' /\ Copying'
  BY <1>2 DEF Tested, TestPcs, Faulted, Formatting, Numbering, FewBadYet, FormatPcs,
              Copying, CopyPcs, DestPcs
<1>11. Ok' /\ Implements
  BY <1>0, <1>7, RepairEnds
<1> QED
  BY <1>0, <1>1, <1>8, <1>9, <1>10, <1>11 DEF DevInv

-----------------------------------------------------------------------------
(* Between the calls, and the format of a chip that holds nothing.         *)

LEMMA DevReinit ==
  ASSUME TypeInv, TypeInv', LutInv, DevInv, Reinit
  PROVE  DevInv' /\ Implements
<1>0. /\ pc = "idle" /\ pc' = "boot" /\ UNCHANGED <<flash, lut, valid, req, buf, rc, lost>>
      /\ Stocked /\ ~lost /\ Blanked
  BY DEF Reinit, ram, DevInv, Serviceable, FormatPcs
<1>1. Disk' = Disk
  BY <1>0, DiskKept
<1>2. Stocked' /\ InTable'
  <2>1. InTable
    BY <1>0 DEF LutInv, LutTagged, InTable
  <2>2. InTable' /\ Sole'
    BY <1>0, <2>1 DEF InTable, Stocked, Sole, Spare, DestPcs, Tagged, flash
  <2> QED
    BY <1>0, <2>2 DEF Stocked
<1>3. Serviceable' /\ FewBadYet'
  <2>1. ~(valid' < MinBlocks)
    BY <1>0, FTLAssumption DEF Stocked, TypeInv, TypeOK, RamType
  <2> QED
    BY <1>0, <1>2, <2>1 DEF Serviceable, FewBadYet, FormatPcs
<1>4. Tested' /\ Faulted' /\ Formatting' /\ Numbering' /\ Copying' /\ Ok'
  BY <1>0 DEF Tested, TestPcs, Faulted, Formatting, Numbering, Copying, CopyPcs, DestPcs,
              Ok, LoopPcs
<1>5. Implements
  BY <1>0, <1>1, OutsideStays DEF Implements, LoopPcs, CopyPcs, TestPcs
<1> QED
  BY <1>0, <1>3, <1>4, <1>5, BlankedSame DEF DevInv

LEMMA DevBoot ==
  ASSUME TypeInv, TypeInv', LutInv, DevInv, Grows, FewBadYet', Boot
  PROVE  DevInv' /\ Implements
<1>0. /\ pc = "boot" /\ UNCHANGED <<flash, req, buf, rc, lost, crashes>> /\ CreateLUT(tag)
      /\ pc' = IF valid' < MinBlocks THEN "fmtErase" ELSE "idle"
      /\ fmt' = NoFmt /\ ~lost /\ Blanked /\ MinBlocks \in Nat /\ valid' \in Nat
  BY FTLAssumption, BlkNat DEF Boot, DevInv, TypeInv, TypeOK, RamType, env
<1>1. pc' \in {"fmtErase", "idle"} /\ \A b : ~Spare(b) /\ ~Spare(b)'
  BY <1>0 DEF Spare, DestPcs
<1>2. Formatting'
  <2>1. (Cardinality(GoodBelow(0)) = 0)'
    BY NoneBelow, PTL
  <2>2. \A b \in Blk : ~(b < 0)
    BY BlkNat
  <2> QED
    BY <1>0, <1>1, <2>1, <2>2 DEF Formatting, NoFmt
<1>3. Tested' /\ Faulted' /\ Numbering' /\ Copying' /\ Ok' /\ Blanked'
  BY <1>0, <1>1, BlankedSame
  DEF Tested, TestPcs, Faulted, Numbering, Copying, CopyPcs, DestPcs, Ok, LoopPcs
<1>4. CASE valid = 0 /\ Virgin /\ Untagged
  <2>1. Virgin'
    BY <1>0, <1>4 DEF Virgin, BlankAt, flash
  <2>2. Disk' = Disk
    BY <1>4, <2>1, StillVirgin
  <2>3. \A l, b \in Blk : ~Tagged(b, l)
    BY <1>4, BlkNat DEF Untagged, Tagged
  <2>4. Sole'
    BY <1>0, <2>3 DEF Sole, Tagged, flash
  <2>5. Serviceable'
    BY <1>0, <1>1, <2>1, <2>4 DEF Serviceable, Stocked, FormatPcs
  <2>6. Implements
    BY <1>0, <1>1, <2>2, OutsideStays DEF Implements, LoopPcs, CopyPcs, TestPcs
  <2> QED
    BY <1>0, <1>2, <1>3, <2>5, <2>6 DEF DevInv
<1>5. CASE Stocked /\ InTable
  <2>1. \A l, b \in Blk : Tagged(b, l) => lut[l] = b
    BY <1>1, <1>5 DEF Stocked, Sole
  <2>2. lut' = lut
    BY <1>0, <1>5, <2>1, SoleRebuilt DEF InTable, Tagged
  <2>3. valid' >= MinBlocks /\ pc' = "idle"
    <3>1. valid \in Nat /\ valid >= MinBlocks /\ valid' >= valid
      BY <1>0, <1>5, BlkNat DEF Stocked, Grows, TypeInv, TypeOK, RamType
    <3> QED
      BY <1>0, <3>1
  <2>4. Sole'
    BY <1>0, <2>1, <2>2 DEF Sole, Tagged, flash
  <2>5. Serviceable'
    BY <2>3, <2>4 DEF Serviceable, Stocked, FormatPcs
  <2>6. Disk' = Disk
    BY <1>0, <2>2, <2>3, DiskKept
  <2>7. Implements
    BY <1>0, <1>1, <2>6, OutsideStays DEF Implements, LoopPcs, CopyPcs, TestPcs
  <2> QED
    BY <1>0, <1>2, <1>3, <2>5, <2>7 DEF DevInv
<1> QED
  BY <1>0, <1>4, <1>5 DEF DevInv, Serviceable

LEMMA DevFormatErase ==
  ASSUME EnoughBlocks, TypeInv, TypeInv', DevInv, FewBad', FormatErase
  PROVE  DevInv' /\ Implements
<1>0. /\ pc = "fmtErase" /\ ~lost /\ Virgin /\ valid < MinBlocks /\ fmt \in Formats
      /\ UNCHANGED <<lut, valid, req, buf, rc>>
  BY DEF FormatErase, DevInv, Serviceable, ram, TypeInv, TypeOK, CallType
<1>1. /\ ~lost' /\ Formatting' /\ pc' \in {"fmtErase", "fmtTag"}
      /\ \E b \in Blk :
           /\ \A c \in Blk \ {b} : cell'[c] = cell[c] /\ tag'[c] = tag[c]
           /\ \/ tag[b].bad /\ tag'[b] = tag[b] /\ cell'[b] = cell[b]
              \/ /\ \A p \in Page, s \in Sec : cell'[b][p][s] = BlankCell
                 /\ tag'[b] = FreshTag
              \/ tag'[b] = BadTag /\ cell'[b] = cell[b]
  BY FormatEraseStep DEF DevInv
<1>2. Virgin'
  BY <1>0, <1>1 DEF Virgin, BlankAt
<1>3. Blanked' /\ Serviceable' /\ FewBadYet'
  BY <1>0, <1>1, <1>2 DEF Blanked, Virgin, Serviceable, FewBadYet, FormatPcs
<1>4. Numbering'
  <2>1. ASSUME pc' = "fmtTag" PROVE fmt'.i = NB
    <3>1. PICK g : fmt' = [fmt EXCEPT !.i = fmt.i + 1, !.good = g]
      <4>1. \/ fmt' = [fmt EXCEPT !.i = fmt.i + 1]
            \/ fmt' = [fmt EXCEPT !.i = fmt.i + 1, !.good = fmt.good + 1]
        BY DEF FormatErase
      <4>2. fmt = [fmt EXCEPT !.good = fmt.good]
        BY <1>0 DEF Formats
      <4> QED
        BY <1>0, <4>1, <4>2 DEF Formats
    <3>2. fmt'.i = fmt.i + 1
      BY <1>0, <3>1 DEF Formats
    <3>3. fmt.i = NB - 1
      BY <2>1 DEF FormatErase
    <3> QED
      BY <3>2, <3>3, BlkNat
  <2>2. \A b \in Blk : ~(b < NB - NB)
    BY BlkNat
  <2> QED
    BY <2>1, <2>2 DEF Numbering
<1>5. Tested' /\ Faulted' /\ Copying' /\ Ok'
  BY <1>1 DEF Tested, TestPcs, Faulted, Copying, CopyPcs, DestPcs, Ok, LoopPcs
<1>6. Disk' = Disk
  BY <1>0, <1>2, StillVirgin
<1>7. Implements
  BY <1>0, <1>1, <1>6, OutsideStays DEF Implements, LoopPcs, CopyPcs, TestPcs
<1> QED
  BY <1>1, <1>3, <1>4, <1>5, <1>7 DEF DevInv

(* The numbers are given once, below the last, and give the table.         *)
LEMMA DevFormatTag ==
  ASSUME EnoughBlocks, TypeInv, TypeInv', DevInv, FewBad', FormatTag
  PROVE  DevInv' /\ Implements
<1>0. /\ pc = "fmtTag" /\ ~lost /\ Virgin /\ valid < MinBlocks /\ FewBad
      /\ UNCHANGED <<req, buf, rc>> /\ MinBlocks \in Nat
      /\ pc' = "fmtTag" => valid' = valid
  BY FTLAssumption DEF FormatTag, DevInv, Serviceable, FewBadYet, FormatPcs
<1>1. /\ cell' = cell /\ lost' = lost /\ Formatting' /\ pc' \in {"fmtTag", "idle"}
      /\ \E b \in Blk, n \in Nat : TagStep(b, n)
  BY <1>0, FormatTagStep DEF DevInv
<1>2. PICK b \in Blk, n \in Nat : TagStep(b, n)
  BY <1>1
<1>3. Virgin' /\ Blanked'
  BY <1>0, <1>1 DEF Virgin, Blanked, BlankAt
<1>4. /\ \A c \in Blk : c < b + 1 /\ ~tag'[c].bad => tag'[c].lbn < n
      /\ \A c, d \in Blk : /\ c < b + 1 /\ ~tag'[c].bad
                           /\ d < b + 1 /\ ~tag'[d].bad
                           /\ tag'[c].lbn = tag'[d].lbn
                           => c = d
  <2>0. /\ b = fmt.i - NB /\ fmt.n \in Nat /\ b \in Nat
        /\ n = IF ~tag[b].bad THEN fmt.n + 1 ELSE fmt.n
        /\ \A c \in Blk \ {b} : tag'[c] = tag[c]
        /\ tag[b].bad => tag'[b] = tag[b]
        /\ ~tag[b].bad => ~tag'[b].bad /\ tag'[b].lbn = fmt.n
    BY <1>2, BlkNat DEF TagStep
  <2>1. \A c \in Blk : c < b + 1 => c = b \/ c < b
    BY <2>0, BlkNat
  <2>2. \A c \in Blk : c < b /\ ~tag'[c].bad => ~tag[c].bad /\ tag'[c].lbn < fmt.n /\ c # b
    BY <1>0, <2>0 DEF DevInv, Numbering
  <2>3. \A c \in Blk : tag'[c].lbn \in Nat
    BY BlkNat DEF TypeInv, TypeOK, FlashType, Tag
  <2>4. ASSUME NEW c \in Blk, c < b + 1, ~tag'[c].bad PROVE tag'[c].lbn < n
    <3>1. PICK x \in Nat : x = tag'[c].lbn
      BY <2>3
    <3>2. PICK k \in Nat : k = fmt.n
      BY <2>0
    <3>3. n = k \/ n = k + 1
      BY <2>0, <3>2
    <3>4. CASE c = b
      <4>1. ~tag[b].bad
        BY <2>0, <2>4, <3>4
      <4>2. n = k + 1 /\ x = k
        BY <2>0, <3>1, <3>2, <3>4, <4>1
      <4> QED
        BY <3>1, <4>2
    <3>5. CASE c < b
      <4>1. x < k
        BY <2>2, <2>4, <3>1, <3>2, <3>5
      <4>2. x < n
        BY <3>3, <4>1
      <4> QED
        BY <3>1, <4>2
    <3> QED
      BY <2>1, <2>4, <3>4, <3>5
  <2>5. ASSUME NEW c \in Blk, NEW d \in Blk, c < b + 1, ~tag'[c].bad,
               d < b + 1, ~tag'[d].bad, tag'[c].lbn = tag'[d].lbn
        PROVE  c = d
    <3>1. CASE c < b /\ d < b
      <4>1. tag[c].lbn = tag[d].lbn /\ ~tag[c].bad /\ ~tag[d].bad
        BY <2>0, <2>2, <2>5, <3>1
      <4> QED
        BY <1>0, <2>0, <3>1, <4>1 DEF DevInv, Numbering
    <3>2. ASSUME NEW e \in Blk, e < b, ~tag'[e].bad, ~tag'[b].bad
          PROVE  tag'[e].lbn # tag'[b].lbn
      <4>1. PICK x \in Nat : x = tag'[e].lbn
        BY <2>3
      <4>2. PICK k \in Nat : k = fmt.n
        BY <2>0
      <4>3. x < k
        BY <2>2, <3>2, <4>1, <4>2
      <4>4. tag'[b].lbn = k
        BY <2>0, <3>2, <4>2
      <4> QED
        BY <4>1, <4>3, <4>4
    <3> QED
      BY <2>1, <2>5, <3>1, <3>2
  <2> QED
    BY <2>4, <2>5
<1>5. Disk' = Disk
  BY <1>0, <1>3, StillVirgin
<1>6. Tested' /\ Faulted' /\ Copying' /\ Ok'
  BY <1>1 DEF Tested, TestPcs, Faulted, Copying, CopyPcs, DestPcs, Ok, LoopPcs
<1>7. Implements
  BY <1>0, <1>1, <1>5, OutsideStays DEF Implements, LoopPcs, CopyPcs, TestPcs
<1>8. CASE pc' = "fmtTag" /\ fmt'.i = fmt.i + 1 /\ fmt'.n = n
  <2>1. fmt'.i - NB = b + 1
    BY <1>2, <1>8, BlkNat DEF TagStep, TypeInv, TypeOK, CallType, Formats
  <2>2. Numbering'
    BY <1>4, <1>8, <2>1 DEF Numbering
  <2>3. Serviceable' /\ FewBadYet'
    BY <1>0, <1>3, <1>8 DEF Serviceable, FewBadYet, FormatPcs
  <2> QED
    BY <1>0, <1>1, <1>3, <1>6, <1>7, <2>2, <2>3 DEF DevInv
<1>9. CASE CreateLUT(tag') /\ pc' = "idle" /\ n >= MinBlocks
  <2>1. \A c, l \in Blk : Tagged(c, l)' => c < b + 1 /\ l < n
    <3>1. \A c \in Blk : c >= b + 1 /\ ~tag'[c].bad => tag'[c].lbn = NB
      BY <1>2 DEF TagStep
    <3>2. \A c \in Blk : c >= b + 1 \/ c < b + 1
      BY BlkNat
    <3> QED
      BY <1>4, <3>1, <3>2, BlkNat DEF Tagged
  <2>2. \A l \in Blk : lut'[l] = NB \/ (lut'[l] \in Blk /\ Tagged(lut[l], l)')
    <3>1. lut' = TaggedLut(tag')
      BY <1>9 DEF CreateLUT
    <3>2. ASSUME NEW l \in Blk
          PROVE  lut'[l] = NB \/ (lut'[l] \in Blk /\ Tagged(lut[l], l)')
      <4>1. PICK c : c = TaggedLut(tag')[l]
        OBVIOUS
      <4>2. c = NB \/ (~tag'[c].bad /\ tag'[c].lbn = l)
        BY <4>1, TaggedLutType
      <4>3. c \in 0 .. NB
        BY <4>1, TaggedLutType
      <4> QED
        BY <3>1, <4>1, <4>2, <4>3, BlkNat DEF Tagged, Blk
    <3> QED
      BY <3>2
  <2>3. \A l, c \in Blk : Tagged(c, l)' => lut'[l] = c
    <3>1. SUFFICES ASSUME NEW l \in Blk, NEW c \in Blk, Tagged(c, l)' PROVE lut'[l] = c
      OBVIOUS
    <3>2. lut'[l] # NB
      BY <1>9, <3>1, Rebuilt DEF Tagged
    <3>3. PICK d \in Blk : d = lut'[l]
      BY <2>2, <3>2
    <3>4. ~tag'[d].bad /\ tag'[d].lbn = l /\ ~tag'[c].bad /\ tag'[c].lbn = l
      BY <2>2, <3>1, <3>2, <3>3 DEF Tagged
    <3>5. c < b + 1 /\ d < b + 1
      BY <2>1, <3>4 DEF Tagged
    <3> QED
      BY <1>4, <3>3, <3>4, <3>5
  <2>4. valid' >= MinBlocks
    <3>1. n \in Nat /\ n < NB /\ n >= MinBlocks
      BY <1>2, <1>9 DEF TagStep
    <3>2. NB - 1 \in Blk /\ ~(NB - 1 < n)
      BY <3>1, BlkNat DEF Blk
    <3>3. lut'[NB - 1] = NB
      BY <2>1, <2>2, <3>2
    <3>4. valid' \in Blk /\ lut'[valid'] = NB
      BY <1>9, <3>2, <3>3, Rebuilt
    <3>5. \A l \in Blk : l < n => lut'[l] # NB
      <4>1. \A l \in Blk : l < n => \E c \in Blk : Tagged(c, l)'
        BY <1>2 DEF TagStep
      <4> QED
        BY <2>3, <4>1, BlkNat
    <3>6. ~(valid' < n)
      BY <3>4, <3>5
    <3> QED
      BY <1>0, <3>1, <3>4, <3>6, BlkNat
  <2>5. Serviceable'
    <3>1. Sole'
      BY <2>3 DEF Sole
    <3> QED
      BY <1>9, <2>4, <3>1 DEF Serviceable, Stocked, FormatPcs
  <2>6. Numbering' /\ FewBadYet'
    BY <1>9 DEF Numbering, FewBadYet, FormatPcs
  <2> QED
    BY <1>0, <1>1, <1>3, <1>6, <1>7, <2>5, <2>6 DEF DevInv
<1> QED
  BY <1>2, <1>8, <1>9 DEF TagStep

-----------------------------------------------------------------------------
(* Every step.                                                             *)

(* The code corrects a flipped bit in a sector that was programmed.        *)
LEMMA FlipDecode ==
  ASSUME NEW c, NEW d, c.ecc = c.val, d.ecc = c.ecc, d.val = c.val
  PROVE  Decode(d).data = Decode(c).data
  BY DEF Decode

LEMMA FlippedCell ==
  ASSUME NEW c \in Cell
  PROVE  LET d == [c EXCEPT !.flip = TRUE] IN d.ecc = c.ecc /\ d.val = c.val
  BY Zenon DEF Cell

LEMMA FlipStep ==
  ASSUME TypeInv, Flip
  PROVE  \E b \in Blk, p \in Page, s \in Sec :
           /\ cell[b][p][s].ecc = cell[b][p][s].val
           /\ cell'[b][p][s].ecc = cell[b][p][s].ecc
           /\ cell'[b][p][s].val = cell[b][p][s].val
           /\ \A c \in Blk, q \in Page, t \in Sec :
                c # b \/ q # p \/ t # s => cell'[c][q][t] = cell[c][q][t]
<1>1. PICK b \in Blk, p \in Page, s \in Sec :
        /\ cell[b][p][s].ecc = cell[b][p][s].val
        /\ cell' = [cell EXCEPT ![b][p][s].flip = TRUE]
  BY DEF Flip
<1>2. cell[b][p] \in [Sec -> Cell] /\ cell[b][p][s] \in Cell
  BY DEF TypeInv, TypeOK, FlashType
<1>3. PICK d : d = [cell[b][p][s] EXCEPT !.flip = TRUE]
  OBVIOUS
<1>4. PICK page : page = [cell[b][p] EXCEPT ![s] = d]
  OBVIOUS
<1>5. cell' = [cell EXCEPT ![b][p] = page]
  BY <1>1, <1>3, <1>4
<1>6. /\ cell'[b][p] = page
      /\ \A c \in Blk, q \in Page : c # b \/ q # p => cell'[c][q] = cell[c][q]
  <2>1. cell \in [Blk -> [Page -> [Sec -> Cell]]]
    BY DEF TypeInv, TypeOK, FlashType
  <2>2. /\ cell'[b][p] = page
        /\ \A q \in Page : q # p => cell'[b][q] = cell[b][q]
    BY <1>5, <2>1, Zenon
  <2>3. \A c \in Blk : c # b => cell'[c] = cell[c]
    BY <1>5, <2>1, Zenon
  <2> QED
    BY <2>2, <2>3
<1>7. page[s] = d /\ \A t \in Sec : t # s => page[t] = cell[b][p][t]
  BY <1>2, <1>4
<1>8. d.ecc = cell[b][p][s].ecc /\ d.val = cell[b][p][s].val
  BY <1>2, <1>3, FlippedCell
<1>9. ASSUME NEW c \in Blk, NEW q \in Page, NEW t \in Sec, c # b \/ q # p \/ t # s
      PROVE  cell'[c][q][t] = cell[c][q][t]
  BY <1>6, <1>7, <1>9
<1> QED
  BY <1>1, <1>6, <1>7, <1>8, <1>9

LEMMA DevFlip ==
  ASSUME TypeInv, TypeInv', DevInv, Flip
  PROVE  DevInv' /\ Implements
<1>0. /\ pc = "idle" /\ pc' = "idle" /\ ~lost
      /\ UNCHANGED <<tag, lut, valid, req, buf, rc, lost>>
  BY DEF Flip, DevInv, ram
<1>1. PICK b \in Blk, p \in Page, s \in Sec :
        /\ cell[b][p][s].ecc = cell[b][p][s].val
        /\ cell'[b][p][s].ecc = cell[b][p][s].ecc
        /\ cell'[b][p][s].val = cell[b][p][s].val
        /\ \A c \in Blk, q \in Page, t \in Sec :
             c # b \/ q # p \/ t # s => cell'[c][q][t] = cell[c][q][t]
  BY FlipStep
<1>2. Blanked'
  <2>1. cell[b][p][s] # BlankCell
    BY <1>1, ValueAssumption DEF BlankCell
  <2>2. ~Free(b)
    BY <1>0, <2>1 DEF DevInv, Blanked, Zeroing, BlankAt
  <2>3. ASSUME NEW c \in Blk, Free(c), c # b, NEW q \in Page, NEW t \in Sec
        PROVE  cell'[c][q][t] = BlankCell
    <3>1. cell[c][q][t] = BlankCell
      BY <1>0, <2>3 DEF DevInv, Blanked, Zeroing, BlankAt
    <3> QED
      BY <1>1, <2>3, <3>1
  <2>4. \A c \in Blk : Free(c)' => Free(c) /\ c # b
    BY <1>0, <2>2 DEF Free
  <2> QED
    BY <2>3, <2>4 DEF Blanked, BlankAt
<1>3. ASSUME NEW x \in Sectors PROVE Disk'[x] = Disk[x]
  <2>1. PICK c \in 0 .. NB : c = Place(x \div SPB)
    BY SectorPlace, PlaceType
  <2>2. PICK q \in Page, t \in Sec : q = (x % SPB) \div SPP /\ t = x % SPP
    BY SectorPlace, PlaceOf
  <2>3. c = Place(x \div SPB)'
    BY <1>0, <2>1 DEF Place, SPB
  <2>4. CASE c = NB \/ c # b \/ q # p \/ t # s
    <3>1. c # NB => cell'[c][q][t] = cell[c][q][t]
      BY <1>1, <2>4, BlkNat DEF Blk
    <3> QED
      BY <2>1, <2>2, <2>3, <3>1, SectorStill
  <2>5. CASE c = b /\ q = p /\ t = s /\ c # NB
    <3>1. Disk[x] = Decode(cell[b][p][s]).data
      BY <2>1, <2>2, <2>5, DiskAt
    <3>2. Disk'[x] = Decode(cell'[b][p][s]).data
      BY <2>2, <2>3, <2>5, DiskNextAt
    <3>3. Decode(cell'[b][p][s]).data = Decode(cell[b][p][s]).data
      BY <1>1, FlipDecode
    <3> QED
      BY <3>1, <3>2, <3>3
  <2> QED
    BY <2>4, <2>5
<1>4. Disk' = Disk
  BY <1>3, DiskEqual
<1>5. /\ Serviceable' /\ Tested' /\ Faulted' /\ Formatting' /\ Numbering' /\ FewBadYet'
  BY <1>0, QuietServe DEF DevInv, KeepsNumbers, FormatPcs, DestPcs
<1>6. Copying' /\ Ok'
  BY <1>0 DEF Copying, CopyPcs, DestPcs, Ok, LoopPcs, TestPcs
<1>7. Implements
  BY <1>0, <1>4, OutsideStays DEF Implements, LoopPcs, CopyPcs, TestPcs
<1> QED
  BY <1>0, <1>2, <1>5, <1>6, <1>7 DEF DevInv

LEMMA DevStutter == ASSUME DevInv, UNCHANGED vars PROVE DevInv' /\ Implements
<1>1. UNCHANGED <<cell, tag, lut, valid, cur, pc, req, buf, done, markd, cp, fmt, rc,
                  lost, faults, crashes, flips>>
  BY DEF vars, flash, ram, env
<1>2. Blanked' /\ Tested' /\ Faulted' /\ Numbering' /\ ~lost'
  BY <1>1 DEF DevInv, Blanked, Zeroing, BlankAt, Free, Tested, Faulted, Numbering
<1>3. Serviceable'
  BY <1>1 DEF DevInv, Serviceable, Stocked, Sole, Spare, Virgin, Untagged, InTable,
              BlankAt, Tagged
<1>4. Copying'
  BY <1>1 DEF DevInv, Copying, Underway, Begun, Ahead, CopiedTo, BlankAt, Free, Tagged,
              Holds, Value, At, Span, BlockRun, PageRun, Left, PageNo, SecNo, InBlock
<1>5. Formatting' /\ FewBadYet'
  BY <1>1 DEF DevInv, Formatting, GoodBelow, Quota, Tagged, FewBadYet, FewBad, Bad, Pending
<1>6. Disk' = Disk
  BY <1>1 DEF Disk, Place
<1>7. Ok'
  BY <1>1, <1>6 DEF DevInv, Ok, Ready, At, Span, BlockRun, PageRun, Left, PageNo, SecNo,
                    InBlock
<1>8. Job' = Job /\ Reply' = Reply
  BY <1>1 DEF Job, Reply, Data, Serving
<1> QED
  BY <1>2, <1>3, <1>4, <1>5, <1>6, <1>7, <1>8 DEF DevInv, Implements, Device!dvars

(* The format is reached with no more bad blocks than faults can explain.  *)
LEMMA FewBadReached ==
  ASSUME TypeInv, TypeInv', WholeMarks, Whole, DevInv, Grows, Next, crashes' = crashes,
         pc \in FormatPcs, ~FormatEraseUnmarked, ~FormatUnnumbered
  PROVE  FewBadYet' /\ (valid < MinBlocks => FewBad')
<1>1. ASSUME valid < MinBlocks PROVE FewBad'
  BY <1>1, FewBadNext DEF DevInv, FewBadYet, FormatPcs, TestPcs
<1>2. ASSUME ~(valid < MinBlocks) PROVE ~(valid' < MinBlocks)
  <2>1. PICK v \in Nat, w \in Nat, m \in Nat : v = valid /\ w = valid' /\ m = MinBlocks
    BY FTLAssumption, BlkNat DEF TypeInv, TypeOK, RamType
  <2>2. v >= m
    BY <1>2, <2>1
  <2>3. w >= v
    BY <2>1, <2>2 DEF Grows, DevInv
  <2> QED
    BY <2>1, <2>2, <2>3
<1> QED
  BY <1>1, <1>2 DEF FewBadYet

LEMMA DevStep ==
  ASSUME Reliable, TypeInv, Whole, LutInv, CapOrLost, DevInv, Next
  PROVE  lost' \/ (DevInv' /\ Implements)
<1>0. /\ Odd = {} /\ "merge" \notin FaultOps /\ "erase" \notin FaultOps
      /\ MarksWork /\ EnoughBlocks /\ WholeMarks
      /\ ~FormatEraseUnmarked /\ ~FormatUnnumbered
  <2>1. WholeMarks /\ ErasesMarked
    BY DEF Reliable, WholeMarks, ErasesMarked
  <2> QED
    BY <2>1, FormatMarks, FormatNumbers DEF Reliable, MarksWork
<1>1. TypeInv' /\ Grows
  BY NextType, CapNext
<1>2. ~Crash
  BY DEF Reliable, Crash, TypeInv, TypeOK, EnvType
<1>3. CASE CallWrite \/ CallRead \/ Reinit \/ Unmapped \/ ReadTimeout \/ ReadRun
  BY <1>1, <1>3, DevCall, DevReinit, DevFail, DevReadRun
<1>4. CASE WriteDirect \/ Mark \/ WriteMove \/ Find
  BY <1>0, <1>1, <1>4, DevWriteDirect, DevMark, DevWriteMove, DevFind
<1>5. CASE CopyPage \/ Condemn \/ MarkCopy
  BY <1>0, <1>1, <1>5, DevCopyPage, DevCondemn, DevMarkCopy
<1>6. CASE EraseSource \/ FixLUT
  BY <1>0, <1>1, <1>6, DevEraseSource, DevFixLUT
<1>7. CASE CompareFF \/ Compare00 \/ EraseTested \/ CondemnSource
  BY <1>0, <1>1, <1>7, DevTest, DevEraseTested, DevCondemnSource
<1>8. CASE Boot
  <2>1. pc \in FormatPcs /\ crashes' = crashes
    BY <1>8 DEF Boot, FormatPcs, env
  <2>2. FewBadYet'
    BY <1>0, <1>1, <1>8, <2>1, FewBadReached DEF Next, Step, FormatStep
  <2> QED
    BY <1>1, <1>8, <2>2, DevBoot
<1>9. CASE FormatErase \/ FormatTag
  <2>1. pc \in {"fmtErase", "fmtTag"} /\ crashes' = crashes
    BY <1>9 DEF FormatErase, FormatTag, env
  <2>2. pc \in FormatPcs /\ valid < MinBlocks
    BY <2>1 DEF FormatPcs, DevInv, Serviceable
  <2>3. FewBad'
    BY <1>0, <1>1, <2>1, <2>2, FewBadReached
  <2> QED
    BY <1>0, <1>1, <1>9, <2>3, DevFormatErase, DevFormatTag
<1>10. CASE Flip
  BY <1>1, <1>10, DevFlip
<1> QED
  BY <1>0, <1>2, <1>3, <1>4, <1>5, <1>6, <1>7, <1>8, <1>9, <1>10
  DEF Next, Call, Step, WriteStep, ReadStep, CopyStep, FormatStep

LEMMA DevNext ==
  ASSUME Reliable
  PROVE  TypeInv /\ Whole /\ LutInv /\ CapOrLost /\ (lost \/ DevInv) /\ [Next]_vars
           => (lost \/ DevInv)' /\ (lost' \/ Implements)
<1> SUFFICES ASSUME TypeInv, Whole, LutInv, CapOrLost, lost \/ DevInv, [Next]_vars
             PROVE  (lost \/ DevInv)' /\ (lost' \/ Implements)
  OBVIOUS
<1>1. CASE Next /\ lost
  BY <1>1, LostStays DEF TypeInv
<1>2. CASE Next /\ DevInv
  BY <1>2, DevStep
<1>3. CASE UNCHANGED vars
  <2>1. lost' = lost
    BY <1>3 DEF vars
  <2>2. DevInv => DevInv' /\ Implements
    BY <1>3, DevStutter
  <2> QED
    BY <2>1, <2>2
<1> QED
  BY <1>1, <1>2, <1>3

LEMMA DevInit == Init => DevInv /\ Device!DInit
<1> SUFFICES ASSUME Init PROVE DevInv /\ Device!DInit
  OBVIOUS
<1>0. pc = "boot" /\ ~lost /\ cell = [b \in Blk |-> Blank] /\ valid = 0 /\ req = NoReq
  BY DEF Init
<1>1. Virgin /\ TypeInv
  BY <1>0, InitType DEF Virgin, BlankAt, Blank
<1>2. Untagged
  <2>1. PICK bad \in FactoryBad :
          tag = [b \in Blk |-> IF b \in bad THEN BadTag ELSE FreshTag]
    BY DEF Init
  <2> QED
    BY <2>1 DEF Untagged, FreshTag, BadTag
<1>3. Blanked /\ Serviceable
  BY <1>0, <1>1, <1>2 DEF Blanked, Virgin, Serviceable, FormatPcs
<1>4. Copying /\ Tested /\ Faulted /\ Formatting /\ Numbering /\ Ok
  BY <1>0 DEF Copying, CopyPcs, DestPcs, Tested, TestPcs, Faulted, Formatting, Numbering,
              Ok, LoopPcs
<1>5. FewBadYet
  BY FewBadInit DEF FewBadYet
<1>6. Disk = [s \in Sectors |-> FF]
  <2>1. \A s \in Sectors : Disk[s] = FF
    BY <1>1, VirginDisk
  <2>2. Disk \in [Sectors -> Stored]
    BY <1>1, DiskType
  <2>3. PICK d : d = Disk
    OBVIOUS
  <2>4. d = [s \in Sectors |-> FF]
    BY <2>1, <2>2, <2>3
  <2> QED
    BY <2>3, <2>4
<1>7. Job = Device!NoJob /\ Reply = Device!Pending
  <2>1. ~Serving /\ req.op = "none"
    BY <1>0 DEF Serving, NoReq
  <2> QED
    BY <2>1, JobIs DEF Reply, Device!Pending
<1> QED
  BY <1>0, <1>3, <1>4, <1>5, <1>6, <1>7 DEF DevInv, Device!DInit

(***************************************************************************)
(* For every geometry, request length and number of faults and flipped     *)
(* bits within Reliable, ftl.c implements the drive that FatFs expects of  *)
(* disk_read and disk_write (BlockDevice): FTL_WriteSectors changes no     *)
(* sector but those it was asked to change and has stored exactly the      *)
(* caller's data when it returns 0, FTL_ReadSectors returns what the       *)
(* sectors hold, and FTL_Init, FTL_Format, a block that is moved, a failed *)
(* copy, a repair and the test of a suspect block are not seen from        *)
(* outside, until a repair finds no spare block or a format too few.       *)
(***************************************************************************)
THEOREM BlockDeviceImplemented == ASSUME Reliable PROVE Spec => IsBlockDevice
<1>0. Spec => []LutInv
  BY LutInvariance DEF Reliable, WholeMarks
<1>1. Init => CapOrLost
  BY BlkNat DEF Init, CapOrLost, CapInv, FormatPcs
<1>2. Spec => []CapOrLost
  BY <1>0, <1>1, CapNext, TypeInvariance, PTL DEF Spec
<1>3. Init => (lost \/ DevInv) /\ Device!DInit
  BY DevInit
<1>4. lost' \/ Implements => [~lost' => Device!DNext]_(Device!dvars)
  BY DEF Implements
<1>5. Spec => [](lost \/ DevInv)
  BY <1>0, <1>2, <1>3, DevNext, TypeInvariance, WholeInvariance, PTL DEF Spec
<1>6. Spec => [][~lost' => Device!DNext]_(Device!dvars)
  BY <1>0, <1>2, <1>4, <1>5, DevNext, TypeInvariance, WholeInvariance, PTL DEF Spec
<1> QED
  BY <1>3, <1>6, PTL DEF Spec, IsBlockDevice

-----------------------------------------------------------------------------
(* The inductive invariant behind UsedIsMarked.                            *)

Programmed(b) == \E p \in Page, s \in Sec : cell[b][p][s] # BlankCell

(* No free block to move b to, and none to come from the move under way.   *)
Stuck(b) == \A c \in Blk : Free(c) \/ (pc \in DestPcs \cup TestPcs /\ c = cp.src)
                             => c % 2 # b % 2

(* The mark is still to come, or goes with the copy that its failure, or   *)
(* the program's, has started.                                             *)
Excused(b) == \/ pc = "mark" /\ b = PBN
              \/ pc \in CopyPcs \ {"fixlut"} /\ b = cp.src /\ faults >= 1
              \/ pc \in {"copy", "condemn", "used"} /\ b = cp.dst

(* Programmed, or marked by this call already, as far as markdpbn knows.   *)
Due(b) == /\ ~tag[b].bad /\ tag[b].lbn # NB
          /\ Programmed(b) \/ (pc \in LoopPcs /\ b = markd)

Marked == pc \notin {"fmtErase", "fmtTag"} =>
            \A b \in Blk : Due(b) => tag[b].used \/ Stuck(b) \/ Excused(b)

Cleared ==
    /\ pc = "fmtErase" => \A b \in Blk : b < fmt.i /\ ~tag[b].bad => ~Programmed(b)
    /\ pc = "fmtTag" => \A b \in Blk : ~tag[b].bad => ~Programmed(b)

(* A copy carries the mark of its source along, unless a fault was spent.  *)
SourceMarked == pc \in CopyPcs \ {"fixlut"} =>
                  tag[cp.src].used \/ faults >= 1 \/ (pc = "find" /\ Full(cp.src))

CopyMarked == (pc = "copy" /\ cp.page # 0) \/ pc = "used" =>
                (tag[cp.src].used => tag[cp.dst].used)

(* So has a copy that failed with the first fault, if it has a number yet.  *)
FailedMarked == pc = "condemn" =>
                  tag[cp.dst].used \/ tag[cp.dst].lbn = NB \/ faults >= 2

MarkInv == /\ Marked /\ Cleared /\ SourceMarked /\ CopyMarked
           /\ FailedMarked /\ Faulted

-----------------------------------------------------------------------------
LEMMA StuckStays ==
  ASSUME \A c \in Blk : Free(c)' => Free(c) \/ (pc \in DestPcs \cup TestPcs /\ c = cp.src),
         pc' \in DestPcs \cup TestPcs => pc \in DestPcs \cup TestPcs /\ cp'.src = cp.src,
         NEW b, Stuck(b)
  PROVE  Stuck(b)'
  BY DEF Stuck

(* The steps by which no other block becomes free and none loses its mark. *)
LEMMA MarkedStays ==
  ASSUME Marked, pc \notin {"fmtErase", "fmtTag"},
         \A c \in Blk : Free(c)' => Free(c) \/ (pc \in DestPcs \cup TestPcs /\ c = cp.src),
         pc' \in DestPcs \cup TestPcs => pc \in DestPcs \cup TestPcs /\ cp'.src = cp.src,
         \A b \in Blk : Due(b)' => \/ tag'[b].used \/ Excused(b)' \/ Stuck(b)'
                                   \/ /\ Due(b) /\ (tag[b].used => tag'[b].used)
                                      /\ Excused(b) => Excused(b)'
  PROVE  Marked'
<1>1. ASSUME NEW b \in Blk, Due(b)' PROVE tag'[b].used \/ Stuck(b)' \/ Excused(b)'
  <2>1. CASE /\ Due(b) /\ (tag[b].used => tag'[b].used)
             /\ Excused(b) => Excused(b)'
    <3>1. tag[b].used \/ Stuck(b) \/ Excused(b)
      BY <2>1 DEF Marked
    <3>2. Stuck(b) => Stuck(b)'
      BY StuckStays
    <3> QED
      BY <2>1, <3>1, <3>2
  <2> QED
    BY <1>1, <2>1
<1> QED
  BY <1>1 DEF Marked

(* Steps of the loops that leave the flash alone.                          *)
LEMMA QuietMarks ==
  ASSUME MarkInv, UNCHANGED flash, pc \in {"idle", "write", "read"},
         pc' \in {"idle", "boot", "write", "read", "find"},
         pc' \in LoopPcs => markd' = NB \/ (pc \in LoopPcs /\ markd' = markd),
         pc' = "find" => cp'.src \in Blk /\ Due(cp'.src)
  PROVE  MarkInv'
<1>1. /\ \A b : ~Excused(b)
      /\ pc \notin DestPcs \cup TestPcs /\ pc' \notin DestPcs \cup TestPcs
      /\ pc \notin {"fmtErase", "fmtTag"}
  BY DEF Excused, CopyPcs, DestPcs, TestPcs
<1>2. \A b \in Blk : Due(b)' => Due(b)
  BY BlkNat DEF Due, Programmed, flash
<1>3. \A c : Free(c)' => Free(c)
  BY DEF Free, flash
<1>4. Marked'
  BY <1>1, <1>2, <1>3, MarkedStays DEF MarkInv, flash
<1>5. ASSUME pc' = "find" PROVE tag'[cp'.src].used \/ Full(cp.src)'
  <2>1. PICK b \in Blk : b = cp'.src /\ Due(b)
    BY <1>5
  <2>2. tag[b].used \/ Stuck(b)
    BY <1>1, <2>1 DEF MarkInv, Marked
  <2>3. Stuck(b) => Full(cp.src)'
    BY <1>3, <2>1 DEF Stuck, Full
  <2> QED
    BY <2>1, <2>2, <2>3 DEF flash
<1>6. SourceMarked'
  BY <1>5 DEF SourceMarked, CopyPcs
<1> QED
  BY <1>4, <1>6 DEF MarkInv, Cleared, CopyMarked, FailedMarked, Faulted

LEMMA RunSec ==
  ASSUME TypeInv, pc \in LoopPcs
  PROVE  Run \subseteq Sec
<1>1. SecNo \in Sec /\ Left \in Nat /\ PageRun \in 1 .. Left
  BY Addressing
<1> QED
  BY <1>1, GeometryAssumption DEF Run, PageRun, Least, Sec

LEMMA MarksCall ==
  ASSUME MarkInv, CallWrite \/ CallRead \/ Reinit \/ Unmapped \/ ReadTimeout
  PROVE  MarkInv'
<1>1. /\ UNCHANGED flash /\ pc \in {"idle", "write", "read"}
      /\ pc' \in {"idle", "boot", "write", "read"}
      /\ pc' \in LoopPcs => markd' = NB
  BY DEF CallWrite, CallRead, Reinit, Unmapped, ReadTimeout, Return, LoopPcs, CopyPcs, TestPcs
<1> QED
  BY <1>1, QuietMarks

(* A block is moved because it holds something.                            *)
LEMMA MarksMove ==
  ASSUME TypeInv, LutInv, ~lost, MarkInv, WriteMove \/ ReadRun
  PROVE  MarkInv'
<1>0. /\ pc \in {"write", "read"} /\ PBN # NB /\ pc \in LoopPcs /\ UNCHANGED flash
      /\ req.op \in {"write", "read"}
  BY InCall DEF WriteMove, ReadRun, LoopPcs, flash
<1>1. PBN \in Blk /\ ~tag[PBN].bad /\ tag[PBN].lbn # NB
  BY <1>0, LoopBlock DEF Tagged
<1>2. /\ pc' \in {"idle", "write", "read", "find"}
      /\ pc' # "idle" => markd' = markd
      /\ pc' = "find" => cp'.src = PBN
  BY <1>0 DEF WriteMove, ReadRun, StartCopy, Advance, Return, Frame
<1>3. ASSUME pc' = "find" PROVE Programmed(PBN)
  <2>1. PageNo \in Page /\ Run \subseteq Sec
    BY <1>0, Addressing, RunSec
  <2>2. CASE WriteMove
    <3>1. PICK s \in Run : ~LooksBlank(cell[PBN][PageNo][s])
      BY <2>2 DEF WriteMove
    <3>2. LooksBlank(BlankCell)
      BY DEF LooksBlank, BlankCell
    <3> QED
      BY <2>1, <3>1, <3>2 DEF Programmed
  <2>3. CASE ReadRun
    <3>1. NeedsRepair(cell[PBN][PageNo])
      BY <1>0, <1>3, <2>3 DEF ReadRun, Advance, Return
    <3>2. PICK s \in Run : Decode(cell[PBN][PageNo][s]).sta = "ecc1"
      BY <3>1, StatusOfOne DEF NeedsRepair, Run
    <3> QED
      BY <2>1, <3>2, BlankDecode DEF Programmed
  <2> QED
    BY <2>2, <2>3
<1>4. pc' = "find" => cp'.src \in Blk /\ Due(cp'.src)
  BY <1>1, <1>2, <1>3 DEF Due
<1>5. pc' \in LoopPcs => pc \in LoopPcs /\ markd' = markd
  BY <1>0, <1>2 DEF LoopPcs, CopyPcs, TestPcs
<1> QED
  BY <1>0, <1>2, <1>4, <1>5, QuietMarks

LEMMA MarksFlip == ASSUME TypeInv, MarkInv, Flip PROVE MarkInv'
<1>0. pc = "idle" /\ pc' = "idle" /\ tag' = tag
  BY DEF Flip
<1>1. \A b \in Blk : Programmed(b)' => Programmed(b)
  <2>1. PICK b \in Blk, p \in Page, s \in Sec :
          /\ cell[b][p][s].ecc = cell[b][p][s].val
          /\ \A c \in Blk, q \in Page, t \in Sec :
               c # b \/ q # p \/ t # s => cell'[c][q][t] = cell[c][q][t]
    BY FlipStep
  <2>2. cell[b][p][s] # BlankCell
    BY <2>1, ValueAssumption DEF BlankCell
  <2> QED
    BY <2>1, <2>2 DEF Programmed
<1>2. \A b \in Blk : (Due(b)' => Due(b)) /\ ~Excused(b)
  BY <1>0, <1>1 DEF Due, Excused, CopyPcs, LoopPcs, TestPcs
<1>3. Marked'
  BY <1>0, <1>2, MarkedStays DEF MarkInv, Free, DestPcs, TestPcs
<1> QED
  BY <1>0, <1>3 DEF MarkInv, Cleared, SourceMarked, CopyMarked, FailedMarked, Faulted, CopyPcs

LEMMA MarksWriteDirect ==
  ASSUME TypeInv, LutInv, ~lost, MarkInv, WriteDirect
  PROVE  MarkInv'
<1>0. /\ pc = "write" /\ PBN # NB /\ pc \in LoopPcs /\ req.op = "write"
      /\ UNCHANGED <<tag, lut, valid>> /\ Frame(markd, buf) /\ PageNo \in Page
  BY Addressing DEF WriteDirect, LoopPcs, ram, TypeInv, Shape
<1>1. PBN \in Blk /\ ~tag[PBN].bad /\ tag[PBN].lbn # NB
  BY <1>0, LoopBlock DEF Tagged
<1>2. \/ pc' = "mark" /\ UNCHANGED <<done, cp, rc>>
      \/ pc' \in {"write", "idle"} /\ markd = PBN
      \/ pc' = "find" /\ cp'.src = PBN /\ faults' = faults + 1
  BY <1>0 DEF WriteDirect, Advance, Return, StartCopy, FaultAt
<1>3. \A b \in Blk : b # PBN => (Programmed(b)' => Programmed(b))
  <2>1. \A b \in Blk : b # PBN => cell'[b] = cell[b]
    BY <1>0, <1>1 DEF WriteDirect, TypeInv, TypeOK, FlashType
  <2> QED
    BY <2>1 DEF Programmed
<1>4. pc' # "idle" => markd' = markd /\ req' = req
  BY <1>0 DEF Frame
<1>5. ASSUME NEW b \in Blk, Due(b)', ~Excused(b)' PROVE Due(b) /\ ~Excused(b)
  <2>1. ~Excused(b)
    BY <1>0 DEF Excused, CopyPcs
  <2>2. CASE b # PBN
    <3>1. pc' \in LoopPcs => markd' = markd
      BY <1>2, <1>4 DEF LoopPcs, CopyPcs, TestPcs
    <3> QED
      BY <1>0, <1>3, <1>5, <2>1, <2>2, <3>1 DEF Due
  <2>3. CASE b = PBN
    <3>1. pc' # "mark"
      <4>1. pc' = "mark" => PBN' = PBN
        BY <1>0, <1>2, <1>4, SamePlace DEF PBN, LBNToPBN
      <4> QED
        BY <1>5, <2>3, <4>1 DEF Excused
    <3>2. pc' # "find"
      <4>1. faults \in Nat
        BY DEF TypeInv, TypeOK, EnvType
      <4>2. pc' = "find" => faults' >= 1
        BY <1>2, <4>1
      <4> QED
        BY <1>2, <1>5, <2>3, <4>2 DEF Excused, CopyPcs
    <3>3. markd = PBN
      BY <1>2, <3>1, <3>2
    <3> QED
      BY <1>0, <1>1, <2>1, <2>3, <3>3 DEF Due
  <2> QED
    BY <2>2, <2>3
<1>6. Marked'
  <2>1. pc \notin DestPcs \cup TestPcs /\ pc' \notin DestPcs \cup TestPcs
    BY <1>0, <1>2 DEF DestPcs, TestPcs
  <2> QED
    BY <1>0, <1>5, <2>1, MarkedStays DEF MarkInv, Free
<1>7. SourceMarked'
  <2>1. faults \in Nat
    BY DEF TypeInv, TypeOK, EnvType
  <2>2. pc' = "find" => faults' >= 1
    BY <1>2, <2>1
  <2> QED
    BY <1>2, <2>2 DEF SourceMarked, CopyPcs
<1> QED
  BY <1>2, <1>6, <1>7 DEF MarkInv, Cleared, CopyMarked, FailedMarked, Faulted

LEMMA MarksMark ==
  ASSUME TypeInv, LutInv, ~lost, MarkInv, Mark
  PROVE  MarkInv'
<1>0. /\ pc = "mark" /\ PBN \in Blk /\ pc \in LoopPcs /\ req.op = "write"
      /\ UNCHANGED cell /\ Frame(PBN, buf) /\ tag \in [Blk -> Tag] /\ faults \in Nat
  BY DEF Mark, LoopPcs, TypeInv, TypeOK, FlashType, EnvType, Shape
<1>1. \/ tag' = [tag EXCEPT ![PBN].used = TRUE] /\ pc' \in {"write", "idle"}
      \/ /\ tag' \in {tag, [tag EXCEPT ![PBN].used = TRUE]}
         /\ pc' = "find" /\ cp'.src = PBN /\ faults' = faults + 1
  BY <1>0 DEF Mark, Advance, Return, StartCopy, FaultAt
<1>2. /\ \A b \in Blk : b # PBN => tag'[b] = tag[b]
      /\ tag'[PBN] = tag[PBN] \/ tag'[PBN].used
  BY <1>0, <1>1 DEF Tag
<1>3. pc' # "idle" => markd' = PBN
  BY <1>0 DEF Frame
<1>4. pc' = "find" => faults' >= 1
  BY <1>0, <1>1
<1>5. ASSUME NEW b \in Blk, Due(b)' PROVE tag'[b].used \/ Excused(b)' \/ (Due(b) /\ ~Excused(b) /\ tag'[b] = tag[b])
  <2>1. CASE b = PBN
    <3>1. pc' = "find" => Excused(b)'
      BY <1>1, <1>4, <2>1 DEF Excused, CopyPcs
    <3>2. pc' # "find" => tag'[b].used
      BY <1>0, <1>1, <2>1 DEF Tag
    <3> QED
      BY <3>1, <3>2
  <2>2. CASE b # PBN
    <3>1. pc' \in LoopPcs => markd' = PBN
      BY <1>1, <1>3 DEF LoopPcs, CopyPcs, TestPcs
    <3>2. Programmed(b)
      BY <1>0, <1>5, <2>2, <3>1 DEF Due, Programmed
    <3> QED
      BY <1>0, <1>2, <1>5, <2>2, <3>2 DEF Due, Excused, CopyPcs
  <2> QED
    BY <2>1, <2>2
<1>6. \A c \in Blk : Free(c)' => Free(c)
  <2>1. ~FreshTag.used
    BY DEF FreshTag
  <2> QED
    BY <1>2, <2>1 DEF Free
<1>7. Marked'
  <2>1. pc \notin DestPcs \cup TestPcs /\ pc' \notin DestPcs \cup TestPcs
    BY <1>0, <1>1 DEF DestPcs, TestPcs
  <2> QED
    BY <1>0, <1>5, <1>6, <2>1, MarkedStays DEF MarkInv
<1>8. SourceMarked'
  BY <1>1, <1>4 DEF SourceMarked, CopyPcs
<1> QED
  BY <1>1, <1>7, <1>8 DEF MarkInv, Cleared, CopyMarked, FailedMarked, Faulted

-----------------------------------------------------------------------------
(* The copy.                                                               *)

LEMMA MarksFind ==
  ASSUME TypeInv, WholeMarks, Whole, LutInv, ~lost, MarkInv, Find
  PROVE  lost' \/ MarkInv'
<1>0. /\ pc = "find" /\ pc \in LoopPcs /\ cp.src \in Blk /\ UNCHANGED <<flash, faults>>
      /\ Frame(markd, buf) /\ cp \in Copies /\ req.op \in {"write", "read"}
  BY InCall DEF Find, CopyPcs, LoopPcs, TypeInv, TypeOK, CallType, Shape, env
<1>1. CASE FindBlock = NB /\ req.op = "read"
  BY <1>1, Zenon DEF Find
<1>2. CASE FindBlock = NB /\ req.op = "write"
  <2>1. pc' = "idle" /\ Full(cp.src)
    BY <1>2, FindIs DEF Find, Return
  <2>2. ASSUME NEW b \in Blk, Due(b)' PROVE tag'[b].used \/ Stuck(b)'
    <3>1. Due(b)
      BY <1>0, <2>1, <2>2 DEF Due, Programmed, LoopPcs, CopyPcs, TestPcs, flash
    <3>2. tag[b].used \/ Stuck(b) \/ b = cp.src
      BY <1>0, <3>1 DEF MarkInv, Marked, Excused
    <3>3. Full(b) => Stuck(b)'
      BY <1>0, <2>1 DEF Full, Stuck, Free, flash, DestPcs, TestPcs
    <3>4. Stuck(b) => Full(b)
      BY DEF Stuck, Full
    <3> QED
      BY <1>0, <2>1, <3>2, <3>3, <3>4 DEF flash
  <2> QED
    BY <2>1, <2>2 DEF MarkInv, Marked, Cleared, SourceMarked, CopyMarked, FailedMarked, Faulted, CopyPcs
<1>3. CASE FindBlock # NB
  <2>1. PICK d \in Blk : d = FindBlock /\ Free(d) /\ d % 2 = cp.src % 2
    BY <1>3, FindIs
  <2>2. pc' = "copy" /\ cp' = [cp EXCEPT !.dst = d, !.page = 0]
    BY <1>3, <2>1, Zenon DEF Find
  <2>3. cp'.src = cp.src /\ cp'.page = 0 /\ markd' = markd
    BY <1>0, <2>2 DEF Copies, Frame
  <2>4. ~Full(cp.src) /\ \A b : Stuck(b) => Stuck(b)'
    BY <1>0, <2>1, <2>2, <2>3 DEF Full, Stuck, Free, flash
  <2>5. ASSUME NEW b \in Blk, Due(b)' PROVE tag'[b].used \/ Stuck(b)' \/ Excused(b)'
    <3>1. Due(b)
      BY <1>0, <2>3, <2>5 DEF Due, Programmed, flash
    <3>2. Excused(b) => Excused(b)'
      BY <1>0, <2>2, <2>3 DEF Excused, CopyPcs
    <3>3. tag[b].used \/ Stuck(b) \/ Excused(b)
      BY <1>0, <3>1 DEF MarkInv, Marked
    <3> QED
      BY <1>0, <2>4, <3>2, <3>3 DEF flash
  <2>6. SourceMarked'
    BY <1>0, <2>2, <2>3, <2>4 DEF MarkInv, SourceMarked, CopyPcs, flash
  <2> QED
    BY <2>2, <2>3, <2>5, <2>6 DEF MarkInv, Marked, Cleared, CopyMarked, FailedMarked, Faulted
<1> QED
  BY <1>0, <1>1, <1>2, <1>3

(* Where a copy is, and what of the flash it leaves alone.                 *)
LEMMA CopyBlocks ==
  ASSUME TypeInv, LutInv, ~lost, pc \in CopyPcs
  PROVE  /\ cp.src \in Blk /\ cp \in Copies /\ pc \in LoopPcs
         /\ pc \in DestPcs => cp.dst \in Blk /\ cp.dst # cp.src
         /\ pc # "fixlut" => ~tag[cp.src].bad /\ tag[cp.src].lbn # NB
         /\ tag \in [Blk -> Tag] /\ faults \in Nat
  BY DEF TypeInv, TypeOK, FlashType, CallType, EnvType, Shape, LutInv, CopyInv, LoopPcs

LEMMA MarksCopyPage ==
  ASSUME TypeInv, LutInv, ~lost, MarkInv, CopyPage
  PROVE  MarkInv'
<1>0. /\ pc = "copy" /\ pc \in LoopPcs /\ faults \in Nat /\ tag \in [Blk -> Tag]
      /\ cp.src \in Blk /\ cp.dst \in Blk /\ cp.dst # cp.src /\ cp.page \in Page
      /\ ~tag[cp.src].bad /\ tag[cp.src].lbn # NB
      /\ UNCHANGED markd
  BY CopyBlocks DEF CopyPage, CopyPcs, DestPcs, TypeInv, Shape
<1>1. /\ Consumed \in Copies
      /\ Consumed.src = cp.src /\ Consumed.dst = cp.dst /\ Consumed.page = cp.page
  BY <1>0, ConsumedType
<1>2. cp'.src = cp.src /\ cp'.dst = cp.dst
  <2>1. cp' = Consumed \/ cp' = [Consumed EXCEPT !.page = @ + 1]
    BY DEF CopyPage
  <2> HIDE DEF Consumed
  <2> QED
    BY <1>1, <2>1 DEF Copies
<1>3. \/ /\ PageCopied /\ TagCopied /\ pc' \in {"copy", "used"} /\ faults' = faults
      \/ /\ (PageCopied /\ TagCopied) \/ UNCHANGED flash
         /\ pc' = "condemn" /\ faults' = faults + 1
  BY Zenon DEF CopyPage, FaultAt
<1>4. \A b \in Blk \ {cp.dst} : cell'[b] = cell[b] /\ tag'[b] = tag[b]
  <2>1. PageCopied => \A b \in Blk \ {cp.dst} : cell'[b] = cell[b]
    <3>1. cell \in [Blk -> [Page -> [Sec -> Cell]]]
      BY DEF TypeInv, TypeOK, FlashType
    <3> QED
      BY <3>1, Zenon DEF PageCopied
  <2>2. TagCopied => \A b \in Blk \ {cp.dst} : tag'[b] = tag[b]
    BY <1>0 DEF TagCopied
  <2> QED
    BY <1>3, <2>1, <2>2 DEF flash
<1>5. /\ TagCopied /\ cp.page = 0 => /\ tag'[cp.dst] # FreshTag
                                     /\ tag[cp.src].used => tag'[cp.dst].used
      /\ UNCHANGED flash \/ (TagCopied /\ cp.page # 0) => tag' = tag
  <2>1. TagCopied /\ cp.page = 0 => tag'[cp.dst] = AndTag(tag[cp.dst], tag[cp.src])
    BY <1>0 DEF TagCopied
  <2>2. AndTag(tag[cp.dst], tag[cp.src]).lbn # NB
    BY <1>0 DEF AndTag
  <2>3. tag[cp.src].used => AndTag(tag[cp.dst], tag[cp.src]).used
    BY <1>0, Zenon DEF AndTag
  <2>4. UNCHANGED flash \/ (TagCopied /\ cp.page # 0) => tag' = tag
    BY DEF TagCopied, flash
  <2> QED
    BY <2>1, <2>2, <2>3, <2>4 DEF FreshTag
<1>6. \A b \in Blk : Free(b)' => Free(b)
  BY <1>3, <1>4, <1>5 DEF Free
<1>7. ASSUME NEW b \in Blk, Due(b)'
      PROVE  Excused(b)' \/ (Due(b) /\ tag'[b] = tag[b] /\ (Excused(b) => Excused(b)'))
  <2>1. b = cp.dst => Excused(b)'
    BY <1>2, <1>3 DEF Excused
  <2>2. b # cp.dst => Due(b) /\ tag'[b] = tag[b]
    BY <1>0, <1>4, <1>7 DEF Due, Programmed
  <2>3. b # cp.dst => (Excused(b) => Excused(b)')
    BY <1>0, <1>2, <1>3 DEF Excused, CopyPcs
  <2> QED
    BY <2>1, <2>2, <2>3
<1>8. Marked'
  <2>1. pc \in DestPcs /\ pc \notin {"fmtErase", "fmtTag"}
    BY <1>0 DEF DestPcs
  <2> QED
    BY <1>2, <1>6, <1>7, <2>1, MarkedStays DEF MarkInv
<1>9. SourceMarked'
  <2>1. tag'[cp.src] = tag[cp.src]
    BY <1>0, <1>4
  <2>2. tag[cp.src].used \/ faults >= 1
    BY <1>0 DEF MarkInv, SourceMarked, CopyPcs
  <2> QED
    BY <1>0, <1>2, <1>3, <2>1, <2>2 DEF SourceMarked
<1>10. CopyMarked'
  <2>1. ASSUME pc' \in {"copy", "used"} PROVE tag'[cp.src].used => tag'[cp.dst].used
    BY <1>0, <1>3, <1>4, <1>5, <2>1 DEF MarkInv, CopyMarked
  <2> QED
    BY <1>2, <2>1 DEF CopyMarked
<1>11. ASSUME pc' = "condemn", faults' < 2 PROVE tag'[cp.dst].used \/ tag'[cp.dst].lbn = NB
  <2>1. faults = 0 /\ tag[cp.src].used
    BY <1>0, <1>3, <1>11 DEF MarkInv, SourceMarked, CopyPcs
  <2>2. CASE cp.page = 0 /\ tag' = tag
    <3>1. Free(cp.dst)
      BY <1>0, <2>2 DEF LutInv, CopyInv
    <3> QED
      BY <2>2, <3>1 DEF Free, FreshTag
  <2>3. CASE cp.page # 0
    BY <1>0, <1>3, <1>5, <2>1, <2>3 DEF MarkInv, CopyMarked
  <2> QED
    BY <1>3, <1>5, <2>1, <2>2, <2>3
<1>12. Faulted' /\ Cleared' /\ FailedMarked'
  BY <1>0, <1>2, <1>3, <1>11 DEF Faulted, Cleared, FailedMarked
<1> QED
  BY <1>8, <1>9, <1>10, <1>12 DEF MarkInv

(* A condemned copy is out, or it is marked.                               *)
LEMMA MarksCondemn ==
  ASSUME MarksReliable, TypeInv, Whole, LutInv, ~lost, MarkInv, Condemn
  PROVE  MarkInv'
<1>0. /\ pc = "condemn" /\ pc' = "find" /\ pc \in LoopPcs /\ pc \in DestPcs
      /\ faults \in Nat /\ faults >= 1 /\ tag \in [Blk -> Tag]
      /\ cp.src \in Blk /\ cp.dst \in Blk /\ cp.dst # cp.src
      /\ UNCHANGED <<cell, markd, cp>>
  BY CopyBlocks DEF Condemn, CopyPcs, DestPcs, MarkInv, Faulted
<1>1. \/ tag' = [tag EXCEPT ![cp.dst] = BadTag] /\ faults' = faults
      \/ /\ tag' = tag /\ faults' = faults + 1
         /\ tag[cp.dst].used \/ tag[cp.dst].lbn = NB
  <2>1. FaultAt("badmark") => tag[cp.dst].used \/ tag[cp.dst].lbn = NB
    BY <1>0, FTLAssumption DEF MarksReliable, FaultAt, MarkInv, FailedMarked
  <2>2. \/ tag' = [tag EXCEPT ![cp.dst] = BadTag] /\ UNCHANGED faults
        \/ FaultAt("badmark") /\ UNCHANGED tag
    BY <1>0, MarkIsWhole DEF Condemn, MarksReliable
  <2> QED
    BY <2>1, <2>2 DEF FaultAt
<1>2. /\ \A b \in Blk \ {cp.dst} : tag'[b] = tag[b]
      /\ tag' = tag \/ tag'[cp.dst].bad
      /\ tag'[cp.dst].bad \/ tag'[cp.dst].used \/ tag'[cp.dst].lbn = NB
  BY <1>0, <1>1 DEF BadTag
<1>3. \A b \in Blk : Free(b)' => Free(b)
  BY <1>2 DEF Free, FreshTag
<1>4. ASSUME NEW b \in Blk, Due(b)', ~tag'[b].used
      PROVE  Due(b) /\ tag'[b] = tag[b] /\ (Excused(b) => Excused(b)')
  <2>1. b # cp.dst
    BY <1>2, <1>4 DEF Due
  <2>2. Due(b) /\ tag'[b] = tag[b]
    BY <1>0, <1>2, <1>4, <2>1 DEF Due, Programmed
  <2>3. Excused(b) => Excused(b)'
    BY <1>0, <1>1, <2>1 DEF Excused, CopyPcs
  <2> QED
    BY <2>2, <2>3
<1>5. Marked'
  <2>1. pc' \notin DestPcs \cup TestPcs /\ pc \notin {"fmtErase", "fmtTag"}
    BY <1>0 DEF DestPcs, TestPcs
  <2> QED
    BY <1>3, <1>4, <2>1, MarkedStays DEF MarkInv
<1>6. SourceMarked' /\ CopyMarked' /\ FailedMarked' /\ Faulted' /\ Cleared'
  BY <1>0, <1>1 DEF SourceMarked, CopyMarked, FailedMarked, Faulted, Cleared
<1> QED
  BY <1>5, <1>6 DEF MarkInv

LEMMA MarksMarkCopy ==
  ASSUME MarksReliable, TypeInv, LutInv, ~lost, MarkInv, MarkCopy
  PROVE  MarkInv'
<1>0. /\ pc = "used" /\ pc' = "erase" /\ pc \in LoopPcs /\ pc \in DestPcs
      /\ faults \in Nat /\ tag \in [Blk -> Tag]
      /\ cp.src \in Blk /\ cp.dst \in Blk /\ cp.dst # cp.src
      /\ UNCHANGED <<cell, markd, cp>>
  BY CopyBlocks DEF MarkCopy, CopyPcs, DestPcs
<1>1. tag[cp.src].used \/ faults >= 1
  BY <1>0 DEF MarkInv, SourceMarked, CopyPcs
<1>2. \/ tag' = [tag EXCEPT ![cp.dst].used = TRUE] /\ faults' = faults
      \/ tag' = tag /\ tag[cp.dst].used /\ faults' = faults + 1
  <2>1. ASSUME FaultAt("used"), UNCHANGED tag PROVE tag[cp.dst].used
    <3>1. faults = 0
      BY <1>0, <2>1, FTLAssumption DEF MarksReliable, FaultAt
    <3> QED
      BY <1>0, <1>1, <3>1 DEF MarkInv, CopyMarked
  <2> QED
    BY <2>1 DEF MarkCopy, FaultAt
<1>3. tag'[cp.dst].used /\ \A b \in Blk \ {cp.dst} : tag'[b] = tag[b]
  BY <1>0, <1>2 DEF Tag
<1>4. \A b \in Blk : Free(b)' => Free(b)
  BY <1>3 DEF Free, FreshTag
<1>5. ASSUME NEW b \in Blk, Due(b)', b # cp.dst
      PROVE  Due(b) /\ tag'[b] = tag[b] /\ (Excused(b) => Excused(b)')
  <2>1. Due(b) /\ tag'[b] = tag[b]
    BY <1>0, <1>3, <1>5 DEF Due, Programmed
  <2>2. Excused(b) => Excused(b)'
    BY <1>0, <1>2, <1>5 DEF Excused, CopyPcs
  <2> QED
    BY <2>1, <2>2
<1>6. Marked'
  <2>1. pc \notin {"fmtErase", "fmtTag"}
    BY <1>0
  <2> QED
    BY <1>0, <1>3, <1>4, <1>5, <2>1, MarkedStays DEF MarkInv
<1>7. SourceMarked' /\ CopyMarked' /\ FailedMarked' /\ Faulted' /\ Cleared'
  BY <1>0, <1>1, <1>2, <1>3 DEF SourceMarked, CopyMarked, FailedMarked, Faulted, Cleared
<1> QED
  BY <1>6, <1>7 DEF MarkInv

LEMMA MarksEraseSource ==
  ASSUME MarksReliable, TypeInv, LutInv, ~lost, MarkInv, EraseSource
  PROVE  MarkInv'
<1>0. /\ pc = "erase" /\ pc' = "fixlut" /\ pc \in LoopPcs /\ pc \in DestPcs
      /\ faults \in Nat /\ cp.src \in Blk /\ FlashType
      /\ UNCHANGED <<markd, cp>>
  BY CopyBlocks DEF EraseSource, CopyPcs, DestPcs, TypeInv, TypeOK
<1>1. \/ Erased(cp.src)
      \/ UNCHANGED flash /\ tag[cp.src].used
  <2>1. FaultAt("erase") => faults = 0
    BY <1>0, FTLAssumption DEF MarksReliable, FaultAt
  <2> QED
    BY <1>0, <2>1 DEF EraseSource, MarkInv, SourceMarked, CopyPcs
<1>2. /\ \A b \in Blk \ {cp.src} : tag'[b] = tag[b] /\ cell'[b] = cell[b]
      /\ tag'[cp.src] = FreshTag \/ tag'[cp.src].used
  BY <1>0, <1>1, ErasedIs DEF flash
<1>3. ASSUME NEW b \in Blk, Due(b)', ~tag'[b].used
      PROVE  Due(b) /\ tag'[b] = tag[b] /\ ~Excused(b)
  <2>1. b # cp.src
    BY <1>2, <1>3 DEF Due, FreshTag
  <2>2. Due(b) /\ tag'[b] = tag[b]
    BY <1>0, <1>2, <1>3, <2>1 DEF Due, Programmed
  <2> QED
    BY <1>0, <2>1, <2>2 DEF Excused
<1>4. Marked'
  <2>1. pc \notin {"fmtErase", "fmtTag"} /\ \A b \in Blk : Free(b)' => Free(b) \/ b = cp.src
    BY <1>0, <1>2 DEF Free
  <2> QED
    BY <1>0, <1>3, <2>1, MarkedStays DEF MarkInv
<1> QED
  BY <1>0, <1>4 DEF MarkInv, SourceMarked, CopyMarked, FailedMarked, Faulted, Cleared

LEMMA MarksFixLUT ==
  ASSUME TypeInv, MarkInv, FixLUT
  PROVE  MarkInv'
<1>0. /\ pc = "fixlut" /\ pc \in LoopPcs /\ pc \in DestPcs
      /\ UNCHANGED flash /\ Frame(markd, buf) /\ req.op \in {"write", "read"}
  BY InCall DEF FixLUT, LoopPcs, CopyPcs, DestPcs
<1>1. \/ pc' \in {"idle", "write", "read"}
      \/ pc' = "compareFF" /\ cp' = cp
  BY <1>0 DEF FixLUT, Advance, Return
<1>2. pc' # "idle" => markd' = markd
  BY <1>0 DEF Frame
<1>3. \A b \in Blk : (Due(b)' => Due(b)) /\ ~Excused(b) /\ tag'[b] = tag[b]
  BY <1>0, <1>1, <1>2 DEF Due, Programmed, Excused, flash, LoopPcs, CopyPcs, TestPcs
<1>4. \A b \in Blk : Free(b)' => Free(b)
  BY <1>0 DEF Free, flash
<1>5. Marked'
  <2>1. pc' \in DestPcs \cup TestPcs => cp'.src = cp.src
    BY <1>1 DEF DestPcs, TestPcs
  <2> QED
    BY <1>0, <1>3, <1>4, <2>1, MarkedStays DEF MarkInv
<1> QED
  BY <1>1, <1>5 DEF MarkInv, SourceMarked, CopyMarked, FailedMarked, Faulted, Cleared, CopyPcs

(* The rest of a repair touches one block, and numbers none.               *)
LEMMA MarksTest ==
  ASSUME TypeInv, WholeMarks, Whole, MarkInv,
         CompareFF \/ Compare00 \/ EraseTested \/ CondemnSource
  PROVE  MarkInv'
<1>0. /\ pc \in TestPcs /\ pc \in LoopPcs /\ cp.src \in Blk /\ FlashType
      /\ req.op = "read"
  BY DEF CompareFF, Compare00, EraseTested, CondemnSource, TestPcs, LoopPcs, TypeInv,
         TypeOK, Shape
<1>1. /\ pc' \in TestPcs \cup {"idle", "read"}
      /\ pc' \in TestPcs => cp' = cp
      /\ pc' # "idle" => markd' = markd
  BY <1>0 DEF CompareFF, Compare00, EraseTested, CondemnSource, TestPcs, Advance, Return,
              Frame
<1>2. \/ UNCHANGED flash
      \/ Erased(cp.src) \/ Zeroed(cp.src)
      \/ pc = "condemnSrc" /\ BadBlockMark(cp.src) /\ UNCHANGED cell
  BY Zenon DEF CompareFF, Compare00, EraseTested, CondemnSource
<1>3. /\ \A b \in Blk \ {cp.src} : tag'[b] = tag[b] /\ cell'[b] = cell[b]
      /\ UNCHANGED flash \/ tag'[cp.src] \in {FreshTag, BadTag}
  <2>1. cell \in [Blk -> [Page -> [Sec -> Cell]]] /\ tag \in [Blk -> Tag]
    BY <1>0 DEF FlashType
  <2>2. CASE Erased(cp.src)
    BY <1>0, <2>2, ErasedIs
  <2>3. CASE Zeroed(cp.src)
    <3>1. \A b \in Blk \ {cp.src} : cell'[b] = cell[b]
      BY <2>1, <2>3, Zenon DEF Zeroed
    <3>2. tag'[cp.src] = FreshTag /\ \A b \in Blk \ {cp.src} : tag'[b] = tag[b]
      BY <1>0, <2>1, <2>3, Zenon DEF Zeroed
    <3> QED
      BY <3>1, <3>2
  <2>4. CASE pc = "condemnSrc" /\ BadBlockMark(cp.src) /\ UNCHANGED cell
    <3>1. \/ tag' = tag
          \/ tag' = [tag EXCEPT ![cp.src] = BadTag]
      BY <2>4, MarkIsWhole
    <3> QED
      BY <1>0, <2>1, <2>4, <3>1 DEF flash
  <2> QED
    BY <1>2, <2>2, <2>3, <2>4 DEF flash
<1>4. ASSUME NEW b \in Blk, Due(b)' PROVE Due(b) /\ tag'[b] = tag[b] /\ ~Excused(b)
  <2>1. ~Excused(b)
    BY <1>0 DEF Excused, TestPcs, CopyPcs
  <2>2. UNCHANGED flash \/ b # cp.src
    BY <1>3, <1>4 DEF Due, FreshTag, BadTag
  <2>3. tag'[b] = tag[b] /\ cell'[b] = cell[b]
    BY <1>3, <2>2 DEF flash
  <2>4. pc' \in LoopPcs => markd' = markd
    BY <1>1 DEF LoopPcs, CopyPcs, TestPcs
  <2> QED
    BY <1>0, <1>4, <2>1, <2>3, <2>4 DEF Due, Programmed
<1>5. Marked'
  <2>1. \A b \in Blk : Free(b)' => Free(b) \/ b = cp.src
    BY <1>3 DEF Free
  <2>2. pc \notin {"fmtErase", "fmtTag"} /\ (pc' \in DestPcs \cup TestPcs => cp'.src = cp.src)
    BY <1>0, <1>1 DEF TestPcs, DestPcs
  <2> QED
    BY <1>0, <1>4, <2>1, <2>2, MarkedStays DEF MarkInv
<1> QED
  BY <1>1, <1>5 DEF MarkInv, SourceMarked, CopyMarked, FailedMarked, Faulted, Cleared, CopyPcs, TestPcs

-----------------------------------------------------------------------------
(* Start-up and format: a format leaves nothing programmed.                *)

LEMMA MarksBoot == ASSUME MarkInv, Boot PROVE MarkInv'
<1>0. /\ pc = "boot" /\ pc' \in {"idle", "fmtErase"} /\ UNCHANGED flash
      /\ fmt'.i = 0
  BY DEF Boot, NoFmt
<1>1. \A b \in Blk : (Due(b)' => Due(b)) /\ ~Excused(b)
  BY <1>0 DEF Due, Programmed, Excused, flash, LoopPcs, CopyPcs, TestPcs
<1>2. Marked'
  BY <1>0, <1>1, MarkedStays DEF MarkInv, Free, flash, DestPcs, TestPcs
<1>3. Cleared'
  BY <1>0, BlkNat DEF Cleared
<1> QED
  BY <1>0, <1>2, <1>3 DEF MarkInv, SourceMarked, CopyMarked, FailedMarked, Faulted, CopyPcs

LEMMA MarksFormatErase ==
  ASSUME TypeInv, MarkInv, FormatErase
  PROVE  lost' \/ MarkInv'
<1>0. /\ pc = "fmtErase" /\ fmt.i \in Blk /\ FlashType
      /\ fmt \in Formats
  BY DEF FormatErase, TypeInv, TypeOK, CallType, Shape
<1>1. PICK i \in Blk : i = fmt.i
  BY <1>0
<1>2. \/ tag[i].bad /\ UNCHANGED flash
      \/ Erased(i)
      \/ tag' = [tag EXCEPT ![i] = BadTag] /\ UNCHANGED cell
  BY <1>1, Zenon DEF FormatErase
<1>3. fmt'.i = i + 1
  <2>1. fmt' = [fmt EXCEPT !.i = i + 1] \/ fmt' = [fmt EXCEPT !.i = i + 1, !.good = @ + 1]
    BY <1>1, Zenon DEF FormatErase
  <2> QED
    BY <1>0, <2>1 DEF Formats
<1>4. /\ pc' \in {"fmtErase", "fmtTag", "idle"} /\ (pc' = "idle" => lost')
      /\ pc' = "fmtTag" => i = NB - 1
  BY <1>1, Zenon DEF FormatErase
<1>5. ASSUME NEW b \in Blk, b < i + 1, ~tag'[b].bad PROVE ~Programmed(b)'
  <2>1. CASE b = i
    <3>1. Erased(i)
      BY <1>0, <1>2, <1>5, <2>1 DEF FlashType, BadTag, flash
    <3> QED
      BY <1>0, <2>1, <3>1, ErasedIs DEF Programmed
  <2>2. CASE b # i
    <3>1. b < i
      BY <1>5, <2>2, BlkNat
    <3>2. tag'[b] = tag[b] /\ cell'[b] = cell[b]
      BY <1>0, <1>2, <2>2, ErasedIs DEF FlashType, flash
    <3> QED
      BY <1>0, <1>1, <1>5, <3>1, <3>2 DEF MarkInv, Cleared, Programmed
  <2> QED
    BY <2>1, <2>2
<1>6. CASE pc' = "fmtErase"
  BY <1>3, <1>5, <1>6
  DEF MarkInv, Marked, Cleared, SourceMarked, CopyMarked, FailedMarked, Faulted, CopyPcs
<1>7. CASE pc' = "fmtTag"
  <2>1. \A b \in Blk : b < i + 1
    BY <1>4, <1>7, BlkNat
  <2> QED
    BY <1>5, <1>7, <2>1
    DEF MarkInv, Marked, Cleared, SourceMarked, CopyMarked, FailedMarked, Faulted, CopyPcs
<1> QED
  BY <1>4, <1>6, <1>7

LEMMA MarksFormatTag ==
  ASSUME TypeInv, MarkInv, FormatTag \/ FormatUnnumbered
  PROVE  MarkInv'
<1>0. pc = "fmtTag" /\ pc' \in {"fmtTag", "idle"} /\ UNCHANGED cell
  BY DEF FormatTag, FormatUnnumbered, flash
<1>1. \A b \in Blk : tag[b].bad => tag'[b].bad
  BY FormatTagIs DEF FormatUnnumbered, flash
<1>2. \A b \in Blk : ~tag'[b].bad => ~Programmed(b)'
  BY <1>0, <1>1 DEF MarkInv, Cleared, Programmed
<1>3. Marked'
  BY <1>0, <1>2 DEF Marked, Due, LoopPcs, CopyPcs, TestPcs
<1> QED
  BY <1>0, <1>2, <1>3 DEF MarkInv, Cleared, SourceMarked, CopyMarked, FailedMarked, Faulted, CopyPcs

-----------------------------------------------------------------------------
(* What is promised until the loss of a block or of power.                 *)
MarksHold == lost \/ crashes # 0 \/ MarkInv

LEMMA CrashesStay == ASSUME TypeInv, Next, crashes # 0 PROVE crashes' # 0
<1>1. crashes' = crashes \/ crashes' = crashes + 1
  BY DEF Next, Call, Step, WriteStep, ReadStep, CopyStep, FormatStep, CallWrite,
         CallRead, Reinit, Unmapped, ReadTimeout, WriteDirect, Mark, WriteMove,
         ReadRun, CompareFF, Compare00, EraseTested, CondemnSource, Find, CopyPage,
         Condemn, MarkCopy, EraseSource, FixLUT, Boot, FormatErase, FormatTag,
         FormatEraseUnmarked, FormatUnnumbered, Crash, Flip, env
<1>2. crashes \in Nat
  BY DEF TypeInv, TypeOK, EnvType
<1> QED
  BY <1>1, <1>2

LEMMA MarksInit == Init => MarksHold
<1> SUFFICES ASSUME Init PROVE MarkInv
  BY DEF MarksHold
<1>1. pc = "boot" /\ \A b \in Blk : tag[b].lbn = NB
  BY DEF Init, BadTag, FreshTag
<1> QED
  BY <1>1 DEF MarkInv, Marked, Due, Cleared, SourceMarked, CopyMarked, FailedMarked, Faulted, CopyPcs

LEMMA MarksNext ==
  MarksReliable /\ TypeInv /\ Whole /\ LutInv /\ MarksHold /\ [Next]_vars => MarksHold'
<1> SUFFICES ASSUME MarksReliable, TypeInv, Whole, LutInv, MarksHold, [Next]_vars
             PROVE  MarksHold'
  OBVIOUS
<1>1. CASE UNCHANGED vars
  <2>1. UNCHANGED <<lost, crashes, cell, tag, pc, markd, cp, fmt, faults>>
    BY <1>1 DEF vars, flash, env
  <2>2. UNCHANGED PBN
    BY <1>1 DEF vars, ram, PBN, LBNToPBN, At
  <2>3. MarkInv => MarkInv'
    BY <2>1, <2>2 DEF MarkInv, Marked, Due, Programmed, Stuck, Free, Excused, Cleared,
                      SourceMarked, Full, CopyMarked, FailedMarked, Faulted
  <2> QED
    BY <2>1, <2>3 DEF MarksHold
<1>2. CASE Next /\ lost
  BY <1>2, LostStays DEF MarksHold, TypeInv
<1>3. CASE Next /\ crashes # 0
  BY <1>3, CrashesStay DEF MarksHold
<1>4. ASSUME Next, ~lost, MarkInv PROVE MarksHold'
  <2>0. WholeMarks /\ ~FormatEraseUnmarked
    BY FormatMarks DEF MarksReliable
  <2>1. CASE CallWrite \/ CallRead \/ Reinit \/ Unmapped \/ ReadTimeout
    BY <1>4, <2>1, MarksCall DEF MarksHold
  <2>2. CASE WriteDirect
    BY <1>4, <2>2, MarksWriteDirect DEF MarksHold
  <2>3. CASE Mark
    BY <1>4, <2>3, MarksMark DEF MarksHold
  <2>4. CASE WriteMove \/ ReadRun
    BY <1>4, <2>4, MarksMove DEF MarksHold
  <2>5. CASE CompareFF \/ Compare00 \/ EraseTested \/ CondemnSource
    BY <1>4, <2>0, <2>5, MarksTest DEF MarksHold
  <2>6. CASE Find
    BY <1>4, <2>0, <2>6, MarksFind DEF MarksHold
  <2>7. CASE CopyPage
    BY <1>4, <2>7, MarksCopyPage DEF MarksHold
  <2>8. CASE Condemn
    BY <1>4, <2>8, MarksCondemn DEF MarksHold
  <2>9. CASE MarkCopy
    BY <1>4, <2>9, MarksMarkCopy DEF MarksHold
  <2>10. CASE EraseSource
    BY <1>4, <2>10, MarksEraseSource DEF MarksHold
  <2>11. CASE FixLUT
    BY <1>4, <2>11, MarksFixLUT DEF MarksHold
  <2>12. CASE Boot
    BY <1>4, <2>12, MarksBoot DEF MarksHold
  <2>13. CASE FormatErase
    BY <1>4, <2>13, MarksFormatErase DEF MarksHold
  <2>14. CASE FormatTag \/ FormatUnnumbered
    BY <1>4, <2>14, MarksFormatTag DEF MarksHold
  <2>15. CASE Flip
    BY <1>4, <2>15, MarksFlip DEF MarksHold
  <2>16. CASE Crash
    <3>1. crashes \in Nat /\ crashes' = crashes + 1
      BY <2>16 DEF Crash, TypeInv, TypeOK, EnvType
    <3> QED
      BY <3>1 DEF MarksHold
  <2> QED
    BY <1>4, <2>0, <2>1, <2>2, <2>3, <2>4, <2>5, <2>6, <2>7, <2>8, <2>9, <2>10, <2>11,
       <2>12, <2>13, <2>14, <2>15, <2>16
    DEF Next, Call, Step, WriteStep, ReadStep, CopyStep, FormatStep
<1> QED
  BY <1>1, <1>2, <1>3, <1>4 DEF MarksHold

(***************************************************************************)
(* The used mark (FTL_UsedBlockMark): although markdpbn skips most marks   *)
(* and nobody looks at the result of the mark after a copy, between calls  *)
(* every numbered block that holds programmed sectors is marked, unless a  *)
(* failed program or mark left it in a plane without a free block.         *)
(***************************************************************************)
THEOREM MarksAreKept == ASSUME MarksReliable PROVE Spec => []UsedIsMarked
<1>0. Spec => []LutInv
  BY LutInvariance DEF MarksReliable
<1>1. TypeInv /\ Whole /\ LutInv /\ MarksHold /\ [Next]_vars => MarksHold'
  BY MarksNext
<1>2. MarksHold => UsedIsMarked
  <2> SUFFICES ASSUME MarksHold, pc = "idle", ~lost, crashes = 0,
                      NEW b \in Blk, ~tag[b].bad, tag[b].lbn # NB, Programmed(b)
               PROVE  tag[b].used \/ Full(b)
    BY DEF UsedIsMarked, Programmed
  <2>1. Due(b) /\ ~Excused(b)
    BY DEF Due, Excused, CopyPcs
  <2>2. Stuck(b) => Full(b)
    BY DEF Stuck, Full
  <2> QED
    BY <2>1, <2>2 DEF MarksHold, MarkInv, Marked
<1> QED
  BY <1>0, <1>1, <1>2, MarksInit, TypeInvariance, WholeInvariance, PTL DEF Spec

=============================================================================

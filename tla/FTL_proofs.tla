----------------------------- MODULE FTL_proofs -----------------------------
(***************************************************************************)
(* TypeOK and LutTagged are invariants of Spec, for every geometry, every  *)
(* set of contents, and any number of faults, crashes and flips.           *)
(***************************************************************************)
EXTENDS FTL, TLAPS

-----------------------------------------------------------------------------
(* Arithmetic and typing of the helpers.                                   *)

LEMMA SPBType == SPB \in Nat \ {0}
  BY GeometryAssumption, SMT DEF SPB

LEMMA DivMod ==
  ASSUME NEW x \in Nat, NEW m \in Nat \ {0}
  PROVE  x \div m \in Nat /\ x % m \in 0 .. m - 1
  BY SMT

(* Highest and Lowest return an element of their set, or NB. *)
LEMMA Extremes ==
  ASSUME NEW S \in SUBSET Blk
  PROVE  /\ Highest(S) \in S \cup {NB}
         /\ Lowest(S) \in S \cup {NB}
         /\ Highest(S) \in 0 .. NB /\ Lowest(S) \in 0 .. NB
<1>1. Highest(S) \in S \cup {NB} /\ Lowest(S) \in S \cup {NB}
  BY DEF Highest, Lowest
<1>2. S \cup {NB} \subseteq 0 .. NB
  BY GeometryAssumption DEF Blk
<1> QED
  BY <1>1, <1>2

LEMMA CellType ==
  /\ BlankCell \in Cell
  /\ ZeroCell \in Cell
  /\ \A v \in Stored : DataCell(v) \in Cell
  /\ \A x, y \in Cell : Program(x, y) \in Cell
  /\ \A x \in Cell : Decode(x).data \in Stored
<1>1. \A x, y \in Stored : AndVal(x, y) \in Stored
  BY ValueAssumption DEF AndVal, Stored
<1>2. \A x, y \in Stored \cup {BlankEcc} : AndEcc(x, y) \in Stored \cup {BlankEcc}
  BY ValueAssumption DEF AndEcc, Stored
<1>3. \A x, y \in Cell : Program(x, y) \in Cell
  BY <1>1, <1>2 DEF Program, Cell
<1>4. \A x \in Cell : Decode(x).data \in Stored
  BY DEF Decode, Cell, Stored
<1>5. BlankCell \in Cell /\ ZeroCell \in Cell /\ \A v \in Stored : DataCell(v) \in Cell
  BY ValueAssumption DEF BlankCell, ZeroCell, DataCell, Cell, Stored
<1> QED
  BY <1>3, <1>4, <1>5

LEMMA TagType ==
  /\ FreshTag \in Tag /\ BadTag \in Tag
  /\ \A x, y \in Tag : AndTag(x, y) \in Tag
  BY GeometryAssumption DEF FreshTag, BadTag, AndTag, Tag

LEMMA BlankType == Blank \in [Page -> [Sec -> Cell]]
  BY CellType DEF Blank

(* What FTL_CreateLUT builds: every entry names a good block with its number. *)
LEMMA TaggedLutType ==
  ASSUME NEW t
  PROVE  /\ TaggedLut(t) \in [Blk -> 0 .. NB]
         /\ \A l \in Blk : \/ TaggedLut(t)[l] = NB
                           \/ ~t[TaggedLut(t)[l]].bad /\ t[TaggedLut(t)[l]].lbn = l
<1> DEFINE S(l) == {b \in Blk : ~t[b].bad /\ t[b].lbn = l}
<1>1. \A l \in Blk : S(l) \in SUBSET Blk
  OBVIOUS
<1>2. \A l \in Blk : Highest(S(l)) \in S(l) \cup {NB} /\ Highest(S(l)) \in 0 .. NB
  BY <1>1, Extremes
<1>3. \A l \in Blk : TaggedLut(t)[l] = Highest(S(l))
  BY DEF TaggedLut
<1>4. TaggedLut(t) \in [Blk -> 0 .. NB]
  BY <1>2 DEF TaggedLut
<1> QED
  BY <1>2, <1>3, <1>4

LEMMA CreateLUTType ==
  ASSUME NEW t, TypeOK, CreateLUT(t)
  PROVE  lut' \in [Blk -> 0 .. NB] /\ valid' \in 0 .. NB
<1>1. FirstHole(TaggedLut(t)) \in 0 .. NB
  <2>1. Lowest({l \in Blk : TaggedLut(t)[l] = NB}) \in 0 .. NB
    BY Extremes
  <2>2. valid \in 0 .. NB
    BY DEF TypeOK, RamType
  <2> QED
    BY <2>1, <2>2 DEF FirstHole
<1> QED
  BY <1>1, TaggedLutType DEF CreateLUT

(* Addressing: where the loop is, and how far it may go. *)
LEMMA Addressing ==
  ASSUME TypeInv, pc \in LoopPcs
  PROVE  /\ At \in Nat /\ Left \in 1 .. MaxLen /\ done + Left <= MaxLen
         /\ InBlock \in 0 .. SPB - 1 /\ At \div SPB \in Nat
         /\ PageNo \in Page /\ PageNo \in Nat /\ SecNo \in Sec
         /\ PBN \in 0 .. NB
         /\ PageRun \in 1 .. Left /\ BlockRun \in 1 .. Left
<1>0. /\ req.first \in Nat /\ req.len \in 1 .. MaxLen /\ done \in 0 .. MaxLen - 1
      /\ done < req.len /\ valid \in 0 .. NB /\ lut \in [Blk -> 0 .. NB]
  BY DEF TypeInv, TypeOK, CallType, RamType, Requests, Shape
<1>1. At \in Nat /\ Left \in 1 .. MaxLen /\ done + Left <= MaxLen
  BY <1>0, FTLAssumption DEF At, Left
<1>2. InBlock \in 0 .. SPB - 1 /\ At \div SPB \in Nat
  BY <1>1, SPBType, DivMod DEF InBlock
<1>3. PageNo \in Page /\ PageNo \in Nat /\ SecNo \in Sec
  <2>0. ASSUME NEW x \in Nat, NEW m \in Nat \ {0}, NEW k \in Nat \ {0}, x < m * k
        PROVE  x \div k < m
    BY <2>0, SMT
  <2>1. InBlock \in Nat /\ SPP \in Nat \ {0}
    BY <1>2, SPBType, GeometryAssumption
  <2>2. InBlock < PPB * SPP /\ PPB \in Nat \ {0}
    BY <1>2, SPBType, GeometryAssumption DEF SPB
  <2>3. PageNo \in Nat /\ PageNo < PPB
    BY <2>0, <2>1, <2>2, DivMod DEF PageNo
  <2>4. SecNo \in Sec
    BY <2>1, DivMod DEF SecNo, Sec
  <2> QED
    BY <2>3, <2>4, GeometryAssumption DEF Page
<1>4. PBN \in 0 .. NB
  BY <1>0, <1>2, GeometryAssumption DEF PBN, LBNToPBN, Blk
<1>5. PageRun \in 1 .. Left
  BY <1>1, <1>3, GeometryAssumption DEF PageRun, Least, Sec
<1>6. BlockRun \in 1 .. Left
  BY <1>1, <1>2, SPBType DEF BlockRun, Least
<1> QED
  BY <1>1, <1>2, <1>3, <1>4, <1>5, <1>6

-----------------------------------------------------------------------------
(* The pieces the actions share.                                           *)

LEMMA NothingType ==
  /\ NoBuf \in Buffers /\ NoReq \in Requests
  /\ NoCopy \in Copies /\ NoFmt \in Formats
  BY GeometryAssumption, ValueAssumption, FTLAssumption
  DEF NoBuf, NoReq, NoCopy, NoFmt, Buffers, Requests, Copies, Formats, Stored,
      Page, Sec

LEMMA FrameType ==
  ASSUME req \in Requests, NEW m \in 0 .. NB, NEW b \in Buffers, Frame(m, b)
  PROVE  /\ req' \in Requests /\ markd' \in 0 .. NB /\ buf' \in Buffers
         /\ pc' # "idle" => req' = req
  BY NothingType, GeometryAssumption, FTLAssumption DEF Frame, Requests, NoReq

LEMMA AdvanceType ==
  ASSUME TypeInv, pc \in LoopPcs, NEW n \in Nat \ {0}, Advance(n)
  PROVE  /\ pc' \in {"idle", req.op} /\ done' \in 0 .. MaxLen - 1
         /\ cp' \in Copies /\ rc' \in 0 .. 3
         /\ pc' # "idle" => done' < req.len
<1>1. req.len \in 1 .. MaxLen /\ done \in 0 .. MaxLen - 1 /\ rc \in 0 .. 3
  BY DEF TypeInv, TypeOK, CallType, Requests
<1>2. CASE n >= Left
  BY <1>2, NothingType, FTLAssumption DEF Advance, Return
<1>3. CASE ~(n >= Left)
  BY <1>1, <1>3, NothingType, FTLAssumption DEF Advance, Left
<1> QED
  BY <1>2, <1>3

LEMMA ReturnType ==
  ASSUME NEW c \in 0 .. 3, Return(c)
  PROVE  /\ pc' = "idle" /\ done' \in 0 .. MaxLen - 1
         /\ cp' \in Copies /\ rc' \in 0 .. 3
  BY NothingType, FTLAssumption DEF Return

LEMMA StartCopyType ==
  ASSUME TypeInv, pc \in LoopPcs, PBN # NB, NEW n \in 1 .. Left, StartCopy(n)
  PROVE  /\ pc' = "find" /\ done' = done /\ rc' = rc
         /\ cp' \in Copies /\ cp'.src \in Blk /\ cp'.pos + cp'.left <= MaxLen
<1>1. /\ PBN \in 0 .. NB /\ PageNo \in Page /\ SecNo \in Sec
      /\ Left \in 1 .. MaxLen /\ done + Left <= MaxLen
  BY Addressing
<1>2. done \in 0 .. MaxLen - 1
  BY DEF TypeInv, TypeOK, CallType
<1>3. PBN \in Blk
  BY <1>1, GeometryAssumption DEF Blk
<1>4. done \in 0 .. MaxLen /\ n \in 0 .. MaxLen /\ done + n <= MaxLen
  BY <1>1, <1>2, FTLAssumption
<1>5. /\ pc' = "find" /\ done' = done /\ rc' = rc
      /\ cp' = [src |-> PBN, dst |-> NB, page |-> 0, off |-> PageNo,
                col |-> SecNo, pos |-> done, left |-> n]
  BY DEF StartCopy
<1>6. cp'.src = PBN /\ cp'.pos = done /\ cp'.left = n
  BY <1>5
<1>7. cp' \in Copies
  BY <1>1, <1>3, <1>4, <1>5, GeometryAssumption DEF Copies
<1> QED
  BY <1>3, <1>4, <1>5, <1>6, <1>7

LEMMA FaultType == 
  ASSUME TypeOK, NEW op, FaultAt(op)
  PROVE  faults' \in 0 .. MaxFaults
  BY FTLAssumption DEF FaultAt, TypeOK, EnvType

(* A return to the loop or to the caller. *)
LEMMA LoopShape ==
  ASSUME pc' \in {"idle", "write", "read"},
         pc' # "idle" => done' < req'.len /\ req'.op = pc'
  PROVE  Shape'
  BY DEF Shape, LoopPcs, CopyPcs, TestPcs, DestPcs

-----------------------------------------------------------------------------
(* One lemma per action: TypeInv is preserved.                             *)

LEMMA CallWriteType == ASSUME TypeInv, CallWrite PROVE TypeInv'
<1> USE DEF CallWrite
<1>1. PICK f \in Firsts, n \in 1 .. MaxLen : \E d \in [0 .. n - 1 -> Val] :
        /\ req' = [op |-> "write", first |-> f, len |-> n]
        /\ buf' = [k \in 0 .. MaxLen - 1 |-> IF k < n THEN d[k] ELSE FF]
  OBVIOUS
<1>2. PICK d \in [0 .. n - 1 -> Val] :
        buf' = [k \in 0 .. MaxLen - 1 |-> IF k < n THEN d[k] ELSE FF]
  BY <1>1
<1>3. req' = [op |-> "write", first |-> f, len |-> n] /\ n \in 1 .. MaxLen
  BY <1>1
<1>4. req' \in Requests /\ req'.op = "write" /\ req'.len >= 1
  BY <1>3, FTLAssumption DEF Requests
<1>5. buf' \in Buffers
  BY <1>2, ValueAssumption DEF Buffers, Stored
<1>6. FlashType' /\ RamType' /\ EnvType'
  BY DEF TypeInv, TypeOK, FlashType, RamType, EnvType, flash, ram, env
<1>7. CallType'
  BY <1>4, <1>5, GeometryAssumption, FTLAssumption DEF TypeInv, TypeOK, CallType, Pcs
<1>8. Shape'
  BY <1>4, LoopShape
<1> QED
  BY <1>6, <1>7, <1>8 DEF TypeInv, TypeOK

LEMMA CallReadType == ASSUME TypeInv, CallRead PROVE TypeInv'
<1> USE DEF CallRead
<1>1. PICK f \in Firsts, n \in 1 .. MaxLen :
        req' = [op |-> "read", first |-> f, len |-> n]
  OBVIOUS
<1>4. req' \in Requests /\ req'.op = "read" /\ req'.len >= 1
  BY <1>1, FTLAssumption DEF Requests
<1>6. FlashType' /\ RamType' /\ EnvType'
  BY DEF TypeInv, TypeOK, FlashType, RamType, EnvType, flash, ram, env
<1>7. CallType'
  BY <1>4, NothingType, GeometryAssumption, FTLAssumption
  DEF TypeInv, TypeOK, CallType, Pcs
<1>8. Shape'
  BY <1>4, LoopShape
<1> QED
  BY <1>6, <1>7, <1>8 DEF TypeInv, TypeOK

LEMMA UnmappedType == ASSUME TypeInv, Unmapped PROVE TypeInv'
<1> USE DEF Unmapped
<1>1. pc' = "idle" /\ done' \in 0 .. MaxLen - 1 /\ cp' \in Copies /\ rc' \in 0 .. 3
  BY ReturnType
<1>2. req' \in Requests /\ markd' \in 0 .. NB /\ buf' \in Buffers
  BY FrameType DEF TypeInv, TypeOK, CallType
<1>3. FlashType' /\ RamType' /\ EnvType'
  BY DEF TypeInv, TypeOK, FlashType, RamType, EnvType, flash, ram, env
<1>4. CallType'
  BY <1>1, <1>2 DEF TypeInv, TypeOK, CallType, Pcs
<1>5. Shape'
  BY <1>1, LoopShape
<1> QED
  BY <1>3, <1>4, <1>5 DEF TypeInv, TypeOK

LEMMA ReadTimeoutType == ASSUME TypeInv, ReadTimeout PROVE TypeInv'
<1> USE DEF ReadTimeout
<1>1. pc' = "idle" /\ done' \in 0 .. MaxLen - 1 /\ cp' \in Copies /\ rc' \in 0 .. 3
  BY ReturnType
<1>2. req' \in Requests /\ markd' \in 0 .. NB /\ buf' \in Buffers
  BY FrameType DEF TypeInv, TypeOK, CallType
<1>3. faults' \in 0 .. MaxFaults
  BY FaultType DEF TypeInv
<1>4. FlashType' /\ RamType' /\ EnvType'
  BY <1>3 DEF TypeInv, TypeOK, FlashType, RamType, EnvType, flash, ram
<1>5. CallType'
  BY <1>1, <1>2 DEF TypeInv, TypeOK, CallType, Pcs
<1>6. Shape'
  BY <1>1, LoopShape
<1> QED
  BY <1>4, <1>5, <1>6 DEF TypeInv, TypeOK

LEMMA WrittenType ==
  ASSUME TypeInv, pc \in LoopPcs, NEW page \in [Sec -> Cell]
  PROVE  Written(page) \in [Sec -> Cell]
<1>1. /\ SecNo \in Sec /\ PageRun \in 1 .. Left /\ Left \in 1 .. MaxLen
      /\ done + Left <= MaxLen
  BY Addressing
<1>2. done \in 0 .. MaxLen - 1 /\ buf \in [0 .. MaxLen - 1 -> Stored]
  BY DEF TypeInv, TypeOK, CallType, Buffers
<1>3. ASSUME NEW s \in Sec, s \in Run PROVE done + (s - SecNo) \in 0 .. MaxLen - 1
  BY <1>1, <1>2, <1>3, FTLAssumption, GeometryAssumption DEF Run, Sec
<1>4. ASSUME NEW s \in Sec, s \in Run
      PROVE  Program(page[s], DataCell(buf[done + (s - SecNo)])) \in Cell
  BY <1>2, <1>3, <1>4, CellType
<1> QED
  BY <1>4 DEF Written

LEMMA CellUpdate ==
  ASSUME FlashType, NEW b \in Blk, NEW p \in Page, NEW x \in [Sec -> Cell],
         cell' = [cell EXCEPT ![b][p] = x]
  PROVE  cell' \in [Blk -> [Page -> [Sec -> Cell]]]
<1>1. cell[b] \in [Page -> [Sec -> Cell]]
  BY DEF FlashType
<1>2. [cell[b] EXCEPT ![p] = x] \in [Page -> [Sec -> Cell]]
  BY <1>1
<1> QED
  BY <1>2 DEF FlashType

LEMMA UsedType ==
  ASSUME FlashType, NEW b, tag' = [tag EXCEPT ![b].used = TRUE]
  PROVE  tag' \in [Blk -> Tag]
  BY DEF FlashType, Tag

(* After StartCopy the call is at "find" with a proper source. *)
LEMMA FindShape ==
  ASSUME pc' = "find", req'.op \in {"write", "read"}, done' < req'.len,
         cp'.src \in Blk, cp'.pos + cp'.left <= MaxLen
  PROVE  Shape'
  BY DEF Shape, LoopPcs, CopyPcs, TestPcs, DestPcs

LEMMA WriteDirectType == ASSUME TypeInv, WriteDirect PROVE TypeInv'
<1> USE DEF WriteDirect
<1>0. /\ pc = "write" /\ pc \in LoopPcs /\ req.op = "write" /\ done < req.len
      /\ PBN \in Blk /\ PageNo \in Page /\ PBN # NB
      /\ PageRun \in Nat \ {0} /\ BlockRun \in 1 .. Left
  BY Addressing, GeometryAssumption DEF TypeInv, Shape, LoopPcs, Blk
<1>1. req' \in Requests /\ markd' \in 0 .. NB /\ buf' \in Buffers
      /\ (pc' # "idle" => req' = req)
  BY FrameType DEF TypeInv, TypeOK, CallType
<1>2. cell' \in [Blk -> [Page -> [Sec -> Cell]]]
  <2>1. CASE UNCHANGED cell
    BY <2>1 DEF TypeInv, TypeOK, FlashType
  <2>2. CASE cell' = [cell EXCEPT ![PBN][PageNo] = Written(@)]
    <3>1. cell[PBN][PageNo] \in [Sec -> Cell]
      BY <1>0 DEF TypeInv, TypeOK, FlashType
    <3>2. Written(cell[PBN][PageNo]) \in [Sec -> Cell]
      BY <1>0, <3>1, WrittenType
    <3>3. cell' = [cell EXCEPT ![PBN][PageNo] = Written(cell[PBN][PageNo])]
      BY <2>2
    <3> QED
      BY <1>0, <3>2, <3>3, CellUpdate DEF TypeInv, TypeOK
  <2> QED
    BY <2>1, <2>2
<1>3. FlashType' /\ RamType'
  BY <1>2 DEF TypeInv, TypeOK, FlashType, RamType, ram
<1>4. CASE UNCHANGED faults /\ markd # PBN /\ pc' = "mark" /\ UNCHANGED <<done, cp, rc>>
  <2>1. CallType' /\ EnvType'
    BY <1>1, <1>4 DEF TypeInv, TypeOK, CallType, EnvType, Pcs
  <2>2. PBN' = PBN
    BY <1>1, <1>4 DEF PBN, LBNToPBN, At, ram
  <2>3. Shape'
    BY <1>0, <1>1, <1>4, <2>2 DEF Shape, LoopPcs, CopyPcs, TestPcs, DestPcs
  <2> QED
    BY <1>3, <2>1, <2>3 DEF TypeInv, TypeOK
<1>5. CASE UNCHANGED faults /\ Advance(PageRun)
  <2>1. /\ pc' \in {"idle", "write"} /\ done' \in 0 .. MaxLen - 1
        /\ cp' \in Copies /\ rc' \in 0 .. 3 /\ (pc' # "idle" => done' < req.len)
    BY <1>0, <1>5, AdvanceType
  <2>2. CallType' /\ EnvType'
    BY <1>1, <1>5, <2>1 DEF TypeInv, TypeOK, CallType, EnvType, Pcs
  <2>3. Shape'
    BY <1>0, <1>1, <2>1, LoopShape
  <2> QED
    BY <1>3, <2>2, <2>3 DEF TypeInv, TypeOK
<1>6. CASE FaultAt("write") /\ StartCopy(BlockRun)
  <2>1. /\ pc' = "find" /\ done' = done /\ rc' = rc /\ cp' \in Copies
        /\ cp'.src \in Blk /\ cp'.pos + cp'.left <= MaxLen
    BY <1>0, <1>6, StartCopyType
  <2>2. faults' \in 0 .. MaxFaults
    BY <1>6, FaultType DEF TypeInv
  <2>3. CallType' /\ EnvType'
    BY <1>1, <2>1, <2>2 DEF TypeInv, TypeOK, CallType, EnvType, Pcs
  <2>4. Shape'
    BY <1>0, <1>1, <2>1, FindShape
  <2> QED
    BY <1>3, <2>3, <2>4 DEF TypeInv, TypeOK
<1> QED
  BY <1>4, <1>5, <1>6

LEMMA MarkType == ASSUME TypeInv, Mark PROVE TypeInv'
<1> USE DEF Mark
<1>0. /\ pc = "mark" /\ pc \in LoopPcs /\ req.op = "write" /\ done < req.len
      /\ PBN \in Blk /\ PBN # NB /\ PBN \in 0 .. NB
      /\ PageRun \in Nat \ {0} /\ BlockRun \in 1 .. Left
  BY Addressing, GeometryAssumption DEF TypeInv, Shape, LoopPcs, Blk
<1>1. req' \in Requests /\ markd' \in 0 .. NB /\ buf' \in Buffers
      /\ (pc' # "idle" => req' = req)
  BY <1>0, FrameType DEF TypeInv, TypeOK, CallType
<1>2. tag' \in [Blk -> Tag]
  BY UsedType DEF TypeInv, TypeOK, FlashType
<1>3. FlashType' /\ RamType'
  BY <1>2 DEF TypeInv, TypeOK, FlashType, RamType, ram
<1>4. CASE UNCHANGED faults /\ Advance(PageRun)
  <2>1. /\ pc' \in {"idle", "write"} /\ done' \in 0 .. MaxLen - 1
        /\ cp' \in Copies /\ rc' \in 0 .. 3 /\ (pc' # "idle" => done' < req.len)
    BY <1>0, <1>4, AdvanceType
  <2>2. CallType' /\ EnvType'
    BY <1>1, <1>4, <2>1 DEF TypeInv, TypeOK, CallType, EnvType, Pcs
  <2>3. Shape'
    BY <1>0, <1>1, <2>1, LoopShape
  <2> QED
    BY <1>3, <2>2, <2>3 DEF TypeInv, TypeOK
<1>5. CASE FaultAt("mark") /\ StartCopy(BlockRun)
  <2>1. /\ pc' = "find" /\ done' = done /\ rc' = rc /\ cp' \in Copies
        /\ cp'.src \in Blk /\ cp'.pos + cp'.left <= MaxLen
    BY <1>0, <1>5, StartCopyType
  <2>2. faults' \in 0 .. MaxFaults
    BY <1>5, FaultType DEF TypeInv
  <2>3. CallType' /\ EnvType'
    BY <1>1, <2>1, <2>2 DEF TypeInv, TypeOK, CallType, EnvType, Pcs
  <2>4. Shape'
    BY <1>0, <1>1, <2>1, FindShape
  <2> QED
    BY <1>3, <2>3, <2>4 DEF TypeInv, TypeOK
<1> QED
  BY <1>4, <1>5

LEMMA WriteMoveType == ASSUME TypeInv, WriteMove PROVE TypeInv'
<1> USE DEF WriteMove
<1>0. /\ pc = "write" /\ pc \in LoopPcs /\ req.op = "write" /\ done < req.len
      /\ BlockRun \in 1 .. Left
  BY Addressing DEF TypeInv, Shape, LoopPcs
<1>1. /\ pc' = "find" /\ done' = done /\ rc' = rc /\ cp' \in Copies
      /\ cp'.src \in Blk /\ cp'.pos + cp'.left <= MaxLen
  BY <1>0, StartCopyType
<1>2. FlashType' /\ RamType' /\ EnvType'
  BY DEF TypeInv, TypeOK, FlashType, RamType, EnvType, flash, ram, env
<1>3. CallType'
  BY <1>1 DEF TypeInv, TypeOK, CallType, Pcs
<1>4. Shape'
  BY <1>0, <1>1, FindShape
<1> QED
  BY <1>2, <1>3, <1>4 DEF TypeInv, TypeOK

LEMMA ReadRunType == ASSUME TypeInv, ReadRun PROVE TypeInv'
<1> DEFINE page == cell[PBN][PageNo]
           got  == [k \in 0 .. MaxLen - 1 |->
                      IF k \in done .. done + PageRun - 1
                        THEN Decode(page[SecNo + k - done]).data ELSE buf[k]]
<1>0. /\ pc = "read" /\ pc \in LoopPcs /\ req.op = "read" /\ done < req.len
      /\ PBN \in Blk /\ PBN # NB /\ PageNo \in Page /\ SecNo \in Sec
      /\ PageRun \in Nat \ {0} /\ PageRun \in 1 .. Left /\ Left \in 1 .. MaxLen
  BY Addressing, GeometryAssumption DEF ReadRun, TypeInv, Shape, LoopPcs, Blk
<1>1. got \in Buffers
  <2>1. page \in [Sec -> Cell]
    BY <1>0 DEF TypeInv, TypeOK, FlashType
  <2>2. PageRun <= SPP - SecNo /\ done \in 0 .. MaxLen - 1
    BY <1>0, GeometryAssumption
    DEF PageRun, Least, Sec, TypeInv, TypeOK, CallType
  <2>3. ASSUME NEW k \in 0 .. MaxLen - 1, k \in done .. done + PageRun - 1
        PROVE  SecNo + k - done \in Sec
    BY <1>0, <2>2, <2>3, GeometryAssumption, FTLAssumption DEF Sec
  <2>4. ASSUME NEW k \in 0 .. MaxLen - 1, k \in done .. done + PageRun - 1
        PROVE  Decode(page[SecNo + k - done]).data \in Stored
    <3>1. page[SecNo + k - done] \in Cell
      BY <2>1, <2>3, <2>4
    <3> QED
      BY <3>1, CellType
  <2>5. buf \in Buffers
    BY DEF TypeInv, TypeOK, CallType
  <2> HIDE DEF page
  <2> QED
    BY <2>4, <2>5 DEF Buffers
<1>2. Frame(markd, got)
  BY DEF ReadRun
<1> HIDE DEF got
<1>3. req' \in Requests /\ markd' \in 0 .. NB /\ buf' \in Buffers
      /\ (pc' # "idle" => req' = req)
  BY <1>1, <1>2, FrameType DEF TypeInv, TypeOK, CallType
<1>4. FlashType' /\ RamType' /\ EnvType'
  BY DEF ReadRun, TypeInv, TypeOK, FlashType, RamType, EnvType, flash, ram, env
<1>5. CASE StartCopy(PageRun)
  <2>1. /\ pc' = "find" /\ done' = done /\ rc' = rc /\ cp' \in Copies
        /\ cp'.src \in Blk /\ cp'.pos + cp'.left <= MaxLen
    BY <1>0, <1>5, StartCopyType
  <2>2. CallType'
    BY <1>3, <2>1 DEF ReadRun, TypeInv, TypeOK, CallType, Pcs
  <2>3. Shape'
    BY <1>0, <1>3, <2>1, FindShape
  <2> QED
    BY <1>4, <2>2, <2>3 DEF TypeInv, TypeOK
<1>6. CASE Advance(PageRun)
  <2>1. /\ pc' \in {"idle", "read"} /\ done' \in 0 .. MaxLen - 1
        /\ cp' \in Copies /\ rc' \in 0 .. 3 /\ (pc' # "idle" => done' < req.len)
    BY <1>0, <1>6, AdvanceType
  <2>2. CallType'
    BY <1>3, <2>1 DEF ReadRun, TypeInv, TypeOK, CallType, Pcs
  <2>3. Shape'
    BY <1>0, <1>3, <2>1, LoopShape
  <2> QED
    BY <1>4, <2>2, <2>3 DEF TypeInv, TypeOK
<1> QED
  BY <1>5, <1>6 DEF ReadRun

LEMMA DestType ==
  ASSUME cp \in Copies, NEW d \in Blk, cp' = [cp EXCEPT !.dst = d, !.page = 0]
  PROVE  /\ cp' \in Copies /\ cp'.src = cp.src /\ cp'.pos = cp.pos
         /\ cp'.left = cp.left /\ cp'.dst = d /\ cp'.page = 0
<1>1. d \in 0 .. NB /\ 0 \in 0 .. PPB
  BY GeometryAssumption DEF Blk
<1> QED
  BY <1>1 DEF Copies

LEMMA FindType == ASSUME TypeInv, Find PROVE TypeInv'
<1> USE DEF Find
<1>0. /\ pc = "find" /\ pc \in LoopPcs /\ done < req.len /\ cp \in Copies
      /\ req.op \in {"write", "read"} /\ cp.src \in Blk /\ cp.pos + cp.left <= MaxLen
  BY DEF TypeInv, TypeOK, CallType, Shape, LoopPcs, CopyPcs
<1>1. /\ req' \in Requests /\ markd' \in 0 .. NB /\ buf' \in Buffers
      /\ (pc' # "idle" => req' = req)
  BY FrameType DEF TypeInv, TypeOK, CallType
<1>2. FlashType' /\ EnvType'
  BY DEF TypeInv, TypeOK, FlashType, EnvType, flash, env
<1>3. CASE FindBlock # NB
  <2>1. FindBlock \in Blk
    <3> DEFINE spare == {b \in Blk : Unused(b) /\ b % 2 = cp.src % 2}
               below == {b \in spare : b <= cur}
    <3>1. spare \in SUBSET Blk /\ below \in SUBSET Blk
      OBVIOUS
    <3>2. Highest(spare) \in spare \cup {NB} /\ Highest(below) \in below \cup {NB}
      BY <3>1, Extremes
    <3>3. FindBlock = IF below # {} THEN Highest(below) ELSE Highest(spare)
      BY DEF FindBlock
    <3> QED
      BY <1>3, <3>2, <3>3
  <2>2. /\ cur' = FindBlock /\ pc' = "copy" /\ UNCHANGED <<done, rc, lost>>
        /\ cp' = [cp EXCEPT !.dst = FindBlock, !.page = 0]
    BY <1>3
  <2>3. /\ cp' \in Copies /\ cp'.src = cp.src /\ cp'.pos = cp.pos
        /\ cp'.left = cp.left /\ cp'.dst \in Blk /\ cp'.page = 0
    <3> HIDE DEF Find
    <3> QED
      BY <1>0, <2>1, <2>2, DestType
  <2>4. RamType' /\ CallType'
    BY <1>1, <2>1, <2>2, <2>3, GeometryAssumption
    DEF TypeInv, TypeOK, RamType, CallType, Pcs, Blk
  <2>5. Shape'
    BY <1>0, <1>1, <2>2, <2>3, GeometryAssumption
    DEF Shape, LoopPcs, CopyPcs, TestPcs, DestPcs, Page
  <2> QED
    BY <1>2, <2>4, <2>5 DEF TypeInv, TypeOK
<1>4. CASE FindBlock = NB
  <2>1. RamType'
    BY <1>4, GeometryAssumption DEF TypeInv, TypeOK, RamType
  <2>2. CASE req.op = "write"
    <3>1. pc' = "idle" /\ done' \in 0 .. MaxLen - 1 /\ cp' \in Copies /\ rc' \in 0 .. 3
      BY <1>4, <2>2, ReturnType
    <3>2. CallType'
      BY <1>1, <3>1 DEF TypeInv, TypeOK, CallType, Pcs
    <3>3. Shape'
      BY <3>1, LoopShape
    <3> QED
      BY <1>2, <2>1, <3>2, <3>3 DEF TypeInv, TypeOK
  <2>3. CASE req.op # "write"
    <3>1. pc' = "compareFF" /\ lost' = TRUE /\ UNCHANGED <<cp, done, rc>>
      BY <1>4, <2>3
    <3>2. CallType'
      BY <1>1, <3>1 DEF TypeInv, TypeOK, CallType, Pcs
    <3>3. Shape'
      BY <1>0, <1>1, <2>3, <3>1 DEF Shape, LoopPcs, CopyPcs, TestPcs, DestPcs
    <3> QED
      BY <1>2, <2>1, <3>2, <3>3 DEF TypeInv, TypeOK
  <2> QED
    BY <2>2, <2>3
<1> QED
  BY <1>3, <1>4

(* What one iteration of the page loop takes from the caller's data. *)
LEMMA ConsumedType ==
  ASSUME TypeInv, pc = "copy"
  PROVE  /\ Merged \in 0 .. cp.left /\ cp.pos + Merged <= MaxLen
         /\ Merged <= SPP - cp.col
         /\ Consumed \in Copies
         /\ Consumed.pos + Consumed.left <= MaxLen
         /\ Consumed.src = cp.src /\ Consumed.dst = cp.dst /\ Consumed.page = cp.page
<1>1. /\ cp \in Copies /\ cp.pos + cp.left <= MaxLen
      /\ cp.pos \in Nat /\ cp.left \in Nat /\ cp.col \in Sec
  BY FTLAssumption DEF TypeInv, TypeOK, CallType, Shape, CopyPcs, Copies
<1>2. /\ Merged \in 0 .. cp.left /\ cp.pos + Merged <= MaxLen
      /\ Merged <= SPP - cp.col
  BY <1>1, GeometryAssumption, FTLAssumption DEF Merged, Least, Sec
<1>3. CASE Merged = 0
  BY <1>1, <1>2, <1>3 DEF Consumed
<1>4. CASE Merged # 0
  <2>1. Consumed = [cp EXCEPT !.col = 0, !.pos = cp.pos + Merged, !.left = cp.left - Merged]
    BY <1>1, <1>4 DEF Consumed
  <2>2. /\ cp.pos + Merged \in 0 .. MaxLen /\ cp.left - Merged \in 0 .. MaxLen
        /\ (cp.pos + Merged) + (cp.left - Merged) <= MaxLen /\ 0 \in Sec
    BY <1>1, <1>2, GeometryAssumption, FTLAssumption DEF Sec
  <2> QED
    BY <1>1, <1>2, <2>1, <2>2 DEF Copies
<1> QED
  BY <1>3, <1>4

LEMMA PageCopiedType ==
  ASSUME TypeInv, pc = "copy", PageCopied
  PROVE  cell' \in [Blk -> [Page -> [Sec -> Cell]]]
<1> DEFINE from == cell[cp.src][cp.page]
           to   == cell[cp.dst][cp.page]
           x    == CopiedPage(from, to, cp.col, Merged, buf, cp.pos)
<1>1. /\ cp.src \in Blk /\ cp.dst \in Blk /\ cp.page \in Page
      /\ cp.pos \in 0 .. MaxLen /\ cp.col \in Sec
      /\ buf \in [0 .. MaxLen - 1 -> Stored]
  BY DEF TypeInv, TypeOK, CallType, Copies, Buffers, Shape, CopyPcs, DestPcs
<1>2. from \in [Sec -> Cell] /\ to \in [Sec -> Cell]
  BY <1>1 DEF TypeInv, TypeOK, FlashType
<1>3. Merged \in Nat /\ cp.pos + Merged <= MaxLen
  BY ConsumedType, <1>1, FTLAssumption DEF TypeInv, TypeOK, CallType, Copies
<1>4. ASSUME NEW s \in Sec, s \in cp.col .. cp.col + Merged - 1
      PROVE  cp.pos + (s - cp.col) \in 0 .. MaxLen - 1
  <2>1. ASSUME NEW c \in Int, NEW m \in Nat, NEW q \in Nat, NEW L \in Nat, NEW t \in Int,
               t \in c .. c + m - 1, q + m <= L
        PROVE  q + (t - c) \in 0 .. L - 1
    BY <2>1
  <2>2. cp.col \in Int /\ cp.pos \in Nat /\ MaxLen \in Nat /\ s \in Int
    BY <1>1, GeometryAssumption, FTLAssumption DEF Sec
  <2> QED
    BY <1>3, <1>4, <2>1, <2>2
<1>5. ASSUME NEW s \in Sec
      PROVE  Program(to[s], IF s \in cp.col .. cp.col + Merged - 1
                              THEN DataCell(buf[cp.pos + (s - cp.col)])
                              ELSE from[s]) \in Cell
  <2>1. CASE s \in cp.col .. cp.col + Merged - 1
    <3>1. DataCell(buf[cp.pos + (s - cp.col)]) \in Cell
      BY <1>1, <1>4, <2>1, CellType
    <3> QED
      BY <1>2, <2>1, <3>1, CellType
  <2>2. CASE ~(s \in cp.col .. cp.col + Merged - 1)
    BY <1>2, <2>2, CellType
  <2> QED
    BY <2>1, <2>2
<1>6. x \in [Sec -> Cell]
  BY <1>5 DEF CopiedPage
<1>7. cell' = [cell EXCEPT ![cp.dst][cp.page] = x]
  BY DEF PageCopied
<1> HIDE DEF x
<1> QED
  BY <1>1, <1>6, <1>7, CellUpdate DEF TypeInv, TypeOK

LEMMA TagCopiedType ==
  ASSUME TypeInv, pc = "copy", TagCopied
  PROVE  tag' \in [Blk -> Tag]
<1>1. tag \in [Blk -> Tag] /\ cp.src \in Blk /\ cp.dst \in Blk
  BY DEF TypeInv, TypeOK, FlashType, Shape, CopyPcs, DestPcs
<1>2. AndTag(tag[cp.dst], tag[cp.src]) \in Tag
  BY <1>1, TagType
<1> QED
  BY <1>1, <1>2 DEF TagCopied

(* A step inside the copy that keeps the request and moves on to "find",   *)
(* "condemn", "used", "erase", "fixlut" or the next page.                  *)
LEMMA CopyShape ==
  ASSUME TypeInv, pc \in CopyPcs, UNCHANGED <<req, done>>,
         pc' \in CopyPcs, cp'.src = cp.src, cp'.pos + cp'.left <= MaxLen,
         pc' \in DestPcs => cp'.dst \in Blk,
         pc' = "copy" => cp'.page \in Page
  PROVE  Shape'
  BY DEF TypeInv, Shape, LoopPcs, CopyPcs, DestPcs, TestPcs

LEMMA CopyPageType == ASSUME TypeInv, CopyPage PROVE TypeInv'
<1> USE DEF CopyPage
<1>0. /\ pc = "copy" /\ pc \in CopyPcs /\ cp \in Copies
      /\ cp.src \in Blk /\ cp.dst \in Blk /\ cp.page \in Page
  BY DEF TypeInv, TypeOK, CallType, Shape, CopyPcs, DestPcs
<1>1. /\ Consumed \in Copies /\ Consumed.pos + Consumed.left <= MaxLen
      /\ Consumed.src = cp.src /\ Consumed.dst = cp.dst /\ Consumed.page = cp.page
  BY ConsumedType, <1>0
<1>2. FlashType'
  <2>1. UNCHANGED flash => FlashType'
    BY DEF TypeInv, TypeOK, FlashType, flash
  <2>2. PageCopied /\ TagCopied => FlashType'
    BY <1>0, PageCopiedType, TagCopiedType DEF FlashType
  <2> QED
    BY <2>1, <2>2
<1>3. RamType'
  BY DEF TypeInv, TypeOK, RamType, ram
<1>4. CASE /\ cp' = [Consumed EXCEPT !.page = @ + 1]
           /\ pc' = IF AllCopied THEN "used" ELSE "copy"
           /\ UNCHANGED faults
  <2>1. cp' = [Consumed EXCEPT !.page = cp.page + 1]
    BY <1>1, <1>4
  <2>2. cp.page + 1 \in 0 .. PPB /\ (~AllCopied => cp.page + 1 \in Page)
    BY <1>0, GeometryAssumption DEF Page, AllCopied
  <2>3. /\ cp' \in Copies /\ cp'.src = cp.src /\ cp'.dst = cp.dst
        /\ cp'.pos + cp'.left <= MaxLen /\ cp'.page = cp.page + 1
    BY <1>1, <2>1, <2>2 DEF Copies
  <2>4. CallType' /\ EnvType'
    BY <1>4, <2>3 DEF TypeInv, TypeOK, CallType, EnvType, Pcs
  <2>5. Shape'
    BY <1>0, <1>4, <2>2, <2>3, CopyShape DEF CopyPcs
  <2> QED
    BY <1>2, <1>3, <2>4, <2>5 DEF TypeInv, TypeOK
<1>5. CASE /\ FaultAt(IF Consumed = cp /\ cp.pos = done THEN "copy" ELSE "merge")
           /\ cp' = Consumed /\ pc' = "condemn"
  <2>1. faults' \in 0 .. MaxFaults
    BY <1>5, FaultType DEF TypeInv
  <2>2. CallType' /\ EnvType'
    BY <1>1, <1>5, <2>1 DEF TypeInv, TypeOK, CallType, EnvType, Pcs
  <2>3. Shape'
    BY <1>0, <1>1, <1>5, CopyShape DEF CopyPcs
  <2> QED
    BY <1>2, <1>3, <2>2, <2>3 DEF TypeInv, TypeOK
<1> QED
  BY <1>4, <1>5

LEMMA HalfMarkType ==
  ASSUME tag \in [Blk -> Tag], NEW b, tag' = [tag EXCEPT ![b].bad = TRUE]
  PROVE  tag' \in [Blk -> Tag]
  BY DEF Tag

LEMMA BadBlockMarkType ==
  ASSUME TypeInv, NEW b, BadBlockMark(b)
  PROVE  tag' \in [Blk -> Tag] /\ (faults' = faults \/ faults' \in 0 .. MaxFaults)
<1>1. tag \in [Blk -> Tag] /\ BadTag \in Tag
  BY TagType DEF TypeInv, TypeOK, FlashType
<1>2. /\ FaultAt("badmark") => faults' \in 0 .. MaxFaults
      /\ FaultAt("halfmark") => faults' \in 0 .. MaxFaults
  BY FaultType DEF TypeInv
<1>3. tag' = [tag EXCEPT ![b].bad = TRUE] => tag' \in [Blk -> Tag]
  BY <1>1, HalfMarkType
<1>4. CASE tag' = [tag EXCEPT ![b] = BadTag] /\ UNCHANGED faults
  BY <1>1, <1>4
<1>5. CASE FaultAt("badmark") /\ UNCHANGED tag
  BY <1>1, <1>2, <1>5
<1>6. CASE FaultAt("halfmark") /\ tag' = [tag EXCEPT ![b].bad = TRUE]
  BY <1>2, <1>3, <1>6
<1> QED
  BY <1>4, <1>5, <1>6 DEF BadBlockMark

LEMMA CondemnType == ASSUME TypeInv, Condemn PROVE TypeInv'
<1>0. pc = "condemn" /\ pc' = "find" /\ cp' = cp /\ UNCHANGED <<req, done>>
  BY DEF Condemn
<1>1. tag' \in [Blk -> Tag] /\ (faults' = faults \/ faults' \in 0 .. MaxFaults)
  BY BadBlockMarkType DEF Condemn
<1>2. lut' \in [Blk -> 0 .. NB] /\ valid' \in 0 .. NB
  BY CreateLUTType DEF Condemn, TypeInv
<1>3. FlashType' /\ RamType' /\ CallType' /\ EnvType'
  BY <1>1, <1>2
  DEF Condemn, TypeInv, TypeOK, FlashType, RamType, CallType, EnvType, Pcs
<1>4. Shape'
  BY <1>0, CopyShape DEF TypeInv, Shape, CopyPcs, DestPcs
<1> QED
  BY <1>3, <1>4 DEF TypeInv, TypeOK

LEMMA MarkCopyType == ASSUME TypeInv, MarkCopy PROVE TypeInv'
<1>0. pc = "used" /\ pc' = "erase" /\ cp' = cp /\ UNCHANGED <<req, done>>
  BY DEF MarkCopy
<1>1. tag' \in [Blk -> Tag]
  BY UsedType DEF MarkCopy, TypeInv, TypeOK, FlashType
<1>2. faults' \in 0 .. MaxFaults
  BY FaultType DEF MarkCopy, TypeInv, TypeOK, EnvType
<1>3. FlashType' /\ RamType' /\ CallType' /\ EnvType'
  BY <1>1, <1>2
  DEF MarkCopy, ram, TypeInv, TypeOK, FlashType, RamType, CallType, EnvType, Pcs
<1>4. Shape'
  BY <1>0, CopyShape DEF TypeInv, Shape, CopyPcs, DestPcs
<1> QED
  BY <1>3, <1>4 DEF TypeInv, TypeOK

(* Whatever an erase, a zero fill or their failure leaves is flash. *)
LEMMA ErasedType ==
  ASSUME FlashType, NEW b, Erased(b) \/ Zeroed(b) \/ UNCHANGED flash
  PROVE  FlashType'
<1>1. [p \in Page |-> [s \in Sec |-> ZeroCell]] \in [Page -> [Sec -> Cell]]
  BY CellType
<1> QED
  BY <1>1, BlankType, TagType DEF FlashType, Erased, Zeroed, flash

LEMMA EraseSourceType == ASSUME TypeInv, EraseSource PROVE TypeInv'
<1>0. pc = "erase" /\ pc' = "fixlut" /\ cp' = cp /\ UNCHANGED <<req, done>>
  BY DEF EraseSource
<1>1. FlashType'
  BY ErasedType DEF EraseSource, TypeInv, TypeOK
<1>2. faults' \in 0 .. MaxFaults
  BY FaultType DEF EraseSource, TypeInv, TypeOK, EnvType
<1>3. RamType' /\ CallType' /\ EnvType'
  BY <1>2 DEF EraseSource, ram, TypeInv, TypeOK, RamType, CallType, EnvType, Pcs
<1>4. Shape'
  BY <1>0, CopyShape DEF TypeInv, Shape, CopyPcs, DestPcs
<1> QED
  BY <1>1, <1>3, <1>4 DEF TypeInv, TypeOK

(* A step of the test that stays in the test. *)
LEMMA TestShape ==
  ASSUME TypeInv, pc \in TestPcs \cup {"fixlut"}, UNCHANGED <<req, done>>,
         req.op = "read", pc' \in TestPcs, cp'.src = cp.src
  PROVE  Shape'
  BY DEF TypeInv, Shape, LoopPcs, CopyPcs, DestPcs, TestPcs

LEMMA FixLUTType == ASSUME TypeInv, FixLUT PROVE TypeInv'
<1> USE DEF FixLUT
<1>0. /\ pc = "fixlut" /\ pc \in LoopPcs /\ req.op \in {"write", "read"}
      /\ cp.dst \in Blk /\ BlockRun \in 1 .. Left /\ done < req.len
      /\ Left \in Nat
  BY Addressing DEF TypeInv, Shape, LoopPcs, CopyPcs, DestPcs
<1>1. /\ req' \in Requests /\ markd' \in 0 .. NB /\ buf' \in Buffers
      /\ (pc' # "idle" => req' = req)
  BY FrameType DEF TypeInv, TypeOK, CallType
<1>2. RamType'
  BY <1>0, GeometryAssumption DEF TypeInv, TypeOK, RamType, Blk
<1>3. FlashType' /\ EnvType'
  BY DEF TypeInv, TypeOK, FlashType, EnvType, flash, env
<1>4. CASE req.op = "write"
  <2>1. /\ pc' \in {"idle", "write"} /\ done' \in 0 .. MaxLen - 1
        /\ cp' \in Copies /\ rc' \in 0 .. 3 /\ (pc' # "idle" => done' < req.len)
    BY <1>0, <1>4, AdvanceType
  <2>2. CallType'
    BY <1>1, <2>1 DEF TypeInv, TypeOK, CallType, Pcs
  <2>3. Shape'
    BY <1>1, <1>4, <2>1, LoopShape
  <2> QED
    BY <1>2, <1>3, <2>2, <2>3 DEF TypeInv, TypeOK
<1>5. CASE req.op # "write"
  <2>1. pc' = "compareFF" /\ UNCHANGED <<cp, done, rc>> /\ req' = req
    BY <1>1, <1>5
  <2>2. CallType'
    BY <1>1, <2>1 DEF TypeInv, TypeOK, CallType, Pcs
  <2>3. Shape'
    BY <1>0, <1>5, <2>1, TestShape DEF TestPcs
  <2> QED
    BY <1>2, <1>3, <2>2, <2>3 DEF TypeInv, TypeOK
<1> QED
  BY <1>4, <1>5

LEMMA CompareFFType == ASSUME TypeInv, CompareFF PROVE TypeInv'
<1>0. /\ pc = "compareFF" /\ pc' \in {"compare00", "condemnSrc"}
      /\ cp' = cp /\ UNCHANGED <<req, done>>
  BY DEF CompareFF
<1>1. FlashType'
  BY ErasedType DEF CompareFF, TypeInv, TypeOK
<1>2. faults' \in 0 .. MaxFaults
  BY FaultType DEF CompareFF, TypeInv, TypeOK, EnvType
<1>3. RamType' /\ CallType' /\ EnvType'
  BY <1>0, <1>2 DEF CompareFF, ram, TypeInv, TypeOK, RamType, CallType, EnvType, Pcs
<1>4. Shape'
  BY <1>0, TestShape DEF TypeInv, Shape, TestPcs
<1> QED
  BY <1>1, <1>3, <1>4 DEF TypeInv, TypeOK

LEMMA Compare00Type == ASSUME TypeInv, Compare00 PROVE TypeInv'
<1>0. /\ pc = "compare00" /\ pc' \in {"eraseSrc", "eraseBad"}
      /\ cp' = cp /\ UNCHANGED <<req, done>>
  BY DEF Compare00
<1>1. FlashType'
  BY ErasedType DEF Compare00, TypeInv, TypeOK
<1>2. faults' \in 0 .. MaxFaults
  BY FaultType DEF Compare00, TypeInv, TypeOK, EnvType
<1>3. RamType' /\ CallType' /\ EnvType'
  BY <1>0, <1>2 DEF Compare00, ram, TypeInv, TypeOK, RamType, CallType, EnvType, Pcs
<1>4. Shape'
  BY <1>0, TestShape DEF TypeInv, Shape, TestPcs
<1> QED
  BY <1>1, <1>3, <1>4 DEF TypeInv, TypeOK

LEMMA EraseTestedType == ASSUME TypeInv, EraseTested PROVE TypeInv'
<1>0. /\ pc \in {"eraseSrc", "eraseBad"} /\ pc \in LoopPcs /\ pc \in TestPcs
      /\ req.op = "read" /\ done < req.len
      /\ PageRun \in 1 .. Left /\ Left \in Nat
  BY Addressing DEF EraseTested, TypeInv, Shape, LoopPcs, TestPcs
<1>1. /\ req' \in Requests /\ markd' \in 0 .. NB /\ buf' \in Buffers
      /\ (pc' # "idle" => req' = req)
  BY FrameType DEF EraseTested, TypeInv, TypeOK, CallType
<1>2. FlashType'
  BY ErasedType DEF EraseTested, TypeInv, TypeOK
<1>3. faults' \in 0 .. MaxFaults
  BY FaultType DEF EraseTested, TypeInv, TypeOK, EnvType
<1>4. RamType' /\ EnvType'
  BY <1>3 DEF EraseTested, TypeInv, TypeOK, RamType, EnvType, ram
<1>5. CASE pc = "eraseSrc"
  <2>1. /\ pc' \in {"idle", "read"} /\ done' \in 0 .. MaxLen - 1
        /\ cp' \in Copies /\ rc' \in 0 .. 3 /\ (pc' # "idle" => done' < req.len)
    BY <1>0, <1>5, AdvanceType DEF EraseTested
  <2>2. CallType'
    BY <1>1, <2>1 DEF EraseTested, TypeInv, TypeOK, CallType, Pcs
  <2>3. Shape'
    BY <1>0, <1>1, <2>1, LoopShape
  <2> QED
    BY <1>2, <1>4, <2>2, <2>3 DEF TypeInv, TypeOK
<1>6. CASE pc # "eraseSrc"
  <2>1. pc' = "condemnSrc" /\ UNCHANGED <<cp, done, rc>> /\ req' = req
    BY <1>1, <1>6 DEF EraseTested
  <2>2. CallType'
    BY <1>1, <2>1 DEF EraseTested, TypeInv, TypeOK, CallType, Pcs
  <2>3. Shape'
    BY <1>0, <2>1, TestShape DEF TestPcs
  <2> QED
    BY <1>2, <1>4, <2>2, <2>3 DEF TypeInv, TypeOK
<1> QED
  BY <1>5, <1>6

LEMMA CondemnSourceType == ASSUME TypeInv, CondemnSource PROVE TypeInv'
<1>0. /\ pc = "condemnSrc" /\ pc \in LoopPcs /\ req.op = "read" /\ done < req.len
      /\ PageRun \in 1 .. Left /\ Left \in Nat
  BY Addressing DEF CondemnSource, TypeInv, Shape, LoopPcs, TestPcs
<1>1. /\ req' \in Requests /\ markd' \in 0 .. NB /\ buf' \in Buffers
      /\ (pc' # "idle" => req' = req)
  BY FrameType DEF CondemnSource, TypeInv, TypeOK, CallType
<1>2. tag' \in [Blk -> Tag] /\ (faults' = faults \/ faults' \in 0 .. MaxFaults)
  BY BadBlockMarkType DEF CondemnSource
<1>3. lut' \in [Blk -> 0 .. NB] /\ valid' \in 0 .. NB
  BY CreateLUTType DEF CondemnSource, TypeInv
<1>4. FlashType' /\ RamType' /\ EnvType'
  BY <1>2, <1>3 DEF CondemnSource, TypeInv, TypeOK, FlashType, RamType, EnvType
<1>5. /\ pc' \in {"idle", "read"} /\ done' \in 0 .. MaxLen - 1
      /\ cp' \in Copies /\ rc' \in 0 .. 3 /\ (pc' # "idle" => done' < req.len)
  BY <1>0, AdvanceType DEF CondemnSource
<1>6. CallType'
  BY <1>1, <1>5 DEF CondemnSource, TypeInv, TypeOK, CallType, Pcs
<1>7. Shape'
  BY <1>0, <1>1, <1>5, LoopShape
<1> QED
  BY <1>4, <1>6, <1>7 DEF TypeInv, TypeOK

(* Outside the loops only the format's counters are constrained. *)
LEMMA OutsideShape ==
  ASSUME \/ pc' \in {"idle", "boot"}
         \/ pc' = "fmtErase" /\ fmt'.i \in Blk /\ fmt'.good <= fmt'.i /\ fmt'.n = 0
         \/ pc' = "fmtTag" /\ fmt'.i \in NB .. 2 * NB - 1 /\ fmt'.n <= fmt'.i - NB
  PROVE  Shape'
  BY DEF Shape, LoopPcs, CopyPcs, DestPcs, TestPcs

LEMMA BootType == ASSUME TypeInv, Boot PROVE TypeInv'
<1>0. pc' \in {"fmtErase", "idle"} /\ fmt' = NoFmt
  BY DEF Boot
<1>1. lut' \in [Blk -> 0 .. NB] /\ valid' \in 0 .. NB
  BY CreateLUTType DEF Boot, TypeInv
<1>2. FlashType' /\ RamType' /\ CallType' /\ EnvType'
  BY <1>0, <1>1, NothingType
  DEF Boot, flash, env, TypeInv, TypeOK, FlashType, RamType, CallType, EnvType, Pcs
<1>3. Shape'
  BY <1>0, OutsideShape, GeometryAssumption DEF NoFmt, Blk
<1> QED
  BY <1>2, <1>3 DEF TypeInv, TypeOK

LEMMA FormatEraseType == ASSUME TypeInv, FormatErase PROVE TypeInv'
<1>0. /\ pc = "fmtErase" /\ fmt \in Formats /\ fmt.i \in Blk
      /\ fmt.good \in Nat /\ fmt.good <= fmt.i /\ fmt.n = 0 /\ fmt.good \in 0 .. NB
  BY GeometryAssumption DEF FormatErase, TypeInv, TypeOK, CallType, Shape, Formats
<1>1. PICK g \in {fmt.good, fmt.good + 1} :
        fmt' = [fmt EXCEPT !.i = fmt.i + 1, !.good = g]
  <2>1. CASE fmt' = [fmt EXCEPT !.i = fmt.i + 1]
    BY <1>0, <2>1 DEF Formats
  <2>2. CASE fmt' = [fmt EXCEPT !.i = fmt.i + 1, !.good = @ + 1]
    BY <1>0, <2>2 DEF Formats
  <2> QED
    BY <2>1, <2>2 DEF FormatErase
<1>2. /\ fmt.i + 1 \in 0 .. 2 * NB /\ g \in 0 .. NB /\ g <= fmt.i + 1
      /\ fmt.i + 1 <= NB
  BY <1>0, GeometryAssumption DEF Blk
<1>3. /\ fmt' \in Formats /\ fmt'.i = fmt.i + 1 /\ fmt'.good = g /\ fmt'.n = 0
  BY <1>0, <1>1, <1>2 DEF Formats
<1>4. faults' \in 0 .. MaxFaults
  BY FaultType DEF FormatErase, TypeInv, TypeOK, EnvType
<1>5. FlashType'
  <2>1. CASE UNCHANGED flash \/ Erased(fmt.i)
    BY <2>1, ErasedType DEF TypeInv, TypeOK
  <2>2. CASE tag' = [tag EXCEPT ![fmt.i] = BadTag] /\ UNCHANGED cell
    BY <2>2, TagType DEF TypeInv, TypeOK, FlashType
  <2> QED
    BY <2>1, <2>2 DEF FormatErase
<1>6. /\ pc' \in {"fmtErase", "fmtTag", "idle"}
      /\ pc' = "fmtErase" => fmt.i # NB - 1
      /\ pc' = "fmtTag" => fmt.i = NB - 1
  BY DEF FormatErase
<1>7. RamType' /\ CallType' /\ EnvType'
  BY <1>3, <1>4, <1>6
  DEF FormatErase, ram, TypeInv, TypeOK, RamType, CallType, EnvType, Pcs
<1>8. Shape'
  <2>1. CASE pc' = "idle"
    BY <2>1, OutsideShape
  <2>2. CASE pc' = "fmtErase"
    <3>1. fmt'.i \in Blk /\ fmt'.good <= fmt'.i /\ fmt'.n = 0
      BY <1>0, <1>2, <1>3, <1>6, <2>2, GeometryAssumption DEF Blk
    <3> QED
      BY <2>2, <3>1, OutsideShape
  <2>3. CASE pc' = "fmtTag"
    <3>1. fmt'.i \in NB .. 2 * NB - 1 /\ fmt'.n <= fmt'.i - NB
      BY <1>3, <1>6, <2>3, GeometryAssumption
    <3> QED
      BY <2>3, <3>1, OutsideShape
  <2> QED
    BY <1>6, <2>1, <2>2, <2>3
<1> QED
  BY <1>5, <1>7, <1>8 DEF TypeInv, TypeOK

LEMMA FormatEraseUnmarkedType == ASSUME TypeInv, FormatEraseUnmarked PROVE TypeInv'
<1>0. /\ pc = "fmtErase" /\ fmt \in Formats /\ fmt.i \in Blk
      /\ fmt.good \in Nat /\ fmt.good <= fmt.i /\ fmt.n = 0
      /\ fmt' = [fmt EXCEPT !.i = fmt.i + 1]
  BY DEF FormatEraseUnmarked, TypeInv, TypeOK, CallType, Shape, Formats
<1>1. fmt.i + 1 \in 0 .. 2 * NB /\ fmt.good <= fmt.i + 1 /\ fmt.i + 1 <= NB
  BY <1>0, GeometryAssumption DEF Blk
<1>2. fmt' \in Formats /\ fmt'.i = fmt.i + 1 /\ fmt'.good = fmt.good /\ fmt'.n = 0
  BY <1>0, <1>1 DEF Formats
<1>3. faults' \in 0 .. MaxFaults
  BY FTLAssumption DEF FormatEraseUnmarked, FaultsAt, TypeInv, TypeOK, EnvType
<1>4. FlashType'
  BY HalfMarkType DEF FormatEraseUnmarked, TypeInv, TypeOK, FlashType
<1>5. /\ pc' \in {"fmtErase", "fmtTag", "idle"}
      /\ pc' = "fmtErase" => fmt.i # NB - 1
      /\ pc' = "fmtTag" => fmt.i = NB - 1
  BY DEF FormatEraseUnmarked
<1>6. RamType' /\ CallType' /\ EnvType'
  <2>1. lost' \in BOOLEAN
    BY Zenon DEF FormatEraseUnmarked, TypeInv, TypeOK, EnvType
  <2> QED
    BY <1>2, <1>3, <1>5, <2>1
    DEF FormatEraseUnmarked, ram, TypeInv, TypeOK, RamType, CallType, EnvType, Pcs
<1>7. CASE pc' = "idle"
  BY <1>4, <1>6, <1>7, OutsideShape DEF TypeInv, TypeOK
<1>8. CASE pc' = "fmtErase"
  <2>1. fmt'.i \in Blk /\ fmt'.good <= fmt'.i /\ fmt'.n = 0
    BY <1>0, <1>1, <1>2, <1>5, <1>8, GeometryAssumption DEF Blk
  <2> QED
    BY <1>4, <1>6, <1>8, <2>1, OutsideShape DEF TypeInv, TypeOK
<1>9. CASE pc' = "fmtTag"
  <2>1. fmt'.i \in NB .. 2 * NB - 1 /\ fmt'.n <= fmt'.i - NB
    BY <1>2, <1>5, <1>9, GeometryAssumption
  <2> QED
    BY <1>4, <1>6, <1>9, <2>1, OutsideShape DEF TypeInv, TypeOK
<1> QED
  BY <1>5, <1>7, <1>8, <1>9

LEMMA FormatUnnumberedType == ASSUME TypeInv, FormatUnnumbered PROVE TypeInv'
<1>0. /\ pc = "fmtTag" /\ fmt \in Formats /\ fmt.i \in NB .. 2 * NB - 1
      /\ fmt.n \in 0 .. NB /\ fmt.n <= fmt.i - NB
  BY DEF FormatUnnumbered, TypeInv, TypeOK, CallType, Shape, Formats
<1>1. FlashType' /\ EnvType'
  <2>1. faults' \in 0 .. MaxFaults
    BY FaultType DEF FormatUnnumbered, TypeInv
  <2> QED
    BY <2>1 DEF FormatUnnumbered, flash, TypeInv, TypeOK, FlashType, EnvType
<1>2. CASE CreateLUT(tag) /\ pc' = "idle" /\ fmt' = NoFmt
  <2>1. lut' \in [Blk -> 0 .. NB] /\ valid' \in 0 .. NB
    BY <1>2, CreateLUTType DEF TypeInv
  <2>2. RamType' /\ CallType'
    BY <1>2, <2>1, NothingType
    DEF FormatUnnumbered, TypeInv, TypeOK, RamType, CallType, Pcs
  <2> QED
    BY <1>1, <1>2, <2>2, OutsideShape DEF TypeInv, TypeOK
<1>3. CASE /\ fmt.i - NB # NB - 1 /\ UNCHANGED <<lut, valid, pc>>
           /\ fmt' = [fmt EXCEPT !.i = fmt.i + 1, !.n = fmt.n + 1]
  <2>1. /\ fmt.i + 1 \in 0 .. 2 * NB /\ fmt.i + 1 \in NB .. 2 * NB - 1
        /\ fmt.n + 1 \in 0 .. NB /\ fmt.n + 1 <= fmt.i + 1 - NB
    BY <1>0, <1>3, GeometryAssumption
  <2>2. fmt' \in Formats /\ fmt'.i = fmt.i + 1 /\ fmt'.n = fmt.n + 1
    BY <1>0, <1>3, <2>1 DEF Formats
  <2>3. RamType' /\ CallType'
    BY <1>3, <2>2 DEF FormatUnnumbered, TypeInv, TypeOK, RamType, CallType, Pcs
  <2>4. pc' = "fmtTag" /\ fmt'.i \in NB .. 2 * NB - 1
    BY <1>0, <1>3, <2>1, <2>2, Zenon
  <2>5. fmt'.n <= fmt'.i - NB
    <3>0. ASSUME NEW i \in Int, NEW n \in Int, n + 1 <= i + 1 - NB,
                 NEW x, NEW y, x = i + 1, y = n + 1
          PROVE  y <= x - NB
      BY <3>0, GeometryAssumption
    <3>1. fmt.i \in Int /\ fmt.n \in Int
      BY <1>0, GeometryAssumption
    <3> QED
      BY <2>1, <2>2, <3>0, <3>1, Zenon
  <2> QED
    BY <1>1, <2>3, <2>4, <2>5, OutsideShape DEF TypeInv, TypeOK
<1>4. \/ CreateLUT(tag) /\ pc' = "idle" /\ fmt' = NoFmt
      \/ /\ fmt.i - NB # NB - 1 /\ UNCHANGED <<lut, valid, pc>>
         /\ fmt' = [fmt EXCEPT !.i = fmt.i + 1, !.n = fmt.n + 1]
  BY <1>0 DEF FormatUnnumbered, Formats
<1> QED
  BY <1>2, <1>3, <1>4

LEMMA FormatTagType == ASSUME TypeInv, FormatTag PROVE TypeInv'
<1> DEFINE blk  == fmt.i - NB
           good == ~tag[blk].bad
           num  == IF good THEN fmt.n + 1 ELSE fmt.n
           last == blk = NB - 1 \/ (good /\ num = (fmt.good * Percent) \div 100)
<1>0. /\ pc = "fmtTag" /\ fmt \in Formats /\ fmt.i \in NB .. 2 * NB - 1
      /\ fmt.n \in 0 .. NB /\ fmt.n <= fmt.i - NB /\ blk \in Blk
  BY GeometryAssumption DEF FormatTag, TypeInv, TypeOK, CallType, Shape, Formats, Blk
<1>1. /\ tag' = IF good THEN [tag EXCEPT ![blk].lbn = IF @ = NB THEN fmt.n ELSE @] ELSE tag
      /\ \/ last /\ CreateLUT(tag') /\ pc' = "idle" /\ fmt' = NoFmt
         \/ /\ ~last /\ fmt' = [fmt EXCEPT !.i = @ + 1, !.n = num]
            /\ UNCHANGED <<lut, valid, pc>>
  BY DEF FormatTag
<1>2. tag' \in [Blk -> Tag]
  <2>1. tag \in [Blk -> Tag] /\ tag[blk] \in Tag
    BY <1>0 DEF TypeInv, TypeOK, FlashType
  <2>2. [tag[blk] EXCEPT !.lbn = IF @ = NB THEN fmt.n ELSE @] \in Tag
    BY <1>0, <2>1 DEF Tag
  <2> QED
    BY <1>1, <2>1, <2>2
<1>3. FlashType'
  BY <1>2 DEF FormatTag, TypeInv, TypeOK, FlashType
<1>4. EnvType'
  BY DEF FormatTag, TypeInv, TypeOK, EnvType, env
<1>5. CASE last /\ CreateLUT(tag') /\ pc' = "idle" /\ fmt' = NoFmt
  <2>1. lut' \in [Blk -> 0 .. NB] /\ valid' \in 0 .. NB
    BY <1>5, CreateLUTType DEF TypeInv
  <2>2. RamType' /\ CallType'
    BY <1>5, <2>1, NothingType
    DEF FormatTag, TypeInv, TypeOK, RamType, CallType, Pcs
  <2>3. Shape'
    BY <1>5, OutsideShape
  <2> QED
    BY <1>3, <1>4, <2>2, <2>3 DEF TypeInv, TypeOK
<1>6. CASE /\ ~last /\ fmt' = [fmt EXCEPT !.i = @ + 1, !.n = num]
           /\ UNCHANGED <<lut, valid, pc>>
  <2>1. blk < NB - 1 /\ num \in 0 .. NB /\ num <= fmt.i + 1 - NB
    BY <1>0, <1>6, GeometryAssumption DEF Blk
  <2>2. fmt.i + 1 \in 0 .. 2 * NB /\ fmt.i + 1 \in NB .. 2 * NB - 1
    BY <1>0, <2>1, GeometryAssumption DEF Blk
  <2>3. fmt' = [fmt EXCEPT !.i = fmt.i + 1, !.n = num]
    BY <1>0, <1>6 DEF Formats
  <2> HIDE DEF num, last
  <2>4. fmt' \in Formats /\ fmt'.i = fmt.i + 1 /\ fmt'.n = num
    BY <1>0, <2>1, <2>2, <2>3 DEF Formats
  <2>5. RamType' /\ CallType'
    BY <1>6, <2>4 DEF FormatTag, TypeInv, TypeOK, RamType, CallType, Pcs
  <2>6. Shape'
    <3>1. pc' = "fmtTag" /\ fmt'.i \in NB .. 2 * NB - 1
      BY <1>0, <1>6, <2>2, <2>4
    <3>2. fmt'.n <= fmt'.i - NB
      BY <1>0, <2>1, <2>4, GeometryAssumption
    <3> QED
      BY <3>1, <3>2, OutsideShape
  <2> QED
    BY <1>3, <1>4, <2>5, <2>6 DEF TypeInv, TypeOK
<1> QED
  BY <1>1, <1>5, <1>6

LEMMA ReinitType == ASSUME TypeInv, Reinit PROVE TypeInv'
<1>1. TypeOK'
  BY DEF Reinit, flash, ram, env, TypeInv, TypeOK, FlashType, RamType, CallType,
         EnvType, Pcs
<1>2. Shape'
  BY OutsideShape DEF Reinit
<1> QED
  BY <1>1, <1>2 DEF TypeInv

LEMMA CrashType == ASSUME TypeInv, Crash PROVE TypeInv'
<1>1. crashes' \in 0 .. MaxCrashes
  BY FTLAssumption DEF Crash, TypeInv, TypeOK, EnvType
<1>2. TypeOK'
  BY <1>1, NothingType, GeometryAssumption, FTLAssumption
  DEF Crash, flash, TypeInv, TypeOK, FlashType, RamType, CallType, EnvType, Pcs
<1>3. Shape'
  BY OutsideShape DEF Crash
<1> QED
  BY <1>2, <1>3 DEF TypeInv

LEMMA FlipType == ASSUME TypeInv, Flip PROVE TypeInv'
<1>1. flips' \in 0 .. MaxFlips
  BY FTLAssumption DEF Flip, TypeInv, TypeOK, EnvType
<1>2. cell' \in [Blk -> [Page -> [Sec -> Cell]]]
  <2>1. PICK b \in Blk, p \in Page, s \in Sec :
          cell' = [cell EXCEPT ![b][p][s].flip = TRUE]
    BY DEF Flip
  <2>2. cell[b][p] \in [Sec -> Cell] /\ cell[b][p][s] \in Cell
    BY DEF TypeInv, TypeOK, FlashType
  <2>3. [cell[b][p][s] EXCEPT !.flip = TRUE] \in Cell
    BY <2>2 DEF Cell
  <2>4. [cell[b][p] EXCEPT ![s] = [cell[b][p][s] EXCEPT !.flip = TRUE]] \in [Sec -> Cell]
    BY <2>2, <2>3
  <2>5. cell' = [cell EXCEPT ![b][p] =
                   [cell[b][p] EXCEPT ![s] = [cell[b][p][s] EXCEPT !.flip = TRUE]]]
    BY <2>1
  <2> QED
    BY <2>4, <2>5, CellUpdate DEF TypeInv, TypeOK
<1>3. TypeOK'
  BY <1>1, <1>2
  DEF Flip, ram, TypeInv, TypeOK, FlashType, RamType, CallType, EnvType, Pcs
<1>4. Shape'
  BY OutsideShape DEF Flip
<1> QED
  BY <1>3, <1>4 DEF TypeInv

-----------------------------------------------------------------------------

LEMMA InitType == Init => TypeInv
<1> SUFFICES ASSUME Init PROVE TypeInv
  OBVIOUS
<1>1. cell \in [Blk -> [Page -> [Sec -> Cell]]] /\ tag \in [Blk -> Tag]
  BY BlankType, TagType DEF Init
<1>2. TypeOK
  <2>1. FlashType /\ EnvType
    <3>1. lost \in BOOLEAN
      BY Zenon DEF Init
    <3>2. faults = 0 /\ crashes = 0 /\ flips = 0
      BY DEF Init
    <3> QED
      BY <1>1, <3>1, <3>2, FTLAssumption DEF FlashType, EnvType
  <2>2. RamType
    BY GeometryAssumption DEF Init, RamType
  <2>3. CallType
    BY NothingType, GeometryAssumption, FTLAssumption DEF Init, CallType, Pcs
  <2> QED
    BY <2>1, <2>2, <2>3 DEF TypeOK
<1>3. Shape
  BY DEF Init, Shape, LoopPcs, CopyPcs, DestPcs, TestPcs
<1> QED
  BY <1>2, <1>3 DEF TypeInv

LEMMA StutterType == ASSUME TypeInv, UNCHANGED vars PROVE TypeInv'
  BY DEF vars, flash, ram, env, TypeInv, TypeOK, FlashType, RamType, CallType,
         EnvType, Shape, PBN, LBNToPBN, At

(* Every step keeps every variable in range and the locals where they belong. *)
LEMMA NextType == TypeInv /\ [Next]_vars => TypeInv'
<1> SUFFICES ASSUME TypeInv, [Next]_vars PROVE TypeInv'
  OBVIOUS
<1>1. CASE Call
  BY <1>1, CallWriteType, CallReadType, ReinitType DEF Call
<1>2. CASE Unmapped \/ ReadTimeout
  BY <1>2, UnmappedType, ReadTimeoutType
<1>3. CASE WriteStep
  BY <1>3, WriteDirectType, MarkType, WriteMoveType DEF WriteStep
<1>4. CASE ReadStep
  BY <1>4, ReadRunType, CompareFFType, Compare00Type, EraseTestedType,
     CondemnSourceType DEF ReadStep
<1>5. CASE CopyStep
  BY <1>5, FindType, CopyPageType, CondemnType, MarkCopyType, EraseSourceType,
     FixLUTType DEF CopyStep
<1>6. CASE FormatStep
  BY <1>6, BootType, FormatEraseType, FormatEraseUnmarkedType, FormatTagType,
     FormatUnnumberedType DEF FormatStep
<1>7. CASE Crash \/ Flip
  BY <1>7, CrashType, FlipType
<1>8. CASE UNCHANGED vars
  BY <1>8, StutterType
<1> QED
  BY <1>1, <1>2, <1>3, <1>4, <1>5, <1>6, <1>7, <1>8 DEF Next, Step

LEMMA TypeInvariance == Spec => []TypeInv
<1> QED
  BY InitType, NextType, PTL DEF Spec

(***************************************************************************)
(* Every variable stays in range: for every geometry, request length and   *)
(* number of faults the loop indices, page and column numbers, the table   *)
(* and the counters of the format never leave the arrays they index.       *)
(***************************************************************************)
THEOREM TypeCorrect == Spec => []TypeOK
<1>1. TypeInv => TypeOK
  BY DEF TypeInv
<1> QED
  BY <1>1, TypeInvariance, PTL

-----------------------------------------------------------------------------
(* LutInv: the table names the blocks that carry the numbers.              *)

(* No block's bad mark or number changes. *)
KeepsNumbers == \A b \in Blk : tag'[b].bad = tag[b].bad /\ tag'[b].lbn = tag[b].lbn

(* What LutInv says of the blocks in the table. *)
LEMMA MappedTagged ==
  ASSUME TypeInv, LutInv, ~lost, pc \notin FormatPcs \cup {"fixlut"}
  PROVE  \A l \in Blk : \/ lut[l] = NB
                        \/ lut[l] \in Blk /\ Tagged(lut[l], l)
<1>1. \A l \in Blk : lut[l] \in 0 .. NB
  BY DEF TypeInv, TypeOK, RamType
<1>2. \A l \in Blk : lut[l] = NB \/ Tagged(lut[l], l)
  BY DEF LutInv, LutTagged, FormatPcs
<1> QED
  BY <1>1, <1>2, GeometryAssumption DEF Blk

(* Once a repair has found no spare block nothing is promised. *)
LEMMA LostInv == ASSUME lost' PROVE LutInv'
  BY DEF LutInv, LutTagged

(* A step in the loops that changes no number and no entry. *)
LEMMA QuietInv ==
  ASSUME TypeInv, LutInv, ~lost, pc \notin FormatPcs \cup {"fixlut"},
         lut' = lut, KeepsNumbers, pc' \in {"idle", "write", "read", "mark", "boot"}
  PROVE  LutInv'
<1>1. \A l \in Blk : lut'[l] = NB \/ Tagged(lut[l], l)' 
  BY MappedTagged DEF KeepsNumbers, Tagged
<1> QED
  BY <1>1 DEF LutInv, LutTagged, CopyInv, DestPcs, TestPcs, CopyPcs

(* A table built from the tags. *)
LEMMA RebuiltInv ==
  ASSUME CreateLUT(tag'), pc' \in {"idle", "write", "read", "fmtErase"}
  PROVE  LutInv'
<1>1. \A l \in Blk : lut'[l] = NB \/ Tagged(lut[l], l)'
  <2>1. \A l \in Blk : \/ TaggedLut(tag')[l] = NB
                       \/ /\ ~tag'[TaggedLut(tag')[l]].bad
                          /\ tag'[TaggedLut(tag')[l]].lbn = l
    BY TaggedLutType
  <2>2. lut' = TaggedLut(tag')
    BY DEF CreateLUT
  <2> QED
    BY <2>1, <2>2 DEF Tagged
<1> QED
  BY <1>1 DEF LutInv, LutTagged, CopyInv, DestPcs, TestPcs, CopyPcs

(* A copy starts from a block of the table. *)
LEMMA StartCopyInv ==
  ASSUME TypeInv, LutInv, ~lost, pc \in {"write", "read", "mark"}, PBN # NB,
         lut' = lut, KeepsNumbers, NEW n, StartCopy(n)
  PROVE  LutInv'
<1>1. \A l \in Blk : lut'[l] = NB \/ Tagged(lut[l], l)'
  BY MappedTagged DEF KeepsNumbers, Tagged, FormatPcs
<1>2. pc' = "find" /\ cp'.src = PBN
  BY DEF StartCopy
<1>3. PICK l \in Blk : PBN = lut[l]
  <2>1. At \div SPB \in Nat
    BY Addressing DEF LoopPcs
  <2> QED
    BY <2>1, GeometryAssumption DEF PBN, LBNToPBN, Blk
<1>4. PBN \in Blk /\ Tagged(PBN, l)
  BY <1>3, MappedTagged DEF FormatPcs
<1>5. ~tag'[cp'.src].bad /\ tag'[cp'.src].lbn # NB
  BY <1>2, <1>4, GeometryAssumption DEF KeepsNumbers, Tagged, Blk
<1> QED
  BY <1>1, <1>2, <1>5 DEF LutInv, LutTagged, CopyInv, DestPcs, TestPcs, CopyPcs

(* Setting a used mark changes no number. *)
LEMMA UsedKeepsNumbers ==
  ASSUME TypeInv, NEW b, tag' \in {tag, [tag EXCEPT ![b].used = TRUE]}
  PROVE  KeepsNumbers
  BY DEF TypeInv, TypeOK, FlashType, Tag, KeepsNumbers

LEMMA CallInv ==
  ASSUME TypeInv, LutInv, ~lost,
         CallWrite \/ CallRead \/ Reinit \/ Unmapped \/ ReadTimeout \/ Flip
  PROVE  LutInv'
<1>1. lut' = lut /\ tag' = tag
  BY DEF CallWrite, CallRead, Reinit, Unmapped, ReadTimeout, Flip, flash, ram
<1>2. pc \in {"idle", "write", "read"} /\ pc' \in {"idle", "write", "read", "boot"}
  BY DEF CallWrite, CallRead, Reinit, Unmapped, ReadTimeout, Flip, Return
<1> QED
  BY <1>1, <1>2, QuietInv DEF KeepsNumbers, FormatPcs

(* The iterations of the two loops. *)
LEMMA LoopInv ==
  ASSUME TypeInv, LutInv, ~lost, WriteDirect \/ Mark \/ WriteMove \/ ReadRun
  PROVE  LutInv'
<1>1. /\ pc \in {"write", "mark", "read"} /\ PBN # NB /\ lut' = lut
      /\ req.op \in {"write", "read"}
  BY GeometryAssumption
  DEF WriteDirect, Mark, WriteMove, ReadRun, ram, TypeInv, Shape, Blk
<1>2. KeepsNumbers
  <2>1. CASE Mark
    BY <2>1, UsedKeepsNumbers DEF Mark
  <2>2. CASE WriteDirect \/ WriteMove \/ ReadRun
    BY <2>2 DEF WriteDirect, WriteMove, ReadRun, flash, KeepsNumbers
  <2> QED
    BY <2>1, <2>2
<1>3. \/ \E n : StartCopy(n)
      \/ pc' \in {"idle", "write", "read", "mark"}
  BY <1>1 DEF WriteDirect, Mark, WriteMove, ReadRun, Advance, Return
<1> QED
  BY <1>1, <1>2, <1>3, QuietInv, StartCopyInv DEF FormatPcs

(* With whole marks FTL_FindUnusedBlock sees every one of them. *)
LEMMA UnusedIsFree ==
  ASSUME TypeInv, WholeMarks, Whole, NEW b \in Blk, Unused(b)
  PROVE  Free(b)
<1>1. tag[b] \in Tag
  BY DEF TypeInv, TypeOK, FlashType
<1>2. ~tag[b].used /\ tag[b].lbn = NB
  BY DEF Unused
<1>3. ~tag[b].bad
  BY <1>2, Zenon DEF Whole
<1> QED
  BY <1>1, <1>2, <1>3 DEF Free, FreshTag, Tag

(* A free block has no number, so it is not in the table. *)
LEMMA FindInv ==
  ASSUME TypeInv, WholeMarks, Whole, LutInv, ~lost, Find
  PROVE  LutInv'
<1>0. pc = "find" /\ lut' = lut /\ tag' = tag
  BY DEF Find, flash
<1>1. \A l \in Blk : lut'[l] = NB \/ Tagged(lut[l], l)'
  BY <1>0, MappedTagged DEF Tagged, FormatPcs
<1>2. CASE FindBlock # NB
  <2>1. FindBlock \in Blk /\ Free(FindBlock)
    <3> DEFINE spare == {b \in Blk : Unused(b) /\ b % 2 = cp.src % 2}
               below == {b \in spare : b <= cur}
    <3>1. spare \in SUBSET Blk /\ below \in SUBSET Blk
      OBVIOUS
    <3>2. Highest(spare) \in spare \cup {NB} /\ Highest(below) \in below \cup {NB}
      BY <3>1, Extremes
    <3>3. FindBlock = IF below # {} THEN Highest(below) ELSE Highest(spare)
      BY DEF FindBlock
    <3> QED
      BY <1>2, <3>2, <3>3, UnusedIsFree
  <2>2. /\ pc' = "copy" /\ lost' = lost
        /\ cp' = [cp EXCEPT !.dst = FindBlock, !.page = 0]
    BY <1>2 DEF Find
  <2>3. cp \in Copies
    BY DEF TypeInv, TypeOK, CallType
  <2>4. cp'.src = cp.src /\ cp'.dst = FindBlock /\ cp'.page = 0
    BY <2>1, <2>2, <2>3, DestType
  <2>5. ~tag[cp.src].bad /\ tag[cp.src].lbn # NB
    BY <1>0 DEF LutInv, CopyInv, CopyPcs
  <2>6. tag[FindBlock].lbn = NB
    BY <2>1 DEF Free, FreshTag
  <2>7. FindBlock # cp.src
    BY <2>5, <2>6
  <2>8. \A l \in Blk : lut[l] # FindBlock
    <3>1. \A l \in Blk : ~Tagged(FindBlock, l)
      BY <2>6, GeometryAssumption DEF Tagged, Blk
    <3> QED
      BY <1>0, <1>2, <3>1, MappedTagged DEF FormatPcs
  <2>9. CopyInv'
    BY <1>0, <2>1, <2>2, <2>4, <2>5, <2>7, <2>8
    DEF CopyInv, DestPcs, TestPcs, CopyPcs, Mapped, Free
  <2> QED
    BY <1>1, <2>9 DEF LutInv, LutTagged
<1>3. CASE FindBlock = NB
  <2>1. CASE req.op = "write"
    BY <1>0, <1>3, <2>1, QuietInv DEF Find, Return, KeepsNumbers, FormatPcs
  <2>2. CASE req.op # "write"
    BY <1>3, <2>2, LostInv DEF Find
  <2> QED
    BY <2>1, <2>2
<1> QED
  BY <1>2, <1>3

(* Page 0 gives the destination the source's number. *)
LEMMA CopyPageInv ==
  ASSUME TypeInv, LutInv, ~lost, CopyPage
  PROVE  LutInv'
<1>0. /\ pc = "copy" /\ lut' = lut /\ tag \in [Blk -> Tag]
      /\ cp.src \in Blk /\ cp.dst \in Blk /\ cp.dst # cp.src /\ ~Mapped(cp.dst)
      /\ ~tag[cp.src].bad /\ tag[cp.src].lbn # NB
      /\ cp.page \in Page /\ cp.page \in Nat /\ cp \in Copies
  BY DEF CopyPage, ram, TypeInv, TypeOK, FlashType, CallType, Shape, LutInv, CopyInv,
         CopyPcs, DestPcs, Page
<1>1. /\ Consumed \in Copies /\ Consumed.page = cp.page
      /\ Consumed.src = cp.src /\ Consumed.dst = cp.dst
  BY <1>0, ConsumedType
<1>2. \A b \in Blk \ {cp.dst} : tag'[b] = tag[b]
  BY <1>0 DEF CopyPage, TagCopied, flash
<1>3. \A l \in Blk : lut'[l] = NB \/ (lut'[l] \in Blk /\ Tagged(lut[l], l)')
  BY <1>0, <1>2, MappedTagged DEF Tagged, Mapped, FormatPcs
<1>4. cp'.src = cp.src /\ cp'.dst = cp.dst
  <2>1. CASE cp' = Consumed
    BY <1>1, <2>1
  <2>2. CASE cp' = [Consumed EXCEPT !.page = @ + 1]
    BY <1>1, <2>2 DEF Copies
  <2> QED
    BY <2>1, <2>2 DEF CopyPage
<1>5. pc' \in {"copy", "used", "condemn"}
  BY DEF CopyPage
<1>6. /\ cp'.dst # cp'.src /\ ~Mapped(cp.dst)'
      /\ ~tag'[cp'.src].bad /\ tag'[cp'.src].lbn # NB
  BY <1>0, <1>2, <1>4 DEF Mapped
<1>7. CASE pc' = "condemn"
  BY <1>3, <1>6, <1>7 DEF LutInv, LutTagged, CopyInv, CopyPcs, DestPcs, TestPcs
<1>8. CASE pc' # "condemn"
  <2>1. TagCopied /\ cp' = [Consumed EXCEPT !.page = @ + 1]
    BY <1>8 DEF CopyPage
  <2>2. cp'.page # 0
    BY <1>0, <1>1, <2>1 DEF Copies
  <2>3. ASSUME NEW l \in Blk, lut[l] = cp.src PROVE Tagged(cp.dst, l)'
    <3>1. CASE cp.page # 0
      <4>1. Tagged(cp.dst, l)
        BY <1>0, <2>3, <3>1 DEF LutInv, CopyInv
      <4> QED
        BY <1>4, <2>1, <3>1, <4>1 DEF TagCopied, Tagged
    <3>2. CASE cp.page = 0
      <4>1. Free(cp.dst) /\ Tagged(cp.src, l)
        BY <1>0, <2>3, <3>2, MappedTagged, GeometryAssumption
        DEF LutInv, CopyInv, FormatPcs, Blk
      <4>2. tag'[cp.dst] = AndTag(tag[cp.dst], tag[cp.src])
        BY <1>0, <2>1, <3>2 DEF TagCopied
      <4>3. ~tag'[cp.dst].bad /\ tag'[cp.dst].lbn = l
        <5>1. /\ tag'[cp.dst].bad = (tag[cp.dst].bad \/ tag[cp.src].bad)
              /\ tag'[cp.dst].lbn = IF tag[cp.dst].lbn = NB THEN tag[cp.src].lbn
                                                            ELSE tag[cp.dst].lbn
          BY <4>2 DEF AndTag
        <5>2. ~tag[cp.dst].bad /\ tag[cp.dst].lbn = NB
          BY <4>1 DEF Free, FreshTag
        <5>3. ~tag[cp.src].bad /\ tag[cp.src].lbn = l
          BY <4>1 DEF Tagged
        <5> QED
          BY <5>1, <5>2, <5>3
      <4> QED
        BY <1>4, <4>3 DEF Tagged
    <3> QED
      BY <3>1, <3>2
  <2>4. CopyInv'
    BY <1>0, <1>4, <1>5, <1>6, <1>8, <2>2, <2>3
    DEF CopyInv, CopyPcs, DestPcs, TestPcs, Mapped
  <2> QED
    BY <1>3, <1>5, <2>4 DEF LutInv, LutTagged
<1> QED
  BY <1>7, <1>8

(* A condemned destination is not the source. *)
LEMMA CondemnInv ==
  ASSUME TypeInv, LutInv, ~lost, Condemn
  PROVE  LutInv'
<1>0. /\ pc = "condemn" /\ pc' = "find" /\ cp' = cp /\ CreateLUT(tag')
      /\ BadBlockMark(cp.dst)
  BY DEF Condemn
<1>1. /\ cp.src \in Blk /\ cp.dst # cp.src /\ tag \in [Blk -> Tag]
      /\ ~tag[cp.src].bad /\ tag[cp.src].lbn # NB
  BY <1>0 DEF TypeInv, TypeOK, FlashType, Shape, LutInv, CopyInv, CopyPcs, DestPcs
<1>2. tag'[cp.src] = tag[cp.src]
  BY <1>0, <1>1 DEF BadBlockMark
<1>3. \A l \in Blk : lut'[l] = NB \/ Tagged(lut[l], l)'
  <2>1. \A l \in Blk : \/ TaggedLut(tag')[l] = NB
                       \/ /\ ~tag'[TaggedLut(tag')[l]].bad
                          /\ tag'[TaggedLut(tag')[l]].lbn = l
    BY TaggedLutType
  <2>2. lut' = TaggedLut(tag')
    BY <1>0 DEF CreateLUT
  <2> QED
    BY <2>1, <2>2 DEF Tagged
<1> QED
  BY <1>0, <1>1, <1>2, <1>3 DEF LutInv, LutTagged, CopyInv, CopyPcs, DestPcs, TestPcs

LEMMA MarkCopyInv ==
  ASSUME TypeInv, LutInv, ~lost, MarkCopy
  PROVE  LutInv'
<1>0. pc = "used" /\ pc' = "erase" /\ cp' = cp /\ lut' = lut /\ lost' = lost
  BY DEF MarkCopy, ram
<1>1. KeepsNumbers
  BY UsedKeepsNumbers DEF MarkCopy
<1>2. cp.src \in Blk /\ cp.dst \in Blk
  BY <1>0 DEF TypeInv, Shape, CopyPcs, DestPcs
<1>3. \A l \in Blk : lut'[l] = NB \/ Tagged(lut[l], l)'
  BY <1>0, <1>1, MappedTagged DEF KeepsNumbers, Tagged, FormatPcs
<1>4. CopyInv'
  BY <1>0, <1>1, <1>2
  DEF LutInv, CopyInv, CopyPcs, DestPcs, TestPcs, KeepsNumbers, Tagged, Mapped
<1> QED
  BY <1>3, <1>4 DEF LutInv, LutTagged

(* After the erase the table still names the source, but every such entry  *)
(* has its copy.                                                           *)
LEMMA EraseSourceInv ==
  ASSUME TypeInv, LutInv, ~lost, EraseSource
  PROVE  LutInv'
<1>0. pc = "erase" /\ pc' = "fixlut" /\ cp' = cp /\ lut' = lut
  BY DEF EraseSource, ram
<1>1. /\ cp.src \in Blk /\ cp.dst \in Blk /\ cp.dst # cp.src /\ ~Mapped(cp.dst)
      /\ \A l \in Blk : lut[l] = cp.src => Tagged(cp.dst, l)
  BY <1>0 DEF TypeInv, Shape, LutInv, CopyInv, CopyPcs, DestPcs
<1>2. \A b \in Blk \ {cp.src} : tag'[b] = tag[b]
  BY <1>1 DEF EraseSource, Erased, flash, TypeInv, TypeOK, FlashType
<1>3. \A l \in Blk : lut[l] = cp.src => Tagged(cp.dst, l)'
  BY <1>0, <1>1, <1>2 DEF Tagged
<1>4. \A l \in Blk : lut'[l] = NB \/ Tagged(lut[l], l)' \/ lut'[l] = cp'.src
  BY <1>0, <1>2, MappedTagged DEF Tagged, FormatPcs
<1>5. CopyInv'
  BY <1>0, <1>1, <1>3 DEF CopyInv, CopyPcs, DestPcs, TestPcs, Mapped
<1> QED
  BY <1>0, <1>3, <1>4, <1>5 DEF LutInv, LutTagged

(* At most one entry named the source; now it names the copy. *)
LEMMA FixLUTInv ==
  ASSUME TypeInv, LutInv, ~lost, FixLUT
  PROVE  LutInv'
<1> DEFINE named == {i \in Blk : lut[i] = cp.src}
           first == Lowest(named)
<1>0. /\ pc = "fixlut" /\ tag' = tag /\ lost' = lost
      /\ lut' = [i \in Blk |-> IF i = first THEN cp.dst ELSE lut[i]]
  BY DEF FixLUT, flash
<1>1. /\ cp.src \in Blk /\ cp.dst \in Blk /\ cp.dst # cp.src
      /\ \A l \in named : Tagged(cp.dst, l)
      /\ \A l \in Blk \ named : lut[l] = NB \/ Tagged(lut[l], l)
  BY <1>0 DEF TypeInv, Shape, LutInv, CopyInv, LutTagged, CopyPcs, DestPcs, FormatPcs
<1>2. named # {} => first \in named
  <2>1. ASSUME NEW l \in named PROVE named = {l}
    BY <1>1, <2>1 DEF Tagged
  <2>2. ASSUME NEW l \in named PROVE first = l
    <3>1. \A x \in named : l <= x
      BY <2>1, <2>2, GeometryAssumption DEF Blk
    <3>2. (CHOOSE m \in named : \A x \in named : m <= x) = l
      BY <2>1, <2>2, <3>1
    <3> QED
      BY <2>2, <3>1, <3>2 DEF Lowest
  <2> QED
    BY <2>2
<1>3. \A l \in Blk : lut'[l] # cp.src
  <2>1. \A l, m \in named : l = m
    BY <1>1 DEF Tagged
  <2> QED
    BY <1>0, <1>1, <1>2, <2>1
<1>4. first \in named \cup {NB}
  BY Extremes
<1>5. \A l \in Blk : lut'[l] = NB \/ Tagged(lut[l], l)'
  <2>1. ASSUME NEW l \in Blk, l = first PROVE ~tag[cp.dst].bad /\ tag[cp.dst].lbn = l
    <3>1. l \in named
      BY <1>4, <2>1, GeometryAssumption DEF Blk
    <3> QED
      BY <1>1, <3>1 DEF Tagged
  <2>2. ASSUME NEW l \in Blk, l # first PROVE lut[l] = NB \/ Tagged(lut[l], l)
    <3>1. l \notin named
      BY <1>0, <1>3, <2>2
    <3> QED
      BY <1>1, <3>1
  <2> QED
    BY <1>0, <2>1, <2>2 DEF Tagged
<1>6. CASE req.op = "write"
  <2>1. pc' \in {"idle", "write"}
    BY <1>6 DEF FixLUT, Advance, Return
  <2> QED
    BY <1>5, <2>1 DEF LutInv, LutTagged, CopyInv, CopyPcs, DestPcs, TestPcs
<1>7. CASE req.op # "write"
  <2>1. pc' = "compareFF" /\ cp' = cp
    BY <1>7 DEF FixLUT
  <2>2. CopyInv'
    BY <1>3, <2>1 DEF CopyInv, CopyPcs, DestPcs, TestPcs, Mapped
  <2> QED
    BY <1>5, <2>1, <2>2 DEF LutInv, LutTagged
<1> QED
  BY <1>6, <1>7

(* The test erases and fills a block that is in no entry. *)
LEMMA TestInv ==
  ASSUME TypeInv, LutInv, ~lost, CompareFF \/ Compare00 \/ EraseTested
  PROVE  LutInv'
<1>0. /\ pc \in TestPcs /\ lut' = lut
      /\ Erased(cp.src) \/ Zeroed(cp.src) \/ UNCHANGED flash
  BY DEF CompareFF, Compare00, EraseTested, ram, TestPcs
<1>1. cp.src \in Blk /\ ~Mapped(cp.src)
  BY <1>0 DEF TypeInv, Shape, LutInv, CopyInv
<1>2. \A b \in Blk \ {cp.src} : tag'[b] = tag[b]
  BY <1>0 DEF Erased, Zeroed, flash, TypeInv, TypeOK, FlashType
<1>3. \A l \in Blk : lut'[l] = NB \/ Tagged(lut[l], l)'
  BY <1>0, <1>1, <1>2, MappedTagged DEF Tagged, Mapped, FormatPcs, TestPcs
<1>4. \/ pc' \in {"idle", "read"}
      \/ pc' \in TestPcs /\ cp' = cp
  <2>1. CASE CompareFF \/ Compare00
    BY <2>1 DEF CompareFF, Compare00, TestPcs
  <2>2. CASE EraseTested
    BY <2>2 DEF EraseTested, Advance, Return, TypeInv, Shape, TestPcs
  <2> QED
    BY <2>1, <2>2
<1>5. CopyInv'
  BY <1>0, <1>1, <1>4 DEF CopyInv, CopyPcs, DestPcs, TestPcs, Mapped
<1> QED
  BY <1>3, <1>4, <1>5 DEF LutInv, LutTagged, TestPcs

LEMMA CondemnSourceInv ==
  ASSUME TypeInv, LutInv, ~lost, CondemnSource
  PROVE  LutInv'
<1>1. CreateLUT(tag')
  BY DEF CondemnSource
<1>2. pc' \in {"idle", "read"}
  BY DEF CondemnSource, Advance, Return, TypeInv, Shape, TestPcs
<1> QED
  BY <1>1, <1>2, RebuiltInv

(* FTL_Init: the table is rebuilt before requests are served again. *)
LEMMA FormatInv ==
  ASSUME TypeInv, LutInv, ~lost, FormatStep \/ Crash
  PROVE  LutInv'
<1>1. CASE Boot
  <2>1. CreateLUT(tag)
    BY <1>1 DEF Boot
  <2>2. tag' = tag /\ pc' \in {"idle", "fmtErase"}
    BY <1>1 DEF Boot, flash
  <2>3. CreateLUT(tag')
    BY <2>1, <2>2
  <2> QED
    BY <2>2, <2>3, RebuiltInv
<1>2. CASE FormatErase \/ FormatEraseUnmarked
  <2>1. pc' \in {"fmtErase", "fmtTag"} \/ lost'
    BY <1>2 DEF FormatErase, FormatEraseUnmarked
  <2> QED
    BY <2>1, LostInv DEF LutInv, LutTagged, CopyInv, CopyPcs, DestPcs, TestPcs
<1>3. CASE FormatTag \/ FormatUnnumbered
  <2>1. (CreateLUT(tag') /\ pc' = "idle") \/ pc' = "fmtTag"
    BY <1>3 DEF FormatTag, FormatUnnumbered, flash
  <2> QED
    BY <2>1, RebuiltInv DEF LutInv, LutTagged, CopyInv, CopyPcs, DestPcs, TestPcs
<1>4. CASE Crash
  BY <1>4 DEF Crash, LutInv, LutTagged, CopyInv, CopyPcs, DestPcs, TestPcs
<1> QED
  BY <1>1, <1>2, <1>3, <1>4 DEF FormatStep

LEMMA StutterInv == ASSUME LutInv, UNCHANGED vars PROVE LutInv'
  BY DEF vars, flash, ram, env, LutInv, LutTagged, CopyInv, Tagged, Mapped, Free

(* Nothing forgets that data may have been lost. *)
LEMMA LostStays == ASSUME TypeOK, lost, Next PROVE lost'
<1>1. lost' = lost \/ lost' = TRUE \/ FormatErase \/ FormatEraseUnmarked
  BY DEF Next, Call, Step, WriteStep, ReadStep, CopyStep, FormatStep, CallWrite,
         CallRead, Reinit, Unmapped, ReadTimeout, WriteDirect, Mark, WriteMove,
         ReadRun, CompareFF, Compare00, EraseTested, CondemnSource, Find, CopyPage,
         Condemn, MarkCopy, EraseSource, FixLUT, Boot, FormatTag,
         FormatUnnumbered, Crash, Flip
<1>2. FormatErase \/ FormatEraseUnmarked => lost'
  BY DEF FormatErase, FormatEraseUnmarked
<1> QED
  BY <1>1, <1>2

-----------------------------------------------------------------------------
(* Whole: the bad marks that page 0 carries, and when one is written.      *)

(* A block is condemned after a failure: with whole marks no second one    *)
(* may be a half-written mark.                                             *)
LEMMA MarkIsWhole ==
  ASSUME WholeMarks, Whole, TypeInv, pc \in {"condemn", "condemnSrc"},
         NEW b, BadBlockMark(b)
  PROVE  \/ tag' = [tag EXCEPT ![b] = BadTag] /\ UNCHANGED faults
         \/ FaultAt("badmark") /\ UNCHANGED tag
<1>1. faults >= 1
  BY DEF Whole
<1>2. faults \in Nat /\ MaxFaults \in Nat
  BY FTLAssumption DEF TypeInv, TypeOK, EnvType
<1>3. ~FaultAt("halfmark")
  BY <1>1, <1>2 DEF FaultAt, WholeMarks
<1> QED
  BY <1>3 DEF BadBlockMark

(* An erase or a write of FTL_Format leaves no half-written mark either. *)
LEMMA FormatIsWhole ==
  ASSUME WholeMarks, TypeInv, FormatEraseUnmarked
  PROVE  FaultsAt("fmterase", "badmark") /\ UNCHANGED tag
<1>1. faults \in Nat /\ MaxFaults \in Nat
  BY FTLAssumption DEF TypeInv, TypeOK, EnvType
<1>2. ~FaultsAt("fmterase", "halfmark")
  BY <1>1 DEF FaultsAt, WholeMarks
<1> QED
  BY <1>2 DEF FormatEraseUnmarked

(* What page 0 of a copy carries: either mark of the two blocks. *)
LEMMA AndTagIs ==
  ASSUME NEW x, NEW y, NEW z, z = AndTag(x, y)
  PROVE  z.bad = (x.bad \/ y.bad) /\ z.used = (x.used \/ y.used)
  BY DEF AndTag

(* Setting used marks, erasing, and copying page 0 keep a bad block used. *)
LEMMA TagKeepsWhole ==
  ASSUME TypeInv, WholeMarks, Whole, Next, NEW b \in Blk
  PROVE  tag'[b].bad => tag'[b].used
<1>0. tag \in [Blk -> Tag] /\ \A c \in Blk : tag[c].bad => tag[c].used
  BY Zenon DEF TypeInv, TypeOK, FlashType, Whole
<1>1. CASE tag' = tag
  BY <1>0, <1>1
<1>2. ASSUME NEW c, tag' = [tag EXCEPT ![c] = BadTag]
      PROVE  tag'[b].bad => tag'[b].used
  BY <1>0, <1>2 DEF BadTag
<1>3. ASSUME NEW c, tag' = [tag EXCEPT ![c] = FreshTag]
      PROVE  tag'[b].bad => tag'[b].used
  BY <1>0, <1>3 DEF FreshTag
<1>4. ASSUME NEW c, tag' = [tag EXCEPT ![c].used = TRUE]
      PROVE  tag'[b].bad => tag'[b].used
  BY <1>0, <1>4 DEF Tag
<1>5. CASE WriteStep \/ MarkCopy
  BY <1>1, <1>4, <1>5 DEF WriteStep, WriteDirect, Mark, WriteMove, MarkCopy, flash
<1>6. CASE CopyPage
  <2>1. CASE tag' = [tag EXCEPT ![cp.dst] = AndTag(@, tag[cp.src])]
    <3>0. cp.src \in Blk /\ cp.dst \in Blk
      BY <1>6 DEF CopyPage, TypeInv, Shape, CopyPcs, DestPcs
    <3>1. CASE b = cp.dst
      <4>1. tag'[b] = AndTag(tag[b], tag[cp.src])
        BY <1>0, <2>1, <3>1
      <4>2. /\ tag'[b].bad = (tag[b].bad \/ tag[cp.src].bad)
            /\ tag'[b].used = (tag[b].used \/ tag[cp.src].used)
        BY <4>1, AndTagIs
      <4> QED
        BY <1>0, <3>0, <4>2, Zenon
    <3>2. CASE b # cp.dst
      BY <1>0, <2>1, <3>2
    <3> QED
      BY <3>1, <3>2
  <2> QED
    BY <1>1, <1>6, <2>1 DEF CopyPage, TagCopied, flash
<1>7. CASE Condemn \/ CondemnSource
  BY <1>1, <1>2, <1>7, MarkIsWhole DEF Condemn, CondemnSource
<1>8. CASE EraseSource \/ CompareFF \/ Compare00 \/ EraseTested
  BY <1>1, <1>3, <1>8
  DEF EraseSource, CompareFF, Compare00, EraseTested, Erased, Zeroed, flash
<1>9. CASE FormatErase
  BY <1>1, <1>2, <1>3, <1>9 DEF FormatErase, Erased, flash
<1>10. CASE FormatTag
  <2>1. PICK c, n : tag' = [tag EXCEPT ![c].lbn = n] \/ tag' = tag
    BY <1>10 DEF FormatTag
  <2> QED
    BY <1>0, <2>1 DEF Tag
<1>11. CASE FormatEraseUnmarked
  BY <1>1, <1>11, FormatIsWhole
<1>12. CASE \/ Call \/ Unmapped \/ ReadTimeout \/ ReadRun \/ Find \/ FixLUT
            \/ Boot \/ FormatUnnumbered \/ Crash \/ Flip
  BY <1>1, <1>12 DEF Call, CallWrite, CallRead, Reinit, Unmapped, ReadTimeout,
     ReadRun, Find, FixLUT, Boot, FormatUnnumbered, Crash, Flip, flash
<1> QED
  BY <1>5, <1>6, <1>7, <1>8, <1>9, <1>10, <1>11, <1>12
  DEF Next, Step, ReadStep, CopyStep, FormatStep

(* A block is condemned only after a program, an erase or a test failed. *)
LEMMA CondemnIsFault ==
  ASSUME TypeInv, WholeMarks, Whole, Next,
         pc' \in {"condemn", "eraseBad", "condemnSrc"}
  PROVE  faults' >= 1
<1>0. faults \in Nat /\ faults' \in Nat
  BY NextType DEF TypeInv, TypeOK, EnvType
<1>1. CASE CopyPage
  BY <1>0, <1>1 DEF CopyPage, FaultAt
<1>2. CASE CompareFF \/ Compare00
  BY <1>0, <1>2 DEF CompareFF, Compare00, FaultAt
<1>3. CASE EraseTested
  <2>1. pc = "eraseBad"
    BY <1>3 DEF EraseTested, Advance, Return, TypeInv, Shape, TestPcs
  <2> QED
    BY <1>0, <1>3, <2>1 DEF EraseTested, FaultAt, Whole
<1>4. CASE ~CopyPage /\ ~CompareFF /\ ~Compare00 /\ ~EraseTested
  <2>1. pc \in LoopPcs => req.op \in {"write", "read"}
    BY DEF TypeInv, Shape, LoopPcs, TestPcs
  <2>2. pc' \notin {"condemn", "eraseBad", "condemnSrc"}
    BY <1>4, <2>1
    DEF Next, Call, Step, WriteStep, ReadStep, CopyStep, FormatStep, CallWrite,
        CallRead, Reinit, Unmapped, ReadTimeout, WriteDirect, Mark, WriteMove,
        ReadRun, CondemnSource, Find, Condemn, MarkCopy, EraseSource, FixLUT, Boot,
        FormatErase, FormatEraseUnmarked, FormatTag, FormatUnnumbered, Crash, Flip,
        Advance, Return, StartCopy, LoopPcs, TestPcs, CopyPcs
  <2> QED
    BY <2>2
<1> QED
  BY <1>1, <1>2, <1>3, <1>4

LEMMA WholeInvariance == Spec => []Whole
<1>1. Init => Whole
  BY DEF Init, Whole, BadTag, FreshTag
<1>2. TypeInv /\ Whole /\ [Next]_vars => Whole'
  <2>1. TypeInv /\ Whole /\ Next => Whole'
    BY TagKeepsWhole, CondemnIsFault DEF Whole, WholeMarks
  <2>2. Whole /\ UNCHANGED vars => Whole'
    BY DEF vars, flash, env, Whole
  <2> QED
    BY <2>1, <2>2
<1> QED
  BY <1>1, <1>2, TypeInvariance, PTL DEF Spec

-----------------------------------------------------------------------------

LEMMA NextInv ==
  WholeMarks /\ TypeInv /\ Whole /\ LutInv /\ [Next]_vars => LutInv'
<1> SUFFICES ASSUME WholeMarks, TypeInv, Whole, LutInv, [Next]_vars PROVE LutInv'
  OBVIOUS
<1>1. CASE UNCHANGED vars
  BY <1>1, StutterInv
<1>2. CASE Next /\ lost
  BY <1>2, LostStays, LostInv DEF TypeInv
<1>3. CASE Next /\ ~lost
  <2>1. CASE Call \/ Unmapped \/ ReadTimeout \/ Flip
    BY <1>3, <2>1, CallInv DEF Call
  <2>2. CASE WriteStep \/ ReadRun
    BY <1>3, <2>2, LoopInv DEF WriteStep
  <2>3. CASE CopyStep
    BY <1>3, <2>3, FindInv, CopyPageInv, CondemnInv, MarkCopyInv, EraseSourceInv,
       FixLUTInv DEF CopyStep
  <2>4. CASE ReadStep
    BY <1>3, <2>2, <2>4, TestInv, CondemnSourceInv DEF ReadStep
  <2>5. CASE FormatStep \/ Crash
    BY <1>3, <2>5, FormatInv
  <2> QED
    BY <1>3, <2>1, <2>2, <2>3, <2>4, <2>5 DEF Next, Step
<1> QED
  BY <1>1, <1>2, <1>3

LEMMA InitInv == Init => LutInv
  BY DEF Init, LutInv, LutTagged, CopyInv, CopyPcs, DestPcs, TestPcs

LEMMA LutInvariance == ASSUME WholeMarks PROVE Spec => []LutInv
<1> QED
  BY TypeInvariance, WholeInvariance, InitInv, NextInv, PTL DEF Spec

(***************************************************************************)
(* Whatever FTL_Init finds on the flash, and however many copies fail, are *)
(* condemned, or are cut off by a power failure: while requests are served *)
(* every entry of nand_dev.lut names a good block with its number.  It     *)
(* needs WholeMarks: with one failure of any kind, or any number of them   *)
(* as long as no bad mark reaches page 1 without page 0.                   *)
(***************************************************************************)
THEOREM TableCorrect == ASSUME WholeMarks PROVE Spec => []LutTagged
<1>1. LutInv => LutTagged
  BY DEF LutInv
<1> QED
  BY <1>1, LutInvariance, PTL

(* Hence, with whole marks, the table is injective: no two logical blocks  *)
(* share a block.                                                          *)
Exclusive ==
    pc = "idle" /\ ~lost =>
      \A l, m \in Blk : lut[l] = lut[m] /\ lut[l] # NB => l = m

COROLLARY NothingShared == ASSUME WholeMarks PROVE Spec => []Exclusive
<1>1. LutTagged => Exclusive
  BY DEF LutTagged, Exclusive, Tagged
<1> QED
  BY <1>1, TableCorrect, PTL

=============================================================================

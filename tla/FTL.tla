-------------------------------- MODULE FTL ---------------------------------
(***************************************************************************)
(* The flash translation layer HARDWARE/NAND/ftl.c on the medium of        *)
(* Nand.tla: logical sectors are mapped through the RAM table nand_dev.lut *)
(* to physical blocks, a sector that is not blank is overwritten by        *)
(* copying its whole block to a free block of the same plane, and a block  *)
(* that flipped a bit is moved, tested and condemned while it is read.     *)
(*                                                                         *)
(* One call of the FTL is active at a time (its caller's task runs it to   *)
(* the end); a step is one NAND program or erase together with the RAM     *)
(* assignments around it, so a crash falls between any two NAND commands.  *)
(* The environment may power-cycle the board, flip one stored bit, and     *)
(* make a NAND command time out, within the bounds MaxCrashes, MaxFlips    *)
(* and MaxFaults; FaultOps says which commands can fail.                   *)
(***************************************************************************)
EXTENDS Nand

CONSTANTS MinBlocks,    \* fewer valid blocks than this: format (100)
          Percent,      \* share of the good blocks that gets a number (93)
          Firsts,       \* first sectors the callers ask for
          MaxLen,       \* longest request, in sectors
          FactoryBad,   \* the sets of blocks the chip may be shipped with bad
          FaultOps,     \* the NAND commands that can fail
          MaxFaults, MaxCrashes, MaxFlips

ASSUME FTLAssumption ==
    /\ MinBlocks \in Nat /\ Percent \in Nat
    /\ Firsts \subseteq Nat
    /\ MaxLen \in Nat \ {0}
    /\ FactoryBad \subseteq SUBSET Blk
    /\ MaxFaults \in Nat /\ MaxCrashes \in Nat /\ MaxFlips \in Nat

VARIABLES
    cell, tag,          \* the flash: sectors and tags
    lut, valid, cur,    \* nand_dev.lut, .valid_blocknum; static curblock
    pc,                 \* where the active call is
    req, buf, done,     \* the request, the caller's buffer, the loop index i
    markd,              \* markdpbn
    cp,                 \* locals of FTL_CopyAndWriteToBlock
    fmt,                \* locals of FTL_Format
    rc,                 \* what the last call returned
    lost,               \* history: a repair found no spare block to move
                        \* to, or a format too few good ones
    faults, crashes, flips

flash  == <<cell, tag>>
ram    == <<lut, valid, cur>>
env    == <<faults, crashes, flips>>
vars   == <<flash, ram, pc, req, buf, done, markd, cp, fmt, rc, lost, env>>

SPB == PPB * SPP                            \* sectors per block

NoReq  == [op |-> "none", first |-> 0, len |-> 1]
NoCopy == [src |-> NB, dst |-> NB, page |-> 0, off |-> 0,
           col |-> 0, pos |-> 0, left |-> 0]
NoFmt  == [i |-> 0, good |-> 0, n |-> 0]

BadTag == [bad |-> TRUE, used |-> TRUE, lbn |-> NB]     \* 0xAAAAAAAA

NoBuf  == [k \in 0 .. MaxLen - 1 |-> FF]

Blank  == [p \in Page |-> [s \in Sec |-> BlankCell]]

-----------------------------------------------------------------------------
(* Arithmetic and table helpers.                                           *)

Least(m, n) == IF m < n THEN m ELSE n
Highest(S)  == IF \E m \in S : \A x \in S : x <= m
                 THEN CHOOSE m \in S : \A x \in S : x <= m ELSE NB
Lowest(S)   == IF \E m \in S : \A x \in S : m <= x
                 THEN CHOOSE m \in S : \A x \in S : m <= x ELSE NB

(***************************************************************************)
(* FTL_CreateLUT: a later block overwrites an earlier one with the same    *)
(* number; valid_blocknum is the first hole and keeps its old value when   *)
(* there is none.                                                          *)
(***************************************************************************)
TaggedLut(t) == [l \in Blk |-> Highest({b \in Blk : ~t[b].bad /\ t[b].lbn = l})]

FirstHole(f) == IF \E l \in Blk : f[l] = NB THEN Lowest({l \in Blk : f[l] = NB})
                                            ELSE valid

CreateLUT(t) == /\ lut' = TaggedLut(t)
                /\ valid' = FirstHole(TaggedLut(t))

LBNToPBN(l) == IF l > valid \/ l >= NB THEN NB ELSE lut[l]

At       == req.first + done                \* the sector the loop is at
Left     == req.len - done
InBlock  == At % SPB
PBN      == LBNToPBN(At \div SPB)
PageNo   == InBlock \div SPP
SecNo    == InBlock % SPP

PageRun_short == Least(Left, SPP - SecNo - 1)   \* mutant: one sector short

PageRun  == Least(Left, SPP - SecNo)        \* wsecs, rsecs: to the page's end
BlockRun == Least(Left, SPB - InBlock)      \* to the block's end

FaultAt(op) == op \in FaultOps /\ faults < MaxFaults /\ faults' = faults + 1

(* Two commands fail one after the other.                                  *)
FaultsAt(op1, op2) == /\ {op1, op2} \subseteq FaultOps
                      /\ faults + 1 < MaxFaults /\ faults' = faults + 2

-----------------------------------------------------------------------------
(* Calls, the read and write loops.                                        *)

CallWrite ==
    /\ pc = "idle"
    /\ \E f \in Firsts, n \in 1 .. MaxLen :
         \E d \in [0 .. n - 1 -> Val] :
           /\ req' = [op |-> "write", first |-> f, len |-> n]
           /\ buf' = [k \in 0 .. MaxLen - 1 |-> IF k < n THEN d[k] ELSE FF]
    /\ pc' = "write" /\ done' = 0 /\ markd' = NB /\ rc' = 0
    /\ UNCHANGED <<flash, ram, cp, fmt, lost, env>>

CallRead ==
    /\ pc = "idle"
    /\ \E f \in Firsts, n \in 1 .. MaxLen :
         req' = [op |-> "read", first |-> f, len |-> n]
    /\ buf' = NoBuf
    /\ pc' = "read" /\ done' = 0 /\ markd' = NB /\ rc' = 0
    /\ UNCHANGED <<flash, ram, cp, fmt, lost, env>>

Return(code) == pc' = "idle" /\ rc' = code /\ done' = 0 /\ cp' = NoCopy

Advance_late(n) ==                      \* mutant: goes round once too often
    IF n > Left THEN Return(0)
    ELSE pc' = req.op /\ done' = done + n /\ cp' = NoCopy /\ rc' = rc

Advance(n) ==
    IF n >= Left THEN Return(0)
    ELSE pc' = req.op /\ done' = done + n /\ cp' = NoCopy /\ rc' = rc

(* The call's locals; once it has returned only a read's data is left.     *)
Frame(m, b) ==
    IF pc' # "idle" THEN req' = req /\ markd' = m /\ buf' = b
    ELSE /\ markd' = NB
         /\ req' = IF req.op = "read" THEN [req EXCEPT !.first = 0]
                                      ELSE [NoReq EXCEPT !.op = req.op]
         /\ buf' = IF req.op = "read" THEN b ELSE NoBuf

StartCopy(n) ==
    /\ cp' = [src |-> PBN, dst |-> NB, page |-> 0, off |-> PageNo,
              col |-> SecNo, pos |-> done, left |-> n]
    /\ pc' = "find"
    /\ UNCHANGED <<done, rc>>

(* The physical block of the sector is not known, or a read times out.     *)
Unmapped ==
    /\ pc \in {"write", "read"}
    /\ PBN = NB
    /\ Return(1) /\ Frame(markd, buf)
    /\ UNCHANGED <<flash, ram, fmt, lost, env>>

ReadTimeout ==
    /\ pc \in {"write", "read"}
    /\ PBN # NB
    /\ FaultAt("read")
    /\ Return(2) /\ Frame(markd, buf)
    /\ UNCHANGED <<flash, ram, fmt, lost, crashes, flips>>

Run == SecNo .. SecNo + PageRun - 1

Written(page) == [s \in Sec |-> IF s \in Run
                                  THEN Program(page[s], DataCell(buf[done + (s - SecNo)]))
                                  ELSE page[s]]

(* The run is blank: program it in place, then mark the block used once.   *)
WriteDirect ==
    /\ pc = "write"
    /\ PBN # NB
    /\ \A s \in Run : LooksBlank(cell[PBN][PageNo][s])
    /\ \/ /\ cell' = [cell EXCEPT ![PBN][PageNo] = Written(@)]
          /\ IF markd # PBN THEN pc' = "mark" /\ UNCHANGED <<done, cp, rc>>
                            ELSE Advance(PageRun)
          /\ UNCHANGED faults
       \/ /\ FaultAt("write")
          /\ \/ cell' = [cell EXCEPT ![PBN][PageNo] = Written(@)]
             \/ UNCHANGED cell
          /\ StartCopy(BlockRun)
    /\ Frame(markd, buf)
    /\ UNCHANGED <<tag, ram, fmt, lost, crashes, flips>>

Mark_lost ==                            \* mutant: the mark is not written
    /\ pc = "mark"
    /\ Advance(PageRun) /\ Frame(PBN, buf)
    /\ UNCHANGED <<flash, ram, fmt, lost, env>>

(* FTL_UsedBlockMark, and the copy to another block when it fails.         *)
Mark ==
    /\ pc = "mark"
    /\ \/ /\ tag' = [tag EXCEPT ![PBN].used = TRUE]
          /\ Advance(PageRun)
          /\ UNCHANGED faults
       \/ /\ FaultAt("mark")
          /\ tag' \in {tag, [tag EXCEPT ![PBN].used = TRUE]}
          /\ StartCopy(BlockRun)
    /\ Frame(PBN, buf)
    /\ UNCHANGED <<cell, ram, fmt, lost, crashes, flips>>

(* The run is not blank: the rest of the block's sectors go with the copy. *)
WriteMove ==
    /\ pc = "write"
    /\ PBN # NB
    /\ \E s \in Run : ~LooksBlank(cell[PBN][PageNo][s])
    /\ StartCopy(BlockRun)
    /\ UNCHANGED <<flash, ram, req, buf, markd, fmt, lost, env>>

NeedsRepair_any(page) == RunStatus(page, SecNo, PageRun) # "ok"     \* mutant

NeedsRepair(page) == RunStatus(page, SecNo, PageRun) = "ecc1"

(* One iteration of FTL_ReadSectors.  A 1-bit error that the second read   *)
(* confirms starts a repair; a 2-bit error is ignored.                     *)
ReadRun ==
    /\ pc = "read"
    /\ PBN # NB
    /\ LET page == cell[PBN][PageNo]
       IN  /\ IF NeedsRepair(page)
                THEN StartCopy(PageRun)
                ELSE Advance(PageRun)
           /\ Frame(markd, [k \in 0 .. MaxLen - 1 |->
                              IF k \in done .. done + PageRun - 1
                                THEN Decode(page[SecNo + k - done]).data
                                ELSE buf[k]])
    /\ UNCHANGED <<flash, ram, fmt, lost, env>>

-----------------------------------------------------------------------------
(* FTL_CopyAndWriteToBlock.                                                *)
Free(b) == tag[b] = FreshTag

(* FTL_FindUnusedBlock reads page 0 only: a block whose one mark is on     *)
(* page 1 passes for free.                                                 *)
Unused(b) == ~tag[b].used /\ tag[b].lbn = NB

(***************************************************************************)
(* The label "retry": look for a free block of the source's plane downward *)
(* from curblock, then once more from the top.  Without one a write fails  *)
(* with 3, while a repair ignores the result and goes on to test the       *)
(* source block.                                                           *)
(***************************************************************************)
FindBlock ==
    LET spare == {b \in Blk : Unused(b) /\ b % 2 = cp.src % 2}
        below == {b \in spare : b <= cur}
    IN  IF below # {} THEN Highest(below) ELSE Highest(spare)

Find ==
    /\ pc = "find"
    /\ LET d == FindBlock
       IN  IF d # NB
             THEN /\ cur' = d /\ pc' = "copy"
                  /\ cp' = [cp EXCEPT !.dst = d, !.page = 0]
                  /\ UNCHANGED <<done, rc, lost>>
             ELSE /\ cur' = NB - 1
                  /\ IF req.op = "write"
                       THEN Return(3) /\ UNCHANGED lost
                       ELSE /\ pc' = "compareFF" /\ lost' = TRUE
                            /\ UNCHANGED <<cp, done, rc>>
    /\ Frame(markd, buf)
    /\ UNCHANGED <<flash, lut, valid, fmt, env>>

(***************************************************************************)
(* One iteration of the page loop.  ColNum, pBuffer and NumByteToWrite     *)
(* move on before the result is looked at.  Page 0 carries the tag along.  *)
(* A page that fails condemns the destination; "copy" is such a failure    *)
(* before the caller's first sector was consumed, "merge" one after.       *)
(***************************************************************************)
Merged == IF cp.page >= cp.off /\ cp.left > 0
            THEN Least(cp.left, SPP - cp.col) ELSE 0

AndTag(x, y) == [bad  |-> x.bad \/ y.bad,
                 used |-> x.used \/ y.used,
                 lbn  |-> IF x.lbn = NB THEN y.lbn ELSE x.lbn]

PageCopied ==
    cell' = [cell EXCEPT ![cp.dst][cp.page] =
               CopiedPage(cell[cp.src][cp.page], @, cp.col, Merged, buf, cp.pos)]

TagCopied ==
    IF cp.page = 0 THEN tag' = [tag EXCEPT ![cp.dst] = AndTag(@, tag[cp.src])]
                   ELSE UNCHANGED tag

Consumed_same == IF Merged = 0 THEN cp      \* mutant: pBuffer stays
                 ELSE [cp EXCEPT !.col = 0, !.left = @ - Merged]

Consumed == IF Merged = 0 THEN cp
            ELSE [cp EXCEPT !.col = 0, !.pos = @ + Merged, !.left = @ - Merged]

AllCopied_early == cp.page + 2 >= PPB   \* mutant: the last page is left out

AllCopied == cp.page + 1 = PPB

CopyPage ==
    /\ pc = "copy"
    /\ \/ /\ PageCopied /\ TagCopied
          /\ cp' = [Consumed EXCEPT !.page = @ + 1]
          /\ pc' = IF AllCopied THEN "used" ELSE "copy"
          /\ UNCHANGED faults
       \/ /\ FaultAt(IF Consumed = cp /\ cp.pos = done THEN "copy" ELSE "merge")
          /\ \/ PageCopied /\ TagCopied
             \/ UNCHANGED flash
          /\ cp' = Consumed
          /\ pc' = "condemn"
    /\ UNCHANGED <<ram, req, buf, done, markd, fmt, rc, lost, crashes, flips>>

(***************************************************************************)
(* FTL_BadBlockMark writes a mark to page 0 and one to page 1; nobody      *)
(* looks at the results.  FTL_CreateLUT and FTL_CheckBadBlock see either   *)
(* mark (the field bad).  Page 0's also covers the used mark and the       *)
(* number, so with it in place page 1's makes no difference.  "badmark":   *)
(* both fail; "halfmark": page 0's fails and page 1's does not.            *)
(***************************************************************************)
BadBlockMark(b) ==
    \/ tag' = [tag EXCEPT ![b] = BadTag] /\ UNCHANGED faults
    \/ FaultAt("badmark") /\ UNCHANGED tag
    \/ FaultAt("halfmark") /\ tag' = [tag EXCEPT ![b].bad = TRUE]

Condemn_source ==                       \* mutant: marks the wrong block
    /\ pc = "condemn"
    /\ BadBlockMark(cp.src)
    /\ CreateLUT(tag')
    /\ pc' = "find"
    /\ UNCHANGED <<cell, cur, req, buf, done, markd, cp, fmt, rc, lost,
                   crashes, flips>>

(* The destination is marked bad, the table rebuilt: goto retry.           *)
Condemn ==
    /\ pc = "condemn"
    /\ BadBlockMark(cp.dst)
    /\ CreateLUT(tag')
    /\ pc' = "find"
    /\ UNCHANGED <<cell, cur, req, buf, done, markd, cp, fmt, rc, lost,
                   crashes, flips>>

(* The copy is complete.  Neither the mark's nor the erase's result is     *)
(* looked at.                                                              *)
MarkCopy ==
    /\ pc = "used"
    /\ \/ tag' = [tag EXCEPT ![cp.dst].used = TRUE] /\ UNCHANGED faults
       \/ FaultAt("used") /\ UNCHANGED tag
    /\ pc' = "erase"
    /\ UNCHANGED <<cell, ram, req, buf, done, markd, cp, fmt, rc, lost,
                   crashes, flips>>

Erased(b) == /\ cell' = [cell EXCEPT ![b] = Blank]
             /\ tag' = [tag EXCEPT ![b] = FreshTag]

EraseSource ==
    /\ pc = "erase"
    /\ \/ Erased(cp.src) /\ UNCHANGED faults
       \/ FaultAt("erase") /\ UNCHANGED flash
    /\ pc' = "fixlut"
    /\ UNCHANGED <<ram, req, buf, done, markd, cp, fmt, rc, lost,
                   crashes, flips>>

FixLUT_skipped ==                       \* mutant: the table keeps the source
    /\ pc = "fixlut"
    /\ IF req.op = "write"
         THEN Advance(BlockRun)
         ELSE pc' = "compareFF" /\ UNCHANGED <<cp, done, rc>>
    /\ Frame(markd, buf)
    /\ UNCHANGED <<flash, ram, fmt, lost, env>>

(* The first entry that names the source block now names the copy.         *)
FixLUT ==
    /\ pc = "fixlut"
    /\ LET l == Lowest({i \in Blk : lut[i] = cp.src})
       IN  lut' = [i \in Blk |-> IF i = l THEN cp.dst ELSE lut[i]]
    /\ IF req.op = "write"
         THEN Advance(BlockRun)
         ELSE pc' = "compareFF" /\ UNCHANGED <<cp, done, rc>>
    /\ Frame(markd, buf)
    /\ UNCHANGED <<flash, valid, cur, fmt, lost, env>>

-----------------------------------------------------------------------------
(***************************************************************************)
(* The rest of a repair in FTL_ReadSectors.  FTL_BlockCompare looks at     *)
(* page 0 only, erases a block that differs and, for the comparison with   *)
(* zero, fills it with zeros, three times at most; here that loop is one   *)
(* step.                                                                   *)
(***************************************************************************)
CompareFF ==
    /\ pc = "compareFF"
    /\ \/ /\ IF \A s \in Sec : LooksBlank(cell[cp.src][0][s])
               THEN UNCHANGED flash ELSE Erased(cp.src)
          /\ pc' = "compare00"
          /\ UNCHANGED faults
       \/ /\ FaultAt("compare")
          /\ Erased(cp.src) \/ UNCHANGED flash
          /\ pc' = "condemnSrc"
    /\ UNCHANGED <<ram, req, buf, done, markd, cp, fmt, rc, lost, crashes, flips>>

Zeroed(b) == /\ cell' = [cell EXCEPT ![b] = [p \in Page |-> [s \in Sec |-> ZeroCell]]]
             /\ tag' = [tag EXCEPT ![b] = FreshTag]

Compare00 ==
    /\ pc = "compare00"
    /\ \/ Zeroed(cp.src) /\ pc' = "eraseSrc" /\ UNCHANGED faults
       \/ /\ FaultAt("compare")
          /\ Erased(cp.src) \/ Zeroed(cp.src) \/ UNCHANGED flash
          /\ pc' = "eraseBad"
    /\ UNCHANGED <<ram, req, buf, done, markd, cp, fmt, rc, lost, crashes, flips>>

EraseTested ==
    /\ pc \in {"eraseSrc", "eraseBad"}
    /\ \/ Erased(cp.src) /\ UNCHANGED faults
       \/ FaultAt("erase") /\ UNCHANGED flash
    /\ IF pc = "eraseSrc" THEN Advance(PageRun)
                          ELSE pc' = "condemnSrc" /\ UNCHANGED <<cp, done, rc>>
    /\ Frame(markd, buf)
    /\ UNCHANGED <<ram, fmt, lost, crashes, flips>>

CondemnSource ==
    /\ pc = "condemnSrc"
    /\ BadBlockMark(cp.src)
    /\ CreateLUT(tag')
    /\ Advance(PageRun) /\ Frame(markd, buf)
    /\ UNCHANGED <<cell, cur, fmt, lost, crashes, flips>>

-----------------------------------------------------------------------------
(* FTL_Init and FTL_Format.                                                *)

(* The table is cleared and built from the tags; too few blocks: format.   *)
Boot ==
    /\ pc = "boot"
    /\ CreateLUT(tag)
    /\ pc' = IF valid' < MinBlocks THEN "fmtErase" ELSE "idle"
    /\ fmt' = NoFmt
    /\ UNCHANGED <<flash, cur, req, buf, done, markd, cp, rc, lost, env>>

(* First loop of FTL_Format: erase every block not marked bad, count those *)
(* that could be.  Below MinBlocks the chip is given up.                   *)
FormatErase ==
    LET b    == fmt.i
        last == b = NB - 1
    IN  /\ pc = "fmtErase"
        /\ \/ tag[b].bad /\ fmt' = [fmt EXCEPT !.i = b + 1]
              /\ UNCHANGED <<flash, faults>>
           \/ ~tag[b].bad /\ Erased(b) /\ UNCHANGED faults
              /\ fmt' = [fmt EXCEPT !.i = b + 1, !.good = @ + 1]
           \/ ~tag[b].bad /\ FaultAt("fmterase")
              /\ tag' = [tag EXCEPT ![b] = BadTag] /\ UNCHANGED cell
              /\ fmt' = [fmt EXCEPT !.i = b + 1]
        /\ pc' = IF ~last THEN "fmtErase"
                 ELSE IF fmt'.good < MinBlocks THEN "idle" ELSE "fmtTag"
    /\ lost' = (lost \/ pc' = "idle")
    /\ UNCHANGED <<ram, req, buf, done, markd, cp, rc, crashes, flips>>

(* The erase fails and the bad mark too: the block is not counted, and it  *)
(* keeps what it had, or gets the mark of page 1 only.                     *)
FormatEraseUnmarked ==
    LET b    == fmt.i
        last == b = NB - 1
    IN  /\ pc = "fmtErase" /\ ~tag[b].bad
        /\ \/ FaultsAt("fmterase", "badmark") /\ UNCHANGED tag
           \/ FaultsAt("fmterase", "halfmark") /\ tag' = [tag EXCEPT ![b].bad = TRUE]
        /\ fmt' = [fmt EXCEPT !.i = b + 1]
        /\ pc' = IF ~last THEN "fmtErase"
                 ELSE IF fmt.good < MinBlocks THEN "idle" ELSE "fmtTag"
    /\ lost' = (lost \/ pc' = "idle")
    /\ UNCHANGED <<cell, ram, req, buf, done, markd, cp, rc, crashes, flips>>

(* Second loop: number the good blocks until Percent of them have one,     *)
(* then rebuild the table.  fmt.i runs on from NB; the block is i - NB.    *)
FormatTag ==
    LET b    == fmt.i - NB
        good == ~tag[b].bad
        n    == IF good THEN fmt.n + 1 ELSE fmt.n
        last == b = NB - 1 \/ (good /\ n = (fmt.good * Percent) \div 100)
    IN  /\ pc = "fmtTag"
        /\ tag' = IF good THEN [tag EXCEPT ![b].lbn = IF @ = NB THEN fmt.n ELSE @]
                          ELSE tag
        /\ IF last THEN /\ CreateLUT(tag')
                        /\ pc' = "idle" /\ fmt' = NoFmt
                   ELSE /\ fmt' = [fmt EXCEPT !.i = @ + 1, !.n = n]
                        /\ UNCHANGED <<lut, valid, pc>>
    /\ UNCHANGED <<cell, cur, req, buf, done, markd, cp, rc, lost, env>>

(* The write of a number fails: nobody looks, and the number is used up.   *)
FormatUnnumbered ==
    LET b    == fmt.i - NB
        n    == fmt.n + 1
        last == b = NB - 1 \/ n = (fmt.good * Percent) \div 100
    IN  /\ pc = "fmtTag" /\ ~tag[b].bad
        /\ FaultAt("fmttag")
        /\ IF last THEN /\ CreateLUT(tag)
                        /\ pc' = "idle" /\ fmt' = NoFmt
                   ELSE /\ fmt' = [fmt EXCEPT !.i = @ + 1, !.n = n]
                        /\ UNCHANGED <<lut, valid, pc>>
    /\ UNCHANGED <<flash, cur, req, buf, done, markd, cp, rc, lost, crashes, flips>>

(* disk_initialize and STORAGE_Init call FTL_Init again between requests.  *)
Reinit ==
    /\ pc = "idle"
    /\ pc' = "boot"
    /\ UNCHANGED <<flash, ram, req, buf, done, markd, cp, fmt, rc, lost, env>>

-----------------------------------------------------------------------------
(* The environment.                                                        *)

(* Power fails or the software resets the chip: the RAM starts over.       *)
Crash ==
    /\ pc # "boot"
    /\ crashes < MaxCrashes
    /\ crashes' = crashes + 1
    /\ lut' = [l \in Blk |-> 0] /\ valid' = 0 /\ cur' = NB
    /\ pc' = "boot" /\ req' = NoReq /\ done' = 0 /\ markd' = NB /\ rc' = 0
    /\ buf' = NoBuf
    /\ cp' = NoCopy /\ fmt' = NoFmt
    /\ UNCHANGED <<flash, lost, faults, flips>>

(* A bit of a written sector flips between two calls.                      *)
Flip ==
    /\ pc = "idle"
    /\ flips < MaxFlips
    /\ flips' = flips + 1
    /\ \E b \in Blk, p \in Page, s \in Sec :
         /\ cell[b][p][s].ecc = cell[b][p][s].val
         /\ ~cell[b][p][s].flip
         /\ cell' = [cell EXCEPT ![b][p][s].flip = TRUE]
    /\ UNCHANGED <<tag, ram, pc, req, buf, done, markd, cp, fmt, rc, lost,
                   faults, crashes>>

-----------------------------------------------------------------------------

(* A chip as the factory ships it, before the first power-on.              *)
Init ==
    /\ cell = [b \in Blk |-> Blank]
    /\ \E bad \in FactoryBad :
         tag = [b \in Blk |-> IF b \in bad THEN BadTag ELSE FreshTag]
    /\ lut = [l \in Blk |-> 0] /\ valid = 0 /\ cur = NB
    /\ pc = "boot" /\ req = NoReq /\ done = 0 /\ markd = NB /\ rc = 0
    /\ buf = NoBuf
    /\ cp = NoCopy /\ fmt = NoFmt
    /\ lost = FALSE
    /\ faults = 0 /\ crashes = 0 /\ flips = 0

Call == CallWrite \/ CallRead \/ Reinit

WriteStep  == WriteDirect \/ Mark \/ WriteMove
ReadStep   == ReadRun \/ CompareFF \/ Compare00 \/ EraseTested \/ CondemnSource
CopyStep   == Find \/ CopyPage \/ Condemn \/ MarkCopy \/ EraseSource \/ FixLUT
FormatStep == \/ Boot \/ FormatErase \/ FormatEraseUnmarked
              \/ FormatTag \/ FormatUnnumbered

Step == Unmapped \/ ReadTimeout \/ WriteStep \/ ReadStep \/ CopyStep \/ FormatStep

Next == Call \/ Step \/ Crash \/ Flip

Spec == Init /\ [][Next]_vars

(***************************************************************************)
(* The caller's task runs the call to its end: nothing in it blocks.       *)
(***************************************************************************)
FairSpec == Spec /\ WF_vars(Step)

-----------------------------------------------------------------------------
(* Properties.                                                             *)

Pcs == {"boot", "idle", "write", "read", "mark", "find", "copy", "condemn",
        "used", "erase", "fixlut", "compareFF", "compare00", "eraseSrc",
        "eraseBad", "condemnSrc", "fmtErase", "fmtTag"}

Buffers  == [0 .. MaxLen - 1 -> Stored]
Requests == [op : {"none", "write", "read"}, first : Nat, len : 1 .. MaxLen]
Copies   == [src : 0 .. NB, dst : 0 .. NB, page : 0 .. PPB, off : Page,
             col : Sec, pos : 0 .. MaxLen, left : 0 .. MaxLen]
Formats  == [i : 0 .. 2 * NB, good : 0 .. NB, n : 0 .. NB]

FlashType == cell \in [Blk -> [Page -> [Sec -> Cell]]] /\ tag \in [Blk -> Tag]
RamType   == lut \in [Blk -> 0 .. NB] /\ valid \in 0 .. NB /\ cur \in 0 .. NB
CallType  == /\ pc \in Pcs /\ req \in Requests /\ buf \in Buffers
             /\ done \in 0 .. MaxLen - 1 /\ markd \in 0 .. NB
             /\ cp \in Copies /\ fmt \in Formats /\ rc \in 0 .. 3
EnvType   == /\ lost \in BOOLEAN
             /\ faults \in 0 .. MaxFaults /\ crashes \in 0 .. MaxCrashes
             /\ flips \in 0 .. MaxFlips

(* Every variable stays in the range of the C object it stands for.        *)
TypeOK == FlashType /\ RamType /\ CallType /\ EnvType

(***************************************************************************)
(* While requests are served, a logical block is mapped to a good block    *)
(* that carries its number, or, after the erase of a source block and      *)
(* before the table is corrected, to the source of a copy that does; so no *)
(* two logical blocks share a physical block.  It is promised until a      *)
(* repair has run out of spare blocks (FTL_ReadSectors ignores that result *)
(* and erases the block all the same) or a format out of good ones.        *)
(***************************************************************************)
Tagged(b, l) == ~tag[b].bad /\ tag[b].lbn = l

LutTagged ==
    ~lost /\ pc \notin {"boot", "fmtErase", "fmtTag"} =>
      \A l \in Blk :
        \/ lut[l] = NB
        \/ Tagged(lut[l], l)
        \/ pc = "fixlut" /\ lut[l] = cp.src /\ Tagged(cp.dst, l)

-----------------------------------------------------------------------------
(* The inductive invariants behind TypeOK and LutTagged (FTL_proofs.tla).   *)

CopyPcs == {"find", "copy", "condemn", "used", "erase", "fixlut"}
DestPcs == {"copy", "condemn", "used", "erase", "fixlut"}
TestPcs == {"compareFF", "compare00", "eraseSrc", "eraseBad", "condemnSrc"}
LoopPcs == {"write", "mark", "read"} \cup CopyPcs \cup TestPcs
FormatPcs == {"boot", "fmtErase", "fmtTag"}

(***************************************************************************)
(* Where the call is says what its locals are.                             *)
(***************************************************************************)
Shape ==
    /\ pc \in LoopPcs => done < req.len
    /\ pc \in {"write", "mark"} => req.op = "write"
    /\ pc \in {"read"} \cup TestPcs => req.op = "read"
    /\ pc \in CopyPcs => req.op \in {"write", "read"}
    /\ pc = "mark" => PBN \in Blk
    /\ pc \in CopyPcs \cup TestPcs => cp.src \in Blk
    /\ pc \in CopyPcs => cp.pos + cp.left <= MaxLen
    /\ pc \in DestPcs => cp.dst \in Blk
    /\ pc = "copy" => cp.page \in Page
    /\ pc = "fmtErase" => fmt.i \in Blk /\ fmt.good <= fmt.i /\ fmt.n = 0
    /\ pc = "fmtTag" => fmt.i \in NB .. 2 * NB - 1 /\ fmt.n <= fmt.i - NB

TypeInv == TypeOK /\ Shape

(***************************************************************************)
(* LutTagged with what it needs to be inductive: a destination is not in   *)
(* the table, it is free until page 0 arrives and carries the source's     *)
(* number from then on; a block under test is not in the table.            *)
(***************************************************************************)
Mapped(b) == \E l \in Blk : lut[l] = b

CopyInv ==
    /\ pc \in DestPcs => cp.dst # cp.src /\ ~Mapped(cp.dst)
    /\ pc = "copy" /\ cp.page = 0 => Free(cp.dst)
    /\ \/ pc = "copy" /\ cp.page # 0
       \/ pc \in {"used", "erase", "fixlut"}
       => \A l \in Blk : lut[l] = cp.src => Tagged(cp.dst, l)
    /\ pc \in TestPcs => ~Mapped(cp.src)
    /\ pc \in CopyPcs \ {"fixlut"} => ~tag[cp.src].bad /\ tag[cp.src].lbn # NB

LutInv == LutTagged /\ (~lost => CopyInv)

(***************************************************************************)
(* When every bad mark is seen by FTL_FindUnusedBlock.  Since a block is   *)
(* condemned after a first failure, a half-written mark takes a second.    *)
(***************************************************************************)
WholeMarks == "halfmark" \notin FaultOps \/ MaxFaults <= 1

Whole == WholeMarks =>
    /\ \A b \in Blk : tag[b].bad => tag[b].used
    /\ pc \in {"condemn", "eraseBad", "condemnSrc"} => faults >= 1

=============================================================================

------------------------------ MODULE FTLProps ------------------------------
(***************************************************************************)
(* What FTL.tla promises its callers, and how it implements BlockDevice.   *)
(***************************************************************************)
EXTENDS FTL, FiniteSets

Serving == pc \notin {"boot", "fmtErase", "fmtTag", "idle"}

(* Where a logical block is: the copy once its source is erased.           *)
Place(l) == IF pc = "fixlut" /\ lut[l] = cp.src THEN cp.dst ELSE lut[l]

Sectors == 0 .. NB * SPB - 1

(* What a correct reader would get for a sector now.                       *)
Disk == [s \in Sectors |->
           LET b == Place(s \div SPB)
           IN  IF b = NB THEN FF
               ELSE Decode(cell[b][(s % SPB) \div SPP][s % SPP]).data]

Data == [k \in 0 .. req.len - 1 |-> buf[k]]

(* The request being served and the last answer, as the caller sees them.  *)
Job == IF ~Serving THEN [op |-> "none"]
       ELSE [op |-> req.op, first |-> req.first, len |-> req.len,
             data |-> IF req.op = "write" THEN Data ELSE << >>]

Reply == IF Serving \/ req.op = "none" THEN [code |-> 0, data |-> << >>]
         ELSE [code |-> rc, data |-> IF req.op = "read" THEN Data ELSE << >>]

Device == INSTANCE BlockDevice WITH
    Contents <- Stored, Empty <- FF, disk <- Disk, job <- Job, reply <- Reply

(***************************************************************************)
(* The FTL is a block device: FTL_WriteSectors and FTL_ReadSectors do to   *)
(* the mapped sectors what FatFs asks, whatever is copied, marked and      *)
(* condemned underneath.                                                   *)
(***************************************************************************)
IsBlockDevice == Device!DInit /\ [][~lost' => Device!DNext]_(Device!dvars)

(***************************************************************************)
(* Even with every fault spent on a block, enough good blocks are left for *)
(* a format to give MinBlocks numbers, and never the last number.          *)
(***************************************************************************)
EnoughBlocks ==
    \A F \in FactoryBad, good \in 0 .. NB :
      good + Cardinality(F) + MaxFaults >= NB =>
        LET q == (good * Percent) \div 100
        IN  good >= MinBlocks /\ q \in 1 .. NB - 1 /\ q >= MinBlocks

(* FTL_Format marks the block whose erase has failed.                      *)
ErasesMarked == {"fmterase", "badmark"} \subseteq FaultOps => MaxFaults <= 1

(***************************************************************************)
(* When the FTL is a block device, whatever bits flip and whatever else    *)
(* fails: power stays on, no contents look like a flipped bit, a page that *)
(* carries the caller's data never fails (the retry would start from an    *)
(* advanced pBuffer), and no block keeps its number after it was erased or *)
(* condemned, because the erase and the marks, whose results nobody looks  *)
(* at, have worked; and FTL_Format has written every number.               *)
(***************************************************************************)
Reliable == /\ Odd = {} /\ MaxCrashes = 0 /\ EnoughBlocks
            /\ "merge" \notin FaultOps /\ "erase" \notin FaultOps
            /\ "fmttag" \notin FaultOps
            /\ {"badmark", "halfmark"} \cap FaultOps = {} \/ MaxFaults <= 1

(***************************************************************************)
(* A repair starts only where a stored bit has flipped: the second read of *)
(* V1.3 (ftl.c:25-26) is there so that correct data is not modified.       *)
(***************************************************************************)
RepairsAreReal == [][pc = "read" /\ pc' = "find"
                       => \E s \in Run : cell[PBN][PageNo][s].flip]_vars

(***************************************************************************)
(* The used mark (ftl.c:31): between calls a numbered block that holds     *)
(* programmed sectors is marked, although markdpbn skips most marks.  It   *)
(* is promised until power fails (it may between the program and the       *)
(* mark), and not of a block whose program or mark failed and which stays  *)
(* where it is because its plane has no free block to move it to.          *)
(***************************************************************************)
Full(b) == \A c \in Blk : Free(c) => c % 2 # b % 2

UsedIsMarked ==
    pc = "idle" /\ ~lost /\ crashes = 0 =>
      \A b \in Blk :
        /\ ~tag[b].bad /\ tag[b].lbn # NB
        /\ \E p \in Page, s \in Sec : cell[b][p][s] # BlankCell
        => tag[b].used \/ Full(b)

(***************************************************************************)
(* When UsedIsMarked is promised: after a program or mark has failed, no   *)
(* mark of a copy and no erase of a source fails too, nor, if the copy     *)
(* also failed, its condemnation; after an erase has failed in a format,   *)
(* the bad mark does not; and no bad mark is half-written.  Nobody looks   *)
(* at their results.                                                       *)
(***************************************************************************)
MarksReliable == /\ MaxFaults <= 1 \/ {"used", "erase"} \cap FaultOps = {}
                 /\ MaxFaults <= 2 \/ "badmark" \notin FaultOps
                 /\ WholeMarks /\ ErasesMarked

(***************************************************************************)
(* The sector count that diskio.c and the USB storage report is computed   *)
(* from valid_blocknum: once the chip is formatted it never shrinks.       *)
(***************************************************************************)
CapacityKept == [][valid >= MinBlocks /\ crashes' = crashes /\ ~lost
                     => valid' >= valid]_vars

(***************************************************************************)
(* Every call and every FTL_Init ends: the retry after a failed copy       *)
(* condemns one spare block each time.                                     *)
(***************************************************************************)
CallsReturn == (pc # "idle") ~> (pc = "idle")

=============================================================================

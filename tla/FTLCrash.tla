------------------------------ MODULE FTLCrash ------------------------------
(***************************************************************************)
(* FTL.tla with a history variable: what every sector was last told to     *)
(* hold by a write that returned 0 and that no later write, finished or    *)
(* not, was asked to change.                                               *)
(***************************************************************************)
EXTENDS FTLProps

CONSTANT Unknown        \* nothing is promised about the sector

VARIABLE acked

Asked == {s \in Sectors : s >= req.first /\ s < req.first + req.len}

Asking == {s \in Sectors : s >= req'.first /\ s < req'.first + req'.len}

Remember ==
    acked' =
      IF pc = "idle" /\ pc' = "write"
        THEN [s \in Sectors |-> IF s \in Asking THEN Unknown ELSE acked[s]]
      ELSE IF Serving /\ req.op = "write" /\ pc' = "idle" /\ rc' = 0
        THEN [s \in Sectors |-> IF s \in Asked THEN buf[s - req.first] ELSE acked[s]]
      ELSE acked

HInit == Init /\ acked = [s \in Sectors |-> Unknown]
HNext == Next /\ Remember
HSpec == HInit /\ [][HNext]_<<vars, acked>>

(***************************************************************************)
(* Power may fail between any two NAND commands: what a write acknowledged *)
(* is never destroyed.  Some good block that carries the sector's logical  *)
(* number still holds it, although after the power cycle FTL_CreateLUT may *)
(* prefer another block that carries the same number.                      *)
(***************************************************************************)
Durable ==
    \A s \in Sectors :
      acked[s] # Unknown =>
        \E b \in Blk :
          /\ ~tag[b].bad /\ tag[b].lbn = s \div SPB
          /\ Decode(cell[b][(s % SPB) \div SPP][s % SPP]).data = acked[s]

(***************************************************************************)
(* When Durable is promised: no stored bit flips and no contents look like *)
(* a flipped bit, so that no repair erases blocks; a page that carries the *)
(* caller's data never fails (the retry would start from an advanced       *)
(* pBuffer); no bad mark is half-written, or FTL_FindUnusedBlock would     *)
(* take the block again and FTL_CreateLUT drop it; FTL_Format writes every *)
(* number and marks a block it cannot erase, or the next FTL_Init might    *)
(* format again; and the blocks are enough.                                *)
(***************************************************************************)
Steady == /\ Odd = {} /\ MaxFlips = 0 /\ EnoughBlocks
          /\ {"merge", "fmttag"} \cap FaultOps = {}
          /\ WholeMarks /\ ErasesMarked

=============================================================================

-------------------------------- MODULE Nand --------------------------------
(***************************************************************************)
(* The NAND flash medium of HARDWARE/NAND/nand.c, as the FTL sees it: an   *)
(* array of blocks, each an array of pages, each an array of 512-byte      *)
(* sectors with the ECC code that nand.c keeps for every sector in the     *)
(* spare area, and the four tag bytes in the spare area of page 0.         *)
(*                                                                         *)
(* This module is constant level: it says what a program, an erase, a      *)
(* blank check and an ECC-checked read do to one cell.  FTL.tla holds the  *)
(* state.                                                                  *)
(*                                                                         *)
(* Abstraction.  A sector's 512 bytes are one value of Val; FF is the      *)
(* value of 512 bytes 0xFF (what an erase leaves).  The ECC of a value is  *)
(* named by the value itself, so "the stored code matches" is ecc = val;   *)
(* the Hamming code of FF is the all-zero pattern, which is what makes a   *)
(* sector that was programmed with FF different from an erased one.  The   *)
(* code of every other value is taken to be non-zero.  Ecc.tla models the  *)
(* code bit by bit, and its run shows that Decode says what it computes.   *)
(***************************************************************************)
EXTENDS Integers

CONSTANTS NB,        \* nand_dev.block_totalnum
          PPB,       \* nand_dev.block_pagenum
          SPP,       \* sectors per page: page_mainsize / 512
          Val,       \* the sector contents a caller may write
          FF,        \* 512 bytes of 0xFF
          Odd,       \* the contents with an odd number of one bits
          Junk,      \* contents nobody wrote: a half program, ANDed bits
          BlankEcc   \* the four code bytes of an erased sector, 0xFFFFFFFF

ASSUME GeometryAssumption ==
    /\ NB \in Nat \ {0}
    /\ PPB \in Nat /\ PPB >= 2      \* the spare of page 1 backs up the mark
    /\ SPP \in Nat \ {0}

ASSUME ValueAssumption ==
    /\ FF \in Val
    /\ Odd \subseteq Val \ {FF}     \* FF has 4096 one bits
    /\ Junk \notin Val
    /\ BlankEcc \notin Val \cup {Junk}

Blk  == 0 .. NB - 1
Page == 0 .. PPB - 1
Sec  == 0 .. SPP - 1

Stored == Val \cup {Junk}

(***************************************************************************)
(* One sector: its contents, its stored code, and whether one bit of the   *)
(* contents has flipped since it was programmed.                           *)
(***************************************************************************)
Cell == [val : Stored, ecc : Stored \cup {BlankEcc}, flip : BOOLEAN]

BlankCell == [val |-> FF, ecc |-> BlankEcc, flip |-> FALSE]

DataCell(v) == [val |-> v, ecc |-> v, flip |-> FALSE]

(***************************************************************************)
(* NAND_WritePageConst writes the main area only: zeros, and no code.      *)
(***************************************************************************)
ZeroCell == [val |-> Junk, ecc |-> BlankEcc, flip |-> FALSE]

(***************************************************************************)
(* The first four spare bytes of page 0: bad mark (FALSE is 0xFF), used    *)
(* mark (FALSE is 0xFF, TRUE 0xCC), logical block number (NB stands for    *)
(* 0xFFFF and every other number that is not below block_totalnum).        *)
(***************************************************************************)
Tag == [bad : BOOLEAN, used : BOOLEAN, lbn : 0 .. NB]

FreshTag == [bad |-> FALSE, used |-> FALSE, lbn |-> NB]

(***************************************************************************)
(* Programming can only clear bits: over a blank cell it stores the new    *)
(* contents, over anything else the AND of the two.                        *)
(***************************************************************************)
AndVal(x, y) == IF x = FF THEN y ELSE IF y = FF \/ x = y THEN x ELSE Junk

AndEcc(x, y) ==
    IF x = BlankEcc THEN y
    ELSE IF y = BlankEcc \/ x = y THEN x
    ELSE IF FF \in {x, y} THEN FF ELSE Junk

Program(old, new) == [val  |-> AndVal(old.val, new.val),
                      ecc  |-> AndEcc(old.ecc, new.ecc),
                      flip |-> old.flip \/ new.flip]

(***************************************************************************)
(* NAND_ReadPageComp against 0xFFFFFFFF: only the main area is compared.   *)
(***************************************************************************)
LooksBlank(c) == c.val = FF /\ ~c.flip

(***************************************************************************)
(* One sector of NAND_ReadPage: the status and the data NAND_ECC_Correction*)
(* leaves in the buffer.  A difference between stored and computed code    *)
(* whose odd and even halves are complements is taken for a single flipped *)
(* bit and "corrected", whatever caused it.  Against the all-zero code of  *)
(* FF, and against the all-one code of an erased sector, every value with  *)
(* an odd number of one bits looks like that.                              *)
(***************************************************************************)
Decode(c) ==
    IF c.ecc = c.val
      THEN [sta |-> IF c.flip THEN "ecc1" ELSE "ok", data |-> c.val]
    ELSE IF c.ecc \in {FF, BlankEcc} /\ ((c.val \in Odd) # c.flip)
      THEN [sta |-> "ecc1", data |-> Junk]
    ELSE [sta |-> "ecc2", data |-> IF c.flip THEN Junk ELSE c.val]

(***************************************************************************)
(* NAND_ReadPage over w sectors of a page from sector o on returns the     *)
(* status of the last sector that had one: errsta is overwritten.          *)
(***************************************************************************)
RunStatus(page, o, w) ==
    LET bad == {k \in o .. o + w - 1 : Decode(page[k]).sta # "ok"}
    IN  IF \E k \in bad : \A j \in bad : j <= k
          THEN Decode(page[CHOOSE k \in bad : \A j \in bad : j <= k]).sta
          ELSE "ok"

(***************************************************************************)
(* NAND_CopyPageWithWrite: the source page with the w sectors from o on    *)
(* replaced by the caller's data from pos on (and its fresh codes), over   *)
(* the destination page.  With w = 0 it is NAND_CopyPageWithoutWrite: the  *)
(* copy-back moves codes and flipped bits as they are.                     *)
(***************************************************************************)
CopiedPage(from, to, o, w, data, pos) ==
    [s \in Sec |->
        Program(to[s], IF s \in o .. o + w - 1 THEN DataCell(data[pos + (s - o)])
                                               ELSE from[s])]
=============================================================================

--------------------------------- MODULE Ecc ---------------------------------
(***************************************************************************)
(* The Hamming code that nand.c keeps for every sector, bit by bit: what   *)
(* the FMC computes, NAND_ECC_Get_OE and NAND_ECC_Correction, and the part *)
(* of NAND_WritePage and NAND_ReadPage that stores and checks the codes.   *)
(*                                                                         *)
(* A sector has 2^K bits (K = 12).  The place of a bit is the set of the   *)
(* digits of its index that are one, so bytepos = errorpos / 8 and         *)
(* errorpos % 8 together are the place itself; contents and codes are the  *)
(* sets of their one bits, and ^ is the symmetric difference.              *)
(***************************************************************************)
EXTENDS Integers, FiniteSets

CONSTANTS K,                \* digits of a bit index: 12
          Width,            \* bits of a stored code: 32, of which 2 * K count
          MaxFlips,         \* bound: bits that change by themselves
          Junk, BlankEcc    \* as in Nand.tla

ASSUME EccAssumption ==
    /\ K \in Nat /\ K >= 3
    /\ Width \in Nat /\ Width > 2 * K
    /\ MaxFlips \in Nat
    /\ \A D \in SUBSET SUBSET (0 .. K - 1) : Junk # D /\ BlankEcc # D
    /\ Junk # BlankEcc

VARIABLES main, spare,      \* one sector and its stored code
          cell,             \* the same sector as Nand.tla sees it
          flipped, cflipped \* history: the bits that changed by themselves

vars == <<main, spare, cell, flipped, cflipped>>

Digits   == 0 .. K - 1
Place    == SUBSET Digits
Contents == SUBSET Place
CodeBit  == 0 .. Width - 1

Xor(A, B) == (A \ B) \cup (B \ A)

OddSize(S) == Cardinality(S) % 2 = 1

(* FMC_Bank2_3->ECCR3: for every digit the parity of the bits whose index  *)
(* has it (odd code bits) and of the others (even code bits).              *)
HardCode(D) ==
    {c \in 0 .. 2 * K - 1 :
        OddSize({p \in D : ((c \div 2) \in p) <=> (c % 2 = 1)})}

NAND_ECC_Get_OE(oe, ecc) == {k \in Digits : 2 * k + oe \in ecc}

Check(rd, cl) == Xor(Xor(NAND_ECC_Get_OE(1, rd), NAND_ECC_Get_OE(0, rd)),
                     Xor(NAND_ECC_Get_OE(1, cl), NAND_ECC_Get_OE(0, cl)))

ErrorPos_even(rd, cl) ==                \* mutant: the wrong half
    Xor(NAND_ECC_Get_OE(0, rd), NAND_ECC_Get_OE(0, cl))

ErrorPos(rd, cl) == Xor(NAND_ECC_Get_OE(1, rd), NAND_ECC_Get_OE(1, cl))

NAND_ECC_Correction_any(D, rd, cl) ==   \* mutant: without the test for 0xFFF
    [res |-> 0, data |-> Xor(D, {ErrorPos(rd, cl)})]

NAND_ECC_Correction(D, rd, cl) ==
    IF Check(rd, cl) = Digits
      THEN [res |-> 0, data |-> Xor(D, {ErrorPos(rd, cl)})]
      ELSE [res |-> 1, data |-> D]

ReadSector_blank(D, rd) ==              \* mutant: no code, no check
    LET c == NAND_ECC_Correction(D, rd, HardCode(D))
    IN  IF rd \in {HardCode(D), CodeBit} THEN [sta |-> "ok", data |-> D]
        ELSE [sta |-> IF c.res # 0 THEN "ecc2" ELSE "ecc1", data |-> c.data]

(* One sector of NAND_ReadPage.                                            *)
ReadSector(D, rd) ==
    LET c == NAND_ECC_Correction(D, rd, HardCode(D))
    IN  IF rd = HardCode(D) THEN [sta |-> "ok", data |-> D]
        ELSE [sta |-> IF c.res # 0 THEN "ecc2" ELSE "ecc1", data |-> c.data]

-----------------------------------------------------------------------------

N == INSTANCE Nand WITH
    NB <- 1, PPB <- 2, SPP <- 1, Val <- Contents, FF <- Place,
    Odd <- {D \in Contents : OddSize(D)}

(* The FTL programs a sector only where it reads as 0xFF.                  *)
NAND_WritePage ==
    /\ main = Place /\ flipped = {} /\ cflipped = {}
    /\ \E D \in Contents :
         /\ main' = main \cap D
         /\ spare' = spare \cap HardCode(D)
         /\ cell' = N!Program(cell, N!DataCell(D))
    /\ UNCHANGED <<flipped, cflipped>>

NAND_EraseBlock ==
    /\ main' = Place /\ spare' = CodeBit /\ cell' = N!BlankCell
    /\ flipped' = {} /\ cflipped' = {}

Budget == Cardinality(flipped) + Cardinality(cflipped) < MaxFlips

FlipMain ==
    /\ Budget
    /\ \E p \in Place \ flipped :
         /\ main' = Xor(main, {p}) /\ flipped' = flipped \cup {p}
    /\ cell' = [cell EXCEPT !.flip = TRUE]
    /\ UNCHANGED <<spare, cflipped>>

FlipSpare ==
    /\ Budget
    /\ \E c \in CodeBit \ cflipped :
         /\ spare' = Xor(spare, {c}) /\ cflipped' = cflipped \cup {c}
    /\ UNCHANGED <<main, cell, flipped>>

Init == /\ main = Place /\ spare = CodeBit /\ cell = N!BlankCell
        /\ flipped = {} /\ cflipped = {}

Next == NAND_WritePage \/ NAND_EraseBlock \/ FlipMain \/ FlipSpare

Spec == Init /\ [][Next]_vars

-----------------------------------------------------------------------------

(* What NAND_ReadPage makes of the sector now.                             *)
Result == ReadSector(main, spare)

(* The sector has been programmed, once, and its code with it.             *)
Programmed == cell.ecc = cell.val

(***************************************************************************)
(* NAND_ECC_Correction repairs every single flipped bit: the caller gets   *)
(* what was programmed (nand.c:636 "0, the error is corrected").           *)
(***************************************************************************)
OneFlipRepaired ==
    Programmed /\ Cardinality(flipped) = 1 /\ cflipped = {}
        => Result = [sta |-> "ecc1", data |-> cell.val]

(***************************************************************************)
(* It takes no two flipped bits, of the sector or of the 2 * K code bits,  *)
(* for one (nand.c:637): they are reported and nothing is changed.         *)
(***************************************************************************)
TwoFlipsReported ==
    Programmed /\ Cardinality(flipped) + Cardinality(cflipped) = 2
               /\ cflipped \subseteq 0 .. 2 * K - 1
        => Result = [sta |-> "ecc2", data |-> main]

(***************************************************************************)
(* One flipped code bit leaves the data alone.  It is reported as two      *)
(* errors, although nand.c:655 says that only two could be.                *)
(***************************************************************************)
CodeFlipHarmless ==
    Programmed /\ flipped = {} /\ Cardinality(cflipped) = 1
        => Result = [sta |-> "ecc2", data |-> cell.val]

(***************************************************************************)
(* Nand.tla's Decode says what the code computes, for a sector that is     *)
(* erased, programmed, or programmed with 0xFF and then programmed again,  *)
(* with at most one flipped bit: the same status, and where Decode says    *)
(* Junk data that nobody wrote.  In the last case Decode neglects contents *)
(* whose code happens to be zero.                                          *)
(***************************************************************************)
DecodeAgrees ==
    LET d == N!Decode(cell)
    IN  /\ Cardinality(flipped) <= 1 /\ cflipped = {}
        /\ {} \notin {HardCode(main), HardCode(cell.val)}
           \/ Programmed \/ cell.val = Place
        => /\ Result.sta = d.sta
           /\ IF d.data = Junk THEN Result.data # cell.val
                               ELSE Result.data = d.data

=============================================================================

----------------------------- MODULE Ecc_proofs -----------------------------
(***************************************************************************)
(* NAND_ECC_Correction repairs one flipped bit and reports two, for every  *)
(* sector size 2^K.  The argument: a flipped bit at place p changes the    *)
(* odd half of the hardware's code by p and the even half by the           *)
(* complement of p, so that Check sees all ones and ErrorPos is p; a       *)
(* second flip makes the changes of the two halves equal again, and a      *)
(* flipped code bit changes one half in one digit only.                    *)
(***************************************************************************)
EXTENDS Ecc, FiniteSetTheorems, FunctionTheorems, TLAPS

-----------------------------------------------------------------------------
(* Finite sets and their parity.                                           *)

(* Sectors are finite.                                                     *)
LEMMA FiniteSector ==
  /\ IsFiniteSet(Digits) /\ IsFiniteSet(Place) /\ IsFiniteSet(CodeBit)
  /\ \A D \in Contents : IsFiniteSet(D)
<1>1. IsFiniteSet(Digits)
  BY FS_Interval, EccAssumption DEF Digits
<1>2. IsFiniteSet(Place)
  BY <1>1, FS_SUBSET DEF Place
<1>3. IsFiniteSet(CodeBit)
  BY FS_Interval, EccAssumption DEF CodeBit
<1>4. \A D \in Contents : IsFiniteSet(D)
  BY <1>2, FS_Subset DEF Contents
<1> QED BY <1>1, <1>2, <1>3, <1>4

(* One element more or less changes the parity of a set.                   *)
LEMMA ParityFlips ==
  ASSUME NEW S, IsFiniteSet(S), NEW x
  PROVE  OddSize(Xor(S, {x})) <=> ~OddSize(S)
<1>1. CASE x \in S
  <2>1. Xor(S, {x}) = S \ {x}
    BY <1>1 DEF Xor
  <2>2. Cardinality(S \ {x}) = Cardinality(S) - 1
    BY <1>1, FS_RemoveElement
  <2>3. Cardinality(S) \in Nat /\ Cardinality(S \ {x}) \in Nat
    BY FS_CardinalityType, FS_RemoveElement
  <2>4. (Cardinality(S) - 1) % 2 = 1 <=> ~(Cardinality(S) % 2 = 1)
    BY <2>3
  <2> QED BY <2>1, <2>2, <2>4 DEF OddSize
<1>2. CASE x \notin S
  <2>1. Xor(S, {x}) = S \cup {x}
    BY <1>2 DEF Xor
  <2>2. Cardinality(S \cup {x}) = Cardinality(S) + 1
    BY <1>2, FS_AddElement
  <2>3. Cardinality(S) \in Nat
    BY FS_CardinalityType
  <2>4. (Cardinality(S) + 1) % 2 = 1 <=> ~(Cardinality(S) % 2 = 1)
    BY <2>3
  <2> QED BY <2>1, <2>2, <2>4 DEF OddSize
<1> QED BY <1>1, <1>2

-----------------------------------------------------------------------------
(* The two halves of the hardware's code.                                  *)

(* NAND_ECC_Get_OE undoes the interleaving.                                *)
LEMMA Halves ==
  ASSUME NEW D
  PROVE  /\ NAND_ECC_Get_OE(1, HardCode(D))
              = {k \in Digits : OddSize({p \in D : k \in p})}
         /\ NAND_ECC_Get_OE(0, HardCode(D))
              = {k \in Digits : OddSize({p \in D : k \notin p})}
<1> USE EccAssumption
<1>1. ASSUME NEW k \in Digits
      PROVE  /\ 2 * k + 1 \in HardCode(D) <=> OddSize({p \in D : k \in p})
             /\ 2 * k + 0 \in HardCode(D) <=> OddSize({p \in D : k \notin p})
  <2>1. /\ k \in Int /\ 0 <= k /\ k <= K - 1
        /\ 2 * k + 1 \in 0 .. 2 * K - 1 /\ 2 * k + 0 \in 0 .. 2 * K - 1
    BY DEF Digits
  <2>2. /\ (2 * k + 1) \div 2 = k /\ (2 * k + 1) % 2 = 1
        /\ (2 * k + 0) \div 2 = k /\ (2 * k + 0) % 2 = 0
    BY <2>1
  <2>3. {p \in D : ((2 * k + 1) \div 2 \in p) <=> ((2 * k + 1) % 2 = 1)}
          = {p \in D : k \in p}
    BY <2>2
  <2>4. {p \in D : ((2 * k + 0) \div 2 \in p) <=> ((2 * k + 0) % 2 = 1)}
          = {p \in D : k \notin p}
    BY <2>2
  <2> QED BY <2>1, <2>3, <2>4 DEF HardCode
<1> QED BY <1>1 DEF NAND_ECC_Get_OE

(* A flipped bit of the sector changes the odd half by its place and the   *)
(* even half by the complement of its place.                               *)
LEMMA FlipShowsPlace ==
  ASSUME NEW D \in Contents, NEW p \in Place
  PROVE  /\ NAND_ECC_Get_OE(1, HardCode(Xor(D, {p})))
              = Xor(NAND_ECC_Get_OE(1, HardCode(D)), p)
         /\ NAND_ECC_Get_OE(0, HardCode(Xor(D, {p})))
              = Xor(NAND_ECC_Get_OE(0, HardCode(D)), Digits \ p)
<1> DEFINE In(E, k)  == {q \in E : k \in q}
           Out(E, k) == {q \in E : k \notin q}
           F == Xor(D, {p})
<1>1. p \subseteq Digits
  BY DEF Place
<1>2. ASSUME NEW k \in Digits
      PROVE  /\ OddSize(In(F, k)) <=> (OddSize(In(D, k)) <=> k \notin p)
             /\ OddSize(Out(F, k)) <=> (OddSize(Out(D, k)) <=> k \in p)
  <2>1. IsFiniteSet(In(D, k)) /\ IsFiniteSet(Out(D, k))
    <3>1. IsFiniteSet(D) /\ In(D, k) \subseteq D /\ Out(D, k) \subseteq D
      BY FiniteSector
    <3> QED BY <3>1, FS_Subset
  <2>2. CASE k \in p
    <3>1. In(F, k) = Xor(In(D, k), {p}) /\ Out(F, k) = Out(D, k)
      BY <2>2 DEF Xor
    <3> QED BY <2>1, <2>2, <3>1, ParityFlips
  <2>3. CASE k \notin p
    <3>1. Out(F, k) = Xor(Out(D, k), {p}) /\ In(F, k) = In(D, k)
      BY <2>3 DEF Xor
    <3> QED BY <2>1, <2>3, <3>1, ParityFlips
  <2> QED BY <2>2, <2>3
<1>3. {k \in Digits : OddSize(In(F, k))} = Xor({k \in Digits : OddSize(In(D, k))}, p)
  BY <1>1, <1>2 DEF Xor
<1>4. {k \in Digits : OddSize(Out(F, k))}
        = Xor({k \in Digits : OddSize(Out(D, k))}, Digits \ p)
  BY <1>1, <1>2 DEF Xor
<1> QED BY <1>3, <1>4, Halves

(* A flipped code bit changes one digit of one half.                       *)
LEMMA CodeFlipShowsDigit ==
  ASSUME NEW C, NEW c \in 0 .. 2 * K - 1
  PROVE  /\ c \div 2 \in Digits
         /\ c % 2 = 1 =>
              /\ NAND_ECC_Get_OE(1, Xor(C, {c})) = Xor(NAND_ECC_Get_OE(1, C), {c \div 2})
              /\ NAND_ECC_Get_OE(0, Xor(C, {c})) = NAND_ECC_Get_OE(0, C)
         /\ c % 2 = 0 =>
              /\ NAND_ECC_Get_OE(0, Xor(C, {c})) = Xor(NAND_ECC_Get_OE(0, C), {c \div 2})
              /\ NAND_ECC_Get_OE(1, Xor(C, {c})) = NAND_ECC_Get_OE(1, C)
<1> USE EccAssumption
<1>1. c \in Int /\ c \div 2 \in Digits
  BY DEF Digits
<1>2. \A k \in Digits : k \in Int
  BY DEF Digits
<1> DEFINE h == c \div 2
<1>3. ASSUME c % 2 = 1
      PROVE  \A k \in Digits : (2 * k + 1 = c <=> k = h) /\ 2 * k + 0 # c
  BY <1>1, <1>2, <1>3
<1>4. ASSUME c % 2 = 0
      PROVE  \A k \in Digits : (2 * k + 0 = c <=> k = h) /\ 2 * k + 1 # c
  <2>1. c = 2 * h /\ h \in Int
    BY <1>1, <1>4
  <2> HIDE DEF h
  <2> QED BY <1>2, <2>1
<1>5. \A e : e \in Xor(C, {c}) <=> (e \in C <=> e # c)
  BY DEF Xor
<1>6. c % 2 = 1 =>
        /\ NAND_ECC_Get_OE(1, Xor(C, {c})) = Xor(NAND_ECC_Get_OE(1, C), {c \div 2})
        /\ NAND_ECC_Get_OE(0, Xor(C, {c})) = NAND_ECC_Get_OE(0, C)
  <2> SUFFICES ASSUME c % 2 = 1
               PROVE  /\ NAND_ECC_Get_OE(1, Xor(C, {c}))
                           = Xor(NAND_ECC_Get_OE(1, C), {c \div 2})
                      /\ NAND_ECC_Get_OE(0, Xor(C, {c})) = NAND_ECC_Get_OE(0, C)
    OBVIOUS
  <2>1. \A k \in Digits : (2 * k + 1 \in Xor(C, {c})) <=> (2 * k + 1 \in C <=> k # c \div 2)
    BY <1>3, <1>5
  <2>2. \A k \in Digits : (2 * k + 0 \in Xor(C, {c})) <=> (2 * k + 0 \in C)
    BY <1>3, <1>5
  <2>3. NAND_ECC_Get_OE(0, Xor(C, {c})) = NAND_ECC_Get_OE(0, C)
    BY <2>2 DEF NAND_ECC_Get_OE
  <2>4. NAND_ECC_Get_OE(1, Xor(C, {c}))
          = {k \in Digits : 2 * k + 1 \in C <=> k # c \div 2}
    BY <2>1 DEF NAND_ECC_Get_OE
  <2>5. {k \in Digits : 2 * k + 1 \in C <=> k # c \div 2}
          = Xor({k \in Digits : 2 * k + 1 \in C}, {c \div 2})
    BY <1>1 DEF Xor
  <2> QED BY <2>3, <2>4, <2>5 DEF NAND_ECC_Get_OE
<1>7. c % 2 = 0 =>
        /\ NAND_ECC_Get_OE(0, Xor(C, {c})) = Xor(NAND_ECC_Get_OE(0, C), {c \div 2})
        /\ NAND_ECC_Get_OE(1, Xor(C, {c})) = NAND_ECC_Get_OE(1, C)
  <2> SUFFICES ASSUME c % 2 = 0
               PROVE  /\ NAND_ECC_Get_OE(0, Xor(C, {c}))
                           = Xor(NAND_ECC_Get_OE(0, C), {c \div 2})
                      /\ NAND_ECC_Get_OE(1, Xor(C, {c})) = NAND_ECC_Get_OE(1, C)
    OBVIOUS
  <2>1. \A k \in Digits : (2 * k + 0 \in Xor(C, {c})) <=> (2 * k + 0 \in C <=> k # c \div 2)
    BY <1>4, <1>5
  <2>2. \A k \in Digits : (2 * k + 1 \in Xor(C, {c})) <=> (2 * k + 1 \in C)
    BY <1>4, <1>5
  <2>3. NAND_ECC_Get_OE(1, Xor(C, {c})) = NAND_ECC_Get_OE(1, C)
    BY <2>2 DEF NAND_ECC_Get_OE
  <2>4. NAND_ECC_Get_OE(0, Xor(C, {c}))
          = {k \in Digits : 2 * k + 0 \in C <=> k # c \div 2}
    BY <2>1 DEF NAND_ECC_Get_OE
  <2>5. {k \in Digits : 2 * k + 0 \in C <=> k # c \div 2}
          = Xor({k \in Digits : 2 * k + 0 \in C}, {c \div 2})
    BY <1>1 DEF Xor
  <2> QED BY <2>3, <2>4, <2>5 DEF NAND_ECC_Get_OE
<1> QED BY <1>1, <1>6, <1>7

-----------------------------------------------------------------------------
(* What NAND_ReadPage makes of one and of two flips.                       *)

(***************************************************************************)
(* NAND_ECC_Correction inverts every single flip of a sector of any size.  *)
(***************************************************************************)
THEOREM OneFlip ==
  ASSUME NEW D \in Contents, NEW p \in Place
  PROVE  ReadSector(Xor(D, {p}), HardCode(D)) = [sta |-> "ecc1", data |-> D]
<1> DEFINE F == Xor(D, {p})
           O(C) == NAND_ECC_Get_OE(1, C)
           E(C) == NAND_ECC_Get_OE(0, C)
<1>1. O(HardCode(F)) = Xor(O(HardCode(D)), p) /\ p \subseteq Digits
  BY FlipShowsPlace DEF Place
<1>2. E(HardCode(F)) = Xor(E(HardCode(D)), Digits \ p)
  BY FlipShowsPlace
<1>3. O(HardCode(D)) \subseteq Digits /\ E(HardCode(D)) \subseteq Digits
  BY DEF NAND_ECC_Get_OE
<1> HIDE DEF F, O, E
<1>4. Xor(Xor(O(HardCode(D)), E(HardCode(D))), Xor(O(HardCode(F)), E(HardCode(F)))) = Digits
  BY <1>1, <1>2, <1>3 DEF Xor
<1>5. Check(HardCode(D), HardCode(F)) = Digits
  BY <1>4 DEF Check, O, E
<1>6. ErrorPos(HardCode(D), HardCode(F)) = p
  <2>1. Xor(O(HardCode(D)), O(HardCode(F))) = p
    BY <1>1 DEF Xor
  <2> QED BY <2>1 DEF ErrorPos, O
<1>7. HardCode(D) # HardCode(F)
  <2>1. SUFFICES ASSUME HardCode(D) = HardCode(F) PROVE FALSE
    OBVIOUS
  <2>2. Xor(Xor(O(HardCode(D)), E(HardCode(D))), Xor(O(HardCode(D)), E(HardCode(D)))) = {}
    BY DEF Xor
  <2>3. 0 \in Digits
    BY EccAssumption DEF Digits
  <2> QED BY <1>4, <2>1, <2>2, <2>3
<1>8. Xor(F, {p}) = D
  BY DEF F, Xor
<1> QED BY <1>5, <1>6, <1>7, <1>8 DEF ReadSector, NAND_ECC_Correction, F

(* Two flips in the sector.                                                *)
LEMMA TwoDataFlips ==
  ASSUME NEW D \in Contents, NEW p \in Place, NEW q \in Place, p # q
  PROVE  ReadSector(Xor(Xor(D, {p}), {q}), HardCode(D))
           = [sta |-> "ecc2", data |-> Xor(Xor(D, {p}), {q})]
<1> DEFINE F == Xor(D, {p})
           G == Xor(F, {q})
           O(C) == NAND_ECC_Get_OE(1, C)
           E(C) == NAND_ECC_Get_OE(0, C)
<1>1. F \in Contents /\ p \subseteq Digits /\ q \subseteq Digits
  BY DEF Contents, Place, Xor
<1>2. O(HardCode(F)) = Xor(O(HardCode(D)), p) /\ O(HardCode(G)) = Xor(O(HardCode(F)), q)
  BY <1>1, FlipShowsPlace
<1>3. /\ E(HardCode(F)) = Xor(E(HardCode(D)), Digits \ p)
      /\ E(HardCode(G)) = Xor(E(HardCode(F)), Digits \ q)
  BY <1>1, FlipShowsPlace
<1> HIDE DEF F, G, O, E
<1>4. Xor(Xor(O(HardCode(D)), E(HardCode(D))), Xor(O(HardCode(G)), E(HardCode(G)))) = {}
  <2>1. O(HardCode(G)) = Xor(Xor(O(HardCode(D)), p), q)
    BY <1>2
  <2>2. E(HardCode(G)) = Xor(Xor(E(HardCode(D)), Digits \ p), Digits \ q)
    BY <1>3
  <2>3. E(HardCode(G)) = Xor(Xor(E(HardCode(D)), p), q)
    BY <1>1, <2>2 DEF Xor
  <2> QED BY <2>1, <2>3 DEF Xor
<1>5. Check(HardCode(D), HardCode(G)) # Digits
  <2>1. 0 \in Digits
    BY EccAssumption DEF Digits
  <2> QED BY <1>4, <2>1 DEF Check, O, E
<1>6. HardCode(D) # HardCode(G)
  <2>1. Xor(O(HardCode(D)), O(HardCode(G))) # {}
    BY <1>2 DEF Xor
  <2>2. Xor(O(HardCode(D)), O(HardCode(D))) = {}
    BY DEF Xor
  <2> QED BY <2>1, <2>2
<1> QED BY <1>5, <1>6 DEF ReadSector, NAND_ECC_Correction, F, G

(* A set of at most two digits is not the set of all of them.              *)
LEMMA ThreeDigits ==
  ASSUME NEW S, NEW x, NEW y, S \subseteq {x, y}
  PROVE  S # Digits
<1>1. 0 \in Digits /\ 1 \in Digits /\ 2 \in Digits
  BY EccAssumption DEF Digits
<1> QED BY <1>1

(* How the check changes with one code bit.                                *)
LEMMA CheckFlip ==
  ASSUME NEW C, NEW c \in 0 .. 2 * K - 1, NEW H
  PROVE  Check(Xor(C, {c}), H) = Xor(Check(C, H), {c \div 2})
<1> DEFINE O(X) == NAND_ECC_Get_OE(1, X)
           E(X) == NAND_ECC_Get_OE(0, X)
           h == c \div 2
<1>1. c % 2 = 1 \/ c % 2 = 0
  BY EccAssumption
<1>2. \/ O(Xor(C, {c})) = Xor(O(C), {h}) /\ E(Xor(C, {c})) = E(C)
      \/ E(Xor(C, {c})) = Xor(E(C), {h}) /\ O(Xor(C, {c})) = O(C)
  BY <1>1, CodeFlipShowsDigit
<1> HIDE DEF O, E, h
<1>3. Xor(Xor(O(Xor(C, {c})), E(Xor(C, {c}))), Xor(O(H), E(H)))
        = Xor(Xor(Xor(O(C), E(C)), Xor(O(H), E(H))), {h})
  BY <1>2 DEF Xor
<1> QED BY <1>3 DEF Check, O, E, h

(* One flip in the sector and one in its code.                             *)
LEMMA DataAndCodeFlip ==
  ASSUME NEW D \in Contents, NEW p \in Place, NEW c \in 0 .. 2 * K - 1
  PROVE  ReadSector(Xor(D, {p}), Xor(HardCode(D), {c}))
           = [sta |-> "ecc2", data |-> Xor(D, {p})]
<1> DEFINE F == Xor(D, {p})
<1>1. Check(HardCode(D), HardCode(F)) = Digits
  <2> DEFINE O(C) == NAND_ECC_Get_OE(1, C)
             E(C) == NAND_ECC_Get_OE(0, C)
  <2>1. O(HardCode(F)) = Xor(O(HardCode(D)), p) /\ p \subseteq Digits
    BY FlipShowsPlace DEF Place
  <2>2. E(HardCode(F)) = Xor(E(HardCode(D)), Digits \ p)
    BY FlipShowsPlace
  <2>3. O(HardCode(D)) \subseteq Digits /\ E(HardCode(D)) \subseteq Digits
    BY DEF NAND_ECC_Get_OE
  <2> HIDE DEF F, O, E
  <2>4. Xor(Xor(O(HardCode(D)), E(HardCode(D))), Xor(O(HardCode(F)), E(HardCode(F))))
          = Digits
    BY <2>1, <2>2, <2>3 DEF Xor
  <2> QED BY <2>4 DEF Check, O, E
<1>2. Check(Xor(HardCode(D), {c}), HardCode(F)) = Xor(Digits, {c \div 2})
  BY <1>1, CheckFlip
<1>3. Xor(Digits, {c \div 2}) # Digits
  BY CodeFlipShowsDigit DEF Xor
<1>4. Xor(HardCode(D), {c}) # HardCode(F)
  <2>1. Check(HardCode(F), HardCode(F)) = {}
    BY DEF Check, Xor
  <2>2. \E d \in Digits : d # c \div 2
    BY EccAssumption DEF Digits
  <2>3. Xor(Digits, {c \div 2}) # {}
    BY <2>2 DEF Xor
  <2> QED BY <1>2, <2>1, <2>3
<1> QED BY <1>2, <1>3, <1>4 DEF ReadSector, NAND_ECC_Correction, F

(* Two flips in the code, or one.                                          *)
LEMMA CodeFlips ==
  ASSUME NEW D \in Contents, NEW c \in 0 .. 2 * K - 1
  PROVE  /\ ReadSector(D, Xor(HardCode(D), {c})) = [sta |-> "ecc2", data |-> D]
         /\ \A d \in 0 .. 2 * K - 1 :
              c # d => ReadSector(D, Xor(Xor(HardCode(D), {c}), {d}))
                         = [sta |-> "ecc2", data |-> D]
<1>1. Check(HardCode(D), HardCode(D)) = {}
  BY DEF Check, Xor
<1> DEFINE h(e) == e \div 2
<1>2. Check(Xor(HardCode(D), {c}), HardCode(D)) = {h(c)}
  <2>1. Check(Xor(HardCode(D), {c}), HardCode(D)) = Xor(Check(HardCode(D), HardCode(D)), {h(c)})
    BY CheckFlip
  <2> HIDE DEF h
  <2> QED BY <1>1, <2>1 DEF Xor
<1>3. Xor(HardCode(D), {c}) # HardCode(D)
  BY DEF Xor
<1>4. ReadSector(D, Xor(HardCode(D), {c})) = [sta |-> "ecc2", data |-> D]
  <2>1. {h(c)} # Digits
    BY ThreeDigits
  <2> HIDE DEF h
  <2> QED BY <1>2, <1>3, <2>1 DEF ReadSector, NAND_ECC_Correction
<1>5. ASSUME NEW d \in 0 .. 2 * K - 1, c # d
      PROVE  ReadSector(D, Xor(Xor(HardCode(D), {c}), {d})) = [sta |-> "ecc2", data |-> D]
  <2>1. Check(Xor(Xor(HardCode(D), {c}), {d}), HardCode(D))
          = Xor(Check(Xor(HardCode(D), {c}), HardCode(D)), {h(d)})
    BY CheckFlip
  <2> HIDE DEF h
  <2>2. Xor({h(c)}, {h(d)}) \subseteq {h(c), h(d)}
    BY DEF Xor
  <2>3. Xor({h(c)}, {h(d)}) # Digits
    BY <2>2, ThreeDigits
  <2>4. Xor(Xor(HardCode(D), {c}), {d}) # HardCode(D)
    BY <1>5 DEF Xor
  <2>5. Check(Xor(Xor(HardCode(D), {c}), {d}), HardCode(D)) # Digits
    BY <1>2, <2>1, <2>3
  <2> QED BY <2>4, <2>5 DEF ReadSector, NAND_ECC_Correction
<1> QED BY <1>4, <1>5

-----------------------------------------------------------------------------
(* The sector in time.                                                     *)

(***************************************************************************)
(* The sector is what was programmed with the flips on top, and so is its  *)
(* code after one program; cell says which contents the code belongs to.   *)
(***************************************************************************)
CellType == cell \in [val : Contents, ecc : Contents \cup {BlankEcc}, flip : BOOLEAN]

CodeInv ==
  /\ cell.ecc \in {BlankEcc, Place, cell.val}
  /\ cell.ecc = BlankEcc => cell.val = Place /\ spare = Xor(CodeBit, cflipped)
  /\ Programmed => spare = Xor(HardCode(cell.val), cflipped)

IInv == /\ CellType /\ CodeInv
        /\ main = Xor(cell.val, flipped)
        /\ flipped \in SUBSET Place /\ cflipped \in SUBSET CodeBit

(* The two markers are no contents.                                        *)
LEMMA NotContents == \A D \in Contents : Junk # D /\ BlankEcc # D
  BY EccAssumption DEF Contents, Place, Digits

(* All bits one, an erased sector.                                         *)
LEMMA PlaceIsContents == Place \in Contents
  BY DEF Contents

(* An erase starts over.                                                   *)
LEMMA EraseInv ==
  ASSUME cell' = N!BlankCell, main' = Place, spare' = CodeBit, flipped' = {}, cflipped' = {}
  PROVE  IInv'
<1>1. cell' = [val |-> Place, ecc |-> BlankEcc, flip |-> FALSE]
  BY DEF N!BlankCell
<1>2. cell'.val = Place /\ cell'.ecc = BlankEcc
  BY <1>1
<1>3. CellType'
  BY <1>1, PlaceIsContents DEF CellType
<1>4. main' = Xor(cell'.val, flipped') /\ spare' = Xor(CodeBit, cflipped')
  BY <1>2 DEF Xor
<1>5. CodeInv'
  BY <1>2, <1>4, NotContents, PlaceIsContents DEF CodeInv, Programmed
<1> QED BY <1>3, <1>4, <1>5 DEF IInv

(* A program of an erased sector stores the contents and their code.       *)
LEMMA WriteInv == IInv /\ NAND_WritePage => IInv'
<1> SUFFICES ASSUME IInv, NAND_WritePage PROVE IInv'
  OBVIOUS
<1>1. main = Place /\ flipped = {} /\ cflipped = {}
  BY DEF NAND_WritePage
<1>2. PICK D \in Contents : /\ main' = main \cap D
                            /\ spare' = spare \cap HardCode(D)
                            /\ cell' = N!Program(cell, N!DataCell(D))
  BY DEF NAND_WritePage
<1>3. flipped' = {} /\ cflipped' = {}
  BY <1>1 DEF NAND_WritePage
<1>4. cell.val = Place /\ cell.ecc \in {BlankEcc, Place} /\ cell.flip \in BOOLEAN
  <2>1. cell.val = Place
    BY <1>1 DEF IInv, Xor
  <2> QED BY <2>1 DEF IInv, CellType, CodeInv
<1>5. /\ cell'.val = D /\ cell'.flip \in BOOLEAN
      /\ cell'.ecc = IF cell.ecc = BlankEcc THEN D ELSE Place
      /\ cell' = [val |-> cell'.val, ecc |-> cell'.ecc, flip |-> cell'.flip]
  <2>1. cell' = [val |-> N!AndVal(Place, D), ecc |-> N!AndEcc(cell.ecc, D),
                 flip |-> cell.flip \/ FALSE]
    BY <1>2, <1>4 DEF N!Program, N!DataCell
  <2>2. N!AndVal(Place, D) = D
    BY DEF N!AndVal
  <2>3. N!AndEcc(cell.ecc, D) = IF cell.ecc = BlankEcc THEN D ELSE Place
    BY <1>4, NotContents, PlaceIsContents DEF N!AndEcc
  <2> QED BY <1>4, <2>1, <2>2, <2>3
<1>6. CellType'
  BY <1>5, PlaceIsContents DEF CellType
<1>7. main' = Xor(cell'.val, flipped')
  BY <1>1, <1>2, <1>3, <1>5 DEF Xor, Contents
<1>8. CodeInv'
  <2>1. cell'.ecc \in {Place, cell'.val} /\ cell'.ecc # BlankEcc
    BY <1>5, NotContents, PlaceIsContents
  <2>2. \A X : Xor(X, {}) = X
    BY DEF Xor
  <2>3. ASSUME Programmed' PROVE spare' = HardCode(D)
    <3>1. CASE cell.ecc = BlankEcc
      <4>1. spare = CodeBit
        BY <1>1, <2>2, <3>1 DEF IInv, CodeInv
      <4>2. HardCode(D) \subseteq CodeBit
        BY EccAssumption DEF HardCode, CodeBit
      <4> QED BY <1>2, <4>1, <4>2
    <3>2. CASE cell.ecc # BlankEcc
      <4>1. D = Place /\ cell.ecc = Place
        BY <1>4, <1>5, <2>3, <3>2 DEF Programmed
      <4>2. spare = HardCode(Place)
        BY <1>1, <1>4, <2>2, <4>1 DEF IInv, CodeInv, Programmed
      <4> QED BY <1>2, <4>1, <4>2
    <3> QED BY <3>1, <3>2
  <2> QED BY <1>3, <1>5, <2>1, <2>2, <2>3 DEF CodeInv
<1> QED BY <1>3, <1>6, <1>7, <1>8 DEF IInv

(* A flip is recorded.                                                     *)
LEMMA FlipInv == IInv /\ (FlipMain \/ FlipSpare) => IInv'
<1> SUFFICES ASSUME IInv, FlipMain \/ FlipSpare PROVE IInv'
  OBVIOUS
<1>1. \A A, B : \A x : x \notin B => Xor(Xor(A, B), {x}) = Xor(A, B \cup {x})
  BY DEF Xor
<1>2. CASE FlipMain
  <2>1. PICK p \in Place \ flipped :
          main' = Xor(main, {p}) /\ flipped' = flipped \cup {p}
    BY <1>2 DEF FlipMain
  <2>2. cell' = [cell EXCEPT !.flip = TRUE] /\ spare' = spare /\ cflipped' = cflipped
    BY <1>2 DEF FlipMain
  <2>3. cell'.val = cell.val /\ cell'.ecc = cell.ecc /\ CellType'
    BY <2>2 DEF IInv, CellType
  <2>4. CodeInv'
    BY <2>2, <2>3 DEF IInv, CodeInv, Programmed
  <2>5. main' = Xor(cell'.val, flipped')
    BY <1>1, <2>1, <2>3 DEF IInv
  <2> QED BY <2>1, <2>2, <2>3, <2>4, <2>5 DEF IInv
<1>3. CASE FlipSpare
  <2>1. PICK c \in CodeBit \ cflipped :
          spare' = Xor(spare, {c}) /\ cflipped' = cflipped \cup {c}
    BY <1>3 DEF FlipSpare
  <2>2. cell' = cell /\ main' = main /\ flipped' = flipped
    BY <1>3 DEF FlipSpare
  <2>3. CodeInv'
    BY <1>1, <2>1, <2>2 DEF IInv, CodeInv, Programmed
  <2> QED BY <2>1, <2>2, <2>3 DEF IInv, CellType
<1> QED BY <1>2, <1>3

(* The invariant the two theorems rest on.                                 *)
LEMMA Inductive == Spec => []IInv
<1>1. Init => IInv
  <2> SUFFICES ASSUME Init PROVE IInv
    OBVIOUS
  <2>1. cell = [val |-> Place, ecc |-> BlankEcc, flip |-> FALSE]
    BY DEF Init, N!BlankCell
  <2>2. cell.val = Place /\ cell.ecc = BlankEcc
    BY <2>1
  <2>3. CellType
    BY <2>1, PlaceIsContents DEF CellType
  <2>4. main = Xor(cell.val, flipped) /\ spare = Xor(CodeBit, cflipped)
    BY <2>2 DEF Init, Xor
  <2>5. CodeInv
    BY <2>2, <2>4, NotContents, PlaceIsContents DEF CodeInv, Programmed
  <2> QED BY <2>3, <2>4, <2>5 DEF IInv, Init
<1>2. IInv /\ [Next]_vars => IInv'
  <2> SUFFICES ASSUME IInv, [Next]_vars PROVE IInv'
    OBVIOUS
  <2>1. CASE NAND_WritePage
    BY <2>1, WriteInv
  <2>2. CASE NAND_EraseBlock
    BY <2>2, EraseInv DEF NAND_EraseBlock
  <2>3. CASE FlipMain \/ FlipSpare
    BY <2>3, FlipInv
  <2>4. CASE UNCHANGED vars
    BY <2>4 DEF vars, IInv, CellType, CodeInv, Programmed
  <2> QED BY <2>1, <2>2, <2>3, <2>4 DEF Next
<1> QED BY <1>1, <1>2, PTL DEF Spec

(* Small finite sets, element by element.                                  *)
LEMMA OneOrTwo ==
  ASSUME NEW S, IsFiniteSet(S)
  PROVE  /\ Cardinality(S) \in Nat
         /\ Cardinality(S) = 0 => S = {}
         /\ Cardinality(S) = 1 => \E x : S = {x}
         /\ Cardinality(S) = 2 => \E x, y : x # y /\ S = {x, y}
<1>1. Cardinality(S) \in Nat
  BY FS_CardinalityType
<1>2. Cardinality(S) = 0 => S = {}
  BY FS_EmptySet
<1>3. Cardinality(S) = 1 => \E x : S = {x}
  BY FS_Singleton
<1>4. ASSUME Cardinality(S) = 2 PROVE \E x, y : x # y /\ S = {x, y}
  <2>1. PICK x : x \in S
    BY <1>4, FS_EmptySet
  <2>2. IsFiniteSet(S \ {x}) /\ Cardinality(S \ {x}) = 1
    BY <1>4, <2>1, FS_RemoveElement
  <2>3. PICK y : S \ {x} = {y}
    BY <2>2, FS_Singleton
  <2>4. x # y /\ S = {x, y}
    BY <2>1, <2>3
  <2> QED BY <2>4
<1> QED BY <1>1, <1>2, <1>3, <1>4

(***************************************************************************)
(* OneFlipRepaired, for every sector size and any number of flips.         *)
(***************************************************************************)
THEOREM OneFlipCorrect == Spec => []OneFlipRepaired
<1>1. IInv => OneFlipRepaired
  <2> SUFFICES ASSUME IInv, Programmed, Cardinality(flipped) = 1, cflipped = {}
               PROVE  Result = [sta |-> "ecc1", data |-> cell.val]
    BY DEF OneFlipRepaired
  <2>1. IsFiniteSet(flipped)
    BY FiniteSector, FS_Subset DEF IInv
  <2>2. PICK p : flipped = {p}
    BY <2>1, FS_Singleton
  <2>3. p \in Place /\ cell.val \in Contents
    BY <2>2 DEF IInv, CellType
  <2>4. main = Xor(cell.val, {p})
    BY <2>2 DEF IInv
  <2>5. spare = HardCode(cell.val)
    <3>1. Xor(HardCode(cell.val), {}) = HardCode(cell.val)
      BY DEF Xor
    <3> QED BY <3>1 DEF IInv, CodeInv
  <2> QED BY <2>3, <2>4, <2>5, OneFlip DEF Result
<1> QED BY <1>1, Inductive, PTL

(***************************************************************************)
(* TwoFlipsReported, for every sector size: no two flips of a sector and   *)
(* its code pass for one.                                                  *)
(***************************************************************************)
THEOREM TwoFlipsCorrect == Spec => []TwoFlipsReported
<1>1. IInv => TwoFlipsReported
  <2> SUFFICES ASSUME IInv, Programmed,
                      Cardinality(flipped) + Cardinality(cflipped) = 2,
                      cflipped \subseteq 0 .. 2 * K - 1
               PROVE  Result = [sta |-> "ecc2", data |-> main]
    BY DEF TwoFlipsReported
  <2> DEFINE D == cell.val
  <2>1. IsFiniteSet(flipped) /\ IsFiniteSet(cflipped)
    BY FiniteSector, FS_Subset DEF IInv
  <2>2. /\ D \in Contents /\ flipped \subseteq Place
        /\ main = Xor(D, flipped) /\ spare = Xor(HardCode(D), cflipped)
    BY DEF IInv, CellType, CodeInv
  <2>3. \A X : Xor(X, {}) = X
    BY DEF Xor
  <2> HIDE DEF D
  <2>4. \/ Cardinality(flipped) = 2 /\ Cardinality(cflipped) = 0
        \/ Cardinality(flipped) = 1 /\ Cardinality(cflipped) = 1
        \/ Cardinality(flipped) = 0 /\ Cardinality(cflipped) = 2
    BY <2>1, OneOrTwo
  <2>5. CASE Cardinality(flipped) = 2 /\ Cardinality(cflipped) = 0
    <3>1. PICK p, q : p # q /\ flipped = {p, q}
      BY <2>1, <2>5, OneOrTwo
    <3>2. cflipped = {}
      BY <2>1, <2>5, OneOrTwo
    <3>3. p \in Place /\ q \in Place
      BY <2>2, <3>1
    <3>4. main = Xor(Xor(D, {p}), {q})
      <4>1. main = Xor(D, {p, q})
        BY <2>2, <3>1
      <4> QED BY <3>1, <4>1 DEF Xor
    <3>5. spare = HardCode(D)
      BY <2>2, <2>3, <3>2
    <3> QED BY <2>2, <3>1, <3>3, <3>4, <3>5, TwoDataFlips DEF Result
  <2>6. CASE Cardinality(flipped) = 1 /\ Cardinality(cflipped) = 1
    <3>1. PICK p : flipped = {p}
      BY <2>1, <2>6, OneOrTwo
    <3>2. PICK c : cflipped = {c}
      BY <2>1, <2>6, OneOrTwo
    <3>3. p \in Place /\ c \in 0 .. 2 * K - 1
      BY <2>2, <3>1, <3>2
    <3> QED BY <2>2, <3>1, <3>2, <3>3, DataAndCodeFlip DEF Result
  <2>7. CASE Cardinality(flipped) = 0 /\ Cardinality(cflipped) = 2
    <3>1. flipped = {}
      BY <2>1, <2>7, OneOrTwo
    <3>2. PICK c, d : c # d /\ cflipped = {c, d}
      BY <2>1, <2>7, OneOrTwo
    <3>3. c \in 0 .. 2 * K - 1 /\ d \in 0 .. 2 * K - 1
      BY <3>2
    <3>4. main = D
      BY <2>2, <2>3, <3>1
    <3>5. spare = Xor(Xor(HardCode(D), {c}), {d})
      <4>1. spare = Xor(HardCode(D), {c, d})
        BY <2>2, <3>2
      <4> QED BY <3>2, <4>1 DEF Xor
    <3>6. ReadSector(D, Xor(Xor(HardCode(D), {c}), {d})) = [sta |-> "ecc2", data |-> D]
      BY <2>2, <3>2, <3>3, CodeFlips
    <3> QED BY <3>4, <3>5, <3>6 DEF Result
  <2> QED BY <2>4, <2>5, <2>6, <2>7
<1> QED BY <1>1, Inductive, PTL

-----------------------------------------------------------------------------
(* One flipped code bit, and what Nand.tla says of a sector.               *)

(* The 32 bits stored hold some that no digit has.                         *)
LEMMA HighCodeFlip ==
  ASSUME NEW C, NEW c \in CodeBit \ (0 .. 2 * K - 1)
  PROVE  /\ NAND_ECC_Get_OE(1, Xor(C, {c})) = NAND_ECC_Get_OE(1, C)
         /\ NAND_ECC_Get_OE(0, Xor(C, {c})) = NAND_ECC_Get_OE(0, C)
<1>1. \A k \in Digits : 2 * k + 1 # c /\ 2 * k + 0 # c
  BY EccAssumption DEF Digits, CodeBit
<1>2. \A e : e # c => (e \in Xor(C, {c}) <=> e \in C)
  BY DEF Xor
<1>3. \A k \in Digits : /\ 2 * k + 1 \in Xor(C, {c}) <=> 2 * k + 1 \in C
                        /\ 2 * k + 0 \in Xor(C, {c}) <=> 2 * k + 0 \in C
  BY <1>1, <1>2
<1> QED BY <1>3 DEF NAND_ECC_Get_OE

LEMMA AnyCodeFlip ==
  ASSUME NEW D \in Contents, NEW c \in CodeBit
  PROVE  ReadSector(D, Xor(HardCode(D), {c})) = [sta |-> "ecc2", data |-> D]
<1>1. CASE c \in 0 .. 2 * K - 1
  BY <1>1, CodeFlips
<1>2. CASE c \notin 0 .. 2 * K - 1
  <2>1. Check(Xor(HardCode(D), {c}), HardCode(D)) = Check(HardCode(D), HardCode(D))
    BY <1>2, HighCodeFlip DEF Check
  <2>2. Check(HardCode(D), HardCode(D)) = {}
    BY DEF Check, Xor
  <2>3. 0 \in Digits
    BY EccAssumption DEF Digits
  <2>4. Xor(HardCode(D), {c}) # HardCode(D)
    BY DEF Xor
  <2>5. Check(Xor(HardCode(D), {c}), HardCode(D)) # Digits
    BY <2>1, <2>2, <2>3
  <2> QED BY <2>4, <2>5 DEF ReadSector, NAND_ECC_Correction
<1> QED BY <1>1, <1>2

(***************************************************************************)
(* CodeFlipHarmless, for every sector size and every width of the stored   *)
(* code, also where the flipped bit is one that does not count.            *)
(***************************************************************************)
THEOREM CodeFlipCorrect == Spec => []CodeFlipHarmless
<1>1. IInv => CodeFlipHarmless
  <2> SUFFICES ASSUME IInv, Programmed, flipped = {}, Cardinality(cflipped) = 1
               PROVE  Result = [sta |-> "ecc2", data |-> cell.val]
    BY DEF CodeFlipHarmless
  <2>1. IsFiniteSet(cflipped)
    BY FiniteSector, FS_Subset DEF IInv
  <2>2. PICK c : cflipped = {c}
    BY <2>1, FS_Singleton
  <2>3. c \in CodeBit /\ cell.val \in Contents
    BY <2>2 DEF IInv, CellType
  <2>4. main = cell.val
    BY DEF IInv, Xor
  <2>5. spare = Xor(HardCode(cell.val), {c})
    BY <2>2 DEF IInv, CodeInv
  <2> QED BY <2>3, <2>4, <2>5, AnyCodeFlip DEF Result
<1> QED BY <1>1, Inductive, PTL

(* Two sets of places of the same size have an even number together.       *)
LEMMA TogetherEven ==
  ASSUME NEW A, NEW B, IsFiniteSet(A), IsFiniteSet(B), A \cap B = {},
         Cardinality(A) = Cardinality(B)
  PROVE  ~OddSize(A \cup B)
<1>1. Cardinality(A \cup B) = Cardinality(A) + Cardinality(B) - Cardinality(A \cap B)
  BY FS_Union
<1>2. Cardinality(A \cap B) = 0 /\ Cardinality(A) \in Nat
  BY FS_EmptySet, FS_CardinalityType
<1>3. PICK n \in Nat : n = Cardinality(A) /\ Cardinality(A \cup B) = n + n
  BY <1>1, <1>2
<1>4. ((n + n) % 2) = 0
  OBVIOUS
<1> QED BY <1>3, <1>4 DEF OddSize

(* Parity of a set in two parts.                                           *)
LEMMA PartsParity ==
  ASSUME NEW A, NEW B, IsFiniteSet(A), IsFiniteSet(B), A \cap B = {}
  PROVE  OddSize(A \cup B) <=> (OddSize(A) <=> ~OddSize(B))
<1>1. Cardinality(A \cup B) = Cardinality(A) + Cardinality(B) - Cardinality(A \cap B)
  BY FS_Union
<1>2. Cardinality(A \cap B) = 0 /\ Cardinality(A) \in Nat /\ Cardinality(B) \in Nat
  BY FS_EmptySet, FS_CardinalityType
<1>3. PICK n \in Nat, m \in Nat :
        n = Cardinality(A) /\ m = Cardinality(B) /\ Cardinality(A \cup B) = n + m
  BY <1>1, <1>2
<1>4. ((n + m) % 2 = 1) <=> ((n % 2 = 1) <=> ~(m % 2 = 1))
  OBVIOUS
<1> QED BY <1>3, <1>4 DEF OddSize

(* Places that are there with and without one digit are even in number.    *)
LEMMA ToggleEven ==
  ASSUME NEW S \in Contents, NEW k \in Digits, \A p \in S : Xor(p, {k}) \in S
  PROVE  ~OddSize(S)
<1> DEFINE A == {p \in S : k \in p}
           B == {p \in S : k \notin p}
           f == [p \in A |-> Xor(p, {k})]
<1>1. IsFiniteSet(A) /\ IsFiniteSet(B)
  <2>1. IsFiniteSet(S) /\ A \subseteq S /\ B \subseteq S
    BY FiniteSector
  <2> QED BY <2>1, FS_Subset
<1>2. A \cup B = S /\ A \cap B = {}
  OBVIOUS
<1>3. f \in Bijection(A, B)
  <2>1. \A p : Xor(Xor(p, {k}), {k}) = p
    BY DEF Xor
  <2>2. \A p : k \in Xor(p, {k}) <=> k \notin p
    BY DEF Xor
  <2>3. f \in [A -> B]
    BY <2>2
  <2>4. \A p, q \in A : f[p] = f[q] => p = q
    <3> SUFFICES ASSUME NEW p \in A, NEW q \in A, f[p] = f[q] PROVE p = q
      OBVIOUS
    <3>1. Xor(p, {k}) = Xor(q, {k})
      OBVIOUS
    <3>2. Xor(Xor(p, {k}), {k}) = Xor(Xor(q, {k}), {k})
      BY <3>1
    <3> QED BY <2>1, <3>2
  <2>5. ASSUME NEW q \in B PROVE \E p \in A : f[p] = q
    <3>1. Xor(q, {k}) \in A
      BY <2>2
    <3>2. f[Xor(q, {k})] = q
      BY <2>1, <3>1
    <3> QED BY <3>1, <3>2
  <2> HIDE DEF A, B, f
  <2> QED BY <2>3, <2>4, <2>5, Fun_IsBij
<1>4. Cardinality(A) = Cardinality(B)
  <2>1. ExistsBijection(A, B)
    BY <1>3 DEF ExistsBijection
  <2> HIDE DEF A, B
  <2> QED BY <1>1, <2>1, FS_Bijection
<1> HIDE DEF A, B
<1> QED BY <1>1, <1>2, <1>4, TogetherEven

(* An erased sector has an even number of ones, and the code zero.         *)
LEMMA ErasedCode ==
  /\ ~OddSize(Place)
  /\ NAND_ECC_Get_OE(1, HardCode(Place)) = {} /\ NAND_ECC_Get_OE(0, HardCode(Place)) = {}
<1>1. 0 \in Digits /\ 1 \in Digits
  BY EccAssumption DEF Digits
<1>2. ~OddSize(Place)
  <2>1. Place \in Contents /\ \A p \in Place : Xor(p, {0}) \in Place
    BY <1>1 DEF Contents, Place, Xor
  <2> QED BY <1>1, <2>1, ToggleEven
<1>3. ASSUME NEW k \in Digits
      PROVE  ~OddSize({p \in Place : k \in p}) /\ ~OddSize({p \in Place : k \notin p})
  <2>1. PICK j \in Digits : j # k
    BY <1>1
  <2> DEFINE A == {p \in Place : k \in p}
             B == {p \in Place : k \notin p}
  <2>2. \A p \in Place : Xor(p, {j}) \in Place /\ (k \in Xor(p, {j}) <=> k \in p)
    BY <2>1 DEF Place, Xor
  <2>3. /\ A \in Contents /\ \A p \in A : Xor(p, {j}) \in A
        /\ B \in Contents /\ \A p \in B : Xor(p, {j}) \in B
    BY <2>2 DEF Contents
  <2> HIDE DEF A, B
  <2>4. ~OddSize(A) /\ ~OddSize(B)
    BY <2>1, <2>3, ToggleEven
  <2> QED BY <2>4 DEF A, B
<1>4. {k \in Digits : OddSize({p \in Place : k \in p})} = {}
      /\ {k \in Digits : OddSize({p \in Place : k \notin p})} = {}
  BY <1>3, Zenon
<1> QED BY <1>2, <1>4, Halves

(* The two halves of a code differ everywhere or nowhere.                  *)
LEMMA HalvesDiffer ==
  ASSUME NEW D \in Contents
  PROVE  Xor(NAND_ECC_Get_OE(1, HardCode(D)), NAND_ECC_Get_OE(0, HardCode(D)))
           = IF OddSize(D) THEN Digits ELSE {}
<1>1. ASSUME NEW k \in Digits
      PROVE  OddSize(D) <=> (OddSize({p \in D : k \in p}) <=> ~OddSize({p \in D : k \notin p}))
  <2> DEFINE A == {p \in D : k \in p}
             B == {p \in D : k \notin p}
  <2>1. IsFiniteSet(A) /\ IsFiniteSet(B)
    <3>1. IsFiniteSet(D) /\ A \subseteq D /\ B \subseteq D
      BY FiniteSector
    <3> QED BY <3>1, FS_Subset
  <2>2. A \cup B = D /\ A \cap B = {}
    OBVIOUS
  <2> HIDE DEF A, B
  <2>3. OddSize(D) <=> (OddSize(A) <=> ~OddSize(B))
    BY <2>1, <2>2, PartsParity
  <2> QED BY <2>3 DEF A, B
<1> DEFINE X == {k \in Digits : OddSize({p \in D : k \in p})}
           Y == {k \in Digits : OddSize({p \in D : k \notin p})}
<1>2. ASSUME NEW k \in Digits PROVE OddSize(D) <=> (k \in X <=> k \notin Y)
  BY <1>1
<1>3. X \subseteq Digits /\ Y \subseteq Digits
  OBVIOUS
<1> HIDE DEF X, Y
<1>4. Xor(X, Y) = IF OddSize(D) THEN Digits ELSE {}
  BY <1>2, <1>3 DEF Xor
<1> QED BY <1>4, Halves DEF X, Y

(* A code is zero if both halves are.                                      *)
LEMMA ZeroCode ==
  ASSUME NEW D, NAND_ECC_Get_OE(1, HardCode(D)) = {}, NAND_ECC_Get_OE(0, HardCode(D)) = {}
  PROVE  HardCode(D) = {}
<1> SUFFICES ASSUME NEW c \in HardCode(D) PROVE FALSE
  OBVIOUS
<1>1. c \in 0 .. 2 * K - 1
  BY DEF HardCode
<1>2. PICK k \in Digits : c = 2 * k + 1 \/ c = 2 * k + 0
  <2>1. c \div 2 \in Digits /\ (c = 2 * (c \div 2) + 1 \/ c = 2 * (c \div 2) + 0)
    BY <1>1, EccAssumption DEF Digits
  <2> QED BY <2>1
<1>3. k \in NAND_ECC_Get_OE(1, HardCode(D)) \/ k \in NAND_ECC_Get_OE(0, HardCode(D))
  BY <1>2 DEF NAND_ECC_Get_OE
<1> QED BY <1>3

-----------------------------------------------------------------------------
(* The sector in Nand.tla.                                                 *)

(* A code that says 0xFF is the zero code; flip says whether a bit changed.*)
ZeroInv == cell.ecc = Place => spare = cflipped
FlagInv == cell.flip = (flipped # {})

LEMMA ZeroWrite == IInv /\ ZeroInv /\ NAND_WritePage => ZeroInv'
<1> SUFFICES ASSUME IInv, ZeroInv, NAND_WritePage, cell'.ecc = Place PROVE spare' = {}
  BY DEF ZeroInv, NAND_WritePage
<1>1. main = Place /\ flipped = {} /\ cflipped = {}
  BY DEF NAND_WritePage
<1>2. PICK D \in Contents : /\ spare' = spare \cap HardCode(D)
                            /\ cell' = N!Program(cell, N!DataCell(D))
  BY DEF NAND_WritePage
<1>3. cell.ecc \in {BlankEcc, Place}
  <2>1. cell.val = Place
    BY <1>1 DEF IInv, Xor
  <2> QED BY <2>1 DEF IInv, CodeInv
<1>4. cell'.ecc = N!AndEcc(cell.ecc, D)
  BY <1>2 DEF N!Program, N!DataCell
<1>5. CASE cell.ecc = Place
  BY <1>1, <1>2, <1>5 DEF ZeroInv
<1>6. CASE cell.ecc = BlankEcc
  <2>1. D = Place
    BY <1>4, <1>6 DEF N!AndEcc
  <2>2. HardCode(Place) = {}
    BY ErasedCode, ZeroCode
  <2> QED BY <1>2, <2>1, <2>2
<1> QED BY <1>3, <1>5, <1>6

LEMMA FlagWrite == IInv /\ FlagInv /\ NAND_WritePage => FlagInv'
<1> SUFFICES ASSUME IInv, FlagInv, NAND_WritePage PROVE FlagInv'
  OBVIOUS
<1>1. flipped = {} /\ flipped' = {}
  BY DEF NAND_WritePage
<1>2. PICK D \in Contents : cell' = N!Program(cell, N!DataCell(D))
  BY DEF NAND_WritePage
<1>3. cell'.flip = (cell.flip \/ FALSE)
  <2>1. PICK v, e, b : b = (cell.flip \/ FALSE) /\ cell' = [val |-> v, ecc |-> e, flip |-> b]
    BY <1>2, Zenon DEF N!Program, N!DataCell
  <2>2. cell'.flip = b
    BY <2>1
  <2> QED BY <2>1, <2>2, Zenon
<1>4. cell.flip = FALSE
  <2>1. cell.flip = ({} # {})
    BY <1>1, Zenon DEF FlagInv
  <2> QED BY <2>1
<1>5. cell'.flip = FALSE
  BY <1>3, <1>4, Zenon
<1> QED BY <1>1, <1>5, Zenon DEF FlagInv

LEMMA MoreInductive == Spec => [](IInv /\ ZeroInv /\ FlagInv)
<1>1. Init => ZeroInv /\ FlagInv
  <2> SUFFICES ASSUME Init PROVE ZeroInv /\ FlagInv
    OBVIOUS
  <2>1. cell.ecc = BlankEcc /\ cell.flip = FALSE /\ flipped = {}
    BY DEF Init, N!BlankCell
  <2>2. ZeroInv
    BY <2>1, NotContents, PlaceIsContents DEF ZeroInv
  <2> QED BY <2>1, <2>2, Zenon DEF FlagInv
<1>2. IInv /\ ZeroInv /\ FlagInv /\ [Next]_vars => ZeroInv' /\ FlagInv'
  <2> SUFFICES ASSUME IInv, ZeroInv, FlagInv, [Next]_vars PROVE ZeroInv' /\ FlagInv'
    OBVIOUS
  <2>1. CASE NAND_WritePage
    BY <2>1, ZeroWrite, FlagWrite
  <2>2. CASE NAND_EraseBlock
    <3>1. cell'.ecc = BlankEcc /\ cell'.flip = FALSE /\ flipped' = {}
      BY <2>2 DEF NAND_EraseBlock, N!BlankCell
    <3>2. ZeroInv'
      BY <3>1, NotContents, PlaceIsContents DEF ZeroInv
    <3> QED BY <3>1, <3>2, Zenon DEF FlagInv
  <2>3. CASE FlipMain
    <3>1. flipped' # {} /\ cell' = [cell EXCEPT !.flip = TRUE]
          /\ spare' = spare /\ cflipped' = cflipped
      BY <2>3 DEF FlipMain
    <3>2. cell'.ecc = cell.ecc /\ cell'.flip = TRUE
      BY <3>1 DEF IInv, CellType
    <3>3. ZeroInv'
      BY <3>1, <3>2 DEF ZeroInv
    <3> QED BY <3>1, <3>2, <3>3, Zenon DEF FlagInv
  <2>4. CASE FlipSpare
    <3>1. PICK c \in CodeBit \ cflipped :
            spare' = Xor(spare, {c}) /\ cflipped' = cflipped \cup {c}
      BY <2>4 DEF FlipSpare
    <3>2. cell' = cell /\ flipped' = flipped
      BY <2>4 DEF FlipSpare
    <3>3. ZeroInv'
      BY <3>1, <3>2 DEF ZeroInv, Xor
    <3> QED BY <3>2, <3>3, Zenon DEF FlagInv
  <2>5. CASE UNCHANGED vars
    BY <2>5, Zenon DEF vars, ZeroInv, FlagInv
  <2> QED BY <2>1, <2>2, <2>3, <2>4, <2>5 DEF Next
<1> QED BY <1>1, <1>2, Inductive, PTL DEF Spec

(* A sector read against the code of an erased one, all ones.              *)
LEMMA ReadErased ==
  /\ ReadSector(Place, CodeBit) = [sta |-> "ecc2", data |-> Place]
  /\ \A p \in Place : /\ ReadSector(Xor(Place, {p}), CodeBit).sta = "ecc1"
                      /\ ReadSector(Xor(Place, {p}), CodeBit).data # Place
<1> DEFINE O(C) == NAND_ECC_Get_OE(1, C)
           E(C) == NAND_ECC_Get_OE(0, C)
<1>1. O(CodeBit) = Digits /\ E(CodeBit) = Digits
  <2>1. \A k \in Digits : 2 * k + 1 \in CodeBit /\ 2 * k + 0 \in CodeBit
    BY EccAssumption DEF Digits, CodeBit
  <2> QED BY <2>1 DEF NAND_ECC_Get_OE
<1>2. O(HardCode(Place)) = {} /\ E(HardCode(Place)) = {}
  BY ErasedCode
<1>3. \A D : CodeBit # HardCode(D)
  <2>1. 2 * K \in CodeBit /\ 2 * K \notin 0 .. 2 * K - 1
    BY EccAssumption DEF CodeBit
  <2>2. \A D : HardCode(D) \subseteq 0 .. 2 * K - 1
    BY DEF HardCode
  <2> QED BY <2>1, <2>2
<1>4. 0 \in Digits
  BY EccAssumption DEF Digits
<1>5. ReadSector(Place, CodeBit) = [sta |-> "ecc2", data |-> Place]
  <2>1. Check(CodeBit, HardCode(Place)) # Digits
    <3> HIDE DEF O, E
    <3>1. Xor(Xor(O(CodeBit), E(CodeBit)), Xor(O(HardCode(Place)), E(HardCode(Place)))) = {}
      BY <1>1, <1>2 DEF Xor
    <3> QED BY <1>4, <3>1 DEF Check, O, E
  <2> QED BY <1>3, <2>1 DEF ReadSector, NAND_ECC_Correction
<1>6. ASSUME NEW p \in Place
      PROVE  /\ ReadSector(Xor(Place, {p}), CodeBit).sta = "ecc1"
             /\ ReadSector(Xor(Place, {p}), CodeBit).data # Place
  <2> DEFINE F == Xor(Place, {p})
  <2>1. p \subseteq Digits
    BY DEF Place
  <2>2. O(HardCode(F)) = p /\ E(HardCode(F)) = Digits \ p
    <3>1. O(HardCode(F)) = Xor(O(HardCode(Place)), p)
          /\ E(HardCode(F)) = Xor(E(HardCode(Place)), Digits \ p)
      BY PlaceIsContents, FlipShowsPlace
    <3> HIDE DEF O, E, F
    <3> QED BY <1>2, <3>1 DEF Xor
  <2>3. Check(CodeBit, HardCode(F)) = Digits /\ ErrorPos(CodeBit, HardCode(F)) = Digits \ p
    <3> HIDE DEF O, E, F
    <3>1. Xor(Xor(O(CodeBit), E(CodeBit)), Xor(O(HardCode(F)), E(HardCode(F)))) = Digits
          /\ Xor(O(CodeBit), O(HardCode(F))) = Digits \ p
      BY <1>1, <2>1, <2>2 DEF Xor
    <3> QED BY <3>1 DEF Check, ErrorPos, O, E
  <2>4. ReadSector(F, CodeBit) = [sta |-> "ecc1", data |-> Xor(F, {Digits \ p})]
    BY <1>3, <2>3 DEF ReadSector, NAND_ECC_Correction
  <2>5. Digits \ p # p
    BY <1>4
  <2>6. p \notin Xor(F, {Digits \ p})
    BY <2>5 DEF Xor
  <2>7. ReadSector(F, CodeBit).sta = "ecc1" /\ ReadSector(F, CodeBit).data = Xor(F, {Digits \ p})
    <3>1. PICK r, x : r = ReadSector(F, CodeBit) /\ x = Xor(F, {Digits \ p})
      OBVIOUS
    <3>2. r = [sta |-> "ecc1", data |-> x]
      BY <2>4, <3>1, Zenon
    <3>3. r.sta = "ecc1" /\ r.data = x
      BY <3>2
    <3> QED BY <3>1, <3>3, Zenon
  <2> HIDE DEF F
  <2>8. ReadSector(F, CodeBit).data # Place
    BY <2>6, <2>7
  <2> QED BY <2>7, <2>8 DEF F
<1> QED BY <1>5, <1>6

(* A sector read against the code zero, which 0xFF has.                    *)
LEMMA ReadZero ==
  ASSUME NEW D \in Contents, HardCode(D) # {}
  PROVE  /\ ~OddSize(D) => ReadSector(D, {}) = [sta |-> "ecc2", data |-> D]
         /\ OddSize(D) => ReadSector(D, {})
                            = [sta |-> "ecc1", data |-> Xor(D, {NAND_ECC_Get_OE(1, HardCode(D))})]
<1> DEFINE O(C) == NAND_ECC_Get_OE(1, C)
           E(C) == NAND_ECC_Get_OE(0, C)
<1>1. O({}) = {} /\ E({}) = {}
  BY DEF NAND_ECC_Get_OE
<1>2. Xor(O(HardCode(D)), E(HardCode(D))) = IF OddSize(D) THEN Digits ELSE {}
  BY HalvesDiffer
<1>3. 0 \in Digits
  BY EccAssumption DEF Digits
<1>4. ErrorPos({}, HardCode(D)) = O(HardCode(D))
  <2>1. ErrorPos({}, HardCode(D)) = Xor(O({}), O(HardCode(D)))
    BY DEF ErrorPos
  <2> HIDE DEF O, E
  <2> QED BY <1>1, <2>1 DEF Xor
<1>5. Check({}, HardCode(D)) = IF OddSize(D) THEN Digits ELSE {}
  <2>1. Check({}, HardCode(D)) = Xor(Xor(O({}), E({})), Xor(O(HardCode(D)), E(HardCode(D))))
    BY DEF Check
  <2>2. \A X : Xor(Xor({}, {}), X) = X
    BY DEF Xor
  <2> HIDE DEF O, E
  <2> QED BY <1>1, <1>2, <2>1, <2>2
<1> HIDE DEF O, E
<1>6. CASE OddSize(D)
  <2>1. Check({}, HardCode(D)) = Digits
    BY <1>5, <1>6
  <2> QED BY <1>4, <1>6, <2>1 DEF ReadSector, NAND_ECC_Correction, O
<1>7. CASE ~OddSize(D)
  <2>1. Check({}, HardCode(D)) # Digits
    BY <1>3, <1>5, <1>7
  <2> QED BY <1>7, <2>1 DEF ReadSector, NAND_ECC_Correction
<1> QED BY <1>6, <1>7

(* The same with one flipped bit: what comes out is not what was written.  *)
LEMMA ReadZeroFlipped ==
  ASSUME NEW D \in Contents, NEW p \in Place, HardCode(Xor(D, {p})) # {}, HardCode(D) # {}
  PROVE  /\ OddSize(D) => ReadSector(Xor(D, {p}), {}) = [sta |-> "ecc2", data |-> Xor(D, {p})]
         /\ ~OddSize(D) => /\ ReadSector(Xor(D, {p}), {}).sta = "ecc1"
                           /\ ReadSector(Xor(D, {p}), {}).data # D
<1> DEFINE F == Xor(D, {p})
           X == NAND_ECC_Get_OE(1, HardCode(D))
           Y == NAND_ECC_Get_OE(0, HardCode(D))
           Q == NAND_ECC_Get_OE(1, HardCode(F))
<1>1. F \in Contents /\ p \subseteq Digits
  BY DEF Contents, Place, Xor
<1>2. OddSize(F) <=> ~OddSize(D)
  BY FiniteSector, ParityFlips
<1>3. CASE OddSize(D)
  BY <1>1, <1>2, <1>3, ReadZero
<1>4. CASE ~OddSize(D)
  <2>1. ReadSector(F, {}) = [sta |-> "ecc1", data |-> Xor(F, {Q})]
    BY <1>1, <1>2, <1>4, ReadZero
  <2>2. Q = Xor(X, p)
    BY FlipShowsPlace
  <2>3. X # {}
    <3>1. SUFFICES ASSUME X = {} PROVE FALSE
      OBVIOUS
    <3>2. Xor(X, Y) = {}
      BY <1>4, HalvesDiffer
    <3>3. Y = {}
      <4> HIDE DEF X, Y
      <4> QED BY <3>1, <3>2 DEF Xor
    <3> QED BY <3>1, <3>3, ZeroCode
  <2>4. Q # p
    <3> HIDE DEF X, Q
    <3> QED BY <2>2, <2>3 DEF Xor
  <2>5. Xor(F, {Q}) # D
    <3> HIDE DEF Q
    <3> QED BY <2>4 DEF Xor
  <2> QED BY <1>4, <2>1, <2>5
<1> QED BY <1>3, <1>4

(* What Decode says, case by case.                                         *)
LEMMA DecodeIs ==
  ASSUME CellType
  PROVE  /\ cell.ecc = cell.val /\ cell.flip =>
              N!Decode(cell) = [sta |-> "ecc1", data |-> cell.val]
         /\ cell.ecc = cell.val /\ ~cell.flip =>
              N!Decode(cell) = [sta |-> "ok", data |-> cell.val]
         /\ cell.ecc # cell.val /\ cell.ecc \in {Place, BlankEcc} =>
              /\ ~(OddSize(cell.val) <=> cell.flip) =>
                    N!Decode(cell) = [sta |-> "ecc1", data |-> Junk]
              /\ OddSize(cell.val) /\ cell.flip =>
                    N!Decode(cell) = [sta |-> "ecc2", data |-> Junk]
              /\ ~OddSize(cell.val) /\ ~cell.flip =>
                    N!Decode(cell) = [sta |-> "ecc2", data |-> cell.val]
<1> DEFINE o == cell.val \in {D \in Contents : OddSize(D)}
<1>1. o <=> OddSize(cell.val)
  BY DEF CellType
<1>2. o \in BOOLEAN /\ cell.flip \in BOOLEAN
  BY DEF CellType
<1>3. N!Decode(cell) =
        IF cell.ecc = cell.val
          THEN [sta |-> IF cell.flip THEN "ecc1" ELSE "ok", data |-> cell.val]
        ELSE IF cell.ecc \in {Place, BlankEcc} /\ (o # cell.flip)
          THEN [sta |-> "ecc1", data |-> Junk]
        ELSE [sta |-> "ecc2", data |-> IF cell.flip THEN Junk ELSE cell.val]
  BY Zenon DEF N!Decode
<1>4. PICK f, e, v : f \in BOOLEAN /\ f = cell.flip /\ e = cell.ecc /\ v = cell.val
  BY <1>2
<1> HIDE DEF o
<1>5. (o # f) <=> ~(o <=> f)
  BY <1>2, <1>4
<1> QED BY <1>1, <1>3, <1>4, <1>5, Zenon

(***************************************************************************)
(* DecodeAgrees, for every sector size: what the FTL's model takes a read  *)
(* of a sector to give is what NAND_ReadPage computes from its bits, also  *)
(* where the code is that of 0xFF or that of an erased sector.             *)
(***************************************************************************)
THEOREM DecodeFaithful == Spec => []DecodeAgrees
<1>1. IInv /\ ZeroInv /\ FlagInv => DecodeAgrees
  <2> DEFINE D == cell.val
             d == N!Decode(cell)
  <2> SUFFICES ASSUME IInv, ZeroInv, FlagInv, Cardinality(flipped) <= 1, cflipped = {},
                      {} \notin {HardCode(main), HardCode(D)} \/ Programmed \/ D = Place
               PROVE  /\ Result.sta = d.sta
                      /\ IF d.data = Junk THEN Result.data # D ELSE Result.data = d.data
    BY Zenon DEF DecodeAgrees
  <2>1. /\ CellType /\ D \in Contents /\ D # Junk /\ main = Xor(D, flipped)
        /\ cell.ecc \in {BlankEcc, Place, D}
        /\ (cell.ecc = BlankEcc => D = Place)
    BY NotContents DEF IInv, CellType, CodeInv
  <2>2. (cell.flip => flipped # {}) /\ (~cell.flip => flipped = {})
    BY Zenon DEF FlagInv
  <2>3. flipped = {} \/ \E p \in Place : flipped = {p}
    <3>1. IsFiniteSet(flipped) /\ flipped \subseteq Place
      BY FiniteSector, FS_Subset DEF IInv
    <3>2. Cardinality(flipped) = 0 \/ Cardinality(flipped) = 1
      BY <3>1, OneOrTwo
    <3> QED BY <3>1, <3>2, OneOrTwo
  <2>4. \A X : Xor(X, {}) = X
    BY DEF Xor
  <2>5. \A p : Xor(D, {p}) # D
    BY DEF Xor
  <2>6. cell.flip \in BOOLEAN
    BY <2>1 DEF CellType
  <2>7. SUFFICES \E r : Result = r /\ r.sta = d.sta
                        /\ (d.data = Junk => r.data # D) /\ (d.data # Junk => r.data = d.data)
    BY Zenon
  <2>8. CASE cell.ecc = D
    <3>1. spare = HardCode(D)
      BY <2>4, <2>8 DEF IInv, CodeInv, Programmed
    <3>2. CASE flipped = {}
      <4>1. Result = [sta |-> "ok", data |-> D]
        BY <2>1, <2>4, <3>1, <3>2 DEF Result, ReadSector
      <4>2. d = [sta |-> "ok", data |-> D]
        BY <2>1, <2>2, <2>6, <2>8, <3>2, DecodeIs
      <4> HIDE DEF d, D
      <4> QED BY <2>1, <4>1, <4>2
    <3>3. CASE flipped # {}
      <4>1. Result = [sta |-> "ecc1", data |-> D]
        BY <2>1, <2>3, <3>1, <3>3, OneFlip DEF Result
      <4>2. d = [sta |-> "ecc1", data |-> D]
        BY <2>1, <2>2, <2>6, <2>8, <3>3, DecodeIs
      <4> HIDE DEF d, D
      <4> QED BY <2>1, <4>1, <4>2
    <3> QED BY <3>2, <3>3
  <2>9. CASE cell.ecc # D /\ cell.ecc = BlankEcc
    <3>1. D = Place /\ spare = CodeBit /\ ~OddSize(D)
      BY <2>1, <2>4, <2>9, ErasedCode DEF IInv, CodeInv
    <3>2. CASE flipped = {}
      <4>1. Result = [sta |-> "ecc2", data |-> D]
        BY <2>1, <2>4, <3>1, <3>2, ReadErased DEF Result
      <4>2. d = [sta |-> "ecc2", data |-> D]
        BY <2>1, <2>2, <2>6, <2>9, <3>1, <3>2, DecodeIs
      <4> HIDE DEF d, D
      <4> QED BY <2>1, <4>1, <4>2
    <3>3. CASE flipped # {}
      <4>1. Result.sta = "ecc1" /\ Result.data # D
        BY <2>1, <2>3, <3>1, <3>3, ReadErased DEF Result
      <4>2. d = [sta |-> "ecc1", data |-> Junk]
        BY <2>1, <2>2, <2>6, <2>9, <3>1, <3>3, DecodeIs
      <4> HIDE DEF d, D
      <4> QED BY <4>1, <4>2
    <3> QED BY <3>2, <3>3
  <2>10. CASE cell.ecc # D /\ cell.ecc = Place
    <3>1. spare = {} /\ HardCode(main) # {} /\ HardCode(D) # {}
      BY <2>10 DEF ZeroInv, Programmed
    <3>2. CASE flipped = {}
      <4>1. main = D
        BY <2>1, <2>4, <3>2
      <4>2. CASE OddSize(D)
        <5>1. PICK x : x = Xor(D, {NAND_ECC_Get_OE(1, HardCode(D))})
          OBVIOUS
        <5>2. Result = [sta |-> "ecc1", data |-> x] /\ x # D
          BY <2>1, <2>5, <3>1, <4>1, <4>2, <5>1, ReadZero DEF Result
        <5>3. d = [sta |-> "ecc1", data |-> Junk]
          BY <2>1, <2>2, <2>6, <2>10, <3>2, <4>2, DecodeIs
        <5> HIDE DEF d, D
        <5> QED BY <5>2, <5>3
      <4>3. CASE ~OddSize(D)
        <5>1. Result = [sta |-> "ecc2", data |-> D]
          BY <2>1, <3>1, <4>1, <4>3, ReadZero DEF Result
        <5>2. d = [sta |-> "ecc2", data |-> D]
          BY <2>1, <2>2, <2>6, <2>10, <3>2, <4>3, DecodeIs
        <5> HIDE DEF d, D
        <5> QED BY <2>1, <5>1, <5>2
      <4> QED BY <4>2, <4>3
    <3>3. CASE flipped # {}
      <4>1. PICK p \in Place : flipped = {p}
        BY <2>3, <3>3
      <4>2. main = Xor(D, {p})
        BY <2>1, <4>1
      <4>3. CASE OddSize(D)
        <5>1. Result = [sta |-> "ecc2", data |-> Xor(D, {p})]
          BY <2>1, <3>1, <4>2, <4>3, ReadZeroFlipped DEF Result
        <5>2. d = [sta |-> "ecc2", data |-> Junk]
          BY <2>1, <2>2, <2>6, <2>10, <3>3, <4>3, DecodeIs
        <5> HIDE DEF d, D
        <5> QED BY <2>5, <5>1, <5>2
      <4>4. CASE ~OddSize(D)
        <5>1. Result.sta = "ecc1" /\ Result.data # D
          BY <2>1, <3>1, <4>2, <4>4, ReadZeroFlipped DEF Result
        <5>2. d = [sta |-> "ecc1", data |-> Junk]
          BY <2>1, <2>2, <2>6, <2>10, <3>3, <4>4, DecodeIs
        <5> HIDE DEF d, D
        <5> QED BY <5>1, <5>2
      <4> QED BY <4>3, <4>4
    <3> QED BY <3>2, <3>3
  <2> HIDE DEF d, D
  <2> QED BY <2>1, <2>8, <2>9, <2>10, Zenon
<1> QED BY <1>1, MoreInductive, PTL

=============================================================================

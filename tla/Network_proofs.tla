--------------------------- MODULE Network_proofs ---------------------------
(***************************************************************************)
(* Proofs about the network side, for every set of callers, every          *)
(* assignment of priorities, and every size of the mailbox, the packet     *)
(* pool and the receive ring.                                              *)
(***************************************************************************)
EXTENDS Network, TLAPS, WellFoundedInduction, FiniteSetTheorems

-----------------------------------------------------------------------------
(***************************************************************************)
(* What sys_timeout does to the list of time-outs, for every list: the     *)
(* times in it are relative, so each insertion and removal must leave the  *)
(* sums, the times at which the others are due, as they were.              *)
(*                                                                         *)
(* Induction over the list is by the least number that fails.              *)
(***************************************************************************)
Lists(H) == Seq([h : H, time : Nat])

LEMMA LeastNumber ==
  ASSUME NEW T, T \subseteq Nat, T # {}
  PROVE  \E x \in T : \A y \in T : ~(y < x)
<1>1. IsWellFoundedOn(OpToRel(<, Nat), Nat)
  BY NatLessThanWellFounded
<1>2. PICK x \in T : \A y \in T : ~(<<y, x>> \in OpToRel(<, Nat))
  BY <1>1, WFMin
<1> QED
  BY <1>2 DEF OpToRel

LEMMA ListType ==
  ASSUME NEW H, NEW l \in Lists(H)
  PROVE  /\ Len(l) \in Nat /\ DOMAIN l = 1 .. Len(l)
         /\ \A k \in 1 .. Len(l) : l[k] \in [h : H, time : Nat]
         /\ \A k \in 1 .. Len(l) : l[k].h \in H /\ l[k].time \in Nat
<1>1. Len(l) \in Nat /\ DOMAIN l = 1 .. Len(l)
  BY DEF Lists
<1>2. \A k \in 1 .. Len(l) : l[k] \in [h : H, time : Nat]
  <2> DEFINE S == [h : H, time : Nat]
  <2>1. l \in Seq(S)
    BY DEF Lists
  <2> HIDE DEF S
  <2>2. \A k \in 1 .. Len(l) : l[k] \in S
    BY <2>1
  <2> QED
    BY <2>2 DEF S
<1> QED
  BY <1>1, <1>2

-----------------------------------------------------------------------------
(* The sums.                                                               *)

(* g holds the sums of the first n times of l.                             *)
Sums(g, l, n) == g = [k \in 0 .. n |-> IF k = 0 THEN 0 ELSE g[k - 1] + l[k].time]

LEMMA SumsExist ==
  ASSUME NEW l, NEW n \in Nat
  PROVE  \E g : Sums(g, l, n)
<1> DEFINE T == {m \in Nat : ~ \E g : Sums(g, l, m)}
<1>1. ASSUME T # {}
      PROVE  FALSE
  <2>1. PICK m \in T : \A y \in T : ~(y < m)
    BY <1>1, LeastNumber
  <2>2. m \in Nat /\ ~ \E g : Sums(g, l, m)
    OBVIOUS
  <2>3. CASE m = 0
    <3> DEFINE g == [k \in 0 .. 0 |-> 0]
    <3>1. g = [k \in 0 .. 0 |-> IF k = 0 THEN 0 ELSE g[k - 1] + l[k].time]
      OBVIOUS
    <3>2. Sums(g, l, m)
      BY <2>3, <3>1, Zenon DEF Sums
    <3> QED
      BY <2>2, <3>2
  <2>4. CASE m # 0
    <3>1. m - 1 \in Nat /\ m - 1 < m
      BY <2>2, <2>4
    <3>2. PICK f : Sums(f, l, m - 1)
      BY <2>1, <3>1
    <3>3. f = [k \in 0 .. m - 1 |-> IF k = 0 THEN 0 ELSE f[k - 1] + l[k].time]
      BY <3>2 DEF Sums
    <3> DEFINE g == [k \in 0 .. m |-> IF k = 0 THEN 0 ELSE f[k - 1] + l[k].time]
    <3>4. \A k \in 0 .. m - 1 : g[k] = f[k]
      BY <2>2, <3>3
    <3>5. \A k \in 1 .. m : g[k - 1] = f[k - 1]
      <4>1. \A k \in 1 .. m : k - 1 \in 0 .. m - 1
        BY <2>2
      <4> HIDE DEF g
      <4> QED
        BY <3>4, <4>1
    <3>6. g = [k \in 0 .. m |-> IF k = 0 THEN 0 ELSE g[k - 1] + l[k].time]
      <4>1. \A k \in 0 .. m : k # 0 => k \in 1 .. m
        BY <2>2
      <4>2. \A k \in 0 .. m : (IF k = 0 THEN 0 ELSE f[k - 1] + l[k].time)
                              = (IF k = 0 THEN 0 ELSE g[k - 1] + l[k].time)
        <5> HIDE DEF g
        <5> QED
          BY <3>5, <4>1
      <4> QED
        BY <4>2
    <3>7. Sums(g, l, m)
      BY <3>6, Zenon DEF Sums
    <3> QED
      BY <2>2, <3>7
  <2> QED
    BY <2>3, <2>4
<1> QED
  BY <1>1

(* Due as a recurrence.                                                    *)
LEMMA DueSteps ==
  ASSUME NEW H, NEW l \in Lists(H)
  PROVE  /\ Due(l, 0) = 0
         /\ \A k \in 1 .. Len(l) : Due(l, k) = Due(l, k - 1) + l[k].time
<1>1. Len(l) \in Nat
  BY DEF Lists
<1> DEFINE d == CHOOSE g : Sums(g, l, Len(l))
<1>2. Sums(d, l, Len(l))
  BY <1>1, SumsExist
<1>3. \A i : Due(l, i) = d[i]
  BY DEF Due, Sums
<1> HIDE DEF d
<1>4. d = [k \in 0 .. Len(l) |-> IF k = 0 THEN 0 ELSE d[k - 1] + l[k].time]
  BY <1>2 DEF Sums
<1>5. d[0] = 0 /\ \A k \in 1 .. Len(l) : d[k] = d[k - 1] + l[k].time
  <2>1. \A k \in 0 .. Len(l) : d[k] = IF k = 0 THEN 0 ELSE d[k - 1] + l[k].time
    BY <1>4, Zenon
  <2> QED
    BY <1>1, <2>1
<1> QED
  BY <1>3, <1>5

(* There is one way to sum up.                                             *)
LEMMA DueUnique ==
  ASSUME NEW H, NEW l \in Lists(H), NEW n \in 0 .. Len(l), NEW g,
         g[0] = 0, \A k \in 1 .. n : g[k] = g[k - 1] + l[k].time
  PROVE  \A k \in 0 .. n : Due(l, k) = g[k]
<1> DEFINE T == {k \in 0 .. n : Due(l, k) # g[k]}
<1>1. Len(l) \in Nat /\ n \in Nat
  BY DEF Lists
<1>2. ASSUME T # {}
      PROVE  FALSE
  <2>0. T \subseteq Nat
    BY <1>1
  <2>1. PICK m \in T : \A y \in T : ~(y < m)
    BY <1>2, <2>0, LeastNumber
  <2>2. m \in 0 .. n /\ Due(l, m) # g[m]
    OBVIOUS
  <2>3. m # 0
    BY <2>2, DueSteps
  <2>4. m \in 1 .. n /\ m \in 1 .. Len(l) /\ m - 1 \in 0 .. n /\ m - 1 < m
    BY <1>1, <2>2, <2>3
  <2>5. Due(l, m - 1) = g[m - 1]
    BY <2>1, <2>4
  <2> QED
    BY <2>2, <2>4, <2>5, DueSteps
<1> QED
  BY <1>2

LEMMA DueNat ==
  ASSUME NEW H, NEW l \in Lists(H)
  PROVE  \A k \in 0 .. Len(l) : Due(l, k) \in Nat
<1> DEFINE T == {k \in 0 .. Len(l) : Due(l, k) \notin Nat}
<1>1. Len(l) \in Nat /\ \A k \in 1 .. Len(l) : l[k].time \in Nat
  BY ListType
<1>2. ASSUME T # {}
      PROVE  FALSE
  <2>0. T \subseteq Nat
    BY <1>1
  <2>1. PICK m \in T : \A y \in T : ~(y < m)
    BY <1>2, <2>0, LeastNumber
  <2>2. m \in 0 .. Len(l) /\ Due(l, m) \notin Nat
    OBVIOUS
  <2>3. m # 0
    BY <2>2, DueSteps
  <2>4. m \in 1 .. Len(l) /\ m - 1 \in 0 .. Len(l) /\ m - 1 < m
    BY <1>1, <2>2, <2>3
  <2>5. Due(l, m - 1) \in Nat
    BY <2>1, <2>4
  <2> QED
    BY <1>1, <2>2, <2>4, <2>5, DueSteps
<1> QED
  BY <1>2

(* Later entries are due no earlier.                                       *)
LEMMA DueMonotone ==
  ASSUME NEW H, NEW l \in Lists(H), NEW i \in 0 .. Len(l)
  PROVE  \A j \in i .. Len(l) : Due(l, i) <= Due(l, j)
<1> DEFINE T == {j \in i .. Len(l) : ~(Due(l, i) <= Due(l, j))}
<1>1. Len(l) \in Nat /\ \A k \in 1 .. Len(l) : l[k].time \in Nat
  BY ListType
<1>2. \A k \in 0 .. Len(l) : Due(l, k) \in Nat
  BY DueNat
<1>3. ASSUME T # {}
      PROVE  FALSE
  <2>0. T \subseteq Nat
    BY <1>1
  <2>1. PICK m \in T : \A y \in T : ~(y < m)
    BY <1>3, <2>0, LeastNumber
  <2>2. m \in i .. Len(l) /\ ~(Due(l, i) <= Due(l, m))
    OBVIOUS
  <2>3. m # i
    BY <1>2, <2>2
  <2>4. m \in 1 .. Len(l) /\ m - 1 \in i .. Len(l) /\ m - 1 < m
        /\ m \in 0 .. Len(l) /\ m - 1 \in 0 .. Len(l)
    BY <1>1, <2>2, <2>3
  <2>5. Due(l, i) <= Due(l, m - 1)
    BY <2>1, <2>4
  <2>6. Due(l, m) = Due(l, m - 1) + l[m].time /\ l[m].time \in Nat
    BY <1>1, <2>4, DueSteps
  <2>7. Due(l, i) \in Nat /\ Due(l, m - 1) \in Nat
    BY <1>2, <2>4
  <2> HIDE DEF T
  <2> QED
    BY <2>2, <2>5, <2>6, <2>7
<1> QED
  BY <1>3

-----------------------------------------------------------------------------
(* sys_timeout.                                                            *)

(* The number of entries that are due at m or before.                      *)
Before(l, m) == Cardinality({i \in DOMAIN l : Due(l, i) <= m})

(* They are the first ones, for the list is in the order of the sums.      *)
LEMMA BeforeIs ==
  ASSUME NEW H, NEW l \in Lists(H), NEW m \in Nat
  PROVE  /\ Before(l, m) \in 0 .. Len(l)
         /\ \A i \in 0 .. Before(l, m) : Due(l, i) <= m
         /\ \A i \in Before(l, m) + 1 .. Len(l) : Due(l, i) > m
<1>1. Len(l) \in Nat /\ DOMAIN l = 1 .. Len(l)
  BY ListType
<1>2. \A k \in 0 .. Len(l) : Due(l, k) \in Nat
  BY DueNat
<1>3. \E k \in 0 .. Len(l) : /\ \A i \in 0 .. k : Due(l, i) <= m
                             /\ \A i \in k + 1 .. Len(l) : Due(l, i) > m
  <2> DEFINE T == {i \in 0 .. Len(l) : Due(l, i) > m}
  <2>1. CASE T = {}
    <3>1. \A i \in 0 .. Len(l) : Due(l, i) <= m
      BY <1>2, <2>1
    <3>2. Len(l) \in 0 .. Len(l) /\ \A i \in Len(l) + 1 .. Len(l) : FALSE
      BY <1>1
    <3> QED
      BY <3>1, <3>2
  <2>2. CASE T # {}
    <3>1. T \subseteq Nat
      BY <1>1
    <3>2. PICK x \in T : \A y \in T : ~(y < x)
      BY <2>2, <3>1, LeastNumber
    <3>3. x \in 0 .. Len(l) /\ Due(l, x) > m
      OBVIOUS
    <3>4. x # 0
      BY <3>3, DueSteps
    <3>5. x - 1 \in 0 .. Len(l) /\ (x - 1) + 1 = x
      BY <1>1, <3>3, <3>4
    <3>6. \A i \in 0 .. x - 1 : Due(l, i) <= m
      <4> TAKE i \in 0 .. x - 1
      <4>1. i \in 0 .. Len(l) /\ i < x
        BY <1>1, <3>3
      <4>2. i \notin T
        BY <3>2, <4>1
      <4> QED
        BY <1>2, <4>1, <4>2
    <3>7. \A i \in x .. Len(l) : Due(l, i) > m
      <4> TAKE i \in x .. Len(l)
      <4>1. Due(l, x) <= Due(l, i)
        BY <3>3, DueMonotone
      <4>2. i \in 0 .. Len(l)
        BY <1>1, <3>3
      <4>3. Due(l, i) \in Nat /\ Due(l, x) \in Nat
        BY <1>2, <3>3, <4>2
      <4> HIDE DEF T
      <4> QED
        BY <3>3, <4>1, <4>3
    <3> HIDE DEF T
    <3> QED
      BY <3>5, <3>6, <3>7
  <2> QED
    BY <2>1, <2>2
<1>4. PICK k \in 0 .. Len(l) : /\ \A i \in 0 .. k : Due(l, i) <= m
                               /\ \A i \in k + 1 .. Len(l) : Due(l, i) > m
  BY <1>3
<1>5. {i \in DOMAIN l : Due(l, i) <= m} = 1 .. k
  <2>1. \A i \in 1 .. Len(l) : i \in 0 .. k \/ i \in k + 1 .. Len(l)
    BY <1>1
  <2>2. \A i \in 1 .. Len(l) : Due(l, i) <= m <=> i <= k
    <3> TAKE i \in 1 .. Len(l)
    <3>1. Due(l, i) \in Nat
      BY <1>1, <1>2
    <3>2. CASE i \in 0 .. k
      BY <1>4, <3>2
    <3>3. CASE i \in k + 1 .. Len(l)
      BY <1>4, <3>1, <3>3
    <3> QED
      BY <2>1, <3>2, <3>3
  <2>3. \A i \in 1 .. k : i \in 1 .. Len(l)
    BY <1>1
  <2> QED
    BY <1>1, <2>2, <2>3
<1>6. Cardinality(1 .. k) = k
  <2>1. 1 \in Int /\ k \in Int /\ (1 > k => k = 0)
    BY <1>1
  <2> QED
    BY <2>1, FS_Interval
<1> QED
  BY <1>4, <1>5, <1>6 DEF Before

LEMMA LenConcat ==
  ASSUME NEW S, NEW s \in Seq(S), NEW t \in Seq(S)
  PROVE  Len(s \o t) = Len(s) + Len(t)
OBVIOUS

(* The list afterwards: the new entry behind those, and the one behind it  *)
(* shortened by what the new one waits after the one before.               *)
Inserted(H, l, h, m, k, r) ==
    /\ r \in Lists(H) /\ Len(r) = Len(l) + 1
    /\ \A i \in 1 .. k : r[i] = l[i]
    /\ r[k + 1].h = h /\ r[k + 1].time = m - Due(l, k)
    /\ \A j \in k + 1 .. Len(l) :
         /\ r[j + 1].h = l[j].h
         /\ r[j + 1].time = IF j = k + 1 THEN l[j].time - (m - Due(l, k))
                                         ELSE l[j].time

LEMMA TimeoutIs ==
  ASSUME NEW H, NEW l \in Lists(H), NEW h \in H, NEW m \in Nat,
         NEW k, k = Before(l, m), NEW r, r = sys_timeout(l, h, m)
  PROVE  Inserted(H, l, h, m, k, r)
<1> DEFINE S    == [h : H, time : Nat]
           rest == m - Due(l, k)
           tail == SubSeq(l, k + 1, Len(l))
           cut  == [i \in DOMAIN tail |->
                      IF i = 1 THEN [tail[i] EXCEPT !.time = @ - rest] ELSE tail[i]]
           new  == [h |-> h, time |-> rest]
<1>1. /\ k \in 0 .. Len(l)
      /\ \A i \in 0 .. k : Due(l, i) <= m
      /\ \A i \in k + 1 .. Len(l) : Due(l, i) > m
  BY BeforeIs
<1>2. Len(l) \in Nat /\ l \in Seq(S)
      /\ \A i \in 1 .. Len(l) : l[i].h \in H /\ l[i].time \in Nat /\ l[i] \in S
  BY ListType DEF Lists
<1>3. \A i \in 0 .. Len(l) : Due(l, i) \in Nat
  BY DueNat
<1>4. rest \in Nat
  <2>1. Due(l, k) \in Nat /\ Due(l, k) <= m
    BY <1>1, <1>3
  <2> QED
    BY <2>1
<1>5. r = SubSeq(l, 1, k) \o <<new>> \o cut
  BY DEF sys_timeout, Before
<1>6. new \in S /\ new.h = h /\ new.time = rest
  BY <1>4
<1>7. /\ tail \in Seq(S) /\ Len(tail) = Len(l) - k /\ DOMAIN tail = 1 .. Len(l) - k
      /\ \A i \in 1 .. Len(l) - k : tail[i] = l[k + i]
  <2> HIDE DEF S
  <2>1. k + 1 \in 1 .. Len(l) + 1
    BY <1>1, <1>2
  <2>2. tail \in Seq(S) /\ Len(tail) = Len(l) - k
    BY <1>1, <1>2, <2>1
  <2>3. \A i \in 1 .. Len(l) - k : tail[i] = l[k + i]
    BY <1>1, <1>2, <2>1
  <2> HIDE DEF tail
  <2>4. DOMAIN tail = 1 .. Len(l) - k
    BY <2>2
  <2> QED
    BY <2>2, <2>3, <2>4
<1> HIDE DEF tail
<1>8. \A i \in 1 .. Len(l) - k :
        /\ cut[i] \in S /\ cut[i].h = l[k + i].h
        /\ cut[i].time = IF i = 1 THEN l[k + i].time - rest ELSE l[k + i].time
  <2> TAKE i \in 1 .. Len(l) - k
  <2>1. k + i \in 1 .. Len(l) /\ tail[i] = l[k + i] /\ l[k + i] \in S
    BY <1>1, <1>2, <1>7
  <2>2. CASE i = 1
    <3>1. k + 1 \in 1 .. Len(l) /\ k + 1 \in k + 1 .. Len(l) /\ (k + 1) - 1 = k
      BY <1>1, <1>2, <2>1, <2>2
    <3>2. Due(l, k + 1) = Due(l, k) + l[k + 1].time /\ Due(l, k + 1) > m
      BY <1>1, <3>1, DueSteps
    <3>3. l[k + 1].time - rest \in Nat
      <4>1. Due(l, k) \in Nat /\ l[k + 1].time \in Nat
        BY <1>1, <1>2, <1>3, <3>1
      <4> QED
        BY <3>2, <4>1
    <3>4. cut[i] = [l[k + 1] EXCEPT !.time = l[k + 1].time - rest]
      BY <1>7, <2>1, <2>2
    <3> HIDE DEF cut, rest
    <3>5. l[k + 1] = [h |-> l[k + 1].h, time |-> l[k + 1].time]
      BY <2>1, <2>2
    <3>6. cut[i] = [h |-> l[k + 1].h, time |-> l[k + 1].time - rest]
      BY <3>4, <3>5
    <3> QED
      BY <1>2, <2>2, <3>1, <3>3, <3>6
  <2>3. CASE i # 1
    <3>1. cut[i] = l[k + i]
      BY <1>7, <2>1, <2>3
    <3> QED
      BY <2>1, <2>3, <3>1
  <2> QED
    BY <2>2, <2>3
<1>9. cut \in Seq(S) /\ Len(cut) = Len(l) - k
  <2>1. Len(l) - k \in Nat
    BY <1>1, <1>2
  <2>2. cut \in [1 .. Len(l) - k -> S]
    <3>1. cut = [i \in 1 .. Len(l) - k |-> cut[i]]
      BY <1>7
    <3> HIDE DEF cut, S
    <3> QED
      BY <1>8, <3>1
  <2> HIDE DEF cut, S
  <2> QED
    BY <2>1, <2>2
<1> HIDE DEF cut
<1>10. SubSeq(l, 1, k) \in Seq(S) /\ Len(SubSeq(l, 1, k)) = k
       /\ \A i \in 1 .. k : SubSeq(l, 1, k)[i] = l[i]
  <2> HIDE DEF S
  <2> QED
    BY <1>1, <1>2
<1> DEFINE front == SubSeq(l, 1, k)
<1> HIDE DEF front, new, S
<1>11. r = front \o <<new>> \o cut
  BY <1>5 DEF front
<1>12. front \in Seq(S) /\ Len(front) = k /\ (\A i \in 1 .. k : front[i] = l[i])
       /\ <<new>> \in Seq(S) /\ Len(<<new>>) = 1 /\ <<new>>[1] = new
  BY <1>6, <1>10 DEF front
<1>13. /\ r \in Seq(S) /\ Len(r) = Len(l) + 1
       /\ \A i \in 1 .. k : r[i] = l[i]
       /\ r[k + 1] = new
       /\ \A i \in 1 .. Len(l) - k : r[k + 1 + i] = cut[i]
  <2> DEFINE f1 == front \o <<new>>
  <2>1. f1 \in Seq(S) /\ Len(f1) = k + 1 /\ (\A i \in 1 .. k : f1[i] = l[i])
        /\ f1[k + 1] = new
    BY <1>1, <1>2, <1>12
  <2> HIDE DEF f1
  <2>2. r = f1 \o cut
    BY <1>11 DEF f1
  <2>3. r \in Seq(S) /\ Len(r) = Len(l) + 1
    <3>1. r \in Seq(S)
      BY <1>9, <2>1, <2>2
    <3>2. Len(r) = Len(f1) + Len(cut)
      BY <1>9, <2>1, <2>2, LenConcat, Zenon
    <3>3. k \in Int /\ Len(l) \in Int
      BY <1>1, <1>2
    <3> QED
      BY <1>9, <2>1, <3>1, <3>2, <3>3
  <2>4. \A i \in 1 .. k + 1 : r[i] = f1[i]
    BY <1>1, <1>2, <1>9, <2>1, <2>2
  <2>5. \A i \in 1 .. Len(l) - k : r[k + 1 + i] = cut[i]
    BY <1>1, <1>2, <1>9, <2>1, <2>2
  <2>6. (\A i \in 1 .. k : i \in 1 .. k + 1) /\ k + 1 \in 1 .. k + 1
    BY <1>1, <1>2
  <2> QED
    BY <2>1, <2>3, <2>4, <2>5, <2>6
<1>14. \A j \in k + 1 .. Len(l) :
         /\ r[j + 1].h = l[j].h
         /\ r[j + 1].time = IF j = k + 1 THEN l[j].time - rest ELSE l[j].time
  <2> TAKE j \in k + 1 .. Len(l)
  <2>1. j - k \in 1 .. Len(l) - k /\ k + 1 + (j - k) = j + 1 /\ k + (j - k) = j
        /\ (j - k = 1 <=> j = k + 1)
    <3>1. k \in Int /\ 0 <= k /\ Len(l) \in Int /\ j \in Int /\ k + 1 <= j /\ j <= Len(l)
      BY <1>1, <1>2
    <3> QED
      BY <3>1
  <2>2. r[j + 1] = cut[j - k]
    BY <1>13, <2>1
  <2> QED
    BY <1>8, <2>1, <2>2
<1> QED
  BY <1>6, <1>13, <1>14 DEF S, Lists, Inserted

(* An insertion: the new entry is due after m, and every other one when it *)
(* was due before.                                                         *)
Kept(l, m, k, r) ==
    /\ \A i \in 0 .. k : Due(r, i) = Due(l, i)
    /\ Due(r, k + 1) = m
    /\ \A j \in k + 1 .. Len(l) : Due(r, j + 1) = Due(l, j)

LEMMA TimeoutDue ==
  ASSUME NEW H, NEW l \in Lists(H), NEW h \in H, NEW m \in Nat,
         NEW k, k = Before(l, m), NEW r, r = sys_timeout(l, h, m)
  PROVE  Kept(l, m, k, r)
<1>1. k \in 0 .. Len(l) /\ Len(l) \in Nat
  BY BeforeIs, ListType
<1>2. /\ r \in Lists(H) /\ Len(r) = Len(l) + 1
      /\ \A i \in 1 .. k : r[i] = l[i]
      /\ r[k + 1].h = h /\ r[k + 1].time = m - Due(l, k)
      /\ \A j \in k + 1 .. Len(l) :
           /\ r[j + 1].h = l[j].h
           /\ r[j + 1].time = IF j = k + 1 THEN l[j].time - (m - Due(l, k))
                                           ELSE l[j].time
  <2>1. Inserted(H, l, h, m, k, r)
    BY TimeoutIs, Zenon
  <2> QED
    BY <2>1, Zenon DEF Inserted
<1> DEFINE n == Len(l) + 1
           g == [i \in 0 .. n |-> IF i <= k THEN Due(l, i)
                                  ELSE IF i = k + 1 THEN m ELSE Due(l, i - 1)]
<1>3. \A i \in 0 .. Len(l) : Due(l, i) \in Nat
  BY DueNat
<1>4. Due(l, 0) = 0 /\ \A i \in 1 .. Len(l) : Due(l, i) = Due(l, i - 1) + l[i].time
  BY DueSteps
<1>5. \A i \in 1 .. Len(l) : l[i].time \in Nat
  BY ListType
<1>6. g[0] = 0
  BY <1>1, <1>4
<1>7. \A i \in 1 .. n : g[i] = g[i - 1] + r[i].time
  <2> TAKE i \in 1 .. n
  <2>1. i \in 0 .. n /\ i - 1 \in 0 .. n /\ i \in Int /\ k \in Int
    BY <1>1
  <2>2. CASE i <= k
    <3>1. i \in 1 .. k /\ i \in 1 .. Len(l) /\ i - 1 <= k
      BY <1>1, <2>1, <2>2
    <3>2. g[i] = Due(l, i) /\ g[i - 1] = Due(l, i - 1)
      BY <2>1, <2>2, <3>1
    <3> HIDE DEF g
    <3> QED
      BY <1>2, <1>4, <3>1, <3>2
  <2>3. CASE i = k + 1
    <3>1. g[i] = m /\ g[i - 1] = Due(l, k)
      BY <2>1, <2>3
    <3>2. Due(l, k) \in Nat
      BY <1>1, <1>3
    <3>3. r[i].time = m - Due(l, k)
      BY <1>2, <2>3
    <3> HIDE DEF g
    <3> QED
      BY <3>1, <3>2, <3>3
  <2>4. CASE i = k + 2
    <3>1. k + 1 \in k + 1 .. Len(l) /\ k + 1 \in 1 .. Len(l) /\ (k + 1) + 1 = i
          /\ (k + 1) - 1 = k
      BY <1>1, <2>1, <2>4
    <3>2. g[i] = Due(l, k + 1) /\ g[i - 1] = m
      BY <2>1, <2>4
    <3>3. r[i].time = l[k + 1].time - (m - Due(l, k))
      BY <1>2, <3>1
    <3>4. Due(l, k + 1) = Due(l, k) + l[k + 1].time
      BY <1>4, <3>1
    <3>5. Due(l, k) \in Nat /\ l[k + 1].time \in Nat
      BY <1>1, <1>3, <1>5, <3>1
    <3> HIDE DEF g
    <3> QED
      BY <3>2, <3>3, <3>4, <3>5
  <2>5. CASE i > k + 2
    <3>1. i - 1 \in k + 1 .. Len(l) /\ i - 1 \in 1 .. Len(l) /\ (i - 1) + 1 = i
          /\ i - 1 # k + 1 /\ ~(i - 1 <= k) /\ ~(i <= k) /\ i # k + 1
      BY <1>1, <2>1, <2>5
    <3>2. g[i] = Due(l, i - 1) /\ g[i - 1] = Due(l, (i - 1) - 1)
      BY <2>1, <3>1
    <3>3. r[i].time = l[i - 1].time
      BY <1>2, <3>1
    <3> HIDE DEF g
    <3> QED
      BY <1>4, <3>1, <3>2, <3>3
  <2> QED
    BY <2>1, <2>2, <2>3, <2>4, <2>5
<1>8. \A i \in 0 .. n : Due(r, i) = g[i]
  <2>1. n \in 0 .. Len(r)
    BY <1>1, <1>2
  <2> HIDE DEF g, n
  <2> QED
    BY <1>2, <1>6, <1>7, <2>1, DueUnique
<1>9. \A i \in 0 .. k : Due(r, i) = Due(l, i)
  <2> TAKE i \in 0 .. k
  <2>1. i \in 0 .. n /\ i <= k
    BY <1>1
  <2> QED
    BY <1>8, <2>1
<1>10. Due(r, k + 1) = m
  <2>1. k + 1 \in 0 .. n /\ ~(k + 1 <= k)
    BY <1>1
  <2> QED
    BY <1>8, <2>1
<1>11. \A j \in k + 1 .. Len(l) : Due(r, j + 1) = Due(l, j)
  <2> TAKE j \in k + 1 .. Len(l)
  <2>1. j + 1 \in 0 .. n /\ ~(j + 1 <= k) /\ j + 1 # k + 1 /\ (j + 1) - 1 = j
    BY <1>1
  <2> QED
    BY <1>8, <2>1
<1> QED
  BY <1>9, <1>10, <1>11 DEF Kept

(* The first entry is removed: the others are due that much earlier.       *)
LEMMA TailDue ==
  ASSUME NEW H, NEW l \in Lists(H), Len(l) > 0
  PROVE  /\ Tail(l) \in Lists(H) /\ Len(Tail(l)) = Len(l) - 1
         /\ \A i \in 1 .. Len(l) - 1 : Tail(l)[i] = l[i + 1]
         /\ \A i \in 0 .. Len(l) - 1 : Due(Tail(l), i) = Due(l, i + 1) - l[1].time
<1> DEFINE S == [h : H, time : Nat]
           t == Tail(l)
<1>1. Len(l) \in Nat /\ l \in Seq(S) /\ \A i \in 1 .. Len(l) : l[i].time \in Nat
  BY ListType DEF Lists
<1> HIDE DEF S
<1>2. t \in Seq(S) /\ Len(t) = Len(l) - 1 /\ \A i \in 1 .. Len(l) - 1 : t[i] = l[i + 1]
  BY <1>1
<1>3. t \in Lists(H)
  BY <1>2 DEF S, Lists
<1> HIDE DEF t
<1> DEFINE n == Len(l) - 1
           g == [i \in 0 .. n |-> Due(l, i + 1) - l[1].time]
<1>4. \A i \in 0 .. Len(l) : Due(l, i) \in Nat
  BY DueNat
<1>5. Due(l, 0) = 0 /\ \A i \in 1 .. Len(l) : Due(l, i) = Due(l, i - 1) + l[i].time
  BY DueSteps
<1>6. g[0] = 0
  <2>1. Due(l, 1) = Due(l, 1 - 1) + l[1].time /\ 1 - 1 = 0 /\ l[1].time \in Nat
    BY <1>1, <1>5
  <2>2. g[0] = Due(l, 0 + 1) - l[1].time /\ 0 + 1 = 1
    BY <1>1
  <2> HIDE DEF g
  <2> QED
    BY <1>5, <2>1, <2>2
<1>7. \A i \in 1 .. n : g[i] = g[i - 1] + t[i].time
  <2> TAKE i \in 1 .. n
  <2>1. i \in 0 .. n /\ i - 1 \in 0 .. n /\ i + 1 \in 1 .. Len(l) /\ (i + 1) - 1 = i
        /\ (i - 1) + 1 = i /\ 1 \in 1 .. Len(l) /\ i \in 0 .. Len(l)
    BY <1>1
  <2>2. g[i] = Due(l, i + 1) - l[1].time /\ g[i - 1] = Due(l, i) - l[1].time
    BY <2>1
  <2>3. Due(l, i + 1) = Due(l, i) + l[i + 1].time
    BY <1>5, <2>1
  <2>4. Due(l, i) \in Nat /\ l[1].time \in Nat /\ l[i + 1].time \in Nat
    BY <1>1, <1>4, <2>1
  <2>5. t[i].time = l[i + 1].time
    BY <1>2
  <2> HIDE DEF g
  <2> QED
    BY <2>2, <2>3, <2>4, <2>5
<1>8. \A i \in 0 .. n : Due(t, i) = g[i]
  <2>1. n \in 0 .. Len(t)
    BY <1>1, <1>2
  <2> HIDE DEF g, n
  <2> QED
    BY <1>3, <1>6, <1>7, <2>1, DueUnique
<1>9. \A i \in 0 .. Len(l) - 1 : Due(t, i) = Due(l, i + 1) - l[1].time
  BY <1>8
<1> HIDE DEF g
<1> QED
  BY <1>2, <1>3, <1>9 DEF t

(* Time passes: the first entry is due earlier, and with it all the others *)
(* by the same.                                                            *)
Elapsed(H, l, r) ==
    /\ r \in Lists(H) /\ Len(r) = Len(l)
    /\ \A i \in 1 .. Len(l) : r[i].h = l[i].h
    /\ r[1].time <= l[1].time
    /\ r[1].time = l[1].time => r = l
    /\ \A i \in 1 .. Len(l) : Due(r, i) = Due(l, i) - (l[1].time - r[1].time)

LEMMA ElapseDue ==
  ASSUME NEW H, NEW l \in Lists(H), Len(l) > 0, NEW d \in Nat, NEW r, r = Elapse(l, d)
  PROVE  Elapsed(H, l, r)
<1> DEFINE S == [h : H, time : Nat]
           t == IF d < l[1].time THEN l[1].time - d ELSE 0
           e == [h |-> l[1].h, time |-> t]
<1>1. Len(l) \in Nat /\ l \in Seq(S) /\ DOMAIN l = 1 .. Len(l)
      /\ \A i \in 1 .. Len(l) : l[i] \in S /\ l[i].time \in Nat /\ l[i].h \in H
  BY ListType DEF Lists
<1>2. 1 \in 1 .. Len(l)
  BY <1>1
<1>3. t \in Nat /\ t <= l[1].time
  BY <1>1, <1>2
<1> HIDE DEF t
<1>4. e \in S /\ e.h = l[1].h /\ e.time = t
  BY <1>1, <1>2, <1>3
<1>5. r = [l EXCEPT ![1] = e]
  <2>1. [l[1] EXCEPT !.time = t] = e
    BY <1>1, <1>2
  <2>2. r = [l EXCEPT ![1] = [l[1] EXCEPT !.time = t]]
    BY Zenon DEF Elapse, t
  <2> QED
    BY <2>1, <2>2
<1>6. e = l[1] <=> t = l[1].time
  BY <1>1, <1>2
<1> HIDE DEF e, S
<1>7. r \in Seq(S) /\ Len(r) = Len(l) /\ r[1] = e
      /\ \A i \in 2 .. Len(l) : r[i] = l[i]
  BY <1>1, <1>2, <1>4, <1>5
<1>8. r \in Lists(H)
  BY <1>7 DEF S, Lists
<1>9. r[1].time = t /\ r[1].h = l[1].h
  BY <1>4, <1>7
<1>10. \A i \in 1 .. Len(l) : r[i].h = l[i].h
  <2>1. \A i \in 1 .. Len(l) : i = 1 \/ i \in 2 .. Len(l)
    BY <1>1
  <2> QED
    BY <1>7, <1>9, <2>1
<1>11. t = l[1].time => r = l
  BY <1>1, <1>2, <1>5, <1>6
<1> DEFINE n == Len(l)
           g == [i \in 0 .. n |-> IF i = 0 THEN 0 ELSE Due(l, i) - (l[1].time - t)]
<1>12. \A i \in 0 .. Len(l) : Due(l, i) \in Nat
  BY DueNat
<1>13. Due(l, 0) = 0 /\ \A i \in 1 .. Len(l) : Due(l, i) = Due(l, i - 1) + l[i].time
  BY DueSteps
<1>14. \A i \in 1 .. n : g[i] = g[i - 1] + r[i].time
  <2> TAKE i \in 1 .. n
  <2>1. i \in 0 .. n /\ i - 1 \in 0 .. n /\ i # 0 /\ l[1].time \in Nat
    BY <1>1, <1>2
  <2>2. CASE i = 1
    <3>1. g[1] = Due(l, 1) - (l[1].time - t) /\ g[1 - 1] = 0
      BY <2>1, <2>2
    <3>2. Due(l, 1) = 0 + l[1].time
      BY <1>2, <1>13
    <3> HIDE DEF g
    <3> QED
      BY <1>3, <1>9, <2>1, <2>2, <3>1, <3>2
  <2>3. CASE i # 1
    <3>1. g[i] = Due(l, i) - (l[1].time - t) /\ g[i - 1] = Due(l, i - 1) - (l[1].time - t)
      BY <1>1, <2>1, <2>3
    <3>2. i \in 2 .. Len(l) /\ i \in 1 .. Len(l)
      BY <1>1, <2>3
    <3>3. Due(l, i) = Due(l, i - 1) + l[i].time /\ r[i] = l[i]
      BY <1>7, <1>13, <3>2
    <3>4. Due(l, i - 1) \in Nat /\ l[i].time \in Nat
      BY <1>1, <1>12, <2>1, <3>2
    <3> HIDE DEF g
    <3> QED
      BY <1>3, <2>1, <3>1, <3>3, <3>4
  <2> QED
    BY <2>2, <2>3
<1>15. g[0] = 0 /\ n \in 0 .. Len(r)
  BY <1>1, <1>7
<1>16. \A i \in 0 .. n : Due(r, i) = g[i]
  <2> HIDE DEF g, n
  <2> QED
    BY <1>8, <1>14, <1>15, DueUnique
<1>17. \A i \in 1 .. Len(l) : Due(r, i) = Due(l, i) - (l[1].time - t)
  <2> TAKE i \in 1 .. Len(l)
  <2>1. i \in 0 .. n /\ i # 0
    BY <1>1
  <2> QED
    BY <1>16, <2>1
<1> HIDE DEF g
<1> QED
  BY <1>3, <1>7, <1>8, <1>9, <1>10, <1>11, <1>17 DEF Elapsed

-----------------------------------------------------------------------------
(* The same in terms of the handlers: which are in the list, and when each *)
(* is due.                                                                 *)

Distinct(l) == \A i, j \in 1 .. Len(l) : l[i].h = l[j].h => i = j
Has(l, h)   == \E i \in 1 .. Len(l) : l[i].h = h
DueAt(l, h, d) == \E i \in 1 .. Len(l) : l[i].h = h /\ Due(l, i) = d

LEMMA ArmedIs ==
  ASSUME NEW H, NEW l \in Lists(H), Distinct(l), NEW h
  PROVE  /\ Has(l, h) => Armed(l, h) = 1
         /\ ~Has(l, h) => Armed(l, h) = 0
<1> DEFINE T == {i \in DOMAIN l : l[i].h = h}
<1>1. DOMAIN l = 1 .. Len(l)
  BY ListType
<1>2. Armed(l, h) = Cardinality(T)
  BY DEF Armed
<1>3. CASE Has(l, h)
  <2>1. PICK i \in 1 .. Len(l) : l[i].h = h
    BY <1>3 DEF Has
  <2>2. T = {i}
    BY <1>1, <2>1 DEF Distinct
  <2>3. Cardinality({i}) = 1
    BY FS_Singleton
  <2> QED
    BY <1>2, <1>3, <2>2, <2>3
<1>4. CASE ~Has(l, h)
  <2>1. T = {}
    BY <1>1, <1>4 DEF Has
  <2> QED
    BY <1>2, <1>4, <2>1, FS_EmptySet
<1> QED
  BY <1>3, <1>4

LEMMA ArmedHas ==
  ASSUME NEW H, NEW l \in Lists(H), Distinct(l), NEW h, Armed(l, h) = 1
  PROVE  \E d : DueAt(l, h, d)
<1>1. Has(l, h)
  BY ArmedIs
<1> QED
  BY <1>1 DEF Has, DueAt

LEMMA DueAtUnique ==
  ASSUME NEW H, NEW l \in Lists(H), Distinct(l), NEW h, NEW d, DueAt(l, h, d)
  PROVE  Due(l, CHOOSE i \in DOMAIN l : l[i].h = h) = d
<1>1. DOMAIN l = 1 .. Len(l)
  BY ListType
<1>2. PICK i \in 1 .. Len(l) : l[i].h = h /\ Due(l, i) = d
  BY DEF DueAt
<1> DEFINE c == CHOOSE k \in DOMAIN l : l[k].h = h
<1>3. c \in DOMAIN l /\ l[c].h = h
  BY <1>1, <1>2, Zenon
<1> HIDE DEF c
<1>4. c = i
  BY <1>1, <1>2, <1>3 DEF Distinct
<1> QED
  BY <1>2, <1>4 DEF c

(* A time-out that is not in the list is added.                            *)
LEMMA Arming ==
  ASSUME NEW H, NEW l \in Lists(H), NEW h \in H, NEW m \in Nat,
         Distinct(l), ~Has(l, h), NEW r, r = sys_timeout(l, h, m)
  PROVE  /\ r \in Lists(H) /\ Len(r) = Len(l) + 1
         /\ Distinct(r)
         /\ \A g : Has(r, g) <=> Has(l, g) \/ g = h
         /\ \A g, d : DueAt(l, g, d) => DueAt(r, g, d)
<1> DEFINE k == Before(l, m)
           at(i) == IF i <= k THEN i ELSE i + 1
<1>1. k \in 0 .. Len(l) /\ Len(l) \in Nat
  BY BeforeIs, ListType
<1>2. /\ r \in Lists(H) /\ Len(r) = Len(l) + 1
      /\ \A i \in 1 .. k : r[i] = l[i]
      /\ r[k + 1].h = h
      /\ \A j \in k + 1 .. Len(l) : r[j + 1].h = l[j].h
  <2>1. Inserted(H, l, h, m, k, r)
    BY TimeoutIs, Zenon
  <2> QED
    BY <2>1, Zenon DEF Inserted
<1>3. /\ \A i \in 0 .. k : Due(r, i) = Due(l, i)
      /\ \A j \in k + 1 .. Len(l) : Due(r, j + 1) = Due(l, j)
  <2>1. Kept(l, m, k, r)
    BY TimeoutDue, Zenon
  <2> QED
    BY <2>1, Zenon DEF Kept
<1> HIDE DEF k
<1>4. \A i \in 1 .. Len(l) : /\ at(i) \in 1 .. Len(r) /\ at(i) # k + 1
                             /\ r[at(i)].h = l[i].h
                             /\ Due(r, at(i)) = Due(l, i)
  <2> TAKE i \in 1 .. Len(l)
  <2>1. CASE i <= k
    <3>1. i \in 1 .. k /\ i \in 0 .. k /\ i \in 1 .. Len(r) /\ i # k + 1 /\ at(i) = i
      BY <1>1, <1>2, <2>1
    <3> HIDE DEF at
    <3> QED
      BY <1>2, <1>3, <3>1
  <2>2. CASE ~(i <= k)
    <3>1. i \in k + 1 .. Len(l) /\ i + 1 \in 1 .. Len(r) /\ i + 1 # k + 1 /\ at(i) = i + 1
      BY <1>1, <1>2, <2>2
    <3> HIDE DEF at
    <3> QED
      BY <1>2, <1>3, <3>1
  <2> QED
    BY <2>1, <2>2
<1>5. \A i \in 1 .. Len(r) : \/ i = k + 1
                             \/ \E j \in 1 .. Len(l) : at(j) = i
  <2> TAKE i \in 1 .. Len(r)
  <2>1. CASE i <= k
    <3>1. i \in 1 .. Len(l) /\ at(i) = i
      BY <1>1, <2>1
    <3> QED
      BY <3>1
  <2>2. CASE i > k + 1
    <3>1. i - 1 \in 1 .. Len(l) /\ at(i - 1) = i
      BY <1>1, <1>2, <2>2
    <3> QED
      BY <3>1
  <2> QED
    BY <1>1, <2>1, <2>2
<1>6. k + 1 \in 1 .. Len(r)
  BY <1>1, <1>2
<1> HIDE DEF at
<1>7. \A g : Has(r, g) <=> Has(l, g) \/ g = h
  <2> SUFFICES ASSUME NEW g
               PROVE  Has(r, g) <=> Has(l, g) \/ g = h
    OBVIOUS
  <2>1. Has(l, g) => Has(r, g)
    BY <1>4 DEF Has
  <2>2. Has(r, h)
    BY <1>2, <1>6 DEF Has
  <2>3. ASSUME NEW i \in 1 .. Len(r), r[i].h = g, i # k + 1
        PROVE  Has(l, g)
    <3>1. PICK j \in 1 .. Len(l) : at(j) = i
      BY <1>5, <2>3
    <3>2. l[j].h = g
      BY <1>4, <2>3, <3>1
    <3> QED
      BY <3>2 DEF Has
  <2> QED
    BY <1>2, <2>1, <2>2, <2>3 DEF Has
<1>8. Distinct(r)
  <2> SUFFICES ASSUME NEW i \in 1 .. Len(r), NEW j \in 1 .. Len(r), r[i].h = r[j].h
               PROVE  i = j
    BY DEF Distinct
  <2>1. \A x \in 1 .. Len(l) : r[at(x)].h # h
    BY <1>4 DEF Has
  <2>2. CASE i = k + 1
    BY <1>2, <1>5, <2>1, <2>2
  <2>3. CASE j = k + 1
    BY <1>2, <1>5, <2>1, <2>3
  <2>4. CASE i # k + 1 /\ j # k + 1
    <3>1. PICK x \in 1 .. Len(l) : at(x) = i
      BY <1>5, <2>4
    <3>2. PICK y \in 1 .. Len(l) : at(y) = j
      BY <1>5, <2>4
    <3>3. l[x].h = l[y].h
      BY <1>4, <3>1, <3>2
    <3> QED
      BY <3>1, <3>2, <3>3 DEF Distinct
  <2> QED
    BY <2>2, <2>3, <2>4
<1>9. \A g, d : DueAt(l, g, d) => DueAt(r, g, d)
  BY <1>4 DEF DueAt
<1> QED
  BY <1>2, <1>7, <1>8, <1>9

(* The first time-out is removed, as its handler is called.                *)
LEMMA Removing ==
  ASSUME NEW H, NEW l \in Lists(H), Distinct(l), Len(l) > 0
  PROVE  /\ Tail(l) \in Lists(H) /\ Len(Tail(l)) = Len(l) - 1
         /\ Distinct(Tail(l))
         /\ \A g : Has(Tail(l), g) <=> Has(l, g) /\ g # l[1].h
         /\ \A g, d : DueAt(l, g, d) /\ g # l[1].h => DueAt(Tail(l), g, d - l[1].time)
<1> DEFINE t == Tail(l)
<1>1. Len(l) \in Nat /\ 1 \in 1 .. Len(l)
  BY ListType
<1>2. /\ t \in Lists(H) /\ Len(t) = Len(l) - 1
      /\ \A i \in 1 .. Len(l) - 1 : t[i] = l[i + 1]
      /\ \A i \in 0 .. Len(l) - 1 : Due(t, i) = Due(l, i + 1) - l[1].time
  BY TailDue
<1> HIDE DEF t
<1>3. \A i \in 1 .. Len(t) : i + 1 \in 1 .. Len(l) /\ i + 1 # 1 /\ t[i] = l[i + 1]
  BY <1>1, <1>2
<1>4. \A i \in 1 .. Len(l) : i # 1 =>
        i - 1 \in 1 .. Len(t) /\ t[i - 1] = l[i] /\ Due(t, i - 1) = Due(l, i) - l[1].time
  <2> TAKE i \in 1 .. Len(l)
  <2> HAVE i # 1
  <2>1. i - 1 \in 1 .. Len(t) /\ i - 1 \in 1 .. Len(l) - 1 /\ i - 1 \in 0 .. Len(l) - 1
        /\ (i - 1) + 1 = i
    BY <1>1, <1>2
  <2> QED
    BY <1>2, <2>1
<1>5. Distinct(t)
  <2> SUFFICES ASSUME NEW i \in 1 .. Len(t), NEW j \in 1 .. Len(t), t[i].h = t[j].h
               PROVE  i = j
    BY DEF Distinct
  <2>1. i + 1 = j + 1
    BY <1>3 DEF Distinct
  <2> QED
    BY <2>1
<1>6. \A g : Has(t, g) <=> Has(l, g) /\ g # l[1].h
  <2> SUFFICES ASSUME NEW g
               PROVE  Has(t, g) <=> Has(l, g) /\ g # l[1].h
    OBVIOUS
  <2>1. Has(t, g) => Has(l, g) /\ g # l[1].h
    BY <1>1, <1>3 DEF Has, Distinct
  <2>2. Has(l, g) /\ g # l[1].h => Has(t, g)
    BY <1>4 DEF Has
  <2> QED
    BY <2>1, <2>2
<1>7. \A g, d : DueAt(l, g, d) /\ g # l[1].h => DueAt(t, g, d - l[1].time)
  BY <1>4 DEF DueAt
<1> QED
  BY <1>2, <1>5, <1>6, <1>7 DEF t

(* Time is taken off the first.                                            *)
LEMMA Elapsing ==
  ASSUME NEW H, NEW l \in Lists(H), Distinct(l), Len(l) > 0, NEW d \in Nat,
         NEW r, r = Elapse(l, d)
  PROVE  /\ r \in Lists(H) /\ Len(r) = Len(l)
         /\ Distinct(r)
         /\ \A g : Has(r, g) <=> Has(l, g)
         /\ r # l => \A g, e : DueAt(l, g, e) => \E f \in Int : f < e /\ DueAt(r, g, f)
<1>1. /\ r \in Lists(H) /\ Len(r) = Len(l)
      /\ \A i \in 1 .. Len(l) : r[i].h = l[i].h
      /\ r[1].time <= l[1].time
      /\ r[1].time = l[1].time => r = l
      /\ \A i \in 1 .. Len(l) : Due(r, i) = Due(l, i) - (l[1].time - r[1].time)
  <2>1. Elapsed(H, l, r)
    BY ElapseDue, Zenon
  <2> QED
    BY <2>1, Zenon DEF Elapsed
<1>2. l[1].time \in Nat /\ r[1].time \in Nat
  <2>1. Len(l) \in Nat /\ 1 \in 1 .. Len(l)
    BY ListType
  <2>2. \A i \in 1 .. Len(l) : l[i].time \in Nat
    BY ListType
  <2>3. \A i \in 1 .. Len(r) : r[i].time \in Nat
    BY <1>1, ListType
  <2> QED
    BY <1>1, <2>1, <2>2, <2>3
<1>3. Distinct(r)
  BY <1>1 DEF Distinct
<1>4. \A g : Has(r, g) <=> Has(l, g)
  BY <1>1 DEF Has
<1>5. ASSUME r # l, NEW g, NEW e, DueAt(l, g, e)
      PROVE  \E f \in Int : f < e /\ DueAt(r, g, f)
  <2>1. PICK i \in 1 .. Len(l) : l[i].h = g /\ Due(l, i) = e
    BY <1>5 DEF DueAt
  <2>2. Due(l, i) \in Nat
    <3>1. i \in 0 .. Len(l)
      BY ListType
    <3> QED
      BY <3>1, DueNat
  <2>3. Due(r, i) \in Int /\ Due(r, i) < e
    BY <1>1, <1>2, <1>5, <2>1, <2>2
  <2>4. DueAt(r, g, Due(r, i))
    BY <1>1, <2>1 DEF DueAt
  <2> QED
    BY <2>3, <2>4
<1> QED
  BY <1>1, <1>3, <1>4, <1>5

-----------------------------------------------------------------------------
(* The list that sys_timeouts_init builds: the fold over a finite set of   *)
(* handlers exists, and holds each of them once.                           *)

LEMMA SmallestSet ==
  ASSUME NEW S, IsFiniteSet(S), NEW T, T \subseteq SUBSET S, T # {}
  PROVE  \E x \in T : \A y \in T : y \subseteq x => y = x
<1>1. IsWellFoundedOn(StrictSubsetOrdering(S), SUBSET S)
  BY FS_StrictSubsetOrderingWellFounded, FS_FiniteSubsetsOfFinite
<1>2. PICK x \in T : \A y \in T : ~(<<y, x>> \in StrictSubsetOrdering(S))
  BY <1>1, WFMin
<1> QED
  BY <1>2 DEF StrictSubsetOrdering

(* A finite set of numbers has a largest.                                  *)
LEMMA MaxIs ==
  ASSUME NEW S, IsFiniteSet(S), S # {}, \A x \in S : x \in Nat
  PROVE  Max(S) \in S
<1> DEFINE Has1(s) == \E x \in s : \A y \in s : x >= y
           T == {s \in SUBSET S : s # {} /\ ~Has1(s)}
<1>1. ASSUME T # {}
      PROVE  FALSE
  <2>1. PICK s \in T : \A t \in T : t \subseteq s => t = s
    <3>1. T \subseteq SUBSET S
      OBVIOUS
    <3> HIDE DEF T
    <3> QED
      BY <1>1, <3>1, SmallestSet
  <2>2. s \in SUBSET S /\ s # {} /\ ~Has1(s)
    OBVIOUS
  <2>3. PICK x \in s : TRUE
    BY <2>2
  <2>4. x \in Nat
    BY <2>2
  <2>5. CASE s = {x}
    BY <2>2, <2>3, <2>4, <2>5
  <2>6. CASE s # {x}
    <3> DEFINE t == s \ {x}
    <3>1. t \in SUBSET S /\ t # {} /\ t \subseteq s /\ t # s
      BY <2>2, <2>3, <2>6
    <3>2. Has1(t)
      <4> HIDE DEF t, Has1
      <4> QED
        BY <2>1, <3>1
    <3>3. PICK m \in t : \A y \in t : m >= y
      BY <3>2
    <3>4. m \in Nat /\ m \in s /\ \A y \in s : y \in Nat /\ (y = x \/ y \in t)
      BY <2>2, <3>1
    <3> HIDE DEF t
    <3>5. CASE m >= x
      <4>1. \A y \in s : m >= y
        BY <3>3, <3>4, <3>5
      <4> QED
        BY <2>2, <3>4, <4>1
    <3>6. CASE x >= m
      <4>1. \A y \in s : x >= y
        <5> TAKE y \in s
        <5>1. y = x \/ m >= y
          BY <3>3, <3>4
        <5> QED
          BY <2>4, <3>4, <3>6, <5>1
      <4> QED
        BY <2>2, <2>3, <4>1
    <3> QED
      BY <2>4, <3>4, <3>5, <3>6
  <2> QED
    BY <2>5, <2>6
<1>2. \E x \in S : \A y \in S : x >= y
  BY <1>1
<1> QED
  BY <1>2 DEF Max

Chosen(s) == CHOOSE x \in s : TRUE

FoldStep(g, P, s) ==
    IF s = {} THEN << >> ELSE sys_timeout(g[s \ {Chosen(s)}], Chosen(s), P[Chosen(s)])

(* g is the fold on the subsets of S.                                      *)
Folds(g, P, S) == g = [s \in SUBSET S |-> FoldStep(g, P, s)]

LEMMA ChosenIs ==
  ASSUME NEW S, NEW s \in SUBSET S, s # {}
  PROVE  /\ Chosen(s) \in s
         /\ s \ {Chosen(s)} \in SUBSET S /\ s \ {Chosen(s)} \in SUBSET s
         /\ s \ {Chosen(s)} # s
BY DEF Chosen

LEMMA FoldsAgree ==
  ASSUME NEW S, IsFiniteSet(S), NEW P, NEW g, NEW h, NEW A, NEW B,
         A \subseteq S, B \subseteq S, Folds(g, P, A), Folds(h, P, B)
  PROVE  \A s \in SUBSET A : s \in SUBSET B => g[s] = h[s]
<1> DEFINE T == {s \in SUBSET A : s \in SUBSET B /\ g[s] # h[s]}
<1>1. \A s \in SUBSET A : g[s] = FoldStep(g, P, s)
  BY DEF Folds
<1>2. \A s \in SUBSET B : h[s] = FoldStep(h, P, s)
  BY DEF Folds
<1>3. ASSUME T # {}
      PROVE  FALSE
  <2>1. T \subseteq SUBSET S
    OBVIOUS
  <2>2. PICK x \in T : \A y \in T : y \subseteq x => y = x
    <3> HIDE DEF T
    <3> QED
      BY <1>3, <2>1, SmallestSet
  <2>3. x \in SUBSET A /\ x \in SUBSET B /\ g[x] # h[x]
    OBVIOUS
  <2>4. g[x] = FoldStep(g, P, x) /\ h[x] = FoldStep(h, P, x)
    BY <1>1, <1>2, <2>3
  <2>5. CASE x = {}
    BY <2>3, <2>4, <2>5 DEF FoldStep
  <2>6. CASE x # {}
    <3> DEFINE y == x \ {Chosen(x)}
    <3>1. y \in SUBSET A /\ y \in SUBSET B /\ y \subseteq x /\ y # x
      BY <2>3, <2>6, ChosenIs
    <3> HIDE DEF y
    <3>2. g[y] = h[y]
      BY <2>2, <3>1
    <3>3. FoldStep(g, P, x) = FoldStep(h, P, x)
      BY <2>6, <3>2 DEF FoldStep, y
    <3> QED
      BY <2>3, <2>4, <3>3
  <2> QED
    BY <2>5, <2>6
<1> QED
  BY <1>3

LEMMA FoldsExist ==
  ASSUME NEW S, IsFiniteSet(S), NEW P
  PROVE  \E g : Folds(g, P, S)
<1> DEFINE T == {s \in SUBSET S : ~ \E g : Folds(g, P, s)}
<1>1. ASSUME T # {}
      PROVE  FALSE
  <2>1. PICK x \in T : \A y \in T : y \subseteq x => y = x
    <3>1. T \subseteq SUBSET S
      OBVIOUS
    <3> HIDE DEF T
    <3> QED
      BY <1>1, <3>1, SmallestSet
  <2>2. x \in SUBSET S /\ ~ \E g : Folds(g, P, x)
    OBVIOUS
  <2>3. \A y \in SUBSET x : y # x => \E g : Folds(g, P, y)
    BY <2>1, <2>2
  <2> DEFINE fold(y) == CHOOSE g : Folds(g, P, y)
             val(y)  == fold(y)[y]
             whole == [s \in SUBSET x |->
                         IF s = {} THEN << >>
                         ELSE sys_timeout(val(s \ {Chosen(s)}), Chosen(s), P[Chosen(s)])]
  <2>4. \A y \in SUBSET x : y # x => Folds(fold(y), P, y)
    BY <2>3
  <2> HIDE DEF fold
  <2>5. \A y \in SUBSET x : y # x => whole[y] = val(y)
    <3> TAKE y \in SUBSET x
    <3> HAVE y # x
    <3>1. Folds(fold(y), P, y)
      BY <2>4
    <3>2. val(y) = FoldStep(fold(y), P, y)
      BY <3>1 DEF Folds
    <3>3. CASE y = {}
      BY <3>2, <3>3 DEF FoldStep
    <3>4. CASE y # {}
      <4> DEFINE z == y \ {Chosen(y)}
      <4>1. z \in SUBSET x /\ z \in SUBSET y /\ z # x
        BY <3>4, ChosenIs
      <4> HIDE DEF z
      <4>2. Folds(fold(z), P, z)
        BY <2>4, <4>1
      <4>3. fold(y)[z] = fold(z)[z]
        <5>1. y \subseteq S /\ z \subseteq S /\ z \in SUBSET z
          BY <2>2, <4>1
        <5> HIDE DEF val, whole
        <5> QED
          BY <3>1, <4>1, <4>2, <5>1, FoldsAgree
      <4>4. whole[y] = sys_timeout(val(z), Chosen(y), P[Chosen(y)])
        BY <3>4 DEF z
      <4>5. FoldStep(fold(y), P, y) = sys_timeout(fold(y)[z], Chosen(y), P[Chosen(y)])
        BY <3>4 DEF z, FoldStep
      <4> QED
        BY <3>2, <4>3, <4>4, <4>5
    <3> QED
      BY <3>3, <3>4
  <2>6. \A s \in SUBSET x : whole[s] = FoldStep(whole, P, s)
    <3> TAKE s \in SUBSET x
    <3>1. CASE s = {}
      BY <3>1 DEF FoldStep
    <3>2. CASE s # {}
      <4> DEFINE z == s \ {Chosen(s)}
      <4>1. z \in SUBSET x /\ z # x
        BY <3>2, ChosenIs
      <4>2. whole[s] = sys_timeout(val(z), Chosen(s), P[Chosen(s)])
        BY <3>2
      <4> HIDE DEF z, val, whole
      <4>3. whole[z] = val(z)
        BY <2>5, <4>1
      <4> QED
        BY <3>2, <4>2, <4>3 DEF FoldStep, z
    <3> QED
      BY <3>1, <3>2
  <2>7. whole = [s \in SUBSET x |-> whole[s]]
    OBVIOUS
  <2> HIDE DEF whole
  <2>8. Folds(whole, P, x)
    BY <2>6, <2>7 DEF Folds
  <2> QED
    BY <2>2, <2>8
<1>2. T = {}
  BY <1>1
<1>3. S \in SUBSET S
  OBVIOUS
<1> QED
  BY <1>2, <1>3

LEMMA FoldsGood ==
  ASSUME NEW H, NEW S, IsFiniteSet(S), S \subseteq H, NEW P \in [H -> Nat],
         NEW g, Folds(g, P, S)
  PROVE  \A s \in SUBSET S : /\ g[s] \in Lists(H)
                             /\ Distinct(g[s])
                             /\ \A h : Has(g[s], h) <=> h \in s
<1> DEFINE Good(s) == /\ g[s] \in Lists(H)
                      /\ Distinct(g[s])
                      /\ \A h : Has(g[s], h) <=> h \in s
           T == {s \in SUBSET S : ~Good(s)}
<1>1. \A s \in SUBSET S : g[s] = FoldStep(g, P, s)
  BY DEF Folds
<1>2. ASSUME T # {}
      PROVE  FALSE
  <2>1. PICK x \in T : \A y \in T : y \subseteq x => y = x
    <3>1. T \subseteq SUBSET S
      OBVIOUS
    <3> HIDE DEF T
    <3> QED
      BY <1>2, <3>1, SmallestSet
  <2>2. x \in SUBSET S /\ ~Good(x)
    OBVIOUS
  <2>3. \A y \in SUBSET x : y # x => Good(y)
    <3> TAKE y \in SUBSET x
    <3> HAVE y # x
    <3>1. y \in SUBSET S /\ y \notin T
      BY <2>1, <2>2
    <3> HIDE DEF Good
    <3> QED
      BY <3>1
  <2>4. CASE x = {}
    <3>1. g[x] = << >>
      BY <1>1, <2>2, <2>4 DEF FoldStep
    <3>2. << >> \in Lists(H) /\ Len(<< >>) = 0
      BY DEF Lists
    <3>3. Good(x)
      <4>1. g[x] \in Lists(H) /\ Len(g[x]) = 0
        BY <3>1, <3>2
      <4>2. \A i \in 1 .. Len(g[x]) : FALSE
        BY <4>1
      <4> QED
        BY <2>4, <4>1, <4>2 DEF Distinct, Has
    <3> QED
      BY <2>2, <3>3
  <2>5. CASE x # {}
    <3> DEFINE c == Chosen(x)
               y == x \ {c}
    <3>1. c \in x /\ y \in SUBSET x /\ y # x
      BY <2>5, ChosenIs
    <3>2. g[x] = sys_timeout(g[y], c, P[c])
      BY <1>1, <2>2, <2>5 DEF FoldStep
    <3>3. Good(y)
      <4> HIDE DEF Good, y
      <4> QED
        BY <2>3, <3>1
    <3>4. c \in H /\ P[c] \in Nat
      BY <2>2, <3>1
    <3>5. ~Has(g[y], c)
      BY <3>3
    <3> HIDE DEF y, c
    <3>6. /\ g[x] \in Lists(H)
          /\ Distinct(g[x])
          /\ \A h : Has(g[x], h) <=> Has(g[y], h) \/ h = c
      BY <3>2, <3>3, <3>4, <3>5, Arming
    <3>7. \A h : h \in x <=> h \in y \/ h = c
      BY <3>1 DEF y
    <3>8. Good(x)
      BY <3>3, <3>6, <3>7
    <3> QED
      BY <2>2, <3>8
  <2> QED
    BY <2>4, <2>5
<1> QED
  BY <1>2

Started(P, S) == FoldSet(LAMBDA h, k : sys_timeout(k, h, P[h]), << >>, S)

LEMMA StartedList ==
  ASSUME NEW H, NEW S, IsFiniteSet(S), S \subseteq H, NEW P \in [H -> Nat],
         NEW l, l = Started(P, S)
  PROVE  /\ l \in Lists(H)
         /\ Distinct(l)
         /\ \A h : Has(l, h) <=> h \in S
<1> DEFINE g == CHOOSE f : Folds(f, P, S)
<1>1. l = g[S]
  BY DEF Started, FoldSet, MapThenFoldSet, Folds, FoldStep, Chosen
<1>2. Folds(g, P, S)
  BY FoldsExist
<1>3. \A s \in SUBSET S : /\ g[s] \in Lists(H)
                          /\ Distinct(g[s])
                          /\ \A h : Has(g[s], h) <=> h \in s
  BY <1>2, FoldsGood
<1>4. S \in SUBSET S
  OBVIOUS
<1> HIDE DEF g
<1> QED
  BY <1>1, <1>3, <1>4

-----------------------------------------------------------------------------
(* The network side.                                                       *)

Tasks == Apps \cup {"tcpip"}
Msgs  == Inpkt \cup Apps
Slots == 0 .. OSQSize - 1

-----------------------------------------------------------------------------
(* The ring of the mailbox.                                                *)

QueueType == [cell : [Slots -> Msgs \cup {None}], in : Slots, out : Slots,
              n : 0 .. OSQSize]

(* The next message goes in behind the ones that are there.                *)
InBehind(r) == r.in = Q!Place(r, r.n + 1)

LEMMA SizePositive == OSQSize \in Nat /\ OSQSize >= 1
<1>1. Cardinality(Apps) \in Nat
  BY NetworkAssumption, FS_CardinalityType
<1> QED
  BY <1>1, NetworkAssumption

LEMMA PlaceType ==
  ASSUME NEW r \in QueueType, NEW i \in 1 .. OSQSize
  PROVE  Q!Place(r, i) \in Slots
BY SizePositive DEF Q!Place, QueueType, Slots

(* Different positions of the queue are different slots of the ring.       *)
LEMMA PlaceDistinct ==
  ASSUME NEW r \in QueueType, NEW i \in 1 .. OSQSize, NEW j \in 1 .. OSQSize,
         Q!Place(r, i) = Q!Place(r, j)
  PROVE  i = j
BY SizePositive DEF Q!Place, QueueType, Slots

LEMMA CreateIs ==
  Q!OSQCreate \in QueueType /\ InBehind(Q!OSQCreate) /\ Q!OSQCreate.n = 0
BY SizePositive DEF Q!OSQCreate, QueueType, Slots, InBehind, Q!Place, Q!Slots

(* OSQPost into a queue with room: the message is behind the others, which *)
(* keep their places.                                                      *)
LEMMA PutQueue ==
  ASSUME NEW r \in QueueType, InBehind(r), r.n < OSQSize, NEW m \in Msgs
  PROVE  /\ Q!Put(r, m) \in QueueType /\ InBehind(Q!Put(r, m))
         /\ Q!Put(r, m).n = r.n + 1
         /\ \A i \in 1 .. r.n :
              Q!Put(r, m).cell[Q!Place(Q!Put(r, m), i)] = r.cell[Q!Place(r, i)]
         /\ Q!Put(r, m).cell[Q!Place(Q!Put(r, m), r.n + 1)] = m
<1> DEFINE s == [cell |-> [r.cell EXCEPT ![r.in] = m],
                 in |-> Q!Wrap(r.in + 1), out |-> r.out, n |-> r.n + 1]
<1>1. Q!Put(r, m) = s
  BY DEF Q!Put
<1>2. r.in \in Slots /\ r.out \in Slots /\ r.n \in 0 .. OSQSize
      /\ r.cell \in [Slots -> Msgs \cup {None}]
  BY DEF QueueType
<1>3. s.in \in Slots
  BY <1>2, SizePositive DEF Q!Wrap, Slots
<1>4. s.n \in 0 .. OSQSize /\ s.n = r.n + 1 /\ s.out = r.out
  BY <1>2, SizePositive
<1>5. s.cell \in [Slots -> Msgs \cup {None}]
  BY <1>2
<1>6. s \in QueueType
  BY <1>2, <1>3, <1>4, <1>5 DEF QueueType
<1>7. r.in = Q!Place(r, r.n + 1)
  BY DEF InBehind
<1>8. \A i \in 1 .. r.n + 1 : Q!Place(s, i) = Q!Place(r, i)
  BY <1>4 DEF Q!Place
<1>9. s.in = Q!Place(s, s.n + 1)
  <2>1. s.in = Q!Wrap(r.in + 1)
    OBVIOUS
  <2>2. r.in = IF r.out + r.n >= OSQSize THEN r.out + r.n - OSQSize ELSE r.out + r.n
    BY <1>2, <1>7, SizePositive DEF Q!Place, Slots
  <2>3. Q!Place(s, s.n + 1)
          = IF r.out + r.n + 1 >= OSQSize THEN r.out + r.n + 1 - OSQSize
                                          ELSE r.out + r.n + 1
    BY <1>2, SizePositive DEF Q!Place, Slots
  <2>4. r.in + 1 = OSQSize <=> r.out + r.n + 1 = OSQSize
    BY <1>2, <2>2, SizePositive DEF Slots
  <2> HIDE DEF s
  <2> QED
    BY <1>2, <2>1, <2>2, <2>3, <2>4, SizePositive DEF Q!Wrap, Slots
<1>10. \A i \in 1 .. r.n : s.cell[Q!Place(s, i)] = r.cell[Q!Place(r, i)]
  <2> TAKE i \in 1 .. r.n
  <2>1. i \in 1 .. OSQSize /\ r.n + 1 \in 1 .. OSQSize /\ i # r.n + 1 /\ i \in 1 .. r.n + 1
    BY <1>2, SizePositive
  <2>2. Q!Place(r, i) # r.in /\ Q!Place(r, i) \in Slots
    BY <1>7, <2>1, PlaceDistinct, PlaceType
  <2> QED
    BY <1>2, <1>8, <2>1, <2>2
<1>11. s.cell[Q!Place(s, r.n + 1)] = m
  <2>1. r.n + 1 \in 1 .. r.n + 1
    BY <1>2
  <2> QED
    BY <1>2, <1>7, <1>8, <2>1
<1> QED
  BY <1>1, <1>4, <1>6, <1>9, <1>10, <1>11 DEF InBehind

(* OSQPend from a queue that is not empty: the first message leaves, the   *)
(* others move up.                                                         *)
LEMMA RestQueue ==
  ASSUME NEW r \in QueueType, InBehind(r), r.n > 0
  PROVE  /\ Q!Rest(r) \in QueueType /\ InBehind(Q!Rest(r))
         /\ Q!Rest(r).n = r.n - 1
         /\ \A i \in 1 .. r.n - 1 :
              Q!Rest(r).cell[Q!Place(Q!Rest(r), i)] = r.cell[Q!Place(r, i + 1)]
         /\ Q!First(r) = r.cell[Q!Place(r, 1)]
<1> DEFINE s == [cell |-> [r.cell EXCEPT ![r.out] = None], in |-> r.in,
                 out |-> Q!Wrap(r.out + 1), n |-> r.n - 1]
<1>1. Q!Rest(r) = s
  BY DEF Q!Rest
<1>2. r.in \in Slots /\ r.out \in Slots /\ r.n \in 0 .. OSQSize
      /\ r.cell \in [Slots -> Msgs \cup {None}]
  BY DEF QueueType
<1>3. s.out \in Slots
  BY <1>2, SizePositive DEF Q!Wrap, Slots
<1>4. s.n \in 0 .. OSQSize /\ s.n = r.n - 1 /\ s.in = r.in
  BY <1>2, SizePositive
<1>5. s.cell \in [Slots -> Msgs \cup {None}]
  BY <1>2
<1>6. s \in QueueType
  BY <1>2, <1>3, <1>4, <1>5 DEF QueueType
<1>7. Q!Place(r, 1) = r.out
  BY <1>2, SizePositive DEF Q!Place, Slots
<1>8. \A i \in 1 .. r.n : Q!Place(s, i) = Q!Place(r, i + 1)
  BY <1>2, SizePositive DEF Q!Place, Q!Wrap, Slots
<1>9. s.in = Q!Place(s, s.n + 1)
  <2>1. r.in = Q!Place(r, r.n + 1)
    BY DEF InBehind
  <2>2. s.n + 1 = r.n /\ r.n \in 1 .. r.n
    BY <1>2, <1>4
  <2>3. Q!Place(s, r.n) = Q!Place(r, r.n + 1)
    BY <1>8, <2>2
  <2> HIDE DEF s
  <2> QED
    BY <1>4, <2>1, <2>2, <2>3
<1>10. \A i \in 1 .. r.n - 1 : s.cell[Q!Place(s, i)] = r.cell[Q!Place(r, i + 1)]
  <2> TAKE i \in 1 .. r.n - 1
  <2>1. i + 1 \in 1 .. OSQSize /\ 1 \in 1 .. OSQSize /\ i + 1 # 1 /\ i \in 1 .. r.n
    BY <1>2, SizePositive
  <2>2. Q!Place(r, i + 1) # r.out /\ Q!Place(r, i + 1) \in Slots
    BY <1>7, <2>1, PlaceDistinct, PlaceType
  <2> QED
    BY <1>2, <1>8, <2>1, <2>2
<1> QED
  BY <1>1, <1>4, <1>6, <1>7, <1>9, <1>10 DEF InBehind, Q!First

-----------------------------------------------------------------------------
(* The invariant: where a message can be, and what the kernel's control    *)
(* blocks say of the tasks that wait.                                      *)

Cell(r, i) == r.cell[Q!Place(r, i)]
Queued  == {Cell(q, i) : i \in 1 .. q.n}

(* The message before all that are queued: handed over, or in hand.        *)
Foremost == IF pc = "pending" THEN tcb["tcpip"].msg
         ELSE IF pc \in {"got", "handle"} THEN msg ELSE None

InFlight == Queued \cup ({Foremost} \ {None})

KernelInv ==
    /\ DOMAIN tcb = Tasks
    /\ \A t \in Tasks : DOMAIN tcb[t] = {"dly", "pend", "msg", "rdy"}
    /\ wait \in [Tasks -> Tasks \cup {"mbox", None}]
    /\ \A a \in Apps : wait[a] \in {None, a}
    /\ wait["tcpip"] \in {None, "mbox"}

QueueInv == q \in QueueType /\ InBehind(q)

Ranges ==
    /\ sem \in [Apps -> {0, 1}]
    /\ app \in [Apps -> {"idle", "post", "sem", "waiting"}]
    /\ pool \in SUBSET Inpkt
    /\ pc \in {"fetch", "pend", "pending", "got", "handle", "fire"}
    /\ msg \in Msgs \cup {None}

TypeInv == KernelInv /\ QueueInv /\ Ranges

(* The thread waits for the mailbox while it is empty; a time-out leaves   *)
(* it in the wait list, a message takes it out.                            *)
ThreadInv ==
    /\ pc # "pending" => wait["tcpip"] = None
    /\ pc = "pending" =>
         \/ /\ wait["tcpip"] = "mbox" /\ tcb["tcpip"].msg = None /\ q.n = 0
            /\ tcb["tcpip"].pend # "to" => tcb["tcpip"].rdy = FALSE
         \/ /\ wait["tcpip"] = None /\ tcb["tcpip"].msg \in Msgs
            /\ tcb["tcpip"].pend = "ok" /\ tcb["tcpip"].dly = 0
    /\ pc \in {"got", "handle"} => msg \in Msgs

(* No message is in flight twice.                                          *)
OnceInv ==
    /\ \A i \in 1 .. q.n : Cell(q, i) \in Msgs /\ Cell(q, i) # Foremost
    /\ \A i, j \in 1 .. q.n : Cell(q, i) = Cell(q, j) => i = j

(* An element of the pool is free or in flight.                            *)
PoolInv == pool \cap InFlight = {} /\ Inpkt \subseteq pool \cup InFlight

(* A caller whose message is in flight, or whose call is left to TCP, has  *)
(* not been answered.                                                      *)
CallerInv ==
    \A a \in Apps :
        /\ sem[a] = 1 => app[a] = "sem"
        /\ wait[a] = a => app[a] = "waiting" /\ tcb[a].rdy = FALSE /\ tcb[a].dly = 0
        /\ a \in open => a \notin InFlight
        /\ a \in InFlight \cup open => \/ app[a] = "sem" /\ sem[a] = 0
                                       \/ app[a] = "waiting" /\ wait[a] = a

MailInv == TypeInv /\ ThreadInv /\ OnceInv /\ PoolInv /\ CallerInv

USE DEF Tasks, Msgs

(* What the names of the tasks, the events and the messages have to do     *)
(* with one another.                                                       *)
LEMMA Names ==
  /\ None \notin Msgs /\ None # "mbox" /\ "mbox" \notin Apps /\ "tcpip" \notin Apps
  /\ "tcpip" \in Tasks /\ Apps \subseteq Tasks /\ Apps \subseteq Msgs
  /\ Inpkt \cap Apps = {}
BY NetworkAssumption

-----------------------------------------------------------------------------
(* The kernel's critical sections.                                         *)

LEMMA WaitingMbox ==
  ASSUME KernelInv
  PROVE  K!Waiting("mbox") = IF wait["tcpip"] = "mbox" THEN {"tcpip"} ELSE {}
BY Names DEF K!Waiting, KernelInv

LEMMA WaitingApp ==
  ASSUME KernelInv, NEW a \in Apps
  PROVE  K!Waiting(a) = IF wait[a] = a THEN {a} ELSE {}
BY Names DEF K!Waiting, KernelInv

(* A post to an event that one task waits for.                             *)
LEMMA Readied ==
  ASSUME NEW t \in Tasks, NEW e, NEW m,
         K!Waiting(e) = {t}, K!OS_EventTaskRdy(e, m)
  PROVE  /\ tcb' = [tcb EXCEPT ![t] = [dly |-> 0, pend |-> "ok", msg |-> m,
                                       rdy |-> TRUE]]
         /\ wait' = [wait EXCEPT ![t] = None]
<1>1. Prio[t] \in Nat
  BY NetworkAssumption
<1>2. (CHOOSE x \in {t} : \A u \in {t} : Prio[x] <= Prio[u]) = t
  BY <1>1
<1> QED
  BY <1>2, Zenon DEF K!OS_EventTaskRdy

(* A tick shortens the wait of a task, or ends it.                         *)
LEMMA TickedFields ==
  ASSUME NEW c, DOMAIN c = {"dly", "pend", "msg", "rdy"}
  PROVE  /\ DOMAIN K!Ticked(c) = {"dly", "pend", "msg", "rdy"}
         /\ K!Ticked(c).msg = c.msg
         /\ K!Ticked(c).pend \in {c.pend, "to"}
         /\ K!Ticked(c).pend # "to" => K!Ticked(c).rdy = c.rdy
         /\ c.dly = 0 => /\ K!Ticked(c).dly = 0 /\ K!Ticked(c).pend = c.pend
                         /\ K!Ticked(c).rdy = c.rdy
<1>1. CASE c.dly # 1
  <2>1. K!Ticked(c) = [c EXCEPT !.dly = IF c.dly = 0 THEN 0 ELSE c.dly - 1]
    BY <1>1, Zenon DEF K!Ticked
  <2> QED
    BY <1>1, <2>1
<1>2. CASE c.dly = 1
  <2>1. K!Ticked(c) = [c EXCEPT !.dly = 0, !.pend = "to", !.rdy = TRUE]
    BY <1>2, Zenon DEF K!Ticked
  <2>2. DOMAIN [c EXCEPT !.dly = 0, !.pend = "to", !.rdy = TRUE] = DOMAIN c
    BY Zenon
  <2>3. [c EXCEPT !.dly = 0, !.pend = "to", !.rdy = TRUE].msg = c.msg
    BY Zenon
  <2>4. [c EXCEPT !.dly = 0, !.pend = "to", !.rdy = TRUE].pend = "to"
    BY Zenon
  <2> QED
    BY <1>2, <2>1, <2>2, <2>3, <2>4
<1> QED
  BY <1>1, <1>2

-----------------------------------------------------------------------------
(* A message that is posted and not yet in flight.                         *)

(* OSQPost, case by case: to the waiting thread or into the queue.         *)
LEMMA PostCases ==
  ASSUME MailInv, NEW m \in Msgs, OSQPost(m)
  PROVE  \/ /\ wait["tcpip"] = "mbox" /\ pc = "pending" /\ q.n = 0
            /\ tcb["tcpip"].msg = None
            /\ tcb' = [tcb EXCEPT !["tcpip"] = [dly |-> 0, pend |-> "ok", msg |-> m,
                                                rdy |-> TRUE]]
            /\ wait' = [wait EXCEPT !["tcpip"] = None]
            /\ q' = q
         \/ /\ wait["tcpip"] = None /\ q.n < OSQSize
            /\ q' = Q!Put(q, m) /\ tcb' = tcb /\ wait' = wait
<1> USE DEF MailInv, TypeInv
<1>1. CASE wait["tcpip"] = "mbox"
  <2>1. K!Waiting("mbox") = {"tcpip"}
    BY <1>1, WaitingMbox
  <2>2. K!OS_EventTaskRdy("mbox", m) /\ q' = q
    BY <2>1 DEF OSQPost
  <2>3. pc = "pending" /\ q.n = 0 /\ tcb["tcpip"].msg = None
    BY <1>1, Names DEF ThreadInv
  <2> QED
    BY <1>1, <2>1, <2>2, <2>3, Readied, Names
<1>2. CASE wait["tcpip"] # "mbox"
  <2>1. K!Waiting("mbox") = {} /\ wait["tcpip"] = None
    BY <1>2, WaitingMbox DEF KernelInv
  <2>2. q' = Q!Put(q, m) /\ tcb' = tcb /\ wait' = wait
    BY <2>1 DEF OSQPost, kernel
  <2>3. ~Q!Full(q)
    BY <2>1 DEF OSQPost, Refused
  <2>4. q.n \in 0 .. OSQSize
    BY DEF QueueInv, QueueType
  <2>5. q.n < OSQSize
    BY <2>3, <2>4, SizePositive DEF Q!Full
  <2> QED
    BY <2>1, <2>2, <2>5
<1> QED
  BY <1>1, <1>2

(* The kernel's own invariant, and what apps see of it.                    *)
LEMMA PostKernel ==
  ASSUME MailInv, NEW m \in Msgs, OSQPost(m)
  PROVE  /\ KernelInv' /\ QueueInv'
         /\ \A a \in Apps : tcb'[a] = tcb[a] /\ wait'[a] = wait[a]
<1> USE DEF MailInv, TypeInv
<1>1. CASE /\ wait["tcpip"] = "mbox" /\ pc = "pending" /\ q.n = 0
           /\ tcb["tcpip"].msg = None
           /\ tcb' = [tcb EXCEPT !["tcpip"] = [dly |-> 0, pend |-> "ok", msg |-> m,
                                               rdy |-> TRUE]]
           /\ wait' = [wait EXCEPT !["tcpip"] = None]
           /\ q' = q
  <2>1. QueueInv'
    BY <1>1 DEF QueueInv, InBehind, Q!Place
  <2>2. \A a \in Apps : tcb'[a] = tcb[a] /\ wait'[a] = wait[a]
    BY <1>1, Names DEF KernelInv
  <2>3. DOMAIN tcb' = Tasks /\ wait' \in [Tasks -> Tasks \cup {"mbox", None}]
    BY <1>1 DEF KernelInv
  <2>4. tcb'["tcpip"] = [dly |-> 0, pend |-> "ok", msg |-> m, rdy |-> TRUE]
        /\ wait'["tcpip"] = None
    BY <1>1 DEF KernelInv
  <2>5. DOMAIN tcb'["tcpip"] = {"dly", "pend", "msg", "rdy"}
    BY <2>4
  <2> QED
    BY <2>1, <2>2, <2>3, <2>4, <2>5 DEF KernelInv
<1>2. CASE /\ wait["tcpip"] = None /\ q.n < OSQSize
           /\ q' = Q!Put(q, m) /\ tcb' = tcb /\ wait' = wait
  <2>1. Q!Put(q, m) \in QueueType /\ InBehind(Q!Put(q, m))
    BY <1>2, PutQueue DEF QueueInv
  <2>2. QueueInv'
    BY <1>2, <2>1 DEF QueueInv, InBehind, Q!Place
  <2> QED
    BY <1>2, <2>2 DEF KernelInv
<1> QED
  BY <1>1, <1>2, PostCases

(* Nothing is in flight twice after a post, and only what was posted is    *)
(* added.                                                                  *)
LEMMA PostFlight ==
  ASSUME MailInv, NEW m \in Msgs, m \notin InFlight, OSQPost(m), pc' = pc, msg' = msg
  PROVE  ThreadInv' /\ OnceInv' /\ InFlight' = InFlight \cup {m}
<1> USE DEF MailInv, TypeInv
<1>1. CASE /\ wait["tcpip"] = "mbox" /\ pc = "pending" /\ q.n = 0
           /\ tcb["tcpip"].msg = None
           /\ tcb' = [tcb EXCEPT !["tcpip"] = [dly |-> 0, pend |-> "ok", msg |-> m,
                                               rdy |-> TRUE]]
           /\ wait' = [wait EXCEPT !["tcpip"] = None]
           /\ q' = q
  <2>1. tcb'["tcpip"] = [dly |-> 0, pend |-> "ok", msg |-> m, rdy |-> TRUE]
        /\ wait'["tcpip"] = None
    BY <1>1, Names DEF KernelInv
  <2>2. tcb'["tcpip"].msg = m /\ tcb'["tcpip"].pend = "ok" /\ tcb'["tcpip"].dly = 0
    BY <2>1
  <2>3. ThreadInv'
    BY <1>1, <2>1, <2>2 DEF ThreadInv
  <2>4. Foremost = None /\ Foremost' = m
    BY <1>1, <2>2 DEF Foremost
  <2>5. Queued = {} /\ Queued' = {}
    BY <1>1 DEF Queued
  <2>6. OnceInv'
    BY <1>1 DEF OnceInv
  <2> QED
    BY <2>3, <2>4, <2>5, <2>6, Names DEF InFlight
<1>2. CASE /\ wait["tcpip"] = None /\ q.n < OSQSize
           /\ q' = Q!Put(q, m) /\ tcb' = tcb /\ wait' = wait
  <2>1. /\ q'.n = q.n + 1
        /\ \A i \in 1 .. q.n : Cell(q', i) = Cell(q, i)
        /\ Cell(q', q.n + 1) = m
    <3>1. /\ Q!Put(q, m).n = q.n + 1
          /\ \A i \in 1 .. q.n :
               Q!Put(q, m).cell[Q!Place(Q!Put(q, m), i)] = q.cell[Q!Place(q, i)]
          /\ Q!Put(q, m).cell[Q!Place(Q!Put(q, m), q.n + 1)] = m
      BY <1>2, PutQueue DEF QueueInv
    <3> QED
      BY <1>2, <3>1 DEF Cell
  <2>2. q.n \in Nat
    BY DEF QueueInv, QueueType
  <2>3. Foremost' = Foremost
    BY <1>2 DEF Foremost
  <2>4. ThreadInv'
    BY <1>2, Names DEF ThreadInv
  <2>5. m # Foremost /\ \A i \in 1 .. q.n : m # Cell(q, i)
    BY Names DEF InFlight, Queued
  <2>6. OnceInv'
    <3>1. \A i \in 1 .. q'.n : i \in 1 .. q.n \/ i = q.n + 1
      BY <2>1, <2>2
    <3> QED
      BY <2>1, <2>3, <2>5, <3>1 DEF OnceInv
  <2>7. Queued' = Queued \cup {m}
    <3>1. 1 .. q'.n = (1 .. q.n) \cup {q.n + 1}
      BY <2>1, <2>2
    <3> QED
      BY <2>1, <3>1 DEF Queued
  <2> QED
    BY <2>3, <2>4, <2>6, <2>7 DEF InFlight
<1> QED
  BY <1>1, <1>2, PostCases

-----------------------------------------------------------------------------
(* Every action keeps the invariant.                                       *)

(* Steps that neither move a message nor touch a task.                     *)
LEMMA MailSame ==
  ASSUME MailInv, tcb' = tcb, wait' = wait, q' = q, sem' = sem, pool' = pool,
         app' = app, open' = open, Foremost' = Foremost, Ranges', ThreadInv'
  PROVE  MailInv'
<1>1. KernelInv'
  BY DEF MailInv, TypeInv, KernelInv
<1>2. QueueInv'
  BY DEF MailInv, TypeInv, QueueInv, InBehind, Q!Place
<1>3. Queued' = Queued
  BY DEF Queued, Cell, Q!Place
<1>4. InFlight' = InFlight
  BY <1>3 DEF InFlight
<1>5. OnceInv'
  BY DEF MailInv, OnceInv, Cell, Q!Place
<1>6. PoolInv' /\ CallerInv'
  BY <1>4 DEF MailInv, PoolInv, CallerInv
<1> QED
  BY <1>1, <1>2, <1>5, <1>6 DEF MailInv, TypeInv

(* The ring, the status and the handler's own steps.                       *)
LEMMA MailQuiet ==
  ASSUME MailInv, UNCHANGED <<kernel, q, sem, pool, app, open, pc, msg>>
  PROVE  MailInv'
<1>1. tcb' = tcb /\ wait' = wait /\ q' = q /\ sem' = sem /\ pool' = pool
      /\ app' = app /\ pc' = pc /\ msg' = msg /\ open' = open
  BY DEF kernel
<1>2. Foremost' = Foremost
  BY <1>1 DEF Foremost
<1>3. ThreadInv'
  BY <1>1 DEF MailInv, ThreadInv
<1>4. Ranges'
  BY <1>1 DEF MailInv, TypeInv, Ranges
<1> QED
  BY <1>1, <1>2, <1>3, <1>4, MailSame

(* The thread between messages.                                            *)
LEMMA MailThread ==
  ASSUME MailInv, Fetch \/ Got \/ Fire
  PROVE  MailInv'
<1>1. tcb' = tcb /\ wait' = wait /\ q' = q /\ sem' = sem /\ pool' = pool
      /\ app' = app /\ msg' = msg /\ open' = open
  BY DEF Fetch, Got, Fire, kernel, timers
<1>2. \/ pc = "fetch" /\ pc' \in {"pend", "fire"}
      \/ pc = "got" /\ pc' = "handle"
      \/ pc = "fire" /\ pc' = "fetch"
  <2>1. CASE Fetch
    <3>1. pc' = "pend" \/ pc' = "fire"
      BY <2>1, Zenon DEF Fetch
    <3> QED
      BY <2>1, <3>1 DEF Fetch
  <2>2. CASE Got \/ Fire
    BY <2>2 DEF Got, Fire
  <2> QED
    BY <2>1, <2>2
<1>3. Foremost' = Foremost
  BY <1>1, <1>2 DEF Foremost
<1>4. ThreadInv'
  BY <1>1, <1>2 DEF MailInv, ThreadInv
<1>5. Ranges'
  BY <1>1, <1>2 DEF MailInv, TypeInv, Ranges
<1> QED
  BY <1>1, <1>3, <1>4, <1>5, MailSame

(* tcpip_input: a free element of the pool is posted.                      *)
LEMMA MailPacket ==
  ASSUME MailInv, TcpipInput, UNCHANGED <<sem, app, open, pc, msg>>
  PROVE  MailInv'
<1> USE DEF MailInv, TypeInv
<1>1. PICK m \in pool : OSQPost(m) /\ pool' = pool \ {m}
  BY Zenon DEF TcpipInput
<1>2. m \in Inpkt /\ m \in Msgs /\ m \notin Apps /\ m \notin InFlight
  BY <1>1, Names DEF Ranges, PoolInv
<1>3. KernelInv' /\ QueueInv' /\ \A a \in Apps : tcb'[a] = tcb[a] /\ wait'[a] = wait[a]
  BY <1>1, <1>2, PostKernel
<1>4. ThreadInv' /\ OnceInv' /\ InFlight' = InFlight \cup {m}
  BY <1>1, <1>2, PostFlight
<1>5. Ranges'
  BY <1>1 DEF Ranges
<1>6. PoolInv'
  BY <1>1, <1>4 DEF PoolInv
<1>7. CallerInv'
  BY <1>2, <1>3, <1>4 DEF CallerInv
<1> QED
  BY <1>3, <1>4, <1>5, <1>6, <1>7

(* sys_mbox_post by a caller.                                              *)
LEMMA MailPost ==
  ASSUME MailInv, NEW a \in Apps, Post(a)
  PROVE  MailInv'
<1> USE DEF MailInv, TypeInv
<1>1. /\ app[a] = "post" /\ OSQPost(a) /\ app' = [app EXCEPT ![a] = "sem"]
      /\ sem' = sem /\ pool' = pool /\ pc' = pc /\ msg' = msg /\ open' = open
  BY DEF Post, thread, timers
<1>2. a \in Msgs /\ a \notin Inpkt /\ a \notin InFlight \cup open /\ sem[a] # 1 /\ wait[a] # a
  BY <1>1, Names DEF CallerInv
<1>3. KernelInv' /\ QueueInv' /\ \A b \in Apps : tcb'[b] = tcb[b] /\ wait'[b] = wait[b]
  BY <1>1, <1>2, PostKernel
<1>4. ThreadInv' /\ OnceInv' /\ InFlight' = InFlight \cup {a}
  BY <1>1, <1>2, PostFlight
<1>5. Ranges'
  BY <1>1 DEF Ranges
<1>6. PoolInv'
  BY <1>1, <1>2, <1>4 DEF PoolInv, Ranges
<1>7. CallerInv'
  <2> SUFFICES ASSUME NEW b \in Apps
               PROVE  /\ sem'[b] = 1 => app'[b] = "sem"
                      /\ wait'[b] = b => /\ app'[b] = "waiting" /\ tcb'[b].rdy = FALSE
                                         /\ tcb'[b].dly = 0
                      /\ b \in open' => b \notin InFlight'
                      /\ b \in InFlight' \cup open' => \/ app'[b] = "sem" /\ sem'[b] = 0
                                                       \/ app'[b] = "waiting" /\ wait'[b] = b
    BY DEF CallerInv
  <2>1. CASE b = a
    <3>1. app'[a] = "sem" /\ sem'[a] = sem[a] /\ wait'[a] = wait[a] /\ sem[a] \in {0, 1}
      BY <1>1, <1>3 DEF Ranges
    <3> QED
      BY <1>1, <1>2, <2>1, <3>1
  <2>2. CASE b # a
    <3>1. app'[b] = app[b] /\ sem'[b] = sem[b] /\ wait'[b] = wait[b] /\ tcb'[b] = tcb[b]
      BY <1>1, <1>3, <2>2 DEF Ranges
    <3> QED
      BY <1>1, <1>4, <2>2, <3>1 DEF CallerInv
  <2> QED
    BY <2>1, <2>2
<1> QED
  BY <1>3, <1>4, <1>5, <1>6, <1>7

(* The clock: nothing moves, some tasks become ready.                      *)
LEMMA MailTick ==
  ASSUME MailInv, Tick
  PROVE  MailInv'
<1> USE DEF MailInv, TypeInv
<1>1. /\ tcb' = [t \in Tasks |-> K!Ticked(tcb[t])] /\ wait' = wait /\ q' = q
      /\ sem' = sem /\ pool' = pool /\ pc' = pc /\ msg' = msg /\ app' = app
      /\ open' = open
  BY DEF Tick, K!OSTimeTick, timers
<1>2. \A t \in Tasks :
        /\ DOMAIN tcb'[t] = {"dly", "pend", "msg", "rdy"}
        /\ tcb'[t].msg = tcb[t].msg
        /\ tcb'[t].pend \in {tcb[t].pend, "to"}
        /\ tcb'[t].pend # "to" => tcb'[t].rdy = tcb[t].rdy
        /\ tcb[t].dly = 0 => /\ tcb'[t].dly = 0 /\ tcb'[t].pend = tcb[t].pend
                             /\ tcb'[t].rdy = tcb[t].rdy
  <2> TAKE t \in Tasks
  <2>1. DOMAIN tcb[t] = {"dly", "pend", "msg", "rdy"} /\ tcb'[t] = K!Ticked(tcb[t])
    BY <1>1 DEF KernelInv
  <2> HIDE DEF MailInv, TypeInv
  <2> QED
    BY <2>1, TickedFields
<1>3. KernelInv'
  BY <1>1, <1>2 DEF KernelInv
<1>4. QueueInv'
  BY <1>1 DEF QueueInv, InBehind, Q!Place
<1>5. Ranges'
  BY <1>1 DEF Ranges
<1>6. Foremost' = Foremost
  BY <1>1, <1>2, Names DEF Foremost
<1>7. ThreadInv'
  BY <1>1, <1>2, Names DEF ThreadInv
<1>8. Queued' = Queued
  BY <1>1 DEF Queued, Cell, Q!Place
<1>9. OnceInv'
  BY <1>1, <1>6 DEF OnceInv, Cell, Q!Place
<1>10. InFlight' = InFlight
  BY <1>6, <1>8 DEF InFlight
<1>11. PoolInv'
  BY <1>1, <1>10 DEF PoolInv
<1>12. CallerInv'
  <2> SUFFICES ASSUME NEW a \in Apps
               PROVE  /\ sem'[a] = 1 => app'[a] = "sem"
                      /\ wait'[a] = a => /\ app'[a] = "waiting" /\ tcb'[a].rdy = FALSE
                                         /\ tcb'[a].dly = 0
                      /\ a \in open' => a \notin InFlight'
                      /\ a \in InFlight' \cup open' => \/ app'[a] = "sem" /\ sem'[a] = 0
                                                       \/ app'[a] = "waiting" /\ wait'[a] = a
    BY DEF CallerInv
  <2>1. wait'[a] = a => /\ app'[a] = "waiting" /\ tcb'[a].rdy = FALSE
                         /\ tcb'[a].dly = 0
    <3>1. wait[a] = a => /\ app[a] = "waiting" /\ tcb[a].rdy = FALSE
                         /\ tcb[a].dly = 0
      BY DEF CallerInv
    <3>2. tcb[a].dly = 0 => tcb'[a].dly = 0 /\ tcb'[a].rdy = tcb[a].rdy
      BY <1>2, Names
    <3> HIDE DEF MailInv, TypeInv
    <3> QED
      BY <1>1, <3>1, <3>2, Zenon
  <2> QED
    BY <1>1, <1>10, <2>1 DEF CallerInv
<1> QED
  BY <1>3, <1>4, <1>5, <1>7, <1>9, <1>11, <1>12

(* OSQPend finds a message.                                                *)
LEMMA MailTake ==
  ASSUME MailInv, pc = "pend", q.n > 0, msg' = Q!First(q), q' = Q!Rest(q),
         pc' = "got", UNCHANGED <<kernel, sem, pool, app, open>>
  PROVE  MailInv'
<1> USE DEF MailInv, TypeInv
<1>1. tcb' = tcb /\ wait' = wait /\ sem' = sem /\ pool' = pool /\ app' = app
      /\ open' = open
  BY DEF kernel
<1>2. /\ QueueInv' /\ q'.n = q.n - 1 /\ msg' = Cell(q, 1)
      /\ \A i \in 1 .. q.n - 1 : Cell(q', i) = Cell(q, i + 1)
  <2>1. /\ Q!Rest(q) \in QueueType /\ InBehind(Q!Rest(q))
        /\ Q!Rest(q).n = q.n - 1
        /\ \A i \in 1 .. q.n - 1 :
             Q!Rest(q).cell[Q!Place(Q!Rest(q), i)] = q.cell[Q!Place(q, i + 1)]
        /\ Q!First(q) = q.cell[Q!Place(q, 1)]
    BY RestQueue DEF QueueInv
  <2> QED
    BY <2>1 DEF QueueInv, Cell, InBehind, Q!Place
<1>3. q.n \in Nat /\ 1 \in 1 .. q.n
  BY DEF QueueInv, QueueType
<1>4. msg' \in Msgs
  BY <1>2, <1>3 DEF OnceInv
<1>5. Ranges' /\ ThreadInv' /\ KernelInv'
  BY <1>1, <1>4 DEF Ranges, ThreadInv, KernelInv
<1>6. Foremost = None /\ Foremost' = msg'
  BY DEF Foremost
<1>7. \A i \in 1 .. q'.n : i \in 1 .. q.n - 1 /\ i + 1 \in 1 .. q.n /\ i + 1 # 1
  BY <1>2, <1>3
<1>8. OnceInv'
  <2>1. \A i \in 1 .. q'.n : Cell(q', i) \in Msgs /\ Cell(q', i) # Foremost'
    BY <1>2, <1>3, <1>6, <1>7 DEF OnceInv
  <2>2. \A i, j \in 1 .. q'.n : Cell(q', i) = Cell(q', j) => i = j
    <3> TAKE i, j \in 1 .. q'.n
    <3> HAVE Cell(q', i) = Cell(q', j)
    <3>1. Cell(q, i + 1) = Cell(q, j + 1)
      BY <1>2, <1>7
    <3>2. i + 1 = j + 1
      BY <1>7, <3>1 DEF OnceInv
    <3> QED
      BY <1>2, <1>3, <3>2
  <2> QED
    BY <2>1, <2>2 DEF OnceInv
<1>9. InFlight' = InFlight
  <2>1. Queued = Queued' \cup {msg'}
    <3>1. \A i \in 1 .. q.n : i = 1 \/ (i - 1 \in 1 .. q'.n /\ i = (i - 1) + 1)
      BY <1>2, <1>3
    <3>2. \A x \in Queued : x \in Queued' \cup {msg'}
      BY <1>2, <1>7, <3>1 DEF Queued
    <3>3. \A x \in Queued' : x \in Queued
      BY <1>2, <1>7 DEF Queued
    <3>4. msg' \in Queued
      BY <1>2, <1>3 DEF Queued
    <3> QED
      BY <3>2, <3>3, <3>4
  <2> QED
    BY <1>4, <1>6, <2>1, Names DEF InFlight
<1>10. PoolInv' /\ CallerInv'
  BY <1>1, <1>9 DEF PoolInv, CallerInv
<1> QED
  BY <1>2, <1>5, <1>8, <1>10

(* OSQPend waits: the thread is in the mailbox's wait list.                *)
LEMMA MailWait ==
  ASSUME MailInv, pc = "pend", q.n = 0, NEW d,
         K!OS_EventTaskWait("tcpip", "mbox", d), pc' = "pending",
         UNCHANGED <<msg, q, sem, pool, app, open>>
  PROVE  MailInv'
<1> USE DEF MailInv, TypeInv
<1>1. /\ tcb' = [tcb EXCEPT !["tcpip"] = [dly |-> d, pend |-> "ok", msg |-> None,
                                          rdy |-> FALSE]]
      /\ wait' = [wait EXCEPT !["tcpip"] = "mbox"]
      /\ q' = q /\ sem' = sem /\ pool' = pool /\ app' = app /\ msg' = msg
      /\ open' = open
  BY DEF K!OS_EventTaskWait
<1>2. /\ tcb'["tcpip"] = [dly |-> d, pend |-> "ok", msg |-> None, rdy |-> FALSE]
      /\ wait'["tcpip"] = "mbox"
      /\ \A a \in Apps : tcb'[a] = tcb[a] /\ wait'[a] = wait[a]
  BY <1>1, Names DEF KernelInv
<1>3. /\ tcb'["tcpip"].msg = None /\ tcb'["tcpip"].pend = "ok"
      /\ tcb'["tcpip"].rdy = FALSE
      /\ DOMAIN tcb'["tcpip"] = {"dly", "pend", "msg", "rdy"}
  BY <1>2
<1>4. KernelInv'
  <2>1. DOMAIN tcb' = Tasks /\ wait' \in [Tasks -> Tasks \cup {"mbox", None}]
    BY <1>1 DEF KernelInv
  <2>2. \A t \in Tasks : DOMAIN tcb'[t] = {"dly", "pend", "msg", "rdy"}
    BY <1>2, <1>3 DEF KernelInv
  <2> QED
    BY <1>2, <2>1, <2>2 DEF KernelInv
<1>5. QueueInv' /\ Ranges'
  BY <1>1 DEF QueueInv, InBehind, Q!Place, Ranges
<1>6. ThreadInv'
  BY <1>1, <1>2, <1>3 DEF ThreadInv
<1>7. Foremost = None /\ Foremost' = None
  BY <1>3 DEF Foremost
<1>8. OnceInv' /\ Queued' = Queued
  BY <1>1, <1>7 DEF OnceInv, Queued, Cell, Q!Place
<1>9. InFlight' = InFlight
  BY <1>7, <1>8 DEF InFlight
<1>10. PoolInv' /\ CallerInv'
  BY <1>1, <1>2, <1>9 DEF PoolInv, CallerInv
<1> QED
  BY <1>4, <1>5, <1>6, <1>8, <1>10

LEMMA MailPend ==
  ASSUME MailInv, Pend
  PROVE  MailInv'
<1>1. CASE q.n > 0 /\ msg' = Q!First(q) /\ q' = Q!Rest(q) /\ pc' = "got"
           /\ UNCHANGED kernel
  BY <1>1, MailTake DEF Pend, kernel, timers
<1>2. CASE q.n = 0 /\ K!OS_EventTaskWait("tcpip", "mbox", list[1].time)
           /\ pc' = "pending" /\ UNCHANGED <<msg, q>>
  BY <1>2, MailWait DEF Pend, timers
<1> QED
  BY <1>1, <1>2 DEF Pend

(* The end of OSQPend: a message was handed over, or the time is out.      *)
LEMMA MailPended ==
  ASSUME MailInv, Pended
  PROVE  MailInv'
<1> USE DEF MailInv, TypeInv
<1>1. /\ pc = "pending" /\ q' = q /\ sem' = sem /\ pool' = pool /\ app' = app
      /\ open' = open
      /\ tcb' = [tcb EXCEPT !["tcpip"] = K!TcbInit]
      /\ wait' = [wait EXCEPT !["tcpip"] = IF tcb["tcpip"].pend = "to" THEN None ELSE @]
  BY DEF Pended, K!Resume, timers
<1>2. tcb["tcpip"].rdy
  BY DEF Pended, Runs, K!Runs
<1>3. /\ tcb'["tcpip"] = K!TcbInit
      /\ \A a \in Apps : tcb'[a] = tcb[a] /\ wait'[a] = wait[a]
      /\ wait'["tcpip"] = IF tcb["tcpip"].pend = "to" THEN None ELSE wait["tcpip"]
  BY <1>1, Names DEF KernelInv
<1>4. \/ /\ tcb["tcpip"].pend = "to" /\ tcb["tcpip"].msg = None /\ pc' = "fire" /\ msg' = msg
      \/ /\ tcb["tcpip"].pend # "to" /\ tcb["tcpip"].msg \in Msgs
         /\ wait["tcpip"] = None /\ pc' = "got" /\ msg' = tcb["tcpip"].msg
  <2>1. CASE tcb["tcpip"].pend = "to"
    <3>1. pc' = "fire" /\ msg' = msg
      BY <2>1 DEF Pended, K!TimedOut
    <3> QED
      BY <1>1, <2>1, <3>1 DEF ThreadInv
  <2>2. CASE tcb["tcpip"].pend # "to"
    <3>1. pc' = "got" /\ msg' = tcb["tcpip"].msg
      BY <2>2 DEF Pended, K!TimedOut
    <3>2. tcb["tcpip"].rdy # FALSE
      BY <1>2
    <3> QED
      BY <1>1, <2>2, <3>1, <3>2 DEF ThreadInv
  <2> QED
    BY <2>1, <2>2
<1>5. wait'["tcpip"] = None
  BY <1>3, <1>4
<1>6. KernelInv'
  <2>1. DOMAIN tcb' = Tasks
    BY <1>1 DEF KernelInv
  <2>2. wait' \in [Tasks -> Tasks \cup {"mbox", None}]
    <3>1. wait' = [wait EXCEPT !["tcpip"] = None]
      BY <1>1, <1>4 DEF KernelInv
    <3> QED
      BY <3>1 DEF KernelInv
  <2>3. \A t \in Tasks : DOMAIN tcb'[t] = {"dly", "pend", "msg", "rdy"}
    BY <1>3 DEF KernelInv, K!TcbInit
  <2> QED
    BY <1>3, <1>5, <2>1, <2>2, <2>3 DEF KernelInv
<1>7. QueueInv' /\ Ranges' /\ ThreadInv'
  BY <1>1, <1>4, <1>5 DEF QueueInv, InBehind, Q!Place, Ranges, ThreadInv
<1>8. Foremost' = Foremost
  BY <1>1, <1>4 DEF Foremost
<1>9. OnceInv' /\ Queued' = Queued
  BY <1>1, <1>8 DEF OnceInv, Queued, Cell, Q!Place
<1>10. InFlight' = InFlight
  BY <1>8, <1>9 DEF InFlight
<1>11. PoolInv' /\ CallerInv'
  BY <1>1, <1>3, <1>10 DEF PoolInv, CallerInv
<1> QED
  BY <1>6, <1>7, <1>9, <1>11

(* A step that touches only caller a: its task, its semaphore, its state.  *)
LEMMA MailOwn ==
  ASSUME MailInv, NEW a \in Apps,
         DOMAIN tcb' = Tasks, DOMAIN tcb'[a] = {"dly", "pend", "msg", "rdy"},
         \A t \in Tasks \ {a} : tcb'[t] = tcb[t] /\ wait'[t] = wait[t],
         wait' \in [Tasks -> Tasks \cup {"mbox", None}], wait'[a] \in {None, a},
         sem' \in [Apps -> {0, 1}],
         app' \in [Apps -> {"idle", "post", "sem", "waiting"}],
         \A b \in Apps \ {a} : sem'[b] = sem[b] /\ app'[b] = app[b],
         UNCHANGED <<q, pool, pc, msg>>, open' \subseteq open,
         sem'[a] = 1 => app'[a] = "sem",
         wait'[a] = a => app'[a] = "waiting" /\ tcb'[a].rdy = FALSE /\ tcb'[a].dly = 0,
         a \in InFlight \cup open' => \/ app'[a] = "sem" /\ sem'[a] = 0
                                      \/ app'[a] = "waiting" /\ wait'[a] = a
  PROVE  MailInv'
<1> USE DEF MailInv, TypeInv
<1>1. q' = q /\ pool' = pool /\ pc' = pc /\ msg' = msg
  OBVIOUS
<1>2. tcb'["tcpip"] = tcb["tcpip"] /\ wait'["tcpip"] = wait["tcpip"]
  BY Names
<1>3. KernelInv'
  <2>1. \A t \in Tasks : DOMAIN tcb'[t] = {"dly", "pend", "msg", "rdy"}
    BY DEF KernelInv
  <2>2. \A b \in Apps : wait'[b] \in {None, b}
    BY DEF KernelInv
  <2> QED
    BY <1>2, <2>1, <2>2 DEF KernelInv
<1>4. QueueInv'
  BY <1>1 DEF QueueInv, InBehind, Q!Place
<1>5. Ranges'
  BY <1>1 DEF Ranges
<1>6. Foremost' = Foremost
  BY <1>1, <1>2 DEF Foremost
<1>7. ThreadInv'
  BY <1>1, <1>2 DEF ThreadInv
<1>8. OnceInv' /\ Queued' = Queued
  BY <1>1, <1>6 DEF OnceInv, Queued, Cell, Q!Place
<1>9. InFlight' = InFlight
  BY <1>6, <1>8 DEF InFlight
<1>10. PoolInv'
  BY <1>1, <1>9 DEF PoolInv
<1>11. CallerInv'
  <2> SUFFICES ASSUME NEW b \in Apps
               PROVE  /\ sem'[b] = 1 => app'[b] = "sem"
                      /\ wait'[b] = b => /\ app'[b] = "waiting" /\ tcb'[b].rdy = FALSE
                                         /\ tcb'[b].dly = 0
                      /\ b \in open' => b \notin InFlight'
                      /\ b \in InFlight' \cup open' => \/ app'[b] = "sem" /\ sem'[b] = 0
                                                       \/ app'[b] = "waiting" /\ wait'[b] = b
    BY DEF CallerInv
  <2>1. CASE b = a
    BY <1>9, <2>1 DEF CallerInv
  <2>2. CASE b # a
    <3>1. app'[b] = app[b] /\ sem'[b] = sem[b] /\ wait'[b] = wait[b] /\ tcb'[b] = tcb[b]
      BY <2>2
    <3> QED
      BY <1>9, <3>1 DEF CallerInv
  <2> QED
    BY <2>1, <2>2
<1> QED
  BY <1>3, <1>4, <1>5, <1>7, <1>8, <1>10, <1>11

LEMMA MailCall ==
  ASSUME MailInv, NEW a \in Apps, Call(a)
  PROVE  MailInv'
<1> USE DEF MailInv, TypeInv
<1>1. /\ app[a] = "idle" /\ app' = [app EXCEPT ![a] = "post"]
      /\ tcb' = [tcb EXCEPT ![a].rdy = TRUE]
      /\ wait' = wait /\ sem' = sem /\ UNCHANGED <<q, pool, pc, msg>>
      /\ open' = open
  BY DEF Call, thread, timers
<1>2. sem[a] # 1 /\ wait[a] # a /\ a \notin InFlight \cup open
  BY <1>1 DEF CallerInv
<1>3. DOMAIN tcb' = Tasks /\ \A t \in Tasks \ {a} : tcb'[t] = tcb[t]
  BY <1>1, Zenon DEF KernelInv
<1>4. DOMAIN tcb'[a] = {"dly", "pend", "msg", "rdy"}
  BY <1>1, Zenon, Names DEF KernelInv
<1>5. app' \in [Apps -> {"idle", "post", "sem", "waiting"}]
      /\ \A b \in Apps \ {a} : app'[b] = app[b]
  BY <1>1 DEF Ranges
<1>6. wait' \in [Tasks -> Tasks \cup {"mbox", None}] /\ wait'[a] \in {None, a}
      /\ sem' \in [Apps -> {0, 1}]
  BY <1>1 DEF KernelInv, Ranges
<1> HIDE DEF MailInv, TypeInv
<1>7. \A b \in Apps \ {a} : sem'[b] = sem[b] /\ app'[b] = app[b]
  BY <1>1, <1>5
<1>8. \A t \in Tasks \ {a} : tcb'[t] = tcb[t] /\ wait'[t] = wait[t]
  BY <1>1, <1>3
<1> QED
  BY <1>1, <1>2, <1>3, <1>4, <1>5, <1>6, <1>7, <1>8, MailOwn

LEMMA MailSemPend ==
  ASSUME MailInv, NEW a \in Apps, SemPend(a)
  PROVE  MailInv'
<1> USE DEF MailInv, TypeInv
<1>1. app[a] = "sem" /\ UNCHANGED <<q, pool, pc, msg>> /\ open' = open
  BY DEF SemPend, thread, timers
<1>2. wait[a] # a /\ sem[a] \in {0, 1} /\ wait[a] = None
  BY <1>1 DEF CallerInv, Ranges, KernelInv
<1>3. CASE /\ sem[a] > 0 /\ sem' = [sem EXCEPT ![a] = @ - 1]
           /\ tcb' = [tcb EXCEPT ![a].rdy = FALSE]
           /\ Idle(a) /\ UNCHANGED wait
  <2>1. sem[a] = 1 /\ a \notin InFlight \cup open
    BY <1>2, <1>3 DEF CallerInv
  <2>2. DOMAIN tcb' = Tasks /\ \A t \in Tasks \ {a} : tcb'[t] = tcb[t]
    BY <1>3, Zenon DEF KernelInv
  <2>3. DOMAIN tcb'[a] = {"dly", "pend", "msg", "rdy"}
    BY <1>3, Zenon, Names DEF KernelInv
  <2>4. /\ app' \in [Apps -> {"idle", "post", "sem", "waiting"}] /\ app'[a] = "idle"
        /\ sem' \in [Apps -> {0, 1}] /\ sem'[a] = 0
        /\ \A b \in Apps \ {a} : sem'[b] = sem[b] /\ app'[b] = app[b]
    BY <1>3, <2>1 DEF Ranges, Idle
  <2>5. wait' \in [Tasks -> Tasks \cup {"mbox", None}] /\ wait'[a] = None
        /\ \A t \in Tasks \ {a} : tcb'[t] = tcb[t] /\ wait'[t] = wait[t]
    BY <1>2, <1>3, <2>2 DEF KernelInv
  <2>6. /\ sem'[a] = 1 => app'[a] = "sem"
        /\ wait'[a] = a => app'[a] = "waiting" /\ tcb'[a].rdy = FALSE /\ tcb'[a].dly = 0
        /\ a \in InFlight \cup open' => \/ app'[a] = "sem" /\ sem'[a] = 0
                                        \/ app'[a] = "waiting" /\ wait'[a] = a
        /\ wait'[a] \in {None, a}
    <3> HIDE DEF MailInv, TypeInv
    <3> QED
      BY <1>1, <2>1, <2>4, <2>5, Names
  <2> HIDE DEF MailInv, TypeInv
  <2> QED
    BY <1>1, <2>2, <2>3, <2>4, <2>5, <2>6, MailOwn
<1>4. CASE sem[a] = 0 /\ K!OS_EventTaskWait(a, a, 0)
           /\ app' = [app EXCEPT ![a] = "waiting"] /\ UNCHANGED sem
  <2>1. /\ tcb' = [tcb EXCEPT ![a] = [dly |-> 0, pend |-> "ok", msg |-> None,
                                      rdy |-> FALSE]]
        /\ wait' = [wait EXCEPT ![a] = a]
    BY <1>4 DEF K!OS_EventTaskWait
  <2>2. /\ DOMAIN tcb' = Tasks /\ wait' \in [Tasks -> Tasks \cup {"mbox", None}]
        /\ \A t \in Tasks \ {a} : tcb'[t] = tcb[t] /\ wait'[t] = wait[t]
        /\ wait'[a] = a
        /\ tcb'[a] = [dly |-> 0, pend |-> "ok", msg |-> None, rdy |-> FALSE]
    BY <2>1, Names DEF KernelInv
  <2>3. DOMAIN tcb'[a] = {"dly", "pend", "msg", "rdy"}
        /\ tcb'[a].rdy = FALSE /\ tcb'[a].dly = 0
    BY <2>2
  <2>4. /\ app' \in [Apps -> {"idle", "post", "sem", "waiting"}] /\ app'[a] = "waiting"
        /\ sem' \in [Apps -> {0, 1}] /\ sem'[a] = 0
        /\ \A b \in Apps \ {a} : sem'[b] = sem[b] /\ app'[b] = app[b]
    BY <1>4 DEF Ranges
  <2>5. /\ sem'[a] = 1 => app'[a] = "sem"
        /\ wait'[a] = a => app'[a] = "waiting" /\ tcb'[a].rdy = FALSE /\ tcb'[a].dly = 0
        /\ a \in InFlight \cup open' => \/ app'[a] = "sem" /\ sem'[a] = 0
                                        \/ app'[a] = "waiting" /\ wait'[a] = a
        /\ wait'[a] \in {None, a}
    <3> HIDE DEF MailInv, TypeInv
    <3> QED
      BY <2>2, <2>3, <2>4
  <2> HIDE DEF MailInv, TypeInv
  <2> QED
    BY <1>1, <2>2, <2>3, <2>4, <2>5, MailOwn
<1> QED
  BY <1>3, <1>4 DEF SemPend

LEMMA MailAnswered ==
  ASSUME MailInv, NEW a \in Apps, Answered(a)
  PROVE  MailInv'
<1> USE DEF MailInv, TypeInv
<1>1. /\ app[a] = "waiting" /\ tcb[a].rdy
      /\ tcb' = [tcb EXCEPT ![a] = [K!TcbInit EXCEPT !.rdy = FALSE]]
      /\ Idle(a) /\ wait' = wait /\ sem' = sem /\ UNCHANGED <<q, pool, pc, msg>>
      /\ open' = open
  BY DEF Answered, Runs, K!Runs, thread, timers
<1>2. tcb[a].rdy # FALSE
  BY <1>1
<1>3. wait[a] = None /\ sem[a] # 1 /\ a \notin InFlight \cup open
  BY <1>1, <1>2 DEF CallerInv, KernelInv
<1>4. DOMAIN tcb' = Tasks /\ \A t \in Tasks \ {a} : tcb'[t] = tcb[t]
  BY <1>1, Zenon DEF KernelInv
<1>5. DOMAIN tcb'[a] = {"dly", "pend", "msg", "rdy"}
  <2>1. DOMAIN K!TcbInit = {"dly", "pend", "msg", "rdy"}
    BY DEF K!TcbInit
  <2>2. DOMAIN [K!TcbInit EXCEPT !.rdy = FALSE] = DOMAIN K!TcbInit
    BY Zenon
  <2>3. tcb'[a] = [K!TcbInit EXCEPT !.rdy = FALSE]
    BY <1>1, Zenon, Names DEF KernelInv
  <2> QED
    BY <2>1, <2>2, <2>3
<1>6. /\ app' \in [Apps -> {"idle", "post", "sem", "waiting"}] /\ app'[a] = "idle"
      /\ \A b \in Apps \ {a} : app'[b] = app[b]
  <2>1. app' = [app EXCEPT ![a] = "idle"]
    BY <1>1 DEF Idle
  <2> QED
    BY <2>1 DEF Ranges
<1>7. wait' \in [Tasks -> Tasks \cup {"mbox", None}] /\ wait'[a] = None
      /\ sem' \in [Apps -> {0, 1}] /\ sem'[a] # 1
  <2>1. wait' = wait /\ sem' = sem
    BY <1>1
  <2> QED
    BY <1>3, <2>1 DEF KernelInv, Ranges
<1>8. \A t \in Tasks \ {a} : tcb'[t] = tcb[t] /\ wait'[t] = wait[t]
  BY <1>1, <1>4
<1>9. \A b \in Apps \ {a} : sem'[b] = sem[b] /\ app'[b] = app[b]
  BY <1>1, <1>6
<1>10. UNCHANGED <<q, pool, pc, msg>> /\ open' = open
  BY <1>1
<1> HIDE DEF MailInv, TypeInv
<1>11. /\ sem'[a] = 1 => app'[a] = "sem"
       /\ wait'[a] = a => app'[a] = "waiting" /\ tcb'[a].rdy = FALSE /\ tcb'[a].dly = 0
       /\ a \in InFlight \cup open' => \/ app'[a] = "sem" /\ sem'[a] = 0
                                       \/ app'[a] = "waiting" /\ wait'[a] = a
       /\ wait'[a] \in {None, a}
  BY <1>3, <1>6, <1>7, <1>10, Names
<1> QED
  BY <1>4, <1>5, <1>6, <1>7, <1>8, <1>9, <1>10, <1>11, MailOwn

(* What the thread handles is no longer in flight.                         *)
LEMMA HandleFlight ==
  ASSUME MailInv, pc = "handle", pc' = "fetch", q' = q
  PROVE  OnceInv' /\ InFlight' = InFlight \ {msg} /\ msg \in InFlight /\ msg \in Msgs
<1> USE DEF MailInv, TypeInv
<1>1. msg \in Msgs
  BY DEF ThreadInv
<1>2. Foremost = msg /\ Foremost' = None
  BY DEF Foremost
<1>3. \A i \in 1 .. q.n : Cell(q, i) \in Msgs /\ Cell(q, i) # msg
  BY <1>2 DEF OnceInv
<1>4. OnceInv'
  BY <1>2, <1>3, Names DEF OnceInv, Cell, Q!Place
<1>5. Queued' = Queued /\ msg \notin Queued
  BY <1>3 DEF Queued, Cell, Q!Place
<1> QED
  BY <1>1, <1>2, <1>4, <1>5, Names DEF InFlight

(* OSSemPost to a caller that has not been answered.                       *)
LEMMA SemPosted ==
  ASSUME MailInv, NEW a \in Apps, a \in InFlight \cup open, OSSemPost(a)
  PROVE  /\ DOMAIN tcb' = Tasks /\ DOMAIN tcb'[a] = {"dly", "pend", "msg", "rdy"}
         /\ \A t \in Tasks \ {a} : tcb'[t] = tcb[t] /\ wait'[t] = wait[t]
         /\ wait' \in [Tasks -> Tasks \cup {"mbox", None}] /\ wait'[a] = None
         /\ sem' \in [Apps -> {0, 1}] /\ \A b \in Apps \ {a} : sem'[b] = sem[b]
         /\ sem'[a] = 1 => app[a] = "sem"
<1> USE DEF MailInv, TypeInv
<1>1. CASE wait[a] = a
  <2>1. K!Waiting(a) = {a}
    BY <1>1, WaitingApp
  <2>2. K!OS_EventTaskRdy(a, None) /\ sem' = sem
    BY <2>1 DEF OSSemPost
  <2>3. a \in Tasks
    BY Names
  <2>4. /\ tcb' = [tcb EXCEPT ![a] = [dly |-> 0, pend |-> "ok", msg |-> None,
                                      rdy |-> TRUE]]
        /\ wait' = [wait EXCEPT ![a] = None]
    BY <2>1, <2>2, <2>3, Readied
  <2>5. tcb'[a] = [dly |-> 0, pend |-> "ok", msg |-> None, rdy |-> TRUE]
    BY <2>3, <2>4 DEF KernelInv
  <2>6. DOMAIN tcb'[a] = {"dly", "pend", "msg", "rdy"}
    BY <2>5
  <2>7. DOMAIN tcb' = Tasks /\ wait' \in [Tasks -> Tasks \cup {"mbox", None}]
        /\ wait'[a] = None
    BY <2>3, <2>4 DEF KernelInv
  <2>8. \A t \in Tasks \ {a} : tcb'[t] = tcb[t] /\ wait'[t] = wait[t]
    BY <2>4 DEF KernelInv
  <2>9. sem' \in [Apps -> {0, 1}] /\ \A b \in Apps \ {a} : sem'[b] = sem[b]
    BY <2>2 DEF Ranges
  <2>10. sem'[a] = 1 => app[a] = "sem"
    BY <2>2 DEF CallerInv
  <2> QED
    BY <2>6, <2>7, <2>8, <2>9, <2>10
<1>2. CASE wait[a] # a
  <2>1. K!Waiting(a) = {}
    BY <1>2, WaitingApp
  <2>2. sem' = [sem EXCEPT ![a] = @ + 1] /\ tcb' = tcb /\ wait' = wait
    BY <2>1 DEF OSSemPost, kernel
  <2>3. app[a] = "sem" /\ sem[a] = 0
    BY <1>2 DEF CallerInv
  <2>4. wait[a] = None /\ a \in Tasks
    BY <1>2, Names DEF KernelInv
  <2>5. sem' \in [Apps -> {0, 1}] /\ \A b \in Apps \ {a} : sem'[b] = sem[b]
    BY <2>2, <2>3 DEF Ranges
  <2> QED
    BY <2>2, <2>3, <2>4, <2>5 DEF KernelInv
<1> QED
  BY <1>1, <1>2

LEMMA MailHandle ==
  ASSUME MailInv, Handle
  PROVE  MailInv'
<1> USE DEF MailInv, TypeInv
<1>1. pc = "handle" /\ pc' = "fetch" /\ q' = q /\ msg' = None /\ app' = app
  BY DEF Handle
<1>2. OnceInv' /\ InFlight' = InFlight \ {msg} /\ msg \in InFlight /\ msg \in Msgs
  BY <1>1, HandleFlight
<1>3. QueueInv'
  BY <1>1 DEF QueueInv, InBehind, Q!Place
<1>4. wait["tcpip"] = None
  BY <1>1 DEF ThreadInv
<1>5. CASE msg \in Inpkt /\ pool' = pool \cup {msg} /\ UNCHANGED <<kernel, sem, open>>
  <2>1. tcb' = tcb /\ wait' = wait /\ sem' = sem /\ pool' = pool \cup {msg}
        /\ open' = open
    BY <1>5 DEF kernel
  <2>2. KernelInv' /\ Ranges' /\ ThreadInv'
    BY <1>1, <1>4, <1>5, <2>1 DEF KernelInv, Ranges, ThreadInv
  <2>3. PoolInv'
    BY <1>2, <2>1 DEF PoolInv
  <2>4. CallerInv'
    BY <1>1, <1>2, <2>1 DEF CallerInv
  <2> QED
    BY <1>2, <1>3, <2>2, <2>3, <2>4
<1>6. CASE msg \in Apps /\ OSSemPost(msg) /\ UNCHANGED <<pool, open>>
  <2> DEFINE a == msg
  <2>1. /\ DOMAIN tcb' = Tasks /\ DOMAIN tcb'[a] = {"dly", "pend", "msg", "rdy"}
        /\ \A t \in Tasks \ {a} : tcb'[t] = tcb[t] /\ wait'[t] = wait[t]
        /\ wait' \in [Tasks -> Tasks \cup {"mbox", None}] /\ wait'[a] = None
        /\ sem' \in [Apps -> {0, 1}] /\ \A b \in Apps \ {a} : sem'[b] = sem[b]
        /\ sem'[a] = 1 => app[a] = "sem"
    BY <1>2, <1>6, SemPosted
  <2>2. a # "tcpip"
    BY <1>6, Names
  <2> HIDE DEF a
  <2>3. KernelInv'
    <3>1. \A t \in Tasks : DOMAIN tcb'[t] = {"dly", "pend", "msg", "rdy"}
      BY <2>1 DEF KernelInv
    <3>2. \A b \in Apps : wait'[b] \in {None, b}
      BY <2>1 DEF KernelInv
    <3>3. wait'["tcpip"] = None
      BY <1>4, <2>1, <2>2, Names
    <3> QED
      BY <2>1, <3>1, <3>2, <3>3 DEF KernelInv
  <2>4. Ranges' /\ ThreadInv'
    <3>1. wait'["tcpip"] = None
      BY <1>4, <2>1, <2>2, Names
    <3> QED
      BY <1>1, <1>6, <2>1, <3>1 DEF Ranges, ThreadInv
  <2>5. PoolInv'
    BY <1>2, <1>6, Names DEF PoolInv
  <2>6. CallerInv'
    <3> SUFFICES ASSUME NEW b \in Apps
                 PROVE  /\ sem'[b] = 1 => app'[b] = "sem"
                        /\ wait'[b] = b => /\ app'[b] = "waiting" /\ tcb'[b].rdy = FALSE
                                           /\ tcb'[b].dly = 0
                        /\ b \in open' => b \notin InFlight'
                        /\ b \in InFlight' \cup open' => \/ app'[b] = "sem" /\ sem'[b] = 0
                                                         \/ app'[b] = "waiting" /\ wait'[b] = b
      BY DEF CallerInv
    <3>1. CASE b = a
      <4>1. b \notin InFlight' \cup open' /\ wait'[b] = None /\ b # None
        BY <1>2, <1>6, <2>1, <3>1, Names DEF a, CallerInv
      <4> QED
        BY <1>1, <2>1, <3>1, <4>1
    <3>2. CASE b # a
      <4>1. app'[b] = app[b] /\ sem'[b] = sem[b] /\ wait'[b] = wait[b] /\ tcb'[b] = tcb[b]
        BY <1>1, <2>1, <3>2
      <4>2. (b \in InFlight' => b \in InFlight) /\ open' = open
        BY <1>2, <1>6
      <4> QED
        BY <4>1, <4>2 DEF CallerInv
    <3> QED
      BY <3>1, <3>2
  <2> QED
    BY <1>2, <1>3, <2>3, <2>4, <2>5, <2>6
<1>7. CASE msg \in Apps /\ open' = open \cup {msg} /\ UNCHANGED <<kernel, sem, pool>>
  <2>1. tcb' = tcb /\ wait' = wait /\ sem' = sem /\ pool' = pool
    BY <1>7 DEF kernel
  <2>2. KernelInv' /\ Ranges' /\ ThreadInv'
    BY <1>1, <1>4, <2>1 DEF KernelInv, Ranges, ThreadInv
  <2>3. PoolInv'
    BY <1>2, <1>7, <2>1, Names DEF PoolInv
  <2>4. \A b : b \in InFlight' \cup open' => b \in InFlight \cup open
    BY <1>2, <1>7
  <2>5. \A b \in Apps : b \in open' => b \notin InFlight'
    BY <1>2, <1>7 DEF CallerInv
  <2>6. CallerInv'
    BY <1>1, <2>1, <2>4, <2>5 DEF CallerInv
  <2> QED
    BY <1>2, <1>3, <2>2, <2>3, <2>6
<1> QED
  BY <1>5, <1>6, <1>7 DEF Handle

(* A TCP callback ends a call.                                             *)
LEMMA MailComplete ==
  ASSUME MailInv, NEW a \in Apps, Complete(a)
  PROVE  MailInv'
<1>1. /\ a \in open /\ open' = open \ {a} /\ OSSemPost(a) /\ app' = app
      /\ UNCHANGED <<q, pool, pc, msg>>
  BY DEF Complete, thread
<1>2. /\ DOMAIN tcb' = Tasks /\ DOMAIN tcb'[a] = {"dly", "pend", "msg", "rdy"}
      /\ \A t \in Tasks \ {a} : tcb'[t] = tcb[t] /\ wait'[t] = wait[t]
      /\ wait' \in [Tasks -> Tasks \cup {"mbox", None}] /\ wait'[a] = None
      /\ sem' \in [Apps -> {0, 1}] /\ \A b \in Apps \ {a} : sem'[b] = sem[b]
      /\ sem'[a] = 1 => app[a] = "sem"
  BY <1>1, SemPosted
<1>3. a \notin InFlight \cup open' /\ a # None /\ open' \subseteq open
  BY <1>1, Names DEF MailInv, CallerInv
<1>4. app' \in [Apps -> {"idle", "post", "sem", "waiting"}]
  BY <1>1 DEF MailInv, TypeInv, Ranges
<1> QED
  BY <1>1, <1>2, <1>3, <1>4, MailOwn


-----------------------------------------------------------------------------
LEMMA MailInit == Init => MailInv
<1> SUFFICES ASSUME Init
             PROVE  MailInv
  OBVIOUS
<1>1. /\ tcb = [t \in Tasks |-> [K!TcbInit EXCEPT !.rdy = t = "tcpip"]]
      /\ wait = [t \in Tasks |-> None]
      /\ q = Q!OSQCreate /\ sem = [a \in Apps |-> 0]
      /\ pool = Inpkt /\ pc = "fetch" /\ msg = None
      /\ app = [a \in Apps |-> "idle"] /\ open = {}
  BY DEF Init
<1>2. \A t \in Tasks : DOMAIN tcb[t] = {"dly", "pend", "msg", "rdy"}
  <2> TAKE t \in Tasks
  <2>1. tcb[t] = [K!TcbInit EXCEPT !.rdy = t = "tcpip"]
    BY <1>1, Zenon
  <2>2. DOMAIN tcb[t] = DOMAIN K!TcbInit
    BY <2>1, Zenon
  <2>3. DOMAIN K!TcbInit = {"dly", "pend", "msg", "rdy"}
    BY DEF K!TcbInit
  <2> QED
    BY <2>2, <2>3
<1>3. DOMAIN tcb = Tasks
  BY <1>1, Zenon
<1>4. KernelInv
  BY <1>1, <1>2, <1>3, Names DEF KernelInv
<1>5. QueueInv /\ q.n = 0
  BY <1>1, CreateIs DEF QueueInv, InBehind, Q!Place
<1>6. Ranges
  BY <1>1 DEF Ranges
<1>7. ThreadInv
  BY <1>1, <1>4, Names DEF ThreadInv, KernelInv
<1>8. OnceInv
  BY <1>5 DEF OnceInv
<1>9. Foremost = None /\ Queued = {}
  BY <1>1, <1>5 DEF Foremost, Queued
<1>10. InFlight = {}
  BY <1>9 DEF InFlight
<1>11. PoolInv
  BY <1>1, <1>10 DEF PoolInv
<1>12. CallerInv
  BY <1>1, <1>10, Names DEF CallerInv
<1> QED
  BY <1>4, <1>5, <1>6, <1>7, <1>8, <1>11, <1>12 DEF MailInv, TypeInv

LEMMA MailNext == MailInv /\ [Next]_vars => MailInv'
<1> SUFFICES ASSUME MailInv, [Next]_vars
             PROVE  MailInv'
  OBVIOUS
<1>1. CASE Arrive \/ Enter \/ Leave
  <2>1. UNCHANGED <<kernel, q, sem, pool, app, open, pc, msg>>
    BY <1>1 DEF Arrive, Enter, Leave, thread, timers
  <2> QED
    BY <2>1, MailQuiet
<1>2. CASE Packet
  <2>1. UNCHANGED <<sem, app, open, pc, msg>>
    BY <1>2 DEF Packet, thread, timers
  <2>2. CASE TcpipInput
    BY <2>1, <2>2, MailPacket
  <2>3. CASE UNCHANGED <<kernel, q, pool>>
    BY <2>1, <2>3, MailQuiet
  <2> QED
    BY <1>2, <2>2, <2>3 DEF Packet
<1>3. CASE Tick
  BY <1>3, MailTick
<1>4. CASE Fetch \/ Got \/ Fire
  BY <1>4, MailThread
<1>5. CASE Pend
  BY <1>5, MailPend
<1>6. CASE Pended
  BY <1>6, MailPended
<1>7. CASE Handle
  BY <1>7, MailHandle
<1>8. ASSUME NEW a \in Apps, Post(a)
      PROVE  MailInv'
  BY <1>8, MailPost
<1>9. ASSUME NEW a \in Apps, SemPend(a)
      PROVE  MailInv'
  BY <1>9, MailSemPend
<1>10. ASSUME NEW a \in Apps, Answered(a)
       PROVE  MailInv'
  BY <1>10, MailAnswered
<1>11. ASSUME NEW a \in Apps, Call(a)
       PROVE  MailInv'
  BY <1>11, MailCall
<1>12. CASE UNCHANGED vars
  <2>1. UNCHANGED <<kernel, q, sem, pool, app, open, pc, msg>>
    BY <1>12 DEF vars, thread, timers
  <2> QED
    BY <2>1, MailQuiet
<1>13. ASSUME NEW a \in Apps, Complete(a)
       PROVE  MailInv'
  BY <1>13, MailComplete
<1> QED
  BY <1>1, <1>2, <1>3, <1>4, <1>5, <1>6, <1>7, <1>8, <1>9, <1>10, <1>11, <1>12, <1>13
     DEF Next, Interrupt, Thread, App, Task

LEMMA MailAlways == Spec => []MailInv
BY MailInit, MailNext, PTL DEF Spec

-----------------------------------------------------------------------------
(* The mailbox has room.                                                   *)

LEMMA MsgsFinite == IsFiniteSet(Msgs) /\ Cardinality(Msgs) = NINPKT + Cardinality(Apps)
<1>1. IsFiniteSet(Inpkt) /\ Cardinality(Inpkt) = NINPKT
  <2>1. 1 \in Int /\ NINPKT \in Int /\ ~(1 > NINPKT)
    BY NetworkAssumption
  <2> QED
    BY <2>1, FS_Interval DEF Inpkt
<1>2. IsFiniteSet(Apps) /\ Inpkt \cap Apps = {}
  BY NetworkAssumption
<1>3. Cardinality(Inpkt \cap Apps) = 0
  BY <1>2, FS_EmptySet
<1>4. Cardinality(Apps) \in Nat /\ NINPKT \in Nat
  BY <1>2, FS_CardinalityType, NetworkAssumption
<1> QED
  BY <1>1, <1>2, <1>3, <1>4, FS_Union

(* A full mailbox holds every message there is.                            *)
LEMMA FullHasAll ==
  ASSUME MailInv, Refused
  PROVE  Msgs \subseteq Queued
<1>1. q.n \in 0 .. OSQSize /\ q.n >= OSQSize
  BY DEF MailInv, TypeInv, QueueInv, QueueType, Refused, Q!Full
<1>2. Cardinality(Msgs) \in Nat /\ Cardinality(Msgs) <= OSQSize
  BY MsgsFinite, FS_CardinalityType, NetworkAssumption
<1> DEFINE f == [i \in 1 .. q.n |-> Cell(q, i)]
<1>3. f \in Injection(1 .. q.n, Msgs)
  <2>1. f \in [1 .. q.n -> Msgs]
    BY DEF MailInv, OnceInv
  <2>2. \A i, j \in 1 .. q.n : f[i] = f[j] => i = j
    BY DEF MailInv, OnceInv
  <2> QED
    BY <2>1, <2>2 DEF Injection, IsInjective
<1>4. IsFiniteSet(1 .. q.n) /\ Cardinality(1 .. q.n) = q.n
  <2>1. 1 \in Int /\ q.n \in Int /\ 1 > q.n => q.n = 0
    BY <1>1, SizePositive
  <2> QED
    BY <1>1, <2>1, FS_Interval
<1> HIDE DEF f
<1>5. /\ Cardinality(1 .. q.n) <= Cardinality(Msgs)
      /\ Cardinality(1 .. q.n) = Cardinality(Msgs) <=> f \in Surjection(1 .. q.n, Msgs)
  BY <1>3, MsgsFinite, FS_Injection
<1>6. f \in Surjection(1 .. q.n, Msgs)
  BY <1>1, <1>2, <1>4, <1>5, SizePositive
<1>7. \A m \in Msgs : \E i \in 1 .. q.n : f[i] = m
  BY <1>6 DEF Surjection
<1> QED
  BY <1>7 DEF f, Queued

(* sys_mbox_post never finds the mailbox full, and neither does a packet   *)
(* that got an element of the pool, for any number of callers and packets  *)
(* that the mailbox was made for.                                          *)
THEOREM PostsAtOnce == Spec => []PostAtOnce
<1>1. MailInv => PostAtOnce
  <2> SUFFICES ASSUME MailInv, Refused
               PROVE  pool = {} /\ \A a \in Apps : app[a] # "post"
    BY DEF PostAtOnce
  <2>1. Msgs \subseteq InFlight
    BY FullHasAll DEF InFlight
  <2> QED
    BY <2>1, Names DEF MailInv, TypeInv, Ranges, PoolInv, CallerInv
<1> QED
  BY <1>1, MailAlways, PTL

-----------------------------------------------------------------------------
(* The mailbox as a sequence.                                              *)

(* A message that was handed over comes before the queued ones.            *)
HandedOver == pc = "pending" /\ tcb["tcpip"].msg # None

LEMMA ContentsAre ==
  ASSUME MailInv
  PROVE  /\ Q!Contents(q) \in Seq(Msgs) /\ Len(Q!Contents(q)) = q.n
         /\ \A i \in 1 .. q.n : Q!Contents(q)[i] = Cell(q, i)
<1>1. q.n \in Nat
  BY DEF MailInv, TypeInv, QueueInv, QueueType
<1>2. \A i \in 1 .. q.n : Cell(q, i) \in Msgs
  BY DEF MailInv, OnceInv
<1>3. Q!Contents(q) = [i \in 1 .. q.n |-> Cell(q, i)]
  BY DEF Q!Contents, Cell
<1>4. Q!Contents(q) \in [1 .. q.n -> Msgs]
  BY <1>2, <1>3
<1> QED
  BY <1>1, <1>3, <1>4

PostedShape ==
  /\ HandedOver => /\ Posted \in Seq(Msgs) /\ Len(Posted) = q.n + 1
                   /\ Posted[1] = tcb["tcpip"].msg
                   /\ \A i \in 1 .. q.n : Posted[i + 1] = Cell(q, i)
  /\ ~HandedOver => /\ Posted \in Seq(Msgs) /\ Len(Posted) = q.n
                    /\ \A i \in 1 .. q.n : Posted[i] = Cell(q, i)

LEMMA PostedIs == MailInv => PostedShape
<1> SUFFICES ASSUME MailInv
             PROVE  PostedShape
  OBVIOUS
<1> DEFINE c == Q!Contents(q)
<1>1. c \in Seq(Msgs) /\ Len(c) = q.n /\ \A i \in 1 .. q.n : c[i] = Cell(q, i)
  BY ContentsAre
<1>2. q.n \in Nat
  BY DEF MailInv, TypeInv, QueueInv, QueueType
<1>3. Posted = Handed \o c
  BY DEF Posted
<1> HIDE DEF c
<1>4. CASE HandedOver
  <2>1. tcb["tcpip"].msg \in Msgs
    BY <1>4 DEF HandedOver, MailInv, ThreadInv
  <2>2. Handed = <<tcb["tcpip"].msg>>
    BY <1>4 DEF Handed, HandedOver
  <2>3. Posted \in Seq(Msgs) /\ Len(Posted) = q.n + 1
    BY <1>1, <1>2, <1>3, <2>1, <2>2
  <2>4. Posted[1] = tcb["tcpip"].msg
    BY <1>1, <1>2, <1>3, <2>1, <2>2
  <2>5. \A i \in 1 .. q.n : Posted[i + 1] = c[i]
    BY <1>1, <1>2, <1>3, <2>1, <2>2
  <2> QED
    BY <1>1, <1>4, <2>3, <2>4, <2>5 DEF PostedShape
<1>5. CASE ~HandedOver
  <2>1. Handed = << >>
    BY <1>5 DEF Handed, HandedOver
  <2>2. Posted = c
    BY <1>1, <1>3, <2>1
  <2> QED
    BY <1>1, <1>5, <2>2 DEF PostedShape
<1> QED
  BY <1>4, <1>5 DEF PostedShape

LEMMA PostedIsNext == MailInv' => PostedShape'
BY PostedIs, PTL

LEMMA IsAppended ==
  ASSUME NEW S, NEW s \in Seq(S), NEW t \in Seq(S), NEW m \in S,
         Len(t) = Len(s) + 1, \A i \in 1 .. Len(s) : t[i] = s[i],
         t[Len(s) + 1] = m
  PROVE  t = Append(s, m)
OBVIOUS

(* A post appends its message.                                             *)
LEMMA PostAppends ==
  ASSUME MailInv, MailInv', NEW m \in Msgs, OSQPost(m), pc' = pc
  PROVE  Posted' = Append(Posted, m)
<1> USE DEF MailInv, TypeInv
<1>1. q.n \in Nat
  BY DEF QueueInv, QueueType
<1>2. CASE /\ wait["tcpip"] = "mbox" /\ pc = "pending" /\ q.n = 0
           /\ tcb["tcpip"].msg = None
           /\ tcb' = [tcb EXCEPT !["tcpip"] = [dly |-> 0, pend |-> "ok", msg |-> m,
                                               rdy |-> TRUE]]
           /\ wait' = [wait EXCEPT !["tcpip"] = None]
           /\ q' = q
  <2>1. tcb'["tcpip"] = [dly |-> 0, pend |-> "ok", msg |-> m, rdy |-> TRUE]
    BY <1>2, Names DEF KernelInv
  <2>2. tcb'["tcpip"].msg = m /\ m # None
    BY <2>1, Names
  <2>3. ~HandedOver /\ HandedOver'
    BY <1>2, <2>2 DEF HandedOver
  <2> HIDE DEF MailInv, TypeInv
  <2>4. Posted \in Seq(Msgs) /\ Len(Posted) = 0
    BY <1>2, <2>3, PostedIs DEF PostedShape
  <2>5. Posted' \in Seq(Msgs) /\ Len(Posted') = 1 /\ Posted'[1] = m
    <3>1. Posted' \in Seq(Msgs) /\ Len(Posted') = q'.n + 1
          /\ Posted'[1] = tcb'["tcpip"].msg
      BY <2>3, PostedIsNext DEF PostedShape
    <3> QED
      BY <1>2, <2>2, <3>1
  <2> QED
    BY <2>4, <2>5
<1>3. CASE /\ wait["tcpip"] = None /\ q.n < OSQSize
           /\ q' = Q!Put(q, m) /\ tcb' = tcb /\ wait' = wait
  <2>1. /\ q'.n = q.n + 1
        /\ \A i \in 1 .. q.n : Cell(q', i) = Cell(q, i)
        /\ Cell(q', q.n + 1) = m
    BY <1>3, PutQueue DEF QueueInv, Cell
  <2>2. HandedOver' <=> HandedOver
    BY <1>3 DEF HandedOver
  <2> HIDE DEF MailInv, TypeInv
  <2>3. CASE HandedOver
    <3>1. /\ Posted \in Seq(Msgs) /\ Len(Posted) = q.n + 1
          /\ Posted[1] = tcb["tcpip"].msg
          /\ \A i \in 1 .. q.n : Posted[i + 1] = Cell(q, i)
      BY <2>3, PostedIs DEF PostedShape
    <3>2. /\ Posted' \in Seq(Msgs) /\ Len(Posted') = q'.n + 1
          /\ Posted'[1] = tcb'["tcpip"].msg
          /\ \A i \in 1 .. q'.n : Posted'[i + 1] = Cell(q', i)
      BY <2>2, <2>3, PostedIsNext DEF PostedShape
    <3>3. \A i \in 2 .. q.n + 1 : Posted'[i] = Posted[i]
      <4> TAKE i \in 2 .. q.n + 1
      <4>1. i - 1 \in 1 .. q.n /\ i - 1 \in 1 .. q'.n /\ (i - 1) + 1 = i
        BY <1>1, <2>1
      <4> QED
        BY <2>1, <3>1, <3>2, <4>1
    <3>4. Posted'[q.n + 2] = m
      <4>1. q.n + 1 \in 1 .. q'.n /\ (q.n + 1) + 1 = q.n + 2
        BY <1>1, <2>1
      <4> QED
        BY <2>1, <3>2, <4>1
    <3>5. Posted'[1] = Posted[1]
      BY <1>3, <3>1, <3>2
    <3>6. Len(Posted') = Len(Posted) + 1 /\ Len(Posted) = q.n + 1
      BY <1>1, <2>1, <3>1, <3>2
    <3>7. \A i \in 1 .. Len(Posted) : Posted'[i] = Posted[i]
      <4>1. \A i \in 1 .. Len(Posted) : i = 1 \/ i \in 2 .. q.n + 1
        BY <1>1, <3>6
      <4> QED
        BY <3>3, <3>5, <4>1
    <3>8. Posted'[Len(Posted) + 1] = m
      BY <1>1, <3>4, <3>6
    <3>9. Posted \in Seq(Msgs) /\ Posted' \in Seq(Msgs)
      BY <3>1, <3>2
    <3>10. PICK s \in Seq(Msgs), t \in Seq(Msgs) : s = Posted /\ t = Posted'
      BY <3>9, Zenon
    <3>11. Len(t) = Len(s) + 1 /\ t[Len(s) + 1] = m
      BY <3>6, <3>8, <3>10
    <3>12. \A i \in 1 .. Len(s) : t[i] = s[i]
      BY <3>7, <3>10
    <3>13. t = Append(s, m)
      BY <3>11, <3>12, IsAppended
    <3> QED
      BY <3>10, <3>13
  <2>4. CASE ~HandedOver
    <3>1. /\ Posted \in Seq(Msgs) /\ Len(Posted) = q.n
          /\ \A i \in 1 .. q.n : Posted[i] = Cell(q, i)
      BY <2>4, PostedIs DEF PostedShape
    <3>2. /\ Posted' \in Seq(Msgs) /\ Len(Posted') = q'.n
          /\ \A i \in 1 .. q'.n : Posted'[i] = Cell(q', i)
      BY <2>2, <2>4, PostedIsNext DEF PostedShape
    <3>3. \A i \in 1 .. q.n : Posted'[i] = Posted[i]
      BY <1>1, <2>1, <3>1, <3>2
    <3>4. Posted'[q.n + 1] = m
      <4>1. q.n + 1 \in 1 .. q'.n
        BY <1>1, <2>1
      <4> QED
        BY <2>1, <3>2, <4>1
    <3> QED
      BY <1>1, <2>1, <3>1, <3>2, <3>3, <3>4
  <2> QED
    BY <2>3, <2>4
<1> QED
  BY <1>2, <1>3, PostCases

(* A post is the abstract queue's Accept.                                  *)
LEMMA PostAccepts ==
  ASSUME MailInv, MailInv', NEW m \in Msgs, OSQPost(m), pc' = pc, msg' = msg
  PROVE  Mail!Accept
<1>1. Posted' = Append(Posted, m)
  BY PostAppends
<1>2. Len(Posted) < OSQSize + 1
  <2>1. q.n \in 0 .. OSQSize
    BY DEF MailInv, TypeInv, QueueInv, QueueType
  <2>2. HandedOver => q.n < OSQSize
    BY PostCases DEF HandedOver
  <2>3. Len(Posted) = IF HandedOver THEN q.n + 1 ELSE q.n
    BY PostedIs DEF PostedShape
  <2> QED
    BY <2>1, <2>2, <2>3, SizePositive
<1> QED
  BY <1>1, <1>2 DEF Mail!Accept

(* What neither posts nor fetches leaves the sequence as it is.            *)
LEMMA PostedSame ==
  ASSUME MailInv, q' = q, msg' = msg, HandedOver' <=> HandedOver,
         HandedOver => tcb'["tcpip"].msg = tcb["tcpip"].msg
  PROVE  UNCHANGED Mail!qvars
<1>1. Q!Contents(q)' = Q!Contents(q)
  BY DEF Q!Contents, Q!Place
<1>2. Handed' = Handed
  BY DEF Handed, HandedOver
<1> QED
  BY <1>1, <1>2 DEF Mail!qvars, Posted

(* OSQPend with a message in the queue is Take.                            *)
LEMMA PendTakes ==
  ASSUME MailInv, MailInv', Pend, q.n > 0
  PROVE  Mail!Take
<1>1. msg' = Q!First(q) /\ q' = Q!Rest(q) /\ pc' = "got" /\ pc = "pend"
  BY DEF Pend
<1>2. q.n \in Nat /\ 1 \in 1 .. q.n
  BY DEF MailInv, TypeInv, QueueInv, QueueType
<1>3. ~HandedOver /\ ~HandedOver'
  BY <1>1 DEF HandedOver
<1>4. /\ q'.n = q.n - 1 /\ msg' = Cell(q, 1)
      /\ \A i \in 1 .. q.n - 1 : Cell(q', i) = Cell(q, i + 1)
  BY <1>1, RestQueue DEF MailInv, TypeInv, QueueInv, Cell
<1>5. /\ Posted \in Seq(Msgs) /\ Len(Posted) = q.n
      /\ \A i \in 1 .. q.n : Posted[i] = Cell(q, i)
  BY <1>3, PostedIs DEF PostedShape
<1>6. /\ Posted' \in Seq(Msgs) /\ Len(Posted') = q'.n
      /\ \A i \in 1 .. q'.n : Posted'[i] = Cell(q', i)
  BY <1>3, PostedIsNext DEF PostedShape
<1>7. Posted # << >> /\ msg' = Head(Posted)
  BY <1>2, <1>4, <1>5
<1>8. Posted' = Tail(Posted)
  <2>1. Tail(Posted) \in Seq(Msgs) /\ Len(Tail(Posted)) = q.n - 1
    BY <1>2, <1>5, <1>7
  <2>2. \A i \in 1 .. q.n - 1 : Tail(Posted)[i] = Posted[i + 1]
    BY <1>2, <1>5, <1>7
  <2>3. \A i \in 1 .. q.n - 1 : Posted'[i] = Posted[i + 1]
    <3> TAKE i \in 1 .. q.n - 1
    <3>1. i \in 1 .. q'.n /\ i + 1 \in 1 .. q.n
      BY <1>2, <1>4
    <3> QED
      BY <1>4, <1>5, <1>6, <3>1
  <2>4. Len(Posted') = q.n - 1
    BY <1>4, <1>6
  <2> QED
    BY <1>6, <2>1, <2>2, <2>3, <2>4
<1> QED
  BY <1>7, <1>8 DEF Mail!Take

(* The end of a pend that got a message is Take as well.                   *)
LEMMA PendedTakes ==
  ASSUME MailInv, MailInv', Pended
  PROVE  Mail!Take \/ UNCHANGED Mail!qvars
<1>1. pc = "pending" /\ q' = q /\ pc' \in {"fire", "got"} /\ tcb["tcpip"].rdy
  BY Zenon DEF Pended, Runs, K!Runs
<1>2. tcb["tcpip"].rdy # FALSE
  BY <1>1
<1>3. ~HandedOver'
  BY <1>1 DEF HandedOver
<1>4. CASE tcb["tcpip"].pend = "to"
  <2>1. tcb["tcpip"].msg = None
    BY <1>1, <1>4 DEF MailInv, ThreadInv
  <2>2. ~HandedOver
    BY <2>1 DEF HandedOver
  <2>3. msg' = msg
    BY <1>4 DEF Pended, K!TimedOut
  <2> QED
    BY <1>1, <1>3, <2>2, <2>3, PostedSame
<1>5. CASE tcb["tcpip"].pend # "to"
  <2>1. tcb["tcpip"].msg \in Msgs
    BY <1>1, <1>2, <1>5 DEF MailInv, ThreadInv
  <2>2. msg' = tcb["tcpip"].msg
    BY <1>5 DEF Pended, K!TimedOut
  <2>3. HandedOver
    BY <1>1, <2>1, Names DEF HandedOver
  <2>4. Posted = <<tcb["tcpip"].msg>> \o Q!Contents(q)
    BY <2>3 DEF Posted, Handed, HandedOver
  <2>5. Posted' = Q!Contents(q)
    <3>1. Posted' = << >> \o Q!Contents(q)
      BY <1>1, <1>3 DEF Posted, Handed, HandedOver, Q!Contents, Q!Place
    <3>2. Q!Contents(q) \in Seq(Msgs)
      BY ContentsAre
    <3> QED
      BY <3>1, <3>2
  <2>6. Q!Contents(q) \in Seq(Msgs)
    BY ContentsAre
  <2>7. Posted # << >> /\ Head(Posted) = tcb["tcpip"].msg /\ Tail(Posted) = Q!Contents(q)
    BY <2>1, <2>4, <2>6
  <2> QED
    BY <2>2, <2>5, <2>7 DEF Mail!Take
<1> QED
  BY <1>4, <1>5

(* Steps of a caller that post nothing do not touch the thread's TCB.      *)
LEMMA CallerQuiet ==
  ASSUME MailInv, NEW a \in Apps, Call(a) \/ SemPend(a) \/ Answered(a)
  PROVE  UNCHANGED Mail!qvars
<1>1. q' = q /\ pc' = pc /\ msg' = msg
  BY DEF Call, SemPend, Answered, thread
<1>2. a # "tcpip"
  BY Names
<1>3. tcb'["tcpip"] = tcb["tcpip"]
  <2>1. CASE Call(a)
    <3>1. tcb' = [tcb EXCEPT ![a].rdy = TRUE]
      BY <2>1 DEF Call
    <3> QED
      BY <1>2, <3>1, Names, Zenon DEF MailInv, TypeInv, KernelInv
  <2>2. CASE SemPend(a)
    <3>1. CASE tcb' = [tcb EXCEPT ![a].rdy = FALSE]
      BY <1>2, <3>1, Names, Zenon DEF MailInv, TypeInv, KernelInv
    <3>2. CASE K!OS_EventTaskWait(a, a, 0)
      <4>1. tcb' = [tcb EXCEPT ![a] = [dly |-> 0, pend |-> "ok", msg |-> None,
                                       rdy |-> FALSE]]
        BY <3>2 DEF K!OS_EventTaskWait
      <4> QED
        BY <1>2, <4>1, Names DEF MailInv, TypeInv, KernelInv
    <3> QED
      BY <2>2, <3>1, <3>2, Zenon DEF SemPend
  <2>3. CASE Answered(a)
    <3>1. tcb' = [tcb EXCEPT ![a] = [K!TcbInit EXCEPT !.rdy = FALSE]]
      BY <2>3, Zenon DEF Answered
    <3> QED
      BY <1>2, <3>1, Names, Zenon DEF MailInv, TypeInv, KernelInv
  <2> QED
    BY <2>1, <2>2, <2>3
<1>4. HandedOver' <=> HandedOver
  BY <1>1, <1>3 DEF HandedOver
<1> QED
  BY <1>1, <1>3, <1>4, PostedSame

(* Nor does the end of a call that was left to TCP.                        *)
LEMMA CompleteQuiet ==
  ASSUME MailInv, NEW a \in Apps, Complete(a)
  PROVE  UNCHANGED Mail!qvars
<1>1. q' = q /\ pc' = pc /\ msg' = msg /\ a \in open /\ OSSemPost(a)
  BY DEF Complete, thread
<1>2. tcb'["tcpip"] = tcb["tcpip"]
  BY <1>1, SemPosted, Names
<1>3. HandedOver' <=> HandedOver
  BY <1>1, <1>2 DEF HandedOver
<1> QED
  BY <1>1, <1>2, <1>3, PostedSame

LEMMA MailStep ==
  MailInv /\ MailInv' /\ [Next]_vars => [Mail!QNext]_(Mail!qvars)
<1> SUFFICES ASSUME MailInv, MailInv', [Next]_vars
             PROVE  Mail!Accept \/ Mail!Take \/ Mail!GiveUp \/ UNCHANGED Mail!qvars
  BY DEF Mail!qvars, Mail!QNext
<1>1. ASSUME UNCHANGED <<kernel, q, pc, msg>>
      PROVE  UNCHANGED Mail!qvars
  <2>1. HandedOver' <=> HandedOver
    BY <1>1 DEF HandedOver, kernel
  <2> QED
    BY <1>1, <2>1, PostedSame DEF kernel
<1>2. CASE Arrive \/ Enter \/ Leave \/ UNCHANGED vars
  <2>1. UNCHANGED <<kernel, q, pc, msg>>
    BY <1>2 DEF Arrive, Enter, Leave, thread, vars
  <2> QED
    BY <1>1, <2>1
<1>3. CASE Packet
  <2>1. pc' = pc /\ msg' = msg
    BY <1>3 DEF Packet, thread
  <2>2. CASE TcpipInput
    <3>1. PICK m \in pool : OSQPost(m)
      BY <2>2, Zenon DEF TcpipInput
    <3>2. m \in Msgs
      BY <3>1 DEF MailInv, TypeInv, Ranges
    <3> QED
      BY <2>1, <3>1, <3>2, PostAccepts
  <2>3. CASE UNCHANGED <<kernel, q, pool>>
    BY <1>1, <2>1, <2>3
  <2> QED
    BY <1>3, <2>2, <2>3 DEF Packet
<1>4. CASE Tick
  <2>1. /\ tcb' = [t \in Tasks |-> K!Ticked(tcb[t])]
        /\ q' = q /\ pc' = pc /\ msg' = msg
    BY <1>4 DEF Tick, K!OSTimeTick
  <2>2. tcb'["tcpip"].msg = tcb["tcpip"].msg
    <3>1. tcb'["tcpip"] = K!Ticked(tcb["tcpip"])
      BY <2>1, Names
    <3>2. DOMAIN tcb["tcpip"] = {"dly", "pend", "msg", "rdy"}
      BY Names DEF MailInv, TypeInv, KernelInv
    <3> QED
      BY <3>1, <3>2, TickedFields
  <2>3. HandedOver' <=> HandedOver
    BY <2>1, <2>2 DEF HandedOver
  <2> QED
    BY <2>1, <2>2, <2>3, PostedSame
<1>5. CASE Fetch \/ Got \/ Fire
  <2>1. q' = q /\ msg' = msg /\ pc # "pending" /\ pc' # "pending"
    BY <1>5, Zenon DEF Fetch, Got, Fire
  <2>2. ~HandedOver /\ ~HandedOver'
    BY <2>1 DEF HandedOver
  <2> QED
    BY <2>1, <2>2, PostedSame
<1>6. CASE Pend
  <2>1. CASE q.n > 0
    BY <1>6, <2>1, PendTakes
  <2>2. CASE ~(q.n > 0)
    <3>1. /\ pc = "pend" /\ q' = q /\ msg' = msg
          /\ K!OS_EventTaskWait("tcpip", "mbox", list[1].time)
      BY <1>6, <2>2 DEF Pend
    <3>2. tcb'["tcpip"] = [dly |-> list[1].time, pend |-> "ok", msg |-> None,
                           rdy |-> FALSE]
      BY <3>1, Names DEF K!OS_EventTaskWait, MailInv, TypeInv, KernelInv
    <3>3. tcb'["tcpip"].msg = None
      BY <3>2
    <3>4. ~HandedOver /\ ~HandedOver'
      BY <3>1, <3>3 DEF HandedOver
    <3> QED
      BY <3>1, <3>4, PostedSame
  <2> QED
    BY <2>1, <2>2
<1>7. CASE Pended
  BY <1>7, PendedTakes
<1>8. ASSUME NEW a \in Apps, Post(a)
      PROVE  Mail!Accept
  <2>1. OSQPost(a) /\ pc' = pc /\ msg' = msg
    BY <1>8 DEF Post, thread
  <2>2. a \in Msgs
    BY Names
  <2> QED
    BY <2>1, <2>2, PostAccepts
<1>9. ASSUME NEW a \in Apps, Call(a) \/ SemPend(a) \/ Answered(a)
      PROVE  UNCHANGED Mail!qvars
  BY <1>9, CallerQuiet
<1>10. ASSUME NEW a \in Apps, Complete(a)
       PROVE  UNCHANGED Mail!qvars
  BY <1>10, CompleteQuiet
<1>11. CASE Handle
  <2>1. q' = q /\ msg' = None /\ pc = "handle" /\ pc' = "fetch"
    BY <1>11 DEF Handle
  <2>2. ~HandedOver /\ ~HandedOver'
    BY <2>1 DEF HandedOver
  <2>3. Posted' = Posted
    BY <2>1, <2>2 DEF Posted, Handed, HandedOver
  <2> QED
    BY <2>1, <2>3 DEF Mail!GiveUp
<1> QED
  BY <1>2, <1>3, <1>4, <1>5, <1>6, <1>7, <1>8, <1>9, <1>10, <1>11
     DEF Next, Interrupt, Thread, App, Task

(* The mailbox between the interrupt, the callers and the thread is a      *)
(* bounded queue: every message that was posted is fetched once and in the *)
(* order of posting, whatever time-outs and interrupts do.                 *)
THEOREM MailRefines == Spec => MailIsQueue
<1>1. Init => Mail!QInit
  <2> SUFFICES ASSUME Init
               PROVE  Posted = << >> /\ msg = None
    BY DEF Mail!QInit
  <2>1. MailInv /\ pc = "fetch" /\ msg = None /\ q = Q!OSQCreate
    BY MailInit DEF Init
  <2>2. q.n = 0 /\ ~HandedOver
    BY <2>1, CreateIs DEF HandedOver
  <2>3. Posted \in Seq(Msgs) /\ Len(Posted) = 0
    BY <2>1, <2>2, PostedIs DEF PostedShape
  <2> QED
    BY <2>1, <2>3
<1> QED
  BY <1>1, MailAlways, MailStep, PTL DEF Spec, MailIsQueue, Mail!QSpec

-----------------------------------------------------------------------------
(* The elements of the packet pool.                                        *)

(* The sequence has every message in flight once, save the one in hand.    *)
LEMMA PostedOnce ==
  ASSUME MailInv
  PROVE  /\ Posted \in Seq(Msgs)
         /\ \A i, j \in DOMAIN Posted : Posted[i] = Posted[j] => i = j
         /\ InFlight = {Posted[i] : i \in DOMAIN Posted}
                       \cup (IF pc \in {"got", "handle"} THEN {msg} ELSE {})
         /\ pc \in {"got", "handle"} => \A i \in DOMAIN Posted : Posted[i] # msg
<1>1. q.n \in Nat
  BY DEF MailInv, TypeInv, QueueInv, QueueType
<1>2. \A i \in 1 .. q.n : Cell(q, i) \in Msgs /\ Cell(q, i) # Foremost
  BY DEF MailInv, OnceInv
<1>3. \A i, j \in 1 .. q.n : Cell(q, i) = Cell(q, j) => i = j
  BY DEF MailInv, OnceInv
<1>4. CASE HandedOver
  <2>1. /\ Posted \in Seq(Msgs) /\ Len(Posted) = q.n + 1
        /\ Posted[1] = tcb["tcpip"].msg
        /\ \A i \in 1 .. q.n : Posted[i + 1] = Cell(q, i)
    BY <1>4, PostedIs DEF PostedShape
  <2>2. Foremost = tcb["tcpip"].msg /\ Foremost # None /\ pc = "pending"
    BY <1>4 DEF HandedOver, Foremost
  <2>3. \A i \in DOMAIN Posted : i = 1 \/ (i - 1 \in 1 .. q.n /\ Posted[i] = Cell(q, i - 1))
    <3>1. \A i \in 1 .. q.n + 1 : i = 1 \/ (i - 1 \in 1 .. q.n /\ (i - 1) + 1 = i)
      BY <1>1
    <3>2. DOMAIN Posted = 1 .. q.n + 1
      BY <1>1, <2>1
    <3> QED
      BY <2>1, <3>1, <3>2
  <2>4. \A i, j \in DOMAIN Posted : Posted[i] = Posted[j] => i = j
    <3> TAKE i, j \in DOMAIN Posted
    <3> HAVE Posted[i] = Posted[j]
    <3>1. i \in Int /\ j \in Int
      BY <2>1
    <3>2. CASE i = 1 /\ j = 1
      BY <3>2
    <3>3. CASE i = 1 /\ j # 1
      BY <1>2, <2>1, <2>2, <2>3, <3>3
    <3>4. CASE i # 1 /\ j = 1
      BY <1>2, <2>1, <2>2, <2>3, <3>4
    <3>5. CASE i # 1 /\ j # 1
      <4>1. i - 1 = j - 1
        BY <1>3, <2>3, <3>5
      <4> QED
        BY <3>1, <4>1
    <3> QED
      BY <3>2, <3>3, <3>4, <3>5
  <2>5. InFlight = {Posted[i] : i \in DOMAIN Posted}
    <3>1. 1 \in DOMAIN Posted /\ \A i \in 1 .. q.n : i + 1 \in DOMAIN Posted
      BY <1>1, <2>1
    <3>2. \A x \in InFlight : x \in {Posted[i] : i \in DOMAIN Posted}
      BY <2>1, <2>2, <3>1 DEF InFlight, Queued
    <3>3. \A i \in DOMAIN Posted : Posted[i] \in InFlight
      BY <2>1, <2>2, <2>3 DEF InFlight, Queued
    <3> QED
      BY <3>2, <3>3
  <2> QED
    BY <2>1, <2>2, <2>4, <2>5
<1>5. CASE ~HandedOver
  <2>1. /\ Posted \in Seq(Msgs) /\ Len(Posted) = q.n
        /\ \A i \in 1 .. q.n : Posted[i] = Cell(q, i)
    BY <1>5, PostedIs DEF PostedShape
  <2>2. DOMAIN Posted = 1 .. q.n
    BY <1>1, <2>1
  <2>3. {Posted[i] : i \in DOMAIN Posted} = Queued
    BY <2>1, <2>2 DEF Queued
  <2>4. pc \in {"got", "handle"} => Foremost = msg /\ msg \in Msgs
    BY DEF Foremost, MailInv, ThreadInv
  <2>5. pc \notin {"got", "handle"} => Foremost = None
    BY <1>5 DEF Foremost, HandedOver
  <2>6. InFlight = Queued \cup (IF pc \in {"got", "handle"} THEN {msg} ELSE {})
    BY <2>4, <2>5, Names DEF InFlight
  <2> QED
    BY <1>2, <1>3, <2>1, <2>2, <2>3, <2>4, <2>6
<1> QED
  BY <1>4, <1>5

(* Every element of the packet pool is free, on its way to the thread, or  *)
(* being handled by it; none is lost, and none used twice.                 *)
THEOREM PoolIsKept == Spec => []PoolKept
<1> SUFFICES ASSUME MailInv
             PROVE  PoolKept
  BY MailAlways, PTL
<1> DEFINE used == {i \in DOMAIN Posted : Posted[i] \in Inpkt}
           held == IF pc \in {"got", "handle"} THEN {msg} \cap Inpkt ELSE {}
           sent == {Posted[i] : i \in used}
<1>1. /\ Posted \in Seq(Msgs)
      /\ \A i, j \in DOMAIN Posted : Posted[i] = Posted[j] => i = j
      /\ InFlight = {Posted[i] : i \in DOMAIN Posted}
                    \cup (IF pc \in {"got", "handle"} THEN {msg} ELSE {})
      /\ pc \in {"got", "handle"} => \A i \in DOMAIN Posted : Posted[i] # msg
  BY PostedOnce
<1>2. pool \cap InFlight = {} /\ Inpkt \subseteq pool \cup InFlight /\ pool \subseteq Inpkt
  BY DEF MailInv, PoolInv, TypeInv, Ranges
<1>3. Inpkt = (pool \cup sent) \cup held
  BY <1>1, <1>2
<1>4. pool \cap sent = {} /\ (pool \cup sent) \cap held = {}
  BY <1>1, <1>2
<1>5. IsFiniteSet(Inpkt) /\ Cardinality(Inpkt) = NINPKT
  <2>1. 1 \in Int /\ NINPKT \in Int /\ ~(1 > NINPKT)
    BY NetworkAssumption
  <2> QED
    BY <2>1, FS_Interval DEF Inpkt
<1>6. IsFiniteSet(pool) /\ IsFiniteSet(sent) /\ IsFiniteSet(held)
  BY <1>3, <1>5, FS_Subset
<1>7. IsFiniteSet(used) /\ Cardinality(sent) = Cardinality(used)
  <2> DEFINE f == [i \in used |-> Posted[i]]
  <2>1. f \in Injection(used, sent)
    <3>1. f \in [used -> sent]
      OBVIOUS
    <3>2. \A i, j \in used : f[i] = f[j] => i = j
      BY <1>1
    <3> QED
      BY <3>1, <3>2 DEF Injection, IsInjective
  <2>2. f \in Surjection(used, sent)
    <3>1. f \in [used -> sent]
      OBVIOUS
    <3>2. \A x \in sent : \E i \in used : f[i] = x
      OBVIOUS
    <3> QED
      BY <3>1, <3>2 DEF Surjection
  <2> HIDE DEF f, used, sent
  <2>3. IsFiniteSet(used)
    BY <1>6, <2>1, FS_Injection
  <2> QED
    BY <1>6, <2>1, <2>2, <2>3, FS_Injection
<1> HIDE DEF used, held, sent
<1>8. /\ IsFiniteSet(pool \cup sent)
      /\ Cardinality(pool \cup sent)
           = Cardinality(pool) + Cardinality(sent) - Cardinality(pool \cap sent)
  BY <1>6, FS_Union
<1>9. Cardinality((pool \cup sent) \cup held)
        = Cardinality(pool \cup sent) + Cardinality(held)
            - Cardinality((pool \cup sent) \cap held)
  BY <1>6, <1>8, FS_Union
<1>10. Cardinality(pool) \in Nat /\ Cardinality(sent) \in Nat /\ Cardinality(held) \in Nat
  BY <1>6, FS_CardinalityType
<1>11. Cardinality(pool \cap sent) = 0 /\ Cardinality((pool \cup sent) \cap held) = 0
  BY <1>4, FS_EmptySet
<1>12. Cardinality(pool) + Cardinality(used) + Cardinality(held) = NINPKT
  BY <1>3, <1>5, <1>7, <1>8, <1>9, <1>10, <1>11
<1>13. pool \cap (sent \cup held) = {}
  BY <1>4
<1> QED
  BY <1>12, <1>13 DEF PoolKept, used, held, sent

-----------------------------------------------------------------------------
(* The receive ring.                                                       *)

(* The descriptors with a frame, when there are any: from the one the      *)
(* handler looks at next up to the one the DMA fills next.                 *)
WithFrame(d) == IF get < cur THEN get <= d /\ d < cur ELSE get <= d \/ d < cur

Window == \/ own = E!Desc /\ get = cur
          \/ own = {d \in E!Desc : ~WithFrame(d)}

(* One frame at most has come since the handler's last look.               *)
Left == IF burst = "clear" THEN {get} ELSE {}

RingInv ==
    /\ own \in SUBSET E!Desc /\ cur \in E!Desc /\ get \in E!Desc
    /\ isr \in {"off", "loop", "clear"} /\ burst \in {"none", "loop", "clear"}
    /\ Window
    /\ isr = "loop" => burst # "clear"
    /\ isr = "clear" => own = E!Desc \ Left
    /\ isr = "off" /\ rs = FALSE => own = E!Desc \/ own = E!Desc \ Left

LEMMA NextDescIs ==
  ASSUME NEW d \in E!Desc
  PROVE  E!NextDesc(d) = IF d = ETH_RXBUFNB - 1 THEN 0 ELSE d + 1
<1>1. ETH_RXBUFNB \in Nat \ {0} /\ d \in Int /\ 0 <= d /\ d <= ETH_RXBUFNB - 1
  BY NetworkAssumption DEF E!Desc
<1>2. (d + 1) % ETH_RXBUFNB = IF d = ETH_RXBUFNB - 1 THEN 0 ELSE d + 1
  BY <1>1
<1> QED
  BY <1>2 DEF E!NextDesc

(* The DMA puts a frame behind the others.                                 *)
LEMMA WindowGrows ==
  ASSUME Window, own \in SUBSET E!Desc, cur \in E!Desc, get \in E!Desc, cur \in own,
         own' = own \ {cur}, cur' = E!NextDesc(cur), get' = get
  PROVE  Window' /\ cur' \in E!Desc
<1>1. cur' = IF cur = ETH_RXBUFNB - 1 THEN 0 ELSE cur + 1
  BY NextDescIs
<1>2. cur' \in E!Desc
  BY <1>1, NetworkAssumption DEF E!Desc
<1>3. own' = {d \in E!Desc : ~WithFrame(d)'}
  <2>1. CASE own = E!Desc /\ get = cur
    <3>1. \A d \in E!Desc : WithFrame(d)' <=> d = cur
      BY <1>1, <2>1, NetworkAssumption DEF WithFrame, E!Desc
    <3> QED
      BY <2>1, <3>1
  <2>2. CASE own = {d \in E!Desc : ~WithFrame(d)}
    <3>1. ~WithFrame(cur)
      BY <2>2
    <3>2. \A d \in E!Desc : WithFrame(d)' <=> WithFrame(d) \/ d = cur
      BY <1>1, <3>1, NetworkAssumption DEF WithFrame, E!Desc
    <3> QED
      BY <2>2, <3>2
  <2> QED
    BY <2>1, <2>2 DEF Window
<1> QED
  BY <1>2, <1>3 DEF Window, E!Desc

(* The handler gives the first one back.                                   *)
LEMMA WindowShrinks ==
  ASSUME Window, own \in SUBSET E!Desc, cur \in E!Desc, get \in E!Desc, get \notin own,
         own' = own \cup {get}, get' = E!NextDesc(get), cur' = cur
  PROVE  Window' /\ get' \in E!Desc
<1>1. get' = IF get = ETH_RXBUFNB - 1 THEN 0 ELSE get + 1
  BY NextDescIs
<1>2. get' \in E!Desc
  BY <1>1, NetworkAssumption DEF E!Desc
<1>3. own = {d \in E!Desc : ~WithFrame(d)}
  BY DEF Window
<1>4. CASE get' = cur
  <2>1. \A d \in E!Desc : WithFrame(d) <=> d = get
    BY <1>1, <1>4, NetworkAssumption DEF WithFrame, E!Desc
  <2>2. own' = E!Desc
    BY <1>3, <2>1
  <2>3. own' = E!Desc /\ get' = cur'
    BY <1>4, <2>2
  <2> QED
    BY <1>2, <2>3 DEF Window, E!Desc
<1>5. CASE get' # cur
  <2>1. \A d \in E!Desc : WithFrame(d)' <=> WithFrame(d) /\ d # get
    BY <1>1, <1>5, NetworkAssumption DEF WithFrame, E!Desc
  <2>2. own' = {d \in E!Desc : ~WithFrame(d)'}
    BY <1>3, <2>1
  <2> QED
    BY <1>2, <2>2 DEF Window, E!Desc
<1> QED
  BY <1>4, <1>5

(* The handler sees the ring empty only when no frame is in it.            *)
LEMMA WindowEmpty ==
  ASSUME Window, cur \in E!Desc, get \in own
  PROVE  own = E!Desc /\ get = cur
<1>1. get \in E!Desc => WithFrame(get)
  BY DEF WithFrame, E!Desc
<1> QED
  BY <1>1 DEF Window

LEMMA RingInit == Init => RingInv
<1> SUFFICES ASSUME Init
             PROVE  RingInv
  OBVIOUS
<1>1. /\ own = E!Desc /\ cur = 0 /\ get = 0
      /\ rs = FALSE /\ isr = "off" /\ burst = "none"
  BY DEF Init, E!RingInit
<1>2. 0 \in E!Desc
  BY NetworkAssumption DEF E!Desc
<1> QED
  BY <1>1, <1>2 DEF RingInv, Window

LEMMA RingNext == RingInv /\ [Next]_vars => RingInv'
<1> SUFFICES ASSUME RingInv, [Next]_vars
             PROVE  RingInv'
  OBVIOUS
<1> USE DEF RingInv
<1>1. CASE Arrive
  <2>1. /\ cur \in own
        /\ isr # "off" => burst = "none"
        /\ own' = own \ {cur} /\ cur' = E!NextDesc(cur) /\ get' = get /\ isr' = isr
        /\ rs' = TRUE /\ burst' = IF isr = "off" THEN burst ELSE isr
    BY <1>1 DEF Arrive, E!Arrive
  <2>2. Window' /\ cur' \in E!Desc
    BY <2>1, WindowGrows
  <2>3. isr' = "clear" => own' = E!Desc \ Left'
    <3>1. CASE isr = "clear"
      <4>1. own = E!Desc
        BY <2>1, <3>1 DEF Left
      <4>2. get = cur
        BY <4>1, WindowEmpty
      <4>3. burst' = "clear"
        BY <2>1, <3>1
      <4> QED
        BY <2>1, <4>1, <4>2, <4>3 DEF Left
    <3> QED
      BY <2>1, <3>1
  <2>4. burst' \in {"none", "loop", "clear"} /\ (isr' = "loop" => burst' # "clear")
    BY <2>1
  <2>5. E!Desc' = E!Desc
    BY DEF E!Desc
  <2>6. rs' # FALSE
    BY <2>1
  <2> QED
    BY <2>1, <2>2, <2>3, <2>4, <2>5, <2>6
<1>2. CASE Enter
  <2>1. /\ isr = "off" /\ isr' = "loop" /\ burst' = "none"
        /\ own' = own /\ cur' = cur /\ get' = get /\ rs' = rs
    BY <1>2 DEF Enter, E!Enter
  <2> QED
    BY <2>1 DEF Window, WithFrame, E!Desc
<1>3. CASE Packet
  <2>1. /\ isr = "loop" /\ get \notin own /\ own' = own \cup {get}
        /\ get' = E!NextDesc(get) /\ cur' = cur /\ rs' = rs /\ burst' = burst /\ isr' = isr
    BY <1>3 DEF Packet, E!TakeOne, E!GiveBack
  <2>2. Window' /\ get' \in E!Desc
    BY <2>1, WindowShrinks
  <2> QED
    BY <2>1, <2>2 DEF E!Desc
<1>4. CASE Leave
  <2>1. CASE E!LoopEnds
    <3>1. /\ isr = "loop" /\ get \in own /\ isr' = "clear"
          /\ own' = own /\ cur' = cur /\ get' = get /\ rs' = rs /\ burst' = burst
      BY <2>1 DEF E!LoopEnds
    <3>2. own = E!Desc
      BY <3>1, WindowEmpty
    <3>3. own' = E!Desc \ Left'
      BY <3>1, <3>2 DEF Left
    <3> QED
      BY <3>1, <3>3 DEF Window, WithFrame, E!Desc
  <2>2. CASE E!Leave
    <3>1. /\ isr = "clear" /\ rs' = FALSE /\ isr' = "off"
          /\ own' = own /\ cur' = cur /\ get' = get /\ burst' = burst
      BY <2>2 DEF E!Leave
    <3>2. own' = E!Desc \ Left'
      BY <3>1 DEF Left
    <3> QED
      BY <3>1, <3>2 DEF Window, WithFrame, E!Desc
  <2> QED
    BY <1>4, <2>1, <2>2 DEF Leave
<1>5. ASSUME UNCHANGED ring
      PROVE  RingInv'
  BY <1>5 DEF ring, Window, WithFrame, E!Desc, Left
<1>6. ASSUME Tick \/ Thread \/ UNCHANGED vars
      PROVE  UNCHANGED ring
  BY <1>6 DEF Tick, Thread, Fetch, Pend, Pended, Got, Handle, Complete, Fire, vars
<1>7. ASSUME NEW a \in Apps, App(a) \/ Call(a)
      PROVE  UNCHANGED ring
  BY <1>7 DEF App, Call, Post, SemPend, Answered
<1> QED
  BY <1>1, <1>2, <1>3, <1>4, <1>5, <1>6, <1>7 DEF Next, Interrupt, Task

LEMMA SameCardinality ==
  ASSUME NEW S
  PROVE  E!Cardinality(S) = Cardinality(S)
BY Zenon DEF E!Cardinality, Cardinality

(* Between interrupts no frame is left in the ring but one that came after *)
(* the handler's last look, for a ring of any size.                        *)
THEOREM RingIsDrained == Spec => []RingDrained
<1>1. RingInv => RingDrained
  <2> SUFFICES ASSUME RingInv, isr = "off", ~rs
               PROVE  E!Held <= IF burst = "clear" THEN 1 ELSE 0
    BY DEF RingDrained
  <2>1. own = E!Desc \/ own = E!Desc \ Left
    BY DEF RingInv
  <2>2. IsFiniteSet(E!Desc) /\ Cardinality(E!Desc) = ETH_RXBUFNB /\ ETH_RXBUFNB \in Nat
    <3>1. 0 \in Int /\ ETH_RXBUFNB - 1 \in Int /\ ~(0 > ETH_RXBUFNB - 1)
          /\ ETH_RXBUFNB \in Nat
      BY NetworkAssumption
    <3> QED
      BY <3>1, FS_Interval DEF E!Desc
  <2>3. Cardinality(E!Desc \ {get}) = ETH_RXBUFNB - 1
    BY <2>2, FS_RemoveElement DEF RingInv
  <2>4. Cardinality(own) = ETH_RXBUFNB
        \/ (burst = "clear" /\ Cardinality(own) = ETH_RXBUFNB - 1)
    BY <2>1, <2>2, <2>3 DEF Left
  <2>5. CASE burst = "clear"
    <3>1. E!Held = 0 \/ E!Held = 1
      BY <2>2, <2>4, SameCardinality DEF E!Held
    <3> QED
      BY <2>5, <3>1
  <2>6. CASE burst # "clear"
    <3>1. E!Held = 0
      BY <2>2, <2>4, <2>6, SameCardinality DEF E!Held
    <3> QED
      BY <2>6, <3>1
  <2> QED
    BY <2>5, <2>6
<1> QED
  BY <1>1, RingInit, RingNext, PTL DEF Spec

-----------------------------------------------------------------------------
(* The time-outs: the invariant is about the list itself, with the facts   *)
(* about it in LwipTimers_proofs.                                          *)

TimersInv ==
    /\ list \in Lists(Handlers)
    /\ Distinct(list)
    /\ \A h \in Cyclic : Has(list, h)
    /\ Has(list, "tcp") <=> active = TRUE
    /\ pcbs \in BOOLEAN /\ active \in BOOLEAN
    /\ pcbs = TRUE => active = TRUE
    /\ open # {} => pcbs = TRUE
    /\ waited \in Nat

LEMMA Timing ==
  /\ IsFiniteSet(Cyclic) /\ Cyclic # {} /\ "tcp" \notin Cyclic
  /\ Handlers = Cyclic \cup {"tcp"}
  /\ Period \in [Handlers -> Nat]
  /\ \A h \in Handlers : Period[h] \in Nat
BY NetworkAssumption DEF Handlers

LEMMA LongestIs == Longest \in Nat
<1> DEFINE S == {Period[h] : h \in Handlers}
<1>1. IsFiniteSet(S)
  <2>1. IsFiniteSet(Handlers)
    BY Timing, FS_AddElement
  <2>2. Period \in Surjection(Handlers, S)
    <3>1. Period \in [Handlers -> S] /\ \A n \in S : \E h \in Handlers : Period[h] = n
      BY Timing
    <3> HIDE DEF S
    <3> QED
      BY <3>1 DEF Surjection
  <2> QED
    BY <2>1, <2>2, FS_Surjection
<1>2. S # {} /\ S \subseteq Nat
  BY Timing
<1> HIDE DEF S
<1>3. Max(S) \in S
  BY <1>1, <1>2, MaxIs
<1> QED
  BY <1>2, <1>3 DEF Longest, S

LEMMA TimersInit == Init => TimersInv
<1> SUFFICES ASSUME Init
             PROVE  TimersInv
  OBVIOUS
<1>1. list = Started(Period, Cyclic)
  BY DEF Init, Started
<1>2. pcbs = FALSE /\ active = FALSE /\ open = {} /\ waited = 0
  BY DEF Init
<1>3. /\ list \in Lists(Handlers)
      /\ Distinct(list)
      /\ \A h : Has(list, h) <=> h \in Cyclic
  BY <1>1, Timing, StartedList
<1> QED
  BY <1>2, <1>3, Timing DEF TimersInv

(* What the steps do to the list.                                          *)
LEMMA ListNotEmpty ==
  ASSUME TimersInv
  PROVE  Len(list) > 0 /\ list[1].h \in Handlers
<1>1. PICK h \in Cyclic : Has(list, h)
  BY Timing DEF TimersInv
<1>2. PICK i \in 1 .. Len(list) : list[i].h = h
  BY <1>1 DEF Has
<1>3. Len(list) \in Nat /\ \A j \in 1 .. Len(list) : list[j].h \in Handlers
  BY ListType DEF TimersInv
<1>4. 1 \in 1 .. Len(list)
  BY <1>2, <1>3
<1> QED
  BY <1>3, <1>4

(* Got takes the time that was needed off the first entry.                 *)
LEMMA GotList ==
  ASSUME TimersInv, Got
  PROVE  /\ list' \in Lists(Handlers) /\ Distinct(list')
         /\ \A g : Has(list', g) <=> Has(list, g)
         /\ list' # list => \A g, e : DueAt(list, g, e) =>
                              \E f \in Int : f < e /\ DueAt(list', g, f)
<1>1. TimeNeeded \in Nat
  BY LongestIs DEF TimersInv, TimeNeeded
<1>2. list' = Elapse(list, TimeNeeded)
  BY DEF Got
<1> QED
  BY <1>1, <1>2, ListNotEmpty, Elapsing DEF TimersInv

(* A new TCP timer leaves the others where they are.                       *)
LEMMA ArmedList ==
  ASSUME TimersInv, active = FALSE, Arm(list, "tcp")
  PROVE  /\ list' \in Lists(Handlers) /\ Distinct(list')
         /\ \A g : Has(list', g) <=> Has(list, g) \/ g = "tcp"
         /\ \A g, d : DueAt(list, g, d) => DueAt(list', g, d)
<1>1. list' = sys_timeout(list, "tcp", Period["tcp"])
  BY DEF Arm
<1>2. ~Has(list, "tcp") /\ "tcp" \in Handlers /\ Period["tcp"] \in Nat
  BY Timing DEF TimersInv
<1> QED
  BY <1>1, <1>2, Arming DEF TimersInv

(* The first entry is gone, and the others are due as they were.           *)
Gone(l) == /\ l \in Lists(Handlers) /\ Distinct(l)
           /\ \A g : Has(l, g) <=> Has(list, g) /\ g # list[1].h
           /\ \A g, d : DueAt(list, g, d) /\ g # list[1].h
                           => DueAt(l, g, d - list[1].time)

(* It has been added again.                                                *)
Again(l) == /\ l \in Lists(Handlers) /\ Distinct(l)
            /\ \A g : Has(l, g) <=> Has(list, g)
            /\ \A g, d : DueAt(list, g, d) /\ g # list[1].h
                            => DueAt(l, g, d - list[1].time)

LEMMA FiredList ==
  ASSUME TimersInv
  PROVE  /\ Gone(Tail(list))
         /\ Arm(Tail(list), list[1].h) => Again(list')
<1>1. list \in Lists(Handlers) /\ Distinct(list)
  BY DEF TimersInv
<1>2. Len(list) > 0 /\ list[1].h \in Handlers
  BY ListNotEmpty
<1>3. Gone(Tail(list))
  BY <1>1, <1>2, Removing DEF Gone
<1>4. ASSUME Arm(Tail(list), list[1].h)
      PROVE  Again(list')
  <2> DEFINE t == Tail(list)
             x == list[1].h
  <2>1. list' = sys_timeout(t, x, Period[x])
    BY <1>4 DEF Arm
  <2>2. Has(list, x)
    <3>1. 1 \in 1 .. Len(list)
      BY <1>1, <1>2, ListType
    <3> QED
      BY <3>1 DEF Has
  <2>3. t \in Lists(Handlers) /\ Distinct(t) /\ ~Has(t, x)
        /\ x \in Handlers /\ Period[x] \in Nat
    BY <1>2, <1>3, Timing DEF Gone
  <2> HIDE DEF t, x
  <2>4. /\ list' \in Lists(Handlers) /\ Distinct(list')
        /\ \A g : Has(list', g) <=> Has(t, g) \/ g = x
        /\ \A g, d : DueAt(t, g, d) => DueAt(list', g, d)
    BY <2>1, <2>3, Arming
  <2>5. /\ \A g : Has(t, g) <=> Has(list, g) /\ g # x
        /\ \A g, d : DueAt(list, g, d) /\ g # x => DueAt(t, g, d - list[1].time)
    BY <1>3 DEF Gone, t, x
  <2>6. \A g : Has(list', g) <=> Has(list, g)
    BY <2>2, <2>4, <2>5
  <2>7. \A g, d : DueAt(list, g, d) /\ g # x => DueAt(list', g, d - list[1].time)
    BY <2>4, <2>5
  <2> QED
    BY <2>4, <2>6, <2>7 DEF Again, x
<1> QED
  BY <1>3, <1>4

LEMMA TimersNext == TimersInv /\ [Next]_vars => TimersInv'
<1> SUFFICES ASSUME TimersInv, [Next]_vars
             PROVE  TimersInv'
  OBVIOUS
<1>1. ASSUME UNCHANGED timers, waited' \in Nat
      PROVE  TimersInv'
  BY <1>1, Zenon DEF TimersInv, timers
<1>2. ASSUME Arrive \/ Interrupt \/ UNCHANGED vars
      PROVE  UNCHANGED timers /\ waited' = waited
  BY <1>2 DEF Arrive, Interrupt, Enter, Packet, Leave, vars, thread
<1>3. ASSUME NEW a \in Apps, App(a) \/ Call(a)
      PROVE  UNCHANGED timers /\ waited' = waited
  BY <1>3 DEF App, Call, Post, SemPend, Answered, thread
<1>4. CASE Tick
  <2>1. UNCHANGED timers /\ (waited' = waited \/ waited' = Capped(waited + 1, Longest))
    BY <1>4 DEF Tick
  <2>2. waited' \in Nat
    BY <2>1, LongestIs DEF TimersInv, Capped
  <2> QED
    BY <1>1, <2>1, <2>2
<1>5. ASSUME Fetch \/ Pend \/ Pended
      PROVE  TimersInv'
  <2>1. UNCHANGED timers
    BY <1>5 DEF Fetch, Pend, Pended
  <2>2. waited' = waited \/ waited' = 0
    BY <1>5, Zenon DEF Fetch, Pend, Pended
  <2>3. waited' \in Nat
    BY <2>2 DEF TimersInv
  <2> QED
    BY <1>1, <2>1, <2>3
<1>6. CASE Got
  <2>1. UNCHANGED <<pcbs, active, open>> /\ waited' = 0
    BY <1>6 DEF Got
  <2> QED
    BY <1>6, <2>1, GotList DEF TimersInv
<1>7. CASE Handle
  <2>1. Pcbs /\ waited' = waited
    BY <1>7 DEF Handle
  <2>2. CASE pcbs' = FALSE /\ open' = {} /\ UNCHANGED <<list, active>>
    BY <2>1, <2>2 DEF TimersInv
  <2>3. CASE active = TRUE /\ pcbs' = TRUE /\ active' = TRUE /\ UNCHANGED list
    BY <2>1, <2>3 DEF TimersInv
  <2>4. CASE active = FALSE /\ pcbs' = TRUE /\ active' = TRUE /\ Arm(list, "tcp")
    BY <2>1, <2>4, ArmedList DEF TimersInv
  <2>5. \/ pcbs' = FALSE /\ open' = {} /\ UNCHANGED <<list, active>>
        \/ active = TRUE /\ pcbs' = TRUE /\ active' = TRUE /\ UNCHANGED list
        \/ active = FALSE /\ pcbs' = TRUE /\ active' = TRUE /\ Arm(list, "tcp")
    <3>1. active = TRUE \/ active = FALSE
      BY DEF TimersInv
    <3> QED
      BY <2>1, <3>1, Zenon DEF Pcbs
  <2> QED
    BY <2>2, <2>3, <2>4, <2>5
<1>8. CASE Fire
  <2>1. waited' = waited /\ open' = open
    BY <1>8 DEF Fire
  <2>2. CASE FireCyclic
    <3>1. /\ list[1].h \in Cyclic /\ Arm(Tail(list), list[1].h)
          /\ pcbs' = pcbs /\ active' = active
      BY <2>2 DEF FireCyclic
    <3>2. Again(list')
      BY <3>1, FiredList
    <3> QED
      BY <2>1, <3>1, <3>2 DEF TimersInv, Again
  <2>3. CASE FireTcp
    <3>1. /\ list[1].h = "tcp" /\ pcbs' \in BOOLEAN /\ active' = pcbs'
          /\ open # {} => pcbs' = TRUE
          /\ IF pcbs' THEN Arm(Tail(list), "tcp") ELSE list' = Tail(list)
      BY <2>3, Zenon DEF FireTcp, TimersInv
    <3>2. CASE pcbs' = TRUE
      <4>1. Again(list')
        BY <3>1, <3>2, FiredList
      <4>2. Has(list, "tcp")
        <5>1. 1 \in 1 .. Len(list)
          <6>1. Len(list) \in Nat
            BY ListType DEF TimersInv
          <6> QED
            BY <6>1, ListNotEmpty
        <5> QED
          BY <3>1, <5>1 DEF Has
      <4> QED
        BY <2>1, <3>1, <3>2, <4>1, <4>2 DEF TimersInv, Again
    <3>3. CASE pcbs' = FALSE
      <4>1. Gone(list')
        BY <3>1, <3>3, FiredList
      <4> QED
        BY <2>1, <3>1, <3>3, <4>1, Timing DEF TimersInv, Gone
    <3> QED
      BY <3>1, <3>2, <3>3
  <2> QED
    BY <1>8, <2>2, <2>3 DEF Fire
<1>9. ASSUME UNCHANGED timers /\ waited' = waited
      PROVE  TimersInv'
  BY <1>1, <1>9 DEF TimersInv
<1>10. ASSUME NEW a \in Apps, Complete(a)
       PROVE  TimersInv'
  <2>1. open' \subseteq open /\ UNCHANGED <<list, pcbs, active>> /\ waited' = waited
    BY <1>10 DEF Complete, thread
  <2> QED
    BY <2>1 DEF TimersInv
<1> QED
  BY <1>2, <1>3, <1>4, <1>5, <1>6, <1>7, <1>8, <1>9, <1>10 DEF Next, Task, Thread

LEMMA TimersAlways == Spec => []TimersInv
BY TimersInit, TimersNext, PTL DEF Spec

(* Every cyclic timer stays in the list, once, and TCP's is there exactly  *)
(* when the code believes it is, for any set of timers and any periods.    *)
THEOREM TimersAreKept == Spec => []TimersKept
<1>1. TimersInv => TimersKept
  <2> SUFFICES ASSUME TimersInv
               PROVE  TimersKept
    OBVIOUS
  <2>1. list \in Lists(Handlers) /\ Distinct(list)
    BY DEF TimersInv
  <2>2. \A h : /\ Has(list, h) => Armed(list, h) = 1
               /\ ~Has(list, h) => Armed(list, h) = 0
    BY <2>1, ArmedIs
  <2>3. \A h \in Cyclic : Armed(list, h) = 1
    BY <2>2 DEF TimersInv
  <2>4. Armed(list, "tcp") = IF active THEN 1 ELSE 0
    <3>1. CASE active = TRUE
      BY <2>2, <3>1, Zenon DEF TimersInv
    <3>2. CASE active = FALSE
      BY <2>2, <3>2, Zenon DEF TimersInv
    <3> QED
      BY <3>1, <3>2 DEF TimersInv
  <2>5. (pcbs => active) /\ (open # {} => pcbs)
    BY Zenon DEF TimersInv
  <2> QED
    BY <2>3, <2>4, <2>5 DEF TimersKept
<1> QED
  BY <1>1, TimersAlways, PTL

(* A step that has one effect on the times at which the handlers other     *)
(* than the one that fires are due, expressed with the positions that      *)
(* NeverPostponed looks up.                                                *)
LEMMA DueTimeIs ==
  ASSUME NEW l \in Lists(Handlers), Distinct(l), NEW h, NEW d, DueAt(l, h, d)
  PROVE  DueTime(l, h) = d
BY DueAtUnique, Zenon DEF DueTime

Unmoved(h) ==
    \/ DueTime(list', h) = DueTime(list, h)
    \/ pc = "got" /\ DueTime(list', h) < DueTime(list, h)
    \/ pc = "fire" /\ DueTime(list', h) = DueTime(list, h) - list[1].time

(* No timer is due later, nor earlier except by the time waited, for       *)
(* whatever is done to another one: for any list.                          *)
THEOREM NonePostponed == Spec => NeverPostponed
<1>1. ASSUME TimersInv, TimersInv', [Next]_vars, list' # list,
             NEW h \in Handlers, Armed(list, h) = 1, ~Fires(h)
      PROVE  Unmoved(h)
  <2>1. /\ list \in Lists(Handlers) /\ Distinct(list)
        /\ list' \in Lists(Handlers) /\ Distinct(list')
    BY <1>1 DEF TimersInv
  <2>2. PICK d : DueAt(list, h, d)
    BY <1>1, <2>1, ArmedHas
  <2>3. DueTime(list, h) = d
    BY <2>1, <2>2, DueTimeIs
  <2>4. \A e : DueAt(list', h, e) => DueTime(list', h) = e
    BY <2>1, DueTimeIs
  <2>5. CASE Got
    <3>1. PICK f \in Int : f < d /\ DueAt(list', h, f)
      BY <1>1, <2>2, <2>5, GotList
    <3>2. pc = "got"
      BY <2>5 DEF Got
    <3>3. DueTime(list', h) = f
      BY <2>4, <3>1
    <3> QED
      BY <2>3, <3>1, <3>2, <3>3 DEF Unmoved
  <2>6. CASE Handle
    <3>1. active = FALSE /\ Arm(list, "tcp")
      <4>1. active = TRUE \/ active = FALSE
        BY <1>1 DEF TimersInv
      <4>2. Pcbs
        BY <2>6 DEF Handle
      <4> QED
        BY <1>1, <4>1, <4>2, Zenon DEF Pcbs
    <3>2. DueAt(list', h, d)
      BY <1>1, <2>2, <3>1, ArmedList
    <3> QED
      BY <2>3, <2>4, <3>2 DEF Unmoved
  <2>7. CASE Fire
    <3>1. pc = "fire" /\ pc' = "fetch" /\ list[1].h # h
      BY <1>1, <2>7 DEF Fire, Fires
    <3>2. Arm(Tail(list), list[1].h) \/ list' = Tail(list)
      <4>1. FireCyclic => Arm(Tail(list), list[1].h)
        BY DEF FireCyclic
      <4>2. FireTcp => Arm(Tail(list), list[1].h) \/ list' = Tail(list)
        BY Zenon DEF FireTcp
      <4> QED
        BY <2>7, <4>1, <4>2 DEF Fire
    <3>3. Again(list') \/ Gone(list')
      BY <1>1, <3>2, FiredList
    <3>4. DueAt(list', h, d - list[1].time)
      BY <2>2, <3>1, <3>3 DEF Again, Gone
    <3>5. DueTime(list', h) = d - list[1].time
      BY <2>4, <3>4
    <3> QED
      BY <2>3, <3>1, <3>5 DEF Unmoved
  <2>8. ASSUME NEW a \in Apps, App(a) \/ Call(a) \/ Complete(a)
        PROVE  list' = list
    BY <2>8 DEF App, Call, Post, SemPend, Answered, Complete, timers
  <2>9. ASSUME Arrive \/ Interrupt \/ Tick \/ Fetch \/ Pend \/ Pended \/ UNCHANGED vars
        PROVE  list' = list
    BY <2>9 DEF Arrive, Interrupt, Enter, Packet, Leave, Tick, Fetch, Pend, Pended,
                vars, timers
  <2> QED
    BY <1>1, <2>5, <2>6, <2>7, <2>8, <2>9 DEF Next, Task, Thread
<1>2. TimersInv /\ TimersInv' /\ [Next]_vars =>
        [list' # list => \A h \in Handlers :
           Armed(list, h) = 1 /\ Armed(list', h) = 1 /\ ~Fires(h) => Unmoved(h)]_vars
  BY <1>1
<1> QED
  BY <1>2, TimersAlways, PTL DEF Spec, NeverPostponed, Unmoved

=============================================================================

--------------------------- MODULE HexContentsProofs ---------------------------
(* Proofs about HexContents: whatever blocks an edit splits, moves and merges, they
   show the text that ByteHistory promises.                                   *)
EXTENDS HexContents, SequenceTheorems, WellFoundedInduction, TLAPS

HistoryProofs ==
    INSTANCE ByteHistoryProofs WITH
        Bytes <- Values \cup (1..OriginalSize), text <- Text, list <- undoList, at <- Applying

LEMMA LeastNatural ==
    ASSUME NEW T, T \subseteq Nat, T # {}
    PROVE  \E x \in T : \A y \in T : x <= y
  <1> DEFINE R == {ss \in Nat \X Nat : ss[1] < ss[2]}
  <1>1. IsWellFoundedOn(R, Nat) BY NatLessThanWellFounded DEF OpToRel
  <1> HIDE DEF R
  <1>2. PICK x \in T : \A y \in T : <<y, x>> \notin R BY <1>1, WFMin
  <1>3. ASSUME NEW y \in T, y < x PROVE FALSE
    <2>1. <<y, x>> \in Nat \X Nat /\ <<y, x>>[1] < <<y, x>>[2] BY <1>3
    <2> QED BY <1>2, <2>1 DEF R
  <1> QED BY <1>2, <1>3

LEMMA MinOfTwo ==
    ASSUME NEW a \in Nat, NEW b \in Nat
    PROVE  /\ Min({a, b}) = IF a <= b THEN a ELSE b
           /\ Max({a, b}) = IF a <= b THEN b ELSE a
  <1>1. Min({a, b}) \in {a, b} /\ Min({a, b}) <= a /\ Min({a, b}) <= b
    <2>1. \E x \in {a, b} : \A y \in {a, b} : x <= y OBVIOUS
    <2>2. Min({a, b}) \in {a, b} /\ \A y \in {a, b} : Min({a, b}) <= y BY <2>1 DEF Min
    <2> QED BY <2>2
  <1>2. Max({a, b}) \in {a, b} /\ Max({a, b}) >= a /\ Max({a, b}) >= b
    <2>1. \E x \in {a, b} : \A y \in {a, b} : x >= y OBVIOUS
    <2>2. Max({a, b}) \in {a, b} /\ \A y \in {a, b} : Max({a, b}) >= y BY <2>1 DEF Max
    <2> QED BY <2>2
  <1> QED BY <1>1, <1>2

LEMMA FunctionIsSequence ==
    ASSUME NEW S, NEW n \in Nat, NEW s \in [1..n -> S]
    PROVE  s \in Seq(S)
  BY SeqDef, Zenon

LEMMA SequenceOver ==
    ASSUME NEW S, NEW T, NEW c \in Seq(S), \A j \in 1..Len(c) : c[j] \in T
    PROVE  c \in Seq(T)
  <1>1. Len(c) \in Nat /\ c = [j \in 1..Len(c) |-> c[j]] OBVIOUS
  <1>2. [j \in 1..Len(c) |-> c[j]] \in [1..Len(c) -> T] OBVIOUS
  <1>3. c \in [1..Len(c) -> T] BY <1>1, <1>2
  <1> QED BY <1>1, <1>3, FunctionIsSequence

(* The sequence of the partial results that FlattenSeq makes.                 *)
LEMMA FlattenByParts ==
    ASSUME NEW S, NEW ss \in Seq(Seq(S)), ss # <<>>
    PROVE  \E f \in [1..Len(ss) -> Seq(S)] :
             /\ f[1] = ss[1]
             /\ \A i \in 2..Len(ss) : f[i] = f[i - 1] \o ss[i]
             /\ FlattenSeq(ss) = f[Len(ss)]
  <1> DEFINE Body(g, n) == [i \in 1..n |-> IF i = 1 THEN ss[i] ELSE g[i - 1] \o ss[i]]
             Ok(n) == \E g : g = Body(g, n)
             F == CHOOSE g : g = Body(g, Len(ss))
             Bad == {n \in Nat : ~Ok(n)}
  <1>0. Len(ss) \in Nat \ {0} /\ \A i \in 1..Len(ss) : ss[i] \in Seq(S) OBVIOUS
  <1>1. Bad = {}
    <2> SUFFICES ASSUME Bad # {} PROVE FALSE OBVIOUS
    <2> HIDE DEF Ok
    <2>0. Bad \subseteq Nat OBVIOUS
    <2> HIDE DEF Bad
    <2>1. PICK n \in Bad : \A m \in Bad : n <= m BY <2>0, LeastNatural
    <2>a. n \in Nat /\ ~Ok(n) BY DEF Bad
    <2>2. n # 0
      <3>1. <<>> = Body(<<>>, 0) OBVIOUS
      <3>2. Ok(0) BY <3>1 DEF Ok
      <3> QED BY <3>2, <2>a
    <2>3. n - 1 \in Nat BY <2>2, <2>a
    <2>4. Ok(n - 1) BY <2>1, <2>3, <2>a DEF Bad
    <2>5. PICK g : g = Body(g, n - 1) BY <2>4 DEF Ok
    <2> DEFINE h == Body(g, n)
    <2>6. \A i \in 1..n - 1 : g[i] = IF i = 1 THEN ss[i] ELSE g[i - 1] \o ss[i] BY <2>5
    <2>7. \A i \in 1..n : h[i] = IF i = 1 THEN ss[i] ELSE g[i - 1] \o ss[i] OBVIOUS
    <2>8. \A i \in 1..n - 1 : h[i] = g[i] BY <2>6, <2>7, <2>3, <2>a
    <2>9. h = Body(h, n)
      <3> HIDE DEF h
      <3>0. \A i \in 1..n : i # 1 => i - 1 \in 1..n - 1 BY <2>3, <2>a
      <3>1. \A i \in 1..n : i # 1 => h[i - 1] = g[i - 1] BY <2>8, <3>0
      <3>2. \A i \in 1..n : (IF i = 1 THEN ss[i] ELSE h[i - 1] \o ss[i])
                             = IF i = 1 THEN ss[i] ELSE g[i - 1] \o ss[i] BY <3>1
      <3> QED BY <3>2 DEF h
    <2> HIDE DEF h
    <2>10. Ok(n) BY <2>9 DEF Ok
    <2> QED BY <2>10, <2>a
  <1>2. Ok(Len(ss)) BY <1>1, <1>0
  <1>3. F = Body(F, Len(ss)) BY <1>2
  <1>4. FlattenSeq(ss) = F[Len(ss)] BY <1>0 DEF FlattenSeq
  <1> HIDE DEF F
  <1>5. F[1] = ss[1] /\ \A i \in 2..Len(ss) : F[i] = F[i - 1] \o ss[i]
    <2>1. ASSUME NEW g, g = Body(g, Len(ss))
          PROVE  \A i \in 1..Len(ss) : g[i] = IF i = 1 THEN ss[i] ELSE g[i - 1] \o ss[i]
      BY <2>1
    <2>2. \A i \in 1..Len(ss) : F[i] = IF i = 1 THEN ss[i] ELSE F[i - 1] \o ss[i]
      BY <2>1, <1>3
    <2>3. 1 \in 1..Len(ss) /\ \A i \in 2..Len(ss) : i \in 1..Len(ss) /\ i # 1 BY <1>0
    <2> QED BY <2>2, <2>3
  <1>6. \A i \in 1..Len(ss) : F[i] \in Seq(S)
    <2> DEFINE Odd == {i \in 1..Len(ss) : F[i] \notin Seq(S)}
    <2> SUFFICES ASSUME Odd # {} PROVE FALSE OBVIOUS
    <2>1. PICK i \in Odd : \A j \in Odd : i <= j
      <3> DEFINE O == Odd
      <3>1. O \subseteq Nat /\ O # {} OBVIOUS
      <3> HIDE DEF O
      <3>2. \E i \in O : \A j \in O : i <= j BY <3>1, LeastNatural
      <3> QED BY <3>2 DEF O
    <2>2. i # 1 BY <1>5, <1>0
    <2>3. i - 1 \in 1..Len(ss) /\ i - 1 < i BY <2>2
    <2>4. F[i - 1] \in Seq(S) BY <2>1, <2>3
    <2>5. F[i] = F[i - 1] \o ss[i] /\ ss[i] \in Seq(S)
      <3>1. i \in 2..Len(ss) /\ i \in 1..Len(ss) BY <2>2
      <3> QED BY <1>5, <3>1, <1>0
    <2> QED BY <2>4, <2>5, ConcatProperties
  <1>7. F \in [1..Len(ss) -> Seq(S)] BY <1>3, <1>6
  <1> QED BY <1>4, <1>5, <1>7

-----------------------------------------------------------------------------
(* Parts of sequences.                                                        *)
LEMMA PartOf ==
    ASSUME NEW S, NEW t \in Seq(S), NEW a \in Nat, NEW b \in Nat, a <= b, b <= Len(t)
    PROVE  /\ SubSeq(t, a + 1, b) \in Seq(S)
           /\ Len(SubSeq(t, a + 1, b)) = b - a
           /\ \A i \in 1..b - a : SubSeq(t, a + 1, b)[i] = t[a + i]
  <1>1. \A i \in a + 1..b : t[i] \in S OBVIOUS
  <1>2. /\ SubSeq(t, a + 1, b) \in Seq(S)
        /\ Len(SubSeq(t, a + 1, b)) = IF a + 1 <= b THEN b - (a + 1) + 1 ELSE 0
        /\ \A i \in 1..b - (a + 1) + 1 : SubSeq(t, a + 1, b)[i] = t[a + 1 + i - 1]
    BY <1>1, SubSeqProperties
  <1>3. b - (a + 1) + 1 = b - a /\ (~(a + 1 <= b) => b - a = 0) OBVIOUS
  <1> QED BY <1>2, <1>3

LEMMA PartsMeet ==
    ASSUME NEW S, NEW t \in Seq(S), NEW a \in Nat, NEW b \in Nat, NEW c \in Nat,
           a <= b, b <= c, c <= Len(t)
    PROVE  SubSeq(t, a + 1, b) \o SubSeq(t, b + 1, c) = SubSeq(t, a + 1, c)
  <1> DEFINE p == SubSeq(t, a + 1, b)
             q == SubSeq(t, b + 1, c)
             r == SubSeq(t, a + 1, c)
  <1>1. p \in Seq(S) /\ Len(p) = b - a /\ \A i \in 1..b - a : p[i] = t[a + i] BY PartOf
  <1>2. q \in Seq(S) /\ Len(q) = c - b /\ \A i \in 1..c - b : q[i] = t[b + i] BY PartOf
  <1>3. r \in Seq(S) /\ Len(r) = c - a /\ \A i \in 1..c - a : r[i] = t[a + i]
    <2>1. a <= c /\ Len(t) \in Nat OBVIOUS
    <2> QED BY <2>1, PartOf
  <1> HIDE DEF p, q, r
  <1>4. /\ p \o q \in Seq(S) /\ Len(p \o q) = Len(p) + Len(q)
        /\ \A i \in 1..Len(p) + Len(q) :
              (p \o q)[i] = IF i <= Len(p) THEN p[i] ELSE q[i - Len(p)]
    BY <1>1, <1>2, ConcatProperties
  <1> DEFINE pq == p \o q
  <1> HIDE DEF pq
  <1>5. Len(pq) = c - a BY <1>1, <1>2, <1>4 DEF pq
  <1>6. ASSUME NEW i \in 1..c - a PROVE pq[i] = t[a + i]
    <2>1. CASE i <= b - a
      BY <2>1, <1>1, <1>2, <1>4 DEF pq
    <2>2. CASE ~(i <= b - a)
      <3>1. i - (b - a) \in 1..c - b /\ b + (i - (b - a)) = a + i BY <2>2
      <3>2. pq[i] = q[i - (b - a)] BY <2>2, <1>1, <1>2, <1>4 DEF pq
      <3> QED BY <3>1, <3>2, <1>2
    <2> QED BY <2>1, <2>2
  <1> QED BY <1>3, <1>4, <1>5, <1>6, SeqEqual DEF p, q, r, pq

(* Parts of a sequence that follow each other make a longer one.              *)
LEMMA FlattenedParts ==
    ASSUME NEW S, NEW t \in Seq(S), NEW ss \in Seq(Seq(S)), ss # <<>>,
           NEW g \in [0..Len(ss) -> Nat],
           \A k \in 1..Len(ss) : /\ g[k - 1] <= g[k] /\ g[k] <= Len(t)
                                 /\ ss[k] = SubSeq(t, g[k - 1] + 1, g[k])
    PROVE  FlattenSeq(ss) = SubSeq(t, g[0] + 1, g[Len(ss)]) /\ g[0] <= g[Len(ss)]
  <1>0. Len(ss) \in Nat \ {0} OBVIOUS
  <1>1. PICK f \in [1..Len(ss) -> Seq(S)] :
             /\ f[1] = ss[1]
             /\ \A i \in 2..Len(ss) : f[i] = f[i - 1] \o ss[i]
             /\ FlattenSeq(ss) = f[Len(ss)]
    BY FlattenByParts
  <1> DEFINE Right(k) == f[k] = SubSeq(t, g[0] + 1, g[k]) /\ g[0] <= g[k]
             Odd == {k \in 1..Len(ss) : ~Right(k)}
  <1>2. ASSUME Odd # {} PROVE FALSE
    <2>1. PICK k \in Odd : \A j \in Odd : k <= j
      <3> DEFINE O == Odd
      <3>1. O \subseteq Nat /\ O # {} BY <1>2
      <3> HIDE DEF O
      <3>2. \E k \in O : \A j \in O : k <= j BY <3>1, LeastNatural
      <3> QED BY <3>2 DEF O
    <2>2. k \in 1..Len(ss) /\ ~Right(k) OBVIOUS
    <2>3. k # 1 BY <1>1, <1>0, <2>2
    <2>4. k - 1 \in 1..Len(ss) /\ k \in 2..Len(ss) /\ k - 1 < k BY <2>2, <2>3
    <2>5. Right(k - 1) BY <2>1, <2>4
    <2> HIDE DEF Odd
    <2>6. f[k] = SubSeq(t, g[0] + 1, g[k - 1]) \o SubSeq(t, g[k - 1] + 1, g[k])
      BY <1>1, <2>4, <2>5, <2>2
    <2>a. 0 \in 0..Len(ss) /\ k - 1 \in 0..Len(ss) /\ k \in 0..Len(ss) BY <2>2, <2>4, <1>0
    <2>b. g[0] <= g[k - 1] BY <2>5
    <2>c. g[k - 1] <= g[k] /\ g[k] <= Len(t) BY <2>2
    <2>d. g[0] \in Nat /\ g[k - 1] \in Nat /\ g[k] \in Nat BY <2>a
    <2> DEFINE x == g[0]
               y == g[k - 1]
               z == g[k]
    <2>7. x \in Nat /\ y \in Nat /\ z \in Nat /\ x <= y /\ y <= z /\ z <= Len(t)
      BY <2>b, <2>c, <2>d
    <2>8. f[k] = SubSeq(t, g[0] + 1, g[k])
      <3>1. f[k] = SubSeq(t, x + 1, y) \o SubSeq(t, y + 1, z) BY <2>6
      <3> HIDE DEF x, y, z
      <3>2. f[k] = SubSeq(t, x + 1, z) BY <3>1, <2>7, PartsMeet
      <3> QED BY <3>2 DEF x, z
    <2>9. g[0] <= g[k] BY <2>7
    <2> QED BY <2>2, <2>8, <2>9
  <1>3. Right(Len(ss)) BY <1>2, <1>0
  <1> QED BY <1>1, <1>3

-----------------------------------------------------------------------------
(* Lists of blocks. One is laid from lo to hi when its blocks follow each other
   without a gap, none is empty, and those in memory have the bytes they claim; it
   tells of a text t, over a file f, when every block has the bytes of t at its
   place.                                                                     *)
Bytes == Values \cup (1..OriginalSize)
Blocks == {b \in [start : Nat, fileStart : Nat, size : Nat \ {0}, data : Seq(Bytes)] :
              IsFromDisk(b) \/ Len(b.data) = b.size}

Laid(bs, lo, hi) ==
    /\ bs \in Seq(Blocks)
    /\ IF bs = <<>> THEN lo = hi ELSE bs[1].start = lo /\ End(bs[Len(bs)]) = hi
    /\ \A k \in 2..Len(bs) : End(bs[k - 1]) = bs[k].start

Tells(b, f, t) ==
    /\ End(b) <= Len(t)
    /\ IsFromDisk(b) => b.fileStart + b.size <= Len(f)
    /\ \A i \in 1..b.size :
          t[b.start + i] = IF IsFromDisk(b) THEN f[b.fileStart + i] ELSE b.data[i]
Tell(bs, f, t) == \A k \in 1..Len(bs) : Tells(bs[k], f, t)

LEMMA BlockType ==
    ASSUME NEW b \in Blocks
    PROVE  /\ b.start \in Nat /\ b.fileStart \in Nat /\ b.size \in Nat /\ b.size > 0
           /\ b.data \in Seq(Bytes) /\ Len(b.data) \in Nat
           /\ End(b) \in Nat /\ End(b) = b.start + b.size /\ b.start < End(b)
           /\ IsFromDisk(b) \/ Len(b.data) = b.size
  BY DEF Blocks, End

LEMMA LaidFacts ==
    ASSUME NEW bs, NEW lo, NEW hi, Laid(bs, lo, hi)
    PROVE  /\ bs \in Seq(Blocks) /\ Len(bs) \in Nat
           /\ \A k \in 1..Len(bs) : bs[k] \in Blocks
           /\ \A k \in 2..Len(bs) : End(bs[k - 1]) = bs[k].start
           /\ bs # <<>> => /\ Len(bs) \in Nat \ {0}
                          /\ bs[1].start = lo /\ End(bs[Len(bs)]) = hi
           /\ bs = <<>> => lo = hi /\ Len(bs) = 0
  BY DEF Laid

(* The blocks lie in order between the ends.                                  *)
LEMMA LaidInOrder ==
    ASSUME NEW bs, NEW lo \in Nat, NEW hi \in Nat, Laid(bs, lo, hi)
    PROVE  /\ lo <= hi
           /\ \A k \in 1..Len(bs) : bs[k] \in Blocks /\ lo <= bs[k].start /\ End(bs[k]) <= hi
           /\ \A j, k \in 1..Len(bs) : j < k => End(bs[j]) <= bs[k].start
  <1>0. /\ bs \in Seq(Blocks) /\ Len(bs) \in Nat
        /\ \A k \in 1..Len(bs) : bs[k] \in Blocks
        /\ \A k \in 2..Len(bs) : End(bs[k - 1]) = bs[k].start
        /\ bs # <<>> => Len(bs) # 0 /\ bs[1].start = lo /\ End(bs[Len(bs)]) = hi
        /\ bs = <<>> => lo = hi /\ Len(bs) = 0
    BY DEF Laid
  <1>1. \A k \in 1..Len(bs) : /\ bs[k].start \in Nat /\ End(bs[k]) \in Nat
                              /\ bs[k].start < End(bs[k])
    BY <1>0, BlockType
  <1>2. ASSUME NEW j \in 1..Len(bs), NEW k \in 1..Len(bs), j < k
        PROVE  End(bs[j]) <= bs[k].start
    <2> DEFINE Odd == {i \in 1..Len(bs) : j < i /\ ~(End(bs[j]) <= bs[i].start)}
    <2>1. ASSUME Odd # {} PROVE FALSE
      <3>1. PICK i \in Odd : \A m \in Odd : i <= m
        <4> DEFINE O == Odd
        <4>1. O \subseteq Nat /\ O # {} BY <2>1
        <4> HIDE DEF O
        <4>2. \E i \in O : \A m \in O : i <= m BY <4>1, LeastNatural
        <4> QED BY <4>2 DEF O
      <3>2. i \in 1..Len(bs) /\ j < i /\ ~(End(bs[j]) <= bs[i].start) OBVIOUS
      <3>3. i \in 2..Len(bs) /\ i - 1 \in 1..Len(bs) /\ i - 1 < i BY <3>2
      <3>4. j < i - 1 => End(bs[j]) <= bs[i - 1].start BY <3>1, <3>3
      <3> HIDE DEF Odd
      <3>5. End(bs[i - 1]) = bs[i].start BY <1>0, <3>3
      <3>6. j = i - 1 \/ j < i - 1 BY <3>2
      <3>7. CASE j = i - 1
        <4>1. End(bs[j]) = bs[i].start BY <3>5, <3>7
        <4>2. End(bs[j]) \in Nat BY <1>1
        <4> QED BY <4>1, <4>2, <3>2
      <3>8. CASE j < i - 1
        BY <3>2, <3>3, <3>4, <3>5, <3>8, <1>1
      <3> QED BY <3>6, <3>7, <3>8
    <2> QED BY <2>1, <1>2
  <1>3. ASSUME NEW k \in 1..Len(bs) PROVE lo <= bs[k].start
    <2>1. 1 \in 1..Len(bs) /\ bs[1].start = lo BY <1>0
    <2>2. CASE k = 1 BY <2>1, <2>2
    <2>3. CASE k # 1
      <3>1. 1 < k BY <2>3
      <3>2. End(bs[1]) <= bs[k].start BY <2>1, <3>1, <1>2
      <3> QED BY <2>1, <3>2, <1>1
    <2> QED BY <2>2, <2>3
  <1>4. ASSUME NEW k \in 1..Len(bs) PROVE End(bs[k]) <= hi
    <2>1. Len(bs) \in 1..Len(bs) /\ End(bs[Len(bs)]) = hi BY <1>0
    <2>2. CASE k = Len(bs) BY <2>1, <2>2
    <2>3. CASE k # Len(bs)
      <3>1. k < Len(bs) BY <2>3, <1>0
      <3>2. End(bs[k]) <= bs[Len(bs)].start BY <2>1, <3>1, <1>2
      <3> QED BY <2>1, <3>2, <1>1
    <2> QED BY <2>2, <2>3
  <1>5. lo <= hi
    <2>1. CASE bs = <<>> BY <2>1, <1>0
    <2>2. CASE bs # <<>>
      <3>1. 1 \in 1..Len(bs) BY <2>2, <1>0
      <3> QED BY <3>1, <1>1, <1>3, <1>4
    <2> QED BY <2>1, <2>2
  <1> QED BY <1>0, <1>2, <1>3, <1>4, <1>5

(* One after the other; and cut in two at the end of a block.                 *)
LEMMA LaidTogether ==
    ASSUME NEW a, NEW b, NEW lo \in Nat, NEW mid \in Nat, NEW hi \in Nat,
           Laid(a, lo, mid), Laid(b, mid, hi)
    PROVE  /\ Laid(a \o b, lo, hi)
           /\ \A f, t : Tell(a, f, t) /\ Tell(b, f, t) => Tell(a \o b, f, t)
  <1> DEFINE c == a \o b
  <1>0. /\ a \in Seq(Blocks) /\ b \in Seq(Blocks) /\ Len(a) \in Nat /\ Len(b) \in Nat
        /\ a # <<>> => Len(a) # 0 /\ a[1].start = lo /\ End(a[Len(a)]) = mid
        /\ b # <<>> => Len(b) # 0 /\ b[1].start = mid /\ End(b[Len(b)]) = hi
        /\ a = <<>> => Len(a) = 0 /\ lo = mid
        /\ b = <<>> => Len(b) = 0 /\ mid = hi
    BY DEF Laid
  <1>1. /\ c \in Seq(Blocks) /\ Len(c) = Len(a) + Len(b)
        /\ \A i \in 1..Len(a) + Len(b) : c[i] = IF i <= Len(a) THEN a[i] ELSE b[i - Len(a)]
    BY <1>0, ConcatProperties
  <1> HIDE DEF c
  <1>2. ASSUME NEW i \in 1..Len(a) PROVE i \in 1..Len(c) /\ c[i] = a[i]
    <2>1. i \in 1..Len(a) + Len(b) /\ i <= Len(a) BY <1>0
    <2> QED BY <2>1, <1>1
  <1>3. ASSUME NEW i \in 1..Len(b) PROVE i + Len(a) \in 1..Len(c) /\ c[i + Len(a)] = b[i]
    <2>1. /\ i + Len(a) \in 1..Len(a) + Len(b) /\ ~(i + Len(a) <= Len(a))
          /\ i + Len(a) - Len(a) = i
      BY <1>0
    <2> QED BY <2>1, <1>1
  <1>4. IF c = <<>> THEN lo = hi ELSE c[1].start = lo /\ End(c[Len(c)]) = hi
    <2>1. CASE a = <<>> /\ b = <<>> BY <2>1, <1>0, <1>1
    <2>2. CASE a # <<>> /\ b = <<>>
      <3>1. 1 \in 1..Len(a) /\ Len(a) \in 1..Len(a) BY <2>2, <1>0
      <3>2. c # <<>> /\ Len(c) = Len(a) BY <2>2, <1>0, <1>1
      <3> QED BY <3>1, <3>2, <2>2, <1>0, <1>2
    <2>3. CASE a = <<>> /\ b # <<>>
      <3>1. 1 \in 1..Len(b) /\ Len(b) \in 1..Len(b) BY <2>3, <1>0
      <3>2. c # <<>> /\ Len(c) = Len(b) BY <2>3, <1>0, <1>1
      <3>3. c[1] = b[1] /\ c[Len(b)] = b[Len(b)]
        <4>1. c[1 + Len(a)] = b[1] /\ c[Len(b) + Len(a)] = b[Len(b)] BY <3>1, <1>3
        <4> QED BY <4>1, <2>3, <1>0
      <3> QED BY <3>2, <3>3, <2>3, <1>0
    <2>4. CASE a # <<>> /\ b # <<>>
      <3>1. 1 \in 1..Len(a) /\ Len(b) \in 1..Len(b) BY <2>4, <1>0
      <3>2. c # <<>> /\ Len(c) = Len(b) + Len(a) BY <2>4, <1>0, <1>1
      <3>3. c[1] = a[1] BY <3>1, <1>2
      <3>4. c[Len(b) + Len(a)] = b[Len(b)] BY <3>1, <1>3
      <3> QED BY <3>2, <3>3, <3>4, <2>4, <1>0
    <2> QED BY <2>1, <2>2, <2>3, <2>4
  <1>5. ASSUME NEW k \in 2..Len(c) PROVE End(c[k - 1]) = c[k].start
    <2>0. k \in 1..Len(a) + Len(b) /\ k > 1 BY <1>0, <1>1
    <2>1. CASE k <= Len(a)
      <3>1. k \in 2..Len(a) /\ k \in 1..Len(a) /\ k - 1 \in 1..Len(a) BY <2>0, <2>1, <1>0
      <3>2. c[k] = a[k] /\ c[k - 1] = a[k - 1] BY <3>1, <1>2
      <3> QED BY <3>1, <3>2 DEF Laid
    <2>2. CASE k = Len(a) + 1
      <3>1. a # <<>> /\ b # <<>> /\ Len(a) \in 1..Len(a) /\ 1 \in 1..Len(b)
        BY <2>0, <2>2, <1>0
      <3>2. c[Len(a)] = a[Len(a)] BY <3>1, <1>2
      <3>3. c[1 + Len(a)] = b[1] BY <3>1, <1>3
      <3>4. k - 1 = Len(a) /\ k = 1 + Len(a) BY <2>2, <1>0
      <3> QED BY <3>1, <3>2, <3>3, <3>4, <1>0
    <2>3. CASE k > Len(a) + 1
      <3> DEFINE i == k - Len(a)
      <3>1. /\ i \in 2..Len(b) /\ i \in 1..Len(b) /\ i - 1 \in 1..Len(b)
            /\ i + Len(a) = k /\ i - 1 + Len(a) = k - 1
        BY <2>0, <2>3, <1>0
      <3> HIDE DEF i
      <3>2. c[k] = b[i] /\ c[k - 1] = b[i - 1] BY <3>1, <1>3
      <3> QED BY <3>1, <3>2 DEF Laid
    <2> QED BY <2>0, <2>1, <2>2, <2>3, <1>0
  <1>6. Laid(c, lo, hi) BY <1>1, <1>4, <1>5 DEF Laid
  <1>7. ASSUME NEW f, NEW t, Tell(a, f, t), Tell(b, f, t) PROVE Tell(c, f, t)
    <2>1. ASSUME NEW k \in 1..Len(c) PROVE Tells(c[k], f, t)
      <3>1. CASE k <= Len(a)
        <4>1. k \in 1..Len(a) BY <3>1, <1>0
        <4> QED BY <4>1, <1>2, <1>7 DEF Tell
      <3>2. CASE ~(k <= Len(a))
        <4>1. k - Len(a) \in 1..Len(b) /\ k - Len(a) + Len(a) = k BY <3>2, <1>0, <1>1
        <4>2. c[k] = b[k - Len(a)]
          <5> DEFINE i == k - Len(a)
          <5>1. i \in 1..Len(b) /\ i + Len(a) = k BY <4>1
          <5> HIDE DEF i
          <5>2. c[k] = b[i] BY <5>1, <1>3
          <5> QED BY <5>2 DEF i
        <4> QED BY <4>1, <4>2, <1>7 DEF Tell
      <3> QED BY <3>1, <3>2
    <2> QED BY <2>1 DEF Tell
  <1> QED BY <1>6, <1>7 DEF c

LEMMA LaidPart ==
    ASSUME NEW bs, NEW lo \in Nat, NEW hi \in Nat, Laid(bs, lo, hi),
           NEW i \in 0..Len(bs), NEW j \in 0..Len(bs), i <= j
    PROVE  /\ Laid(SubSeq(bs, i + 1, j), IF i = 0 THEN lo ELSE End(bs[i]),
                                         IF j = 0 THEN lo ELSE End(bs[j]))
           /\ Len(SubSeq(bs, i + 1, j)) = j - i
           /\ \A k \in 1..j - i : SubSeq(bs, i + 1, j)[k] = bs[i + k]
           /\ \A f, t : Tell(bs, f, t) => Tell(SubSeq(bs, i + 1, j), f, t)
  <1> DEFINE c == SubSeq(bs, i + 1, j)
  <1>0. /\ bs \in Seq(Blocks) /\ Len(bs) \in Nat
        /\ \A k \in 2..Len(bs) : End(bs[k - 1]) = bs[k].start
        /\ bs # <<>> => Len(bs) # 0 /\ bs[1].start = lo /\ End(bs[Len(bs)]) = hi
        /\ bs = <<>> => lo = hi /\ Len(bs) = 0
    BY DEF Laid
  <1>1. /\ c \in Seq(Blocks) /\ Len(c) = j - i
        /\ \A k \in 1..j - i : c[k] = bs[i + k]
    BY <1>0, PartOf
  <1> HIDE DEF c
  <1>2. CASE i = j
    <2>1. c = <<>> /\ Len(c) = 0 BY <1>1, <1>2
    <2> QED BY <2>1, <1>1, <1>2 DEF Laid, Tell, c
  <1>3. CASE i < j
    <2>1. c # <<>> /\ j # 0 BY <1>1, <1>3
    <2>2. c[1].start = IF i = 0 THEN lo ELSE End(bs[i])
      <3>1. c[1] = bs[i + 1] BY <1>1, <1>3
      <3>2. i # 0 => i + 1 \in 2..Len(bs) /\ i + 1 - 1 = i BY <1>3
      <3>3. i # 0 => End(bs[i]) = bs[i + 1].start BY <3>2, <1>0
      <3>4. i = 0 => bs # <<>> /\ i + 1 = 1 BY <1>3, <1>0
      <3> QED BY <3>1, <3>3, <3>4, <1>0
    <2>3. c[Len(c)] = bs[j]
      <3>1. j - i \in 1..j - i /\ i + (j - i) = j BY <1>3
      <3> DEFINE n == j - i
      <3>2. n \in 1..n /\ i + n = j /\ c[n] = bs[i + n] BY <3>1, <1>1
      <3> QED BY <3>2, <1>1
    <2>4. ASSUME NEW k \in 2..Len(c) PROVE End(c[k - 1]) = c[k].start
      <3>1. k \in 1..j - i /\ k - 1 \in 1..j - i /\ i + k \in 2..Len(bs) BY <1>1
      <3>2. c[k] = bs[i + k] /\ c[k - 1] = bs[i + (k - 1)] BY <3>1, <1>1
      <3>3. i + (k - 1) = i + k - 1 OBVIOUS
      <3> QED BY <3>1, <3>2, <3>3, <1>0
    <2>5. Laid(c, IF i = 0 THEN lo ELSE End(bs[i]), IF j = 0 THEN lo ELSE End(bs[j]))
      BY <2>1, <2>2, <2>3, <2>4, <1>1 DEF Laid
    <2>6. ASSUME NEW f, NEW t, Tell(bs, f, t) PROVE Tell(c, f, t)
      <3>1. ASSUME NEW k \in 1..j - i PROVE Tells(c[k], f, t)
        <4>1. i + k \in 1..Len(bs) BY <1>0
        <4> QED BY <4>1, <1>1, <2>6 DEF Tell
      <3> QED BY <3>1, <1>1 DEF Tell
    <2> QED BY <2>5, <2>6, <1>1 DEF c
  <1> QED BY <1>2, <1>3

(* Lists that follow each other, flattened.                                   *)
LEMMA LaidFlattened ==
    ASSUME NEW ss, ss # <<>>, NEW g \in [0..Len(ss) -> Nat], ss \in Seq(Seq(Blocks)),
           \A k \in 1..Len(ss) : Laid(ss[k], g[k - 1], g[k])
    PROVE  /\ Laid(FlattenSeq(ss), g[0], g[Len(ss)])
           /\ \A f, t : (\A k \in 1..Len(ss) : Tell(ss[k], f, t)) => Tell(FlattenSeq(ss), f, t)
  <1>0. Len(ss) \in Nat \ {0} OBVIOUS
  <1>1. PICK r \in [1..Len(ss) -> Seq(Blocks)] :
             /\ r[1] = ss[1]
             /\ \A i \in 2..Len(ss) : r[i] = r[i - 1] \o ss[i]
             /\ FlattenSeq(ss) = r[Len(ss)]
    BY FlattenByParts
  <1> DEFINE AllTell(f, t) == \A k \in 1..Len(ss) : Tell(ss[k], f, t)
             Right(k) == /\ Laid(r[k], g[0], g[k])
                         /\ \A f, t : AllTell(f, t) => Tell(r[k], f, t)
             Odd == {k \in 1..Len(ss) : ~Right(k)}
  <1> HIDE DEF Right
  <1>2. Odd = {}
    <2> SUFFICES ASSUME Odd # {} PROVE FALSE OBVIOUS
    <2>1. PICK k \in Odd : \A j \in Odd : k <= j
      <3> DEFINE O == Odd
      <3>1. O \subseteq Nat /\ O # {} OBVIOUS
      <3> HIDE DEF O
      <3>2. \E k \in O : \A j \in O : k <= j BY <3>1, LeastNatural
      <3> QED BY <3>2 DEF O
    <2>2. k \in 1..Len(ss) /\ ~Right(k) OBVIOUS
    <2>3. k # 1
      <3>1. Laid(r[1], g[1 - 1], g[1]) BY <1>0, <1>1
      <3>2. \A f, t : AllTell(f, t) => Tell(r[1], f, t) BY <1>0, <1>1
      <3>3. 1 - 1 = 0 OBVIOUS
      <3>4. Right(1) BY <3>1, <3>2, <3>3 DEF Right
      <3> QED BY <3>4, <2>2
    <2>4. /\ k - 1 \in 1..Len(ss) /\ k \in 2..Len(ss) /\ k - 1 < k
          /\ 0 \in 0..Len(ss) /\ k - 1 \in 0..Len(ss) /\ k \in 0..Len(ss)
      BY <2>2, <2>3, <1>0
    <2>5. Right(k - 1) BY <2>1, <2>4
    <2> HIDE DEF Odd, AllTell
    <2> DEFINE a == r[k - 1]
               b == ss[k]
               x == g[0]
               y == g[k - 1]
               z == g[k]
    <2>6. x \in Nat /\ y \in Nat /\ z \in Nat /\ r[k] = a \o b BY <2>4, <1>1
    <2>7. Laid(a, x, y) /\ Laid(b, y, z) BY <2>2, <2>5 DEF Right
    <2>8. \A f, t : AllTell(f, t) => Tell(a, f, t) /\ Tell(b, f, t)
      BY <2>2, <2>5 DEF Right, AllTell
    <2> HIDE DEF a, b, x, y, z
    <2>9. Laid(a \o b, x, z) BY <2>6, <2>7, LaidTogether
    <2>10. \A f, t : Tell(a, f, t) /\ Tell(b, f, t) => Tell(a \o b, f, t)
      BY <2>6, <2>7, LaidTogether
    <2>11. Right(k)
      <3>1. Laid(r[k], g[0], g[k]) BY <2>6, <2>9 DEF x, z
      <3>2. \A f, t : AllTell(f, t) => Tell(r[k], f, t) BY <2>6, <2>8, <2>10
      <3> QED BY <3>1, <3>2 DEF Right
    <2> QED BY <2>2, <2>11
  <1>3. Right(Len(ss))
    <2>1. Len(ss) \in 1..Len(ss) BY <1>0
    <2>2. ~Right(Len(ss)) => Len(ss) \in Odd BY <2>1
    <2> QED BY <2>2, <1>2
  <1> QED BY <1>1, <1>3 DEF Right

(* The same blocks at another place, and of another text.                     *)
LEMMA LaidElsewhere ==
    ASSUME NEW bs, NEW lo \in Nat, NEW hi \in Nat, Laid(bs, lo, hi),
           NEW to \in Nat, NEW moved,
           moved = [k \in 1..Len(bs) |-> [bs[k] EXCEPT !.start = bs[k].start - lo + to]]
    PROVE  /\ Laid(moved, to, hi - lo + to)
           /\ \A f, t, u : /\ Tell(bs, f, t)
                           /\ Len(u) \in Nat /\ hi - lo + to <= Len(u)
                           /\ \A i \in 1..hi - lo : u[to + i] = t[lo + i]
                           => Tell(moved, f, u)
  <1>0. /\ bs \in Seq(Blocks) /\ Len(bs) \in Nat
        /\ \A k \in 2..Len(bs) : End(bs[k - 1]) = bs[k].start
        /\ bs # <<>> => Len(bs) # 0 /\ bs[1].start = lo /\ End(bs[Len(bs)]) = hi
        /\ bs = <<>> => lo = hi /\ Len(bs) = 0
    BY DEF Laid
  <1>1. /\ lo <= hi
        /\ \A k \in 1..Len(bs) : bs[k] \in Blocks /\ lo <= bs[k].start /\ End(bs[k]) <= hi
    BY LaidInOrder
  <1>2. ASSUME NEW k \in 1..Len(bs)
        PROVE  /\ moved[k] = [bs[k] EXCEPT !.start = bs[k].start - lo + to]
               /\ moved[k] \in Blocks
               /\ moved[k].start = bs[k].start - lo + to
               /\ End(moved[k]) = End(bs[k]) - lo + to
               /\ moved[k].size = bs[k].size /\ moved[k].data = bs[k].data
               /\ moved[k].fileStart = bs[k].fileStart
    <2>1. bs[k].start - lo + to \in Nat
      <3>1. bs[k].start \in Nat /\ lo <= bs[k].start BY <1>1, BlockType
      <3> QED BY <3>1
    <2>2. moved[k] = [bs[k] EXCEPT !.start = bs[k].start - lo + to] OBVIOUS
    <2>3. ASSUME NEW b \in Blocks, NEW n \in Nat
          PROVE  /\ [b EXCEPT !.start = n] \in Blocks
                 /\ [b EXCEPT !.start = n].start = n
                 /\ [b EXCEPT !.start = n].size = b.size
                 /\ [b EXCEPT !.start = n].data = b.data
                 /\ [b EXCEPT !.start = n].fileStart = b.fileStart
      BY DEF Blocks, IsFromDisk
    <2>4. bs[k] \in Blocks /\ bs[k].size \in Nat /\ bs[k].start \in Nat BY <1>1, BlockType
    <2>5. /\ moved[k] \in Blocks
          /\ moved[k].start = bs[k].start - lo + to
          /\ moved[k].size = bs[k].size /\ moved[k].data = bs[k].data
          /\ moved[k].fileStart = bs[k].fileStart
      BY <2>1, <2>2, <2>3, <2>4
    <2> QED BY <2>2, <2>4, <2>5 DEF End
  <1>3. moved \in Seq(Blocks) /\ Len(moved) = Len(bs)
    <2>1. moved \in [1..Len(bs) -> Blocks] BY <1>2
    <2> QED BY <2>1, <1>0
  <1>4. Laid(moved, to, hi - lo + to)
    <2>1. CASE bs = <<>>
      BY <2>1, <1>0, <1>3 DEF Laid
    <2>2. CASE bs # <<>>
      <3>1. 1 \in 1..Len(bs) /\ Len(bs) \in 1..Len(bs) BY <2>2, <1>0
      <3>2. moved # <<>> /\ moved[1].start = to /\ End(moved[Len(moved)]) = hi - lo + to
        <4>1. moved[1].start = bs[1].start - lo + to BY <3>1, <1>2
        <4>2. End(moved[Len(bs)]) = End(bs[Len(bs)]) - lo + to BY <3>1, <1>2
        <4>3. bs[1].start = lo /\ End(bs[Len(bs)]) = hi /\ lo - lo + to = to BY <2>2, <1>0
        <4>4. moved # <<>> BY <3>1, <1>3
        <4> QED BY <4>1, <4>2, <4>3, <4>4, <1>3
      <3>3. ASSUME NEW k \in 2..Len(bs) PROVE End(moved[k - 1]) = moved[k].start
        <4>1. k - 1 \in 1..Len(bs) /\ k \in 1..Len(bs) OBVIOUS
        <4> QED BY <4>1, <1>0, <1>2
      <3> QED BY <3>2, <3>3, <1>3 DEF Laid
    <2> QED BY <2>1, <2>2
  <1>5. ASSUME NEW f, NEW t, NEW u, Tell(bs, f, t), hi - lo + to <= Len(u), Len(u) \in Nat,
               \A i \in 1..hi - lo : u[to + i] = t[lo + i]
        PROVE  Tell(moved, f, u)
    <2>1. ASSUME NEW k \in 1..Len(bs) PROVE Tells(moved[k], f, u)
      <3> DEFINE b == bs[k]
                 c == moved[k]
      <3>1. Tells(b, f, t) BY <1>5 DEF Tell
      <3>2. /\ b \in Blocks /\ lo <= b.start /\ End(b) <= hi
            /\ c.start = b.start - lo + to /\ End(c) = End(b) - lo + to
            /\ c.size = b.size /\ c.data = b.data /\ c.fileStart = b.fileStart
        BY <1>1, <1>2
      <3> HIDE DEF b, c
      <3>3. b.start \in Nat /\ b.size \in Nat /\ End(b) = b.start + b.size
        BY <3>2, BlockType
      <3>4. ASSUME NEW i \in 1..b.size PROVE u[c.start + i] = t[b.start + i]
        <4> DEFINE x == b.start
                   e == End(b)
                   j == x - lo + i
        <4>1. x \in Nat /\ e = x + b.size /\ b.size \in Nat /\ lo <= x /\ e <= hi
          BY <3>2, <3>3
        <4>2. c.start = x - lo + to BY <3>2
        <4> HIDE DEF x, e
        <4>3. j \in 1..hi - lo /\ to + j = x - lo + to + i /\ lo + j = x + i
          BY <4>1
        <4> HIDE DEF j
        <4>4. u[to + j] = t[lo + j] BY <4>3, <1>5
        <4> QED BY <4>2, <4>3, <4>4 DEF x
      <3>5. End(c) <= Len(u) BY <3>2, <3>3, <1>5
      <3> QED BY <3>1, <3>2, <3>4, <3>5 DEF Tells, IsFromDisk, c
    <2> QED BY <2>1, <1>3 DEF Tell
  <1> QED BY <1>4, <1>5

-----------------------------------------------------------------------------
(* What InsertNewBlock makes of a block.                                      *)
Clip(pos, lo, hi) == IF pos <= lo THEN lo ELSE IF pos <= hi THEN pos ELSE hi

LEMMA OneBlockIsLaid ==
    ASSUME NEW b \in Blocks
    PROVE  /\ Laid(<<b>>, b.start, End(b))
           /\ \A f, t : Tell(<<b>>, f, t) <=> Tells(b, f, t)
           /\ <<b>> \in Seq(Blocks) /\ Len(<<b>>) = 1 /\ <<b>>[1] = b
  <1>1. <<b>> \in Seq(Blocks) /\ Len(<<b>>) = 1 /\ <<b>>[1] = b /\ <<b>> # <<>> OBVIOUS
  <1> DEFINE s == <<b>>
  <1> HIDE DEF s
  <1>2. s \in Seq(Blocks) /\ Len(s) = 1 /\ s[1] = b /\ s # <<>> BY <1>1 DEF s
  <1>3. Laid(s, b.start, End(b)) BY <1>2 DEF Laid
  <1>4. \A f, t : Tell(s, f, t) <=> Tells(b, f, t) BY <1>2 DEF Tell
  <1> QED BY <1>2, <1>3, <1>4 DEF s

LEMMA NoBlockIsLaid ==
    ASSUME NEW lo
    PROVE  Laid(<<>>, lo, lo) /\ \A f, t : Tell(<<>>, f, t)
  BY DEF Laid, Tell

LEMMA FirstPartIsLaid ==
    ASSUME NEW b \in Blocks, NEW pos \in Nat
    PROVE  /\ Laid(FirstPart(b, pos), b.start, Clip(pos, b.start, End(b)))
           /\ \A f, t : Tells(b, f, t) => Tell(FirstPart(b, pos), f, t)
           /\ \A k \in 1..Len(FirstPart(b, pos)) : IsFromDisk(FirstPart(b, pos)[k]) <=> IsFromDisk(b)
  <1>0. /\ b.start \in Nat /\ b.fileStart \in Nat /\ b.size \in Nat /\ b.size > 0
        /\ b.data \in Seq(Bytes) /\ Len(b.data) \in Nat
        /\ End(b) \in Nat /\ End(b) = b.start + b.size /\ b.start < End(b)
        /\ IsFromDisk(b) \/ Len(b.data) = b.size
    BY BlockType
  <1>1. CASE b.start >= pos
    <2>1. FirstPart(b, pos) = <<>> /\ Clip(pos, b.start, End(b)) = b.start
      BY <1>0, <1>1 DEF FirstPart, Clip
    <2>2. Laid(<<>>, b.start, b.start) /\ (\A f, t : Tell(<<>>, f, t)) /\ Len(<<>>) = 0
      BY NoBlockIsLaid
    <2> QED BY <2>1, <2>2
  <1>2. CASE ~(b.start >= pos)
    <2> DEFINE size == IF b.size <= pos - b.start THEN b.size ELSE pos - b.start
               c == [b EXCEPT !.size = size,
                              !.data = IF IsFromDisk(b) THEN b.data ELSE SubSeq(b.data, 1, size)]
    <2>1. FirstPart(b, pos) = <<c>>
      <3>1. Min({b.size, pos - b.start}) = size
        <4>1. pos - b.start \in Nat BY <1>0, <1>2
        <4> QED BY <1>0, <4>1, MinOfTwo
      <3> QED BY <3>1, <1>2 DEF FirstPart
    <2>2. /\ size \in Nat \ {0} /\ size <= b.size
          /\ b.start + size = Clip(pos, b.start, End(b))
      BY <1>0, <1>2 DEF Clip
    <2> HIDE DEF size
    <2>3. ~IsFromDisk(b) => /\ SubSeq(b.data, 1, size) \in Seq(Bytes)
                            /\ Len(SubSeq(b.data, 1, size)) = size
                            /\ \A i \in 1..size : SubSeq(b.data, 1, size)[i] = b.data[i]
      <3>1. ASSUME ~IsFromDisk(b)
            PROVE  /\ SubSeq(b.data, 0 + 1, size) \in Seq(Bytes)
                   /\ Len(SubSeq(b.data, 0 + 1, size)) = size - 0
                   /\ \A i \in 1..size - 0 : SubSeq(b.data, 0 + 1, size)[i] = b.data[0 + i]
        <4>1. 0 \in Nat /\ size \in Nat /\ 0 <= size /\ size <= Len(b.data)
          BY <1>0, <2>2, <3>1
        <4> QED BY <1>0, <4>1, PartOf
      <3>2. 0 + 1 = 1 /\ size - 0 = size /\ \A i \in 1..size : 0 + i = i BY <2>2
      <3> QED BY <3>1, <3>2
    <2> DEFINE data == IF IsFromDisk(b) THEN b.data ELSE SubSeq(b.data, 1, size)
    <2>4. data \in Seq(Bytes) /\ (IsFromDisk(b) <=> data = <<>>)
      <3>1. CASE IsFromDisk(b) BY <3>1, <1>0 DEF IsFromDisk
      <3>2. CASE ~IsFromDisk(b)
        <4>1. data \in Seq(Bytes) /\ Len(data) = size BY <3>2, <2>3
        <4> HIDE DEF data
        <4>2. data # <<>> BY <4>1, <2>2
        <4> QED BY <3>2, <4>1, <4>2
      <3> QED BY <3>1, <3>2
    <2>5. ~IsFromDisk(b) => Len(data) = size /\ \A i \in 1..size : data[i] = b.data[i]
      BY <2>3
    <2> HIDE DEF data
    <2>6. ASSUME NEW d \in Seq(Bytes), d = <<>> \/ Len(d) = size
          PROVE  /\ [b EXCEPT !.size = size, !.data = d] \in Blocks
                 /\ [b EXCEPT !.size = size, !.data = d].start = b.start
                 /\ [b EXCEPT !.size = size, !.data = d].size = size
                 /\ [b EXCEPT !.size = size, !.data = d].data = d
                 /\ [b EXCEPT !.size = size, !.data = d].fileStart = b.fileStart
      BY <2>2, <2>6 DEF Blocks, IsFromDisk
    <2>7. c = [b EXCEPT !.size = size, !.data = data] BY DEF data
    <2> HIDE DEF c
    <2>8. /\ c \in Blocks /\ c.start = b.start /\ c.size = size /\ c.data = data
          /\ c.fileStart = b.fileStart
      <3>1. data = <<>> \/ Len(data) = size BY <2>4, <2>5
      <3> QED BY <2>4, <2>6, <2>7, <3>1
    <2>9. (IsFromDisk(c) <=> IsFromDisk(b)) /\ End(c) = Clip(pos, b.start, End(b))
      BY <2>2, <2>4, <2>8 DEF IsFromDisk, End
    <2>10. ASSUME NEW f, NEW t, Tells(b, f, t), Len(t) \in Nat, Len(f) \in Nat PROVE Tells(c, f, t)
      <3>1. End(c) <= Len(t) /\ (IsFromDisk(c) => c.fileStart + c.size <= Len(f))
        BY <2>10, <2>2, <2>8, <2>9, <1>0 DEF Tells, End
      <3>2. ASSUME NEW i \in 1..c.size
            PROVE  t[c.start + i] = IF IsFromDisk(c) THEN f[c.fileStart + i] ELSE c.data[i]
        <4>1. i \in 1..b.size BY <2>2, <2>8, <1>0
        <4> QED BY <4>1, <2>5, <2>8, <2>9, <2>10 DEF Tells
      <3> QED BY <3>1, <3>2 DEF Tells
    <2>11. Laid(<<c>>, c.start, End(c)) BY <2>8, OneBlockIsLaid
    <2> QED BY <2>1, <2>8, <2>9, <2>10, <2>11, OneBlockIsLaid
  <1> QED BY <1>1, <1>2, <1>0

LEMMA LastPartIsLaid ==
    ASSUME NEW b \in Blocks, NEW pos \in Nat
    PROVE  /\ Laid(LastPart(b, pos), Clip(pos, b.start, End(b)), End(b))
           /\ \A f, t : Tells(b, f, t) => Tell(LastPart(b, pos), f, t)
           /\ \A k \in 1..Len(LastPart(b, pos)) : IsFromDisk(LastPart(b, pos)[k]) <=> IsFromDisk(b)
  <1>0. /\ b.start \in Nat /\ b.fileStart \in Nat /\ b.size \in Nat /\ b.size > 0
        /\ b.data \in Seq(Bytes) /\ Len(b.data) \in Nat
        /\ End(b) \in Nat /\ End(b) = b.start + b.size /\ b.start < End(b)
        /\ IsFromDisk(b) \/ Len(b.data) = b.size
    BY BlockType
  <1>1. CASE End(b) <= pos
    <2>1. LastPart(b, pos) = <<>> /\ Clip(pos, b.start, End(b)) = End(b)
      BY <1>0, <1>1 DEF LastPart, Clip
    <2>2. Laid(<<>>, End(b), End(b)) /\ (\A f, t : Tell(<<>>, f, t)) /\ Len(<<>>) = 0
      BY NoBlockIsLaid
    <2> QED BY <2>1, <2>2
  <1>2. CASE ~(End(b) <= pos)
    <2> DEFINE skip == IF pos > b.start THEN pos - b.start ELSE 0
               data == SubSeq(b.data, skip + 1, Len(b.data))
               place == IF IsFromDisk(b) THEN b.fileStart + skip ELSE 0
               c == [start |-> b.start + skip, size |-> b.size - skip,
                     fileStart |-> place, data |-> data]
    <2>1. LastPart(b, pos) = <<c>> BY <1>2 DEF LastPart
    <2>2. /\ skip \in Nat /\ skip < b.size /\ place \in Nat
          /\ b.start + skip = Clip(pos, b.start, End(b))
      BY <1>0, <1>2 DEF Clip
    <2>a. IsFromDisk(b) => place = b.fileStart + skip OBVIOUS
    <2> HIDE DEF skip, place
    <2>3. IsFromDisk(b) => data = <<>>
      BY <2>2 DEF IsFromDisk
    <2>4. ~IsFromDisk(b) => /\ data \in Seq(Bytes)
                            /\ Len(data) = b.size - skip
                            /\ \A i \in 1..b.size - skip : data[i] = b.data[skip + i]
      <3>1. ASSUME ~IsFromDisk(b)
            PROVE  /\ data \in Seq(Bytes)
                   /\ Len(data) = Len(b.data) - skip
                   /\ \A i \in 1..Len(b.data) - skip : data[i] = b.data[skip + i]
        <4>1. skip <= Len(b.data) BY <1>0, <2>2, <3>1
        <4> QED BY <1>0, <2>2, <4>1, PartOf
      <3> QED BY <3>1, <1>0
    <2> HIDE DEF data
    <2>5. data \in Seq(Bytes) /\ (IsFromDisk(b) <=> data = <<>>)
      <3>1. CASE IsFromDisk(b) BY <3>1, <2>3
      <3>2. CASE ~IsFromDisk(b)
        <4>1. data # <<>> BY <3>2, <2>2, <2>4, <1>0
        <4> QED BY <3>2, <4>1, <2>4
      <3> QED BY <3>1, <3>2
    <2>6. /\ c.start = b.start + skip /\ c.size = b.size - skip /\ c.data = data
          /\ c.fileStart = place /\ c \in Blocks
      <3>1. b.start + skip \in Nat /\ b.size - skip \in Nat \ {0} BY <2>2, <1>0
      <3>2. data = <<>> \/ Len(data) = b.size - skip BY <2>4, <2>5
      <3> QED BY <3>1, <3>2, <2>2, <2>5 DEF Blocks, IsFromDisk
    <2> HIDE DEF c
    <2>7. (IsFromDisk(c) <=> IsFromDisk(b)) /\ End(c) = End(b)
      BY <2>2, <2>5, <2>6, <1>0 DEF IsFromDisk, End
    <2>8. ASSUME NEW f, NEW t, Tells(b, f, t) PROVE Tells(c, f, t)
      <3>1. End(c) <= Len(t) BY <2>7, <2>8 DEF Tells
      <3>2. IsFromDisk(c) => c.fileStart + c.size <= Len(f)
        <4>1. ASSUME IsFromDisk(c) PROVE c.fileStart + c.size = b.fileStart + b.size
          BY <4>1, <2>a, <2>2, <2>6, <2>7, <1>0
        <4> QED BY <4>1, <2>7, <2>8 DEF Tells
      <3>3. ASSUME NEW i \in 1..c.size
            PROVE  t[c.start + i] = IF IsFromDisk(c) THEN f[c.fileStart + i] ELSE c.data[i]
        <4>1. skip + i \in 1..b.size /\ b.start + (skip + i) = c.start + i
          BY <2>2, <2>6, <1>0
        <4>2. t[b.start + (skip + i)]
                 = IF IsFromDisk(b) THEN f[b.fileStart + (skip + i)] ELSE b.data[skip + i]
          BY <4>1, <2>8 DEF Tells
        <4>3. CASE IsFromDisk(b)
          <5>a. c.fileStart = b.fileStart + skip BY <4>3, <2>6, <2>a
          <5>1. b.fileStart + (skip + i) = c.fileStart + i BY <5>a, <2>2, <1>0
          <5> QED BY <4>1, <4>2, <4>3, <5>1, <2>7
        <4>4. CASE ~IsFromDisk(b)
          <5>1. c.data[i] = b.data[skip + i] BY <4>4, <2>4, <2>6
          <5> QED BY <4>1, <4>2, <4>4, <5>1, <2>7
        <4> QED BY <4>3, <4>4
      <3> QED BY <3>1, <3>2, <3>3 DEF Tells
    <2>9. Laid(<<c>>, c.start, End(c)) BY <2>6, OneBlockIsLaid
    <2> QED BY <2>1, <2>2, <2>6, <2>7, <2>8, <2>9, OneBlockIsLaid
  <1> QED BY <1>1, <1>2, <1>0

-----------------------------------------------------------------------------
(* The text that blocks tell of, and where a byte of it is found.             *)
LEMMA BytesOfBlock ==
    ASSUME NEW b \in Blocks, NEW f \in Seq(Bytes), NEW t \in Seq(Bytes), Tells(b, f, t)
    PROVE  /\ IsFromDisk(b) =>
                SubSeq(f, b.fileStart + 1, Min({b.fileStart + b.size, Len(f)}))
                  = SubSeq(t, b.start + 1, End(b))
           /\ ~IsFromDisk(b) => b.data = SubSeq(t, b.start + 1, End(b))
  <1>0. /\ b.start \in Nat /\ b.fileStart \in Nat /\ b.size \in Nat /\ b.size > 0
        /\ b.data \in Seq(Bytes) /\ Len(b.data) \in Nat
        /\ End(b) \in Nat /\ End(b) = b.start + b.size /\ b.start < End(b)
        /\ IsFromDisk(b) \/ Len(b.data) = b.size
        /\ Len(t) \in Nat /\ Len(f) \in Nat
    BY BlockType
  <1> DEFINE q == SubSeq(t, b.start + 1, End(b))
  <1>1. /\ q \in Seq(Bytes) /\ Len(q) = b.size
        /\ \A i \in 1..b.size : q[i] = t[b.start + i]
    <2>1. b.start <= End(b) /\ End(b) <= Len(t) /\ End(b) - b.start = b.size BY <1>0 DEF Tells
    <2>2. /\ q \in Seq(Bytes) /\ Len(q) = End(b) - b.start
          /\ \A i \in 1..End(b) - b.start : q[i] = t[b.start + i]
      <3> DEFINE a == b.start
                 e == End(b)
      <3>1. a \in Nat /\ e \in Nat /\ a <= e /\ e <= Len(t) BY <2>1, <1>0
      <3> HIDE DEF a, e
      <3>2. /\ SubSeq(t, a + 1, e) \in Seq(Bytes) /\ Len(SubSeq(t, a + 1, e)) = e - a
            /\ \A i \in 1..e - a : SubSeq(t, a + 1, e)[i] = t[a + i]
        BY <3>1, PartOf
      <3> QED BY <3>2 DEF a, e
    <2> QED BY <2>1, <2>2
  <1> HIDE DEF q
  <1>2. ASSUME ~IsFromDisk(b) PROVE b.data = q
    <2>1. Len(b.data) = b.size BY <1>0, <1>2
    <2>2. \A i \in 1..b.size : b.data[i] = q[i] BY <1>1, <1>2 DEF Tells
    <2> QED BY <2>1, <2>2, <1>0, <1>1, SeqEqual
  <1>3. ASSUME IsFromDisk(b)
        PROVE  SubSeq(f, b.fileStart + 1, Min({b.fileStart + b.size, Len(f)})) = q
    <2> DEFINE a == b.fileStart
               e == b.fileStart + b.size
               p == SubSeq(f, a + 1, e)
    <2>1. a \in Nat /\ e \in Nat /\ a <= e /\ e <= Len(f) /\ e - a = b.size /\ Len(f) \in Nat
      BY <1>0, <1>3 DEF Tells
    <2>2. Min({e, Len(f)}) = e BY <2>1, MinOfTwo
    <2> HIDE DEF e
    <2>3. /\ p \in Seq(Bytes) /\ Len(p) = e - a
          /\ \A i \in 1..e - a : p[i] = f[a + i]
      BY <2>1, PartOf
    <2> HIDE DEF p
    <2>4. \A i \in 1..b.size : p[i] = q[i] BY <2>1, <2>3, <1>1, <1>3 DEF Tells
    <2>5. p = q BY <2>1, <2>3, <2>4, <1>1, SeqEqual
    <2> QED BY <2>2, <2>5 DEF e, p
  <1> QED BY <1>2, <1>3 DEF q

(* The bytes of each block, as the parts of the text they are.                *)
PartsAre(ss, bs, t) ==
    \A k \in 1..Len(bs) : ss[k] = SubSeq(t, bs[k].start + 1, End(bs[k]))

LEMMA BlocksFlattened ==
    ASSUME NEW bs, bs # <<>>, NEW lo \in Nat, NEW hi \in Nat, Laid(bs, lo, hi),
           NEW f, NEW t \in Seq(Bytes), Tell(bs, f, t),
           NEW ss \in [1..Len(bs) -> Seq(Bytes)],
           PartsAre(ss, bs, t)
    PROVE  FlattenSeq(ss) = SubSeq(t, lo + 1, hi)
  <1>0. /\ Len(bs) \in Nat \ {0} /\ bs[1].start = lo /\ End(bs[Len(bs)]) = hi
        /\ \A k \in 2..Len(bs) : End(bs[k - 1]) = bs[k].start
        /\ \A k \in 1..Len(bs) : bs[k] \in Blocks
    BY DEF Laid
  <1>1. ASSUME NEW k \in 1..Len(bs)
        PROVE  /\ bs[k].start \in Nat /\ End(bs[k]) \in Nat /\ bs[k].start <= End(bs[k])
               /\ End(bs[k]) <= Len(t)
    <2>1. bs[k] \in Blocks /\ Tells(bs[k], f, t) BY <1>0 DEF Tell
    <2>2. bs[k].start \in Nat /\ End(bs[k]) \in Nat /\ bs[k].start < End(bs[k]) BY <2>1, BlockType
    <2>3. End(bs[k]) <= Len(t) BY <2>1 DEF Tells
    <2> QED BY <2>2, <2>3
  <1>2. ss \in Seq(Seq(Bytes)) /\ Len(ss) = Len(bs) /\ ss # <<>>
    <2>1. ss \in Seq(Seq(Bytes)) BY <1>0, FunctionIsSequence
    <2>2. Len(ss) = Len(bs) BY <1>0, <2>1
    <2> QED BY <2>1, <2>2, <1>0
  <1> DEFINE g == [k \in 0..Len(ss) |-> IF k = 0 THEN lo ELSE End(bs[k])]
  <1>3. g \in [0..Len(ss) -> Nat]
    <2>1. ASSUME NEW k \in 0..Len(ss) PROVE (IF k = 0 THEN lo ELSE End(bs[k])) \in Nat
      <3>1. k # 0 => k \in 1..Len(bs) BY <1>2
      <3> QED BY <3>1, <1>1
    <2> QED BY <2>1
  <1>4. g[0] = lo /\ g[Len(ss)] = hi BY <1>0, <1>2
  <1>5. ASSUME NEW k \in 1..Len(ss)
        PROVE  g[k - 1] <= g[k] /\ g[k] <= Len(t) /\ ss[k] = SubSeq(t, g[k - 1] + 1, g[k])
    <2>1. k \in 1..Len(bs) /\ k - 1 \in 0..Len(ss) /\ k \in 0..Len(ss) /\ k # 0 BY <1>2
    <2>2. g[k] = End(bs[k]) BY <2>1
    <2>3. g[k - 1] = bs[k].start
      <3>1. CASE k = 1 BY <3>1, <1>0, <1>2
      <3>2. CASE k # 1
        <4>1. k \in 2..Len(bs) /\ k - 1 # 0 BY <3>2, <2>1
        <4> QED BY <4>1, <2>1, <1>0
      <3> QED BY <3>1, <3>2
    <2>4. ss[k] = SubSeq(t, bs[k].start + 1, End(bs[k])) BY <2>1 DEF PartsAre
    <2> HIDE DEF g
    <2> QED BY <2>1, <2>2, <2>3, <2>4, <1>1
  <1> HIDE DEF g
  <1>6. FlattenSeq(ss) = SubSeq(t, g[0] + 1, g[Len(ss)])
    BY <1>2, <1>3, <1>5, FlattenedParts
  <1> QED BY <1>4, <1>6

LEMMA FlattenedNothing == FlattenSeq(<<>>) = <<>>
  BY DEF FlattenSeq

BytesIn(f, b) ==
    IF IsFromDisk(b) THEN SubSeq(f, b.fileStart + 1, Min({b.fileStart + b.size, Len(f)}))
    ELSE b.data
TextOf(f, bs) == FlattenSeq([k \in DOMAIN bs |-> BytesIn(f, bs[k])])

LEMMA TextTold ==
    ASSUME NEW t \in Seq(Bytes), NEW f \in Seq(Bytes), NEW bs, Laid(bs, 0, Len(t)), Tell(bs, f, t)
    PROVE  TextOf(f, bs) = t
  <1> DEFINE ss == [k \in DOMAIN bs |-> BytesIn(f, bs[k])]
  <1>0. bs \in Seq(Blocks) /\ Len(bs) \in Nat /\ DOMAIN bs = 1..Len(bs) BY DEF Laid
  <1>1. CASE bs = <<>>
    <2>1. ss = <<>> /\ t = <<>> BY <1>1, <1>0 DEF Laid
    <2> HIDE DEF ss
    <2> QED BY <2>1, FlattenedNothing DEF TextOf, ss
  <1>2. CASE bs # <<>>
    <2>2. ASSUME NEW k \in 1..Len(bs)
          PROVE  /\ ss[k] = SubSeq(t, bs[k].start + 1, End(bs[k]))
                 /\ ss[k] \in Seq(Bytes)
      <3>1. bs[k] \in Blocks /\ Tells(bs[k], f, t) BY <1>0 DEF Tell
      <3>2. BytesIn(f, bs[k]) = SubSeq(t, bs[k].start + 1, End(bs[k]))
        BY <3>1, BytesOfBlock DEF BytesIn
      <3> DEFINE a == bs[k].start
                 e == End(bs[k])
      <3>3. a \in Nat /\ e \in Nat /\ a <= e /\ e <= Len(t) BY <3>1, BlockType DEF Tells
      <3> HIDE DEF a, e
      <3>4. SubSeq(t, a + 1, e) \in Seq(Bytes) BY <3>3, PartOf
      <3> QED BY <3>2, <3>4, <1>0 DEF a, e
    <2>1. ss \in [1..Len(bs) -> Seq(Bytes)] BY <2>2, <1>0
    <2> HIDE DEF ss
    <2>3. FlattenSeq(ss) = SubSeq(t, 0 + 1, Len(t))
      <3> DEFINE n == Len(t)
                 z == 0
      <3>1. z \in Nat /\ n \in Nat /\ Laid(bs, z, n) OBVIOUS
      <3> HIDE DEF n, z
      <3>2. PartsAre(ss, bs, t) BY <2>2 DEF PartsAre
      <3>3. FlattenSeq(ss) = SubSeq(t, z + 1, n)
        BY <3>1, <3>2, <2>1, <1>2, BlocksFlattened
      <3> QED BY <3>3 DEF n, z
    <2>4. SubSeq(t, 0 + 1, Len(t)) = t
      <3> DEFINE q == SubSeq(t, 0 + 1, Len(t))
      <3>1. Len(t) \in Nat /\ 0 <= Len(t) /\ Len(t) <= Len(t) OBVIOUS
      <3>2. /\ q \in Seq(Bytes) /\ Len(q) = Len(t) - 0 /\ \A i \in 1..Len(t) - 0 : q[i] = t[0 + i]
        BY <3>1, PartOf
      <3> HIDE DEF q
      <3>3. Len(q) = Len(t) /\ \A i \in 1..Len(t) : q[i] = t[i] BY <3>2
      <3>4. q = t BY <3>2, <3>3, SeqEqual
      <3> QED BY <3>4 DEF q
    <2> QED BY <2>3, <2>4 DEF TextOf, ss
  <1> QED BY <1>1, <1>2

LEMMA SizeOfLaid ==
    ASSUME NEW bs, NEW n \in Nat, Laid(bs, 0, n)
    PROVE  GetSize(bs) = n
  BY DEF Laid, GetSize, Last

LEMMA PlaceFound ==
    ASSUME NEW bs, NEW lo \in Nat, NEW hi \in Nat, Laid(bs, lo, hi),
           NEW pos \in Nat, lo <= pos, pos < hi
    PROVE  \E k \in 1..Len(bs) : bs[k].start <= pos /\ pos < End(bs[k])
  <1>0. /\ bs \in Seq(Blocks) /\ Len(bs) \in Nat
        /\ \A k \in 2..Len(bs) : End(bs[k - 1]) = bs[k].start
        /\ Len(bs) # 0 /\ bs[1].start = lo /\ End(bs[Len(bs)]) = hi
    BY DEF Laid
  <1>1. \A k \in 1..Len(bs) : /\ bs[k].start \in Nat /\ End(bs[k]) \in Nat
                              /\ bs[k].start < End(bs[k])
    BY <1>0, BlockType
  <1> DEFINE Ahead == {k \in 1..Len(bs) : pos < End(bs[k])}
  <1>2. PICK k \in Ahead : \A j \in Ahead : k <= j
    <2> DEFINE O == Ahead
    <2>1. Len(bs) \in O BY <1>0
    <2>2. O \subseteq Nat /\ O # {} BY <2>1
    <2> HIDE DEF O
    <2>3. \E k \in O : \A j \in O : k <= j BY <2>2, LeastNatural
    <2> QED BY <2>3 DEF O
  <1>3. k \in 1..Len(bs) /\ pos < End(bs[k]) OBVIOUS
  <1>4. bs[k].start <= pos
    <2>1. CASE k = 1 BY <2>1, <1>0
    <2>2. CASE k # 1
      <3>1. k \in 2..Len(bs) /\ k - 1 \in 1..Len(bs) /\ k - 1 < k BY <1>3, <2>2
      <3>2. ~(pos < End(bs[k - 1])) BY <3>1, <1>2
      <3>3. End(bs[k - 1]) = bs[k].start /\ End(bs[k - 1]) \in Nat BY <3>1, <1>0, <1>1
      <3> QED BY <3>2, <3>3
    <2> QED BY <2>1, <2>2
  <1> QED BY <1>3, <1>4

LEMMA BlockFound ==
    ASSUME NEW bs, NEW n \in Nat, Laid(bs, 0, n), NEW pos \in Nat
    PROVE  /\ pos < n => /\ FindBlock(bs, pos) \in 1..Len(bs)
                         /\ bs[FindBlock(bs, pos)].start <= pos
                         /\ pos < End(bs[FindBlock(bs, pos)])
           /\ pos >= n => FindBlock(bs, pos) = Len(bs) + 1
           /\ bs # <<>> <=> n > 0
  <1>0. /\ bs \in Seq(Blocks) /\ Len(bs) \in Nat /\ GetSize(bs) = n
        /\ DOMAIN bs = 1..Len(bs)
        /\ \A k \in 2..Len(bs) : End(bs[k - 1]) = bs[k].start
        /\ bs # <<>> => Len(bs) # 0 /\ bs[1].start = 0 /\ End(bs[Len(bs)]) = n
        /\ bs = <<>> => n = 0
    BY SizeOfLaid DEF Laid
  <1>1. \A k \in 1..Len(bs) : /\ bs[k].start \in Nat /\ End(bs[k]) \in Nat
                              /\ bs[k].start < End(bs[k])
    BY <1>0, BlockType
  <1>2. bs # <<>> <=> n > 0
    <2>1. bs # <<>> => Len(bs) \in 1..Len(bs) BY <1>0
    <2> QED BY <2>1, <1>0, <1>1
  <1>3. ASSUME pos < n
        PROVE  \E k \in 1..Len(bs) : bs[k].start <= pos /\ pos < End(bs[k])
    BY <1>3, PlaceFound
  <1>4. ASSUME pos < n
        PROVE  /\ FindBlock(bs, pos) \in 1..Len(bs)
               /\ bs[FindBlock(bs, pos)].start <= pos
               /\ pos < End(bs[FindBlock(bs, pos)])
    <2> DEFINE P(k) == bs[k].start <= pos /\ pos < End(bs[k])
    <2>1. FindBlock(bs, pos) = CHOOSE k \in 1..Len(bs) : P(k)
      BY <1>0, <1>4 DEF FindBlock
    <2>2. \E k \in 1..Len(bs) : P(k) BY <1>3, <1>4
    <2> HIDE DEF P
    <2>3. FindBlock(bs, pos) \in 1..Len(bs) /\ P(FindBlock(bs, pos)) BY <2>1, <2>2
    <2> QED BY <2>3 DEF P
  <1>5. pos >= n => FindBlock(bs, pos) = Len(bs) + 1 BY <1>0 DEF FindBlock
  <1> QED BY <1>2, <1>4, <1>5

-----------------------------------------------------------------------------
(* MergeBlocks.                                                               *)
LEMMA GreatestNatural ==
    ASSUME NEW n \in Nat, NEW T, T \subseteq 0..n, T # {}
    PROVE  \E x \in T : \A y \in T : x >= y
  <1> DEFINE O == {n - x : x \in T}
  <1>1. O \subseteq Nat /\ O # {}
    <2>1. \A x \in T : n - x \in Nat OBVIOUS
    <2>2. PICK x \in T : TRUE OBVIOUS
    <2>3. n - x \in O OBVIOUS
    <2> QED BY <2>1, <2>3
  <1>2. \A y \in T : y \in Nat /\ n - y \in O OBVIOUS
  <1>3. \A o \in O : \E x \in T : o = n - x OBVIOUS
  <1> HIDE DEF O
  <1>4. PICK o \in O : \A m \in O : o <= m BY <1>1, LeastNatural
  <1>5. PICK x \in T : o = n - x BY <1>3
  <1>6. ASSUME NEW y \in T PROVE x >= y
    <2>1. n - x <= n - y BY <1>2, <1>4, <1>5
    <2> QED BY <2>1, <1>2
  <1> QED BY <1>6

LEMMA FlattenedEmpties ==
    ASSUME NEW n \in Nat \ {0}, NEW ss, ss \in [1..n -> {<<>>}]
    PROVE  FlattenSeq(ss) = <<>>
  <1> DEFINE t == <<>>
             g == [k \in 0..n |-> 0]
  <1>1. t \in Seq(Bytes) /\ Len(t) = 0 /\ SubSeq(t, 1, 0) = t OBVIOUS
  <1> HIDE DEF t
  <1>2. ss \in [1..n -> Seq(Bytes)] BY <1>1 DEF t
  <1>3. ss \in Seq(Seq(Bytes)) /\ Len(ss) = n /\ ss # <<>>
    <2>1. ss \in Seq(Seq(Bytes)) BY <1>2, FunctionIsSequence
    <2> QED BY <2>1, <1>2
  <1>4. g \in [0..Len(ss) -> Nat] /\ g[0] = 0 /\ g[Len(ss)] = 0 BY <1>3
  <1>5. ASSUME NEW k \in 1..Len(ss)
        PROVE  g[k - 1] <= g[k] /\ g[k] <= Len(t) /\ ss[k] = SubSeq(t, g[k - 1] + 1, g[k])
    <2>1. k - 1 \in 0..n /\ k \in 0..n /\ k \in 1..n BY <1>3
    <2>2. g[k - 1] = 0 /\ g[k] = 0 BY <2>1
    <2>3. ss[k] = t BY <2>1 DEF t
    <2> HIDE DEF g
    <2> QED BY <2>2, <2>3, <1>1
  <1> HIDE DEF g
  <1>6. FlattenSeq(ss) = SubSeq(t, g[0] + 1, g[Len(ss)])
    BY <1>1, <1>3, <1>4, <1>5, FlattenedParts
  <1> QED BY <1>1, <1>4, <1>6 DEF t

(* A run of blocks that all join makes one block.                             *)
MergedRun(c) == [c[1] EXCEPT !.size = End(c[Len(c)]) - c[1].start,
                             !.data = FlattenSeq([k \in 1..Len(c) |-> c[k].data])]

LEMMA RunMerges ==
    ASSUME NEW c, c # <<>>, NEW lo \in Nat, NEW hi \in Nat, Laid(c, lo, hi),
           NEW f \in Seq(Bytes), NEW t \in Seq(Bytes), Tell(c, f, t),
           \A k \in 1..Len(c) - 1 : Joins(c[k], c[k + 1])
    PROVE  /\ MergedRun(c) \in Blocks /\ MergedRun(c).start = lo /\ End(MergedRun(c)) = hi
           /\ Tells(MergedRun(c), f, t)
  <1> DEFINE ss == [k \in 1..Len(c) |-> c[k].data]
             data == FlattenSeq(ss)
             m == MergedRun(c)
  <1>0. /\ Len(c) \in Nat \ {0} /\ 1 \in 1..Len(c) /\ Len(c) \in 1..Len(c)
        /\ c[1].start = lo /\ End(c[Len(c)]) = hi
        /\ \A k \in 2..Len(c) : End(c[k - 1]) = c[k].start
        /\ \A k \in 1..Len(c) : c[k] \in Blocks
    BY DEF Laid
  <1>1. ASSUME NEW k \in 1..Len(c)
        PROVE  /\ c[k].start \in Nat /\ c[k].size \in Nat /\ c[k].fileStart \in Nat
               /\ End(c[k]) \in Nat /\ End(c[k]) = c[k].start + c[k].size
               /\ c[k].start < End(c[k]) /\ c[k].data \in Seq(Bytes)
               /\ Tells(c[k], f, t) /\ End(c[k]) <= Len(t) /\ lo <= c[k].start /\ End(c[k]) <= hi
    <2>1. c[k] \in Blocks /\ Tells(c[k], f, t) BY <1>0 DEF Tell
    <2>2. lo <= c[k].start /\ End(c[k]) <= hi BY LaidInOrder
    <2> QED BY <2>1, <2>2, BlockType DEF Tells
  <1>2. lo < hi /\ hi <= Len(t) BY <1>0, <1>1
  <1>3. ASSUME NEW d \in Seq(Bytes), d = <<>> \/ Len(d) = hi - lo
        PROVE  LET b == [c[1] EXCEPT !.size = hi - lo, !.data = d]
               IN  /\ b \in Blocks /\ b.start = lo /\ b.size = hi - lo /\ b.data = d
                   /\ b.fileStart = c[1].fileStart /\ End(b) = hi
    <2> DEFINE n == hi - lo
    <2>1. n \in Nat \ {0} /\ lo + n = hi BY <1>2
    <2>a. d = <<>> \/ Len(d) = n BY <1>3
    <2> HIDE DEF n
    <2>2. ASSUME NEW a \in Blocks, a.start = lo
          PROVE  LET b == [a EXCEPT !.size = n, !.data = d]
                 IN  /\ b \in Blocks /\ b.start = lo /\ b.size = n /\ b.data = d
                     /\ b.fileStart = a.fileStart /\ End(b) = hi
      BY <2>1, <2>a, <2>2 DEF Blocks, IsFromDisk, End
    <2> QED BY <2>2, <1>0 DEF n
  <1>4. m = [c[1] EXCEPT !.size = hi - lo, !.data = data] BY <1>0 DEF MergedRun
  <1>5. \A k \in 1..Len(c) : IsFromDisk(c[k]) <=> IsFromDisk(c[1])
    <2> DEFINE O == {k \in 1..Len(c) : ~(IsFromDisk(c[k]) <=> IsFromDisk(c[1]))}
    <2> SUFFICES ASSUME O # {} PROVE FALSE OBVIOUS
    <2>0. O \subseteq Nat OBVIOUS
    <2> HIDE DEF O
    <2>1. PICK k \in O : \A j \in O : k <= j BY <2>0, LeastNatural
    <2>2. k \in 1..Len(c) /\ ~(IsFromDisk(c[k]) <=> IsFromDisk(c[1])) BY DEF O
    <2>3. k # 1 BY <2>2
    <2>4. k - 1 \in 1..Len(c) - 1 /\ k - 1 \in 1..Len(c) /\ k - 1 + 1 = k /\ ~(k <= k - 1)
      BY <2>2, <2>3, <1>0
    <2>5. IsFromDisk(c[k - 1]) <=> IsFromDisk(c[1]) BY <2>1, <2>4 DEF O
    <2>6. Joins(c[k - 1], c[k]) BY <2>4
    <2> QED BY <2>2, <2>5, <2>6 DEF Joins
  <1>6. CASE IsFromDisk(c[1])
    <2>1. data = <<>>
      <3>1. ss \in [1..Len(c) -> {<<>>}] BY <1>5, <1>6 DEF IsFromDisk
      <3> HIDE DEF ss
      <3> QED BY <3>1, <1>0, FlattenedEmpties
    <2>2. /\ m \in Blocks /\ m.start = lo /\ m.size = hi - lo /\ m.data = <<>>
          /\ m.fileStart = c[1].fileStart /\ End(m) = hi
      <3>1. <<>> \in Seq(Bytes) OBVIOUS
      <3> HIDE DEF data, m
      <3> QED BY <3>1, <2>1, <1>3, <1>4
    <2> HIDE DEF m
    <2>3. \A k \in 1..Len(c) : c[k].fileStart = c[1].fileStart + (c[k].start - lo)
      <3> DEFINE O == {k \in 1..Len(c) : c[k].fileStart # c[1].fileStart + (c[k].start - lo)}
      <3> SUFFICES ASSUME O # {} PROVE FALSE OBVIOUS
      <3>0. O \subseteq Nat OBVIOUS
      <3> HIDE DEF O
      <3>1. PICK k \in O : \A j \in O : k <= j BY <3>0, LeastNatural
      <3>2. k \in 1..Len(c) /\ c[k].fileStart # c[1].fileStart + (c[k].start - lo) BY DEF O
      <3>3. k # 1 BY <3>2, <1>0, <1>1
      <3>4. /\ k - 1 \in 1..Len(c) - 1 /\ k - 1 \in 1..Len(c) /\ k - 1 + 1 = k /\ ~(k <= k - 1)
            /\ k \in 2..Len(c)
        BY <3>2, <3>3, <1>0
      <3>5. c[k - 1].fileStart = c[1].fileStart + (c[k - 1].start - lo) BY <3>1, <3>4 DEF O
      <3>6. c[k - 1].fileStart + c[k - 1].size = c[k].fileStart
        <4>1. Joins(c[k - 1], c[k]) /\ IsFromDisk(c[k - 1]) BY <3>4, <1>5, <1>6
        <4> QED BY <4>1 DEF Joins
      <3>7. c[k].start = c[k - 1].start + c[k - 1].size BY <3>4, <1>0, <1>1
      <3>8. /\ c[k - 1].fileStart \in Nat /\ c[k - 1].size \in Nat /\ c[k - 1].start \in Nat
            /\ c[1].fileStart \in Nat
        BY <3>4, <1>0, <1>1
      <3> DEFINE x == c[k - 1].fileStart
                 y == c[k - 1].start
                 z == c[k - 1].size
                 w == c[1].fileStart
      <3>9. x \in Nat /\ y \in Nat /\ z \in Nat /\ w \in Nat /\ x = w + (y - lo)
        BY <3>5, <3>8
      <3> DEFINE cs == c[k].start
                 cf == c[k].fileStart
      <3>10. cf = x + z /\ cs = y + z BY <3>6, <3>7
      <3> HIDE DEF x, y, z, w, cs, cf
      <3>11. cf = w + (cs - lo) BY <3>9, <3>10
      <3> QED BY <3>2, <3>11 DEF w, cs, cf
    <2>4. m.fileStart + m.size <= Len(f)
      <3> DEFINE l == c[Len(c)]
      <3>1. /\ l.fileStart = c[1].fileStart + (l.start - lo) /\ l.start + l.size = hi
            /\ l.fileStart + l.size <= Len(f)
            /\ l.start \in Nat /\ l.size \in Nat /\ c[1].fileStart \in Nat
        BY <2>3, <1>0, <1>1, <1>5, <1>6 DEF Tells
      <3> HIDE DEF l
      <3> QED BY <3>1, <2>2
    <2>5. ASSUME NEW i \in 1..m.size PROVE t[m.start + i] = f[m.fileStart + i]
      <3>1. lo + i - 1 \in Nat /\ lo <= lo + i - 1 /\ lo + i - 1 < hi BY <2>2
      <3>2. PICK k \in 1..Len(c) : c[k].start <= lo + i - 1 /\ lo + i - 1 < End(c[k])
        BY <3>1, PlaceFound
      <3> DEFINE a == c[k].start
                 j == lo + i - a
      <3>3. /\ a \in Nat /\ c[k].size \in Nat /\ End(c[k]) = a + c[k].size
            /\ c[k].fileStart = c[1].fileStart + (a - lo) /\ c[1].fileStart \in Nat
        BY <2>3, <1>0, <1>1
      <3>4. j \in 1..c[k].size
        <4> DEFINE n == c[k].size
        <4>1. a \in Nat /\ n \in Nat /\ a <= lo + i - 1 /\ lo + i - 1 < a + n BY <3>2, <3>3
        <4> HIDE DEF a, n
        <4>2. lo + i - a \in 1..n BY <4>1, <2>2
        <4> QED BY <4>2 DEF n
      <3>5. t[a + j] = f[c[k].fileStart + j]
        <4>1. Tells(c[k], f, t) /\ IsFromDisk(c[k]) BY <1>1, <1>5, <1>6
        <4> QED BY <4>1, <3>4 DEF Tells
      <3>6. a + j = m.start + i /\ c[k].fileStart + j = m.fileStart + i
        <4> DEFINE w == c[1].fileStart
                   cf == c[k].fileStart
        <4>1. a \in Nat /\ w \in Nat /\ cf = w + (a - lo) BY <3>3
        <4>2. m.start = lo /\ m.fileStart = w /\ lo \in Nat /\ i \in Int BY <2>2
        <4> HIDE DEF a, w, cf, m
        <4>3. a + (lo + i - a) = lo + i /\ cf + (lo + i - a) = w + i
          BY ONLY <4>1, <4>2
        <4> QED BY <4>2, <4>3 DEF cf
      <3> QED BY <3>5, <3>6
    <2>6. End(m) <= Len(t) /\ IsFromDisk(m) BY <2>2, <1>2 DEF IsFromDisk
    <2>7. Tells(m, f, t) BY <2>4, <2>5, <2>6 DEF Tells
    <2> QED BY <2>2, <2>7 DEF m
  <1>7. CASE ~IsFromDisk(c[1])
    <2> DEFINE q == SubSeq(t, lo + 1, hi)
    <2>1. data = q
      <3>1. ASSUME NEW k \in 1..Len(c)
            PROVE  ss[k] = SubSeq(t, c[k].start + 1, End(c[k])) /\ ss[k] \in Seq(Bytes)
        <4>1. c[k] \in Blocks /\ Tells(c[k], f, t) /\ ~IsFromDisk(c[k]) BY <1>0, <1>1, <1>5, <1>7
        <4>2. c[k].data = SubSeq(t, c[k].start + 1, End(c[k])) BY <4>1, BytesOfBlock
        <4> QED BY <4>2, <1>1
      <3>2. ss \in [1..Len(c) -> Seq(Bytes)] BY <3>1
      <3>3. PartsAre(ss, c, t) BY <3>1 DEF PartsAre
      <3> HIDE DEF ss
      <3> QED BY <3>2, <3>3, BlocksFlattened
    <2>2. q \in Seq(Bytes) /\ Len(q) = hi - lo /\ \A i \in 1..hi - lo : q[i] = t[lo + i]
      <3>1. lo <= hi BY <1>2
      <3> QED BY <3>1, <1>2, PartOf
    <2> HIDE DEF q
    <2>3. /\ m \in Blocks /\ m.start = lo /\ m.size = hi - lo /\ m.data = q /\ End(m) = hi
      <3> HIDE DEF data, m
      <3> QED BY <2>1, <2>2, <1>3, <1>4
    <2> HIDE DEF m
    <2>4. ~IsFromDisk(m) BY <2>2, <2>3, <1>2 DEF IsFromDisk
    <2>5. \A i \in 1..m.size : t[m.start + i] = m.data[i] BY <2>2, <2>3
    <2>6. Tells(m, f, t) BY <2>3, <2>4, <2>5, <1>2 DEF Tells
    <2> QED BY <2>3, <2>6 DEF m
  <1> QED BY <1>6, <1>7

LEMMA MergeBlocksKeeps ==
    ASSUME NEW bs, NEW lo \in Nat, NEW hi \in Nat, Laid(bs, lo, hi),
           NEW f \in Seq(Bytes), NEW t \in Seq(Bytes), Tell(bs, f, t), NEW at \in 1..Len(bs)
    PROVE  /\ Laid(MergeBlocks(bs, at), lo, hi)
           /\ Tell(MergeBlocks(bs, at), f, t)
  <1> DEFINE L == Len(bs)
             Before == {x \in 1..at : \A k \in x..at - 1 : Joins(bs[k], bs[k + 1])}
             After == {l \in at..L : \A k \in at + 1..l : Joins(bs[k - 1], bs[k])}
             first == Min(Before)
             last == Max(After)
  <1>0. /\ bs \in Seq(Blocks) /\ L \in Nat \ {0} /\ bs # <<>>
        /\ \A k \in 1..L : bs[k] \in Blocks
        /\ bs[1].start = lo /\ End(bs[L]) = hi
        /\ \A k \in 2..L : End(bs[k - 1]) = bs[k].start
    BY DEF Laid
  <1>1. first \in 1..at /\ \A k \in first..at - 1 : Joins(bs[k], bs[k + 1])
    <2>1. Before \subseteq Nat /\ at \in Before OBVIOUS
    <2> DEFINE B == Before
    <2> HIDE DEF B
    <2>2. \E x \in B : \A y \in B : x <= y BY <2>1, LeastNatural DEF B
    <2>3. Min(B) \in B BY <2>2 DEF Min
    <2> QED BY <2>3 DEF B
  <1>2. last \in at..L /\ \A k \in at + 1..last : Joins(bs[k - 1], bs[k])
    <2>1. After \subseteq 0..L /\ at \in After BY <1>0
    <2> DEFINE A == After
    <2> HIDE DEF A
    <2>2. \E x \in A : \A y \in A : x >= y BY <1>0, <2>1, GreatestNatural DEF A
    <2>3. Max(A) \in A BY <2>2 DEF Max
    <2> QED BY <2>3 DEF A
  <1> DEFINE merged == [bs[first] EXCEPT
                      !.size = End(bs[last]) - bs[first].start,
                      !.data = FlattenSeq([k \in 1..last - first + 1 |-> bs[first + k - 1].data])]
  <1>3. MergeBlocks(bs, at) = SubSeq(bs, 1, first - 1) \o <<merged>> \o SubSeq(bs, last + 1, L)
    BY DEF MergeBlocks
  <1> HIDE DEF first, last
  <1> DEFINE n == last - first + 1
             p == first - 1
             c == SubSeq(bs, p + 1, last)
             from == IF p = 0 THEN lo ELSE End(bs[p])
             to == End(bs[last])
  <1>4. /\ first \in 1..L /\ last \in 1..L /\ first <= last /\ n \in Nat \ {0}
        /\ p \in 0..L /\ p <= last /\ last \in 0..L /\ last # 0 /\ last - p = n /\ p + 1 = first
    BY <1>0, <1>1, <1>2
  <1>5. from = bs[first].start /\ from \in Nat /\ to \in Nat
    <2>1. bs[first] \in Blocks /\ bs[last] \in Blocks BY <1>0, <1>4
    <2>2. bs[first].start \in Nat /\ to \in Nat BY <2>1, BlockType
    <2>3. CASE first = 1 BY <2>2, <2>3, <1>0, <1>4
    <2>4. CASE first # 1
      <3>1. first \in 2..L /\ p # 0 BY <2>4, <1>4
      <3> QED BY <2>2, <3>1, <1>0
    <2> QED BY <2>2, <2>3, <2>4
  <1>6. /\ Laid(c, from, to) /\ Len(c) = n /\ \A k \in 1..n : c[k] = bs[p + k]
        /\ Tell(c, f, t)
    <2> HIDE DEF p
    <2>1. /\ Laid(c, from, IF last = 0 THEN lo ELSE End(bs[last])) /\ Len(c) = last - p
          /\ \A k \in 1..last - p : c[k] = bs[p + k]
          /\ Tell(c, f, t)
      BY <1>4, LaidPart
    <2> QED BY <2>1, <1>4
  <1>7. c # <<>> BY <1>4, <1>6
  <1>8. ASSUME NEW k \in 1..Len(c) - 1 PROVE Joins(c[k], c[k + 1])
    <2>1. k \in 1..n /\ k + 1 \in 1..n BY <1>4, <1>6
    <2>2. c[k] = bs[p + k] /\ c[k + 1] = bs[p + (k + 1)] BY <2>1, <1>6
    <2> DEFINE j == p + k
    <2>3. j \in first..last - 1 /\ p + (k + 1) = j + 1 BY <2>1, <1>4
    <2> HIDE DEF j, p
    <2>4. Joins(bs[j], bs[j + 1])
      <3>1. CASE j <= at - 1
        <4>1. j \in first..at - 1 BY <2>3, <3>1, <1>4
        <4> QED BY <4>1, <1>1
      <3>2. CASE ~(j <= at - 1)
        <4> DEFINE i == j + 1
        <4>1. i \in at + 1..last /\ i - 1 = j BY <2>3, <3>2, <1>4
        <4> HIDE DEF i
        <4>2. Joins(bs[i - 1], bs[i]) BY <4>1, <1>2
        <4> QED BY <4>1, <4>2 DEF i
      <3> QED BY <3>1, <3>2
    <2> QED BY <2>2, <2>3, <2>4 DEF j
  <1>9. merged = MergedRun(c)
    <2>1. c[1] = bs[first] /\ c[Len(c)] = bs[last]
      <3>1. 1 \in 1..n /\ n \in 1..n /\ p + n = last BY <1>4
      <3> QED BY <3>1, <1>4, <1>6
    <2>2. [k \in 1..n |-> bs[first + k - 1].data] = [k \in 1..Len(c) |-> c[k].data]
      <3>1. ASSUME NEW k \in 1..n PROVE bs[first + k - 1].data = c[k].data
        <4>1. first + k - 1 = p + k BY <1>4
        <4> QED BY <4>1, <1>6
      <3>2. Len(c) = n BY <1>6
      <3> HIDE DEF n, c
      <3> QED BY <3>1, <3>2
    <2> HIDE DEF n, c
    <2> QED BY <2>1, <2>2, <1>4 DEF MergedRun, n
  <1>10. /\ merged \in Blocks /\ merged.start = from /\ End(merged) = to
         /\ Tells(merged, f, t)
    <2> HIDE DEF c, merged, from, to
    <2> QED BY <1>5, <1>6, <1>7, <1>8, <1>9, RunMerges
  <1>11. Laid(<<merged>>, from, to) /\ Tell(<<merged>>, f, t)
    <2> HIDE DEF merged, from, to
    <2> QED BY <1>10, OneBlockIsLaid
  <1> DEFINE head == SubSeq(bs, 1, first - 1)
             tail == SubSeq(bs, last + 1, L)
  <1>12. Laid(head, lo, from) /\ Tell(head, f, t)
    <2> DEFINE z == 0
    <2> HIDE DEF p, z
    <2>1. z \in 0..L /\ p \in 0..L /\ z <= p /\ z = 0 BY <1>4 DEF z
    <2>2. /\ Laid(SubSeq(bs, z + 1, p), IF z = 0 THEN lo ELSE End(bs[z]), from)
          /\ Tell(SubSeq(bs, z + 1, p), f, t)
      BY <2>1, LaidPart
    <2>3. z + 1 = 1 /\ p = first - 1 BY DEF p, z
    <2> QED BY <2>1, <2>2, <2>3
  <1>13. Laid(tail, to, hi) /\ Tell(tail, f, t)
    <2>1. last \in 0..L /\ L \in 0..L /\ last <= L BY <1>0, <1>4
    <2>2. /\ Laid(SubSeq(bs, last + 1, L), IF last = 0 THEN lo ELSE End(bs[last]),
                                           IF L = 0 THEN lo ELSE End(bs[L]))
          /\ Tell(SubSeq(bs, last + 1, L), f, t)
      BY <2>1, LaidPart
    <2> QED BY <2>2, <1>0, <1>4
  <1> HIDE DEF head, tail, merged, from, to
  <1>14. Laid(head \o <<merged>>, lo, to) /\ Tell(head \o <<merged>>, f, t)
    BY <1>5, <1>11, <1>12, LaidTogether
  <1>15. /\ Laid((head \o <<merged>>) \o tail, lo, hi)
         /\ Tell((head \o <<merged>>) \o tail, f, t)
    BY <1>5, <1>13, <1>14, LaidTogether
  <1> QED BY <1>3, <1>15 DEF head, tail

-----------------------------------------------------------------------------
(* Lists in which every block is replaced by a list. The ends of the blocks go to
   where m says.                                                              *)
LEMMA FlattenedType ==
    ASSUME NEW S, NEW ss \in Seq(Seq(S))
    PROVE  FlattenSeq(ss) \in Seq(S)
  <1>1. CASE ss = <<>>
    <2>1. FlattenSeq(ss) = <<>> BY <1>1, FlattenedNothing
    <2>2. <<>> \in Seq(S) OBVIOUS
    <2> QED BY <2>1, <2>2
  <1>2. CASE ss # <<>>
    <2>1. PICK f \in [1..Len(ss) -> Seq(S)] : FlattenSeq(ss) = f[Len(ss)]
      BY <1>2, FlattenByParts
    <2>2. Len(ss) \in 1..Len(ss) BY <1>2
    <2> QED BY <2>1, <2>2
  <1> QED BY <1>1, <1>2

PiecesLaid(ss, bs, m) == \A k \in 1..Len(bs) : Laid(ss[k], m[bs[k].start], m[End(bs[k])])
PiecesTell(ss, f, t) == \A k \in DOMAIN ss : Tell(ss[k], f, t)
Same == [x \in Nat |-> x]

LEMMA LaidEach ==
    ASSUME NEW bs, bs # <<>>, NEW lo \in Nat, NEW hi \in Nat, Laid(bs, lo, hi),
           NEW m \in [Nat -> Nat], NEW ss \in [1..Len(bs) -> Seq(Blocks)],
           PiecesLaid(ss, bs, m)
    PROVE  /\ Laid(FlattenSeq(ss), m[lo], m[hi])
           /\ \A f, t : PiecesTell(ss, f, t) => Tell(FlattenSeq(ss), f, t)
  <1>0. /\ Len(bs) \in Nat \ {0} /\ bs[1].start = lo /\ End(bs[Len(bs)]) = hi
        /\ \A k \in 2..Len(bs) : End(bs[k - 1]) = bs[k].start
        /\ \A k \in 1..Len(bs) : bs[k] \in Blocks
    BY LaidFacts
  <1>1. ss \in Seq(Seq(Blocks)) /\ Len(ss) = Len(bs) /\ ss # <<>>
    <2>1. ss \in Seq(Seq(Blocks)) BY <1>0, FunctionIsSequence
    <2>2. Len(ss) = Len(bs) BY <1>0, <2>1
    <2> QED BY <2>1, <2>2, <1>0
  <1>2. \A k \in 1..Len(bs) : bs[k].start \in Nat /\ End(bs[k]) \in Nat BY <1>0, BlockType
  <1> DEFINE g == [k \in 0..Len(ss) |-> IF k = 0 THEN m[lo] ELSE m[End(bs[k])]]
  <1>3. g \in [0..Len(ss) -> Nat]
    <2>1. ASSUME NEW k \in 0..Len(ss) PROVE (IF k = 0 THEN m[lo] ELSE m[End(bs[k])]) \in Nat
      <3>1. k # 0 => k \in 1..Len(bs) BY <1>1
      <3>2. k # 0 => End(bs[k]) \in Nat BY <3>1, <1>2
      <3> QED BY <3>2
    <2> QED BY <2>1
  <1>4. g[0] = m[lo] /\ g[Len(ss)] = m[hi]
    <2>1. 0 \in 0..Len(ss) /\ Len(ss) \in 0..Len(ss) /\ Len(ss) # 0 BY <1>0, <1>1
    <2>2. g[0] = m[lo] BY <2>1
    <2>3. g[Len(ss)] = m[End(bs[Len(ss)])] BY <2>1
    <2> QED BY <2>2, <2>3, <1>0, <1>1
  <1>5. ASSUME NEW k \in 1..Len(ss) PROVE Laid(ss[k], g[k - 1], g[k])
    <2>0. k \in Nat /\ k \in 1..Len(ss) OBVIOUS
    <2>1. k \in 1..Len(bs) /\ k - 1 \in 0..Len(ss) /\ k \in 0..Len(ss) /\ k # 0
      <3> DEFINE n == Len(ss)
      <3>1. n \in Nat /\ k \in 1..n /\ n = Len(bs) BY <1>0, <1>1
      <3> HIDE DEF g, n
      <3>2. k \in 1..n /\ k - 1 \in 0..n /\ k \in 0..n /\ k # 0 BY ONLY <2>0, <3>1
      <3> QED BY <3>1, <3>2 DEF n
    <2>2. g[k] = m[End(bs[k])] BY <2>1
    <2>3. g[k - 1] = m[bs[k].start]
      <3>1. CASE k = 1 BY <3>1, <1>0, <1>1
      <3>2. CASE k # 1
        <4>1. k \in 2..Len(bs) /\ k - 1 # 0 BY <3>2, <2>1
        <4> QED BY <4>1, <2>1, <1>0
      <3> QED BY <3>1, <3>2
    <2> HIDE DEF g
    <2>4. Laid(ss[k], m[bs[k].start], m[End(bs[k])]) BY <2>1 DEF PiecesLaid
    <2> QED BY <2>2, <2>3, <2>4
  <1> HIDE DEF g
  <1>6. /\ Laid(FlattenSeq(ss), g[0], g[Len(ss)])
        /\ \A f, t : (\A k \in 1..Len(ss) : Tell(ss[k], f, t)) => Tell(FlattenSeq(ss), f, t)
    BY <1>1, <1>3, <1>5, LaidFlattened
  <1>7. \A f, t : PiecesTell(ss, f, t) => \A k \in 1..Len(ss) : Tell(ss[k], f, t)
    BY <1>1 DEF PiecesTell
  <1> QED BY <1>4, <1>6, <1>7

(* The parts of a block lie before the cut, and after it.                     *)
LEMMA PartsLieApart ==
    ASSUME NEW b \in Blocks, NEW pos \in Nat
    PROVE  /\ \A k \in 1..Len(FirstPart(b, pos)) :
                LET q == FirstPart(b, pos)[k]
                IN  /\ q \in Blocks /\ b.start <= q.start /\ End(q) <= End(b) /\ End(q) <= pos
                    /\ IsFromDisk(q) <=> IsFromDisk(b)
           /\ \A k \in 1..Len(LastPart(b, pos)) :
                LET q == LastPart(b, pos)[k]
                IN  /\ q \in Blocks /\ b.start <= q.start /\ End(q) <= End(b) /\ pos <= q.start
                    /\ IsFromDisk(q) <=> IsFromDisk(b)
  <1> DEFINE cut == Clip(pos, b.start, End(b))
  <1>0. /\ b.start \in Nat /\ End(b) \in Nat /\ b.start < End(b)
        /\ cut \in Nat /\ b.start <= cut /\ cut <= End(b)
        /\ b.start < cut => cut <= pos
        /\ cut < End(b) => pos <= cut
    BY BlockType DEF Clip
  <1>1. ASSUME NEW k \in 1..Len(FirstPart(b, pos))
        PROVE  LET q == FirstPart(b, pos)[k]
               IN  /\ q \in Blocks /\ b.start <= q.start /\ End(q) <= End(b) /\ End(q) <= pos
                   /\ IsFromDisk(q) <=> IsFromDisk(b)
    <2> DEFINE l == FirstPart(b, pos)
               q == l[k]
    <2>1. Laid(l, b.start, cut) /\ (IsFromDisk(q) <=> IsFromDisk(b)) BY FirstPartIsLaid
    <2> HIDE DEF l, cut
    <2>2. q \in Blocks /\ b.start <= q.start /\ End(q) <= cut
      BY <2>1, <1>0, LaidInOrder DEF l
    <2>3. q.start \in Nat /\ End(q) \in Nat /\ q.start < End(q) BY <2>2, BlockType
    <2> HIDE DEF q
    <2>4. End(q) <= End(b) /\ End(q) <= pos BY <2>2, <2>3, <1>0
    <2> QED BY <2>1, <2>2, <2>4 DEF q, l
  <1>2. ASSUME NEW k \in 1..Len(LastPart(b, pos))
        PROVE  LET q == LastPart(b, pos)[k]
               IN  /\ q \in Blocks /\ b.start <= q.start /\ End(q) <= End(b) /\ pos <= q.start
                   /\ IsFromDisk(q) <=> IsFromDisk(b)
    <2> DEFINE l == LastPart(b, pos)
               q == l[k]
    <2>1. Laid(l, cut, End(b)) /\ (IsFromDisk(q) <=> IsFromDisk(b)) BY LastPartIsLaid
    <2> HIDE DEF l, cut
    <2>2. q \in Blocks /\ cut <= q.start /\ End(q) <= End(b)
      BY <2>1, <1>0, LaidInOrder DEF l
    <2>3. q.start \in Nat /\ End(q) \in Nat /\ q.start < End(q) BY <2>2, BlockType
    <2> HIDE DEF q
    <2>4. b.start <= q.start /\ pos <= q.start BY <2>2, <2>3, <1>0
    <2> QED BY <2>1, <2>2, <2>4 DEF q, l
  <1> QED BY <1>1, <1>2

(* Both parts of a block, one after the other.                                *)
LEMMA CutIsLaid ==
    ASSUME NEW b \in Blocks, NEW pos \in Nat
    PROVE  LET l == FirstPart(b, pos) \o LastPart(b, pos)
           IN  /\ Laid(l, b.start, End(b))
               /\ \A f, t : Tells(b, f, t) => Tell(l, f, t)
               /\ l # <<>>
               /\ \A k \in 1..Len(l) : /\ l[k] \in Blocks
                                       /\ b.start <= l[k].start /\ End(l[k]) <= End(b)
                                       /\ End(l[k]) <= pos \/ pos <= l[k].start
                                       /\ IsFromDisk(l[k]) <=> IsFromDisk(b)
  <1> DEFINE p == FirstPart(b, pos)
             q == LastPart(b, pos)
             l == p \o q
             cut == Clip(pos, b.start, End(b))
  <1>0. b.start \in Nat /\ End(b) \in Nat /\ b.start < End(b) /\ cut \in Nat
    BY BlockType DEF Clip
  <1>1. Laid(p, b.start, cut) /\ Laid(q, cut, End(b)) BY FirstPartIsLaid, LastPartIsLaid
  <1>2. \A f, t : Tells(b, f, t) => Tell(p, f, t) /\ Tell(q, f, t)
    BY FirstPartIsLaid, LastPartIsLaid
  <1>3. /\ \A k \in 1..Len(p) : /\ p[k] \in Blocks
                                /\ b.start <= p[k].start /\ End(p[k]) <= End(b)
                                /\ End(p[k]) <= pos
                                /\ IsFromDisk(p[k]) <=> IsFromDisk(b)
        /\ \A k \in 1..Len(q) : /\ q[k] \in Blocks
                                /\ b.start <= q[k].start /\ End(q[k]) <= End(b)
                                /\ pos <= q[k].start
                                /\ IsFromDisk(q[k]) <=> IsFromDisk(b)
    BY PartsLieApart
  <1> HIDE DEF p, q, cut
  <1>4. /\ Laid(l, b.start, End(b))
        /\ \A f, t : Tell(p, f, t) /\ Tell(q, f, t) => Tell(l, f, t)
    BY <1>0, <1>1, LaidTogether
  <1>5. l # <<>>
    <2> HIDE DEF l
    <2> QED BY <1>0, <1>4 DEF Laid
  <1>6. p \in Seq(Blocks) /\ q \in Seq(Blocks) /\ Len(p) \in Nat /\ Len(q) \in Nat
    BY <1>1, LaidFacts
  <1>7. /\ Len(l) = Len(p) + Len(q)
        /\ \A i \in 1..Len(p) + Len(q) : l[i] = IF i <= Len(p) THEN p[i] ELSE q[i - Len(p)]
    BY <1>6, ConcatProperties
  <1> HIDE DEF l
  <1>8. ASSUME NEW k \in 1..Len(l)
        PROVE  /\ l[k] \in Blocks
               /\ b.start <= l[k].start /\ End(l[k]) <= End(b)
               /\ End(l[k]) <= pos \/ pos <= l[k].start
               /\ IsFromDisk(l[k]) <=> IsFromDisk(b)
    <2>1. CASE k <= Len(p)
      <3>1. k \in 1..Len(p) /\ l[k] = p[k] BY <2>1, <1>6, <1>7
      <3> QED BY <3>1, <1>3
    <2>2. CASE ~(k <= Len(p))
      <3> DEFINE j == k - Len(p)
      <3>1. j \in 1..Len(q) /\ l[k] = q[j] BY <2>2, <1>6, <1>7
      <3> HIDE DEF j
      <3> QED BY <3>1, <1>3
    <2> QED BY <2>1, <2>2
  <1> QED BY <1>2, <1>4, <1>5, <1>8 DEF l, p, q

-----------------------------------------------------------------------------
(* The loops of SetBlock. First bytes that are replaced by as many.           *)
Spared(pos, end) ==
    {b \in Blocks : IsFromDisk(b) =>
        \/ End(b) <= pos \/ end <= b.start
        \/ pos <= b.start /\ End(b) <= end}

(* A block of the disk, cut at both ends of the stretch.                      *)
LEMMA PiecesOfDisk ==
    ASSUME NEW b \in Blocks, IsFromDisk(b), NEW pos \in Nat, NEW end \in Nat,
           NEW pieces,
           pieces = EachOf(FirstPart(b, pos) \o LastPart(b, pos),
                           LAMBDA p : FirstPart(p, end) \o LastPart(p, end))
    PROVE  /\ Laid(pieces, b.start, End(b))
           /\ \A f, t : Tells(b, f, t) => Tell(pieces, f, t)
           /\ pieces \in Seq(Spared(pos, end))
  <1> DEFINE l == FirstPart(b, pos) \o LastPart(b, pos)
             Cut(p) == FirstPart(p, end) \o LastPart(p, end)
             ss == [k \in DOMAIN l |-> Cut(l[k])]
  <1>0. b.start \in Nat /\ End(b) \in Nat BY BlockType
  <1>1. /\ Laid(l, b.start, End(b))
        /\ \A f, t : Tells(b, f, t) => Tell(l, f, t)
        /\ l # <<>>
        /\ \A k \in 1..Len(l) : /\ l[k] \in Blocks
                                /\ b.start <= l[k].start /\ End(l[k]) <= End(b)
                                /\ End(l[k]) <= pos \/ pos <= l[k].start
                                /\ IsFromDisk(l[k]) <=> IsFromDisk(b)
    BY CutIsLaid
  <1>2. pieces = FlattenSeq(ss) BY DEF EachOf
  <1> HIDE DEF l
  <1>3. DOMAIN l = 1..Len(l) /\ Len(l) \in Nat
    <2>1. l \in Seq(Blocks) BY <1>1, LaidFacts
    <2> QED BY ONLY <2>1
  <1>4. ASSUME NEW k \in 1..Len(l)
        PROVE  /\ Laid(Cut(l[k]), l[k].start, End(l[k]))
               /\ \A f, t : Tells(l[k], f, t) => Tell(Cut(l[k]), f, t)
               /\ Cut(l[k]) \in Seq(Spared(pos, end))
               /\ l[k].start \in Nat /\ End(l[k]) \in Nat
    <2> DEFINE p == l[k]
               c == Cut(p)
    <2>1. /\ p \in Blocks /\ p.start \in Nat /\ End(p) \in Nat /\ IsFromDisk(p)
          /\ End(p) <= pos \/ pos <= p.start
      BY <1>1, BlockType
    <2>2. /\ Laid(c, p.start, End(p))
          /\ \A f, t : Tells(p, f, t) => Tell(c, f, t)
          /\ \A j \in 1..Len(c) : /\ c[j] \in Blocks
                                  /\ p.start <= c[j].start /\ End(c[j]) <= End(p)
                                  /\ End(c[j]) <= end \/ end <= c[j].start
      <3> HIDE DEF p
      <3> QED BY <2>1, CutIsLaid
    <2> HIDE DEF c
    <2>3. ASSUME NEW j \in 1..Len(c) PROVE c[j] \in Spared(pos, end)
      <3> DEFINE q == c[j]
      <3>1. /\ q \in Blocks /\ p.start <= q.start /\ End(q) <= End(p)
            /\ End(q) <= end \/ end <= q.start
        BY <2>2
      <3>2. q.start \in Nat /\ End(q) \in Nat BY <3>1, BlockType
      <3> HIDE DEF p, q
      <3>3. \/ End(q) <= pos \/ end <= q.start
            \/ pos <= q.start /\ End(q) <= end
        <4> DEFINE x == p.start
                   y == End(p)
                   v == q.start
                   w == End(q)
        <4>1. /\ x \in Nat /\ y \in Nat /\ v \in Nat /\ w \in Nat
              /\ pos \in Nat /\ end \in Nat
              /\ y <= pos \/ pos <= x
              /\ x <= v /\ w <= y
              /\ w <= end \/ end <= v
          BY <2>1, <3>1, <3>2
        <4> HIDE DEF x, y, v, w
        <4>2. w <= pos \/ end <= v \/ (pos <= v /\ w <= end) BY ONLY <4>1
        <4> QED BY <4>2 DEF v, w
      <3>4. q \in Spared(pos, end) BY <3>1, <3>3 DEF Spared
      <3> QED BY <3>4 DEF q
    <2>4. c \in Seq(Blocks) BY <2>2, LaidFacts
    <2>5. c \in Seq(Spared(pos, end)) BY <2>3, <2>4, SequenceOver
    <2> QED BY <2>1, <2>2, <2>5 DEF c
  <1>5. ss \in [1..Len(l) -> Seq(Blocks)] /\ ss \in [1..Len(l) -> Seq(Spared(pos, end))]
    <2>1. \A k \in 1..Len(l) : Cut(l[k]) \in Seq(Blocks) BY <1>4, LaidFacts
    <2> HIDE DEF Cut
    <2> QED BY <2>1, <1>3, <1>4
  <1>6. PiecesLaid(ss, l, Same)
    <2> HIDE DEF Cut
    <2>1. ASSUME NEW k \in 1..Len(l)
          PROVE  Laid(ss[k], Same[l[k].start], Same[End(l[k])])
      <3>1. ss[k] = Cut(l[k]) BY <1>3
      <3>2. Same[l[k].start] = l[k].start /\ Same[End(l[k])] = End(l[k]) BY <1>4 DEF Same
      <3> QED BY <3>1, <3>2, <1>4
    <2> QED BY <2>1 DEF PiecesLaid
  <1>7. \A f, t : Tells(b, f, t) => PiecesTell(ss, f, t)
    <2> HIDE DEF Cut
    <2>1. ASSUME NEW f, NEW t, Tells(b, f, t), NEW k \in DOMAIN ss PROVE Tell(ss[k], f, t)
      <3>1. k \in 1..Len(l) /\ ss[k] = Cut(l[k]) BY <1>3
      <3>2. Tells(l[k], f, t) BY <2>1, <3>1, <1>1 DEF Tell
      <3> QED BY <3>1, <3>2, <1>4
    <2> QED BY <2>1 DEF PiecesTell
  <1> HIDE DEF ss
  <1>8. Same \in [Nat -> Nat] /\ Same[b.start] = b.start /\ Same[End(b)] = End(b)
    BY <1>0 DEF Same
  <1>9. /\ Laid(FlattenSeq(ss), Same[b.start], Same[End(b)])
        /\ \A f, t : PiecesTell(ss, f, t) => Tell(FlattenSeq(ss), f, t)
    BY <1>0, <1>1, <1>5, <1>6, <1>8, LaidEach
  <1>10. FlattenSeq(ss) \in Seq(Spared(pos, end))
    <2>1. ss \in Seq(Seq(Spared(pos, end))) BY <1>3, <1>5, FunctionIsSequence
    <2> QED BY <2>1, FlattenedType
  <1> QED BY <1>2, <1>7, <1>8, <1>9, <1>10

(* What an edit makes of a text, place by place.                              *)
Changed(u, t, pos, n, data) ==
    /\ t \in Seq(Bytes) /\ data \in Seq(Bytes) /\ pos \in Nat /\ n \in Nat
    /\ pos + n <= Len(t)
    /\ u \in Seq(Bytes) /\ Len(u) = Len(t) - n + Len(data)
    /\ \A i \in 1..pos : u[i] = t[i]
    /\ \A i \in 1..Len(data) : u[pos + i] = data[i]
    /\ \A i \in 1..Len(t) - pos - n : u[pos + Len(data) + i] = t[pos + n + i]

LEMMA SplicedIsChanged ==
    ASSUME NEW t \in Seq(Bytes), NEW data \in Seq(Bytes), NEW pos \in Nat, NEW n \in Nat,
           pos + n <= Len(t)
    PROVE  Changed(History!Spliced(t, pos, n, data), t, pos, n, data)
  <1> DEFINE u == History!Spliced(t, pos, n, data)
  <1>1. /\ u \in Seq(Bytes) /\ Len(u) = Len(t) - n + Len(data)
        /\ \A i \in 1..Len(t) - n + Len(data) :
              u[i] = IF i <= pos THEN t[i]
                     ELSE IF i <= pos + Len(data) THEN data[i - pos] ELSE t[i - Len(data) + n]
    <2>1. HistoryProofs!HasSpliced(HistoryProofs!Spliced(t, pos, n, data), t, pos, n, data, Len(data))
      BY HistoryProofs!SplicedProperties DEF Bytes
    <2>2. HistoryProofs!Spliced(t, pos, n, data) = u
      BY DEF HistoryProofs!Spliced, History!Spliced
    <2> QED BY <2>1, <2>2 DEF HistoryProofs!HasSpliced, Bytes
  <1> HIDE DEF u
  <1> DEFINE d == Len(data)
             z == Len(t)
  <1>2. d \in Nat /\ z \in Nat /\ pos + n <= z OBVIOUS
  <1> HIDE DEF d, z
  <1>3. ASSUME NEW i \in 1..pos PROVE u[i] = t[i]
    <2>1. i \in 1..z - n + d /\ i <= pos BY <1>2
    <2> QED BY <2>1, <1>1 DEF d, z
  <1>4. ASSUME NEW i \in 1..d PROVE u[pos + i] = data[i]
    <2>1. /\ pos + i \in 1..z - n + d /\ ~(pos + i <= pos) /\ pos + i <= pos + d
          /\ pos + i - pos = i
      BY <1>2
    <2>2. u[pos + i] = data[pos + i - pos] BY <2>1, <1>1 DEF d, z
    <2> QED BY <2>1, <2>2
  <1>5. ASSUME NEW i \in 1..z - pos - n PROVE u[pos + d + i] = t[pos + n + i]
    <2>1. /\ pos + d + i \in 1..z - n + d /\ ~(pos + d + i <= pos) /\ ~(pos + d + i <= pos + d)
          /\ pos + d + i - d + n = pos + n + i
      BY <1>2
    <2>2. u[pos + d + i] = t[pos + d + i - d + n] BY <2>1, <1>1 DEF d, z
    <2> QED BY <2>1, <2>2
  <1> QED BY <1>1, <1>2, <1>3, <1>4, <1>5 DEF Changed, u, d, z

LEMMA ChangedInPlace ==
    ASSUME NEW u, NEW t, NEW pos, NEW data, Changed(u, t, pos, Len(data), data),
           NEW x \in 1..Len(t)
    PROVE  /\ pos < x /\ x <= pos + Len(data) => x - pos \in 1..Len(data) /\ u[x] = data[x - pos]
           /\ ~(pos < x /\ x <= pos + Len(data)) => u[x] = t[x]
  <1> DEFINE d == Len(data)
             z == Len(t)
  <1>1. /\ d \in Nat /\ z \in Nat /\ pos \in Nat /\ x \in 1..z
        /\ \A i \in 1..pos : u[i] = t[i]
        /\ \A i \in 1..d : u[pos + i] = data[i]
        /\ \A i \in 1..z - pos - d : u[pos + d + i] = t[pos + d + i]
    BY DEF Changed
  <1> HIDE DEF d, z
  <1>2. CASE x <= pos
    <2>1. x \in 1..pos /\ ~(pos < x) BY <1>1, <1>2
    <2> QED BY <2>1, <1>1 DEF d
  <1>3. CASE ~(x <= pos) /\ x <= pos + d
    <2>1. x - pos \in 1..d /\ pos + (x - pos) = x /\ pos < x BY <1>1, <1>3
    <2>2. u[pos + (x - pos)] = data[x - pos] BY <2>1, <1>1
    <2> QED BY <2>1, <2>2, <1>3 DEF d
  <1>4. CASE ~(x <= pos) /\ ~(x <= pos + d)
    <2>1. x - pos - d \in 1..z - pos - d /\ pos + d + (x - pos - d) = x BY <1>1, <1>4
    <2>2. u[pos + d + (x - pos - d)] = t[pos + d + (x - pos - d)] BY <2>1, <1>1
    <2> QED BY <2>1, <2>2, <1>4 DEF d
  <1> QED BY <1>2, <1>3, <1>4

LEMMA MemoryBlockTells ==
    ASSUME NEW start \in Nat, NEW d \in Seq(Bytes), d # <<>>
    PROVE  /\ MemoryBlock(start, d) \in Blocks /\ ~IsFromDisk(MemoryBlock(start, d))
           /\ MemoryBlock(start, d).start = start /\ End(MemoryBlock(start, d)) = start + Len(d)
           /\ \A f, t : /\ start + Len(d) <= Len(t)
                        /\ \A i \in 1..Len(d) : t[start + i] = d[i]
                        => Tells(MemoryBlock(start, d), f, t)
  <1> DEFINE b == MemoryBlock(start, d)
  <1>1. /\ b.start = start /\ b.size = Len(d) /\ b.data = d /\ b.fileStart = 0
        /\ b = [start |-> start, fileStart |-> 0, size |-> Len(d), data |-> d]
    BY DEF MemoryBlock
  <1>2. Len(d) \in Nat \ {0} OBVIOUS
  <1>3. b \in [start : Nat, fileStart : Nat, size : Nat \ {0}, data : Seq(Bytes)]
    BY <1>1, <1>2
  <1> HIDE DEF b
  <1>4. b \in Blocks BY <1>1, <1>3 DEF Blocks
  <1>5. End(b) = start + Len(d) /\ ~IsFromDisk(b) BY <1>1 DEF End, IsFromDisk
  <1> QED BY <1>1, <1>4, <1>5 DEF Tells, b

LEMMA PutShows ==
    ASSUME NEW u, NEW t, NEW pos, NEW data, Changed(u, t, pos, Len(data), data),
           NEW end, end = pos + Len(data),
           NEW b \in Spared(pos, end), NEW f \in Seq(Bytes), Tells(b, f, t),
           NEW put,
           put = IF End(b) <= pos \/ b.start >= end THEN <<b>>
                 ELSE << MemoryBlock(b.start,
                           [k \in 1..b.size |->
                              IF b.start + k \in pos + 1..end THEN data[b.start + k - pos]
                              ELSE b.data[k]]) >>
    PROVE  Laid(put, b.start, End(b)) /\ Tell(put, f, u)
  <1> DEFINE x == b.start
             z == b.size
  <1>1. /\ b \in Blocks /\ x \in Nat /\ z \in Nat \ {0} /\ End(b) = x + z
        /\ b.data \in Seq(Bytes) /\ (~IsFromDisk(b) => Len(b.data) = z)
        /\ IsFromDisk(b) => \/ End(b) <= pos \/ end <= x
                            \/ pos <= x /\ End(b) <= end
    BY BlockType DEF Spared
  <1>2. /\ End(b) <= Len(t) /\ Len(u) = Len(t) /\ Len(t) \in Nat /\ pos \in Nat /\ end \in Nat
        /\ data \in Seq(Bytes)
        /\ \A i \in 1..z :
              t[x + i] = IF IsFromDisk(b) THEN f[b.fileStart + i] ELSE b.data[i]
        /\ IsFromDisk(b) => b.fileStart + b.size <= Len(f)
    BY DEF Changed, Tells
  <1>3. ASSUME NEW i \in 1..z
        PROVE  /\ x + i \in pos + 1..end => /\ x + i - pos \in 1..Len(data)
                                           /\ u[x + i] = data[x + i - pos]
               /\ x + i \notin pos + 1..end => u[x + i] = t[x + i]
    <2>1. /\ x + i \in 1..Len(t)
          /\ x + i \in pos + 1..end <=> pos < x + i /\ x + i <= end
      <3> HIDE DEF x, z
      <3> QED BY <1>1, <1>2
    <2>2. ASSUME NEW y \in 1..Len(t), y \in pos + 1..end <=> pos < y /\ y <= end
          PROVE  /\ y \in pos + 1..end => y - pos \in 1..Len(data) /\ u[y] = data[y - pos]
                 /\ y \notin pos + 1..end => u[y] = t[y]
      <3>1. /\ pos < y /\ y <= pos + Len(data) => y - pos \in 1..Len(data) /\ u[y] = data[y - pos]
            /\ ~(pos < y /\ y <= pos + Len(data)) => u[y] = t[y]
        BY ChangedInPlace
      <3> QED BY <3>1, <2>2
    <2>3. x + i - pos = (x + i) - pos
      <3> HIDE DEF x, z
      <3> QED BY <1>1, <1>2
    <2> QED BY ONLY <2>1, <2>2, <2>3
  <1>4. CASE End(b) <= pos \/ x >= end
    <2>1. ASSUME NEW i \in 1..z PROVE u[x + i] = t[x + i]
      <3>1. x + i \notin pos + 1..end
        <4> HIDE DEF x, z
        <4> QED BY <1>1, <1>2, <1>4
      <3> QED BY <3>1, <1>3
    <2>2. Tells(b, f, u) BY <2>1, <1>2 DEF Tells
    <2>3. put = <<b>> BY <1>4
    <2> QED BY <2>2, <2>3, <1>1, OneBlockIsLaid
  <1>5. CASE ~(End(b) <= pos \/ x >= end)
    <2> DEFINE d == [k \in 1..z |-> IF x + k \in pos + 1..end THEN data[x + k - pos]
                                    ELSE b.data[k]]
               m == MemoryBlock(x, d)
    <2>1. put = <<m>> BY <1>5
    <2>2. ASSUME NEW i \in 1..z PROVE d[i] = u[x + i] /\ d[i] \in Bytes
      <3>1. CASE x + i \in pos + 1..end
        <4>1. d[i] = data[x + i - pos] BY <3>1
        <4> QED BY <3>1, <4>1, <1>3, <1>2, ElementOfSeq
      <3>2. CASE x + i \notin pos + 1..end
        <4>1. d[i] = b.data[i] BY <3>2
        <4>2. ~IsFromDisk(b)
          <5> HIDE DEF x, z
          <5> QED BY <1>1, <1>2, <1>5, <3>2
        <4>3. d[i] = t[x + i] BY <4>1, <4>2, <1>2
        <4>4. i \in 1..Len(b.data) BY <4>2, <1>1
        <4>5. b.data[i] \in Bytes BY <4>4, <1>1, ElementOfSeq
        <4> QED BY <3>2, <4>1, <4>3, <4>5, <1>3
      <3> QED BY <3>1, <3>2
    <2>3. d \in [1..z -> Bytes]
      <3>1. d = [k \in 1..z |-> d[k]] OBVIOUS
      <3> HIDE DEF d
      <3>2. [k \in 1..z |-> d[k]] \in [1..z -> Bytes] BY <2>2
      <3> QED BY <3>1, <3>2
    <2> HIDE DEF d
    <2>4. d \in Seq(Bytes) BY <2>3, <1>1, FunctionIsSequence
    <2>5. Len(d) = z BY <2>3, <2>4, <1>1
    <2>6. d # <<>> BY <2>5, <1>1
    <2>7. /\ m \in Blocks /\ m.start = x /\ End(m) = x + Len(d)
          /\ /\ x + Len(d) <= Len(u)
             /\ \A i \in 1..Len(d) : u[x + i] = d[i]
             => Tells(m, f, u)
      <3> HIDE DEF x
      <3> QED BY <2>4, <2>6, <1>1, MemoryBlockTells
    <2>8. Tells(m, f, u) BY <2>2, <2>5, <2>7, <1>1, <1>2
    <2> HIDE DEF m
    <2>9. Laid(<<m>>, m.start, End(m)) /\ Tell(<<m>>, f, u) BY <2>7, <2>8, OneBlockIsLaid
    <2> QED BY <2>1, <2>5, <2>7, <2>9, <1>1
  <1> QED BY <1>4, <1>5

LEMMA OverwrittenShows ==
    ASSUME NEW u, NEW t, NEW pos, NEW data, Changed(u, t, pos, Len(data), data), data # <<>>,
           NEW bs, Laid(bs, 0, Len(t)), NEW f \in Seq(Bytes), Tell(bs, f, t)
    PROVE  /\ Laid(Overwritten(bs, pos, data), 0, Len(t))
           /\ Tell(Overwritten(bs, pos, data), f, u)
  <1> DEFINE end == pos + Len(data)
             z == 0
             hi == Len(t)
  <1>0. /\ pos \in Nat /\ end \in Nat /\ hi \in Nat \ {0} /\ z \in Nat /\ Same \in [Nat -> Nat]
        /\ Same[z] = z /\ Same[hi] = hi /\ Laid(bs, z, hi)
    <2>1. Len(data) \in Nat \ {0} BY DEF Changed
    <2>2. pos \in Nat /\ pos + Len(data) <= Len(t) /\ Len(t) \in Nat BY DEF Changed
    <2> QED BY <2>1, <2>2 DEF Same
  <1> DEFINE pieces(b) ==
               IF IsFromDisk(b)
               THEN EachOf(FirstPart(b, pos) \o LastPart(b, pos),
                           LAMBDA p : FirstPart(p, end) \o LastPart(p, end))
               ELSE <<b>>
             Put(b) ==
               IF End(b) <= pos \/ b.start >= end THEN <<b>>
               ELSE << MemoryBlock(b.start,
                          [k \in 1..b.size |->
                              IF b.start + k \in pos + 1..end THEN data[b.start + k - pos]
                              ELSE b.data[k]]) >>
             ss == [k \in DOMAIN bs |-> pieces(bs[k])]
             cs == FlattenSeq(ss)
             ps == [k \in DOMAIN cs |-> Put(cs[k])]
             os == FlattenSeq(ps)
  <1>1. Overwritten(bs, pos, data) = os
    BY DEF Overwritten, EachOf
  <1> HIDE DEF z, hi
  <1>2. /\ bs \in Seq(Blocks) /\ Len(bs) \in Nat /\ DOMAIN bs = 1..Len(bs) /\ bs # <<>>
        /\ \A k \in 1..Len(bs) : /\ bs[k] \in Blocks
                                 /\ bs[k].start \in Nat /\ End(bs[k]) \in Nat
    <2>1. bs \in Seq(Blocks) /\ Len(bs) \in Nat /\ \A k \in 1..Len(bs) : bs[k] \in Blocks
      BY <1>0, LaidFacts
    <2>2. bs # <<>> BY <1>0 DEF Laid, z
    <2> QED BY <2>1, <2>2, BlockType
  <1>3. ASSUME NEW k \in 1..Len(bs)
        PROVE  /\ Laid(pieces(bs[k]), bs[k].start, End(bs[k]))
               /\ \A g, v : Tells(bs[k], g, v) => Tell(pieces(bs[k]), g, v)
               /\ pieces(bs[k]) \in Seq(Spared(pos, end))
    <2> DEFINE b == bs[k]
               p == pieces(b)
    <2>1. b \in Blocks BY <1>2
    <2> HIDE DEF b, end
    <2>2. CASE IsFromDisk(b)
      <3>1. p = EachOf(FirstPart(b, pos) \o LastPart(b, pos),
                       LAMBDA q : FirstPart(q, end) \o LastPart(q, end))
        BY <2>2
      <3> HIDE DEF p
      <3>2. /\ Laid(p, b.start, End(b))
            /\ \A g, v : Tells(b, g, v) => Tell(p, g, v)
            /\ p \in Seq(Spared(pos, end))
        BY <2>1, <2>2, <3>1, <1>0, PiecesOfDisk
      <3> QED BY <3>2 DEF p, b
    <2>3. CASE ~IsFromDisk(b)
      <3>1. p = <<b>> BY <2>3
      <3>2. b \in Spared(pos, end) BY <2>1, <2>3 DEF Spared
      <3>3. p \in Seq(Spared(pos, end))
        <4> HIDE DEF p
        <4>1. p \in Seq(Blocks) /\ Len(p) = 1 /\ p[1] = b BY <2>1, <3>1, OneBlockIsLaid
        <4>2. \A j \in 1..Len(p) : p[j] \in Spared(pos, end) BY <4>1, <3>2
        <4> QED BY <4>1, <4>2, SequenceOver
      <3> HIDE DEF p
      <3>4. /\ Laid(p, b.start, End(b))
            /\ \A g, v : Tells(b, g, v) => Tell(p, g, v)
        BY <2>1, <3>1, OneBlockIsLaid
      <3> QED BY <3>3, <3>4 DEF p, b
    <2> QED BY <2>2, <2>3
  <1> HIDE DEF pieces
  <1>4. ss \in [1..Len(bs) -> Seq(Blocks)] /\ ss \in [1..Len(bs) -> Seq(Spared(pos, end))]
    <2>1. \A k \in 1..Len(bs) : pieces(bs[k]) \in Seq(Blocks) BY <1>3, LaidFacts
    <2> QED BY <2>1, <1>2, <1>3
  <1>5. PiecesLaid(ss, bs, Same)
    <2>1. ASSUME NEW k \in 1..Len(bs)
          PROVE  Laid(ss[k], Same[bs[k].start], Same[End(bs[k])])
      <3>1. ss[k] = pieces(bs[k]) BY <1>2
      <3>2. Same[bs[k].start] = bs[k].start /\ Same[End(bs[k])] = End(bs[k]) BY <1>2 DEF Same
      <3> QED BY <3>1, <3>2, <1>3
    <2> HIDE DEF ss
    <2> QED BY <2>1 DEF PiecesLaid
  <1>6. PiecesTell(ss, f, t)
    <2>1. ASSUME NEW k \in DOMAIN ss PROVE Tell(ss[k], f, t)
      <3>1. k \in 1..Len(bs) /\ ss[k] = pieces(bs[k]) BY <1>2
      <3>2. Tells(bs[k], f, t) BY <3>1 DEF Tell
      <3> QED BY <3>1, <3>2, <1>3
    <2> HIDE DEF ss
    <2> QED BY <2>1 DEF PiecesTell
  <1>7. ss \in Seq(Seq(Spared(pos, end))) BY <1>2, <1>4, FunctionIsSequence
  <1> HIDE DEF ss
  <1>8. Laid(cs, z, hi) /\ Tell(cs, f, t) /\ cs \in Seq(Spared(pos, end))
    <2>1. /\ Laid(FlattenSeq(ss), Same[z], Same[hi])
          /\ \A g, v : PiecesTell(ss, g, v) => Tell(FlattenSeq(ss), g, v)
      BY <1>0, <1>2, <1>4, <1>5, LaidEach
    <2>2. FlattenSeq(ss) \in Seq(Spared(pos, end)) BY <1>7, FlattenedType
    <2> QED BY <2>1, <2>2, <1>0, <1>6
  <1> HIDE DEF cs
  <1>9. /\ cs \in Seq(Blocks) /\ Len(cs) \in Nat /\ DOMAIN cs = 1..Len(cs) /\ cs # <<>>
        /\ \A k \in 1..Len(cs) : /\ cs[k] \in Blocks /\ cs[k] \in Spared(pos, end)
                                 /\ cs[k].start \in Nat /\ End(cs[k]) \in Nat
    <2>1. cs \in Seq(Blocks) /\ Len(cs) \in Nat /\ \A k \in 1..Len(cs) : cs[k] \in Blocks
      BY <1>8, LaidFacts
    <2>2. cs # <<>> BY <1>0, <1>8 DEF Laid, z
    <2>3. \A k \in 1..Len(cs) : cs[k] \in Spared(pos, end) BY <1>8, ElementOfSeq
    <2> QED BY <2>1, <2>2, <2>3, BlockType
  <1>10. ASSUME NEW k \in 1..Len(cs)
         PROVE  Laid(Put(cs[k]), cs[k].start, End(cs[k])) /\ Tell(Put(cs[k]), f, u)
    <2> DEFINE b == cs[k]
               p == Put(b)
               e == end
    <2>1. b \in Spared(pos, e) /\ Tells(b, f, t) BY <1>8, <1>9 DEF Tell
    <2>2. e = pos + Len(data) OBVIOUS
    <2>3. p = IF End(b) <= pos \/ b.start >= e THEN <<b>>
              ELSE << MemoryBlock(b.start,
                         [j \in 1..b.size |->
                             IF b.start + j \in pos + 1..e THEN data[b.start + j - pos]
                             ELSE b.data[j]]) >>
      OBVIOUS
    <2> HIDE DEF b, p, e
    <2>4. Laid(p, b.start, End(b)) /\ Tell(p, f, u) BY <2>1, <2>2, <2>3, PutShows
    <2> QED BY <2>4 DEF b, p
  <1> HIDE DEF Put
  <1>11. ps \in [1..Len(cs) -> Seq(Blocks)]
    <2>1. \A k \in 1..Len(cs) : Put(cs[k]) \in Seq(Blocks) BY <1>10, LaidFacts
    <2> QED BY <2>1, <1>9
  <1>12. PiecesLaid(ps, cs, Same)
    <2>1. ASSUME NEW k \in 1..Len(cs)
          PROVE  Laid(ps[k], Same[cs[k].start], Same[End(cs[k])])
      <3>1. ps[k] = Put(cs[k]) BY <1>9
      <3>2. Same[cs[k].start] = cs[k].start /\ Same[End(cs[k])] = End(cs[k]) BY <1>9 DEF Same
      <3> QED BY <3>1, <3>2, <1>10
    <2> HIDE DEF ps
    <2> QED BY <2>1 DEF PiecesLaid
  <1>13. PiecesTell(ps, f, u)
    <2>1. ASSUME NEW k \in DOMAIN ps PROVE Tell(ps[k], f, u)
      <3>1. k \in 1..Len(cs) /\ ps[k] = Put(cs[k]) BY <1>9
      <3> QED BY <3>1, <1>10
    <2> HIDE DEF ps
    <2> QED BY <2>1 DEF PiecesTell
  <1> HIDE DEF ps
  <1>14. /\ Laid(FlattenSeq(ps), Same[z], Same[hi])
         /\ \A g, v : PiecesTell(ps, g, v) => Tell(FlattenSeq(ps), g, v)
    BY <1>0, <1>8, <1>9, <1>11, <1>12, LaidEach
  <1>15. Laid(os, z, hi) /\ Tell(os, f, u) BY <1>0, <1>13, <1>14
  <1> HIDE DEF os
  <1> QED BY <1>1, <1>15 DEF z, hi

(* What lies before an edit, and what lies after it.                          *)
LEMMA BeforeShows ==
    ASSUME NEW u, NEW t, NEW pos, NEW n, NEW data, Changed(u, t, pos, n, data),
           NEW bs, NEW lo \in Nat, NEW hi \in Nat, Laid(bs, lo, hi), hi <= pos,
           NEW f, Tell(bs, f, t)
    PROVE  Tell(bs, f, u)
  <1>0. /\ pos \in Nat /\ Len(u) \in Nat /\ pos <= Len(u)
        /\ \A i \in 1..pos : u[i] = t[i]
    <2>1. /\ pos \in Nat /\ n \in Nat /\ Len(t) \in Nat /\ Len(data) \in Nat /\ Len(u) \in Nat
          /\ pos + n <= Len(t) /\ Len(u) = Len(t) - n + Len(data)
          /\ \A i \in 1..pos : u[i] = t[i]
      BY DEF Changed
    <2> QED BY <2>1
  <1>1. ASSUME NEW k \in 1..Len(bs) PROVE Tells(bs[k], f, u)
    <2> DEFINE b == bs[k]
    <2>1. b \in Blocks /\ End(b) <= hi BY LaidInOrder
    <2>2. Tells(b, f, t) BY DEF Tell
    <2> HIDE DEF b
    <2>3. b.start \in Nat /\ b.size \in Nat /\ End(b) \in Nat /\ End(b) = b.start + b.size
      BY <2>1, BlockType
    <2> DEFINE x == b.start
               e == End(b)
               z == b.size
    <2>4. x \in Nat /\ z \in Nat /\ e = x + z /\ e <= hi BY <2>1, <2>3
    <2>5. ASSUME NEW i \in 1..z PROVE x + i \in 1..pos
      <3> HIDE DEF x, e, z
      <3> QED BY <2>4, <1>0
    <2>6. \A i \in 1..z : u[x + i] = t[x + i] BY <2>5, <1>0
    <2>7. e <= Len(u)
      <3> HIDE DEF x, e, z
      <3> QED BY <2>4, <1>0
    <2>8. Tells(b, f, u) BY <2>2, <2>6, <2>7 DEF Tells
    <2> QED BY <2>8 DEF b
  <1> QED BY <1>1 DEF Tell

Moved(bs, n, d) == [k \in 1..Len(bs) |-> [bs[k] EXCEPT !.start = (bs[k].start - n) + d]]

LEMMA AfterShows ==
    ASSUME NEW u, NEW t, NEW pos, NEW n, NEW data, Changed(u, t, pos, n, data),
           NEW bs, NEW lo \in Nat, NEW hi \in Nat, Laid(bs, lo, hi),
           pos + n <= lo, hi <= Len(t),
           NEW f, Tell(bs, f, t),
           NEW moved, moved = Moved(bs, n, Len(data))
    PROVE  /\ (lo - n) + Len(data) \in Nat /\ (hi - n) + Len(data) \in Nat
           /\ Laid(moved, (lo - n) + Len(data), (hi - n) + Len(data))
           /\ Tell(moved, f, u)
  <1> DEFINE d == Len(data)
             to == (lo - n) + d
             z == Len(t)
  <1>0. /\ pos \in Nat /\ n \in Nat /\ d \in Nat /\ z \in Nat
        /\ Len(u) \in Nat /\ pos + n <= z /\ Len(u) = z - n + d
        /\ \A i \in 1..z - pos - n : u[pos + d + i] = t[pos + n + i]
        /\ pos + n <= lo /\ hi <= z
    BY DEF Changed
  <1>1. /\ lo <= hi /\ bs \in Seq(Blocks) /\ Len(bs) \in Nat
        /\ \A k \in 1..Len(bs) : bs[k].start \in Nat
    BY LaidInOrder, LaidFacts, BlockType
  <1>2. to \in Nat /\ (hi - lo) + to = (hi - n) + d /\ (hi - lo) + to <= Len(u)
        /\ (hi - n) + d \in Nat
    <2> DEFINE v == Len(u)
    <2>1. /\ pos \in Nat /\ n \in Nat /\ d \in Nat /\ z \in Nat /\ lo \in Nat /\ hi \in Nat
          /\ v = z - n + d /\ pos + n <= lo /\ hi <= z /\ lo <= hi
      BY <1>0, <1>1
    <2> HIDE DEF d, z, v
    <2>2. to \in Nat /\ (hi - lo) + to = (hi - n) + d /\ (hi - lo) + to <= v
          /\ (hi - n) + d \in Nat
      BY ONLY <2>1
    <2> QED BY <2>2 DEF v
  <1>3. moved = [k \in 1..Len(bs) |-> [bs[k] EXCEPT !.start = bs[k].start - lo + to]]
    <2>1. ASSUME NEW k \in 1..Len(bs)
          PROVE  (bs[k].start - n) + d = bs[k].start - lo + to
      <3> DEFINE x == bs[k].start
      <3>1. x \in Nat BY <1>1
      <3> HIDE DEF x, d
      <3>2. (x - n) + d = x - lo + to BY <3>1, <1>0
      <3> QED BY <3>2 DEF x
    <2> HIDE DEF d, to
    <2>2. moved = [k \in 1..Len(bs) |-> [bs[k] EXCEPT !.start = (bs[k].start - n) + d]]
      BY DEF d, Moved
    <2> QED BY <2>1, <2>2
  <1>4. ASSUME NEW i \in 1..hi - lo PROVE u[to + i] = t[lo + i]
    <2> DEFINE j == (lo + i) - (pos + n)
    <2>1. /\ j \in 1..z - pos - n /\ pos + d + j = to + i /\ pos + n + j = lo + i
      <3>1. /\ pos \in Nat /\ n \in Nat /\ d \in Nat /\ z \in Nat /\ lo \in Nat /\ hi \in Nat
            /\ pos + n <= lo /\ hi <= z /\ lo <= hi /\ i \in 1..hi - lo
        BY <1>0, <1>1
      <3> HIDE DEF d, z
      <3> QED BY ONLY <3>1
    <2> HIDE DEF j, to, d, z
    <2>2. u[pos + d + j] = t[pos + n + j] BY <2>1, <1>0
    <2> QED BY <2>1, <2>2
  <1> HIDE DEF to, d, z
  <1>5. /\ Laid(moved, to, hi - lo + to)
        /\ (/\ Tell(bs, f, t)
            /\ Len(u) \in Nat /\ hi - lo + to <= Len(u)
            /\ \A i \in 1..hi - lo : u[to + i] = t[lo + i])
           => Tell(moved, f, u)
    BY <1>2, <1>3, LaidElsewhere
  <1>6. Tell(moved, f, u) BY <1>0, <1>2, <1>4, <1>5
  <1>7. Laid(moved, to, (hi - n) + d)
    <2>1. hi - lo + to = (hi - n) + d BY <1>2
    <2> QED BY <1>5, <2>1
  <1> QED BY <1>2, <1>6, <1>7 DEF to, d

(* Bytes that are removed: where the ends of the blocks go.                   *)
Closed(pos, n) ==
    [x \in Nat |-> IF x <= pos THEN x ELSE IF x <= pos + n THEN pos ELSE x - n]

LeftOf(b, pos, n) ==
    FirstPart(b, pos)
      \o [k \in DOMAIN LastPart(b, pos + n) |->
             [LastPart(b, pos + n)[k] EXCEPT !.start = @ - n]]

LEMMA RemovedPart ==
    ASSUME NEW u, NEW t, NEW pos, NEW n, Changed(u, t, pos, n, <<>>),
           NEW b \in Blocks, NEW f, Tells(b, f, t),
           NEW left, left = LeftOf(b, pos, n)
    PROVE  /\ Laid(left, Closed(pos, n)[b.start], Closed(pos, n)[End(b)])
           /\ Tell(left, f, u)
  <1> DEFINE none == <<>>
             x == b.start
             e == End(b)
             cut == pos + n
             head == FirstPart(b, pos)
             tail == LastPart(b, cut)
             moved == Moved(tail, n, Len(none))
             lo == Closed(pos, n)[x]
             hi == Closed(pos, n)[e]
             c1 == Clip(pos, x, e)
             c2 == Clip(cut, x, e)
  <1>0. /\ x \in Nat /\ e \in Nat /\ x < e /\ pos \in Nat /\ n \in Nat /\ cut \in Nat
        /\ e <= Len(t) /\ Len(none) = 0
        /\ c1 \in Nat /\ c2 \in Nat
        /\ c1 = IF pos <= x THEN x ELSE IF pos <= e THEN pos ELSE e
        /\ c2 = IF cut <= x THEN x ELSE IF cut <= e THEN cut ELSE e
        /\ lo = IF x <= pos THEN x ELSE IF x <= cut THEN pos ELSE x - n
        /\ hi = IF e <= pos THEN e ELSE IF e <= cut THEN pos ELSE e - n
    BY BlockType DEF Changed, Tells, Clip, Closed
  <1>1. Laid(head, x, c1) /\ Tell(head, f, t) BY <1>0, FirstPartIsLaid
  <1>2. Laid(tail, c2, e) /\ Tell(tail, f, t) BY <1>0, LastPartIsLaid
  <1>3. tail \in Seq(Blocks) /\ DOMAIN tail = 1..Len(tail) /\ Len(tail) \in Nat
    <2>1. tail \in Seq(Blocks) BY <1>2, LaidFacts
    <2> HIDE DEF tail
    <2> QED BY ONLY <2>1
  <1>4. left = head \o moved
    <2>1. \A k \in 1..Len(tail) : tail[k].start - n = (tail[k].start - n) + Len(none)
      <3>1. \A k \in 1..Len(tail) : tail[k].start \in Nat BY <1>2, LaidFacts, BlockType
      <3> HIDE DEF tail, none
      <3>2. ASSUME NEW k \in 1..Len(tail)
            PROVE tail[k].start - n = (tail[k].start - n) + Len(none)
        <4> DEFINE v == tail[k].start
        <4>1. v \in Nat BY <3>1
        <4> HIDE DEF v
        <4>2. v - n = (v - n) + Len(none) BY <4>1, <1>0
        <4> QED BY <4>2 DEF v
      <3> QED BY <3>2
    <2>2. left = head \o [k \in DOMAIN tail |-> [tail[k] EXCEPT !.start = tail[k].start - n]]
      BY DEF LeftOf
    <2> HIDE DEF head, tail, none
    <2> QED BY <2>1, <2>2, <1>3 DEF Moved
  <1>5. (pos <= x => head = <<>>) /\ (e <= cut => tail = <<>>)
    BY <1>0 DEF FirstPart, LastPart
  <1> DEFINE mid == IF x < pos THEN c1 ELSE lo
  <1> HIDE DEF head, tail, none, c1, c2, lo, hi, cut, x, e
  <1>6. lo \in Nat /\ hi \in Nat /\ mid \in Nat BY <1>0 DEF cut
  <1>7. Laid(head, lo, mid) /\ Tell(head, f, u)
    <2>1. CASE x < pos
      <3>1. lo = x /\ mid = c1 /\ c1 <= pos BY <2>1, <1>0
      <3>2. Tell(head, f, u) BY <3>1, <1>0, <1>1, BeforeShows DEF none
      <3> QED BY <3>1, <3>2, <1>1
    <2>2. CASE ~(x < pos)
      <3>1. head = <<>> /\ mid = lo BY <2>2, <1>0, <1>5
      <3> QED BY <3>1, NoBlockIsLaid
    <2> QED BY <2>1, <2>2
  <1>8. Laid(moved, mid, hi) /\ Tell(moved, f, u)
    <2>1. CASE e <= cut
      <3>1. tail = <<>> BY <2>1, <1>5
      <3>2. moved = <<>> BY <3>1 DEF Moved
      <3>3. mid = hi BY <2>1, <1>0 DEF cut
      <3> HIDE DEF moved, mid
      <3> QED BY <3>2, <3>3, NoBlockIsLaid
    <2>2. CASE ~(e <= cut)
      <3>1. /\ cut <= c2 /\ hi = (e - n) + 0 /\ mid = (c2 - n) + 0
        BY <2>2, <1>0 DEF cut
      <3> DEFINE d == Len(none)
      <3>2. hi = (e - n) + d /\ mid = (c2 - n) + d /\ pos + n <= c2 /\ e <= Len(t)
        BY <3>1, <1>0 DEF cut
      <3>3. Changed(u, t, pos, n, none) BY DEF none
      <3> HIDE DEF moved, mid, d
      <3>4. moved = Moved(tail, n, Len(none)) BY DEF moved
      <3>5. Laid(moved, (c2 - n) + Len(none), (e - n) + Len(none)) /\ Tell(moved, f, u)
        BY <3>2, <3>3, <3>4, <1>0, <1>2, AfterShows
      <3> QED BY <3>2, <3>5 DEF d
    <2> QED BY <2>1, <2>2
  <1> HIDE DEF moved, mid
  <1>9. Laid(head \o moved, lo, hi) /\ Tell(head \o moved, f, u)
    BY <1>6, <1>7, <1>8, LaidTogether
  <1> QED BY <1>4, <1>9 DEF lo, hi, x, e

LEMMA RemovedShows ==
    ASSUME NEW u, NEW t, NEW pos, NEW n, Changed(u, t, pos, n, <<>>),
           NEW bs, Laid(bs, 0, Len(t)), bs # <<>>, NEW f, Tell(bs, f, t)
    PROVE  /\ Laid(Removed(bs, pos, n), 0, Len(u))
           /\ Tell(Removed(bs, pos, n), f, u)
  <1> DEFINE m == Closed(pos, n)
             Left(b) == LeftOf(b, pos, n)
             ss == [k \in DOMAIN bs |-> Left(bs[k])]
             z == 0
             hi == Len(t)
  <1>0. /\ pos \in Nat /\ n \in Nat /\ hi \in Nat /\ z \in Nat /\ pos + n <= hi
        /\ Len(u) = hi - n
    BY DEF Changed
  <1>1. m \in [Nat -> Nat] /\ m[z] = 0 /\ m[hi] = Len(u)
    <2>1. ASSUME NEW x \in Nat
          PROVE  (IF x <= pos THEN x ELSE IF x <= pos + n THEN pos ELSE x - n) \in Nat
      BY <1>0
    <2>2. m \in [Nat -> Nat]
      <3>1. m = [x \in Nat |-> IF x <= pos THEN x ELSE IF x <= pos + n THEN pos ELSE x - n]
        BY DEF Closed
      <3> QED BY <2>1, <3>1
    <2>3. m[z] = 0 BY <1>0 DEF Closed
    <2>4. m[hi] = IF hi <= pos THEN hi ELSE IF hi <= pos + n THEN pos ELSE hi - n
      BY <1>0 DEF Closed
    <2>5. m[hi] = hi - n
      <3> HIDE DEF m, hi
      <3> QED BY <2>4, <1>0
    <2> QED BY <2>2, <2>3, <2>5, <1>0
  <1>2. Removed(bs, pos, n) = FlattenSeq(ss) BY DEF Removed, EachOf, LeftOf
  <1> HIDE DEF z, hi, m
  <1>3. /\ bs \in Seq(Blocks) /\ Len(bs) \in Nat /\ DOMAIN bs = 1..Len(bs)
        /\ Laid(bs, z, hi)
        /\ \A k \in 1..Len(bs) : bs[k] \in Blocks
    <2>1. Laid(bs, z, hi) BY DEF z, hi
    <2>2. bs \in Seq(Blocks) /\ Len(bs) \in Nat /\ \A k \in 1..Len(bs) : bs[k] \in Blocks
      BY <2>1, LaidFacts
    <2> QED BY <2>1, <2>2
  <1>4. ASSUME NEW k \in 1..Len(bs)
        PROVE  Laid(Left(bs[k]), m[bs[k].start], m[End(bs[k])]) /\ Tell(Left(bs[k]), f, u)
    <2> DEFINE b == bs[k]
               l == Left(b)
    <2>1. b \in Blocks /\ Tells(b, f, t) BY <1>3 DEF Tell
    <2>2. l = LeftOf(b, pos, n) OBVIOUS
    <2> HIDE DEF b, l
    <2>3. Laid(l, m[b.start], m[End(b)]) /\ Tell(l, f, u) BY <2>1, <2>2, RemovedPart DEF m
    <2> QED BY <2>3 DEF b, l
  <1> HIDE DEF Left
  <1>5. ss \in [1..Len(bs) -> Seq(Blocks)]
    <2>1. \A k \in 1..Len(bs) : Left(bs[k]) \in Seq(Blocks) BY <1>4, LaidFacts
    <2> QED BY <2>1, <1>3
  <1>6. PiecesLaid(ss, bs, m)
    <2>1. ASSUME NEW k \in 1..Len(bs)
          PROVE  Laid(ss[k], m[bs[k].start], m[End(bs[k])])
      <3>1. ss[k] = Left(bs[k]) BY <1>3
      <3> QED BY <3>1, <1>4
    <2> HIDE DEF ss
    <2> QED BY <2>1 DEF PiecesLaid
  <1>7. PiecesTell(ss, f, u)
    <2>1. ASSUME NEW k \in DOMAIN ss PROVE Tell(ss[k], f, u)
      <3>1. k \in 1..Len(bs) /\ ss[k] = Left(bs[k]) BY <1>3
      <3> QED BY <3>1, <1>4
    <2> HIDE DEF ss
    <2> QED BY <2>1 DEF PiecesTell
  <1> HIDE DEF ss
  <1>8. /\ Laid(FlattenSeq(ss), m[z], m[hi])
        /\ \A g, v : PiecesTell(ss, g, v) => Tell(FlattenSeq(ss), g, v)
    BY <1>0, <1>1, <1>3, <1>5, <1>6, LaidEach
  <1> QED BY <1>1, <1>2, <1>7, <1>8

(* Bytes that are put in: what becomes of the block they fall into.           *)
InsideOf(b, pos, data) ==
    IF IsFromDisk(b)
    THEN FirstPart(b, pos) \o <<MemoryBlock(pos, data)>>
           \o [k \in DOMAIN LastPart(b, pos) |->
                  [LastPart(b, pos)[k] EXCEPT !.start = @ + Len(data)]]
    ELSE << MemoryBlock(b.start, SubSeq(b.data, 1, pos - b.start) \o data
                                   \o SubSeq(b.data, pos - b.start + 1, b.size)) >>

LEMMA InsideDisk ==
    ASSUME NEW u, NEW t, NEW pos, NEW data, Changed(u, t, pos, 0, data), data # <<>>,
           NEW b \in Blocks, b.start <= pos, pos < End(b), IsFromDisk(b),
           NEW f, Tells(b, f, t),
           NEW new, new = InsideOf(b, pos, data)
    PROVE  /\ Laid(new, b.start, End(b) + Len(data))
           /\ Tell(new, f, u)
  <1> DEFINE x == b.start
             e == End(b)
             n == 0
             d == Len(data)
             head == FirstPart(b, pos)
             tail == LastPart(b, pos)
             moved == Moved(tail, n, d)
             one == <<MemoryBlock(pos, data)>>
  <1>0. /\ x \in Nat /\ e \in Nat /\ x <= pos /\ pos < e /\ pos \in Nat /\ n \in Nat
        /\ d \in Nat \ {0} /\ e <= Len(t) /\ pos + n = pos /\ Len(u) = Len(t) + d
        /\ Len(t) \in Nat /\ data \in Seq(Bytes)
        /\ \A i \in 1..d : u[pos + i] = data[i]
        /\ Clip(pos, x, e) = pos
    <2>1. Len(data) \in Nat \ {0} /\ Len(t) \in Nat BY DEF Changed
    <2>2. Clip(pos, x, e) = pos BY <2>1, BlockType DEF Changed, Clip
    <2> QED BY <2>1, <2>2, BlockType DEF Changed, Tells
  <1>1. Laid(head, x, pos) /\ Tell(head, f, t) BY <1>0, FirstPartIsLaid
  <1>2. Laid(tail, pos, e) /\ Tell(tail, f, t) BY <1>0, LastPartIsLaid
  <1>3. tail \in Seq(Blocks) /\ DOMAIN tail = 1..Len(tail) /\ Len(tail) \in Nat
    <2>1. tail \in Seq(Blocks) BY <1>2, LaidFacts
    <2> HIDE DEF tail
    <2> QED BY ONLY <2>1
  <1>4. new = head \o one \o moved
    <2>1. \A k \in 1..Len(tail) : tail[k].start + d = (tail[k].start - n) + d
      <3>1. \A k \in 1..Len(tail) : tail[k].start \in Nat BY <1>2, LaidFacts, BlockType
      <3> HIDE DEF tail
      <3>2. ASSUME NEW k \in 1..Len(tail)
            PROVE  tail[k].start + d = (tail[k].start - n) + d
        <4> DEFINE v == tail[k].start
        <4>1. v \in Nat BY <3>1
        <4> HIDE DEF v, d
        <4>2. v + d = (v - n) + d BY <4>1, <1>0
        <4> QED BY <4>2 DEF v
      <3> QED BY <3>2
    <2>2. new = head \o one \o [k \in DOMAIN tail |-> [tail[k] EXCEPT !.start = tail[k].start + d]]
      BY DEF InsideOf
    <2> HIDE DEF head, tail, one, n, d
    <2> QED BY <2>1, <2>2, <1>3 DEF Moved
  <1> HIDE DEF head, tail, moved
  <1>5. Tell(head, f, u)
    <2> HIDE DEF x
    <2> QED BY <1>0, <1>1, BeforeShows
  <1>6. Laid(one, pos, pos + d) /\ Tell(one, f, u)
    <2> DEFINE m == MemoryBlock(pos, data)
    <2>1. pos + d <= Len(u)
      <3> DEFINE v == Len(u)
                 w == Len(t)
      <3>1. pos < e /\ e <= w /\ v = w + d /\ pos \in Nat /\ e \in Nat /\ w \in Nat /\ d \in Nat
        BY <1>0
      <3> HIDE DEF v, w, d, e
      <3>2. pos + d <= v BY ONLY <3>1
      <3> QED BY <3>2 DEF v
    <2>2. /\ m \in Blocks /\ m.start = pos /\ End(m) = pos + d
          /\ Tells(m, f, u)
      BY <2>1, <1>0, MemoryBlockTells
    <2> HIDE DEF m
    <2>3. Laid(<<m>>, m.start, End(m)) /\ Tell(<<m>>, f, u) BY <2>2, OneBlockIsLaid
    <2> QED BY <2>2, <2>3 DEF m
  <1>7. Laid(moved, pos + d, e + d) /\ Tell(moved, f, u)
    <2>1. moved = Moved(tail, n, Len(data)) BY DEF moved
    <2>2. (pos - n) + d = pos + d /\ (e - n) + d = e + d
      <3> HIDE DEF d, e
      <3> QED BY <1>0
    <2>3. Changed(u, t, pos, n, data) OBVIOUS
    <2> HIDE DEF n, e
    <2>4. pos + n <= pos BY <1>0
    <2>5. Laid(moved, (pos - n) + Len(data), (e - n) + Len(data)) /\ Tell(moved, f, u)
      BY <1>0, <1>2, <2>1, <2>3, <2>4, AfterShows
    <2> QED BY <2>2, <2>5
  <1> DEFINE p1 == pos + d
             p2 == e + d
  <1>8. p1 \in Nat /\ p2 \in Nat
    <2> HIDE DEF d, e
    <2> QED BY <1>0
  <1> HIDE DEF one, x
  <1>9. Laid(head \o one, x, p1) /\ Tell(head \o one, f, u)
    <2> HIDE DEF p1
    <2> QED BY <1>0, <1>1, <1>5, <1>6, <1>8, LaidTogether DEF p1
  <1>10. Laid((head \o one) \o moved, x, p2) /\ Tell((head \o one) \o moved, f, u)
    <2> DEFINE l == head \o one
    <2> HIDE DEF p1, p2, l
    <2>1. Laid(l, x, p1) /\ Tell(l, f, u) BY <1>9 DEF l
    <2>2. Laid(moved, p1, p2) BY <1>7 DEF p1, p2
    <2>3. Laid(l \o moved, x, p2) /\ Tell(l \o moved, f, u)
      BY <2>1, <2>2, <1>0, <1>7, <1>8, LaidTogether
    <2> QED BY <2>3 DEF l
  <1> QED BY <1>4, <1>10 DEF x

LEMMA InsideMemory ==
    ASSUME NEW u, NEW t, NEW pos, NEW data, Changed(u, t, pos, 0, data), data # <<>>,
           NEW b \in Blocks, b.start <= pos, pos < End(b), ~IsFromDisk(b),
           NEW f, Tells(b, f, t),
           NEW new, new = InsideOf(b, pos, data)
    PROVE  /\ Laid(new, b.start, End(b) + Len(data))
           /\ Tell(new, f, u)
  <1> DEFINE x == b.start
             z == b.size
             d == Len(data)
             y == Len(t)
             skip == pos - x
             n == 0
             w == History!Spliced(b.data, skip, n, data)
             m == MemoryBlock(x, w)
  <1>0. /\ x \in Nat /\ z \in Nat \ {0} /\ End(b) = x + z /\ d \in Nat \ {0} /\ y \in Nat
        /\ b.data \in Seq(Bytes) /\ Len(b.data) = z /\ pos \in Nat /\ x <= pos /\ pos < x + z
        /\ x + z <= y /\ Len(u) = y + d /\ data \in Seq(Bytes)
    <2>1. Len(data) \in Nat \ {0} /\ Len(t) \in Nat BY DEF Changed
    <2> QED BY <2>1, BlockType DEF Changed, Tells
  <1>1. /\ \A i \in 1..pos : u[i] = t[i]
        /\ \A i \in 1..d : u[pos + i] = data[i]
        /\ \A i \in 1..y - pos : u[pos + d + i] = t[pos + i]
        /\ \A i \in 1..z : t[x + i] = b.data[i]
    <2>1. /\ \A i \in 1..y - pos - 0 : u[pos + d + i] = t[pos + 0 + i]
          /\ \A i \in 1..pos : u[i] = t[i]
          /\ \A i \in 1..d : u[pos + i] = data[i]
      BY DEF Changed
    <2>2. y - pos - 0 = y - pos /\ pos + 0 = pos
      <3> HIDE DEF y
      <3> QED BY <1>0
    <2>3. \A i \in 1..z : t[x + i] = b.data[i] BY DEF Tells
    <2> HIDE DEF x, z, d, y
    <2> QED BY <2>1, <2>2, <2>3
  <1>2. skip \in Nat /\ n \in Nat /\ skip + n <= z /\ x + skip = pos /\ z - skip \in Nat
        /\ skip + n = skip /\ z - skip - n = z - skip /\ z - n + d = z + d
    <2> HIDE DEF x, z, d
    <2> QED BY <1>0
  <1>3. Changed(w, b.data, skip, n, data)
    <2> HIDE DEF skip, n
    <2> QED BY <1>0, <1>2, SplicedIsChanged
  <1>4. new = <<m>>
    <2>1. new = << MemoryBlock(x, SubSeq(b.data, 1, skip) \o data
                                    \o SubSeq(b.data, skip + 1, b.size)) >>
      BY DEF InsideOf
    <2>2. w = SubSeq(b.data, 1, skip) \o data \o SubSeq(b.data, skip + n + 1, Len(b.data))
      BY DEF History!Spliced
    <2>3. skip + n + 1 = skip + 1 BY <1>2
    <2> QED BY <2>1, <2>2, <2>3, <1>0
  <1> HIDE DEF w
  <1>5. /\ w \in Seq(Bytes) /\ Len(w) = z + d
        /\ \A i \in 1..skip : w[i] = b.data[i]
        /\ \A i \in 1..d : w[skip + i] = data[i]
        /\ \A i \in 1..z - skip : w[skip + d + i] = b.data[skip + i]
    <2> HIDE DEF skip, n
    <2>1. /\ w \in Seq(Bytes) /\ Len(w) = z - n + d
          /\ \A i \in 1..skip : w[i] = b.data[i]
          /\ \A i \in 1..d : w[skip + i] = data[i]
          /\ \A i \in 1..z - skip - n : w[skip + d + i] = b.data[skip + n + i]
      BY <1>0, <1>3 DEF Changed
    <2> HIDE DEF z, d
    <2> QED BY <2>1, <1>2
  <1>6. ASSUME NEW i \in 1..z + d PROVE u[x + i] = w[i]
    <2> HIDE DEF x, z, d, y, skip, n
    <2>1. CASE i <= skip
      <3>1. i \in 1..skip /\ x + i \in 1..pos /\ i \in 1..z BY <2>1, <1>0, <1>2
      <3> QED BY <3>1, <1>1, <1>5
    <2>2. CASE ~(i <= skip) /\ i <= skip + d
      <3> DEFINE j == i - skip
      <3>1. j \in 1..d /\ skip + j = i /\ pos + j = x + i BY <2>2, <1>0, <1>2
      <3> HIDE DEF j
      <3>2. u[pos + j] = data[j] /\ w[skip + j] = data[j] BY <3>1, <1>1, <1>5
      <3> QED BY <3>1, <3>2
    <2>3. CASE ~(i <= skip + d)
      <3> DEFINE j == i - skip - d
      <3>1. /\ j \in 1..z - skip /\ j \in 1..y - pos /\ skip + d + j = i /\ pos + d + j = x + i
            /\ skip + j \in 1..z /\ x + (skip + j) = pos + j
        BY <2>3, <1>0, <1>2
      <3> HIDE DEF j
      <3>2. u[pos + d + j] = t[pos + j] /\ w[skip + d + j] = b.data[skip + j]
        BY <3>1, <1>1, <1>5
      <3>3. t[x + (skip + j)] = b.data[skip + j] BY <3>1, <1>1
      <3> QED BY <3>1, <3>2, <3>3
    <2> QED BY <2>1, <2>2, <2>3
  <1>7. w # <<>> /\ x + Len(w) <= Len(u) /\ x + Len(w) = End(b) + d
    <2> DEFINE v == Len(u)
               k == Len(w)
               e == End(b)
    <2>1. k = z + d /\ v = y + d /\ e = x + z BY <1>0, <1>5
    <2> HIDE DEF x, z, d, y, v, k, e
    <2>2. k # 0 /\ x + k <= v /\ x + k = e + d BY <2>1, <1>0
    <2> QED BY <2>2, <1>5 DEF v, k, e
  <1>8. /\ m \in Blocks /\ m.start = x /\ End(m) = x + Len(w)
        /\ Tells(m, f, u)
    <2>1. \A i \in 1..Len(w) : u[x + i] = w[i] BY <1>5, <1>6
    <2> HIDE DEF x
    <2> QED BY <2>1, <1>0, <1>5, <1>7, MemoryBlockTells
  <1> HIDE DEF m
  <1>9. Laid(<<m>>, m.start, End(m)) /\ Tell(<<m>>, f, u) BY <1>8, OneBlockIsLaid
  <1> QED BY <1>4, <1>7, <1>8, <1>9

LEMMA InsertedShows ==
    ASSUME NEW u, NEW t, NEW pos, NEW data, Changed(u, t, pos, 0, data), data # <<>>,
           NEW bs, Laid(bs, 0, Len(t)), pos < Len(t), NEW f, Tell(bs, f, t)
    PROVE  /\ Laid(Inserted(bs, pos, data), 0, Len(u))
           /\ Tell(Inserted(bs, pos, data), f, u)
  <1> DEFINE at == FindBlock(bs, pos)
             b == bs[at]
             x == b.start
             e == End(b)
             z == 0
             n == 0
             d == Len(data)
             y == Len(t)
             last == Len(bs)
             j == at - 1
             head == SubSeq(bs, z + 1, j)
             tail == SubSeq(bs, at + 1, last)
             new == InsideOf(b, pos, data)
             moved == Moved(tail, n, d)
  <1>0. /\ pos \in Nat /\ d \in Nat \ {0} /\ y \in Nat /\ Len(u) = y + d /\ z \in Nat
        /\ n \in Nat /\ pos + n = pos
    <2>1. /\ pos \in Nat /\ data \in Seq(Bytes) /\ t \in Seq(Bytes)
          /\ Len(u) = Len(t) - 0 + Len(data)
      BY DEF Changed
    <2>2. d \in Nat \ {0} /\ y \in Nat BY <2>1
    <2> HIDE DEF d, y
    <2> QED BY <2>1, <2>2 DEF d, y
  <1>1. Laid(bs, z, y) OBVIOUS
  <1>2. at \in 1..Len(bs) /\ bs[at].start <= pos /\ pos < End(bs[at])
    <2> HIDE DEF y
    <2> QED BY <1>0, <1>1, BlockFound DEF y
  <1> HIDE DEF at
  <1>3. /\ bs \in Seq(Blocks) /\ last \in Nat /\ at \in 1..last /\ j \in 0..last
        /\ at \in 0..last /\ last \in 0..last /\ at <= last /\ z \in 0..last /\ z <= j
        /\ \A k \in 1..last : bs[k] \in Blocks
        /\ \A k \in 2..last : End(bs[k - 1]) = bs[k].start
        /\ bs[1].start = z /\ End(bs[last]) = y
    <2>1. /\ bs \in Seq(Blocks) /\ Len(bs) \in Nat
          /\ \A k \in 1..Len(bs) : bs[k] \in Blocks
          /\ \A k \in 2..Len(bs) : End(bs[k - 1]) = bs[k].start
      BY <1>1, LaidFacts
    <2>2. bs # <<>> BY <1>2
    <2>3. bs[1].start = z /\ End(bs[last]) = y BY <1>1, <2>2 DEF Laid
    <2> HIDE DEF z, y, last
    <2>4. z = 0 /\ last = Len(bs) BY DEF z, last
    <2> QED BY <1>2, <2>1, <2>3, <2>4
  <1>4. /\ b \in Blocks /\ x \in Nat /\ e \in Nat /\ x < e /\ x <= pos /\ pos < e
        /\ Tells(b, f, t) /\ e <= y
    <2>1. b \in Blocks /\ Tells(b, f, t) BY <1>2, <1>3 DEF Tell
    <2>2. e <= y BY <2>1 DEF Tells
    <2> QED BY <1>2, <2>1, <2>2, BlockType
  <1>5. IF j = 0 THEN x = z ELSE End(bs[j]) = x
    <2>1. CASE j = 0
      <3>1. at = 1 BY <2>1, <1>3
      <3> QED BY <2>1, <3>1, <1>3
    <2>2. CASE j # 0
      <3>1. at \in 2..last BY <2>2, <1>3
      <3> QED BY <2>2, <3>1, <1>3
    <2> QED BY <2>1, <2>2
  <1>6. Laid(head, z, x) /\ Tell(head, f, u)
    <2>1. /\ Laid(SubSeq(bs, z + 1, j), IF z = 0 THEN z ELSE End(bs[z]),
                                        IF j = 0 THEN z ELSE End(bs[j]))
          /\ \A g, v : Tell(bs, g, v) => Tell(SubSeq(bs, z + 1, j), g, v)
      <3> HIDE DEF z, j, y, last
      <3>1. z \in 0..Len(bs) /\ j \in 0..Len(bs) /\ z <= j BY <1>3 DEF last
      <3> QED BY <1>0, <1>1, <3>1, LaidPart
    <2>2. Laid(head, z, x) /\ Tell(head, f, t) BY <2>1, <1>5
    <2> HIDE DEF head, z, x
    <2>3. Tell(head, f, u) BY <2>2, <1>0, <1>4, BeforeShows
    <2> QED BY <2>2, <2>3
  <1>7. /\ Laid(tail, e, y) /\ Tell(tail, f, t) /\ Len(tail) = last - at
        /\ \A k \in 1..last - at : tail[k] = bs[at + k]
    <2>1. /\ Laid(SubSeq(bs, at + 1, last), IF at = 0 THEN z ELSE End(bs[at]),
                                            IF last = 0 THEN z ELSE End(bs[last]))
          /\ Len(SubSeq(bs, at + 1, last)) = last - at
          /\ \A k \in 1..last - at : SubSeq(bs, at + 1, last)[k] = bs[at + k]
          /\ \A g, v : Tell(bs, g, v) => Tell(SubSeq(bs, at + 1, last), g, v)
      <3> HIDE DEF z, y, last
      <3>1. at \in 0..Len(bs) /\ last \in 0..Len(bs) /\ at <= last BY <1>3 DEF last
      <3> QED BY <1>0, <1>1, <3>1, LaidPart
    <2>2. at # 0 /\ last # 0
      <3> HIDE DEF last
      <3> QED BY <1>3
    <2> QED BY <2>1, <2>2, <1>3
  <1>8. Inserted(bs, pos, data) = head \o new \o moved
    <2> DEFINE later == [k \in 1..Len(bs) - at |-> [bs[at + k] EXCEPT !.start = @ + Len(data)]]
    <2>1. ~(at > Len(bs)) BY <1>3
    <2>2. Inserted(bs, pos, data) = SubSeq(bs, 1, at - 1) \o InsideOf(b, pos, data) \o later
      BY <2>1 DEF Inserted, InsideOf, at
    <2>3. later = moved
      <3>1. \A k \in 1..last - at : bs[at + k].start + d = (tail[k].start - n) + d
        <4>1. ASSUME NEW k \in 1..last - at
              PROVE  bs[at + k].start + d = (tail[k].start - n) + d
          <5> DEFINE v == bs[at + k].start
          <5>1. v \in Nat
            <6>1. at + k \in 1..last
              <7> HIDE DEF last
              <7> QED BY <1>3
            <6> QED BY <6>1, <1>3, BlockType
          <5>2. tail[k].start = v BY <1>7
          <5> HIDE DEF v, d, tail
          <5>3. v + d = (v - n) + d BY <5>1, <1>0
          <5> QED BY <5>2, <5>3 DEF v
        <4> QED BY <4>1
      <3> HIDE DEF tail, n, last, d
      <3>2. later = [k \in 1..last - at |-> [bs[at + k] EXCEPT !.start = bs[at + k].start + d]]
        BY DEF last, d
      <3> HIDE DEF later
      <3>3. moved = [k \in 1..last - at |-> [tail[k] EXCEPT !.start = (tail[k].start - n) + d]]
        BY <1>7 DEF Moved
      <3> QED BY <3>1, <3>2, <3>3, <1>7
    <2>4. head = SubSeq(bs, 1, at - 1) OBVIOUS
    <2> HIDE DEF later, moved, head, b
    <2> QED BY <2>2, <2>3, <2>4
  <1> DEFINE p == e + d
             w == y + d
  <1>9. p \in Nat /\ w \in Nat
    <2> HIDE DEF e, d, y
    <2> QED BY <1>0, <1>4
  <1>10. Laid(moved, p, w) /\ Tell(moved, f, u)
    <2> HIDE DEF tail
    <2>1. moved = Moved(tail, n, Len(data)) OBVIOUS
    <2>2. (e - n) + Len(data) = p /\ (y - n) + Len(data) = w
      <3> DEFINE k == Len(data)
      <3>1. k = d OBVIOUS
      <3> HIDE DEF e, y, d, k
      <3>2. (e - n) + k = p /\ (y - n) + k = w BY <3>1, <1>0, <1>4
      <3> QED BY <3>2 DEF k
    <2>3. Changed(u, t, pos, n, data) OBVIOUS
    <2>4. pos + n <= e /\ y <= Len(t) 
      <3>1. y <= Len(t) BY <1>0
      <3> HIDE DEF e, n, y
      <3> QED BY <3>1, <1>0, <1>4
    <2> HIDE DEF moved, n, e, y
    <2>5. Laid(moved, (e - n) + Len(data), (y - n) + Len(data)) /\ Tell(moved, f, u)
      BY <1>0, <1>4, <1>7, <2>1, <2>3, <2>4, AfterShows
    <2> QED BY <2>2, <2>5
  <1>11. Laid(new, x, p) /\ Tell(new, f, u)
    <2> HIDE DEF b
    <2>1. b.start <= pos /\ pos < End(b) /\ new = InsideOf(b, pos, data) BY <1>4
    <2> HIDE DEF new
    <2>2. Laid(new, b.start, End(b) + Len(data)) /\ Tell(new, f, u)
      <3>1. CASE IsFromDisk(b) BY <3>1, <2>1, <1>4, InsideDisk
      <3>2. CASE ~IsFromDisk(b) BY <3>2, <2>1, <1>4, InsideMemory
      <3> QED BY <3>1, <3>2
    <2> QED BY <2>2
  <1> HIDE DEF head, new, moved, p, w, x, z
  <1>12. Laid(head \o new, z, p) /\ Tell(head \o new, f, u)
    BY <1>0, <1>4, <1>6, <1>9, <1>11, LaidTogether
  <1> DEFINE l == head \o new
  <1> HIDE DEF l
  <1>13. Laid(l \o moved, z, w) /\ Tell(l \o moved, f, u)
    <2>1. Laid(l, z, p) /\ Tell(l, f, u) BY <1>12 DEF l
    <2> QED BY <2>1, <1>0, <1>9, <1>10, LaidTogether
  <1>14. Laid(l \o moved, 0, Len(u)) BY <1>13, <1>0 DEF w, z
  <1> QED BY <1>8, <1>13, <1>14 DEF l

LEMMA TextIs == Text = TextOf(file, blocks) /\ Text' = TextOf(file', blocks')
  BY DEF Text, TextOf, BytesOf, BytesIn

(* SetBlock as a whole: whatever is cut, moved and merged, the list tells of the
   text with the edit made.                                                   *)
LEMMA SetBlockShows ==
    ASSUME NEW u, NEW t, NEW pos, NEW n, NEW data, Changed(u, t, pos, n, data),
           n = Len(data) \/ n = 0 \/ data = <<>>,
           n # 0 \/ data # <<>>, n = 0 => pos < Len(t),
           NEW bs, Laid(bs, 0, Len(t)), NEW f \in Seq(Bytes), Tell(bs, f, t)
    PROVE  /\ Laid(SetBlock(bs, data, pos, n), 0, Len(u))
           /\ Tell(SetBlock(bs, data, pos, n), f, u)
  <1> DEFINE y == Len(t)
             z == 0
             d == Len(data)
             put == Overwritten(bs, pos, data)
             at == FindBlock(bs, pos)
             near == IF at = 1 THEN Len(bs) ELSE at - 1
             merged == MergeBlocks(bs, near)
             behind == FindBlock(put, pos + n - 1)
  <1>0. /\ pos \in Nat /\ n \in Nat /\ y \in Nat /\ d \in Nat /\ data \in Seq(Bytes)
        /\ z \in Nat /\ pos + n <= y /\ Len(u) = y - n + d /\ pos < y
        /\ t \in Seq(Bytes) /\ u \in Seq(Bytes) /\ (data = <<>> <=> d = 0)
    <2>1. data \in Seq(Bytes) /\ t \in Seq(Bytes) BY DEF Changed
    <2>2. d \in Nat /\ y \in Nat /\ (data = <<>> <=> d = 0) BY <2>1
    <2>3. pos \in Nat /\ n \in Nat /\ u \in Seq(Bytes) /\ pos + n <= y /\ Len(u) = y - n + d
      BY DEF Changed
    <2> HIDE DEF d, y
    <2>4. pos < y BY <2>2, <2>3 DEF y
    <2> QED BY <2>1, <2>2, <2>3, <2>4 DEF y
  <1>1. Laid(bs, z, y) OBVIOUS
  <1>2. CASE n = d
    <2>1. /\ n > 0 /\ pos + n - 1 \in Nat /\ pos + n - 1 < y /\ Len(u) = y
      <3> HIDE DEF d, y
      <3> QED BY <1>0, <1>2
    <2>2. Changed(u, t, pos, Len(data), data) /\ data # <<>> BY <1>0, <1>2, <2>1
    <2>3. Laid(put, 0, Len(t)) /\ Tell(put, f, u) BY <2>2, OverwrittenShows
    <2> HIDE DEF put
    <2>4. behind \in 1..Len(put)
      <3> DEFINE p == pos + n - 1
      <3> HIDE DEF y, p
      <3>1. FindBlock(put, p) \in 1..Len(put) BY <1>0, <2>1, <2>3, BlockFound DEF y, p
      <3> QED BY <3>1 DEF p
    <2>5. SetBlock(bs, data, pos, n) = MergeBlocks(put, behind) BY <1>2 DEF SetBlock, put
    <2>6. Laid(put, z, y) BY <2>3
    <2> HIDE DEF behind, y, z
    <2>7. Laid(MergeBlocks(put, behind), z, y) /\ Tell(MergeBlocks(put, behind), f, u)
      BY <1>0, <2>3, <2>4, <2>6, MergeBlocksKeeps
    <2> QED BY <2>1, <2>5, <2>7 DEF z
  <1>3. CASE n # d
    <2>1. at \in 1..Len(bs)
      <3> HIDE DEF y
      <3> QED BY <1>0, <1>1, BlockFound DEF y
    <2>2. near \in 1..Len(bs)
      <3> HIDE DEF at
      <3>1. Len(bs) \in Nat BY <1>1, LaidFacts
      <3> QED BY <2>1, <3>1
    <2> HIDE DEF near, y, z
    <2>3. Laid(merged, z, y) /\ Tell(merged, f, t)
      BY <1>0, <1>1, <2>2, MergeBlocksKeeps
    <2> HIDE DEF merged
    <2>4. Laid(merged, 0, Len(t)) BY <2>3 DEF z, y
    <2>5. CASE n > 0
      <3>1. data = <<>> BY <1>0, <1>3, <2>5
      <3>2. SetBlock(bs, data, pos, n) = Removed(merged, pos, n)
        BY <1>3, <2>5 DEF SetBlock, merged, near
      <3>3. Changed(u, t, pos, n, <<>>) BY <3>1
      <3>4. merged # <<>> BY <2>4, <1>0 DEF Laid, y
      <3>5. Laid(Removed(merged, pos, n), 0, Len(u)) /\ Tell(Removed(merged, pos, n), f, u)
        BY <2>3, <2>4, <3>3, <3>4, RemovedShows
      <3> QED BY <3>2, <3>5
    <2>6. CASE ~(n > 0)
      <3>1. n = 0 BY <1>0, <2>6
      <3>2. SetBlock(bs, data, pos, n) = Inserted(merged, pos, data)
        BY <1>3, <2>6 DEF SetBlock, merged, near
      <3>3. Changed(u, t, pos, 0, data) /\ data # <<>> /\ pos < Len(t) BY <3>1
      <3>4. Laid(Inserted(merged, pos, data), 0, Len(u)) /\ Tell(Inserted(merged, pos, data), f, u)
        BY <2>3, <2>4, <3>3, InsertedShows
      <3> QED BY <3>2, <3>4
    <2> QED BY <2>5, <2>6
  <1> QED BY <1>2, <1>3

(* Bytes put at the end of the text: the list is the one before, merged.      *)
LEMMA SetBlockAtEnd ==
    ASSUME NEW t \in Seq(Bytes), NEW data \in Seq(Bytes), data # <<>>,
           NEW bs, bs # <<>>, Laid(bs, 0, Len(t)), NEW f \in Seq(Bytes), Tell(bs, f, t)
    PROVE  Laid(SetBlock(bs, data, Len(t), 0), 0, Len(t))
  <1> DEFINE y == Len(t)
             z == 0
             at == FindBlock(bs, y)
             near == IF at = 1 THEN Len(bs) ELSE at - 1
             merged == MergeBlocks(bs, near)
  <1>1. y \in Nat /\ z \in Nat /\ Laid(bs, z, y) /\ Len(data) # 0 OBVIOUS
  <1>2. Len(bs) \in Nat \ {0} BY <1>1, LaidFacts
  <1>3. at = Len(bs) + 1 BY <1>1, BlockFound
  <1>4. near \in 1..Len(bs)
    <2> HIDE DEF at
    <2> QED BY <1>2, <1>3
  <1> HIDE DEF near, y, z, at
  <1>5. Laid(merged, z, y) BY <1>1, <1>4, MergeBlocksKeeps
  <1>6. SetBlock(bs, data, y, 0) = Inserted(merged, y, data)
    BY <1>1 DEF SetBlock, merged, near, at
  <1> HIDE DEF merged
  <1>7. FindBlock(merged, y) = Len(merged) + 1
    <2>1. Laid(merged, 0, y) BY <1>5 DEF z
    <2> QED BY <2>1, <1>1, BlockFound
  <1>8. Len(merged) \in Nat BY <1>5, LaidFacts
  <1>9. Inserted(merged, y, data) = merged
    <2>1. FindBlock(merged, y) > Len(merged) BY <1>7, <1>8
    <2> QED BY ONLY <2>1 DEF Inserted
  <1> QED BY <1>5, <1>6, <1>9 DEF y, z

-----------------------------------------------------------------------------
(* Saving. A stretch of the file from its beginning as the one block.          *)
LEMMA DiskBlockTells ==
    ASSUME NEW n \in Nat \ {0}, NEW f, NEW t \in Seq(Bytes), n <= Len(t), n <= Len(f),
           \A p \in 1..n : f[p] = t[p]
    PROVE  Laid(<<DiskBlock(0, 0, n)>>, 0, n) /\ Tell(<<DiskBlock(0, 0, n)>>, f, t)
  <1> DEFINE b == DiskBlock(0, 0, n)
  <1>1. b = [start |-> 0, fileStart |-> 0, size |-> n, data |-> <<>>] BY DEF DiskBlock
  <1>2. b \in [start : Nat, fileStart : Nat, size : Nat \ {0}, data : Seq(Bytes)]
    <2> DEFINE none == <<>>
    <2>1. none \in Seq(Bytes) /\ b = [start |-> 0, fileStart |-> 0, size |-> n, data |-> none]
      BY <1>1
    <2> HIDE DEF b, none
    <2> QED BY <2>1
  <1>3. b.start = 0 /\ b.fileStart = 0 /\ b.size = n /\ b.data = <<>> BY <1>1
  <1> HIDE DEF b
  <1>4. b \in Blocks /\ End(b) = n /\ IsFromDisk(b) BY <1>2, <1>3 DEF Blocks, End, IsFromDisk
  <1>5. \A i \in 1..n : t[0 + i] = f[0 + i] OBVIOUS
  <1>6. Tells(b, f, t) BY <1>3, <1>4, <1>5 DEF Tells
  <1>7. Laid(<<b>>, b.start, End(b)) /\ Tell(<<b>>, f, t) BY <1>4, <1>6, OneBlockIsLaid
  <1> QED BY <1>3, <1>4, <1>7 DEF b

(* The file when the blocks in memory have been written over it.              *)
Overlay(f, bs, t, end) ==
    [p \in 1..Max({end, Len(f)}) |->
        IF \E k \in {k \in DOMAIN bs : ~IsFromDisk(bs[k])} :
              p > bs[k].start /\ p <= Min({End(bs[k]), end})
        THEN t[p] ELSE f[p]]
InPlace(bs) == \A k \in 1..Len(bs) : IsFromDisk(bs[k]) => bs[k].fileStart = bs[k].start

LEMMA OverlayShows ==
    ASSUME NEW t \in Seq(Bytes), NEW f \in Seq(Bytes), NEW bs, Laid(bs, 0, Len(t)),
           Tell(bs, f, t), Len(f) <= Len(t), InPlace(bs),
           NEW end \in Nat, end <= Len(t),
           NEW g, g = Overlay(f, bs, t, end)
    PROVE  /\ g \in Seq(Bytes) /\ end <= Len(g) /\ Len(g) <= Len(t)
           /\ \A p \in 1..end : g[p] = t[p]
           /\ Tell(bs, g, t)
  <1> DEFINE y == Len(t)
             x == Len(f)
             z == 0
             w == Max({end, x})
             C(p) == \E k \in {k \in DOMAIN bs : ~IsFromDisk(bs[k])} :
                        p > bs[k].start /\ p <= Min({End(bs[k]), end})
  <1>0. /\ x \in Nat /\ y \in Nat /\ z \in Nat /\ Laid(bs, z, y) /\ end <= y /\ x <= y
        /\ w = IF end <= x THEN x ELSE end
    <2>1. x \in Nat /\ y \in Nat /\ z \in Nat OBVIOUS
    <2>2. w = IF end <= x THEN x ELSE end
      <3> HIDE DEF x
      <3> QED BY <2>1, MinOfTwo
    <2> QED BY <2>1, <2>2
  <1>1. /\ bs \in Seq(Blocks) /\ DOMAIN bs = 1..Len(bs) /\ Len(bs) \in Nat
        /\ \A k \in 1..Len(bs) : bs[k] \in Blocks /\ Tells(bs[k], f, t)
    <2>1. bs \in Seq(Blocks) BY <1>0, LaidFacts
    <2>2. DOMAIN bs = 1..Len(bs) /\ Len(bs) \in Nat BY ONLY <2>1
    <2>3. \A k \in 1..Len(bs) : bs[k] \in Blocks BY <1>0, LaidFacts
    <2> QED BY <2>1, <2>2, <2>3 DEF Tell
  <1>2. g = [p \in 1..w |-> IF C(p) THEN t[p] ELSE f[p]] BY DEF Overlay
  <1>3. \A p \in 1..w : g[p] = IF C(p) THEN t[p] ELSE f[p]
    <2> HIDE DEF C, w
    <2> QED BY <1>2
  <1>4. w \in Nat /\ end <= w /\ x <= w /\ w <= y
    <2> HIDE DEF w, x, y
    <2> QED BY <1>0
  <1>5. ASSUME NEW k \in 1..Len(bs), IsFromDisk(bs[k]), NEW p \in 1..w,
               bs[k].start < p, p <= End(bs[k])
        PROVE  g[p] = t[p] /\ p <= x
    <2> DEFINE b == bs[k]
               a == b.start
               i == p - a
    <2>1. /\ b \in Blocks /\ Tells(b, f, t) /\ IsFromDisk(b) /\ b.fileStart = a
      BY <1>1, <1>5 DEF InPlace
    <2>2. /\ a \in Nat /\ b.size \in Nat /\ End(b) = a + b.size
      BY <2>1, BlockType
    <2>3. /\ a + b.size <= x
          /\ \A j \in 1..b.size : t[a + j] = f[a + j]
      BY <2>1 DEF Tells
    <2>4. a < p /\ p <= a + b.size BY <1>5, <2>2
    <2> DEFINE c == b.size
    <2>5. i \in 1..c /\ a + i = p /\ p <= x
      <3>1. a \in Nat /\ c \in Nat /\ x \in Nat /\ p \in Nat /\ a < p /\ p <= a + c /\ a + c <= x
        BY <1>0, <1>4, <2>2, <2>3, <2>4
      <3> HIDE DEF a, c, x
      <3> QED BY ONLY <3>1
    <2> HIDE DEF i, a
    <2>6. t[p] = f[p]
      <3>1. t[a + i] = f[a + i] BY <2>3, <2>5
      <3> QED BY <3>1, <2>5
    <2> QED BY <2>5, <2>6, <1>3
  <1>6. ASSUME NEW p \in 1..end PROVE g[p] = t[p]
    <2> DEFINE q == p - 1
    <2>1. q \in Nat /\ z <= q /\ q < y /\ p \in 1..w
      <3> HIDE DEF y, w
      <3> QED BY <1>0, <1>4
    <2> HIDE DEF q
    <2>2. PICK k \in 1..Len(bs) : bs[k].start <= q /\ q < End(bs[k])
      <3> HIDE DEF z, y
      <3> QED BY <1>0, <2>1, PlaceFound
    <2>3. bs[k].start \in Nat /\ End(bs[k]) \in Nat BY <1>1, BlockType
    <2>4. bs[k].start < p /\ p <= End(bs[k])
      <3> DEFINE a == bs[k].start
                 e == End(bs[k])
      <3>1. a \in Nat /\ e \in Nat /\ a <= p - 1 /\ p - 1 < e /\ p \in Nat BY <2>2, <2>3 DEF q
      <3> HIDE DEF a, e
      <3>2. a < p /\ p <= e BY ONLY <3>1
      <3> QED BY <3>2 DEF a, e
    <2>5. CASE IsFromDisk(bs[k])
      <3> HIDE DEF w
      <3> QED BY <2>1, <2>4, <2>5, <1>5
    <2>6. CASE ~IsFromDisk(bs[k])
      <3>1. p <= Min({End(bs[k]), end})
        <4> DEFINE e == End(bs[k])
        <4>1. e \in Nat /\ p <= e /\ p <= end BY <2>3, <2>4
        <4> HIDE DEF e
        <4>2. p <= Min({e, end}) BY <4>1, MinOfTwo
        <4> QED BY <4>2 DEF e
      <3>2. C(p)
        <4>1. p > bs[k].start
          <5> DEFINE a == bs[k].start
          <5>1. a \in Nat /\ a < p BY <2>3, <2>4
          <5> HIDE DEF a
          <5>2. p > a BY <5>1
          <5> QED BY <5>2 DEF a
        <4> QED BY <4>1, <3>1, <2>6, <1>1
      <3> HIDE DEF C, w
      <3> QED BY <3>2, <2>1, <1>3
    <2> QED BY <2>5, <2>6
  <1>7. g \in Seq(Bytes) /\ Len(g) = w
    <2>1. ASSUME NEW p \in 1..w PROVE g[p] \in Bytes
      <3>1. p \in 1..y /\ (p \in 1..end \/ p \in 1..x)
        <4>1. p \in 1..w /\ w <= y /\ w \in Nat /\ y \in Nat /\ x \in Nat /\ end \in Nat
              /\ w = IF end <= x THEN x ELSE end
          BY <1>0, <1>4
        <4> HIDE DEF w, x, y
        <4> QED BY ONLY <4>1
      <3>2. t[p] \in Bytes BY <3>1
      <3>3. p \in 1..x => f[p] \in Bytes OBVIOUS
      <3>4. g[p] = t[p] \/ g[p] = f[p]
        <4> HIDE DEF C, w
        <4> QED BY <1>3
      <3>5. p \in 1..end => g[p] = t[p] BY <1>6
      <3> QED BY <3>1, <3>2, <3>3, <3>4, <3>5
    <2> HIDE DEF C, w
    <2>2. g \in [1..w -> Bytes] BY <1>2, <2>1
    <2>3. g \in Seq(Bytes) BY <2>2, <1>4, FunctionIsSequence
    <2> QED BY <2>2, <2>3, <1>4
  <1>8. ASSUME NEW k \in 1..Len(bs) PROVE Tells(bs[k], g, t)
    <2> DEFINE b == bs[k]
    <2>1. b \in Blocks /\ Tells(b, f, t) BY <1>1
    <2>2. CASE ~IsFromDisk(b) BY <2>1, <2>2 DEF Tells
    <2>3. CASE IsFromDisk(b)
      <3> DEFINE a == b.start
                 c == b.size
      <3>1. b.fileStart = a BY <2>3 DEF InPlace
      <3>2. /\ a \in Nat /\ c \in Nat /\ End(b) = a + c BY <2>1, BlockType
      <3>3. a + c <= x /\ End(b) <= Len(t) BY <2>1, <2>3, <3>1 DEF Tells
      <3>4. a + c <= Len(g)
        <4> DEFINE v == a + c
        <4>1. v <= x /\ x <= w /\ Len(g) = w BY <3>3, <1>4, <1>7
        <4>2. v \in Nat /\ x \in Nat /\ w \in Nat BY <1>0, <1>4, <3>2
        <4> HIDE DEF v, x, w
        <4>3. v <= w BY <4>1, <4>2
        <4> QED BY <4>3, <4>1 DEF v
      <3>5. ASSUME NEW i \in 1..c PROVE t[a + i] = g[a + i]
        <4>1. a + i \in 1..w /\ a < a + i /\ a + i <= End(b)
          <5> DEFINE e == End(b)
          <5>1. /\ a \in Nat /\ c \in Nat /\ e = a + c /\ a + c <= x /\ x <= w
                /\ x \in Nat /\ w \in Nat
            BY <1>0, <1>4, <3>2, <3>3
          <5> HIDE DEF a, c, e, x, w
          <5>2. a + i \in 1..w /\ a < a + i /\ a + i <= e BY <5>1
          <5> QED BY <5>2 DEF e
        <4> DEFINE p == a + i
        <4> HIDE DEF p, w
        <4>2. g[p] = t[p] BY <4>1, <2>3, <1>5 DEF p
        <4> QED BY <4>2 DEF p
      <3> QED BY <2>3, <3>1, <3>3, <3>4, <3>5 DEF Tells
    <2> QED BY <2>2, <2>3
  <1> QED BY <1>4, <1>6, <1>7, <1>8 DEF Tell

LEMMA WholeOverlay ==
    ASSUME NEW t \in Seq(Bytes), NEW f \in Seq(Bytes), NEW bs, Laid(bs, 0, Len(t)),
           Tell(bs, f, t), Len(f) <= Len(t), InPlace(bs)
    PROVE  Overlay(f, bs, t, Len(t)) = t
  <1> DEFINE g == Overlay(f, bs, t, Len(t))
             y == Len(t)
  <1>1. y \in Nat /\ y <= Len(t) OBVIOUS
  <1> HIDE DEF g, y
  <1>2. /\ g \in Seq(Bytes) /\ y <= Len(g) /\ Len(g) <= Len(t)
        /\ \A p \in 1..y : g[p] = t[p]
    BY <1>1, OverlayShows DEF g, y
  <1>3. Len(g) \in Nat BY <1>2
  <1>4. Len(g) = Len(t) BY <1>1, <1>2, <1>3 DEF y
  <1>5. g = t BY <1>2, <1>4, SeqEqual DEF y
  <1> QED BY <1>5 DEF g

(* Writing in place ends inside the k-th block.                               *)
BrokenOff(f, t, bs, k, written, g, new) ==
    /\ t \in Seq(Bytes) /\ f \in Seq(Bytes) /\ Laid(bs, 0, Len(t)) /\ Tell(bs, f, t)
    /\ Len(f) <= Len(t) /\ InPlace(bs)
    /\ k \in 1..Len(bs) /\ written \in 0..bs[k].size - 1
    /\ g = Overlay(f, bs, t, bs[k].start + written)
    /\ new = <<DiskBlock(0, 0, bs[k].start)>> \o SubSeq(bs, k, Len(bs))
(* What is left from x on: of the whole text, unless the first byte failed.   *)
Remains(x, g, new, t) ==
    /\ g \in Seq(Bytes)
    /\ x = 0 => Len(new) >= 2 /\ new[1].size = 0
    /\ x # 0 => Laid(new, 0, Len(t)) /\ Tell(new, g, t)

LEMMA PartlyWritten ==
    ASSUME NEW f, NEW t, NEW bs, NEW k, NEW written, NEW g, NEW new,
           BrokenOff(f, t, bs, k, written, g, new)
    PROVE  Remains(bs[k].start, g, new, t)
  <1>a. /\ t \in Seq(Bytes) /\ f \in Seq(Bytes) /\ Laid(bs, 0, Len(t)) /\ Tell(bs, f, t)
        /\ Len(f) <= Len(t) /\ InPlace(bs)
        /\ k \in 1..Len(bs) /\ written \in 0..bs[k].size - 1
        /\ g = Overlay(f, bs, t, bs[k].start + written)
        /\ new = <<DiskBlock(0, 0, bs[k].start)>> \o SubSeq(bs, k, Len(bs))
    BY DEF BrokenOff
  <1> USE <1>a
  <1> DEFINE b == bs[k]
             x == b.start
             end == x + written
             y == Len(t)
             z == 0
             last == Len(bs)
             j == k - 1
             tail == SubSeq(bs, j + 1, last)
             one == <<DiskBlock(0, 0, x)>>
  <1>0. Laid(bs, z, y) /\ y \in Nat /\ z \in Nat OBVIOUS
  <1>1. /\ b \in Blocks /\ x \in Nat /\ b.size \in Nat /\ End(b) = x + b.size /\ End(b) <= y
    <2>1. b \in Blocks BY <1>0, LaidFacts
    <2>2. Tells(b, f, t) BY DEF Tell
    <2> QED BY <2>1, <2>2, BlockType DEF Tells
  <1>2. end \in Nat /\ end <= y /\ x <= end /\ x <= y
    <2> DEFINE c == b.size
    <2>1. x \in Nat /\ c \in Nat /\ x + c <= y /\ written \in 0..c - 1 /\ y \in Nat BY <1>0, <1>1
    <2> HIDE DEF x, c, y
    <2> QED BY ONLY <2>1
  <1>3. g = Overlay(f, bs, t, end) OBVIOUS
  <1> HIDE DEF end
  <1>4. /\ g \in Seq(Bytes) /\ end <= Len(g) /\ Len(g) <= Len(t)
        /\ \A p \in 1..end : g[p] = t[p]
        /\ Tell(bs, g, t)
    BY <1>2, <1>3, OverlayShows
  <1>5. /\ last \in Nat \ {0} /\ j \in 0..last /\ last \in 0..last /\ j <= last /\ j + 1 = k
        /\ bs \in Seq(Blocks)
        /\ (IF j = 0 THEN z ELSE End(bs[j])) = x
        /\ (IF last = 0 THEN z ELSE End(bs[last])) = y
    <2>1. /\ bs \in Seq(Blocks) /\ Len(bs) \in Nat
          /\ \A i \in 2..Len(bs) : End(bs[i - 1]) = bs[i].start
          /\ bs # <<>> => bs[1].start = z /\ End(bs[Len(bs)]) = y
      BY <1>0, LaidFacts
    <2>2. bs # <<>> OBVIOUS
    <2>3. CASE k = 1
      <3>1. j = 0 /\ x = z BY <2>1, <2>2, <2>3
      <3> HIDE DEF x, y, z
      <3> QED BY <2>1, <2>2, <2>3, <3>1
    <2>4. CASE k # 1
      <3>1. j # 0 /\ End(bs[j]) = x
        <4>1. k \in 2..Len(bs) BY <2>1, <2>4
        <4> QED BY <2>1, <4>1
      <3> HIDE DEF x, y, z
      <3> QED BY <2>1, <2>2, <2>4, <3>1
    <2> QED BY <2>3, <2>4
  <1>6. Laid(tail, x, y) /\ Len(tail) = last - j /\ Tell(tail, g, t)
    <2> HIDE DEF z, y, j, last
    <2>1. j \in 0..Len(bs) /\ last \in 0..Len(bs) BY <1>5 DEF last
    <2>2. /\ Laid(SubSeq(bs, j + 1, last), IF j = 0 THEN z ELSE End(bs[j]),
                                           IF last = 0 THEN z ELSE End(bs[last]))
          /\ Len(SubSeq(bs, j + 1, last)) = last - j
          /\ \A h, v : Tell(bs, h, v) => Tell(SubSeq(bs, j + 1, last), h, v)
      BY <1>0, <1>5, <2>1, LaidPart
    <2>3. Tell(tail, g, t) BY <2>2, <1>4
    <2> HIDE DEF x
    <2> QED BY <2>2, <2>3, <1>5
  <1>7. new = one \o tail BY <1>5
  <1>8. CASE x = 0
    <2> DEFINE a == DiskBlock(0, 0, 0)
    <2>1. a.size = 0 BY DEF DiskBlock
    <2>2. new = <<a>> \o tail BY <1>7, <1>8
    <2>3. tail \in Seq(Blocks) BY <1>6, LaidFacts
    <2>4. Len(tail) \in Nat \ {0} BY <1>5, <1>6
    <2> HIDE DEF a, tail
    <2>5. /\ <<a>> \in Seq(Blocks \cup {a}) /\ tail \in Seq(Blocks \cup {a})
      <3>1. <<a>> \in Seq(Blocks \cup {a}) OBVIOUS
      <3>2. \A i \in 1..Len(tail) : tail[i] \in Blocks \cup {a} BY <2>3
      <3>3. tail \in Seq(Blocks \cup {a}) BY <2>3, <3>2, SequenceOver
      <3> QED BY <3>1, <3>3
    <2>6. /\ Len(<<a>> \o tail) = Len(<<a>>) + Len(tail)
          /\ \A i \in 1..Len(<<a>>) + Len(tail) :
                (<<a>> \o tail)[i] = IF i <= Len(<<a>>) THEN <<a>>[i] ELSE tail[i - Len(<<a>>)]
      BY <2>5, ConcatProperties
    <2>7. Len(<<a>>) = 1 /\ <<a>>[1] = a OBVIOUS
    <2> DEFINE l == <<a>>
               r == l \o tail
    <2> HIDE DEF l, r
    <2>8. Len(r) = 1 + Len(tail) /\ r[1] = a
      <3>1. Len(l) = 1 /\ l[1] = a BY <2>7 DEF l
      <3>2. 1 \in 1..Len(l) + Len(tail) /\ 1 <= Len(l) BY <3>1, <2>4
      <3>3. r[1] = l[1] BY <3>2, <2>6 DEF l, r
      <3> QED BY <3>1, <3>3, <2>6 DEF l, r
    <2>9. new = r BY <2>2 DEF l, r
    <2>10. Len(new) >= 2 /\ new[1].size = 0 BY <2>1, <2>4, <2>8, <2>9
    <2> QED BY <1>4, <1>8, <2>10 DEF Remains
  <1>9. CASE x # 0
    <2>1. \A p \in 1..x : g[p] = t[p]
      <3> HIDE DEF x
      <3> QED BY <1>1, <1>2, <1>4
    <2>2. x <= Len(g) /\ x <= Len(t)
      <3>1. Len(g) \in Nat BY <1>4
      <3>2. x <= Len(t) BY <1>2
      <3> HIDE DEF x
      <3> QED BY <3>1, <3>2, <1>1, <1>2, <1>4
    <2> HIDE DEF x, tail
    <2>3. Laid(one, 0, x) /\ Tell(one, g, t) BY <1>1, <1>9, <2>1, <2>2, DiskBlockTells
    <2> HIDE DEF one
    <2>4. Laid(one, z, x) BY <2>3
    <2> HIDE DEF z, y
    <2>5. Laid(one \o tail, z, y) /\ Tell(one \o tail, g, t)
      BY <1>0, <1>1, <1>6, <2>3, <2>4, LaidTogether
    <2> QED BY <1>4, <1>7, <1>9, <2>5 DEF x, z, y, Remains
  <1> QED BY <1>8, <1>9

-----------------------------------------------------------------------------
(* The inductive invariant. The texts are those the modifications made one after
   the other; while the editor can be used, the blocks tell over the file of the
   text that undo and redo have reached, and the place that was saved is that of
   the text which is the file.                                                *)
Mods == {m \in [pos : Nat, before : Seq(Bytes), after : Seq(Bytes)] :
            m.before # <<>> \/ m.after # <<>>}

HexType ==
    /\ TypeOK
    /\ file \in Seq(Bytes) /\ undoList \in Seq(Mods) /\ Len(undoList) <= edits
Whole(bs) ==
    \/ bs = <<>>
    \/ Len(bs) >= 2 /\ bs[1].size = 0
    \/ \E n \in Nat : Laid(bs, 0, n)

Chained(texts, list) ==
    /\ texts \in [0..Len(list) -> Seq(Bytes)]
    /\ \A k \in 1..Len(list) : /\ History!Fits(texts[k - 1], list[k])
                               /\ texts[k] = History!Applied(texts[k - 1], list[k])
Shown(texts) ==
    Laid(blocks, 0, Len(texts[Applying])) /\ Tell(blocks, file, texts[Applying])
SavedAt == IF undoSaved = Null THEN Len(undoList) ELSE undoSaved - 1
SavedAs(texts) == ~misplaced /\ undoSaved # Invalid => texts[SavedAt] = file
Traced == Usable => \E texts : Chained(texts, undoList) /\ Shown(texts) /\ SavedAs(texts)

HexIInv == HexType /\ Whole(blocks) /\ Traced

(* Making a modification and taking it back are changes of the text.          *)
LEMMA ModificationChanges ==
    ASSUME NEW t \in Seq(Bytes), NEW m \in Mods, History!Fits(t, m)
    PROVE  /\ Changed(History!Applied(t, m), t, m.pos, Len(m.before), m.after)
           /\ History!Applied(t, m) \in Seq(Bytes)
           /\ History!Reverted(History!Applied(t, m), m) = t
           /\ Changed(t, History!Applied(t, m), m.pos, Len(m.after), m.before)
           /\ m.before = <<>> \/ m.after = <<>> \/ Len(m.before) = Len(m.after)
           /\ m.before # <<>> \/ m.after # <<>>
  <1> DEFINE pos == m.pos
             old == m.before
             new == m.after
             n == Len(old)
             k == Len(new)
             u == History!Applied(t, m)
             y == Len(t)
  <1>1. /\ pos \in Nat /\ old \in Seq(Bytes) /\ new \in Seq(Bytes) /\ n \in Nat /\ k \in Nat
        /\ old # <<>> \/ new # <<>>
        /\ pos + n <= y /\ y \in Nat
        /\ old = <<>> \/ new = <<>> \/ n = k
    BY DEF Mods, History!Fits
  <1>2. u = History!Spliced(t, pos, n, new) BY DEF History!Applied
  <1>3. Changed(u, t, pos, n, new)
    <2> HIDE DEF u, pos, n, new
    <2> QED BY <1>1, <1>2, SplicedIsChanged
  <1>4. u \in Seq(Bytes) /\ Len(u) = y - n + k BY <1>3 DEF Changed
  <1>5. History!Reverted(u, m) = t
    <2>1. HistoryProofs!Fits(t, m)
      BY DEF HistoryProofs!Fits, History!Fits
    <2>2. m \in [pos : Nat, before : Seq(Bytes), after : Seq(Bytes)] BY DEF Mods
    <2>3. HistoryProofs!Reverted(HistoryProofs!Applied(t, m), m) = t
      BY <2>1, <2>2, HistoryProofs!RevertedAfterApplied DEF Bytes
    <2>4. HistoryProofs!Applied(t, m) = u
      BY DEF HistoryProofs!Applied, History!Applied, HistoryProofs!Spliced, History!Spliced
    <2> HIDE DEF u
    <2>5. HistoryProofs!Reverted(u, m) = History!Reverted(u, m)
      BY DEF HistoryProofs!Reverted, History!Reverted, HistoryProofs!Spliced, History!Spliced
    <2> QED BY <2>3, <2>4, <2>5
  <1>6. Changed(t, u, pos, k, old)
    <2>1. pos + k <= Len(u)
      <3> DEFINE v == Len(u)
      <3>1. v = y - n + k BY <1>4
      <3> HIDE DEF pos, n, k, y, v
      <3>2. pos + k <= v BY <3>1, <1>1
      <3> QED BY <3>2 DEF v
    <2>2. History!Spliced(u, pos, k, old) = t
      <3> HIDE DEF u
      <3> QED BY <1>5 DEF History!Reverted
    <2> HIDE DEF u, pos, k, old
    <2>3. Changed(History!Spliced(u, pos, k, old), u, pos, k, old)
      BY <2>1, <1>1, <1>4, SplicedIsChanged
    <2> QED BY <2>2, <2>3
  <1> QED BY <1>1, <1>3, <1>4, <1>5, <1>6

Replaces(u, t, pos, old, new) ==
    /\ Changed(u, t, pos, Len(old), new) /\ old \in Seq(Bytes) /\ new \in Seq(Bytes)
    /\ old = <<>> \/ new = <<>> \/ Len(old) = Len(new)
    /\ old # <<>> \/ new # <<>>
Over(bs, f, t) ==
    bs # <<>> /\ Laid(bs, 0, Len(t)) /\ f \in Seq(Bytes) /\ Tell(bs, f, t)

LEMMA BlocksReplaced ==
    ASSUME NEW u, NEW t, NEW pos, NEW old, NEW new, Replaces(u, t, pos, old, new),
           NEW bs, NEW f, Over(bs, f, t),
           NEW next, next = SetBlock(bs, new, pos, Len(old))
    PROVE  /\ Whole(next)
           /\ ~(pos = Len(t) /\ new # <<>>) => Laid(next, 0, Len(u)) /\ Tell(next, f, u)
  <1> DEFINE n == Len(old)
             y == Len(t)
  <1>0. /\ Changed(u, t, pos, Len(old), new) /\ old \in Seq(Bytes) /\ new \in Seq(Bytes)
        /\ old = <<>> \/ new = <<>> \/ Len(old) = Len(new)
        /\ old # <<>> \/ new # <<>>
        /\ bs # <<>> /\ Laid(bs, 0, Len(t)) /\ f \in Seq(Bytes) /\ Tell(bs, f, t)
    BY DEF Replaces, Over
  <1>1. /\ pos \in Nat /\ n \in Nat /\ y \in Nat /\ pos + n <= y /\ t \in Seq(Bytes)
        /\ u \in Seq(Bytes) /\ Len(u) \in Nat /\ (old = <<>> <=> n = 0)
    <2>1. t \in Seq(Bytes) /\ u \in Seq(Bytes) BY <1>0 DEF Changed
    <2>2. y \in Nat /\ n \in Nat /\ Len(u) \in Nat /\ (old = <<>> <=> n = 0) BY <1>0, <2>1
    <2> QED BY <1>0, <2>1, <2>2 DEF Changed
  <1> HIDE DEF n, y
  <1>2. CASE pos = y /\ new # <<>>
    <2>1. n = 0 BY <1>1, <1>2
    <2>2. next = SetBlock(bs, new, Len(t), 0) BY <1>2, <2>1 DEF n, y
    <2>3. Laid(next, 0, Len(t)) BY <1>1, <1>2, <2>2, <1>0, SetBlockAtEnd
    <2>4. Whole(next) BY <1>1, <2>3 DEF Whole, y
    <2> QED BY <1>2, <2>4 DEF y
  <1>3. CASE ~(pos = y /\ new # <<>>)
    <2>1. n = 0 => pos < Len(t) BY <1>0, <1>1, <1>3 DEF y
    <2>2. n = Len(new) \/ n = 0 \/ new = <<>> BY <1>0, <1>1 DEF n
    <2>3. n # 0 \/ new # <<>> BY <1>0, <1>1
    <2>4. Changed(u, t, pos, n, new) BY <1>0 DEF n
    <2>5. Laid(SetBlock(bs, new, pos, n), 0, Len(u)) /\ Tell(SetBlock(bs, new, pos, n), f, u)
      BY <2>1, <2>2, <2>3, <2>4, <1>0, SetBlockShows
    <2>6. Laid(next, 0, Len(u)) /\ Tell(next, f, u) BY <2>5 DEF n
    <2> QED BY <1>1, <2>6 DEF Whole
  <1> QED BY <1>2, <1>3

LEMMA TracedNext ==
    ASSUME NEW texts, Chained(texts, undoList'),
           NEW t, t = texts[Applying'], Laid(blocks', 0, Len(t)), Tell(blocks', file', t),
           ~misplaced' /\ undoSaved' # Invalid => texts[SavedAt'] = file'
    PROVE  Traced'
  BY DEF Traced, Shown, SavedAs

LEMMA WholeNext ==
    ASSUME Whole(blocks')
    PROVE  Whole(blocks)'
  BY DEF Whole

LEMMA InUse ==
    ASSUME HexIInv, Usable
    PROVE  /\ Len(undoList) \in Nat /\ Applying \in 0..Len(undoList)
           /\ file \in Seq(Bytes)
           /\ blocks # <<>> /\ Text \in Seq(Bytes) /\ Laid(blocks, 0, Len(Text))
           /\ Tell(blocks, file, Text) /\ Size = Len(Text) /\ Len(Text) \in Nat \ {0}
           /\ \E texts : /\ Chained(texts, undoList) /\ texts[Applying] = Text
                         /\ ~misplaced /\ undoSaved # Invalid => texts[SavedAt] = file
  <1>1. /\ undoList \in Seq(Mods) /\ undoCurrent \in 0..Len(undoList) /\ file \in Seq(Bytes)
    BY DEF HexIInv, HexType, TypeOK
  <1>2. Len(undoList) \in Nat /\ Applying \in 0..Len(undoList)
    <2>1. Len(undoList) \in Nat BY <1>1
    <2> QED BY <1>1, <2>1 DEF Applying, Null
  <1>3. blocks # <<>> BY DEF Usable, ConsistencyCheck
  <1>4. PICK texts : Chained(texts, undoList) /\ Shown(texts) /\ SavedAs(texts)
    BY DEF HexIInv, Traced
  <1> DEFINE t == texts[Applying]
  <1>5. t \in Seq(Bytes) BY <1>2, <1>4 DEF Chained
  <1>6. Laid(blocks, 0, Len(t)) /\ Tell(blocks, file, t) BY <1>4 DEF Shown
  <1>7. Text = t
    <2> HIDE DEF t
    <2>1. TextOf(file, blocks) = t BY <1>1, <1>5, <1>6, TextTold
    <2> QED BY <2>1, TextIs
  <1> HIDE DEF t
  <1>8. Len(t) \in Nat BY <1>5
  <1>9. Size = Len(t) /\ Len(t) # 0
    <2>1. GetSize(blocks) = Len(t) BY <1>6, <1>8, SizeOfLaid
    <2>2. blocks # <<>> <=> Len(t) > 0
      <3> DEFINE n == Len(t)
      <3>1. n \in Nat /\ Laid(blocks, 0, n) BY <1>6, <1>8
      <3> HIDE DEF n
      <3>2. blocks # <<>> <=> n > 0 BY <3>1, BlockFound
      <3> QED BY <3>2 DEF n
    <2> QED BY <2>1, <2>2, <1>3, <1>8 DEF Size
  <1> QED BY <1>1, <1>2, <1>3, <1>4, <1>5, <1>6, <1>7, <1>8, <1>9 DEF SavedAs, t

(* One more edit in the place of those that were undone.                      *)
Extended(texts, at, u, list) ==
    \E now : Chained(now, list) /\ now[at + 1] = u /\ \A k \in 0..at : now[k] = texts[k]

LEMMA ChainExtended ==
    ASSUME NEW list \in Seq(Mods), NEW at \in 0..Len(list), NEW texts, Chained(texts, list),
           NEW m \in Mods, History!Fits(texts[at], m),
           NEW next, next = Append(SubSeq(list, 1, at), m),
           NEW u \in Seq(Bytes), u = History!Applied(texts[at], m)
    PROVE  /\ next \in Seq(Mods) /\ Len(next) = at + 1 /\ next[at + 1] = m
           /\ Extended(texts, at, u, next)
  <1> DEFINE kept == SubSeq(list, 1, at)
  <1>0. Len(list) \in Nat /\ at \in Nat OBVIOUS
  <1>1. /\ kept \in Seq(Mods) /\ Len(kept) = at /\ \A k \in 1..at : kept[k] = list[k]
    <2>1. \A k \in 1..at : list[k] \in Mods BY <1>0
    <2>2. /\ kept \in Seq(Mods) /\ Len(kept) = IF 1 <= at THEN at - 1 + 1 ELSE 0
          /\ \A k \in 1..at - 1 + 1 : kept[k] = list[1 + k - 1]
      <3>1. 1 \in Int /\ at \in Int BY <1>0
      <3> HIDE DEF kept
      <3> QED BY <2>1, <3>1, SubSeqProperties DEF kept
    <2> HIDE DEF kept
    <2>3. at - 1 + 1 = at /\ (~(1 <= at) => at = 0) /\ \A k \in 1..at : 1 + k - 1 = k
      BY <1>0
    <2> QED BY <2>2, <2>3
  <1> HIDE DEF kept
  <1>2. /\ next \in Seq(Mods) /\ Len(next) = at + 1 /\ next[at + 1] = m
        /\ \A k \in 1..at : next[k] = list[k]
    <2>1. /\ Append(kept, m) \in Seq(Mods) /\ Append(kept, m)[Len(kept) + 1] = m
          /\ Len(Append(kept, m)) = Len(kept) + 1
          /\ \A k \in 1..Len(kept) : Append(kept, m)[k] = kept[k]
      BY <1>1, AppendProperties
    <2>2. next = Append(kept, m) BY DEF kept
    <2> QED BY <1>1, <2>1, <2>2
  <1> DEFINE now == [k \in 0..at + 1 |-> IF k <= at THEN texts[k] ELSE u]
  <1>3. \A k \in 0..at : now[k] = texts[k]
    <2>1. \A k \in 0..at : k \in 0..at + 1 /\ k <= at BY <1>0
    <2> QED BY <2>1
  <1>4. now[at + 1] = u
    <2>1. at + 1 \in 0..at + 1 /\ ~(at + 1 <= at) BY <1>0
    <2> QED BY <2>1
  <1>5. now \in [0..at + 1 -> Seq(Bytes)]
    <2>1. ASSUME NEW k \in 0..at + 1 PROVE (IF k <= at THEN texts[k] ELSE u) \in Seq(Bytes)
      <3>1. k <= at => k \in 0..Len(list) BY <1>0
      <3>2. k <= at => texts[k] \in Seq(Bytes) BY <3>1 DEF Chained
      <3> QED BY <3>2
    <2> QED BY <2>1
  <1> HIDE DEF now
  <1>6. ASSUME NEW k \in 1..at + 1
        PROVE  History!Fits(now[k - 1], next[k]) /\ now[k] = History!Applied(now[k - 1], next[k])
    <2>1. CASE k <= at
      <3>1. k \in 1..at /\ k \in 0..at /\ k - 1 \in 0..at /\ k \in 1..Len(list) BY <2>1, <1>0
      <3>2. now[k - 1] = texts[k - 1] /\ now[k] = texts[k] /\ next[k] = list[k]
        BY <3>1, <1>2, <1>3
      <3>3. History!Fits(texts[k - 1], list[k]) /\ texts[k] = History!Applied(texts[k - 1], list[k])
        BY <3>1 DEF Chained
      <3> QED BY <3>2, <3>3
    <2>2. CASE ~(k <= at)
      <3>1. k = at + 1 /\ k - 1 = at /\ at \in 0..at BY <2>2, <1>0
      <3>2. now[k - 1] = texts[at] /\ now[k] = u /\ next[k] = m BY <3>1, <1>2, <1>3, <1>4
      <3> QED BY <3>2
    <2> QED BY <2>1, <2>2
  <1>7. Chained(now, next) BY <1>2, <1>5, <1>6 DEF Chained
  <1> QED BY <1>2, <1>3, <1>4, <1>7 DEF Extended

LEMMA DataType == Data \subseteq Seq(Bytes)
  <1> SUFFICES ASSUME NEW d \in Data PROVE d \in Seq(Bytes) OBVIOUS
  <1>1. CASE d \in {<<>>} BY <1>1
  <1>2. CASE d \in {[k \in 1..n |-> v] : n \in Lengths, v \in Values}
    <2>1. PICK n \in Lengths, v \in Values : d = [k \in 1..n |-> v] BY <1>2
    <2>2. n \in Nat BY HexAssumption DEF Lengths
    <2>3. d \in [1..n -> Bytes] BY <2>1 DEF Bytes
    <2> QED BY <2>2, <2>3, FunctionIsSequence
  <1> QED BY <1>1, <1>2 DEF Data

(* What an edit does, for every stretch it replaces.                          *)
LEMMA EditStep ==
    ASSUME HexIInv, NEW pos \in Nat, NEW old \in Seq(Bytes), NEW new \in Data,
           old # <<>> \/ new # <<>>,
           NEW m, m = [pos |-> pos, before |-> old, after |-> new],
           History!Fits(Text, m),
           InsertAndApplyModification(pos, old, new)
    PROVE  HexIInv' /\ (Usable' => History!Edit)
  <1>0. /\ HexType /\ Usable
        /\ undoList' = Append(IF undoCurrent = Null THEN undoList
                              ELSE SubSeq(undoList, 1, undoCurrent - 1), m)
        /\ edits < MaxEdits /\ edits' = edits + 1 /\ undoCurrent' = Null
        /\ undoSaved' = IF MarkAfterRemoval = Null THEN Len(undoList') ELSE MarkAfterRemoval
        /\ misplaced' = (misplaced \/ (undoSaved = Null /\ undoCurrent # Null))
        /\ blocks' = SetBlock(blocks, new, pos, Len(old))
        /\ dropped' = (pos = Size /\ new # <<>>)
        /\ file' = file /\ handle' = handle /\ failures' = failures
    BY DEF HexIInv, InsertAndApplyModification, Replace, fileVars
  <1>1. /\ handle \in Handles
        /\ undoCurrent \in 0..Len(undoList) /\ undoSaved \in 0..Len(undoList) \cup {Invalid}
        /\ dropped \in BOOLEAN /\ misplaced \in BOOLEAN
        /\ edits \in 0..MaxEdits /\ failures \in 0..MaxFailures
        /\ undoList \in Seq(Mods) /\ Len(undoList) <= edits /\ Len(undoList) \in Nat
        /\ MaxEdits \in Nat
    <2>1. undoList \in Seq(Mods) BY <1>0 DEF HexType
    <2>2. Len(undoList) \in Nat BY <2>1
    <2> QED BY <1>0, <2>1, <2>2, HexAssumption DEF HexType, TypeOK
  <1>2. PICK t : t = Text OBVIOUS
  <1>3. /\ Applying \in 0..Len(undoList) /\ file \in Seq(Bytes)
        /\ blocks # <<>> /\ t \in Seq(Bytes) /\ Laid(blocks, 0, Len(t))
        /\ Tell(blocks, file, t) /\ Size = Len(t)
        /\ \E texts : /\ Chained(texts, undoList) /\ texts[Applying] = t
                      /\ ~misplaced /\ undoSaved # Invalid => texts[SavedAt] = file
    BY <1>0, <1>2, InUse
  <1>4. PICK at \in 0..Len(undoList) : at = Applying BY <1>3
  <1>5. PICK texts : /\ Chained(texts, undoList) /\ texts[at] = t
                     /\ ~misplaced /\ undoSaved # Invalid => texts[SavedAt] = file
    BY <1>3, <1>4
  <1>6. new \in Seq(Bytes) BY DataType
  <1>7. m \in Mods /\ m.pos = pos /\ m.before = old /\ m.after = new BY <1>6 DEF Mods
  <1>8. PICK u : u = History!Applied(t, m) OBVIOUS
  <1>9. /\ u \in Seq(Bytes) /\ Changed(u, t, pos, Len(old), new)
        /\ old = <<>> \/ new = <<>> \/ Len(old) = Len(new)
    BY <1>2, <1>3, <1>7, <1>8, ModificationChanges
  <1>10. PICK next : next = blocks' OBVIOUS
  <1>11. /\ Whole(next)
         /\ ~(pos = Len(t) /\ new # <<>>) => Laid(next, 0, Len(u)) /\ Tell(next, file, u)
    <2>1. next = SetBlock(blocks, new, pos, Len(old)) BY <1>0, <1>10
    <2>2. /\ Changed(u, t, pos, Len(old), new) /\ old \in Seq(Bytes) /\ new \in Seq(Bytes)
          /\ old = <<>> \/ new = <<>> \/ Len(old) = Len(new)
          /\ old # <<>> \/ new # <<>>
          /\ blocks # <<>> /\ Laid(blocks, 0, Len(t)) /\ file \in Seq(Bytes)
          /\ Tell(blocks, file, t)
      BY <1>3, <1>6, <1>9
    <2>3. Replaces(u, t, pos, old, new) /\ Over(blocks, file, t) BY <2>2 DEF Replaces, Over
    <2> QED BY ONLY <2>1, <2>3, BlocksReplaced
  <1>12. undoList' = Append(SubSeq(undoList, 1, at), m)
    <2>1. CASE undoCurrent = Null
      <3>1. at = Len(undoList) BY <2>1, <1>4 DEF Applying
      <3>2. SubSeq(undoList, 1, at) = undoList
        <4> DEFINE q == SubSeq(undoList, 0 + 1, at)
                   y == Len(undoList)
        <4>1. 0 <= at /\ at <= Len(undoList) /\ 0 \in Nat /\ at \in Nat BY <1>1
        <4> DEFINE z == 0
        <4>2. z \in Nat /\ z <= at BY <4>1
        <4> HIDE DEF z
        <4>3. /\ SubSeq(undoList, z + 1, at) \in Seq(Mods)
              /\ Len(SubSeq(undoList, z + 1, at)) = at - z
              /\ \A i \in 1..at - z : SubSeq(undoList, z + 1, at)[i] = undoList[z + i]
          BY <4>1, <4>2, <1>1, PartOf
        <4>4. z + 1 = 1 /\ at - z = at /\ \A i \in 1..at : z + i = i BY <4>1 DEF z
        <4> DEFINE r == SubSeq(undoList, 1, at)
        <4>5. r \in Seq(Mods) /\ Len(r) = at /\ \A i \in 1..at : r[i] = undoList[i]
          BY <4>3, <4>4
        <4> HIDE DEF r
        <4>6. r = undoList BY <4>5, <3>1, <1>1, SeqEqual
        <4> QED BY <4>6 DEF r
      <3> QED BY <2>1, <3>2, <1>0
    <2>2. CASE undoCurrent # Null
      <3>1. at = undoCurrent - 1 BY <2>2, <1>4 DEF Applying
      <3> QED BY <2>2, <3>1, <1>0
    <2> QED BY <2>1, <2>2
  <1>13. PICK list : list = undoList' OBVIOUS
  <1>14. /\ list \in Seq(Mods) /\ Len(list) = at + 1 /\ list[at + 1] = m
         /\ Extended(texts, at, u, list)
    <2>1. History!Fits(texts[at], m) /\ u = History!Applied(texts[at], m)
      BY <1>2, <1>5, <1>8
    <2>2. list = Append(SubSeq(undoList, 1, at), m) BY <1>12, <1>13
    <2>3. /\ undoList \in Seq(Mods) /\ at \in 0..Len(undoList) /\ Chained(texts, undoList)
          /\ m \in Mods /\ u \in Seq(Bytes)
      BY <1>1, <1>5, <1>7, <1>9
    <2>4. list \in Seq(Mods) /\ Len(list) = at + 1 /\ list[at + 1] = m
      BY ONLY <2>1, <2>2, <2>3, ChainExtended
    <2>5. Extended(texts, at, u, list)
      BY ONLY <2>1, <2>2, <2>3, ChainExtended
    <2> QED BY <2>4, <2>5
  <1>15. Applying' = at + 1 /\ Len(undoList') = at + 1 BY <1>0, <1>13, <1>14 DEF Applying
  <1>16. /\ undoSaved' \in 0..at + 1 \cup {Invalid}
         /\ ~misplaced' /\ undoSaved' # Invalid
              => ~misplaced /\ undoSaved # Invalid /\ SavedAt' \in 0..at /\ SavedAt' = SavedAt
    <2> DEFINE y == Len(undoList)
    <2>1. y \in Nat /\ at \in 0..y /\ undoCurrent \in 0..y /\ undoSaved \in 0..y \cup {Invalid}
      BY <1>1
    <2>2. Invalid \in Nat /\ Invalid > y /\ at + 1 < Invalid
      <3>1. /\ y \in Nat /\ y <= edits /\ edits \in 0..MaxEdits /\ edits < MaxEdits
            /\ MaxEdits \in Nat /\ at \in 0..y /\ Invalid = MaxEdits + 1
        BY <1>0, <1>1 DEF Invalid
      <3> HIDE DEF y
      <3> QED BY ONLY <3>1
    <2>3. SavedAt' = IF undoSaved' = 0 THEN at + 1 ELSE undoSaved' - 1
      BY <1>15 DEF SavedAt, Null
    <2>4. SavedAt = IF undoSaved = 0 THEN y ELSE undoSaved - 1 BY DEF SavedAt, Null
    <2>5. at = IF undoCurrent = 0 THEN y ELSE undoCurrent - 1 BY <1>4 DEF Applying, Null
    <2>6. undoSaved' = IF MarkAfterRemoval = 0 THEN at + 1 ELSE MarkAfterRemoval
      BY <1>0, <1>15 DEF Null
    <2>7. MarkAfterRemoval = IF undoCurrent # 0 /\ undoSaved >= undoCurrent THEN Invalid
                             ELSE undoSaved
      BY DEF MarkAfterRemoval, Null
    <2>8. misplaced' = (misplaced \/ (undoSaved = 0 /\ undoCurrent # 0)) BY <1>0 DEF Null
    <2> HIDE DEF y
    <2>9. CASE undoCurrent = 0
      <3>1. at = y /\ undoSaved' = IF undoSaved = 0 THEN at + 1 ELSE undoSaved
        BY <2>5, <2>6, <2>7, <2>9
      <3>2. CASE undoSaved = 0
        <4>1. undoSaved' = at + 1 BY <3>1, <3>2
        <4>2. SavedAt' = at /\ SavedAt = at BY <2>1, <2>3, <2>4, <3>1, <3>2, <4>1
        <4>3. misplaced' = misplaced /\ 0 # Invalid BY <2>2, <2>8, <2>9, <1>1
        <4> QED BY <2>1, <3>2, <4>1, <4>2, <4>3
      <3>3. CASE undoSaved # 0
        <4>1. undoSaved' = undoSaved BY <3>1, <3>3
        <4>2. SavedAt' = undoSaved - 1 /\ SavedAt = undoSaved - 1 BY <2>3, <2>4, <3>3, <4>1
        <4>3. misplaced' = misplaced BY <2>8, <2>9, <1>1
        <4>4. undoSaved # Invalid => undoSaved - 1 \in 0..at BY <2>1, <3>1, <3>3
        <4>5. undoSaved \in 0..at + 1 \cup {Invalid} BY <2>1, <3>1
        <4> QED BY <4>1, <4>2, <4>3, <4>4, <4>5
      <3> QED BY <3>2, <3>3
    <2>10. CASE undoCurrent # 0
      <3>1. at = undoCurrent - 1 BY <2>5, <2>10
      <3>2. CASE undoSaved >= undoCurrent
        <4>1. undoSaved' = Invalid BY <2>2, <2>6, <2>7, <2>10, <3>2
        <4> QED BY <4>1
      <3>3. CASE ~(undoSaved >= undoCurrent)
        <4>1. undoSaved' = IF undoSaved = 0 THEN at + 1 ELSE undoSaved
          BY <2>6, <2>7, <3>3
        <4>2. undoSaved = 0 => misplaced' BY <2>8, <2>10
        <4>3. undoSaved \in 0..y /\ undoSaved < undoCurrent
          BY <2>1, <2>2, <3>3
        <4>4. CASE undoSaved = 0
          <5>1. undoSaved' = at + 1 /\ misplaced' BY <4>1, <4>2, <4>4
          <5> QED BY <5>1, <2>1
        <4>5. CASE undoSaved # 0
          <5>1. undoSaved' = undoSaved BY <4>1, <4>5
          <5>2. SavedAt' = undoSaved - 1 /\ SavedAt = undoSaved - 1 BY <2>3, <2>4, <4>5, <5>1
          <5>3. misplaced' = misplaced BY <2>8, <4>5, <1>1
          <5>4. undoSaved - 1 \in 0..at /\ undoSaved \in 0..at + 1 /\ undoSaved # Invalid
            BY <2>1, <2>2, <3>1, <4>3, <4>5
          <5> QED BY <5>1, <5>2, <5>3, <5>4
        <4> QED BY <4>4, <4>5
      <3> QED BY <3>2, <3>3
    <2> QED BY <2>9, <2>10
  <1>17. HexType'
    <2>1. TypeOK'
      <3>1. handle' \in Handles /\ failures' \in 0..MaxFailures BY <1>0, <1>1
      <3>2. undoCurrent' \in 0..Len(undoList')
        <4>1. undoCurrent' = 0 /\ at + 1 \in Nat BY <1>0, <1>1 DEF Null
        <4> QED BY <4>1, <1>15
      <3>3. undoSaved' \in 0..Len(undoList') \cup {Invalid} BY <1>15, <1>16
      <3>4. dropped' \in BOOLEAN /\ misplaced' \in BOOLEAN BY <1>0, <1>1
      <3>5. edits' \in 0..MaxEdits BY <1>0, <1>1
      <3> QED BY <3>1, <3>2, <3>3, <3>4, <3>5 DEF TypeOK
    <2>2. undoList' \in Seq(Mods) BY <1>13, <1>14
    <2>3. Len(undoList') <= edits'
      <3>1. at <= Len(undoList) BY <1>1
      <3> QED BY <3>1, <1>0, <1>1, <1>15
    <2>4. file' \in Seq(Bytes) BY <1>0, <1>3
    <2> QED BY <2>1, <2>2, <2>3, <2>4 DEF HexType
  <1>18. Whole(blocks)' BY <1>10, <1>11, WholeNext
  <1>19. Usable' => Laid(next, 0, Len(u)) /\ Tell(next, file, u)
    <2>1. Usable' => ~dropped' BY DEF Usable
    <2> QED BY <2>1, <1>0, <1>3, <1>11
  <1>20. Traced'
    <2>1. CASE ~Usable' BY <2>1 DEF Traced
    <2>2. CASE Usable'
      <3>1. PICK now : /\ Chained(now, list) /\ now[at + 1] = u
                       /\ \A k \in 0..at : now[k] = texts[k]
        BY <1>14 DEF Extended
      <3>2. u = now[Applying'] /\ Chained(now, undoList') BY <3>1, <1>13, <1>15
      <3>3. Laid(blocks', 0, Len(u)) /\ Tell(blocks', file', u) BY <2>2, <1>0, <1>10, <1>19
      <3>4. ~misplaced' /\ undoSaved' # Invalid => now[SavedAt'] = file'
        BY <3>1, <1>0, <1>5, <1>16
      <3> QED BY <3>2, <3>3, <3>4, TracedNext
    <2> QED BY <2>1, <2>2
  <1>21. Usable' => History!Edit
    <2> SUFFICES ASSUME Usable' PROVE History!Edit OBVIOUS
    <2>1. TextOf(file, next) = u BY <1>3, <1>9, <1>19, TextTold
    <2>2. Text' = u BY <2>1, <1>0, <1>10, TextIs
    <2>3. Applying' = Applying + 1 /\ Len(undoList') = Applying' BY <1>4, <1>15
    <2>4. undoList'[Applying'] = m BY <1>13, <1>14, <1>15
    <2>5. m \in History!Modifications BY <1>7 DEF History!Modifications, Bytes
    <2>6. undoList' = Append(SubSeq(undoList, 1, Applying), m) BY <1>4, <1>12
    <2>7. Text' = History!Applied(Text, m) BY <2>2, <1>2, <1>8
    <2> QED BY <2>3, <2>4, <2>5, <2>6, <2>7 DEF History!Edit
  <1> QED BY <1>17, <1>18, <1>20, <1>21 DEF HexIInv

(* Undo and redo: from one text of the chain to the one beside it.            *)
LEMMA StepAlong ==
    ASSUME HexIInv, Usable,
           NEW texts, Chained(texts, undoList),
           ~misplaced /\ undoSaved # Invalid => texts[SavedAt] = file,
           NEW to, to \in 0..Len(undoList),
           NEW t, t = Text, NEW u, u = texts[to],
           NEW pos, NEW old, NEW new, Replaces(u, t, pos, old, new),
           Replace(pos, old, new),
           UNCHANGED <<fileVars, undoList, undoSaved, misplaced, edits, failures>>,
           undoCurrent' \in 0..Len(undoList), Applying' = to
    PROVE  HexIInv' /\ (Usable' => Text' = u)
  <1>0. /\ HexType
        /\ blocks' = SetBlock(blocks, new, pos, Len(old))
        /\ dropped' = (pos = Size /\ new # <<>>)
        /\ file' = file /\ handle' = handle /\ failures' = failures /\ edits' = edits
        /\ undoList' = undoList /\ undoSaved' = undoSaved /\ misplaced' = misplaced
    BY DEF HexIInv, Replace, fileVars
  <1>1. /\ handle \in Handles /\ undoSaved \in 0..Len(undoList) \cup {Invalid}
        /\ misplaced \in BOOLEAN
        /\ edits \in 0..MaxEdits /\ failures \in 0..MaxFailures
        /\ undoList \in Seq(Mods) /\ Len(undoList) <= edits
    BY <1>0 DEF HexType, TypeOK
  <1>2. /\ file \in Seq(Bytes) /\ t \in Seq(Bytes) /\ Over(blocks, file, t) /\ Size = Len(t)
    BY InUse DEF Over
  <1>3. u \in Seq(Bytes) BY DEF Chained
  <1>4. PICK next : next = blocks' OBVIOUS
  <1>5. /\ Whole(next)
        /\ ~(pos = Len(t) /\ new # <<>>) => Laid(next, 0, Len(u)) /\ Tell(next, file, u)
    <2>1. next = SetBlock(blocks, new, pos, Len(old)) BY <1>0, <1>4
    <2>2. Replaces(u, t, pos, old, new) OBVIOUS
    <2> QED BY ONLY <2>1, <2>2, <1>2, BlocksReplaced
  <1>6. HexType'
    <2>1. TypeOK' BY <1>0, <1>1 DEF TypeOK
    <2> QED BY <2>1, <1>0, <1>1, <1>2 DEF HexType
  <1>7. Whole(blocks)' BY <1>4, <1>5, WholeNext
  <1>8. Usable' => Laid(next, 0, Len(u)) /\ Tell(next, file, u)
    <2>1. Usable' => ~dropped' BY DEF Usable
    <2> QED BY <2>1, <1>0, <1>2, <1>5
  <1>9. Traced'
    <2>1. CASE ~Usable' BY <2>1 DEF Traced
    <2>2. CASE Usable'
      <3>1. u = texts[Applying'] /\ Chained(texts, undoList') BY <1>0
      <3>2. Laid(blocks', 0, Len(u)) /\ Tell(blocks', file', u) BY <2>2, <1>0, <1>4, <1>8
      <3>3. SavedAt' = SavedAt BY <1>0 DEF SavedAt
      <3>4. ~misplaced' /\ undoSaved' # Invalid => texts[SavedAt'] = file' BY <3>3, <1>0
      <3> QED BY <3>1, <3>2, <3>4, TracedNext
    <2> QED BY <2>1, <2>2
  <1>10. Usable' => Text' = u
    <2> SUFFICES ASSUME Usable' PROVE Text' = u OBVIOUS
    <2>1. TextOf(file, next) = u BY <1>2, <1>3, <1>8, TextTold
    <2> QED BY <2>1, <1>0, <1>4, TextIs
  <1> QED BY <1>6, <1>7, <1>9, <1>10 DEF HexIInv

LEMMA UndoStep ==
    ASSUME HexIInv, Undo
    PROVE  HexIInv' /\ (Usable' => History!Undo)
  <1> DEFINE last == Len(undoList)
  <1>0. Usable BY DEF Undo
  <1>1. /\ undoList \in Seq(Mods) /\ undoCurrent \in 0..last /\ last \in Nat
        /\ Applying \in 0..last
    BY <1>0, InUse DEF HexIInv, HexType, TypeOK
  <1>2. PICK at : at = Applying OBVIOUS
  <1>3. /\ at > 0 /\ undoCurrent' = at
        /\ Replace(undoList[at].pos, undoList[at].after, undoList[at].before)
        /\ UNCHANGED <<fileVars, undoList, undoSaved, misplaced, edits, failures>>
    BY <1>2 DEF Undo, Applying
  <1>4. PICK texts : /\ Chained(texts, undoList) /\ texts[at] = Text
                     /\ ~misplaced /\ undoSaved # Invalid => texts[SavedAt] = file
    BY <1>0, <1>2, InUse
  <1>5. PICK t : t = Text OBVIOUS
  <1>6. PICK to : to = at - 1 OBVIOUS
  <1>7. PICK m : m = undoList[at] OBVIOUS
  <1>8. at \in 1..last /\ to \in 0..last /\ m \in Mods
    <2>1. at \in 1..last BY <1>1, <1>2, <1>3
    <2>2. to \in 0..last
      <3> HIDE DEF last
      <3> QED BY <2>1, <1>1, <1>6
    <2> QED BY <2>1, <2>2, <1>1, <1>7
  <1>9. PICK u : u = texts[to] OBVIOUS
  <1>10. u \in Seq(Bytes) /\ History!Fits(u, m) /\ t = History!Applied(u, m)
    BY <1>4, <1>5, <1>6, <1>7, <1>8, <1>9 DEF Chained
  <1>11. /\ Changed(t, u, m.pos, Len(m.before), m.after)
         /\ History!Reverted(t, m) = u
         /\ Changed(u, t, m.pos, Len(m.after), m.before)
         /\ m.before = <<>> \/ m.after = <<>> \/ Len(m.before) = Len(m.after)
         /\ m.before # <<>> \/ m.after # <<>>
    BY <1>8, <1>10, ModificationChanges
  <1>12. Replaces(u, t, m.pos, m.after, m.before)
    <2>1. m.before \in Seq(Bytes) /\ m.after \in Seq(Bytes) BY <1>8 DEF Mods
    <2> QED BY <2>1, <1>11 DEF Replaces
  <1>13. undoCurrent' \in 0..last /\ Applying' = to
    <2>1. undoCurrent' \in 0..last /\ undoCurrent' # Null
      <3> HIDE DEF last
      <3> QED BY <1>1, <1>3, <1>8 DEF Null
    <2> QED BY <2>1, <1>3, <1>6 DEF Applying
  <1>14. HexIInv' /\ (Usable' => Text' = u)
    <2>1. Replace(m.pos, m.after, m.before) BY <1>3, <1>7
    <2> QED BY <2>1, <1>0, <1>3, <1>4, <1>5, <1>8, <1>9, <1>12, <1>13, StepAlong
  <1>15. Usable' => History!Undo
    <2> SUFFICES ASSUME Usable' PROVE History!Undo OBVIOUS
    <2>1. Text' = History!Reverted(Text, undoList[Applying])
      BY <1>2, <1>5, <1>7, <1>11, <1>14
    <2>2. Applying > 0 /\ Applying' = Applying - 1 BY <1>2, <1>3, <1>6, <1>13
    <2>3. undoList' = undoList BY <1>3
    <2> QED BY <2>1, <2>2, <2>3 DEF History!Undo
  <1> QED BY <1>14, <1>15

LEMMA RedoStep ==
    ASSUME HexIInv, Redo
    PROVE  HexIInv' /\ (Usable' => History!Redo)
  <1> DEFINE last == Len(undoList)
  <1>0. Usable BY DEF Redo
  <1>1. /\ undoList \in Seq(Mods) /\ undoCurrent \in 0..last /\ last \in Nat
        /\ Applying \in 0..last
    BY <1>0, InUse DEF HexIInv, HexType, TypeOK
  <1>2. PICK to : to = undoCurrent OBVIOUS
  <1>3. /\ to # Null /\ undoCurrent' = IF to = last THEN Null ELSE to + 1
        /\ Replace(undoList[to].pos, undoList[to].before, undoList[to].after)
        /\ UNCHANGED <<fileVars, undoList, undoSaved, misplaced, edits, failures>>
    BY <1>2 DEF Redo
  <1>4. /\ to \in 1..last /\ Applying = to - 1 /\ undoCurrent' \in 0..last
        /\ undoCurrent' = IF to = last THEN 0 ELSE to + 1
    <2>1. Applying = to - 1 BY <1>2, <1>3 DEF Applying
    <2> HIDE DEF last
    <2>2. to \in 1..last BY <1>1, <1>2, <1>3 DEF Null
    <2>3. undoCurrent' = IF to = last THEN 0 ELSE to + 1 BY <1>3 DEF Null
    <2>4. undoCurrent' \in 0..last BY ONLY <2>2, <2>3, <1>1
    <2> QED BY <2>1, <2>2, <2>3, <2>4
  <1>5. PICK texts : /\ Chained(texts, undoList) /\ texts[to - 1] = Text
                     /\ ~misplaced /\ undoSaved # Invalid => texts[SavedAt] = file
    BY <1>0, <1>4, InUse
  <1>6. PICK t : t = Text OBVIOUS
  <1>7. PICK m : m = undoList[to] OBVIOUS
  <1>8. m \in Mods /\ to \in 0..last /\ to - 1 \in 0..last
    <2>1. m \in Mods BY <1>1, <1>4, <1>7
    <2> HIDE DEF last
    <2> QED BY <2>1, <1>1, <1>4
  <1>9. PICK u : u = texts[to] OBVIOUS
  <1>10. t \in Seq(Bytes) /\ History!Fits(t, m) /\ u = History!Applied(t, m)
    BY <1>4, <1>5, <1>6, <1>7, <1>8, <1>9 DEF Chained
  <1>11. /\ Changed(u, t, m.pos, Len(m.before), m.after)
         /\ m.before = <<>> \/ m.after = <<>> \/ Len(m.before) = Len(m.after)
         /\ m.before # <<>> \/ m.after # <<>>
    BY <1>8, <1>10, ModificationChanges
  <1>12. Replaces(u, t, m.pos, m.before, m.after)
    <2>1. m.before \in Seq(Bytes) /\ m.after \in Seq(Bytes) BY <1>8 DEF Mods
    <2> QED BY <2>1, <1>11 DEF Replaces
  <1>13. Applying' = to
    <2>1. undoList' = undoList BY <1>3
    <2>2. Applying' = IF undoCurrent' = 0 THEN last ELSE undoCurrent' - 1
      BY <2>1 DEF Applying, Null
    <2> HIDE DEF last
    <2> QED BY ONLY <2>2, <1>4, <1>1
  <1>14. HexIInv' /\ (Usable' => Text' = u)
    <2>1. Replace(m.pos, m.before, m.after) BY <1>3, <1>7
    <2> QED BY <2>1, <1>0, <1>3, <1>4, <1>5, <1>6, <1>8, <1>9, <1>12, <1>13, StepAlong
  <1>15. Usable' => History!Redo
    <2> SUFFICES ASSUME Usable' PROVE History!Redo OBVIOUS
    <2>1. Applying < Len(undoList) /\ Applying' = Applying + 1
      <3> HIDE DEF last
      <3>1. Applying < last /\ Applying' = Applying + 1 BY <1>1, <1>4, <1>13
      <3> QED BY <3>1 DEF last
    <2>2. Text' = History!Applied(Text, undoList[Applying'])
      BY <1>6, <1>7, <1>10, <1>13, <1>14
    <2>3. undoList' = undoList BY <1>3
    <2> QED BY <2>1, <2>2, <2>3 DEF History!Redo
  <1> QED BY <1>14, <1>15

(* A save that ends well; and one that fails before it has changed what is shown.  *)
LEMMA SavedStep ==
    ASSUME HexIInv, Usable,
           file' = Text, ResetBlocks, UndoNotifySaved, SaveLeaves,
           handle' \in Handles, failures' \in 0..MaxFailures
    PROVE  HexIInv' /\ UNCHANGED History!vars
  <1> DEFINE t == Text
  <1>0. /\ HexType
        /\ blocks' = <<DiskBlock(0, 0, Len(t))>> /\ undoSaved' = undoCurrent /\ misplaced' = FALSE
        /\ undoList' = undoList /\ undoCurrent' = undoCurrent /\ dropped' = dropped /\ edits' = edits
    BY DEF HexIInv, ResetBlocks, UndoNotifySaved, SaveLeaves
  <1>1. /\ undoCurrent \in 0..Len(undoList) /\ dropped \in BOOLEAN /\ edits \in 0..MaxEdits
        /\ undoList \in Seq(Mods) /\ Len(undoList) <= edits
    BY <1>0 DEF HexType, TypeOK
  <1>2. t \in Seq(Bytes) /\ Len(t) \in Nat \ {0} BY InUse
  <1>3. PICK texts : Chained(texts, undoList) /\ texts[Applying] = t BY InUse
  <1> HIDE DEF t
  <1>4. Laid(blocks', 0, Len(t)) /\ Tell(blocks', t, t)
    <2> DEFINE n == Len(t)
    <2>1. n \in Nat \ {0} /\ n <= Len(t) BY <1>2
    <2> HIDE DEF n
    <2>2. Laid(<<DiskBlock(0, 0, n)>>, 0, n) /\ Tell(<<DiskBlock(0, 0, n)>>, t, t)
      BY <1>2, <2>1, DiskBlockTells
    <2> QED BY <2>2, <1>0 DEF n
  <1>5. file' = t BY DEF t
  <1>6. Applying' = Applying BY <1>0 DEF Applying
  <1>7. HexType'
    <2>1. TypeOK' BY <1>0, <1>1 DEF TypeOK
    <2> QED BY <2>1, <1>0, <1>1, <1>2, <1>5 DEF HexType
  <1>8. Whole(blocks)'
    <2>1. Len(t) \in Nat BY <1>2
    <2>2. Whole(blocks') BY <2>1, <1>4 DEF Whole
    <2> QED BY <2>2, WholeNext
  <1>9. Traced'
    <2>1. SavedAt' = Applying BY <1>0 DEF SavedAt, Applying
    <2>2. t = texts[Applying'] /\ Chained(texts, undoList') BY <1>0, <1>3, <1>6
    <2>3. Tell(blocks', file', t) BY <1>4, <1>5
    <2>4. ~misplaced' /\ undoSaved' # Invalid => texts[SavedAt'] = file'
      BY <2>1, <1>3, <1>5
    <2> QED BY <2>2, <2>3, <2>4, <1>4, TracedNext
  <1>10. Text' = Text
    <2>1. TextOf(t, blocks') = t BY <1>2, <1>4, TextTold
    <2> QED BY <2>1, <1>5, TextIs DEF t
  <1> QED BY <1>0, <1>6, <1>7, <1>8, <1>9, <1>10 DEF HexIInv, History!vars

LEMMA NotSavedStep ==
    ASSUME HexIInv, handle' \in {"closed", "former"}, file' \in Seq(Bytes),
           UNCHANGED <<blocks, misplaced>>, NotSaved, SaveLeaves, failures' \in 0..MaxFailures
    PROVE  HexIInv' /\ ~Usable'
  <1>0. /\ HexType /\ Whole(blocks)
        /\ blocks' = blocks /\ misplaced' = misplaced /\ undoSaved' = undoSaved
        /\ undoList' = undoList /\ undoCurrent' = undoCurrent /\ dropped' = dropped /\ edits' = edits
    BY DEF HexIInv, NotSaved, SaveLeaves
  <1>1. ~Usable'
    <2>1. handle' \notin {"writable", "readonly"} OBVIOUS
    <2> QED BY <2>1 DEF Usable
  <1>2. handle' \in Handles BY DEF Handles
  <1>3. TypeOK' BY <1>0, <1>2 DEF HexType, TypeOK
  <1>4. HexType' BY <1>0, <1>3 DEF HexType
  <1>5. Whole(blocks') BY <1>0
  <1>6. Whole(blocks)' BY <1>5, WholeNext
  <1>7. Traced' BY <1>1 DEF Traced
  <1> QED BY <1>1, <1>4, <1>6, <1>7 DEF HexIInv

LEMMA FailureCount ==
    ASSUME HexIInv, Fails \/ UNCHANGED failures
    PROVE  failures' \in 0..MaxFailures
  <1>1. failures \in 0..MaxFailures /\ MaxFailures \in Nat
    BY HexAssumption DEF HexIInv, HexType, TypeOK
  <1>2. CASE Fails BY <1>1, <1>2 DEF Fails
  <1>3. CASE UNCHANGED failures BY <1>1, <1>3
  <1> QED BY <1>2, <1>3

LEMMA BlocksInPlace ==
    ASSUME HexIInv, Usable, NoShiftedDiskBlocks
    PROVE  /\ InPlace(blocks) /\ Len(file) <= Len(Text)
           /\ InMemory \subseteq 1..Len(blocks)
           /\ \A end : WrittenUpTo(end) = Overlay(file, blocks, Text, end)
  <1>1. Laid(blocks, 0, Len(Text)) /\ Size = Len(Text) BY InUse
  <1>2. DOMAIN blocks = 1..Len(blocks)
    <2>1. blocks \in Seq(Blocks) BY <1>1, LaidFacts
    <2> QED BY ONLY <2>1
  <1>3. InPlace(blocks) /\ InMemory \subseteq 1..Len(blocks)
    BY <1>2 DEF NoShiftedDiskBlocks, InMemory, InPlace
  <1>4. Len(file) <= Len(Text)
    <2> DEFINE x == Len(file)
               y == Len(Text)
    <2>1. x \in Nat /\ y \in Nat /\ y >= x BY <1>1, InUse DEF NoShiftedDiskBlocks
    <2> HIDE DEF x, y
    <2>2. x <= y BY <2>1
    <2> QED BY <2>2 DEF x, y
  <1>5. \A end : WrittenUpTo(end) = Overlay(file, blocks, Text, end)
    BY DEF WrittenUpTo, Overlay, InMemory
  <1> QED BY <1>3, <1>4, <1>5

LEMMA EasiestStep ==
    ASSUME HexIInv, WriteFileEasiest
    PROVE  HexIInv' /\ UNCHANGED History!vars
  <1>0. /\ Usable /\ NoShiftedDiskBlocks /\ file' = WrittenUpTo(Size)
        /\ ResetBlocks /\ UndoNotifySaved /\ SaveLeaves
        /\ handle' = handle /\ failures' = failures
    BY DEF WriteFileEasiest
  <1>1. handle' \in Handles /\ failures' \in 0..MaxFailures
    BY <1>0 DEF HexIInv, HexType, TypeOK
  <1>2. PICK t : t = Text OBVIOUS
  <1>3. /\ t \in Seq(Bytes) /\ file \in Seq(Bytes) /\ Laid(blocks, 0, Len(t))
        /\ Tell(blocks, file, t) /\ Size = Len(t) /\ Len(file) <= Len(t) /\ InPlace(blocks)
        /\ \A end : WrittenUpTo(end) = Overlay(file, blocks, t, end)
    BY <1>0, <1>2, InUse, BlocksInPlace
  <1>4. Overlay(file, blocks, t, Len(t)) = t BY <1>3, WholeOverlay
  <1>5. file' = Text BY <1>0, <1>2, <1>3, <1>4
  <1> QED BY <1>0, <1>1, <1>5, SavedStep

LEMMA TemporaryStep ==
    ASSUME HexIInv, WriteFileTemporary
    PROVE  HexIInv' /\ (Usable' => UNCHANGED History!vars)
  <1>0. Usable /\ SaveLeaves BY DEF WriteFileTemporary
  <1>1. Text \in Seq(Bytes) /\ file \in Seq(Bytes) BY <1>0, InUse
  <1>2. CASE /\ file' = Text /\ handle' = "writable"
             /\ ResetBlocks /\ UndoNotifySaved /\ UNCHANGED failures
    <2>1. handle' \in Handles BY <1>2 DEF Handles
    <2>2. failures' \in 0..MaxFailures BY <1>2, FailureCount
    <2> QED BY <2>1, <2>2, <1>0, <1>2, SavedStep
  <1>3. CASE /\ Fails /\ handle' = "closed" /\ file' \in {file, Text}
             /\ UNCHANGED <<blocks, misplaced>> /\ NotSaved
    <2>1. failures' \in 0..MaxFailures BY <1>3, FailureCount
    <2>2. HexIInv' /\ ~Usable' BY <2>1, <1>0, <1>1, <1>3, NotSavedStep
    <2> QED BY <2>2
  <1> QED BY <1>2, <1>3 DEF WriteFileTemporary

LEMMA DifferentStep ==
    ASSUME HexIInv, WriteToDifferentFile
    PROVE  HexIInv' /\ (Usable' => UNCHANGED History!vars)
  <1>0. Usable /\ SaveLeaves /\ file' = Text BY DEF WriteToDifferentFile
  <1>1. Text \in Seq(Bytes) BY <1>0, InUse
  <1>2. CASE handle' = "readonly" /\ ResetBlocks /\ UndoNotifySaved /\ UNCHANGED failures
    <2>1. handle' \in Handles BY <1>2 DEF Handles
    <2>2. failures' \in 0..MaxFailures BY <1>2, FailureCount
    <2> QED BY <2>1, <2>2, <1>0, <1>2, SavedStep
  <1>3. CASE Fails /\ handle' = "former" /\ UNCHANGED <<blocks, misplaced>> /\ NotSaved
    <2>1. failures' \in 0..MaxFailures BY <1>3, FailureCount
    <2>2. HexIInv' /\ ~Usable' BY <2>1, <1>0, <1>1, <1>3, NotSavedStep
    <2> QED BY <2>2
  <1> QED BY <1>2, <1>3 DEF WriteToDifferentFile

(* Writing in place that fails in the middle: what was written is what is shown
   there, and the blocks that are left still tell of the whole text.           *)
LEMMA EasiestFailsStep ==
    ASSUME HexIInv, WriteFileEasiestFails
    PROVE  HexIInv' /\ (Usable' => UNCHANGED History!vars)
  <1>0. /\ Usable /\ NoShiftedDiskBlocks /\ SaveLeaves /\ NotSaved /\ handle' = handle
        /\ misplaced' = (misplaced \/ file' # file)
    BY DEF WriteFileEasiestFails
  <1>1. PICK k \in InMemory :
          /\ \E written \in 0..blocks[k].size - 1 :
                /\ Fails \/ UNCHANGED failures
                /\ file' = WrittenUpTo(blocks[k].start + written)
          /\ blocks' = <<DiskBlock(0, 0, blocks[k].start)>> \o SubSeq(blocks, k, Len(blocks))
    BY DEF WriteFileEasiestFails
  <1>2. PICK written \in 0..blocks[k].size - 1 :
                /\ Fails \/ UNCHANGED failures
                /\ file' = WrittenUpTo(blocks[k].start + written)
    BY <1>1
  <1>3. PICK t : t = Text OBVIOUS
  <1>4. /\ t \in Seq(Bytes) /\ file \in Seq(Bytes) /\ Laid(blocks, 0, Len(t))
        /\ Tell(blocks, file, t) /\ Len(file) <= Len(t) /\ InPlace(blocks)
        /\ k \in 1..Len(blocks) /\ Len(t) \in Nat
        /\ \A end : WrittenUpTo(end) = Overlay(file, blocks, t, end)
    BY <1>0, <1>3, InUse, BlocksInPlace
  <1>5. PICK g : g = file' OBVIOUS
  <1>6. PICK new : new = blocks' OBVIOUS
  <1>7. PICK x : x = blocks[k].start OBVIOUS
  <1>8. /\ g \in Seq(Bytes)
        /\ x = 0 => Len(new) >= 2 /\ new[1].size = 0
        /\ x # 0 => Laid(new, 0, Len(t)) /\ Tell(new, g, t)
    <2>1. g = Overlay(file, blocks, t, blocks[k].start + written) BY <1>2, <1>4, <1>5
    <2>2. new = <<DiskBlock(0, 0, blocks[k].start)>> \o SubSeq(blocks, k, Len(blocks))
      BY <1>1, <1>6
    <2>3. BrokenOff(file, t, blocks, k, written, g, new)
      BY <2>1, <2>2, <1>2, <1>4 DEF BrokenOff
    <2>4. Remains(x, g, new, t) BY ONLY <2>3, <1>7, PartlyWritten
    <2> QED BY <2>4 DEF Remains
  <1>9. failures' \in 0..MaxFailures BY <1>2, FailureCount
  <1>10. /\ HexType /\ undoSaved' = undoSaved
         /\ undoList' = undoList /\ undoCurrent' = undoCurrent /\ dropped' = dropped /\ edits' = edits
    BY <1>0 DEF HexIInv, NotSaved, SaveLeaves
  <1>11. HexType'
    <2>1. misplaced \in BOOLEAN /\ misplaced' \in BOOLEAN
      <3>1. misplaced \in BOOLEAN BY <1>10 DEF HexType, TypeOK
      <3> QED BY <3>1, <1>0, Zenon
    <2>2. TypeOK' BY <2>1, <1>0, <1>9, <1>10 DEF HexType, TypeOK
    <2> QED BY <2>2, <1>5, <1>8, <1>10 DEF HexType
  <1>12. Whole(blocks)'
    <2>1. Whole(new) BY <1>4, <1>8 DEF Whole
    <2> QED BY <2>1, <1>6, WholeNext
  <1>13. Usable' => x # 0
    <2> SUFFICES ASSUME x = 0 PROVE ~Usable' OBVIOUS
    <2>1. Len(new) >= 2 /\ new[1].size = 0 BY <1>8
    <2>2. ~ConsistencyCheck(new)
      <3> SUFFICES ASSUME ConsistencyCheck(new) PROVE FALSE OBVIOUS
      <3>1. Adjoin(new[1], new[2])
        <4>1. \A i \in 2..Len(new) : Adjoin(new[i - 1], new[i]) BY DEF ConsistencyCheck
        <4>3. Len(new) \in Nat
          <5> QED BY <1>6
        <4>4. 2 \in 2..Len(new) BY <2>1, <4>3
        <4> QED BY <4>1, <4>4
      <3> QED BY <3>1, <2>1 DEF Adjoin
    <2>3. ~ConsistencyCheck(blocks') BY <2>2, <1>6
    <2> QED BY <2>3 DEF Usable, ConsistencyCheck
  <1>14. Applying' = Applying BY <1>10 DEF Applying
  <1>15. Traced'
    <2>1. CASE ~Usable' BY <2>1 DEF Traced
    <2>2. CASE Usable'
      <3>1. PICK texts : /\ Chained(texts, undoList) /\ texts[Applying] = t
                         /\ ~misplaced /\ undoSaved # Invalid => texts[SavedAt] = file
        BY <1>0, <1>3, InUse
      <3>2. t = texts[Applying'] /\ Chained(texts, undoList') BY <3>1, <1>10, <1>14
      <3>3. Laid(blocks', 0, Len(t)) /\ Tell(blocks', file', t)
        BY <2>2, <1>5, <1>6, <1>8, <1>13
      <3>4. SavedAt' = SavedAt BY <1>10 DEF SavedAt
      <3>5. ~misplaced' /\ undoSaved' # Invalid => texts[SavedAt'] = file'
        BY <3>1, <3>4, <1>0, <1>10
      <3> QED BY <3>2, <3>3, <3>5, TracedNext
    <2> QED BY <2>1, <2>2
  <1>16. Usable' => UNCHANGED History!vars
    <2> SUFFICES ASSUME Usable' PROVE UNCHANGED History!vars OBVIOUS
    <2>1. TextOf(g, new) = t BY <1>4, <1>8, <1>13, TextTold
    <2>2. Text' = Text BY <2>1, <1>3, <1>5, <1>6, TextIs
    <2> QED BY <2>2, <1>10, <1>14 DEF History!vars
  <1> QED BY <1>11, <1>12, <1>15, <1>16 DEF HexIInv

-----------------------------------------------------------------------------
(* The three edits of the user.                                               *)
LEMMA StretchEdited ==
    ASSUME HexIInv, Usable, NEW pos \in Nat, NEW n \in Nat, NEW data \in Data,
           pos + n <= Size, n = Len(data) \/ n = 0 \/ data = <<>>, n # 0 \/ data # <<>>,
           NEW old, old = Read(pos, n), InsertAndApplyModification(pos, old, data)
    PROVE  HexIInv' /\ (Usable' => History!Edit)
  <1>1. PICK t : t = Text OBVIOUS
  <1>2. t \in Seq(Bytes) /\ Size = Len(t) /\ Len(t) \in Nat BY <1>1, InUse
  <1>3. PICK e : e = pos + n OBVIOUS
  <1>4. e \in Nat /\ pos <= e /\ e <= Len(t) /\ e - pos = n
    <2> DEFINE y == Len(t)
    <2>1. y \in Nat /\ pos + n <= y BY <1>2
    <2> HIDE DEF y
    <2>2. e \in Nat /\ pos <= e /\ e <= y /\ e - pos = n BY ONLY <1>3, <2>1, pos \in Nat, n \in Nat
    <2> QED BY <2>2 DEF y
  <1>5. old = SubSeq(t, pos + 1, e) BY <1>1, <1>3 DEF Read
  <1>6. old \in Seq(Bytes) /\ Len(old) = n
    <2>1. SubSeq(t, pos + 1, e) \in Seq(Bytes) /\ Len(SubSeq(t, pos + 1, e)) = e - pos
      BY <1>2, <1>4, PartOf
    <2> QED BY <2>1, <1>4, <1>5
  <1>7. old = <<>> <=> n = 0 BY <1>6
  <1> DEFINE m == [pos |-> pos, before |-> old, after |-> data]
  <1>8. m.pos = pos /\ m.before = old /\ m.after = data OBVIOUS
  <1> HIDE DEF m
  <1>9. History!Fits(t, m)
    <2>1. m.pos + Len(m.before) = e BY <1>3, <1>6, <1>8
    <2>2. m.pos + Len(m.before) <= Len(t) BY <2>1, <1>4
    <2>3. m.before = SubSeq(t, m.pos + 1, m.pos + Len(m.before)) BY <2>1, <1>5, <1>8
    <2>4. m.before = <<>> \/ m.after = <<>> \/ Len(m.before) = Len(m.after)
      BY <1>6, <1>7, <1>8
    <2> QED BY <2>2, <2>3, <2>4 DEF History!Fits
  <1>10. History!Fits(Text, m) BY <1>1, <1>9
  <1>11. old # <<>> \/ data # <<>> BY <1>7
  <1>12. m = [pos |-> pos, before |-> old, after |-> data] BY DEF m
  <1> QED BY <1>6, <1>10, <1>11, <1>12, EditStep

LEMMA SizeInUse ==
    ASSUME HexIInv, Usable
    PROVE  Size \in Nat
  BY InUse

LEMMA WriteStep ==
    ASSUME HexIInv, Write
    PROVE  HexIInv' /\ (Usable' => History!Edit)
  <1>1. PICK pos \in 0..Size - 1, data \in Data \ {<<>>} :
            /\ pos + Len(data) <= Size
            /\ InsertAndApplyModification(pos, Read(pos, Len(data)), data)
    BY DEF Write
  <1>2. Usable BY <1>1 DEF InsertAndApplyModification
  <1>3. PICK old : old = Read(pos, Len(data)) OBVIOUS
  <1>4. InsertAndApplyModification(pos, old, data)
    BY <1>1, <1>3 DEF InsertAndApplyModification, Replace
  <1>5. pos \in Nat BY <1>2, SizeInUse
  <1>6. Len(data) \in Nat /\ data # <<>> /\ data \in Data BY DataType
  <1> QED BY <1>1, <1>2, <1>3, <1>4, <1>5, <1>6, StretchEdited

LEMMA AddStep ==
    ASSUME HexIInv, Add
    PROVE  HexIInv' /\ (Usable' => History!Edit)
  <1>1. PICK pos \in 0..Size, data \in Data \ {<<>>} :
            InsertAndApplyModification(pos, <<>>, data)
    BY DEF Add
  <1>2. Usable BY <1>1 DEF InsertAndApplyModification
  <1>3. pos \in Nat /\ pos + 0 <= Size BY <1>2, SizeInUse
  <1>4. PICK old : old = Read(pos, 0) OBVIOUS
  <1>5. old = <<>>
    <2>1. PICK t : t = Text OBVIOUS
    <2>2. t \in Seq(Bytes) /\ pos <= Len(t) BY <1>2, <1>3, <2>1, InUse
    <2>3. SubSeq(t, pos + 1, pos) \in Seq(Bytes) /\ Len(SubSeq(t, pos + 1, pos)) = pos - pos
      BY <1>3, <2>2, PartOf
    <2>4. old = SubSeq(t, pos + 1, pos) BY <1>3, <1>4, <2>1 DEF Read
    <2>5. old \in Seq(Bytes) /\ Len(old) = 0 BY <2>3, <2>4, <1>3
    <2> QED BY <2>5
  <1>6. InsertAndApplyModification(pos, old, data)
    BY <1>1, <1>5 DEF InsertAndApplyModification, Replace
  <1>7. data # <<>> /\ data \in Data OBVIOUS
  <1> QED BY <1>2, <1>3, <1>4, <1>6, <1>7, StretchEdited

LEMMA RemoveStep ==
    ASSUME HexIInv, RemoveBytes
    PROVE  HexIInv' /\ (Usable' => History!Edit)
  <1>1. PICK pos \in 0..Size - 1, n \in Lengths :
            /\ pos + n <= Size
            /\ InsertAndApplyModification(pos, Read(pos, n), <<>>)
    BY DEF RemoveBytes
  <1>2. Usable BY <1>1 DEF InsertAndApplyModification
  <1>3. PICK old : old = Read(pos, n) OBVIOUS
  <1>4. PICK none : none = <<>> OBVIOUS
  <1>5. InsertAndApplyModification(pos, old, none)
    BY <1>1, <1>3, <1>4 DEF InsertAndApplyModification, Replace
  <1>6. pos \in Nat BY <1>2, SizeInUse
  <1>7. n \in Nat /\ n # 0 BY HexAssumption DEF Lengths
  <1>8. none \in Data BY <1>4 DEF Data
  <1> QED BY <1>1, <1>2, <1>3, <1>4, <1>5, <1>6, <1>7, <1>8, StretchEdited

LEMMA InitStep ==
    ASSUME Init
    PROVE  HexIInv /\ History!Init
  <1> DEFINE n == OriginalSize
             t == [p \in 1..n |-> p]
             texts == [k \in 0..0 |-> t]
  <1>0. /\ n \in Nat \ {0} /\ MaxEdits \in Nat /\ MaxFailures \in Nat BY HexAssumption
  <1>1. /\ file = t /\ handle = "writable" /\ blocks = <<DiskBlock(0, 0, n)>>
        /\ undoList = <<>> /\ undoCurrent = 0 /\ undoSaved = 0
        /\ dropped = FALSE /\ misplaced = FALSE /\ edits = 0 /\ failures = 0
    BY DEF Init, Null
  <1>2. t \in Seq(Bytes) /\ Len(t) = n
    <2>1. t \in [1..n -> Bytes] BY DEF Bytes
    <2> HIDE DEF t
    <2> QED BY <2>1, <1>0, FunctionIsSequence
  <1>3. undoList \in Seq(Mods) /\ Len(undoList) = 0 BY <1>1
  <1>4. TypeOK
    <2>1. /\ handle \in Handles /\ {dropped, misplaced} \subseteq BOOLEAN
          /\ edits \in 0..MaxEdits /\ failures \in 0..MaxFailures
      <3>1. handle \in Handles BY <1>1 DEF Handles
      <3>2. {dropped, misplaced} \subseteq BOOLEAN BY <1>1
      <3>3. edits \in 0..MaxEdits /\ failures \in 0..MaxFailures BY <1>0, <1>1
      <3> QED BY <3>1, <3>2, <3>3
    <2>2. undoCurrent \in 0..Len(undoList) /\ undoSaved \in 0..Len(undoList) \cup {Invalid}
      BY <1>1, <1>3
    <2> QED BY <2>1, <2>2 DEF TypeOK
  <1>5. HexType BY <1>1, <1>2, <1>3, <1>4 DEF HexType
  <1>6. Laid(blocks, 0, Len(t)) /\ Tell(blocks, file, t)
    <2> HIDE DEF n, t
    <2>1. n <= Len(t) BY <1>0, <1>2
    <2>2. Laid(<<DiskBlock(0, 0, n)>>, 0, n) /\ Tell(<<DiskBlock(0, 0, n)>>, t, t)
      BY <1>0, <1>2, <2>1, DiskBlockTells
    <2> QED BY <2>2, <1>1, <1>2
  <1> HIDE DEF t, n
  <1>7. Whole(blocks) BY <1>0, <1>2, <1>6 DEF Whole
  <1>8. Applying = 0 /\ SavedAt = 0 BY <1>1, <1>3 DEF Applying, SavedAt, Null
  <1>9. texts[0] = t OBVIOUS
  <1>10. Chained(texts, undoList)
    <2>1. texts \in [0..0 -> Seq(Bytes)] BY <1>2
    <2> HIDE DEF texts
    <2> QED BY <2>1, <1>3 DEF Chained
  <1> HIDE DEF texts
  <1>11. Traced
    <2>1. Shown(texts) BY <1>6, <1>8, <1>9 DEF Shown
    <2>2. SavedAs(texts) BY <1>1, <1>8, <1>9 DEF SavedAs
    <2> QED BY <2>1, <2>2, <1>10 DEF Traced
  <1>12. History!Init
    <2>1. TextOf(file, blocks) = t BY <1>1, <1>2, <1>6, TextTold
    <2>2. Text \in Seq(Bytes) BY <2>1, <1>2, TextIs
    <2> QED BY <2>2, <1>1, <1>8 DEF History!Init, Bytes
  <1> QED BY <1>5, <1>7, <1>11, <1>12 DEF HexIInv

-----------------------------------------------------------------------------
(* Every step keeps the invariant, and is one of the history or changes nothing
   of it, as long as the program can be used.                                 *)
LEMMA HexStep ==
    ASSUME HexIInv, Next
    PROVE  HexIInv' /\ (Usable' => History!Next \/ UNCHANGED History!vars)
  <1>1. CASE Write BY <1>1, WriteStep DEF History!Next
  <1>2. CASE Add BY <1>2, AddStep DEF History!Next
  <1>3. CASE RemoveBytes BY <1>3, RemoveStep DEF History!Next
  <1>4. CASE Undo BY <1>4, UndoStep DEF History!Next
  <1>5. CASE Redo BY <1>5, RedoStep DEF History!Next
  <1>6. CASE WriteFileEasiest BY <1>6, EasiestStep
  <1>7. CASE WriteFileEasiestFails BY <1>7, EasiestFailsStep
  <1>8. CASE WriteFileTemporary BY <1>8, TemporaryStep
  <1>9. CASE WriteToDifferentFile BY <1>9, DifferentStep
  <1> QED BY <1>1, <1>2, <1>3, <1>4, <1>5, <1>6, <1>7, <1>8, <1>9 DEF Next

LEMMA HexStutter ==
    ASSUME HexIInv, UNCHANGED vars
    PROVE  HexIInv'
  <1>1. /\ file' = file /\ handle' = handle /\ blocks' = blocks
        /\ undoList' = undoList /\ undoCurrent' = undoCurrent /\ undoSaved' = undoSaved
        /\ dropped' = dropped /\ misplaced' = misplaced /\ edits' = edits /\ failures' = failures
    BY DEF vars, fileVars, undoVars
  <1>2. TypeOK' BY <1>1 DEF HexIInv, HexType, TypeOK
  <1>3. HexType' BY <1>1, <1>2 DEF HexIInv, HexType
  <1>4. Whole(blocks)'
    <2>1. Whole(blocks') BY <1>1 DEF HexIInv
    <2> QED BY <2>1, WholeNext
  <1>5. Traced'
    <2>1. CASE ~Usable' BY <2>1 DEF Traced
    <2>2. CASE Usable'
      <3>1. Usable BY <2>2, <1>1 DEF Usable
      <3>2. PICK texts : Chained(texts, undoList) /\ Shown(texts) /\ SavedAs(texts)
        BY <3>1 DEF HexIInv, Traced
      <3>3. PICK t : t = texts[Applying] OBVIOUS
      <3>4. Laid(blocks, 0, Len(t)) /\ Tell(blocks, file, t) BY <3>2, <3>3 DEF Shown
      <3>5. Applying' = Applying /\ SavedAt' = SavedAt BY <1>1 DEF Applying, SavedAt
      <3>6. t = texts[Applying'] /\ Chained(texts, undoList') BY <3>2, <3>3, <3>5, <1>1
      <3>7. Laid(blocks', 0, Len(t)) /\ Tell(blocks', file', t) BY <3>4, <1>1
      <3>8. ~misplaced' /\ undoSaved' # Invalid => texts[SavedAt'] = file'
        BY <3>2, <3>5, <1>1 DEF SavedAs
      <3> QED BY <3>6, <3>7, <3>8, TracedNext
    <2> QED BY <2>1, <2>2
  <1> QED BY <1>3, <1>4, <1>5 DEF HexIInv

(* The list of blocks is always whole: it covers the text without a gap from its
   first byte on, no block is empty and those in memory have the bytes they claim,
   so that GetSize and FindBlock find what Read shows; or everything was removed,
   or writing in place failed at the first byte. Whatever the file, the bytes and
   the modifications (ConsistencyCheck of FileContentDisk).                   *)
THEOREM HexIsWhole == Spec => []HexInv
  <1>1. Init => HexIInv BY InitStep
  <1>2. HexIInv /\ [Next]_vars => HexIInv' BY HexStep, HexStutter
  <1>3. HexIInv => HexInv
    <2> SUFFICES ASSUME HexIInv PROVE HexInv OBVIOUS
    <2>1. TypeOK BY DEF HexIInv, HexType
    <2>2. Usable => Len(Text) = Size BY InUse
    <2>3. BlocksFit
      <3>1. CASE blocks = <<>> BY <3>1 DEF BlocksFit
      <3>2. CASE Len(blocks) >= 2 /\ blocks[1].size = 0 BY <3>2 DEF BlocksFit
      <3>3. ASSUME NEW n \in Nat, Laid(blocks, 0, n), blocks # <<>> PROVE BlocksFit
        <4>1. /\ blocks \in Seq(Blocks) /\ blocks[1].start = 0
              /\ \A k \in 2..Len(blocks) : End(blocks[k - 1]) = blocks[k].start
          BY <3>3 DEF Laid
        <4>2. ASSUME NEW k \in 2..Len(blocks) PROVE Adjoin(blocks[k - 1], blocks[k])
          <5>1. k \in 1..Len(blocks) /\ k - 1 \in 1..Len(blocks) BY <4>1
          <5>2. PICK b \in Blocks : b = blocks[k - 1] BY <4>1, <5>1
          <5>3. PICK c \in Blocks : c = blocks[k] BY <4>1, <5>1
          <5>4. b.size > 0 /\ c.size > 0 BY DEF Blocks
          <5>5. \A d \in {b, c} : IsFromDisk(d) \/ Len(d.data) = d.size BY DEF Blocks
          <5>6. End(b) = c.start BY <4>1, <5>2, <5>3
          <5> QED BY <5>2, <5>3, <5>4, <5>5, <5>6 DEF Adjoin
        <4>3. ConsistencyCheck(blocks) BY <3>3, <4>2 DEF ConsistencyCheck
        <4> QED BY <2>2, <4>1, <4>3 DEF BlocksFit
      <3> QED BY <3>1, <3>2, <3>3 DEF HexIInv, Whole
    <2> QED BY <2>1, <2>3 DEF HexInv
  <1> QED BY <1>1, <1>2, <1>3, PTL DEF Spec

(* A text that is not shown as modified is what the file holds, after any edits,
   undos, redos and saves of any file, but for the two exceptions that misplaced
   names (m_UndoSaved of FileContentBase, IsModified).                        *)
THEOREM HexUnmodifiedIsOnDisk == Spec => []UnmodifiedIsOnDisk
  <1>1. Init => HexIInv BY InitStep
  <1>2. HexIInv /\ [Next]_vars => HexIInv' BY HexStep, HexStutter
  <1>3. HexIInv => UnmodifiedIsOnDisk
    <2> SUFFICES ASSUME HexIInv, Usable, ~Modified, ~misplaced PROVE file = Text
      BY DEF UnmodifiedIsOnDisk
    <2>1. undoSaved = undoCurrent BY DEF Modified
    <2>2. undoCurrent \in 0..Len(undoList) /\ Len(undoList) <= edits /\ edits \in 0..MaxEdits
      BY DEF HexIInv, HexType, TypeOK
    <2>3. MaxEdits \in Nat /\ Len(undoList) \in Nat BY HexAssumption, InUse
    <2>4. undoSaved # Invalid BY <2>1, <2>2, <2>3 DEF Invalid
    <2>5. SavedAt = Applying BY <2>1 DEF SavedAt, Applying
    <2> QED BY <2>4, <2>5, InUse
  <1> QED BY <1>1, <1>2, <1>3, PTL DEF Spec

(* The hex editor implements the history of a text of bytes: whatever blocks the
   modifications split, cut and merge, what is shown changes as one stretch that is
   replaced, taken back or made again, and a save, also one that fails half way,
   changes nothing of it.                                                     *)
THEOREM HexKeepsHistory == Spec => KeepsHistory
  <1> DEFINE Steps == Usable' => History!Next \/ UNCHANGED History!vars
  <1>1. Init => HexIInv /\ History!Init BY InitStep
  <1>2. HexIInv /\ [Next]_vars => HexIInv' BY HexStep, HexStutter
  <1>3. HexIInv /\ [Next]_vars => [Steps]_vars BY HexStep
  <1> QED BY <1>1, <1>2, <1>3, PTL DEF Spec, KeepsHistory
===============================================================================

--------------------------- MODULE ByteHistoryProofs ---------------------------
(* Undo and redo walk through the texts that there have been: proofs about
   ByteHistory, for texts, edits and histories of any length.                  *)
EXTENDS ByteHistory, SequenceTheorems, TLAPS

(* A part of a sequence: what it is made of. From the first byte, it may be empty. *)
LEMMA PartOfText ==
    ASSUME NEW t \in Seq(Bytes), NEW a \in Nat \ {0}, NEW b \in Nat,
           a <= b + 1, b <= Len(t)
    PROVE  /\ SubSeq(t, a, b) \in Seq(Bytes)
           /\ Len(SubSeq(t, a, b)) = b + 1 - a
           /\ \A i \in 1..b + 1 - a : SubSeq(t, a, b)[i] = t[a + i - 1]
<1>1. \A i \in a..b : t[i] \in Bytes
  OBVIOUS
<1>2. /\ SubSeq(t, a, b) \in Seq(Bytes)
      /\ Len(SubSeq(t, a, b)) = IF a <= b THEN b - a + 1 ELSE 0
      /\ \A i \in 1..b - a + 1 : SubSeq(t, a, b)[i] = t[a + i - 1]
  BY <1>1, SubSeqProperties
<1>3. b + 1 - a = b - a + 1 /\ (~(a <= b) => b - a + 1 = 0)
  OBVIOUS
<1> QED BY <1>2, <1>3

(* Where the bytes of a text with a replaced stretch come from.               *)
HasSpliced(u, t, pos, n, data, k) ==
    /\ u \in Seq(Bytes) /\ Len(u) = Len(t) - n + k
    /\ \A i \in 1..Len(t) - n + k :
          u[i] = IF i <= pos THEN t[i] ELSE IF i <= pos + k THEN data[i - pos] ELSE t[i - k + n]

LEMMA SplicedProperties ==
    ASSUME NEW t \in Seq(Bytes), NEW pos \in Nat, NEW n \in Nat, NEW data \in Seq(Bytes),
           pos + n <= Len(t)
    PROVE  HasSpliced(Spliced(t, pos, n, data), t, pos, n, data, Len(data))
<1> DEFINE head == SubSeq(t, 1, pos)
           tail == SubSeq(t, pos + n + 1, Len(t))
<1>0. Len(t) \in Nat /\ Len(data) \in Nat
  OBVIOUS
<1>1. /\ head \in Seq(Bytes) /\ Len(head) = pos
      /\ \A i \in 1..pos : head[i] = t[i]
  <2>1. /\ head \in Seq(Bytes) /\ Len(head) = pos + 1 - 1
        /\ \A i \in 1..pos + 1 - 1 : head[i] = t[1 + i - 1]
    BY <1>0, PartOfText, 1 \in Nat \ {0}, 1 <= pos + 1, pos <= Len(t)
  <2> QED BY <2>1
<1>2. /\ tail \in Seq(Bytes) /\ Len(tail) = Len(t) - pos - n
      /\ \A i \in 1..Len(t) - pos - n : tail[i] = t[pos + n + i]
  <2>1. /\ tail \in Seq(Bytes) /\ Len(tail) = Len(t) + 1 - (pos + n + 1)
        /\ \A i \in 1..Len(t) + 1 - (pos + n + 1) : tail[i] = t[pos + n + 1 + i - 1]
    <3>1. pos + n + 1 \in Nat \ {0} /\ pos + n + 1 <= Len(t) + 1
      BY <1>0
    <3> QED BY <1>0, <3>1, PartOfText
  <2> QED BY <2>1, <1>0
<1> HIDE DEF head, tail
<1> DEFINE hd == head \o data
           all == hd \o tail
<1>3. /\ hd \in Seq(Bytes) /\ Len(hd) = pos + Len(data)
      /\ \A i \in 1..pos + Len(data) : hd[i] = IF i <= pos THEN t[i] ELSE data[i - pos]
  <2>1. /\ hd \in Seq(Bytes) /\ Len(hd) = Len(head) + Len(data)
        /\ \A i \in 1..Len(head) + Len(data) :
              hd[i] = IF i <= Len(head) THEN head[i] ELSE data[i - Len(head)]
    <3>1. head \in Seq(Bytes) /\ data \in Seq(Bytes)
      BY <1>1
    <3> QED BY <3>1, ConcatProperties
  <2> HIDE DEF hd
  <2>2. ASSUME NEW i \in 1..pos + Len(data), i <= pos PROVE hd[i] = t[i]
    BY <2>1, <2>2, <1>0, <1>1
  <2>3. ASSUME NEW i \in 1..pos + Len(data), ~(i <= pos) PROVE hd[i] = data[i - pos]
    BY <2>1, <2>3, <1>0, <1>1
  <2> QED BY <2>1, <2>2, <2>3, <1>1
<1> HIDE DEF hd
<1>4. /\ all \in Seq(Bytes) /\ Len(all) = Len(hd) + Len(tail)
      /\ \A i \in 1..Len(hd) + Len(tail) :
            all[i] = IF i <= Len(hd) THEN hd[i] ELSE tail[i - Len(hd)]
  <2>1. hd \in Seq(Bytes) /\ tail \in Seq(Bytes)
    BY <1>2, <1>3
  <2> QED BY <2>1, ConcatProperties
<1> HIDE DEF all
<1>5. Spliced(t, pos, n, data) = all
  BY DEF Spliced, head, tail, hd, all
<1>6. Len(all) = Len(t) - n + Len(data)
  BY <1>0, <1>2, <1>3, <1>4
<1>7. ASSUME NEW i \in 1..Len(t) - n + Len(data), i <= pos
      PROVE  all[i] = t[i]
  <2>1. i \in 1..pos + Len(data) /\ i \in 1..Len(hd) + Len(tail) /\ i <= Len(hd)
    BY <1>0, <1>2, <1>3, <1>7
  <2>2. all[i] = hd[i]
    BY <2>1, <1>4
  <2> QED BY <2>1, <2>2, <1>3, <1>7
<1>8. ASSUME NEW i \in 1..Len(t) - n + Len(data), ~(i <= pos), i <= pos + Len(data)
      PROVE  all[i] = data[i - pos]
  <2>1. i \in 1..pos + Len(data) /\ i \in 1..Len(hd) + Len(tail) /\ i <= Len(hd)
    BY <1>0, <1>2, <1>3, <1>8
  <2>2. all[i] = hd[i]
    BY <2>1, <1>4
  <2> QED BY <2>1, <2>2, <1>3, <1>8
<1>9. ASSUME NEW i \in 1..Len(t) - n + Len(data), ~(i <= pos + Len(data))
      PROVE  all[i] = t[i - Len(data) + n]
  <2>1. /\ i \in 1..Len(hd) + Len(tail) /\ ~(i <= Len(hd))
        /\ i - Len(hd) \in 1..Len(t) - pos - n
        /\ pos + n + (i - Len(hd)) = i - Len(data) + n
    BY <1>0, <1>2, <1>3, <1>9
  <2>2. all[i] = tail[i - Len(hd)]
    BY <2>1, <1>4
  <2>3. tail[i - Len(hd)] = t[pos + n + (i - Len(hd))]
    BY <2>1, <1>2
  <2> QED BY <2>1, <2>2, <2>3
<1> QED BY <1>4, <1>5, <1>6, <1>7, <1>8, <1>9 DEF HasSpliced

(* A stretch that is replaced and put back.                                    *)
LEMMA SplicedBack ==
    ASSUME NEW t \in Seq(Bytes), NEW p \in Nat, NEW n \in Nat,
           NEW new \in Seq(Bytes), NEW old \in Seq(Bytes),
           p + n <= Len(t), Len(old) = n, \A i \in 1..n : old[i] = t[p + i]
    PROVE  Spliced(Spliced(t, p, n, new), p, Len(new), old) = t
<1> DEFINE k == Len(new)
           u == Spliced(t, p, n, new)
           v == Spliced(u, p, k, old)
<1>1. k \in Nat /\ Len(t) \in Nat
  OBVIOUS
<1>2. /\ u \in Seq(Bytes) /\ Len(u) = Len(t) - n + k
      /\ \A i \in 1..Len(t) - n + k :
            u[i] = IF i <= p THEN t[i] ELSE IF i <= p + k THEN new[i - p] ELSE t[i - k + n]
  <2>1. HasSpliced(u, t, p, n, new, k)
    BY SplicedProperties
  <2> QED BY ONLY <2>1 DEF HasSpliced
<1> HIDE DEF k, u
<1>3. /\ v \in Seq(Bytes) /\ Len(v) = Len(u) - k + n
      /\ \A i \in 1..Len(u) - k + n :
            v[i] = IF i <= p THEN u[i] ELSE IF i <= p + n THEN old[i - p] ELSE u[i - n + k]
  <2>1. p + k <= Len(u)
    BY <1>1, <1>2
  <2>2. HasSpliced(v, u, p, k, old, Len(old))
    BY <2>1, <1>1, <1>2, SplicedProperties
  <2>3. HasSpliced(v, u, p, k, old, n)
    BY <2>2
  <2> HIDE DEF v
  <2> QED BY ONLY <2>3 DEF HasSpliced
<1> HIDE DEF v
<1>4. Len(v) = Len(t)
  BY <1>1, <1>2, <1>3
<1>5. ASSUME NEW i \in 1..Len(v) PROVE v[i] = t[i]
  <2>0. i \in 1..Len(u) - k + n
    BY <1>3
  <2>1. CASE i <= p
    <3>1. i \in 1..Len(t) - n + k
      BY <2>1, <1>1
    <3> QED BY <2>0, <2>1, <3>1, <1>2, <1>3
  <2>2. CASE i > p /\ i <= p + n
    <3>1. i - p \in 1..n /\ p + (i - p) = i
      BY <2>2, <1>1
    <3>2. v[i] = old[i - p]
      BY <2>0, <2>2, <1>1, <1>3
    <3> QED BY <3>1, <3>2
  <2>3. CASE i > p + n
    <3> DEFINE j == i - n + k
    <3>1. j \in 1..Len(t) - n + k /\ ~(j <= p + k) /\ ~(j <= p) /\ j - k + n = i
      BY <2>3, <1>1, <1>4
    <3>2. v[i] = u[j]
      BY <2>0, <2>3, <1>1, <1>3
    <3> HIDE DEF j
    <3>3. u[j] = t[j - k + n]
      BY <3>1, <1>2
    <3> QED BY <3>1, <3>2, <3>3
  <2> QED BY <2>1, <2>2, <2>3, <1>1
<1> QED BY <1>3, <1>4, <1>5, SeqEqual DEF u, v, k

(* Taking back an edit that fits a text gives that text again.                 *)
LEMMA RevertedAfterApplied ==
    ASSUME NEW t \in Seq(Bytes), NEW m \in [pos : Nat, before : Seq(Bytes), after : Seq(Bytes)],
           Fits(t, m)
    PROVE  Reverted(Applied(t, m), m) = t
<1> DEFINE p == m.pos
           n == Len(m.before)
<1>1. p \in Nat /\ n \in Nat /\ m.before \in Seq(Bytes) /\ m.after \in Seq(Bytes)
  OBVIOUS
<1>2. p + n <= Len(t) /\ m.before = SubSeq(t, p + 1, p + n)
  BY DEF Fits
<1> HIDE DEF p, n
<1>3. \A i \in 1..n : SubSeq(t, p + 1, p + n)[i] = t[p + i]
  <2>1. p + 1 \in Nat \ {0} /\ p + n \in Nat /\ p + 1 <= p + n + 1
    BY <1>1
  <2>2. \A i \in 1..p + n + 1 - (p + 1) : SubSeq(t, p + 1, p + n)[i] = t[p + 1 + i - 1]
    BY <2>1, <1>2, PartOfText
  <2>3. p + n + 1 - (p + 1) = n /\ \A i \in 1..n : p + 1 + i - 1 = p + i
    BY <1>1
  <2> QED BY <2>2, <2>3
<1>4. \A i \in 1..n : m.before[i] = t[p + i]
  BY <1>2, <1>3
<1>5. Spliced(Spliced(t, p, n, m.after), p, Len(m.after), m.before) = t
  BY <1>1, <1>2, <1>4, SplicedBack DEF n
<1> QED BY <1>5 DEF Reverted, Applied, p, n

-----------------------------------------------------------------------------
(* The history of ByteHistory.                                                *)
Recorded == [pos : Nat, before : Seq(Bytes), after : Seq(Bytes)]
HistoryType ==
    /\ list \in Seq(Recorded)
    /\ at \in 0..Len(list)
HInv == HistoryType /\ Chain

(* Edits, undo and redo never leave the chain of texts: what undo shows is the text
   before the last edit, what redo shows the one after the next (FileContentBase::
   InsertAndApplyModification, Undo, Redo).                                    *)
THEOREM HistoryIsAChain == ASSUME Data \subseteq Seq(Bytes) PROVE Spec => []HInv
<1>1. Init => HInv
  <2> SUFFICES ASSUME Init PROVE HInv
    OBVIOUS
  <2>1. HistoryType
    BY DEF Init, HistoryType
  <2>2. Chain
    <3> DEFINE texts == [k \in 0..Len(list) |-> text]
    <3>1. texts \in [0..Len(list) -> Seq(Bytes)] /\ text = texts[at] /\ 1..Len(list) = {}
      BY DEF Init
    <3> QED BY <3>1 DEF Chain
  <2> QED BY <2>1, <2>2 DEF HInv
<1>2. HInv /\ [Next]_vars => HInv'
  <2> SUFFICES ASSUME HInv, [Next]_vars PROVE HInv'
    OBVIOUS
  <2> PICK texts \in [0..Len(list) -> Seq(Bytes)] :
        /\ text = texts[at]
        /\ \A k \in 1..Len(list) :
              Fits(texts[k - 1], list[k]) /\ texts[k] = Applied(texts[k - 1], list[k])
    BY DEF HInv, Chain
  <2>0. /\ list \in Seq(Recorded)
        /\ at \in 0..Len(list) /\ Len(list) \in Nat
    BY DEF HInv, HistoryType
  <2>1. CASE Edit
    <3> DEFINE m == list'[at']
               kept == SubSeq(list, 1, at)
    <3>1. /\ at' = at + 1 /\ Len(list') = at'
          /\ m \in Modifications /\ Fits(text, m)
          /\ list' = Append(kept, m) /\ text' = Applied(text, m)
      BY <2>1 DEF Edit
    <3>2. m \in Recorded
      BY <3>1 DEF Modifications, Recorded
    <3> HIDE DEF m
    <3>3. /\ kept \in Seq(Recorded)
          /\ Len(kept) = at /\ \A k \in 1..at : kept[k] = list[k]
      <4>1. \A k \in 1..at : list[k] \in Recorded
        BY <2>0
      <4>2. /\ kept \in Seq(Recorded) /\ Len(kept) = IF 1 <= at THEN at - 1 + 1 ELSE 0
            /\ \A k \in 1..at - 1 + 1 : kept[k] = list[1 + k - 1]
        <5>1. 1 \in Int /\ at \in Int
          BY <2>0
        <5> HIDE DEF kept
        <5> QED BY <4>1, <5>1, SubSeqProperties DEF kept
      <4> HIDE DEF kept
      <4>3. at - 1 + 1 = at /\ (~(1 <= at) => at = 0) /\ \A k \in 1..at : 1 + k - 1 = k
        BY <2>0
      <4> QED BY <4>2, <4>3
    <3> HIDE DEF kept
    <3>4. /\ list' \in Seq(Recorded)
          /\ \A k \in 1..at : list'[k] = list[k]
          /\ list'[at + 1] = m
      <4>1. /\ Append(kept, m) \in Seq(Recorded) /\ Append(kept, m)[Len(kept) + 1] = m
            /\ \A k \in 1..Len(kept) : Append(kept, m)[k] = kept[k]
        BY <3>2, <3>3, AppendProperties
      <4> QED BY <4>1, <3>1, <3>3
    <3>5. HistoryType'
      BY <3>1, <3>4, <2>0 DEF HistoryType
    <3>6. text \in Seq(Bytes) /\ text' \in Seq(Bytes)
      <4>1. text \in Seq(Bytes)
        BY <2>0
      <4>2. /\ m.pos \in Nat /\ m.before \in Seq(Bytes) /\ m.after \in Seq(Bytes)
            /\ Len(m.before) \in Nat /\ m.pos + Len(m.before) <= Len(text)
        BY <3>1, <3>2 DEF Fits, Recorded
      <4>3. HasSpliced(Spliced(text, m.pos, Len(m.before), m.after), text,
                        m.pos, Len(m.before), m.after, Len(m.after))
        BY <4>1, <4>2, SplicedProperties
      <4> QED BY <4>1, <4>3, <3>1 DEF Applied, HasSpliced
    <3>7. Chain'
      <4> DEFINE now == [k \in 0..at + 1 |-> IF k <= at THEN texts[k] ELSE text']
      <4>1. now \in [0..Len(list') -> Seq(Bytes)] /\ text' = now[at']
        <5>1. 0..Len(list') = 0..at + 1 /\ at + 1 \in 0..at + 1 /\ ~(at + 1 <= at)
          BY <2>0, <3>1
        <5>2. ASSUME NEW k \in 0..at + 1
              PROVE  (IF k <= at THEN texts[k] ELSE text') \in Seq(Bytes)
          <6>1. k <= at => k \in 0..Len(list)
            BY <2>0
          <6> QED BY <6>1, <3>6
        <5> QED BY <5>1, <5>2, <3>1
      <4>2. ASSUME NEW k \in 1..at + 1
            PROVE  Fits(now[k - 1], list'[k]) /\ now[k] = Applied(now[k - 1], list'[k])
        <5>1. CASE k <= at
          <6>1. k \in 1..Len(list) /\ now[k - 1] = texts[k - 1] /\ now[k] = texts[k]
            BY <5>1, <2>0
          <6>2. list'[k] = list[k]
            BY <5>1, <2>0, <3>4
          <6> QED BY <6>1, <6>2
        <5>2. CASE k = at + 1
          <6>1. now[k - 1] = text /\ now[k] = text' /\ list'[k] = m
            BY <5>2, <2>0, <3>4
          <6> QED BY <6>1, <3>1
        <5> QED BY <5>1, <5>2, <2>0
      <4> HIDE DEF now
      <4>3. \A k \in 1..Len(list') :
               Fits(now[k - 1], list'[k]) /\ now[k] = Applied(now[k - 1], list'[k])
        BY <4>2, <3>1
      <4> QED BY <4>1, <4>3 DEF Chain
    <3> QED BY <3>5, <3>7 DEF HInv
  <2>2. CASE Undo
    <3>1. /\ at \in 1..Len(list) /\ at' = at - 1 /\ list' = list
          /\ text' = Reverted(text, list[at])
      BY <2>0, <2>2 DEF Undo
    <3>2. text' = texts[at']
      <4>1. /\ texts[at - 1] \in Seq(Bytes)
            /\ list[at] \in Recorded
            /\ Fits(texts[at - 1], list[at]) /\ text = Applied(texts[at - 1], list[at])
        <5>1. at - 1 \in 0..Len(list)
          BY <2>0, <3>1
        <5>2. list[at] \in Recorded
          BY <2>0, <3>1
        <5> QED BY <5>1, <5>2, <3>1
      <4>2. Reverted(Applied(texts[at - 1], list[at]), list[at]) = texts[at - 1]
        BY <4>1, RevertedAfterApplied DEF Recorded
      <4> QED BY <4>1, <4>2, <3>1
    <3>3. HistoryType'
      BY <2>0, <3>1 DEF HistoryType
    <3>4. Chain'
      BY <3>1, <3>2 DEF Chain
    <3> QED BY <3>3, <3>4 DEF HInv
  <2>3. CASE Redo
    <3>1. /\ at + 1 \in 1..Len(list) /\ at' = at + 1 /\ list' = list
          /\ text' = Applied(text, list[at + 1])
      BY <2>0, <2>3 DEF Redo
    <3>2. text' = texts[at']
      <4> DEFINE next == at + 1
      <4>1. next \in 1..Len(list) /\ next - 1 = at
        BY <2>0, <3>1
      <4>2. at' = next /\ text' = Applied(text, list[next])
        BY <3>1
      <4> HIDE DEF next
      <4>3. texts[next] = Applied(texts[next - 1], list[next])
        BY <4>1
      <4> QED BY <4>1, <4>2, <4>3
    <3>3. HistoryType'
      BY <2>0, <3>1 DEF HistoryType
    <3>4. Chain'
      BY <3>1, <3>2 DEF Chain
    <3> QED BY <3>3, <3>4 DEF HInv
  <2>4. CASE UNCHANGED vars
    BY <2>4 DEF HInv, HistoryType, Chain, vars
  <2> QED BY <2>1, <2>2, <2>3, <2>4 DEF Next
<1> QED BY <1>1, <1>2, PTL DEF Spec
=============================================================================

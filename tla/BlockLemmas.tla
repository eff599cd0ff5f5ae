---------------------------- MODULE BlockLemmas ----------------------------
(***************************************************************************)
(* Lemmas that the proofs about several modules need: extremes of sets of  *)
(* integers, windows of sequences, and an attempt to decode a Native block *)
(* from the bytes at hand.                                                 *)
(***************************************************************************)
EXTENDS Integers, NativeBlock, FiniteSetTheorems, SequenceTheorems, TLAPS

-----------------------------------------------------------------------------
\* Sets of integers.

\* A finite set of integers has a greatest element: among the finite sets
\* without one a smallest would have one.
LEMMA FiniteMax ==
  ASSUME NEW S \in SUBSET Int, IsFiniteSet(S), S # {}
  PROVE  \E m \in S : \A n \in S : n <= m
<1> DEFINE Bad == {U \in FiniteSubsetsOf(Int) : U # {} /\ ~\E m \in U : \A n \in U : n <= m}
<1>1. SUFFICES ASSUME Bad # {} PROVE FALSE
  BY DEF FiniteSubsetsOf
<1>2. PICK U \in Bad : \A V \in Bad : ~(<<V, U>> \in StrictSubsetOrdering(Int))
  <2>1. Bad \subseteq FiniteSubsetsOf(Int)
    OBVIOUS
  <2> HIDE DEF Bad
  <2> QED BY <1>1, <2>1, FS_StrictSubsetOrderingWellFounded, WFMin
<1>3. PICK x \in U : TRUE
  OBVIOUS
<1>4. U \subseteq Int /\ IsFiniteSet(U)
  BY DEF FiniteSubsetsOf
<1>5. U \ {x} \in FiniteSubsetsOf(Int)
  BY <1>4, FS_RemoveElement DEF FiniteSubsetsOf
<1>6. <<U \ {x}, U>> \in StrictSubsetOrdering(Int)
  BY <1>3, <1>4 DEF StrictSubsetOrdering
<1>7. U \ {x} \notin Bad
  BY <1>2, <1>6
<1>8. CASE U \ {x} = {}
  BY <1>3, <1>4, <1>8
<1>9. CASE U \ {x} # {}
  <2>1. PICK y \in U \ {x} : \A n \in U \ {x} : n <= y
    BY <1>5, <1>7, <1>9
  <2>2. CASE x <= y
    BY <1>3, <1>4, <2>1, <2>2
  <2>3. CASE y <= x
    <3>1. \A n \in U : n <= x
      BY <1>3, <1>4, <2>1, <2>3
    <3> QED BY <1>3, <3>1
  <2> QED BY <1>3, <1>4, <2>1, <2>2, <2>3
<1> QED BY <1>8, <1>9

\* Every set of natural numbers that is not empty has a least element: below any
\* of its elements it is finite, and mirrored there it has a greatest.
LEMMA LeastNatural ==
  ASSUME NEW S \in SUBSET Nat, S # {}
  PROVE  \E m \in S : \A n \in S : m <= n
<1>1. PICK x \in S : TRUE
  OBVIOUS
<1> DEFINE T == {k \in 0 .. x : x - k \in S}
<1>2. x \in Nat
  BY <1>1
<1>3. IsFiniteSet(0 .. x)
  BY <1>2, FS_Interval
<1>4. T \subseteq 0 .. x
  OBVIOUS
<1>5. IsFiniteSet(T) /\ T \in SUBSET Int
  BY <1>2, <1>3, <1>4, FS_Subset
<1>6. 0 \in T
  BY <1>1, <1>2
<1>7. PICK g \in T : \A k \in T : k <= g
  <2> HIDE DEF T
  <2> QED BY <1>5, <1>6, FiniteMax
<1>8. x - g \in S /\ g \in 0 .. x
  OBVIOUS
<1>9. ASSUME NEW n \in S
      PROVE  x - g <= n
  <2>1. n \in Nat /\ g \in Nat
    BY <1>8
  <2>2. CASE n <= x
    <3>1. x - n \in 0 .. x /\ x - (x - n) = n
      BY <1>2, <2>1, <2>2
    <3>2. x - n \in T
      BY <1>9, <3>1
    <3>3. x - n <= g
      BY <1>7, <3>2
    <3> QED BY <1>2, <2>1, <3>3
  <2>3. CASE n > x
    BY <1>2, <2>1, <2>3
  <2> QED BY <1>2, <2>1, <2>2, <2>3
<1> QED BY <1>8, <1>9
-----------------------------------------------------------------------------
\* Windows of a sequence.

LEMMA Window ==
  ASSUME NEW S, NEW w \in Seq(S), NEW p \in Nat, NEW q \in Nat, p <= q, q <= Len(w)
  PROVE  /\ SubSeq(w, p + 1, q) \in Seq(S)
         /\ Len(SubSeq(w, p + 1, q)) = q - p
         /\ \A i \in 1 .. q - p : SubSeq(w, p + 1, q)[i] = w[p + i]
<1>1. Len(w) \in Nat
  BY LenProperties
<1>2. \A i \in p + 1 .. q : w[i] \in S
  BY <1>1, ElementOfSeq
<1>3. /\ SubSeq(w, p + 1, q) \in Seq(S)
      /\ Len(SubSeq(w, p + 1, q)) = IF p + 1 <= q THEN q - (p + 1) + 1 ELSE 0
      /\ \A i \in 1 .. q - (p + 1) + 1 : SubSeq(w, p + 1, q)[i] = w[p + 1 + i - 1]
  BY <1>2, SubSeqProperties
<1>4. /\ (IF p + 1 <= q THEN q - (p + 1) + 1 ELSE 0) = q - p
      /\ 1 .. q - (p + 1) + 1 = 1 .. q - p
      /\ \A i \in 1 .. q - p : p + 1 + i - 1 = p + i
  OBVIOUS
<1> QED BY <1>3, <1>4

\* A window of a window.
LEMMA Windows ==
  ASSUME NEW S, NEW w \in Seq(S), NEW p \in Nat, NEW q \in Nat, p <= q, q <= Len(w),
         NEW m \in Nat, NEW n \in Nat, m <= n, n <= q - p
  PROVE  SubSeq(SubSeq(w, p + 1, q), m + 1, n) = SubSeq(w, p + m + 1, p + n)
<1> DEFINE s == SubSeq(w, p + 1, q)
           l == SubSeq(s, m + 1, n)
           k == SubSeq(w, (p + m) + 1, p + n)
<1>1. s \in Seq(S) /\ Len(s) = q - p /\ \A i \in 1 .. q - p : s[i] = w[p + i]
  BY Window
<1> HIDE DEF s
<1>2. l \in Seq(S) /\ Len(l) = n - m /\ \A i \in 1 .. n - m : l[i] = s[m + i]
  BY <1>1, Window
<1>3. p + m \in Nat /\ p + n \in Nat /\ p + m <= p + n /\ p + n <= Len(w) /\ (p + n) - (p + m) = n - m
  <2>1. Len(w) \in Nat
    BY LenProperties
  <2> QED BY <2>1
<1>4. k \in Seq(S) /\ Len(k) = (p + n) - (p + m)
      /\ \A i \in 1 .. (p + n) - (p + m) : k[i] = w[(p + m) + i]
  BY <1>3, Window
<1>5. Len(k) = n - m /\ \A i \in 1 .. n - m : k[i] = w[(p + m) + i]
  BY <1>3, <1>4
<1> HIDE DEF l, k
<1>6. \A i \in 1 .. n - m : l[i] = k[i]
  <2> TAKE i \in 1 .. n - m
  <2>1. m + i \in 1 .. q - p /\ p + (m + i) = (p + m) + i
    OBVIOUS
  <2>2. s[m + i] = w[p + (m + i)]
    BY <1>1, <2>1
  <2> QED BY <1>2, <1>5, <2>1, <2>2
<1>7. l = k
  BY <1>2, <1>4, <1>5, <1>6, SeqEqual
<1> QED BY <1>7 DEF l, k, s

\* Adjacent windows make a larger one.
LEMMA Adjacent ==
  ASSUME NEW S, NEW w \in Seq(S), NEW p \in Nat, NEW q \in Nat, NEW m \in Nat,
         p <= m, m <= q, q <= Len(w)
  PROVE  SubSeq(w, p + 1, m) \o SubSeq(w, m + 1, q) = SubSeq(w, p + 1, q)
<1>1. Len(w) \in Nat
  BY LenProperties
<1>2. p + 1 \in 1 .. Len(w) + 1 /\ m \in (p + 1) - 1 .. Len(w) /\ q \in m .. Len(w)
  BY <1>1
<1> QED BY <1>2, ConcatAdjacentSubSeq

\* The two parts of a sequence put together, as windows of it.
LEMMA Parts ==
  ASSUME NEW S, NEW s \in Seq(S), NEW t \in Seq(S)
  PROVE  /\ SubSeq(s \o t, 1, Len(s)) = s
         /\ s \o t \in Seq(S) /\ Len(s \o t) = Len(s) + Len(t)
<1> DEFINE u == s \o t
           v == SubSeq(u, 0 + 1, Len(s))
<1>1. /\ u \in Seq(S) /\ Len(u) = Len(s) + Len(t)
      /\ \A i \in 1 .. Len(s) + Len(t) : u[i] = IF i <= Len(s) THEN s[i] ELSE t[i - Len(s)]
  BY ConcatProperties
<1>2. Len(s) \in Nat /\ Len(t) \in Nat
  BY LenProperties
<1> HIDE DEF u
<1>3. 0 <= Len(s) /\ Len(s) <= Len(u) /\ Len(s) - 0 = Len(s) /\ \A i \in Nat : 0 + i = i
  BY <1>1, <1>2
<1>4. v \in Seq(S) /\ Len(v) = Len(s) - 0 /\ \A i \in 1 .. Len(s) - 0 : v[i] = u[0 + i]
  BY <1>1, <1>2, <1>3, Window
<1> HIDE DEF v
<1>5. \A i \in 1 .. Len(s) : v[i] = s[i]
  BY <1>1, <1>2, <1>3, <1>4
<1>6. v = s
  BY <1>3, <1>4, <1>5, SeqEqual
<1> QED BY <1>1, <1>6 DEF u, v

-----------------------------------------------------------------------------
\* Decoding a block.

\* p is what an attempt leaves behind that has seen bytes: nothing, or the columns
\* they hold, cut where the layout says, and the position of the next one.
IsPartial(S, p, bytes, cuts) ==
  \/ p = NoPartial
  \/ /\ p.header = TRUE
     /\ p.columns \in Seq(Seq(S)) /\ Len(p.columns) < Len(cuts)
     /\ p.resumeOffset = cuts[Len(p.columns) + 1] /\ p.resumeOffset <= Len(bytes)
     /\ \A k \in 1 .. Len(p.columns) : p.columns[k] = SubSeq(bytes, cuts[k] + 1, cuts[k + 1])

LEMMA CutsFacts ==
  ASSUME NEW cuts, IsCuts(cuts)
  PROVE  /\ Len(cuts) \in Nat \ {0}
         /\ \A i \in 1 .. Len(cuts) : cuts[i] \in Nat \ {0}
         /\ \A i, j \in 1 .. Len(cuts) : i < j => cuts[i] < cuts[j]
         /\ \A i \in 1 .. Len(cuts) : cuts[i] <= cuts[Len(cuts)]
<1>1. cuts \in Seq(Nat \ {0}) /\ cuts # <<>>
  BY DEF IsCuts
<1>2. /\ Len(cuts) \in Nat \ {0}
      /\ \A i \in 1 .. Len(cuts) : cuts[i] \in Nat \ {0}
  BY <1>1, EmptySeq, ElementOfSeq
<1>3. \A i, j \in 1 .. Len(cuts) : i < j => cuts[i] < cuts[j]
  BY <1>1, LenProperties DEF IsCuts
<1>4. \A i \in 1 .. Len(cuts) : cuts[i] <= cuts[Len(cuts)]
  <2> TAKE i \in 1 .. Len(cuts)
  <2>1. CASE i = Len(cuts)
    BY <1>2, <2>1
  <2>2. CASE i # Len(cuts)
    BY <1>2, <1>3, <2>2
  <2> QED BY <2>1, <2>2
<1> QED BY <1>2, <1>3, <1>4

LEMMA CutsMonotone ==
  ASSUME NEW cuts, IsCuts(cuts), NEW i \in 1 .. Len(cuts), NEW j \in 1 .. Len(cuts), i <= j
  PROVE  cuts[i] <= cuts[j]
<1>1. cuts[i] \in Nat /\ cuts[j] \in Nat /\ (i < j => cuts[i] < cuts[j]) /\ Len(cuts) \in Nat
  BY CutsFacts
<1> QED BY <1>1

\* The bytes of a column already decoded do not change when more are appended.
LEMMA PartialExtends ==
  ASSUME NEW S, NEW cuts, IsCuts(cuts), NEW g \in Seq(S), NEW chunk \in Seq(S),
         NEW p, IsPartial(S, p, g, cuts)
  PROVE  IsPartial(S, p, g \o chunk, cuts)
<1>1. SUFFICES ASSUME p # NoPartial
               PROVE  /\ p.resumeOffset <= Len(g \o chunk)
                      /\ \A k \in 1 .. Len(p.columns) :
                           p.columns[k] = SubSeq(g \o chunk, cuts[k] + 1, cuts[k + 1])
  BY DEF IsPartial
<1> DEFINE c == Len(p.columns)
           l == Len(g)
<1>2. l \in Nat /\ Len(chunk) \in Nat /\ Len(g \o chunk) = l + Len(chunk)
  BY ConcatProperties, LenProperties
<1>3. c \in Nat /\ c < Len(cuts) /\ cuts[c + 1] <= l /\ cuts[c + 1] = p.resumeOffset
  BY <1>1, LenProperties DEF IsPartial
<1>4. \A k \in 1 .. c : p.columns[k] = SubSeq(g, cuts[k] + 1, cuts[k + 1])
  BY <1>1 DEF IsPartial
<1> HIDE DEF c, l
<1>5. ASSUME NEW k \in 1 .. c
      PROVE  SubSeq(g \o chunk, cuts[k] + 1, cuts[k + 1]) = SubSeq(g, cuts[k] + 1, cuts[k + 1])
  <2>1. /\ k \in 1 .. Len(cuts) /\ k + 1 \in 1 .. Len(cuts) /\ c + 1 \in 1 .. Len(cuts)
    BY <1>3, CutsFacts
  <2>2. /\ cuts[k] \in Nat \ {0} /\ cuts[k + 1] \in Nat \ {0} /\ cuts[k] < cuts[k + 1]
    BY <2>1, CutsFacts
  <2>3. cuts[k + 1] <= cuts[c + 1]
    BY <1>3, <2>1, CutsMonotone
  <2>4. cuts[k] + 1 \in 1 .. l /\ cuts[k + 1] \in 1 .. l
    <3>1. cuts[c + 1] \in Nat /\ cuts[c + 1] <= l
      BY <1>3, <2>1, CutsFacts
    <3>2. l \in Nat
      BY <1>2
    <3> QED BY <2>2, <2>3, <3>1, <3>2
  <2> QED BY <2>4, SubSeqOfConcat1 DEF l
<1>6. p.resumeOffset <= Len(g \o chunk)
  <2>1. cuts[c + 1] \in Nat
    BY <1>3, CutsFacts
  <2> QED BY <1>2, <1>3, <2>1
<1> QED BY <1>4, <1>5, <1>6 DEF c

\* Advance takes every column the bytes hold, and no more.
LEMMA AdvanceDecodes ==
  ASSUME NEW S, NEW cuts, IsCuts(cuts), NEW bytes \in Seq(S), NEW p,
         p.header = TRUE, IsPartial(S, p, bytes, cuts)
  PROVE  LET r == Advance(bytes, cuts, p)
         IN /\ IsPartial(S, r, bytes, cuts)
            /\ IsWhole(cuts, r) <=> cuts[Len(cuts)] <= Len(bytes)
            /\ IsWhole(cuts, r) => r.resumeOffset = cuts[Len(cuts)]
<1> DEFINE c == Len(p.columns)
           k == Len(cuts) - 1 - c
           l == Len(bytes)
           got == Complete(bytes, cuts, p)
           n == IF got = {} THEN 0 ELSE CHOOSE m \in got : \A i \in got : i <= m
           new == [i \in 1 .. n |-> Column(bytes, cuts, p, i)]
           r == Advance(bytes, cuts, p)
<1>1. /\ c \in Nat /\ k \in Nat /\ l \in Nat /\ Len(cuts) = c + 1 + k
      /\ p.columns \in Seq(Seq(S))
      /\ p.resumeOffset = cuts[c + 1] /\ cuts[c + 1] <= l
      /\ \A i \in 1 .. c : p.columns[i] = SubSeq(bytes, cuts[i] + 1, cuts[i + 1])
  <2>1. p # NoPartial
    BY DEF NoPartial
  <2>2. Len(cuts) \in Nat \ {0}
    BY CutsFacts
  <2>3. c \in Nat /\ c < Len(cuts) /\ l \in Nat
    BY <2>1, LenProperties DEF IsPartial
  <2>4. k \in Nat /\ Len(cuts) = c + 1 + k
    BY <2>2, <2>3
  <2> QED BY <2>1, <2>3, <2>4 DEF IsPartial
<1>2. \A i \in 0 .. k : ColumnEnd(cuts, p, i) = cuts[c + 1 + i]
  <2> TAKE i \in 0 .. k
  <2>1. c + 1 \in 1 .. Len(cuts) /\ c + 1 + i \in 1 .. Len(cuts)
    BY <1>1
  <2>2. cuts[c + 1] \in Nat /\ cuts[c + 1 + i] \in Nat
    BY <2>1, CutsFacts
  <2>3. ColumnEnd(cuts, p, i) = cuts[c + 1] + (cuts[c + 1 + i] - cuts[c + 1])
    BY <1>1 DEF ColumnEnd
  <2> QED BY <2>2, <2>3
<1>3. \A i \in 1 .. k : i \in got <=> cuts[c + 1 + i] <= l
  BY <1>1, <1>2 DEF Complete
<1>4. got \subseteq 1 .. k
  BY DEF Complete
<1> HIDE DEF c, k, l, got
<1>5. n \in 0 .. k /\ (n # 0 => n \in got) /\ \A i \in got : i <= n
  <2>1. CASE got = {}
    BY <1>1, <2>1
  <2>2. CASE got # {}
    <3>1. got \in SUBSET Int /\ IsFiniteSet(got)
      <4>1. IsFiniteSet(1 .. k)
        BY <1>1, FS_Interval
      <4>2. 1 .. k \subseteq Int
        BY <1>1
      <4> QED BY <1>4, <4>1, <4>2, FS_Subset
    <3>2. \E m \in got : \A i \in got : i <= m
      BY <2>2, <3>1, FiniteMax
    <3>3. n \in got /\ \A i \in got : i <= n
      BY <2>2, <3>2
    <3> HIDE DEF n
    <3>4. n \in 1 .. k
      BY <1>4, <3>3
    <3> QED BY <1>1, <3>3, <3>4
  <2> QED BY <2>1, <2>2
<1>6. r = [header |-> TRUE, columns |-> p.columns \o new, resumeOffset |-> ColumnEnd(cuts, p, n)]
  BY DEF Advance, got
<1> HIDE DEF n, r
<1>7. c + 1 + n \in 1 .. Len(cuts) /\ cuts[c + 1 + n] <= l
  BY <1>1, <1>3, <1>5
<1>8. ASSUME NEW i \in 1 .. n
      PROVE  /\ Column(bytes, cuts, p, i) = SubSeq(bytes, cuts[c + i] + 1, cuts[c + 1 + i])
             /\ Column(bytes, cuts, p, i) \in Seq(S)
  <2>1. i - 1 \in 0 .. k /\ i \in 0 .. k /\ c + 1 + (i - 1) = c + i
    BY <1>1, <1>5
  <2>2. Column(bytes, cuts, p, i) = SubSeq(bytes, cuts[c + i] + 1, cuts[c + 1 + i])
    BY <1>2, <2>1 DEF Column
  <2>3. /\ c + i \in 1 .. Len(cuts) /\ c + 1 + i \in 1 .. Len(cuts)
        /\ c + 1 + i <= c + 1 + n
    BY <1>1, <1>5
  <2>4. cuts[c + 1 + i] <= cuts[c + 1 + n]
    BY <1>7, <2>3, CutsMonotone
  <2>5. cuts[c + i] \in Nat /\ cuts[c + 1 + i] \in Nat /\ cuts[c + 1 + n] \in Nat
    BY <1>7, <2>3, CutsFacts
  <2>6. \A j \in cuts[c + i] + 1 .. cuts[c + 1 + i] : j \in 1 .. l
    BY <1>1, <1>7, <2>4, <2>5
  <2>7. \A j \in cuts[c + i] + 1 .. cuts[c + 1 + i] : bytes[j] \in S
    BY <2>6, ElementOfSeq DEF l
  <2> QED BY <2>2, <2>5, <2>7, SubSeqProperties
<1>9. n \in Nat
  BY <1>1, <1>5
<1>10. /\ new \in Seq(Seq(S)) /\ Len(new) = n
       /\ \A i \in 1 .. n : new[i] = SubSeq(bytes, cuts[c + i] + 1, cuts[c + 1 + i])
  BY <1>8, <1>9, IsASeq
<1> HIDE DEF new
<1>11. /\ p.columns \o new \in Seq(Seq(S)) /\ Len(p.columns \o new) = c + n
       /\ \A i \in 1 .. c + n : (p.columns \o new)[i] = IF i <= c THEN p.columns[i] ELSE new[i - c]
  <2>1. Len(p.columns) = c /\ p.columns \in Seq(Seq(S))
    BY <1>1 DEF c
  <2>2. new \in Seq(Seq(S)) /\ Len(new) = n
    BY <1>10
  <2>3. /\ p.columns \o new \in Seq(Seq(S))
        /\ Len(p.columns \o new) = Len(p.columns) + Len(new)
        /\ \A i \in 1 .. Len(p.columns) + Len(new) :
             (p.columns \o new)[i] = IF i <= Len(p.columns) THEN p.columns[i] ELSE new[i - Len(p.columns)]
    BY <2>1, <2>2, ConcatProperties
  <2> QED BY <2>1, <2>2, <2>3, Zenon
<1>12. ASSUME NEW i \in 1 .. c + n
       PROVE  (p.columns \o new)[i] = SubSeq(bytes, cuts[i] + 1, cuts[i + 1])
  <2>1. CASE i <= c
    <3>1. i \in 1 .. c
      BY <1>1, <1>9, <2>1
    <3> QED BY <1>1, <1>11, <2>1, <3>1
  <2>2. CASE ~(i <= c)
    <3>1. i - c \in 1 .. n /\ c + (i - c) = i /\ c + 1 + (i - c) = i + 1
      BY <1>1, <1>9, <2>2
    <3> QED BY <1>10, <1>11, <2>2, <3>1
  <2> QED BY <2>1, <2>2
<1>13. /\ r.header = TRUE /\ r.columns = p.columns \o new
       /\ r.resumeOffset = cuts[c + 1 + n]
  BY <1>2, <1>5, <1>6
<1>14. Len(r.columns) = c + n /\ c + n < Len(cuts) /\ c + n + 1 = c + 1 + n
  BY <1>1, <1>5, <1>9, <1>11, <1>13
<1>15. IsPartial(S, r, bytes, cuts)
  <2>1. r.columns \in Seq(Seq(S)) /\ Len(r.columns) < Len(cuts)
    BY <1>11, <1>13, <1>14
  <2>2. r.resumeOffset = cuts[Len(r.columns) + 1] /\ r.resumeOffset <= Len(bytes)
    BY <1>7, <1>13, <1>14 DEF l
  <2>3. \A i \in 1 .. Len(r.columns) : r.columns[i] = SubSeq(bytes, cuts[i] + 1, cuts[i + 1])
    BY <1>12, <1>13, <1>14
  <2> QED BY <1>13, <2>1, <2>2, <2>3 DEF IsPartial
<1>16. IsWhole(cuts, r) <=> n = k
  BY <1>1, <1>9, <1>13, <1>14 DEF IsWhole
<1>17. cuts[Len(cuts)] = cuts[c + 1 + k]
  BY <1>1, CutsFacts
<1>18. n = k <=> cuts[Len(cuts)] <= l
  <2>1. CASE k = 0
    BY <1>5, <1>7, <1>17, <2>1
  <2>2. CASE k # 0
    <3>1. k \in 1 .. k
      BY <1>1, <2>2
    <3>2. k \in got <=> cuts[c + 1 + k] <= l
      BY <1>3, <3>1
    <3>3. k \in got <=> n = k
      BY <1>1, <1>5, <2>2
    <3> QED BY <1>17, <3>2, <3>3
  <2> QED BY <2>1, <2>2
<1>19. IsWhole(cuts, r) => r.resumeOffset = cuts[Len(cuts)]
  BY <1>13, <1>16, <1>17
<1> QED BY <1>15, <1>16, <1>18, <1>19 DEF r, l

\* An attempt is whole exactly when the bytes reach to the end of the block, and then
\* says where that is.
LEMMA AttemptDecodes ==
  ASSUME NEW S, NEW cuts, IsCuts(cuts), NEW bytes \in Seq(S), NEW p, IsPartial(S, p, bytes, cuts)
  PROVE  LET r == Attempt(bytes, cuts, p)
         IN /\ IsPartial(S, r, bytes, cuts)
            /\ IsWhole(cuts, r) <=> cuts[Len(cuts)] <= Len(bytes)
            /\ IsWhole(cuts, r) => r.resumeOffset = cuts[Len(cuts)]
<1>1. Len(bytes) \in Nat
  BY LenProperties
<1>2. CASE p.header = TRUE
  BY <1>2, AdvanceDecodes DEF Attempt
<1>3. CASE p.header # TRUE
  <2>1. p = NoPartial /\ ~p.header
    BY <1>3 DEF IsPartial, NoPartial
  <2>2. CASE cuts[1] <= Len(bytes)
    <3> DEFINE h == HeaderOnly(cuts)
    <3>1. h.header = TRUE /\ h.columns = <<>> /\ h.resumeOffset = cuts[1]
      BY DEF HeaderOnly
    <3>2. IsPartial(S, h, bytes, cuts)
      BY <2>2, <3>1, CutsFacts, EmptySeq DEF IsPartial
    <3>3. Attempt(bytes, cuts, p) = Advance(bytes, cuts, h)
      BY <2>1, <2>2 DEF Attempt
    <3> HIDE DEF h
    <3>4. LET r == Advance(bytes, cuts, h)
          IN /\ IsPartial(S, r, bytes, cuts)
             /\ IsWhole(cuts, r) <=> cuts[Len(cuts)] <= Len(bytes)
             /\ IsWhole(cuts, r) => r.resumeOffset = cuts[Len(cuts)]
      BY <3>1, <3>2, AdvanceDecodes
    <3> QED BY <3>3, <3>4
  <2>3. CASE ~(cuts[1] <= Len(bytes))
    <3>1. Attempt(bytes, cuts, p) = NoPartial
      BY <2>1, <2>3 DEF Attempt
    <3>2. ~IsWhole(cuts, NoPartial)
      BY DEF IsWhole, NoPartial
    <3>3. ~(cuts[Len(cuts)] <= Len(bytes))
      BY <1>1, <2>3, CutsFacts, SMTT(60)
    <3> QED BY <3>1, <3>2, <3>3 DEF IsPartial
  <2> QED BY <2>2, <2>3
<1> QED BY <1>2, <1>3

\* The same over the bytes that an earlier attempt has seen and a chunk more.
LEMMA AttemptResumes ==
  ASSUME NEW S, NEW cuts, IsCuts(cuts), NEW g \in Seq(S), NEW chunk \in Seq(S),
         NEW p, IsPartial(S, p, g, cuts)
  PROVE  LET r == Attempt(g \o chunk, cuts, p)
         IN /\ IsPartial(S, r, g \o chunk, cuts)
            /\ IsWhole(cuts, r) <=> cuts[Len(cuts)] <= Len(g \o chunk)
            /\ IsWhole(cuts, r) => r.resumeOffset = cuts[Len(cuts)]
<1>1. g \o chunk \in Seq(S) /\ IsPartial(S, p, g \o chunk, cuts)
  BY ConcatProperties, PartialExtends
<1> QED BY <1>1, AttemptDecodes
=============================================================================

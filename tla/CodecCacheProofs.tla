-------------------------- MODULE CodecCacheProofs --------------------------
(***************************************************************************)
(* Theorems about CodecCache, for every set of types, every nesting of     *)
(* them and every limit: the cache holds what was used last.               *)
(*                                                                         *)
(* CacheSound relates the cache to the order of use, and is preserved by   *)
(* an insertion only if the type is not in the cache by then.  It was not  *)
(* when its codec was begun; that nothing has put it in since is so        *)
(* because the types being built around each other are never the same.     *)
(***************************************************************************)
EXTENDS CodecCache, Integers, SequenceTheorems, TLAPS

Distinct(keys) == \A i, j \in 1 .. Len(keys) : keys[i] = keys[j] => i = j
IsKeys(keys) == keys \in Seq(CacheTypes) /\ Distinct(keys)

\* Where the cache begins in the order of use.
Start == IF Len(recency) > CacheLimit THEN Len(recency) - CacheLimit ELSE 0

LEMMA KeysFacts ==
  ASSUME NEW keys, IsKeys(keys)
  PROVE  /\ keys \in Seq(CacheTypes) /\ Len(keys) \in Nat /\ DOMAIN keys = 1 .. Len(keys)
         /\ \A i \in 1 .. Len(keys) : keys[i] \in CacheTypes
         /\ \A type : Holds(keys, type) <=> \E i \in 1 .. Len(keys) : keys[i] = type
<1>1. keys \in Seq(CacheTypes)
  BY DEF IsKeys
<1>2. Len(keys) \in Nat /\ DOMAIN keys = 1 .. Len(keys)
  BY <1>1, LenProperties
<1>3. \A i \in 1 .. Len(keys) : keys[i] \in CacheTypes
  BY <1>1, ElementOfSeq
<1> QED BY <1>1, <1>2, <1>3 DEF Holds

\* A type taken out and put in at the end: what was behind it has moved up.
LEMMA Renewed ==
  ASSUME NEW keys, IsKeys(keys), NEW p \in 1 .. Len(keys)
  PROVE  /\ IsKeys(Reinserted(keys, keys[p]))
         /\ Len(Reinserted(keys, keys[p])) = Len(keys)
         /\ \A i \in 1 .. Len(keys) : Reinserted(keys, keys[p])[i] =
              IF i < p THEN keys[i] ELSE IF i < Len(keys) THEN keys[i + 1] ELSE keys[p]
<1> DEFINE n == Len(keys)
           type == keys[p]
           low == SubSeq(keys, 1, p - 1)
           high == SubSeq(keys, p + 1, n)
           without == low \o high
           new == Reinserted(keys, type)
<1>1. /\ keys \in Seq(CacheTypes) /\ n \in Nat /\ DOMAIN keys = 1 .. n /\ Holds(keys, type)
      /\ \A i \in 1 .. n : keys[i] \in CacheTypes
      /\ \A i, j \in 1 .. n : keys[i] = keys[j] => i = j
      /\ type \in CacheTypes
  BY KeysFacts DEF IsKeys, Distinct
<1>2. PlaceOf(keys, type) = p
  <2> HIDE DEF n
  <2>1. p \in DOMAIN keys /\ keys[p] = type
    BY <1>1 DEF n
  <2>2. \A i \in DOMAIN keys : keys[i] = type => i = p
    BY <1>1 DEF n
  <2> QED BY <2>1, <2>2 DEF PlaceOf
<1>3. new = Append(without, type)
  BY <1>1, <1>2 DEF Reinserted, Without
<1>4. /\ low \in Seq(CacheTypes) /\ Len(low) = p - 1
      /\ \A i \in 1 .. p - 1 : low[i] = keys[i]
  <2>1. \A i \in 1 .. p - 1 : keys[i] \in CacheTypes
    BY <1>1
  <2>2. /\ low \in Seq(CacheTypes)
        /\ Len(low) = IF 1 <= p - 1 THEN (p - 1) - 1 + 1 ELSE 0
        /\ \A i \in 1 .. (p - 1) - 1 + 1 : low[i] = keys[1 + i - 1]
    BY <2>1, SubSeqProperties
  <2> QED BY <2>2
<1>5. /\ high \in Seq(CacheTypes) /\ Len(high) = n - p
      /\ \A i \in 1 .. n - p : high[i] = keys[p + i]
  <2> HIDE DEF n
  <2>1. \A i \in p + 1 .. n : keys[i] \in CacheTypes
    BY <1>1
  <2>2. /\ high \in Seq(CacheTypes)
        /\ Len(high) = IF p + 1 <= n THEN n - (p + 1) + 1 ELSE 0
        /\ \A i \in 1 .. n - (p + 1) + 1 : high[i] = keys[p + 1 + i - 1]
    BY <1>1, <2>1, SubSeqProperties
  <2>3. p \in Nat /\ 1 <= p /\ p <= n
    BY DEF n
  <2> HIDE DEF high
  <2>4. Len(high) = n - p
    BY <1>1, <2>2, <2>3
  <2>5. \A i \in 1 .. n - p : i \in 1 .. n - (p + 1) + 1 /\ p + 1 + i - 1 = p + i
    BY <1>1, <2>3
  <2> QED BY <2>2, <2>4, <2>5
<1> HIDE DEF n, low, high
<1>6. p \in Nat /\ 1 <= p /\ p <= n
  BY DEF n
<1>7. /\ without \in Seq(CacheTypes) /\ Len(without) = n - 1
      /\ \A i \in 1 .. n - 1 : without[i] = IF i < p THEN keys[i] ELSE keys[i + 1]
  <2>1. /\ without \in Seq(CacheTypes) /\ Len(without) = Len(low) + Len(high)
        /\ \A i \in 1 .. Len(low) + Len(high) : without[i] = IF i <= Len(low) THEN low[i] ELSE high[i - Len(low)]
    BY <1>4, <1>5, ConcatProperties
  <2>2. Len(low) + Len(high) = n - 1
    BY <1>1, <1>4, <1>5, <1>6
  <2> HIDE DEF without
  <2>3. \A i \in 1 .. n - 1 : without[i] = IF i < p THEN keys[i] ELSE keys[i + 1]
    <3> TAKE i \in 1 .. n - 1
    <3>1. CASE i < p
      <4>1. i \in 1 .. p - 1 /\ i <= Len(low)
        BY <1>4, <1>6, <3>1
      <4> QED BY <1>4, <2>1, <2>2, <3>1, <4>1
    <3>2. CASE ~(i < p)
      <4>1. ~(i <= Len(low)) /\ i - Len(low) \in 1 .. n - p /\ p + (i - Len(low)) = i + 1
        BY <1>1, <1>4, <1>6, <3>2
      <4> QED BY <1>5, <2>1, <2>2, <3>2, <4>1
    <3> QED BY <3>1, <3>2
  <2> QED BY <2>1, <2>2, <2>3
<1> HIDE DEF without, type
<1>8. /\ new \in Seq(CacheTypes) /\ Len(new) = n
      /\ \A i \in 1 .. n : new[i] = IF i < p THEN keys[i] ELSE IF i < n THEN keys[i + 1] ELSE type
  <2>1. /\ Append(without, type) \in Seq(CacheTypes) /\ Len(Append(without, type)) = Len(without) + 1
        /\ \A i \in 1 .. Len(without) : Append(without, type)[i] = without[i]
        /\ Append(without, type)[Len(without) + 1] = type
    BY <1>1, <1>7, AppendProperties
  <2> HIDE DEF new
  <2>2. Len(without) + 1 = n
    BY <1>1, <1>7
  <2>3. \A i \in 1 .. n : new[i] = IF i < p THEN keys[i] ELSE IF i < n THEN keys[i + 1] ELSE type
    <3> TAKE i \in 1 .. n
    <3>1. CASE i < n
      <4>1. i \in 1 .. n - 1 /\ i \in 1 .. Len(without)
        BY <1>1, <1>7, <3>1
      <4> QED BY <1>3, <1>7, <2>1, <3>1, <4>1
    <3>2. CASE ~(i < n)
      <4>1. i = n /\ ~(i < p)
        BY <1>1, <1>6, <3>2
      <4> QED BY <1>3, <2>1, <2>2, <3>2, <4>1
    <3> QED BY <3>1, <3>2
  <2> QED BY <1>3, <2>1, <2>2, <2>3
<1> HIDE DEF new
<1>9. Distinct(new)
  <2>1. SUFFICES ASSUME NEW i \in 1 .. n, NEW j \in 1 .. n, new[i] = new[j]
                 PROVE  i = j
    BY <1>8 DEF Distinct
  <2> DEFINE at(k) == IF k < p THEN k ELSE IF k < n THEN k + 1 ELSE p
  <2>2. \A k \in 1 .. n : at(k) \in 1 .. n /\ new[k] = keys[at(k)]
    BY <1>1, <1>6, <1>8 DEF type
  <2>3. at(i) = at(j)
    BY <1>1, <2>1, <2>2
  <2>4. n \in Nat
    BY <1>1
  <2> QED BY <1>6, <2>3, <2>4
<1> QED BY <1>8, <1>9 DEF IsKeys, new, n, type

\* A type that was not there, put in at the end.
LEMMA Added ==
  ASSUME NEW keys, IsKeys(keys), NEW type \in CacheTypes, ~Holds(keys, type)
  PROVE  /\ IsKeys(Append(keys, type)) /\ Len(Append(keys, type)) = Len(keys) + 1
         /\ Reinserted(keys, type) = Append(keys, type)
         /\ \A i \in 1 .. Len(keys) : Append(keys, type)[i] = keys[i]
         /\ Append(keys, type)[Len(keys) + 1] = type
<1> DEFINE n == Len(keys)
           new == Append(keys, type)
<1>1. /\ keys \in Seq(CacheTypes) /\ n \in Nat
      /\ \A i \in 1 .. n : keys[i] # type
      /\ \A i, j \in 1 .. n : keys[i] = keys[j] => i = j
  BY KeysFacts DEF IsKeys, Distinct
<1>2. /\ new \in Seq(CacheTypes) /\ Len(new) = n + 1
      /\ \A i \in 1 .. n : new[i] = keys[i]
      /\ new[n + 1] = type
  BY <1>1, AppendProperties
<1> HIDE DEF new, n
<1>3. Distinct(new)
  <2>1. SUFFICES ASSUME NEW i \in 1 .. n + 1, NEW j \in 1 .. n + 1, new[i] = new[j]
                 PROVE  i = j
    BY <1>2 DEF Distinct
  <2>2. i \in 1 .. n \/ i = n + 1
    BY <1>1
  <2>3. j \in 1 .. n \/ j = n + 1
    BY <1>1
  <2> QED BY <1>1, <1>2, <2>1, <2>2, <2>3
<1>4. Reinserted(keys, type) = new
  BY DEF Reinserted, Without, new
<1> QED BY <1>2, <1>3, <1>4 DEF IsKeys, new, n
-----------------------------------------------------------------------------
\* The cache and the order of use.
CacheOK ==
  /\ IsKeys(cache) /\ IsKeys(recency)
  /\ Len(cache) = Len(recency) - Start
  /\ \A i \in 1 .. Len(cache) : cache[i] = recency[Start + i]

LEMMA StartFacts ==
  ASSUME IsKeys(recency)
  PROVE  /\ Start \in Nat /\ Start <= Len(recency) /\ Len(recency) - Start <= CacheLimit
         /\ Start = 0 \/ Len(recency) - Start = CacheLimit
<1>1. Len(recency) \in Nat /\ CacheLimit \in Nat
  BY KeysFacts, CacheAssumption
<1> QED BY <1>1 DEF Start

LEMMA CacheIsSound ==
  ASSUME CacheOK
  PROVE  CacheSound
<1> DEFINE n == Len(recency)
           s == Start
           old == SubSeq(recency, s + 1, n)
<1>1. /\ recency \in Seq(CacheTypes) /\ n \in Nat /\ \A i \in 1 .. n : recency[i] \in CacheTypes
      /\ cache \in Seq(CacheTypes) /\ Len(cache) \in Nat
  BY KeysFacts DEF CacheOK
<1>2. s \in Nat /\ s <= n
  BY StartFacts DEF CacheOK
<1> HIDE DEF n, s
<1>3. \A i \in s + 1 .. n : recency[i] \in CacheTypes
  BY <1>1, <1>2
<1>4. /\ old \in Seq(CacheTypes) /\ Len(old) = n - s
      /\ \A i \in 1 .. n - s : old[i] = recency[s + i]
  <2>1. s + 1 \in Int /\ n \in Int
    BY <1>1, <1>2
  <2>2. /\ old \in Seq(CacheTypes)
        /\ Len(old) = IF s + 1 <= n THEN n - (s + 1) + 1 ELSE 0
        /\ \A i \in 1 .. n - (s + 1) + 1 : old[i] = recency[s + 1 + i - 1]
    BY <1>1, <1>3, <2>1, SubSeqProperties
  <2> HIDE DEF old
  <2>3. \A i \in 1 .. n - s : i \in 1 .. n - (s + 1) + 1 /\ s + 1 + i - 1 = s + i
    BY <1>1, <1>2
  <2>4. (IF s + 1 <= n THEN n - (s + 1) + 1 ELSE 0) = n - s
    BY <1>1, <1>2
  <2>5. Len(old) = n - s
    BY <2>2, <2>4
  <2> QED BY <2>2, <2>3, <2>5
<1> HIDE DEF old
<1>5. Len(cache) = n - s /\ \A i \in 1 .. n - s : cache[i] = recency[s + i]
  BY DEF CacheOK, n, s
<1>6. cache = old
  BY <1>1, <1>4, <1>5, SeqEqual
<1>7. s + 1 = 1 + s
  BY <1>2
<1> QED BY <1>6, <1>7 DEF CacheSound, Start, old, n, s

\* A hit moves its type to the end of both.
LEMMA HitKeeps ==
  ASSUME CacheOK, NEW type, Holds(cache, type), Hit(type)
  PROVE  CacheOK' /\ \A t : Holds(cache', t) => Holds(cache, t)
<1> DEFINE n == Len(recency)
           m == Len(cache)
           s == Start
<1>1. /\ IsKeys(cache) /\ IsKeys(recency) /\ m \in Nat /\ n \in Nat /\ s \in Nat
      /\ m = n - s /\ \A i \in 1 .. m : cache[i] = recency[s + i]
  BY KeysFacts, StartFacts DEF CacheOK
<1>2. PICK j \in 1 .. m : cache[j] = type
  BY <1>1, KeysFacts
<1> HIDE DEF n, m, s
<1>3. s + j \in 1 .. n /\ recency[s + j] = type
  BY <1>1, <1>2
<1>4. /\ IsKeys(cache') /\ Len(cache') = m
      /\ \A i \in 1 .. m : cache'[i] = IF i < j THEN cache[i] ELSE IF i < m THEN cache[i + 1] ELSE type
  BY <1>1, <1>2, Renewed DEF Hit, m
<1>5. /\ IsKeys(recency') /\ Len(recency') = n
      /\ \A i \in 1 .. n : recency'[i] =
           IF i < s + j THEN recency[i] ELSE IF i < n THEN recency[i + 1] ELSE type
  BY <1>1, <1>3, Renewed DEF Hit, n
<1>6. Start' = s
  BY <1>5 DEF Start, s, n
<1>7. \A i \in 1 .. m : cache'[i] = recency'[s + i]
  <2> TAKE i \in 1 .. m
  <2>1. s + i \in 1 .. n /\ (s + i < s + j <=> i < j) /\ (s + i < n <=> i < m)
    BY <1>1, <1>2
  <2>2. i < m => i + 1 \in 1 .. m /\ s + (i + 1) = (s + i) + 1
    BY <1>1
  <2> QED BY <1>1, <1>4, <1>5, <2>1, <2>2
<1>8. CacheOK'
  BY <1>1, <1>4, <1>5, <1>6, <1>7 DEF CacheOK
<1>9. ASSUME NEW t, Holds(cache', t)
      PROVE  Holds(cache, t)
  <2>1. PICK i \in 1 .. m : cache'[i] = t
    BY <1>4, <1>9, KeysFacts
  <2>2. \E k \in 1 .. m : cache[k] = t
    <3>1. i < m => i + 1 \in 1 .. m
      BY <1>1
    <3> QED BY <1>2, <1>4, <2>1, <3>1
  <2> QED BY <1>1, <2>2, KeysFacts DEF m
<1> QED BY <1>8, <1>9

\* The first key dropped.
LEMMA Dropped ==
  ASSUME NEW keys, IsKeys(keys), Len(keys) > 0
  PROVE  /\ IsKeys(Tail(keys)) /\ Len(Tail(keys)) = Len(keys) - 1
         /\ \A i \in 1 .. Len(keys) - 1 : Tail(keys)[i] = keys[i + 1]
<1> DEFINE n == Len(keys)
           rest == Tail(keys)
<1>1. /\ keys \in Seq(CacheTypes) /\ n \in Nat /\ n > 0 /\ keys # <<>>
      /\ \A i, j \in 1 .. n : keys[i] = keys[j] => i = j
  BY KeysFacts, EmptySeq DEF IsKeys, Distinct
<1>2. /\ rest \in Seq(CacheTypes) /\ Len(rest) = n - 1
      /\ \A i \in 1 .. Len(rest) : rest[i] = keys[i + 1]
  BY <1>1, HeadTailProperties
<1> HIDE DEF rest, n
<1>3. Distinct(rest)
  <2>1. SUFFICES ASSUME NEW i \in 1 .. n - 1, NEW j \in 1 .. n - 1, rest[i] = rest[j]
                 PROVE  i = j
    BY <1>2 DEF Distinct
  <2>2. i + 1 \in 1 .. n /\ j + 1 \in 1 .. n
    BY <1>1
  <2>3. i + 1 = j + 1
    BY <1>1, <1>2, <2>1, <2>2
  <2> QED BY <2>3
<1> QED BY <1>2, <1>3 DEF IsKeys, rest, n

\* An insertion puts its type at the end of both, and evicts what is then too old.
LEMMA InsertKeeps ==
  ASSUME CacheOK, NEW type \in CacheTypes, ~Holds(cache, type), Inserted(type)
  PROVE  CacheOK' /\ \A t : Holds(cache', t) => Holds(cache, t) \/ t = type
<1> DEFINE n == Len(recency)
           m == Len(cache)
           s == Start
           full == Append(cache, type)
<1>1. /\ IsKeys(cache) /\ IsKeys(recency) /\ m \in Nat /\ n \in Nat /\ s \in Nat
      /\ m = n - s /\ \A i \in 1 .. m : cache[i] = recency[s + i]
      /\ m <= CacheLimit /\ (s = 0 \/ m = CacheLimit)
      /\ CacheLimit \in Nat /\ CacheLimit > 0
  BY KeysFacts, StartFacts, CacheAssumption DEF CacheOK
<1>2. \A i \in 1 .. m : cache[i] # type
  BY <1>1, KeysFacts
<1>3. /\ IsKeys(full) /\ Len(full) = m + 1 /\ full[m + 1] = type
      /\ \A i \in 1 .. m : full[i] = cache[i]
  BY <1>1, Added
<1>4. cache' = IF m + 1 > CacheLimit THEN Tail(full) ELSE full
  BY <1>3 DEF Inserted, Evicted
<1>5. /\ IsKeys(Tail(full)) /\ Len(Tail(full)) = m
      /\ \A i \in 1 .. m : Tail(full)[i] = full[i + 1]
  <2>1. Len(full) > 0 /\ Len(full) - 1 = m
    BY <1>1, <1>3
  <2> QED BY <1>3, <2>1, Dropped
<1>6. recency' = Reinserted(recency, type)
  BY DEF Inserted
<1> HIDE DEF n, m, s, full
<1>7. ASSUME Holds(recency, type)
      PROVE  CacheOK'
  <2>1. PICK j \in 1 .. n : recency[j] = type
    BY <1>1, <1>7, KeysFacts DEF n
  <2>2. j <= s /\ s > 0
    <3>1. ~(j > s)
      <4>1. SUFFICES ASSUME j > s PROVE FALSE
        OBVIOUS
      <4>2. j - s \in 1 .. m /\ s + (j - s) = j
        BY <1>1, <4>1
      <4> QED BY <1>1, <1>2, <2>1, <4>2
    <3> QED BY <1>1, <3>1
  <2>3. m = CacheLimit /\ cache' = Tail(full)
    BY <1>1, <1>4, <2>2
  <2>4. /\ IsKeys(recency') /\ Len(recency') = n
        /\ \A i \in 1 .. n : recency'[i] =
             IF i < j THEN recency[i] ELSE IF i < n THEN recency[i + 1] ELSE type
    BY <1>1, <1>6, <2>1, Renewed DEF n
  <2>5. Start' = s
    BY <2>4 DEF Start, s, n
  <2>6. \A i \in 1 .. m : cache'[i] = recency'[s + i]
    <3> TAKE i \in 1 .. m
    <3>1. s + i \in 1 .. n /\ ~(s + i < j) /\ (s + i < n <=> i < m)
      BY <1>1, <2>2
    <3>2. CASE i < m
      <4>1. i + 1 \in 1 .. m /\ s + (i + 1) = (s + i) + 1
        BY <1>1, <3>2
      <4>2. cache'[i] = full[i + 1] /\ full[i + 1] = cache[i + 1]
        BY <1>3, <1>5, <2>3, <4>1
      <4>3. cache[i + 1] = recency[(s + i) + 1]
        BY <1>1, <4>1
      <4> QED BY <2>4, <3>1, <3>2, <4>2, <4>3
    <3>3. CASE ~(i < m)
      <4>1. i = m
        BY <1>1, <3>3
      <4> QED BY <1>3, <1>5, <2>3, <2>4, <3>1, <3>3, <4>1
    <3> QED BY <3>2, <3>3
  <2>7. IsKeys(cache') /\ Len(cache') = m /\ m = n - s
    BY <1>1, <1>5, <2>3
  <2> QED BY <2>4, <2>5, <2>6, <2>7 DEF CacheOK
<1>8. ASSUME ~Holds(recency, type)
      PROVE  CacheOK'
  <2>1. /\ IsKeys(recency') /\ Len(recency') = n + 1 /\ recency'[n + 1] = type
        /\ \A i \in 1 .. n : recency'[i] = recency[i]
    <3>1. recency' = Append(recency, type)
      BY <1>1, <1>6, <1>8, Added
    <3> QED BY <1>1, <1>8, <3>1, Added DEF n
  <2>2. CASE m + 1 > CacheLimit
    <3>1. m = CacheLimit /\ cache' = Tail(full)
      BY <1>1, <1>4, <2>2
    <3>2. Start' = s + 1
      <4>1. Start' = IF n + 1 > CacheLimit THEN (n + 1) - CacheLimit ELSE 0
        BY <2>1 DEF Start
      <4> QED BY <1>1, <2>2, <4>1
    <3>3. \A i \in 1 .. m : cache'[i] = recency'[s + 1 + i]
      <4> TAKE i \in 1 .. m
      <4>1. CASE i < m
        <5>1. i + 1 \in 1 .. m /\ s + (i + 1) = s + 1 + i /\ s + 1 + i \in 1 .. n
          BY <1>1, <4>1
        <5>2. cache'[i] = cache[i + 1] /\ cache[i + 1] = recency[s + (i + 1)]
          BY <1>1, <1>3, <1>5, <3>1, <5>1
        <5> QED BY <2>1, <5>1, <5>2
      <4>2. CASE ~(i < m)
        <5>1. i = m /\ s + 1 + i = n + 1
          BY <1>1, <4>2
        <5> QED BY <1>3, <1>5, <2>1, <3>1, <5>1
      <4> QED BY <4>1, <4>2
    <3>4. m = (n + 1) - (s + 1)
      BY <1>1
    <3>5. IsKeys(cache') /\ Len(cache') = m
      BY <1>5, <3>1
    <3> QED BY <2>1, <3>2, <3>3, <3>4, <3>5 DEF CacheOK
  <2>3. CASE ~(m + 1 > CacheLimit)
    <3>1. s = 0 /\ m = n /\ cache' = full
      BY <1>1, <1>4, <2>3
    <3>2. Start' = 0
      <4>1. Start' = IF n + 1 > CacheLimit THEN (n + 1) - CacheLimit ELSE 0
        BY <2>1 DEF Start
      <4> QED BY <1>1, <2>3, <3>1, <4>1
    <3>3. \A i \in 1 .. m + 1 : cache'[i] = recency'[0 + i]
      <4> TAKE i \in 1 .. m + 1
      <4>1. CASE i \in 1 .. m
        <5>1. 0 + i = i /\ s + i = i
          BY <3>1, <4>1
        <5>2. cache'[i] = recency[i]
          BY <1>1, <1>3, <3>1, <4>1, <5>1
        <5> QED BY <2>1, <3>1, <4>1, <5>1, <5>2
      <4>2. CASE i \notin 1 .. m
        <5>1. i = m + 1 /\ 0 + i = n + 1
          BY <1>1, <3>1, <4>2
        <5> QED BY <1>3, <2>1, <3>1, <5>1
      <4> QED BY <4>1, <4>2
    <3>4. m + 1 = (n + 1) - 0
      BY <1>1, <3>1
    <3>5. IsKeys(cache') /\ Len(cache') = m + 1
      BY <1>3, <3>1
    <3>6. IsKeys(recency') /\ Len(recency') = n + 1
      BY <2>1
    <3>7. Len(cache') = Len(recency') - Start'
      BY <3>2, <3>4, <3>5, <3>6
    <3>8. \A i \in 1 .. Len(cache') : cache'[i] = recency'[Start' + i]
      BY <3>2, <3>3, <3>5
    <3> QED BY <3>5, <3>6, <3>7, <3>8 DEF CacheOK
  <2> QED BY <2>2, <2>3
<1>9. ASSUME NEW t, Holds(cache', t), t # type
      PROVE  Holds(cache, t)
  <2>1. PICK i \in 1 .. m + 1 : full[i] = t
    <3>1. CASE cache' = full
      BY <1>1, <1>3, <1>9, <3>1, KeysFacts
    <3>2. CASE cache' = Tail(full)
      <4>1. PICK k \in 1 .. m : cache'[k] = t
        BY <1>5, <1>9, <3>2, KeysFacts, ZenonT(60)
      <4>2. k + 1 \in 1 .. m + 1 /\ full[k + 1] = t
        BY <1>1, <1>5, <3>2, <4>1
      <4> QED BY <4>2
    <3> QED BY <1>4, <3>1, <3>2
  <2>2. i \in 1 .. m
    BY <1>1, <1>3, <1>9, <2>1
  <2>3. \E k \in 1 .. Len(cache) : cache[k] = t
    BY <1>3, <2>1, <2>2 DEF m
  <2> QED BY <1>1, <2>3, KeysFacts
<1> QED BY <1>7, <1>8, <1>9
-----------------------------------------------------------------------------
Frames == [type : CacheTypes, left : Seq(CacheTypes)]

\* Codecs being built around each other are of ever smaller types, down to the
\* ones still to be looked up, and none of them is in the cache.
StackFits(stack, keys) ==
  /\ stack \in Seq(Frames)
  /\ \A i \in 1 .. Len(stack) : ~Holds(keys, stack[i].type)
  /\ \A i \in 1 .. Len(stack) : \A k \in 1 .. Len(stack[i].left) :
       CacheDepth[stack[i].left[k]] < CacheDepth[stack[i].type]
  /\ \A i, j \in 1 .. Len(stack) : i < j => CacheDepth[stack[j].type] < CacheDepth[stack[i].type]

LEMMA FrameFacts ==
  ASSUME NEW stack, NEW keys, StackFits(stack, keys)
  PROVE  /\ Len(stack) \in Nat
         /\ \A i \in 1 .. Len(stack) :
              stack[i] \in Frames /\ stack[i].type \in CacheTypes /\ stack[i].left \in Seq(CacheTypes)
<1>1. stack \in Seq(Frames)
  BY DEF StackFits
<1>2. Len(stack) \in Nat /\ \A i \in 1 .. Len(stack) : stack[i] \in Frames
  BY <1>1, LenProperties, ElementOfSeq
<1> QED BY <1>2 DEF Frames

LEMMA DepthFacts == \A type \in CacheTypes : CacheDepth[type] \in Nat
  BY CacheAssumption

\* Fewer types in the cache: the stack still fits it.
LEMMA StillFits ==
  ASSUME NEW stack, NEW keys, NEW others, StackFits(stack, keys),
         \A i \in 1 .. Len(stack) : ~Holds(others, stack[i].type)
  PROVE  StackFits(stack, others)
  BY DEF StackFits

\* A codec begun inside the others.
LEMMA Begun ==
  ASSUME NEW stack, NEW keys, StackFits(stack, keys), NEW type \in CacheTypes, ~Holds(keys, type),
         \A i \in 1 .. Len(stack) : CacheDepth[type] < CacheDepth[stack[i].type]
  PROVE  StackFits(Append(stack, [type |-> type, left |-> CacheArgs[type]]), keys)
<1> DEFINE n == Len(stack)
           frame == [type |-> type, left |-> CacheArgs[type]]
           new == Append(stack, frame)
<1>1. stack \in Seq(Frames) /\ n \in Nat
  BY FrameFacts DEF StackFits
<1>2. frame \in Frames /\ frame.type = type /\ frame.left = CacheArgs[type]
  BY CacheAssumption DEF Frames
<1>3. \A k \in 1 .. Len(frame.left) : CacheDepth[frame.left[k]] < CacheDepth[frame.type]
  BY <1>2, CacheAssumption
<1> HIDE DEF frame
<1>4. /\ new \in Seq(Frames) /\ Len(new) = n + 1
      /\ \A i \in 1 .. n : new[i] = stack[i]
      /\ new[n + 1] = frame
  BY <1>1, <1>2, AppendProperties
<1> HIDE DEF new, n
<1>5. \A i \in 1 .. n + 1 : i \in 1 .. n \/ i = n + 1
  BY <1>1
<1>6. /\ \A i \in 1 .. n : ~Holds(keys, stack[i].type)
      /\ \A i \in 1 .. n : \A k \in 1 .. Len(stack[i].left) :
           CacheDepth[stack[i].left[k]] < CacheDepth[stack[i].type]
      /\ \A i, j \in 1 .. n : i < j => CacheDepth[stack[j].type] < CacheDepth[stack[i].type]
      /\ \A i \in 1 .. n : CacheDepth[type] < CacheDepth[stack[i].type]
  BY DEF StackFits, n
<1>7. \A i \in 1 .. n + 1 : ~Holds(keys, new[i].type)
  BY <1>2, <1>4, <1>5, <1>6
<1>8. \A i \in 1 .. n + 1 : \A k \in 1 .. Len(new[i].left) :
        CacheDepth[new[i].left[k]] < CacheDepth[new[i].type]
  BY <1>3, <1>4, <1>5, <1>6
<1>9. \A i, j \in 1 .. n + 1 : i < j => CacheDepth[new[j].type] < CacheDepth[new[i].type]
  <2>1. SUFFICES ASSUME NEW i \in 1 .. n + 1, NEW j \in 1 .. n + 1, i < j
                 PROVE  CacheDepth[new[j].type] < CacheDepth[new[i].type]
    OBVIOUS
  <2>2. i \in 1 .. n
    BY <1>1, <2>1
  <2>3. CASE j \in 1 .. n
    BY <1>4, <1>6, <2>1, <2>2, <2>3
  <2>4. CASE j = n + 1
    BY <1>2, <1>4, <1>6, <2>2, <2>4
  <2> QED BY <1>5, <2>3, <2>4
<1> QED BY <1>4, <1>7, <1>8, <1>9 DEF StackFits, new, frame

LEMMA LookupKeeps ==
  ASSUME CacheOK, NEW type \in CacheTypes, NEW callers, StackFits(callers, cache),
         \A i \in 1 .. Len(callers) : CacheDepth[type] < CacheDepth[callers[i].type],
         Lookup(type, callers)
  PROVE  CacheOK' /\ StackFits(building', cache')
<1>1. CASE Holds(cache, type) /\ Hit(type) /\ building' = callers
  <2>1. CacheOK' /\ \A t : Holds(cache', t) => Holds(cache, t)
    BY <1>1, HitKeeps
  <2>2. \A i \in 1 .. Len(callers) : ~Holds(cache', callers[i].type)
    BY <2>1 DEF StackFits
  <2> QED BY <1>1, <2>1, <2>2, StillFits
<1>2. ASSUME UNCHANGED <<cache, recency>>
      PROVE  CacheOK'
  BY <1>2 DEF CacheOK, Start
<1>3. CASE building' = <<>> /\ UNCHANGED <<cache, recency>>
  <2>1. <<>> \in Seq(Frames) /\ Len(<<>>) = 0
    BY EmptySeq
  <2>2. StackFits(<<>>, cache')
    BY <2>1 DEF StackFits
  <2> QED BY <1>2, <1>3, <2>2
<1>4. CASE /\ ~Holds(cache, type)
           /\ building' = Append(callers, [type |-> type, left |-> CacheArgs[type]])
           /\ UNCHANGED <<cache, recency>>
  BY <1>2, <1>4, Begun
<1> QED BY <1>1, <1>3, <1>4 DEF Lookup

\* The stack with the list of its innermost codec cut down.
Shorter(stack, rest, new) ==
  /\ new \in Seq(Frames) /\ Len(new) = Len(stack)
  /\ \A i \in 1 .. Len(stack) : new[i].type = stack[i].type
  /\ \A i \in 1 .. Len(stack) : new[i].left = IF i = Len(stack) THEN rest ELSE stack[i].left

LEMMA Shortened ==
  ASSUME NEW stack \in Seq(Frames), NEW n \in 1 .. Len(stack), n = Len(stack),
         NEW rest \in Seq(CacheTypes), NEW frame, frame = [stack[n] EXCEPT !.left = rest]
  PROVE  Shorter(stack, rest, [stack EXCEPT ![n] = frame])
<1>1. stack[n] \in [type : CacheTypes, left : Seq(CacheTypes)]
  BY ElementOfSeq DEF Frames
<1>2. frame \in Frames /\ frame.type = stack[n].type /\ frame.left = rest
  BY <1>1 DEF Frames
<1> DEFINE new == [stack EXCEPT ![n] = frame]
<1>3. /\ new \in Seq(Frames) /\ Len(new) = Len(stack)
      /\ \A i \in 1 .. Len(stack) : new[i] = IF i = n THEN frame ELSE stack[i]
  BY <1>2, ExceptSeq
<1> HIDE DEF new
<1>4. \A i \in 1 .. Len(stack) : new[i].type = stack[i].type
  BY <1>2, <1>3
<1>5. ASSUME NEW i \in 1 .. Len(stack)
      PROVE  new[i].left = IF i = n THEN rest ELSE stack[i].left
  <2>1. CASE i = n
    BY <1>2, <1>3, <2>1
  <2>2. CASE i # n
    BY <1>3, <2>2
  <2> QED BY <2>1, <2>2
<1> QED BY <1>3, <1>4, <1>5 DEF Shorter, new

\* The innermost codec takes the next of its parts off its list.
LEMMA Asked ==
  ASSUME StackFits(building, cache), building # <<>>, Innermost.left # <<>>,
         NEW callers, Shorter(building, Tail(Innermost.left), callers)
  PROVE  /\ StackFits(callers, cache) /\ Head(Innermost.left) \in CacheTypes
         /\ \A i \in 1 .. Len(callers) :
              CacheDepth[Head(Innermost.left)] < CacheDepth[callers[i].type]
<1> DEFINE n == Len(building)
           left == Innermost.left
           rest == Tail(left)
<1>1. building \in Seq(Frames) /\ n \in Nat /\ n > 0
  BY FrameFacts, EmptySeq DEF StackFits
<1>2. building[n] \in Frames /\ left \in Seq(CacheTypes) /\ left = building[n].left
  BY <1>1, FrameFacts DEF Innermost
<1>3. /\ rest \in Seq(CacheTypes) /\ Head(left) \in CacheTypes /\ Head(left) = left[1]
      /\ Len(rest) = Len(left) - 1 /\ Len(left) \in Nat /\ Len(left) > 0
      /\ \A k \in 1 .. Len(rest) : rest[k] = left[k + 1]
  BY <1>2, HeadTailProperties, EmptySeq
<1> HIDE DEF n, left, rest
<1>4. /\ Len(callers) = n /\ callers \in Seq(Frames)
      /\ \A i \in 1 .. n : callers[i].type = building[i].type
      /\ \A i \in 1 .. n : callers[i].left = IF i = n THEN rest ELSE building[i].left
  BY DEF Shorter, n, rest, left
<1>5. /\ \A i \in 1 .. n : ~Holds(cache, building[i].type)
      /\ \A i \in 1 .. n : \A k \in 1 .. Len(building[i].left) :
           CacheDepth[building[i].left[k]] < CacheDepth[building[i].type]
      /\ \A i, j \in 1 .. n : i < j => CacheDepth[building[j].type] < CacheDepth[building[i].type]
      /\ \A i \in 1 .. n : CacheDepth[building[i].type] \in Nat
  BY FrameFacts, DepthFacts DEF StackFits, n
<1>6. \A i \in 1 .. n : \A k \in 1 .. Len(callers[i].left) :
        CacheDepth[callers[i].left[k]] < CacheDepth[callers[i].type]
  <2> TAKE i \in 1 .. n
  <2> TAKE k \in 1 .. Len(callers[i].left)
  <2>1. CASE i = n
    <3>1. k \in 1 .. Len(rest) /\ callers[i].left[k] = rest[k]
      BY <1>4, <2>1
    <3>2. k + 1 \in 1 .. Len(building[n].left) /\ rest[k] = building[n].left[k + 1]
      BY <1>2, <1>3, <3>1
    <3> QED BY <1>4, <1>5, <2>1, <3>1, <3>2
  <2>2. CASE i # n
    BY <1>4, <1>5, <2>2
  <2> QED BY <2>1, <2>2
<1>7. StackFits(callers, cache)
  BY <1>4, <1>5, <1>6 DEF StackFits
<1>8. ASSUME NEW i \in 1 .. n
      PROVE  CacheDepth[Head(left)] < CacheDepth[callers[i].type]
  <2>1. CacheDepth[Head(left)] < CacheDepth[building[n].type]
    <3>1. 1 \in 1 .. Len(building[n].left) /\ n \in 1 .. n
      BY <1>1, <1>2, <1>3
    <3> QED BY <1>2, <1>3, <1>5, <3>1
  <2>2. CASE i = n
    BY <1>4, <2>1, <2>2
  <2>3. CASE i < n
    <3>1. /\ CacheDepth[building[n].type] < CacheDepth[building[i].type] /\ n \in 1 .. n
          /\ CacheDepth[building[n].type] \in Nat /\ CacheDepth[building[i].type] \in Nat
      BY <1>1, <1>5, <2>3
    <3>2. CacheDepth[Head(left)] \in Nat
      BY <1>3, DepthFacts
    <3>3. callers[i].type = building[i].type
      BY <1>4
    <3> QED BY <2>1, <3>1, <3>2, <3>3
  <2> QED BY <1>1, <2>2, <2>3
<1> QED BY <1>3, <1>4, <1>7, <1>8 DEF left
-----------------------------------------------------------------------------
CacheInv == CacheOK /\ StackFits(building, cache)

LEMMA CacheStart ==
  ASSUME CacheInit
  PROVE  CacheInv
<1>1. /\ <<>> \in Seq(Frames) /\ <<>> \in Seq(CacheTypes) /\ Len(<<>>) = 0
  BY EmptySeq
<1>2. CacheLimit \in Nat /\ \A i : i \notin 1 .. 0
  BY CacheAssumption
<1>3. IsKeys(<<>>) /\ StackFits(<<>>, <<>>)
  BY <1>1, <1>2 DEF IsKeys, Distinct, StackFits
<1>4. Start = 0
  BY <1>1, <1>2 DEF Start, CacheInit
<1> QED BY <1>1, <1>2, <1>3, <1>4 DEF CacheInv, CacheOK, CacheInit

\* A call from outside finds nothing being built.
LEMMA GetCodecKeeps ==
  ASSUME CacheInv, GetCodec
  PROVE  CacheInv'
<1>1. PICK type \in CacheTypes : Lookup(type, <<>>)
  BY DEF GetCodec
<1>2. StackFits(<<>>, cache)
  BY DEF CacheInv, GetCodec
<1>3. \A i : i \notin 1 .. Len(<<>>)
  BY EmptySeq
<1> QED BY <1>1, <1>2, <1>3, LookupKeeps DEF CacheInv

LEMMA GetPartKeeps ==
  ASSUME CacheInv, GetPart
  PROVE  CacheInv'
<1> DEFINE callers == [building EXCEPT ![Len(building)].left = Tail(@)]
           type == Head(Innermost.left)
<1>1. CacheOK /\ StackFits(building, cache) /\ Lookup(type, callers)
  BY DEF CacheInv, GetPart
<1>2. Shorter(building, Tail(Innermost.left), callers)
  <2> DEFINE n == Len(building)
             frame == [building[n] EXCEPT !.left = Tail(Innermost.left)]
  <2>1. building \in Seq(Frames) /\ n \in 1 .. Len(building)
    BY <1>1, FrameFacts, EmptySeq DEF StackFits, GetPart
  <2>2. Innermost = building[n] /\ Innermost.left \in Seq(CacheTypes)
    BY <1>1, <2>1, FrameFacts DEF Innermost
  <2>3. Tail(Innermost.left) \in Seq(CacheTypes)
    BY <2>2, HeadTailProperties DEF GetPart
  <2>4. callers = [building EXCEPT ![n] = frame]
    BY <2>2
  <2> HIDE DEF frame
  <2>5. n = Len(building) /\ frame = [building[n] EXCEPT !.left = Tail(Innermost.left)]
    BY DEF frame
  <2> QED BY <2>1, <2>3, <2>4, <2>5, Shortened
<1> HIDE DEF callers
<1>3. /\ StackFits(callers, cache) /\ type \in CacheTypes
      /\ \A i \in 1 .. Len(callers) : CacheDepth[type] < CacheDepth[callers[i].type]
  BY <1>1, <1>2, Asked DEF GetPart
<1> HIDE DEF type
<1> QED BY <1>1, <1>3, LookupKeeps DEF CacheInv

\* The codec just made is in none of those around it.
LEMMA CodecBuiltKeeps ==
  ASSUME CacheInv, CodecBuilt
  PROVE  CacheInv'
<1> DEFINE n == Len(building)
           type == Innermost.type
<1>1. /\ CacheOK /\ StackFits(building, cache) /\ Inserted(type)
      /\ building' = SubSeq(building, 1, n - 1) /\ building # <<>>
  BY DEF CacheInv, CodecBuilt, Outermost
<1>2. building \in Seq(Frames) /\ n \in Nat /\ n > 0 /\ n \in 1 .. n
  BY <1>1, FrameFacts, EmptySeq DEF StackFits
<1>3. type = building[n].type /\ type \in CacheTypes /\ ~Holds(cache, type)
  BY <1>1, <1>2, FrameFacts DEF StackFits, Innermost
<1>4. CacheOK' /\ \A t : Holds(cache', t) => Holds(cache, t) \/ t = type
  BY <1>1, <1>3, InsertKeeps
<1>5. /\ building' \in Seq(Frames) /\ Len(building') = n - 1
      /\ \A i \in 1 .. n - 1 : building'[i] = building[i]
  <2>1. \A i \in 1 .. n - 1 : building[i] \in Frames
    BY <1>1, <1>2, FrameFacts
  <2> HIDE DEF n
  <2>2. /\ building' \in Seq(Frames)
        /\ Len(building') = IF 1 <= n - 1 THEN (n - 1) - 1 + 1 ELSE 0
        /\ \A i \in 1 .. (n - 1) - 1 + 1 : building'[i] = building[1 + i - 1]
    BY <1>1, <1>2, <2>1, SubSeqProperties
  <2> QED BY <1>2, <2>2
<1> HIDE DEF n, type
<1>6. /\ \A i \in 1 .. n : ~Holds(cache, building[i].type)
      /\ \A i \in 1 .. n : \A k \in 1 .. Len(building[i].left) :
           CacheDepth[building[i].left[k]] < CacheDepth[building[i].type]
      /\ \A i, j \in 1 .. n : i < j => CacheDepth[building[j].type] < CacheDepth[building[i].type]
      /\ \A i \in 1 .. n : CacheDepth[building[i].type] \in Nat
  BY <1>1, FrameFacts, DepthFacts DEF StackFits, n
<1>7. \A i \in 1 .. n - 1 : i \in 1 .. n /\ i < n
  BY <1>2
<1>8. \A i \in 1 .. n - 1 : ~Holds(cache', building[i].type)
  <2> TAKE i \in 1 .. n - 1
  <2>1. CacheDepth[building[n].type] < CacheDepth[building[i].type]
    BY <1>2, <1>6, <1>7
  <2>2. building[i].type # type
    BY <1>2, <1>3, <1>6, <1>7, <2>1
  <2> QED BY <1>4, <1>6, <1>7, <2>2
<1>9. StackFits(building', cache')
  <2>1. \A i \in 1 .. n - 1 : ~Holds(cache', building'[i].type)
    BY <1>5, <1>8
  <2>2. \A i \in 1 .. n - 1 : \A k \in 1 .. Len(building'[i].left) :
          CacheDepth[building'[i].left[k]] < CacheDepth[building'[i].type]
    BY <1>5, <1>6, <1>7
  <2>3. \A i, j \in 1 .. n - 1 : i < j => CacheDepth[building'[j].type] < CacheDepth[building'[i].type]
    BY <1>5, <1>6, <1>7
  <2> QED BY <1>5, <2>1, <2>2, <2>3 DEF StackFits
<1> QED BY <1>4, <1>9 DEF CacheInv

\* However the lookups nest and whichever of them fails, with any set of types and
\* any limit, the cache holds what was used last, each once and in the order of
\* its use (registry.ts getCodec).
THEOREM CacheIsLru == CacheSpec => []CacheSound
<1>1. CacheInit => CacheInv
  BY CacheStart
<1>2. CacheInv /\ [CacheNext]_cacheVars => CacheInv'
  <2> SUFFICES ASSUME CacheInv, [CacheNext]_cacheVars
               PROVE  CacheInv'
    OBVIOUS
  <2>1. CASE GetCodec
    BY <2>1, GetCodecKeeps
  <2>2. CASE GetPart
    BY <2>2, GetPartKeeps
  <2>3. CASE CodecBuilt
    BY <2>3, CodecBuiltKeeps
  <2>4. CASE UNCHANGED cacheVars
    BY <2>4 DEF cacheVars, CacheInv, CacheOK, Start
  <2> QED BY <2>1, <2>2, <2>3, <2>4 DEF CacheNext
<1>3. CacheInv => CacheSound
  BY CacheIsSound DEF CacheInv
<1> QED BY <1>1, <1>2, <1>3, PTL DEF CacheSpec
=============================================================================

--------------------- MODULE ProcessedMessageCacheProofs ---------------------
(***************************************************************************)
(* What contains() and mark() of common/message_processing.py guarantee,   *)
(* for a cache of any size: the lemmas the proofs about both consumers     *)
(* rest on.                                                                *)
(***************************************************************************)
EXTENDS ProcessedMessageCache, SequenceTheorems, TLAPS

\* A cache whose keys are distinct and which respects its size limit.
GoodCache(cache) == cache \in Caches /\ Len(cache) <= MaxEntries

\* entries.pop(key, None) leaves a cache of distinct keys, without the key.
LEMMA WithoutProperties ==
    ASSUME NEW cache \in Caches, NEW id \in Ids
    PROVE  /\ Without(cache, id) \in Caches
           /\ Cached(Without(cache, id)) = Cached(cache) \ {id}
           /\ Len(Without(cache, id)) =
                  IF id \in Cached(cache) THEN Len(cache) - 1 ELSE Len(cache)
<1>1. CASE id \notin Cached(cache)
  BY <1>1 DEF Without, Cached, Caches
<1>2. CASE id \in Cached(cache)
  <2> DEFINE at == CHOOSE i \in DOMAIN cache : cache[i] = id
             rest == [i \in 1 .. Len(cache) - 1 |->
                         IF i < at THEN cache[i] ELSE cache[i + 1]]
  <2>1. /\ cache \in Seq(Ids)
        /\ DOMAIN cache = 1 .. Len(cache)
        /\ Len(cache) \in Nat
    BY DEF Caches
  <2>2. at \in DOMAIN cache /\ cache[at] = id
    BY <1>2 DEF Cached
  <2>3. Without(cache, id) = rest
    BY <1>2 DEF Without
  <2> HIDE DEF at
  <2>4. at \in 1 .. Len(cache) /\ Len(cache) - 1 \in Nat
    BY <2>1, <2>2
  <2>5. \A i \in 1 .. Len(cache) - 1 : rest[i] \in Ids
    BY <2>1, <2>4, ElementOfSeq
  <2>6. /\ rest \in Seq(Ids)
        /\ Len(rest) = Len(cache) - 1
        /\ DOMAIN rest = 1 .. Len(cache) - 1
    <3>1. rest \in [1 .. Len(cache) - 1 -> Ids]
      BY <2>5
    <3> HIDE DEF rest
    <3>2. rest \in Seq(Ids)
      BY <3>1, <2>4
    <3>3. DOMAIN rest = 1 .. Len(cache) - 1
      BY <3>1
    <3> QED
      BY <3>2, <3>3, <2>4, LenProperties
  <2>7. \A i, j \in DOMAIN cache : cache[i] = cache[j] => i = j
    BY DEF Caches
  <2>8. \A i, j \in DOMAIN rest : rest[i] = rest[j] => i = j
    <3> SUFFICES ASSUME NEW i \in DOMAIN rest, NEW j \in DOMAIN rest,
                        rest[i] = rest[j]
                 PROVE  i = j
      OBVIOUS
    <3> QED
      BY <2>1, <2>4, <2>6, <2>7
  <2>9. Cached(rest) = Cached(cache) \ {id}
    <3>1. ASSUME NEW i \in DOMAIN rest
          PROVE  rest[i] \in Cached(cache) \ {id}
      BY <2>1, <2>2, <2>4, <2>6, <2>7 DEF Cached
    <3>2. ASSUME NEW i \in DOMAIN cache, cache[i] # id
          PROVE  cache[i] \in Cached(rest)
      <4>1. CASE i < at
        <5>1. i \in DOMAIN rest /\ rest[i] = cache[i]
          BY <4>1, <2>1, <2>4, <2>6
        <5> QED
          BY <5>1 DEF Cached
      <4>2. CASE ~ (i < at)
        <5>1. i - 1 \in DOMAIN rest /\ rest[i - 1] = cache[i]
          BY <4>2, <3>2, <2>1, <2>2, <2>4, <2>6
        <5>2. rest[i - 1] \in Cached(rest)
          BY <5>1 DEF Cached
        <5> QED
          BY <5>1, <5>2
      <4> QED
        BY <4>1, <4>2
    <3> HIDE DEF rest
    <3> QED
      BY <3>1, <3>2 DEF Cached
  <2> HIDE DEF rest
  <2> QED
    BY <1>2, <2>3, <2>6, <2>8, <2>9 DEF Caches
<1> QED
  BY <1>1, <1>2

\* Removing the oldest key, as _purge_expired and an eviction do.
LEMMA DropOldestProperties ==
    ASSUME NEW cache \in Caches, cache # <<>>
    PROVE  /\ DropOldest(cache) \in Caches
           /\ Cached(DropOldest(cache)) \subseteq Cached(cache)
           /\ Len(DropOldest(cache)) = Len(cache) - 1
<1>1. cache \in Seq(Ids) /\ Len(cache) \in Nat /\ DOMAIN cache = 1 .. Len(cache)
  BY DEF Caches
<1>2. /\ Tail(cache) \in Seq(Ids)
      /\ Len(Tail(cache)) = Len(cache) - 1
      /\ \A i \in 1 .. Len(Tail(cache)) : Tail(cache)[i] = cache[i + 1]
  BY <1>1, HeadTailProperties
<1>3. DOMAIN Tail(cache) = 1 .. Len(cache) - 1
  BY <1>2, LenProperties
<1>4. \A i, j \in DOMAIN Tail(cache) : Tail(cache)[i] = Tail(cache)[j] => i = j
  BY <1>1, <1>2, <1>3 DEF Caches
<1>5. \A i \in DOMAIN Tail(cache) : Tail(cache)[i] \in Cached(cache)
  BY <1>1, <1>2, <1>3 DEF Cached
<1>6. Cached(Tail(cache)) \subseteq Cached(cache)
  BY <1>5 DEF Cached
<1>7. Tail(cache) \in Caches
  BY <1>2, <1>4 DEF Caches
<1> QED
  BY <1>2, <1>6, <1>7 DEF DropOldest

\* mark() keeps the keys distinct and the cache within its limit, and caches
\* nothing but what was cached before and the marked identity; unless it is
\* full it forgets nothing.
THEOREM MarkProperties ==
    ASSUME NEW cache, GoodCache(cache), NEW id \in Ids \union {NoId}
    PROVE  /\ GoodCache(Mark(cache, id))
           /\ Cached(Mark(cache, id)) \subseteq Cached(cache) \union {id}
           /\ id # NoId => Contains(Mark(cache, id), id)
           /\ ~ Overflows(cache, id) => Cached(cache) \subseteq Cached(Mark(cache, id))
<1> USE DEF GoodCache
<1>1. CASE id = NoId
  BY <1>1 DEF Mark
<1>2. CASE id # NoId
  <2> DEFINE kept == Without(cache, id)
             touched == Touched(cache, id)
  <2>1. /\ id \in Ids
        /\ cache \in Caches
        /\ Len(cache) \in Nat
        /\ MaxEntries \in Nat \ {0}
    BY <1>2, CacheAssumption DEF Caches
  <2>2. /\ kept \in Caches
        /\ Cached(kept) = Cached(cache) \ {id}
        /\ Len(kept) <= Len(cache)
    BY <2>1, WithoutProperties
  <2> HIDE DEF kept
  <2>3. kept \in Seq(Ids) /\ Len(kept) \in Nat /\ DOMAIN kept = 1 .. Len(kept)
    BY <2>2 DEF Caches
  <2>4. touched = Append(kept, id)
    BY DEF Touched, kept
  <2> HIDE DEF touched
  <2>5. /\ touched \in Seq(Ids)
        /\ Len(touched) = Len(kept) + 1
        /\ DOMAIN touched = 1 .. Len(kept) + 1
        /\ \A i \in 1 .. Len(kept) : touched[i] = kept[i]
        /\ touched[Len(kept) + 1] = id
    BY <2>1, <2>3, <2>4, AppendProperties, LenProperties
  <2>6. \A i \in 1 .. Len(kept) : touched[i] # id
    BY <2>2, <2>3, <2>5 DEF Cached
  <2>7. touched \in Caches
    <3> SUFFICES ASSUME NEW i \in DOMAIN touched, NEW j \in DOMAIN touched,
                        touched[i] = touched[j]
                 PROVE  i = j
      BY <2>5 DEF Caches
    <3>1. \A a, b \in 1 .. Len(kept) : kept[a] = kept[b] => a = b
      BY <2>2, <2>3 DEF Caches
    <3> QED
      BY <3>1, <2>3, <2>5, <2>6
  <2>8. Cached(touched) = Cached(kept) \union {id}
    <3>1. ASSUME NEW i \in DOMAIN touched
          PROVE  touched[i] \in Cached(kept) \union {id}
      BY <2>3, <2>5 DEF Cached
    <3>2. ASSUME NEW i \in DOMAIN kept
          PROVE  kept[i] \in Cached(touched)
      <4>1. i \in DOMAIN touched /\ touched[i] = kept[i]
        BY <2>3, <2>5
      <4> QED
        BY <4>1 DEF Cached
    <3>3. id \in Cached(touched)
      <4>1. Len(kept) + 1 \in DOMAIN touched
        BY <2>3, <2>5
      <4> QED
        BY <4>1, <2>5 DEF Cached
    <3> QED
      BY <3>1, <3>2, <3>3 DEF Cached
  <2>9. CASE Len(touched) > MaxEntries
    <3>1. Mark(cache, id) = DropOldest(touched)
      BY <1>2, <2>9 DEF Mark, Overflows, DropOldest, touched
    <3>2. touched # <<>>
      BY <2>3, <2>5
    <3>3. /\ DropOldest(touched) \in Caches
          /\ Cached(DropOldest(touched)) \subseteq Cached(touched)
          /\ Len(DropOldest(touched)) = Len(touched) - 1
      BY <2>7, <3>2, DropOldestProperties
    \* The limit is at least one: the key just marked is not the one evicted.
    <3>4. id \in Cached(DropOldest(touched))
      <4>1. Len(kept) >= 1
        BY <2>1, <2>3, <2>5, <2>9
      <4>2. Tail(touched)[Len(kept)] = touched[Len(kept) + 1]
        BY <4>1, <2>3, <2>5, <3>2, HeadTailProperties
      <4>3. Len(kept) \in DOMAIN Tail(touched)
        BY <4>1, <2>3, <2>5, <3>2, HeadTailProperties, LenProperties
      <4> QED
        BY <4>2, <4>3, <2>5 DEF Cached, DropOldest
    <3> QED
      <4>1. Overflows(cache, id)
        BY <1>2, <2>9 DEF Overflows, touched
      <4> QED
        BY <1>2, <2>1, <2>2, <2>3, <2>5, <2>8, <3>1, <3>3, <3>4, <4>1 DEF Contains
  <2>10. CASE ~ (Len(touched) > MaxEntries)
    <3>1. Mark(cache, id) = touched
      BY <1>2, <2>10 DEF Mark, Overflows, touched
    <3> QED
      BY <1>2, <2>1, <2>2, <2>3, <2>5, <2>7, <2>8, <2>10, <3>1 DEF Contains
  <2> QED
    BY <2>9, <2>10
<1> QED
  BY <1>1, <1>2
=============================================================================

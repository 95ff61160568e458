------------------------ MODULE CachedIterator_proofs ------------------------
(***************************************************************************)
(* Proofs about CachedIterator, for any number of threads and items.       *)
(*                                                                         *)
(* Both rest on the cache being extended only: an add that finds what it   *)
(* expects has read nothing else in between, and a place of the cache,     *)
(* once filled, is the index's to give out to one thread.                  *)
(***************************************************************************)
EXTENDS CachedIterator, SequenceTheorems, TLAPS

-----------------------------------------------------------------------------
(* Prefixes, place by place                                                *)

LEMMA PrefixByPlace ==
  ASSUME NEW S, NEW s \in Seq(S), NEW l \in Seq(S)
  PROVE  IsPrefix(s, l) <=> Len(s) <= Len(l) /\ \A i \in 1 .. Len(s) : s[i] = l[i]
<1> USE LenProperties
<1>1. SubSeq(s, 1, Len(s)) = s
  BY SubSeqFull
<1>2. CASE Len(s) <= Len(l)
  <2> DEFINE front == SubSeq(l, 1, Len(s))
  <2>1. \A i \in 1 .. Len(s) : l[i] \in S
    BY <1>2, ElementOfSeq
  <2>2. /\ front \in Seq(S)
        /\ Len(front) = Len(s)
        /\ \A i \in 1 .. Len(s) : front[i] = l[i]
    BY <2>1, SubSeqProperties
  <2>3. front = s <=> \A i \in 1 .. Len(s) : s[i] = front[i]
    BY <2>2, SeqEqual
  <2>4. QED
    BY <1>1, <1>2, <2>2, <2>3 DEF IsPrefix
<1>3. QED
  BY <1>2 DEF IsPrefix

LEMMA PrefixOfItself ==
  ASSUME NEW S, NEW s \in Seq(S)
  PROVE  IsPrefix(s, s)
BY PrefixByPlace, LenProperties

LEMMA PrefixTransitive ==
  ASSUME NEW S, NEW s \in Seq(S), NEW l \in Seq(S), NEW m \in Seq(S),
         IsPrefix(s, l), IsPrefix(l, m)
  PROVE  IsPrefix(s, m)
<1>1. Len(s) \in Nat /\ Len(l) \in Nat /\ Len(m) \in Nat
  BY LenProperties
<1>2. Len(s) <= Len(l) /\ \A i \in 1 .. Len(s) : s[i] = l[i]
  BY PrefixByPlace
<1>3. Len(l) <= Len(m) /\ \A i \in 1 .. Len(l) : l[i] = m[i]
  BY PrefixByPlace
<1>4. Len(s) <= Len(m) /\ \A i \in 1 .. Len(s) : s[i] = m[i]
  BY <1>1, <1>2, <1>3
<1>5. QED
  BY <1>4, PrefixByPlace

\* What lies between a list and the same list is that list.
LEMMA PrefixAntisymmetric ==
  ASSUME NEW S, NEW s \in Seq(S), NEW l \in Seq(S), IsPrefix(s, l), IsPrefix(l, s)
  PROVE  s = l
<1>1. Len(s) \in Nat /\ Len(l) \in Nat
  BY LenProperties
<1>2. Len(s) = Len(l) /\ \A i \in 1 .. Len(s) : s[i] = l[i]
  BY <1>1, PrefixByPlace
<1>3. QED
  BY <1>2, SeqEqual

LEMMA AppendByPlace ==
  ASSUME NEW S, NEW s \in Seq(S), NEW e \in S
  PROVE  /\ Append(s, e) \in Seq(S)
         /\ Len(s) \in Nat
         /\ Len(Append(s, e)) = Len(s) + 1
         /\ \A i \in 1 .. Len(s) : Append(s, e)[i] = s[i]
         /\ Append(s, e)[Len(s) + 1] = e
BY LenProperties

LEMMA PrefixOfAppend ==
  ASSUME NEW S, NEW s \in Seq(S), NEW e \in S
  PROVE  IsPrefix(s, Append(s, e))
<1> DEFINE l == Append(s, e)
<1>1. /\ l \in Seq(S)
      /\ Len(s) <= Len(l)
      /\ \A i \in 1 .. Len(s) : s[i] = l[i]
  BY AppendByPlace
<1> HIDE DEF l
<1>2. IsPrefix(s, l)
  BY <1>1, PrefixByPlace
<1>3. QED
  BY <1>2 DEF l

LEMMA OneMore ==
  ASSUME NEW n \in Nat, NEW m, m = n + 1, NEW k \in 1 .. m
  PROVE  k \in 1 .. n \/ k = n + 1
OBVIOUS

\* A list without repetition stays one when a new element is appended.
LEMMA AppendIsInjective ==
  ASSUME NEW S, NEW s \in Seq(S), NEW e \in S, IsInjective(s),
         \A i \in 1 .. Len(s) : s[i] # e
  PROVE  IsInjective(Append(s, e))
<1> DEFINE l == Append(s, e)
<1>1. /\ Len(s) \in Nat
      /\ \A i \in 1 .. Len(s) : l[i] = s[i]
      /\ l[Len(s) + 1] = e
  BY AppendByPlace
<1>2. DOMAIN s = 1 .. Len(s) /\ DOMAIN l = 1 .. Len(s) + 1
  BY AppendByPlace, LenProperties
<1> HIDE DEF l
<1>3. ASSUME NEW i \in 1 .. Len(s) + 1, NEW j \in 1 .. Len(s) + 1, l[i] = l[j]
      PROVE  i = j
  <2>1. CASE i \in 1 .. Len(s) /\ j \in 1 .. Len(s)
    BY <1>1, <1>2, <1>3, <2>1 DEF IsInjective
  <2>2. CASE i = Len(s) + 1 \/ j = Len(s) + 1
    BY <1>1, <1>3, <2>2
  <2>3. QED
    BY <1>1, <2>1, <2>2
<1>4. IsInjective(l)
  BY <1>2, <1>3 DEF IsInjective
<1>5. QED
  BY <1>4 DEF l

-----------------------------------------------------------------------------
(* One add                                                                 *)

\* Compare-and-set succeeds only when nothing was added since the first read.
LEMMA AppendsToCache ==
  ASSUME IteratorInvariant, NEW t \in Threads, pc[t] = "cas", cache = expected[t]
  PROVE  current[t] = cache
<1> USE DEF IteratorInvariant, TypeOK, Lists, ReadsArePrefixes
<1>1. IsPrefix(cache, current[t]) /\ IsPrefix(current[t], cache)
  OBVIOUS
<1>2. QED
  BY <1>1, PrefixAntisymmetric

LEMMA CacheGrows ==
  ASSUME IteratorInvariant, NEW t \in Threads, CasAppend(t)
  PROVE  \/ cache' = cache
         \/ cache' = Append(cache, item[t]) /\ item[t] \in 1 .. Items
<1> USE DEF IteratorInvariant, TypeOK, CasAppend
<1>1. item[t] \in 1 .. handed
  BY DEF ItemIsNew, Adding
<1>2. QED
  BY <1>1, AppendsToCache, IteratorAssumption

-----------------------------------------------------------------------------
LEMMA InitEstablishes == Init => IteratorInvariant
BY IteratorAssumption DEF Init, IteratorInvariant, TypeOK, Steps, Answers, Lists, CacheIsOfItems,
   ReadsArePrefixes, ItemIsNew, PlaceIsMine, Adding, DeliveredWasCached, NoItemTwice, IsInjective

\* Steps that move a thread to where it claims nothing.
LEMMA QuietPreserves ==
  ASSUME IteratorInvariant, NEW t \in Threads,
         pc' \in [Threads -> Steps], pc'[t] \in {"idle", "fetch"},
         \A u \in Threads \ {t} : pc'[u] = pc[u],
         answer' \in [Threads -> Answers],
         UNCHANGED <<handed, cache, index, locals, delivered>>
  PROVE  IteratorInvariant'
<1> USE DEF IteratorInvariant, locals
<1>1. TypeOK' /\ CacheIsOfItems' /\ DeliveredWasCached' /\ NoItemTwice'
  BY DEF TypeOK, CacheIsOfItems, DeliveredWasCached, NoItemTwice, Steps
<1>2. ASSUME NEW u \in Threads PROVE ReadsArePrefixes(u)' /\ ItemIsNew(u)' /\ PlaceIsMine(u)'
  BY <1>2 DEF ReadsArePrefixes, ItemIsNew, PlaceIsMine, Adding
<1>3. QED
  BY <1>1, <1>2

LEMMA HasNextPreserves ==
  ASSUME IteratorInvariant, NEW t \in Threads, HasNext(t)
  PROVE  IteratorInvariant'
<1>1. /\ pc' \in [Threads -> Steps] /\ pc'[t] \in {"idle", "fetch"}
      /\ \A u \in Threads \ {t} : pc'[u] = pc[u]
      /\ answer' \in [Threads -> Answers]
  BY DEF IteratorInvariant, TypeOK, HasNext, Return, Goto, Steps, Answers
<1>2. QED
  BY <1>1, QuietPreserves DEF HasNext

LEMMA FetchEndsPreserves ==
  ASSUME IteratorInvariant, NEW t \in Threads, FetchOver(t) \/ FetchFails(t)
  PROVE  IteratorInvariant'
<1>1. /\ pc' \in [Threads -> Steps] /\ pc'[t] \in {"idle", "fetch"}
      /\ \A u \in Threads \ {t} : pc'[u] = pc[u]
      /\ answer' \in [Threads -> Answers]
  BY DEF IteratorInvariant, TypeOK, FetchOver, FetchFails, Return, Goto, Steps, Answers
<1>2. QED
  BY <1>1, QuietPreserves DEF FetchOver, FetchFails

\* C hands out an item it never handed out.
LEMMA FetchItemPreserves ==
  ASSUME IteratorInvariant, NEW t \in Threads, FetchItem(t)
  PROVE  IteratorInvariant'
<1> USE IteratorAssumption DEF IteratorInvariant, FetchItem, Goto
<1>1. TypeOK'
  BY DEF TypeOK, Steps
<1>2. CacheIsOfItems' /\ DeliveredWasCached' /\ NoItemTwice'
  <2>1. \A i \in 1 .. Len(cache) : cache[i] \in Nat
    BY DEF TypeOK, Lists
  <2>2. QED
    BY <2>1 DEF TypeOK, CacheIsOfItems, DeliveredWasCached, NoItemTwice
<1>3. ASSUME NEW u \in Threads PROVE ReadsArePrefixes(u)'
  BY DEF TypeOK, ReadsArePrefixes
<1>4. ASSUME NEW u \in Threads PROVE ItemIsNew(u)'
  <2>1. ASSUME NEW i \in 1 .. Len(cache) PROVE cache[i] \in Nat
    <3>1. cache[i] \in 1 .. Items
      BY ElementOfSeq DEF TypeOK, Lists
    <3>2. QED
      BY <3>1
  <2>2. \A i \in 1 .. Len(cache) : cache[i] # handed + 1
    BY <2>1 DEF CacheIsOfItems, TypeOK
  <2>3. QED
    BY <2>2 DEF TypeOK, ItemIsNew, Adding
<1>5. ASSUME NEW u \in Threads PROVE PlaceIsMine(u)'
  BY DEF TypeOK, PlaceIsMine
<1>6. QED
  BY <1>1, <1>2, <1>3, <1>4, <1>5

\* The first read of an add sees the cache as it is.
LEMMA ReadExpectedPreserves ==
  ASSUME IteratorInvariant, NEW t \in Threads, ReadExpected(t)
  PROVE  IteratorInvariant'
<1> USE DEF IteratorInvariant, ReadExpected, Goto
<1>1. TypeOK' /\ CacheIsOfItems' /\ DeliveredWasCached' /\ NoItemTwice'
  BY DEF TypeOK, Steps, CacheIsOfItems, DeliveredWasCached, NoItemTwice
<1>2. ASSUME NEW u \in Threads PROVE ReadsArePrefixes(u)'
  <2>1. IsPrefix(cache, cache)
    BY PrefixOfItself DEF TypeOK, Lists
  <2>2. QED
    BY <2>1 DEF TypeOK, ReadsArePrefixes
<1>3. ASSUME NEW u \in Threads PROVE ItemIsNew(u)' /\ PlaceIsMine(u)'
  BY DEF TypeOK, ItemIsNew, PlaceIsMine, Adding
<1>4. QED
  BY <1>1, <1>2, <1>3

LEMMA ReadCurrentPreserves ==
  ASSUME IteratorInvariant, NEW t \in Threads, ReadCurrent(t)
  PROVE  IteratorInvariant'
<1> USE DEF IteratorInvariant, ReadCurrent, Goto
<1>1. TypeOK' /\ CacheIsOfItems' /\ DeliveredWasCached' /\ NoItemTwice'
  BY DEF TypeOK, Steps, CacheIsOfItems, DeliveredWasCached, NoItemTwice
<1>2. ASSUME NEW u \in Threads PROVE ReadsArePrefixes(u)'
  <2>1. IsPrefix(cache, cache)
    BY PrefixOfItself DEF TypeOK, Lists
  <2>2. QED
    BY <2>1 DEF TypeOK, ReadsArePrefixes
<1>3. ASSUME NEW u \in Threads PROVE ItemIsNew(u)' /\ PlaceIsMine(u)'
  BY DEF TypeOK, ItemIsNew, PlaceIsMine, Adding
<1>4. QED
  BY <1>1, <1>2, <1>3

-----------------------------------------------------------------------------
\* An add that fails only ends; one that succeeds puts a new item at the end,
\* where no thread's place and no delivered item is.
LEMMA CasAppendPreserves ==
  ASSUME IteratorInvariant, NEW t \in Threads, CasAppend(t)
  PROVE  IteratorInvariant'
<1> USE DEF CasAppend, Return, Goto
<1>1. CASE cache' = cache
  <2>1. /\ pc' \in [Threads -> Steps] /\ pc'[t] \in {"idle", "fetch"}
        /\ \A u \in Threads \ {t} : pc'[u] = pc[u]
        /\ answer' \in [Threads -> Answers]
    BY DEF IteratorInvariant, TypeOK, Steps, Answers
  <2>2. QED
    BY <1>1, <2>1, QuietPreserves
<1>2. CASE cache' = Append(cache, item[t]) /\ item[t] \in 1 .. Items
  <2> USE DEF IteratorInvariant
  <2>1. /\ cache' \in Seq(1 .. Items)
        /\ Len(cache) \in Nat
        /\ Len(cache') = Len(cache) + 1
        /\ \A i \in 1 .. Len(cache) : cache'[i] = cache[i]
        /\ cache'[Len(cache) + 1] = item[t]
    <3>1. cache \in Seq(1 .. Items)
      BY DEF TypeOK, Lists
    <3> HIDE DEF CasAppend, IteratorInvariant
    <3>2. QED
      BY <1>2, <3>1, AppendByPlace
  <2>2. /\ item[t] \in 1 .. handed
        /\ \A i \in 1 .. Len(cache) : cache[i] # item[t]
        /\ \A u \in Threads \ {t} : Adding(u) => item[u] # item[t]
    BY DEF ItemIsNew, Adding
  <2>3. TypeOK'
    BY <2>1 DEF TypeOK, Steps, Answers, Lists, locals
  <2>4. CacheIsOfItems'
    <3>1. \A i \in 1 .. Len(cache') : cache'[i] <= handed'
      BY <2>1, <2>2 DEF CacheIsOfItems, TypeOK
    <3>2. IsInjective(cache')
      BY <1>2, <2>2, AppendIsInjective DEF CacheIsOfItems, TypeOK, Lists
    <3>3. QED
      BY <3>1, <3>2 DEF CacheIsOfItems
  <2>5. IsPrefix(cache, cache')
    BY <1>2, PrefixOfAppend DEF TypeOK, Lists
  <2>6. ASSUME NEW u \in Threads PROVE ReadsArePrefixes(u)'
    <3>1. \A l \in Seq(1 .. Items) : IsPrefix(l, cache) => IsPrefix(l, cache')
      BY <2>1, <2>5, PrefixTransitive DEF TypeOK, Lists
    <3>2. QED
      BY <3>1 DEF TypeOK, Lists, ReadsArePrefixes, locals
  <2>7. ASSUME NEW u \in Threads PROVE ItemIsNew(u)'
    BY <2>1, <2>2 DEF TypeOK, ItemIsNew, Adding, locals
  <2>8. \A k \in 1 .. Len(delivered) : delivered[k] # item[t]
    BY <2>2 DEF DeliveredWasCached
  <2>9. ASSUME NEW u \in Threads PROVE PlaceIsMine(u)'
    <3>1. pc[u]' = "get" => pc[u] = "get" /\ mine[u] \in Nat
      BY DEF TypeOK, PlaceIsMine
    <3>2. ASSUME pc[u] = "get", mine[u] < Len(cache'), NEW k \in 1 .. Len(delivered)
          PROVE  delivered[k] # cache'[mine[u] + 1]
      <4>1. mine[u] \in Nat
        BY <3>2 DEF PlaceIsMine, TypeOK
      <4>2. CASE mine[u] < Len(cache)
        <5>1. delivered[k] # cache[mine[u] + 1]
          BY <3>2, <4>2 DEF PlaceIsMine
        <5>2. cache'[mine[u] + 1] = cache[mine[u] + 1]
          BY <2>1, <4>1, <4>2
        <5>3. QED
          BY <5>1, <5>2
      <4>3. CASE mine[u] = Len(cache)
        BY <2>1, <2>8, <4>3
      <4>4. QED
        BY <2>1, <3>2, <4>1, <4>2, <4>3
    <3>3. QED
      BY <3>1, <3>2 DEF TypeOK, PlaceIsMine, locals
  <2>10. DeliveredWasCached'
    BY <2>1 DEF DeliveredWasCached
  <2>11. NoItemTwice'
    BY DEF NoItemTwice
  <2>12. QED
    BY <2>3, <2>4, <2>6, <2>7, <2>9, <2>10, <2>11
<1>3. QED
  BY <1>1, <1>2, CacheGrows

\* The index gives out a place beyond all that were given out.
LEMMA IncrementIndexPreserves ==
  ASSUME IteratorInvariant, NEW t \in Threads, IncrementIndex(t)
  PROVE  IteratorInvariant'
<1> USE IteratorAssumption DEF IteratorInvariant, IncrementIndex, Goto
<1>1. TypeOK' /\ CacheIsOfItems' /\ NoItemTwice'
  BY DEF TypeOK, Steps, CacheIsOfItems, NoItemTwice
<1>2. DeliveredWasCached'
  BY DEF TypeOK, DeliveredWasCached
<1>3. ASSUME NEW u \in Threads PROVE ReadsArePrefixes(u)' /\ ItemIsNew(u)'
  BY DEF TypeOK, ReadsArePrefixes, ItemIsNew, Adding
<1>4. ASSUME index + 1 < Len(cache), NEW k \in 1 .. Len(delivered)
      PROVE  delivered[k] # cache[index + 2]
  <2>1. PICK i \in 1 .. Len(cache) : i <= index + 1 /\ cache[i] = delivered[k]
    BY DEF DeliveredWasCached
  <2>2. DOMAIN cache = 1 .. Len(cache) /\ Len(cache) \in Nat
    BY LenProperties DEF TypeOK, Lists
  <2>3. index + 2 \in 1 .. Len(cache) /\ i # index + 2
    BY <1>4, <2>1, <2>2 DEF TypeOK
  <2>4. QED
    BY <2>1, <2>2, <2>3 DEF CacheIsOfItems, IsInjective
<1>5. ASSUME NEW u \in Threads PROVE PlaceIsMine(u)'
  <2>1. CASE u = t
    <3>1. mine[u]' = index + 1 /\ index' = index + 1 /\ index \in Int
      BY <2>1 DEF TypeOK
    <3>2. mine[u]' < Len(cache) =>
             \A k \in 1 .. Len(delivered) : delivered[k] # cache[mine[u]' + 1]
      BY <1>4, <3>1
    <3>3. \A v \in Threads \ {u} : pc[v]' = "get" => mine[v]' # mine[u]'
      BY <2>1, <3>1 DEF PlaceIsMine, TypeOK
    <3>4. mine[u]' \in 0 .. index'
      BY <3>1 DEF TypeOK
    <3>5. QED
      BY <3>2, <3>3, <3>4 DEF PlaceIsMine
  <2>2. CASE u # t
    BY <2>2 DEF PlaceIsMine, TypeOK
  <2>3. QED
    BY <2>1, <2>2
<1>6. QED
  BY <1>1, <1>2, <1>3, <1>5

\* The item at a thread's own place was delivered to nobody.
LEMMA GetPreserves ==
  ASSUME IteratorInvariant, NEW t \in Threads, Get(t)
  PROVE  IteratorInvariant'
<1> USE DEF IteratorInvariant, Get, Return, Goto
<1>1. CASE ~(mine[t] < Len(cache))
  <2>1. /\ pc' \in [Threads -> Steps] /\ pc'[t] \in {"idle", "fetch"}
        /\ \A u \in Threads \ {t} : pc'[u] = pc[u]
        /\ answer' \in [Threads -> Answers]
    BY <1>1 DEF TypeOK, Steps, Answers
  <2>2. QED
    BY <1>1, <2>1, QuietPreserves
<1>2. CASE mine[t] < Len(cache)
  <2> DEFINE got == cache[mine[t] + 1]
  <2>1. /\ Len(cache) \in Nat /\ DOMAIN cache = 1 .. Len(cache)
        /\ Len(delivered) \in Nat /\ DOMAIN delivered = 1 .. Len(delivered)
    BY LenProperties DEF TypeOK, Lists
  <2>2. mine[t] \in 0 .. index /\ mine[t] + 1 \in 1 .. Len(cache)
    BY <1>2, <2>1 DEF PlaceIsMine, TypeOK
  <2>3. got \in 1 .. Items
    BY <2>2, ElementOfSeq DEF TypeOK, Lists
  <2>4. /\ delivered' = Append(delivered, got)
        /\ delivered' \in Seq(1 .. Items)
        /\ Len(delivered) \in Nat
        /\ Len(delivered') = Len(delivered) + 1
        /\ \A k \in 1 .. Len(delivered) : delivered'[k] = delivered[k]
        /\ delivered'[Len(delivered) + 1] = got
    <3>1. delivered' = Append(delivered, got)
      BY <1>2
    <3>2. delivered \in Seq(1 .. Items)
      BY DEF TypeOK, Lists
    <3> HIDE DEF got, Get
    <3>3. QED
      BY <2>3, <3>1, <3>2, AppendByPlace
  <2>5. \A k \in 1 .. Len(delivered) : delivered[k] # got
    BY <1>2 DEF PlaceIsMine
  <2>6. TypeOK'
    BY <1>2, <2>4 DEF TypeOK, Lists, Steps, Answers, locals
  <2>7. CacheIsOfItems'
    BY DEF CacheIsOfItems
  <2>8. NoItemTwice'
    BY <2>3, <2>4, <2>5, AppendIsInjective DEF NoItemTwice, TypeOK, Lists
  <2>9. DeliveredWasCached'
    <3> SUFFICES ASSUME NEW k \in 1 .. Len(delivered')
                 PROVE  \E i \in 1 .. Len(cache) : i <= index + 1 /\ cache[i] = delivered'[k]
      BY DEF DeliveredWasCached
    <3>1. CASE k \in 1 .. Len(delivered)
      BY <2>4, <3>1 DEF DeliveredWasCached
    <3>2. CASE k = Len(delivered) + 1
      BY <2>2, <2>4, <3>2 DEF TypeOK
    <3>3. k \in 1 .. Len(delivered) \/ k = Len(delivered) + 1
      BY <2>4, OneMore
    <3>4. QED
      BY <3>1, <3>2, <3>3
  <2>10. ASSUME NEW u \in Threads PROVE ReadsArePrefixes(u)' /\ ItemIsNew(u)'
    BY DEF TypeOK, ReadsArePrefixes, ItemIsNew, Adding, locals
  <2>11. ASSUME NEW u \in Threads, pc[u]' = "get" PROVE PlaceIsMine(u)'
    <3>1. u # t /\ pc[u] = "get"
      BY <2>11 DEF TypeOK
    <3>2. mine[u] \in 0 .. index /\ mine[u] # mine[t]
      BY <3>1 DEF PlaceIsMine
    <3>3. mine[u] < Len(cache) => cache[mine[u] + 1] # got
      BY <2>1, <2>2, <3>2 DEF CacheIsOfItems, IsInjective, TypeOK
    <3>4. mine[u] < Len(cache) =>
             \A k \in 1 .. Len(delivered) : delivered[k] # cache[mine[u] + 1]
      BY <3>1 DEF PlaceIsMine
    <3>5. mine[u] < Len(cache) =>
             \A k \in 1 .. Len(delivered') : delivered'[k] # cache[mine[u] + 1]
      <4> SUFFICES ASSUME mine[u] < Len(cache), NEW k \in 1 .. Len(delivered')
                   PROVE  delivered'[k] # cache[mine[u] + 1]
        OBVIOUS
      <4>1. CASE k \in 1 .. Len(delivered)
        BY <2>4, <3>4, <4>1
      <4>2. CASE k = Len(delivered) + 1
        BY <2>4, <3>3, <4>2
      <4>3. k \in 1 .. Len(delivered) \/ k = Len(delivered) + 1
        BY <2>4, OneMore
      <4>4. QED
        BY <4>1, <4>2, <4>3
    <3>6. \A v \in Threads \ {u} : pc[v]' = "get" => mine[v] # mine[u]
      BY <3>1 DEF PlaceIsMine, TypeOK
    <3>7. QED
      BY <3>2, <3>5, <3>6 DEF PlaceIsMine, locals
  <2>12. \A u \in Threads : PlaceIsMine(u)'
    BY <2>11 DEF PlaceIsMine
  <2>13. QED
    BY <2>6, <2>7, <2>8, <2>9, <2>10, <2>12
<1>3. QED
  BY <1>1, <1>2

LEMMA NextPreserves ==
  ASSUME IteratorInvariant, [Next]_vars
  PROVE  IteratorInvariant'
<1>1. CASE UNCHANGED vars
  BY <1>1 DEF vars, locals, IteratorInvariant, TypeOK, CacheIsOfItems, ReadsArePrefixes,
     ItemIsNew, PlaceIsMine, Adding, DeliveredWasCached, NoItemTwice
<1>2. CASE Next
  BY <1>2, HasNextPreserves, FetchItemPreserves, FetchEndsPreserves, ReadExpectedPreserves,
     ReadCurrentPreserves, CasAppendPreserves, IncrementIndexPreserves, GetPreserves
     DEF Next, Step, Add
<1>3. QED
  BY <1>1, <1>2

\* Reads, places and items of an iterator shared by any number of threads
\* (IteratorBase.kt:15-30, NativeMutableList.kt:25).
THEOREM SharedIterator == Spec => []IteratorInvariant
BY InitEstablishes, NextPreserves, PTL DEF Spec

\* No item is delivered twice, to one thread or to two.
THEOREM ItemsAreDeliveredOnce == Spec => []NoItemTwice
<1>1. IteratorInvariant => NoItemTwice
  BY DEF IteratorInvariant
<1>2. QED
  BY <1>1, SharedIterator, PTL

\* No add replaces or drops what another add put into the cache.
THEOREM AddsExtendTheCache == Spec => CacheOnlyGrows
<1>1. ASSUME IteratorInvariant, Next PROVE IsPrefix(cache, cache')
  <2>1. cache \in Seq(1 .. Items)
    BY <1>1 DEF IteratorInvariant, TypeOK, Lists
  <2>2. CASE cache' = cache
    BY <2>1, <2>2, PrefixOfItself
  <2>3. ASSUME NEW t \in Threads, CasAppend(t) PROVE IsPrefix(cache, cache')
    BY <1>1, <2>1, <2>2, <2>3, CacheGrows, PrefixOfAppend
  <2>4. QED
    BY <1>1, <2>2, <2>3 DEF Next, Step, Add, HasNext, FetchItem, FetchOver, FetchFails,
       ReadExpected, ReadCurrent, IncrementIndex, Get
<1>2. IteratorInvariant /\ [Next]_vars => [IsPrefix(cache, cache')]_vars
  BY <1>1
<1>3. QED
  BY <1>2, SharedIterator, PTL DEF Spec, CacheOnlyGrows

\* The cache, read and changed step by step, is a list changed by whole adds
\* (NativeMutableList.kt:25).
THEOREM CacheImplementsAtomicList == Spec => CacheImplementsList
<1>1. Init => Cache!Init
  BY DEF Init, Cache!Init
<1>2. IteratorInvariant /\ [Next]_vars => [Cache!Next]_cache
  <2> SUFFICES ASSUME IteratorInvariant, Next, cache' # cache
               PROVE  Cache!Next
    BY DEF vars
  <2>1. PICK t \in Threads : CasAppend(t)
    BY DEF Next, Step, Add, HasNext, FetchItem, FetchOver, FetchFails,
       ReadExpected, ReadCurrent, IncrementIndex, Get
  <2>2. cache' = Append(cache, item[t]) /\ item[t] \in 1 .. Items
    BY <2>1, CacheGrows
  <2>3. Cache!Mutate(item[t])
    BY <2>2 DEF Cache!Mutate, NeverThrows, Added
  <2>4. QED
    BY <2>2, <2>3 DEF Cache!Next
<1>3. QED
  BY <1>1, <1>2, SharedIterator, PTL DEF Spec, CacheImplementsList, Cache!Spec

-----------------------------------------------------------------------------
(* One loop over an iterator of its own                                    *)

LEMMA InOrderAppend ==
  ASSUME NEW S, NEW s \in Seq(S), NEW e \in S, InOrder(s), e = Len(s) + 1
  PROVE  InOrder(Append(s, e))
<1> DEFINE l == Append(s, e)
<1>1. /\ Len(s) \in Nat
      /\ Len(l) = Len(s) + 1
      /\ \A i \in 1 .. Len(s) : l[i] = s[i]
      /\ l[Len(s) + 1] = e
  BY AppendByPlace
<1> HIDE DEF l
<1>2. ASSUME NEW i \in 1 .. Len(l) PROVE l[i] = i
  BY <1>1, OneMore DEF InOrder
<1>3. QED
  BY <1>2 DEF InOrder, l

LEMMA LoopStarts ==
  ASSUME NEW t, Threads = {t}, Looping = {t}, Init
  PROVE  LoopInvariant
<1> USE DEF Init
<1>1. Len(cache) = 0 /\ Len(delivered) = 0
  OBVIOUS
<1>2. InOrder(cache) /\ InOrder(delivered)
  BY <1>1 DEF InOrder
<1>3. LoopProgress(t) /\ LoopAnswer(t)
  BY <1>1 DEF LoopProgress, LoopAnswer, Adding
<1>4. QED
  BY <1>2, <1>3, InitEstablishes DEF LoopInvariant

\* The lists and their lengths, as the proofs about a loop use them.
LEMMA LoopTypes ==
  ASSUME IteratorInvariant, NEW t \in Threads
  PROVE  /\ cache \in Seq(1 .. Items) /\ Len(cache) \in Nat
         /\ delivered \in Seq(1 .. Items) /\ Len(delivered) \in Nat
         /\ handed \in Nat /\ handed <= Items /\ index \in Int /\ mine[t] \in Int
BY LenProperties, IteratorAssumption DEF IteratorInvariant, TypeOK, Lists

\* hasNext asks C, caches the item, and says so.
LEMMA HasNextKeepsLoop ==
  ASSUME NEW t, Threads = {t}, Looping = {t}, LoopInvariant,
         HasNext(t) \/ FetchItem(t) \/ FetchOver(t) \/ FetchFails(t)
             \/ ReadExpected(t) \/ ReadCurrent(t)
  PROVE  /\ UNCHANGED <<cache, delivered>>
         /\ LoopProgress(t)' /\ LoopAnswer(t)'
<1> USE LoopTypes DEF LoopInvariant, IteratorInvariant, TypeOK, LoopProgress, LoopAnswer,
        Adding, Goto, Return, locals
<1>1. CASE HasNext(t)
  <2>1. answer[t] \in {"none", "item"} /\ pc[t] = "idle" /\ index >= -1
    BY <1>1 DEF HasNext
  <2>2. pc' = [pc EXCEPT ![t] = "fetch"] /\ answer' = answer
    BY <1>1, <2>1 DEF HasNext, CacheSize
  <2>3. QED
    BY <1>1, <2>1, <2>2 DEF HasNext
<1>2. CASE FetchItem(t)
  BY <1>2 DEF FetchItem
<1>3. CASE FetchOver(t)
  BY <1>3 DEF FetchOver
<1>4. CASE FetchFails(t)
  BY <1>4 DEF FetchFails
<1>5. CASE ReadExpected(t)
  BY <1>5 DEF ReadExpected
<1>6. CASE ReadCurrent(t)
  BY <1>6 DEF ReadCurrent
<1>7. QED
  BY <1>1, <1>2, <1>3, <1>4, <1>5, <1>6

LEMMA CasAppendKeepsLoop ==
  ASSUME NEW t, Threads = {t}, Looping = {t}, LoopInvariant, CasAppend(t)
  PROVE  /\ UNCHANGED delivered /\ InOrder(cache')
         /\ LoopProgress(t)' /\ LoopAnswer(t)'
<1> DEFINE n == Len(delivered)
<1>1. /\ pc[t] = "cas" /\ handed = n + 1 /\ item[t] = n + 1
      /\ Len(cache) = n /\ index = n - 1 /\ expected[t] = cache
  BY DEF CasAppend, LoopInvariant, LoopProgress, Adding
<1>2. current[t] = cache
  BY <1>1, AppendsToCache DEF LoopInvariant
<1>3. cache' = Append(cache, n + 1)
  BY <1>1, <1>2 DEF CasAppend
<1>4. t \in Threads /\ IteratorInvariant
  BY DEF LoopInvariant
<1>5. n \in Nat /\ cache \in Seq(1 .. Items) /\ handed <= Items
  BY <1>4, LoopTypes
<1> HIDE DEF n
<1>6. n + 1 \in 1 .. Items
  BY <1>1, <1>5, IteratorAssumption
<1>7. InOrder(cache') /\ Len(cache') = n + 1
  <2>1. InOrder(cache)
    BY DEF LoopInvariant
  <2>2. InOrder(Append(cache, n + 1))
    BY <1>1, <1>5, <1>6, <2>1, InOrderAppend
  <2>3. Len(Append(cache, n + 1)) = n + 1
    BY <1>1, <1>5, <1>6, AppendByPlace
  <2>4. InOrder(cache') <=> InOrder(Append(cache, n + 1))
    BY <1>3 DEF InOrder
  <2>5. QED
    BY <1>3, <2>2, <2>3, <2>4
<1>8. /\ pc' = [pc EXCEPT ![t] = "idle"]
      /\ answer' = [answer EXCEPT ![t] = "yes"]
      /\ UNCHANGED <<handed, index, locals, delivered>>
  BY DEF CasAppend, Return, Goto
<1>9. pc'[t] = "idle" /\ answer'[t] = "yes"
  BY <1>8 DEF LoopInvariant, IteratorInvariant, TypeOK
<1>10. LoopProgress(t)' /\ LoopAnswer(t)'
  BY <1>1, <1>7, <1>8, <1>9 DEF LoopProgress, LoopAnswer, Adding, n
<1>11. QED
  BY <1>7, <1>8, <1>10

\* next takes the item that hasNext cached.
LEMMA IncrementIndexKeepsLoop ==
  ASSUME NEW t, Threads = {t}, Looping = {t}, LoopInvariant, IncrementIndex(t)
  PROVE  /\ UNCHANGED <<cache, delivered>>
         /\ LoopProgress(t)' /\ LoopAnswer(t)'
BY LoopTypes DEF LoopInvariant, IteratorInvariant, TypeOK, LoopProgress, LoopAnswer,
   Adding, Goto, IncrementIndex

\* It is the next one in the order of C.
LEMMA GetIsNext ==
  ASSUME NEW t, Threads = {t}, Looping = {t}, LoopInvariant, Get(t)
  PROVE  /\ answer[t] = "yes" /\ Len(delivered) < Items
         /\ delivered' = Append(delivered, Len(delivered) + 1)
         /\ answer' = [answer EXCEPT ![t] = "item"]
<1> DEFINE n == Len(delivered)
<1>1. /\ pc[t] = "get" /\ handed = n + 1 /\ Len(cache) = n + 1 /\ mine[t] = n
      /\ answer[t] = "yes"
  BY DEF Get, LoopInvariant, LoopProgress, LoopAnswer, IteratorInvariant, TypeOK, Answers
<1>2. n \in Nat /\ n < Items
  <2>1. t \in Threads /\ IteratorInvariant
    BY DEF LoopInvariant
  <2>2. n \in Nat /\ handed <= Items
    BY <2>1, LoopTypes
  <2> HIDE DEF n
  <2>3. QED
    BY <1>1, <2>2, IteratorAssumption
<1>3. mine[t] < Len(cache) /\ cache[mine[t] + 1] = n + 1
  BY <1>1, <1>2 DEF LoopInvariant, InOrder
<1>4. QED
  BY <1>1, <1>2, <1>3 DEF Get, Return

LEMMA GetKeepsLoop ==
  ASSUME NEW t, Threads = {t}, Looping = {t}, LoopInvariant, Get(t)
  PROVE  /\ UNCHANGED cache /\ InOrder(delivered')
         /\ LoopProgress(t)' /\ LoopAnswer(t)'
<1> DEFINE n == Len(delivered)
<1>1. /\ pc[t] = "get" /\ handed = n + 1 /\ Len(cache) = n + 1 /\ index = n
  BY LoopTypes DEF Get, LoopInvariant, LoopProgress
<1>2. n \in Nat /\ n + 1 \in 1 .. Items /\ delivered \in Seq(1 .. Items)
  <2>1. t \in Threads /\ IteratorInvariant
    BY DEF LoopInvariant
  <2>2. n \in Nat /\ delivered \in Seq(1 .. Items) /\ n < Items
    BY <2>1, LoopTypes, GetIsNext
  <2> HIDE DEF n
  <2>3. QED
    BY <2>2, IteratorAssumption
<1>3. InOrder(delivered') /\ Len(delivered') = n + 1
  <2>1. delivered' = Append(delivered, n + 1) /\ InOrder(delivered)
    BY GetIsNext DEF LoopInvariant
  <2>2. QED
    BY <1>2, <2>1, InOrderAppend, AppendByPlace
<1>4. pc'[t] = "idle" /\ answer'[t] = "item" /\ UNCHANGED <<handed, cache, index, locals>>
  BY GetIsNext DEF Get, Return, Goto, LoopInvariant, IteratorInvariant, TypeOK
<1>5. LoopProgress(t)' /\ LoopAnswer(t)'
  BY <1>1, <1>2, <1>3, <1>4 DEF LoopProgress, LoopAnswer, Adding
<1>6. QED
  BY <1>3, <1>4, <1>5

LEMMA LoopNextPreserves ==
  ASSUME NEW t, Threads = {t}, Looping = {t}, LoopInvariant, [Next]_vars
  PROVE  LoopInvariant'
<1>1. IteratorInvariant'
  BY NextPreserves DEF LoopInvariant
<1>2. InOrder(cache)' /\ InOrder(delivered)' /\ LoopProgress(t)' /\ LoopAnswer(t)'
  <2>1. CASE UNCHANGED vars
    BY <2>1 DEF LoopInvariant, LoopProgress, LoopAnswer, Adding, InOrder, vars, locals
  <2>2. CASE Step(t)
    <3>1. ASSUME UNCHANGED cache PROVE InOrder(cache)'
      BY <3>1 DEF LoopInvariant, InOrder
    <3>2. ASSUME UNCHANGED delivered PROVE InOrder(delivered)'
      BY <3>2 DEF LoopInvariant, InOrder
    <3>3. CASE CasAppend(t)
      BY <3>2, <3>3, CasAppendKeepsLoop
    <3>4. CASE Get(t)
      BY <3>1, <3>4, GetKeepsLoop
    <3>5. CASE IncrementIndex(t)
      BY <3>1, <3>2, <3>5, IncrementIndexKeepsLoop
    <3>6. QED
      BY <2>2, <3>1, <3>2, <3>3, <3>4, <3>5, HasNextKeepsLoop DEF Step, Add
  <2>3. QED
    BY <2>1, <2>2 DEF Next
<1>3. QED
  BY <1>1, <1>2 DEF LoopInvariant

\* C, the cache, the index and the loop proceed together, whatever the number
\* of items (IteratorBase.kt:15-32).
THEOREM LoopIsInStep ==
  ASSUME NEW t, Threads = {t}, Looping = {t}
  PROVE  Spec => []LoopInvariant
<1>1. Init => LoopInvariant
  BY LoopStarts
<1>2. LoopInvariant /\ [Next]_vars => LoopInvariant'
  BY LoopNextPreserves
<1>3. QED
  BY <1>1, <1>2, PTL DEF Spec

-----------------------------------------------------------------------------
\* A step of the loop delivers the next item, reports the end after the last,
\* or shows nothing.
LEMMA LoopStepDelivers ==
  ASSUME NEW t, Threads = {t}, Looping = {t}, LoopInvariant, [Next]_vars
  PROVE  [Loop!Next]_<<delivered, Exhausted>>
<1>1. Exhausted <=> answer[t] = "no"
  BY DEF Exhausted
<1>2. Exhausted' <=> answer'[t] = "no"
  BY DEF Exhausted
<1>3. CASE UNCHANGED vars
  BY <1>3 DEF vars, Exhausted
<1>4. CASE Get(t)
  <2>1. ~Exhausted /\ ~Exhausted'
    BY <1>1, <1>2, <1>4, GetIsNext DEF LoopInvariant, IteratorInvariant, TypeOK
  <2>2. Exhausted' = Exhausted
    BY <2>1 DEF Exhausted
  <2>3. Loop!Deliver
    <3>1. /\ Len(delivered) < Items
          /\ delivered' = Append(delivered, Len(delivered) + 1)
      BY <1>4, GetIsNext
    <3>2. QED
      BY <2>1, <2>2, <3>1 DEF Loop!Deliver
  <2>4. QED
    BY <2>3 DEF Loop!Next
<1>5. CASE FetchOver(t)
  <2>1. Len(delivered) = Items /\ UNCHANGED delivered /\ answer'[t] = "no"
    BY <1>5 DEF FetchOver, Return, Goto, LoopInvariant, LoopProgress, IteratorInvariant, TypeOK
  <2>2. Exhausted'
    BY <1>2, <2>1
  <2>3. Loop!Exhaust
    BY <2>1, <2>2 DEF Loop!Exhaust
  <2>4. QED
    BY <2>3 DEF Loop!Next
<1>6. ASSUME HasNext(t) \/ FetchItem(t) \/ FetchFails(t) \/ Add(t) \/ IncrementIndex(t)
      PROVE  UNCHANGED delivered /\ answer[t] # "no" /\ answer'[t] # "no"
  <2>1. answer[t] # "no"
    BY <1>6 DEF Add, HasNext, FetchItem, FetchFails, ReadExpected, ReadCurrent, CasAppend,
       IncrementIndex, LoopInvariant, LoopAnswer
  <2>2. UNCHANGED delivered /\ (answer' = answer \/ \E a \in {"yes", "threw"} : answer' = [answer EXCEPT ![t] = a])
    BY <1>6 DEF Add, HasNext, FetchItem, FetchFails, ReadExpected, ReadCurrent, CasAppend,
       IncrementIndex, Return
  <2>3. QED
    BY <2>1, <2>2 DEF LoopInvariant, IteratorInvariant, TypeOK
<1>7. CASE HasNext(t) \/ FetchItem(t) \/ FetchFails(t) \/ Add(t) \/ IncrementIndex(t)
  <2>1. UNCHANGED delivered /\ Exhausted' = Exhausted
    BY <1>1, <1>2, <1>6, <1>7
  <2>2. QED
    BY <2>1
<1>8. QED
  BY <1>3, <1>4, <1>5, <1>7 DEF Next, Step

\* A loop over an iterator of its own gets every item once and in order, and
\* hears of the end after the last, for any number of items
\* (IteratorBase.kt:15-32).
THEOREM LoopImplementsDelivery ==
  ASSUME NEW t, Threads = {t}, Looping = {t}
  PROVE  Spec => ImplementsDelivery
<1>1. Init => Loop!Init
  BY DEF Init, Loop!Init, Exhausted
<1>2. LoopInvariant /\ [Next]_vars
        => [Loop!Next]_<<delivered, Exhausted>>
  BY LoopStepDelivers
<1>3. Spec => []LoopInvariant
  BY LoopIsInStep
<1>4. QED
  BY <1>1, <1>2, <1>3, PTL DEF Spec, ImplementsDelivery, Loop!Spec
=============================================================================

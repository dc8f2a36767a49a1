------------------------- MODULE ResponseCacheProofs -------------------------
(***************************************************************************)
(* Proofs about the response cache, for every set of keys, every capacity  *)
(* and every choice of windows.                                            *)
(*                                                                         *)
(* The first part states what the list operations of the cache do to a     *)
(* list without duplicates: which elements remain, that none is repeated,  *)
(* and that the relative order of those that remain is kept.  The second   *)
(* part proves the invariants of ResponseCacheSpec from them.              *)
(***************************************************************************)
EXTENDS ResponseCacheSpec, SequenceTheorems, FiniteSetTheorems,
        WellFoundedInduction, TLAPS

(* t lists some elements of s in the order in which s lists them. *)
InOrderOf(t, s) ==
    \A i, j \in DOMAIN t :
        i < j => \E p, q \in DOMAIN s : p < q /\ t[i] = s[p] /\ t[j] = s[q]

(* t lists k last, after some elements of s in their order in s. *)
EndsWith(t, k, s) ==
    \A i, j \in DOMAIN t :
        i < j =>
          /\ t[i] # k
          /\ \/ t[j] = k
             \/ \E p, q \in DOMAIN s : p < q /\ t[i] = s[p] /\ t[j] = s[q]

(* Min of the library picks the element below all others. *)
LEMMA MinIsLeast ==
    ASSUME NEW I \in SUBSET Int, NEW i \in I, \A y \in I : i <= y
    PROVE  Min(I) = i
<1>1. PICK m : m = Min(I)
  OBVIOUS
<1>2. m \in I /\ \A y \in I : m <= y
  BY <1>1, Zenon DEF Min
<1> QED
  BY <1>1, <1>2

(* The slice after the cut, element by element. *)
LEMMA CutElements ==
    ASSUME NEW S, NEW s \in Seq(S), NEW i \in 1 .. Len(s)
    PROVE  LET t == SubSeq(s, 1, i - 1) \o SubSeq(s, i + 1, Len(s))
           IN  /\ t \in Seq(S)
               /\ Len(t) = Len(s) - 1
               /\ \A x \in 1 .. Len(s) - 1 :
                     t[x] = IF x < i THEN s[x] ELSE s[x + 1]
<1> DEFINE a == SubSeq(s, 1, i - 1)
           b == SubSeq(s, i + 1, Len(s))
<1>1. /\ a \in Seq(S)
      /\ Len(a) = i - 1
      /\ \A x \in 1 .. i - 1 : a[x] = s[x]
  BY SubSeqProperties
<1>2. /\ b \in Seq(S)
      /\ Len(b) = Len(s) - i
      /\ \A x \in 1 .. Len(s) - i : b[x] = s[i + x]
  <2>1. i + 1 \in Int /\ Len(s) \in Int /\ \A x \in i + 1 .. Len(s) : s[x] \in S
    OBVIOUS
  <2> QED
    BY <2>1, SubSeqProperties
<1>3. /\ a \o b \in Seq(S)
      /\ Len(a \o b) = Len(s) - 1
      /\ \A x \in 1 .. Len(s) - 1 :
            (a \o b)[x] = IF x <= i - 1 THEN a[x] ELSE b[x - (i - 1)]
  <2> HIDE DEF a, b
  <2> QED
    BY <1>1, <1>2, ConcatProperties
<1>4. ASSUME NEW x \in 1 .. Len(s) - 1
      PROVE  (a \o b)[x] = IF x < i THEN s[x] ELSE s[x + 1]
  <2> HIDE DEF a, b
  <2>1. CASE x < i
    BY <1>1, <1>3, <2>1
  <2>2. CASE ~ (x < i)
    <3>1. x - (i - 1) \in 1 .. Len(s) - i /\ i + (x - (i - 1)) = x + 1
      BY <2>2
    <3> QED
      BY <1>2, <1>3, <2>2, <3>1
  <2> QED
    BY <2>1, <2>2
<1> QED
  BY <1>3, <1>4

(* What removeFromOrder does to an order slice without duplicates. *)
LEMMA RemoveFirstProperties ==
    ASSUME NEW S, NEW s \in Seq(S), IsInjective(s), NEW k
    PROVE  /\ RemoveFirst(s, k) \in Seq(S)
           /\ Range(RemoveFirst(s, k)) = Range(s) \ {k}
           /\ InOrderOf(RemoveFirst(s, k), s)
<1>1. CASE ~ \E i \in 1 .. Len(s) : s[i] = k
  <2>1. RemoveFirst(s, k) = s
    BY <1>1 DEF RemoveFirst
  <2> QED
    BY <1>1, <2>1 DEF Range, InOrderOf
<1>2. CASE \E i \in 1 .. Len(s) : s[i] = k
  <2>1. PICK i \in 1 .. Len(s) : s[i] = k
    BY <1>2
  <2>2. \A j \in 1 .. Len(s) : s[j] = k => j = i
    BY <2>1 DEF IsInjective
  <2>3. PICK t : t = RemoveFirst(s, k)
    OBVIOUS
  <2>4. t = SubSeq(s, 1, i - 1) \o SubSeq(s, i + 1, Len(s))
    <3> DEFINE I == {j \in 1 .. Len(s) : s[j] = k}
    <3>1. I = {i}
      BY <2>1, <2>2
    <3>2. Min(I) = i
      <4> i \in I /\ I \in SUBSET Int /\ \A j \in I : i <= j
        BY <3>1
      <4> HIDE DEF I
      <4> QED
        BY MinIsLeast
    <3>3. SelectInSeq(s, LAMBDA v : v = k) = i
      BY <3>1, <3>2 DEF SelectInSeq
    <3> QED
      BY <1>2, <2>3, <3>3 DEF RemoveFirst, RemoveAt
  <2>5. /\ t \in Seq(S)
        /\ Len(t) = Len(s) - 1
        /\ \A x \in 1 .. Len(s) - 1 : t[x] = IF x < i THEN s[x] ELSE s[x + 1]
    BY <2>4, CutElements
  <2>6. \A x \in 1 .. Len(s) - 1 : t[x] \in Range(s) \ {k}
    BY <2>2, <2>5 DEF Range
  <2>7. ASSUME NEW v \in Range(s) \ {k}
        PROVE  v \in Range(t)
    <3>1. PICK j \in 1 .. Len(s) : s[j] = v
      BY DEF Range
    <3>2. CASE j < i
      <4>1. j \in 1 .. Len(t) /\ t[j] = v
        BY <2>5, <3>1, <3>2
      <4> QED
        BY <4>1, <2>5 DEF Range
    <3>3. CASE j > i
      <4>1. j - 1 \in 1 .. Len(t) /\ t[j - 1] = v
        BY <2>5, <3>1, <3>3
      <4> QED
        BY <4>1, <2>5 DEF Range
    <3> QED
      BY <2>1, <3>1, <3>2, <3>3
  <2>8. Range(t) = Range(s) \ {k}
    <3>1. Range(t) = {t[x] : x \in 1 .. Len(s) - 1}
      BY <2>5, RangeEquality
    <3> QED
      BY <2>6, <2>7, <3>1
  <2>9. InOrderOf(t, s)
    <3> SUFFICES ASSUME NEW x \in DOMAIN t, NEW y \in DOMAIN t, x < y
                 PROVE  \E p, q \in DOMAIN s : p < q /\ t[x] = s[p] /\ t[y] = s[q]
      BY DEF InOrderOf
    <3> DEFINE p == IF x < i THEN x ELSE x + 1
               q == IF y < i THEN y ELSE y + 1
    <3>1. x \in 1 .. Len(s) - 1 /\ y \in 1 .. Len(s) - 1
      BY <2>5
    <3>2. p \in DOMAIN s /\ q \in DOMAIN s /\ p < q
      BY <3>1
    <3>3. t[x] = s[p] /\ t[y] = s[q]
      BY <2>5, <3>1
    <3> QED
      BY <3>2, <3>3
  <2> QED
    BY <2>3, <2>5, <2>8, <2>9
<1> QED
  BY <1>1, <1>2

(* A list in the order of one without duplicates has no duplicates. *)
LEMMA InOrderOfInjective ==
    ASSUME NEW S, NEW s \in Seq(S), NEW t \in Seq(S),
           IsInjective(s), InOrderOf(t, s)
    PROVE  IsInjective(t)
<1> SUFFICES ASSUME NEW i \in DOMAIN t, NEW j \in DOMAIN t, i < j
             PROVE  t[i] # t[j]
  BY DEF IsInjective
<1> QED
  BY DEF InOrderOf, IsInjective

(* What appending a key that is not in the list does. *)
LEMMA AppendKey ==
    ASSUME NEW S, NEW s \in Seq(S), IsInjective(s), NEW k \in S, k \notin Range(s)
    PROVE  /\ Append(s, k) \in Seq(S)
           /\ Range(Append(s, k)) = Range(s) \cup {k}
           /\ IsInjective(Append(s, k))
<1>1. /\ Append(s, k) \in Seq(S)
      /\ Len(Append(s, k)) = Len(s) + 1
      /\ \A i \in 1 .. Len(s) : Append(s, k)[i] = s[i]
      /\ Append(s, k)[Len(s) + 1] = k
  BY AppendProperties
<1>2. \A i \in 1 .. Len(s) : s[i] # k
  BY DEF Range
<1> QED
  BY <1>1, <1>2 DEF Range, IsInjective

(* MovedToEnd: k ends up last, the others keep their order before it. *)
LEMMA MovedToEndProperties ==
    ASSUME NEW S, NEW s \in Seq(S), IsInjective(s), NEW k \in S
    PROVE  /\ MovedToEnd(s, k) \in Seq(S)
           /\ Range(MovedToEnd(s, k)) = Range(s) \cup {k}
           /\ IsInjective(MovedToEnd(s, k))
           /\ EndsWith(MovedToEnd(s, k), k, s)
<1>1. PICK r : r = RemoveFirst(s, k)
  OBVIOUS
<1>2. r \in Seq(S) /\ Range(r) = Range(s) \ {k} /\ InOrderOf(r, s)
  BY <1>1, RemoveFirstProperties
<1>3. IsInjective(r)
  BY <1>2, InOrderOfInjective
<1>4. MovedToEnd(s, k) = Append(r, k)
  BY <1>1 DEF MovedToEnd
<1>5. PICK t : t = Append(r, k)
  OBVIOUS
<1>6. t \in Seq(S) /\ Range(t) = Range(r) \cup {k} /\ IsInjective(t)
  BY <1>2, <1>3, <1>5, AppendKey
<1>7. Range(t) = Range(s) \cup {k}
  BY <1>2, <1>6
<1>8. /\ Len(t) = Len(r) + 1
      /\ \A i \in 1 .. Len(r) : t[i] = r[i]
      /\ t[Len(r) + 1] = k
  BY <1>2, <1>5, AppendProperties
<1>9. ASSUME NEW i \in DOMAIN t, NEW j \in DOMAIN t, i < j
      PROVE  /\ t[i] # k
             /\ \/ t[j] = k
                \/ \E p, q \in DOMAIN s : p < q /\ t[i] = s[p] /\ t[j] = s[q]
  <2>1. i \in 1 .. Len(r) /\ t[i] = r[i] /\ (j = Len(r) + 1 \/ j \in 1 .. Len(r))
    BY <1>2, <1>6, <1>8, <1>9
  <2>2. t[i] # k
    BY <1>2, <2>1 DEF Range
  <2>3. CASE j = Len(r) + 1
    BY <1>8, <2>2, <2>3
  <2>4. CASE j \in 1 .. Len(r)
    BY <1>2, <1>8, <1>9, <2>1, <2>2, <2>4 DEF InOrderOf
  <2> QED
    BY <2>1, <2>3, <2>4
<1>10. EndsWith(t, k, s)
  BY <1>9 DEF EndsWith
<1> QED
  BY <1>4, <1>5, <1>6, <1>7, <1>10

(* The tail of the order slice that n turns of the eviction loop leave. *)
LEMMA TailProperties ==
    ASSUME NEW S, NEW s \in Seq(S), IsInjective(s), NEW n \in 0 .. Len(s)
    PROVE  LET t == SubSeq(s, n + 1, Len(s))
           IN  /\ t \in Seq(S)
               /\ Range(t) = Range(s) \ {s[i] : i \in 1 .. n}
               /\ InOrderOf(t, s)
               /\ IsInjective(t)
<1>1. PICK t : t = SubSeq(s, n + 1, Len(s))
  OBVIOUS
<1>2. /\ t \in Seq(S)
      /\ Len(t) = Len(s) - n
      /\ \A x \in 1 .. Len(s) - n : t[x] = s[n + x]
  <2>1. n + 1 \in Int /\ Len(s) \in Int /\ \A x \in n + 1 .. Len(s) : s[x] \in S
    OBVIOUS
  <2> QED
    BY <1>1, <2>1, SubSeqProperties
<1>3. InOrderOf(t, s)
  <2> SUFFICES ASSUME NEW x \in DOMAIN t, NEW y \in DOMAIN t, x < y
               PROVE  \E p, q \in DOMAIN s : p < q /\ t[x] = s[p] /\ t[y] = s[q]
    BY DEF InOrderOf
  <2>1. n + x \in DOMAIN s /\ n + y \in DOMAIN s /\ n + x < n + y
    BY <1>2
  <2>2. t[x] = s[n + x] /\ t[y] = s[n + y]
    <3> x \in 1 .. Len(s) - n /\ y \in 1 .. Len(s) - n
      BY <1>2
    <3> QED
      BY <1>2
  <2> QED
    BY <2>1, <2>2
<1>4. IsInjective(t)
  BY <1>2, <1>3, InOrderOfInjective
<1>5. ASSUME NEW x \in 1 .. Len(s) - n
      PROVE  t[x] \in Range(s) \ {s[i] : i \in 1 .. n}
  <2>1. n + x \in DOMAIN s /\ \A i \in 1 .. n : i \in DOMAIN s /\ i # n + x
    OBVIOUS
  <2> QED
    BY <1>2, <2>1 DEF Range, IsInjective
<1>6. ASSUME NEW v \in Range(s) \ {s[i] : i \in 1 .. n}
      PROVE  v \in Range(t)
  <2>1. PICK j \in 1 .. Len(s) : s[j] = v
    BY DEF Range
  <2>2. j - n \in 1 .. Len(t) /\ t[j - n] = v
    BY <1>2, <2>1
  <2> QED
    BY <1>2, <2>2 DEF Range
<1>7. Range(t) = Range(s) \ {s[i] : i \in 1 .. n}
  <2>1. Range(t) = {t[x] : x \in 1 .. Len(s) - n}
    BY <1>2, RangeEquality
  <2> QED
    BY <1>5, <1>6, <2>1
<1> QED
  BY <1>1, <1>2, <1>3, <1>4, <1>7

(* The eviction loop terminates: it stops after some least number of turns. *)
LEMMA EvictionTurnsStop ==
    ASSUME order \in Seq(Keys)
    PROVE  /\ EvictionTurns \in 0 .. Len(order)
           /\ LoopStops(EvictionTurns)
           /\ \A m \in 0 .. EvictionTurns - 1 : ~ LoopStops(m)
<1> DEFINE T == {n \in 0 .. Len(order) : LoopStops(n)}
<1>1. Len(order) \in T
  BY DEF LoopStops
<1>2. PICK n \in T : \A m \in T : ~ (<<m, n>> \in OpToRel(<, Nat))
  <2>1. T \subseteq Nat /\ T # {}
    BY <1>1
  <2> HIDE DEF T
  <2> QED
    BY <2>1, NatLessThanWellFounded, WFMin, Zenon
<1>3. \A m \in 0 .. n - 1 : m \in 0 .. Len(order) /\ m \in Nat /\ n \in Nat /\ m < n
  OBVIOUS
<1>4. \A m \in 0 .. n - 1 : ~ LoopStops(m)
  BY <1>2, <1>3 DEF OpToRel
<1>5. \E x \in 0 .. Len(order) : LoopStops(x) /\ \A m \in 0 .. x - 1 : ~ LoopStops(m)
  BY <1>4
<1> QED
  BY <1>5, Zenon DEF EvictionTurns

-----------------------------------------------------------------------------

(* What makes both lists inductive together: types, and that the order     *)
(* slice lists the resident keys once each.                                *)
IInv == TypeOK /\ OrderIsResidents

(* What an accepted Put leaves behind. *)
LEMMA PutStoredEffect ==
    ASSUME IInv, NEW k \in Keys, NEW r \in Responses, PutStored(k, r)
    PROVE  /\ entries' \in [Keys -> Entry \cup {NoEntry}]
           /\ ResidentKeys' = (ResidentKeys \ Evicted) \cup {k}
           /\ order' = MovedToEnd(Kept, k)
           /\ Kept \in Seq(Keys)
           /\ IsInjective(Kept)
           /\ Range(Kept) = ResidentKeys \ Evicted
           /\ InOrderOf(Kept, order)
<1>1. order \in Seq(Keys) /\ IsInjective(order) /\ Range(order) = ResidentKeys
  BY DEF IInv, TypeOK, OrderIsResidents
<1>2. EvictionTurns \in 0 .. Len(order)
  BY <1>1, EvictionTurnsStop
<1>3. /\ Kept \in Seq(Keys)
      /\ Range(Kept) = ResidentKeys \ Evicted
      /\ InOrderOf(Kept, order)
      /\ IsInjective(Kept)
  BY <1>1, <1>2, TailProperties DEF Kept, Evicted, FirstInOrder
<1>4. entries' = [x \in Keys |->
                     IF x = k THEN [response |-> r, age |-> 0]
                     ELSE IF x \in Evicted THEN NoEntry
                     ELSE entries[x]]
  BY DEF PutStored
<1>5. [response |-> r, age |-> 0] \in Entry
  BY CacheAssumption DEF Entry
<1>6. entries' \in [Keys -> Entry \cup {NoEntry}]
  BY <1>4, <1>5 DEF IInv, TypeOK
<1>7. ResidentKeys' = (ResidentKeys \ Evicted) \cup {k}
  BY <1>4, <1>5, CacheAssumption DEF ResidentKeys, Resident
<1> QED
  BY <1>3, <1>6, <1>7 DEF PutStored

(* What a hit leaves behind. *)
LEMMA GetHitEffect ==
    ASSUME IInv, NEW k \in Keys, NEW r \in Responses, GetHit(k, r)
    PROVE  /\ order \in Seq(Keys)
           /\ IsInjective(order)
           /\ k \in Range(order)
           /\ order' = MovedToEnd(order, k)
           /\ ResidentKeys' = ResidentKeys
  BY DEF IInv, TypeOK, OrderIsResidents, GetHit, ResidentKeys, Resident

(* What a miss leaves behind. *)
LEMMA GetMissEffect ==
    ASSUME IInv, NEW k \in Keys, GetMiss(k)
    PROVE  /\ entries' \in [Keys -> Entry \cup {NoEntry}]
           /\ ResidentKeys' = ResidentKeys \ {k}
           /\ order' \in Seq(Keys)
           /\ Range(order') = Range(order) \ {k}
           /\ InOrderOf(order', order)
           /\ IsInjective(order')
<1>1. order \in Seq(Keys) /\ IsInjective(order) /\ Range(order) = ResidentKeys
  BY DEF IInv, TypeOK, OrderIsResidents
<1>2. CASE ~ Resident(k) /\ UNCHANGED cacheVars
  <2>1. k \notin Range(order)
    BY <1>1, <1>2 DEF ResidentKeys
  <2>2. InOrderOf(order, order)
    BY DEF InOrderOf
  <2> QED
    BY <1>1, <1>2, <2>1, <2>2
    DEF cacheVars, IInv, TypeOK, ResidentKeys, Resident
<1>3. CASE /\ entries' = [entries EXCEPT ![k] = NoEntry]
           /\ order' = RemoveFirst(order, k)
  <2>1. /\ order' \in Seq(Keys)
        /\ Range(order') = Range(order) \ {k}
        /\ InOrderOf(order', order)
    BY <1>1, <1>3, RemoveFirstProperties
  <2>2. IsInjective(order')
    BY <1>1, <2>1, InOrderOfInjective
  <2>3. entries' \in [Keys -> Entry \cup {NoEntry}]
    BY <1>3 DEF IInv, TypeOK
  <2>4. ResidentKeys' = ResidentKeys \ {k}
    BY <1>3 DEF IInv, TypeOK, ResidentKeys, Resident
  <2> QED
    BY <2>1, <2>2, <2>3, <2>4
<1> QED
  BY <1>2, <1>3 DEF GetMiss

(* A tick changes no list and forgets no key. *)
LEMMA TickEffect ==
    ASSUME IInv, CacheTick
    PROVE  /\ entries' \in [Keys -> Entry \cup {NoEntry}]
           /\ ResidentKeys' = ResidentKeys
           /\ order' = order
<1>1. \A e \in Entry : [e EXCEPT !.age = Older(e.age)] \in Entry
  BY CacheAssumption DEF Entry, Older
<1>2. ASSUME NEW x \in Keys
      PROVE  /\ entries'[x] \in Entry \cup {NoEntry}
             /\ entries'[x] = NoEntry <=> entries[x] = NoEntry
  BY <1>1, CacheAssumption DEF IInv, TypeOK, CacheTick, Resident
<1> QED
  BY <1>2 DEF CacheTick, ResidentKeys, Resident

-----------------------------------------------------------------------------

LEMMA InvInit == Init => IInv /\ SortedByRecency /\ WithinCapacity
<1> SUFFICES ASSUME Init
             PROVE  IInv /\ SortedByRecency /\ WithinCapacity
  OBVIOUS
<1>1. ResidentKeys = {}
  BY DEF Init, CacheInit, ResidentKeys, Resident
<1>2. order = <<>> /\ Len(order) = 0 /\ order \in Seq(Keys)
  BY EmptySeq DEF Init, CacheInit
<1>3. TypeOK
  BY <1>2 DEF Init, CacheInit, TypeOK
<1>4. OrderIsResidents
  BY <1>1, <1>2 DEF OrderIsResidents, Range, IsInjective
<1>5. SortedByRecency
  BY <1>2 DEF SortedByRecency
<1>6. WithinCapacity
  BY <1>1, FS_EmptySet, CacheAssumption DEF WithinCapacity
<1> QED
  BY <1>3, <1>4, <1>5, <1>6 DEF IInv

(* One operation, or none, whoever calls it and whatever is remembered of  *)
(* it.                                                                     *)
Operation ==
    \/ \E k \in Keys, r \in Responses : GetHit(k, r) \/ PutStored(k, r)
    \/ \E k \in Keys : GetMiss(k) \/ PutIgnored(k)
    \/ CacheTick
    \/ UNCHANGED cacheVars

LEMMA OperationKeepsWhole ==
    ASSUME IInv, Operation
    PROVE  /\ entries' \in [Keys -> Entry \cup {NoEntry}]
           /\ order' \in Seq(Keys)
           /\ OrderIsResidents'
<1> DEFINE Whole == /\ entries' \in [Keys -> Entry \cup {NoEntry}]
                    /\ order' \in Seq(Keys)
                    /\ OrderIsResidents'
<1>1. ASSUME NEW k \in Keys, NEW r \in Responses, GetHit(k, r)
      PROVE  Whole
  <2>1. /\ MovedToEnd(order, k) \in Seq(Keys)
        /\ Range(MovedToEnd(order, k)) = Range(order) \cup {k}
        /\ IsInjective(MovedToEnd(order, k))
    BY <1>1, GetHitEffect, MovedToEndProperties
  <2>2. entries' \in [Keys -> Entry \cup {NoEntry}]
    BY <1>1 DEF GetHit, IInv, TypeOK
  <2> QED
    BY <1>1, <2>1, <2>2, GetHitEffect DEF IInv, OrderIsResidents
<1>2. ASSUME NEW k \in Keys, GetMiss(k)
      PROVE  Whole
  BY <1>2, GetMissEffect DEF IInv, OrderIsResidents
<1>3. ASSUME NEW k \in Keys, NEW r \in Responses, PutStored(k, r)
      PROVE  Whole
  <2>1. /\ MovedToEnd(Kept, k) \in Seq(Keys)
        /\ Range(MovedToEnd(Kept, k)) = Range(Kept) \cup {k}
        /\ IsInjective(MovedToEnd(Kept, k))
    BY <1>3, PutStoredEffect, MovedToEndProperties
  <2> QED
    BY <1>3, <2>1, PutStoredEffect DEF OrderIsResidents
<1>4. CASE CacheTick
  BY <1>4, TickEffect DEF IInv, TypeOK, OrderIsResidents
<1>5. ASSUME UNCHANGED cacheVars
      PROVE  Whole
  BY <1>5 DEF cacheVars, IInv, TypeOK, OrderIsResidents, ResidentKeys, Resident
<1> QED
  BY <1>1, <1>2, <1>3, <1>4, <1>5 DEF Operation, PutIgnored

LEMMA UseIsTyped ==
    ASSUME usedAfter \in SUBSET (Keys \X Keys), NEW k \in Keys, Use(k)
    PROVE  usedAfter' \in SUBSET (Keys \X Keys)
  BY DEF Use

(* Arbitrary callers do nothing but operations. *)
LEMMA NextIsOperation == [Next]_vars => Operation
  BY DEF Next, Get, Put, Tick, vars, cacheVars, Operation

LEMMA InvStep == IInv /\ [Next]_vars => IInv'
<1> SUFFICES ASSUME IInv, [Next]_vars
             PROVE  IInv'
  OBVIOUS
<1>1. usedAfter' \in SUBSET (Keys \X Keys)
  BY UseIsTyped DEF IInv, TypeOK, Next, Get, Put, Tick, vars
<1> QED
  BY <1>1, NextIsOperation, OperationKeepsWhole DEF IInv, TypeOK

(* Every reachable state is typed and keeps the map and the order slice in *)
(* step: no path through Get or Put loses, repeats or strands a key.       *)
THEOREM InductiveInvariant == Spec => []IInv
  BY InvInit, InvStep, PTL DEF Spec

(* The variables have their types. *)
THEOREM CacheTyped == Spec => []TypeOK
  BY InductiveInvariant, PTL DEF IInv

(* The order slice lists exactly the resident keys, each once. *)
THEOREM CacheOrderIsResidents == Spec => []OrderIsResidents
  BY InductiveInvariant, PTL DEF IInv

-----------------------------------------------------------------------------

(* A list that keeps the order of a sorted one is sorted. *)
LEMMA SortedStaysSorted ==
    ASSUME SortedByRecency, InOrderOf(order', order), UNCHANGED usedAfter
    PROVE  SortedByRecency'
  BY DEF SortedByRecency, InOrderOf

(* Moving the key just used to the end of a sorted list keeps it sorted. *)
LEMMA UseKeepsSorted ==
    ASSUME SortedByRecency, NEW k \in Keys, Use(k),
           NEW s \in Seq(Keys), IsInjective(s), InOrderOf(s, order),
           order' = MovedToEnd(s, k)
    PROVE  SortedByRecency'
<1>1. PICK t : t = MovedToEnd(s, k)
  OBVIOUS
<1>2. t \in Seq(Keys) /\ EndsWith(t, k, s)
  BY <1>1, MovedToEndProperties
<1>3. SUFFICES ASSUME NEW i \in DOMAIN t, NEW j \in DOMAIN t, i < j
               PROVE  <<t[j], t[i]>> \in usedAfter'
  BY <1>1, Zenon DEF SortedByRecency
<1>4. t[i] \in Keys /\ t[j] \in Keys /\ t[i] # k
  BY <1>2, <1>3 DEF EndsWith
<1>5. CASE t[j] = k
  BY <1>4, <1>5 DEF Use
<1>6. CASE t[j] # k
  <2>1. PICK p \in DOMAIN s, q \in DOMAIN s : p < q /\ t[i] = s[p] /\ t[j] = s[q]
    BY <1>2, <1>3, <1>6 DEF EndsWith
  <2>2. PICK a \in DOMAIN order, b \in DOMAIN order :
           a < b /\ s[p] = order[a] /\ s[q] = order[b]
    BY <2>1 DEF InOrderOf
  <2>3. <<t[j], t[i]>> \in usedAfter
    BY <2>1, <2>2 DEF SortedByRecency
  <2> QED
    BY <1>4, <2>3 DEF Use
<1> QED
  BY <1>5, <1>6

LEMMA SortedStep == IInv /\ SortedByRecency /\ [Next]_vars => SortedByRecency'
<1> SUFFICES ASSUME IInv, SortedByRecency, [Next]_vars
             PROVE  SortedByRecency'
  OBVIOUS
<1>1. ASSUME NEW k \in Keys, NEW r \in Responses, GetHit(k, r), Use(k)
      PROVE  SortedByRecency'
  <2>1. InOrderOf(order, order)
    BY DEF InOrderOf
  <2> QED
    BY <1>1, <2>1, GetHitEffect, UseKeepsSorted
<1>2. ASSUME NEW k \in Keys, GetMiss(k), UNCHANGED usedAfter
      PROVE  SortedByRecency'
  BY <1>2, GetMissEffect, SortedStaysSorted
<1>3. ASSUME NEW k \in Keys, PutIgnored(k), UNCHANGED usedAfter
      PROVE  SortedByRecency'
  BY <1>3 DEF PutIgnored, cacheVars, SortedByRecency
<1>4. ASSUME NEW k \in Keys, NEW r \in Responses, PutStored(k, r), Use(k)
      PROVE  SortedByRecency'
  BY <1>4, PutStoredEffect, UseKeepsSorted
<1>5. ASSUME CacheTick, UNCHANGED usedAfter
      PROVE  SortedByRecency'
  BY <1>5 DEF CacheTick, SortedByRecency
<1>6. CASE UNCHANGED vars
  BY <1>6 DEF vars, SortedByRecency
<1> QED
  BY <1>1, <1>2, <1>3, <1>4, <1>5, <1>6 DEF Next, Get, Put, Tick

(* The order slice is sorted by recency of use in every reachable state.   *)
THEOREM CacheSorted == Spec => []SortedByRecency
<1>1. Init => IInv /\ SortedByRecency
  BY InvInit
<1>2. (IInv /\ SortedByRecency) /\ [Next]_vars => (IInv /\ SortedByRecency)'
  BY InvStep, SortedStep
<1> QED
  BY <1>1, <1>2, PTL DEF Spec

(* Every key the map holds is in the finite order slice. *)
LEMMA ResidentsFinite == ASSUME IInv PROVE IsFiniteSet(ResidentKeys)
<1>1. order \in Seq(Keys) /\ Range(order) = ResidentKeys
  BY DEF IInv, TypeOK, OrderIsResidents
<1>2. order \in Surjection(1 .. Len(order), ResidentKeys)
  BY <1>1 DEF Surjection, Range
<1>3. IsFiniteSet(1 .. Len(order))
  BY <1>1, FS_Interval
<1> QED
  BY <1>2, <1>3, FS_Surjection

LEMMA OperationKeepsCapacity ==
    ASSUME IInv, WithinCapacity, Operation
    PROVE  WithinCapacity'
<1> DEFINE cap == IF MaxEntries > 0 THEN MaxEntries ELSE 1
<1>1. IsFiniteSet(ResidentKeys) /\ Cardinality(ResidentKeys) <= cap
  BY ResidentsFinite DEF WithinCapacity
<1>2. ASSUME ResidentKeys' \in SUBSET ResidentKeys
      PROVE  WithinCapacity'
  <2>1. /\ Cardinality(ResidentKeys') <= Cardinality(ResidentKeys)
        /\ Cardinality(ResidentKeys') \in Nat
        /\ Cardinality(ResidentKeys) \in Nat
    BY <1>1, <1>2, FS_Subset, FS_CardinalityType
  <2> QED
    BY <1>1, <2>1, CacheAssumption DEF WithinCapacity
<1>3. ASSUME NEW k \in Keys, NEW r \in Responses, PutStored(k, r)
      PROVE  WithinCapacity'
  <2> DEFINE R == ResidentKeys \ Evicted
  <2>1. /\ ResidentKeys' = R \cup {k}
        /\ Range(Kept) = R
    BY <1>3, PutStoredEffect
  <2>2. IsFiniteSet(R) /\ Cardinality(R) \in Nat
    BY <1>1, FS_Subset, FS_CardinalityType
  <2>3. LoopStops(EvictionTurns)
    BY EvictionTurnsStop DEF IInv, TypeOK
  <2>4. Cardinality(R \cup {k}) = IF k \in R THEN Cardinality(R) ELSE Cardinality(R) + 1
    BY <2>2, FS_AddElement
  <2>5. CASE Cardinality(R) < MaxEntries
    <3>1. Cardinality(R \cup {k}) <= MaxEntries /\ MaxEntries > 0
      BY <2>2, <2>4, <2>5, CacheAssumption
    <3> QED
      BY <2>1, <3>1 DEF WithinCapacity
  <2>6. CASE EvictionTurns = Len(order)
    <3>1. R = {}
      BY <2>6 DEF IInv, TypeOK, OrderIsResidents, Evicted, FirstInOrder, Range
    <3>2. Cardinality(R \cup {k}) = 1
      <4> HIDE DEF R
      <4> QED
        BY <3>1, <2>4, FS_EmptySet
    <3> QED
      BY <2>1, <3>2, CacheAssumption DEF WithinCapacity
  <2> QED
    BY <2>3, <2>5, <2>6 DEF LoopStops, Evicted
<1>4. ASSUME NEW k \in Keys, NEW r \in Responses, GetHit(k, r)
      PROVE  WithinCapacity'
  BY <1>2, <1>4, GetHitEffect
<1>5. ASSUME NEW k \in Keys, GetMiss(k)
      PROVE  WithinCapacity'
  BY <1>2, <1>5, GetMissEffect
<1>6. ASSUME UNCHANGED cacheVars
      PROVE  WithinCapacity'
  BY <1>2, <1>6 DEF cacheVars, ResidentKeys, Resident
<1>7. CASE CacheTick
  BY <1>2, <1>7, TickEffect
<1> QED
  BY <1>3, <1>4, <1>5, <1>6, <1>7 DEF Operation, PutIgnored

LEMMA CapacityStep == IInv /\ WithinCapacity /\ [Next]_vars => WithinCapacity'
  BY NextIsOperation, OperationKeepsCapacity

(* The map never outgrows maxEntries, or one entry when maxEntries is not  *)
(* positive, whatever the callers do.                                      *)
THEOREM CacheWithinCapacity == Spec => []WithinCapacity
<1>1. Init => IInv /\ WithinCapacity
  BY InvInit
<1>2. (IInv /\ WithinCapacity) /\ [Next]_vars => (IInv /\ WithinCapacity)'
  BY InvStep, CapacityStep
<1> QED
  BY <1>1, <1>2, PTL DEF Spec

-----------------------------------------------------------------------------

LEMMA EvictionStep == IInv /\ SortedByRecency => EvictsOldestUse
<1> SUFFICES ASSUME IInv, SortedByRecency,
                    NEW k \in Keys, NEW r \in Responses, Put(k, r),
                    NEW gone \in ResidentKeys \ {k},
                    NEW stays \in ResidentKeys \ {k},
                    entries'[gone] = NoEntry, entries'[stays] # NoEntry
             PROVE  <<stays, gone>> \in usedAfter
  BY DEF EvictsOldestUse
<1>1. CASE PutIgnored(k)
  BY <1>1 DEF PutIgnored, cacheVars, ResidentKeys, Resident
<1>2. CASE PutStored(k, r)
  <2>1. order \in Seq(Keys) /\ Range(order) = ResidentKeys
    BY DEF IInv, TypeOK, OrderIsResidents
  <2>2. EvictionTurns \in 0 .. Len(order)
    BY <2>1, EvictionTurnsStop
  <2>3. gone \in Evicted /\ stays \notin Evicted
    BY <1>2 DEF PutStored, ResidentKeys, Resident
  <2>4. PICK a \in 1 .. EvictionTurns : order[a] = gone
    BY <2>3 DEF Evicted, FirstInOrder
  <2>5. PICK b \in DOMAIN order : order[b] = stays
    BY <2>1 DEF Range
  <2>6. a \in DOMAIN order /\ a < b
    BY <2>1, <2>2, <2>3, <2>4, <2>5 DEF Evicted, FirstInOrder
  <2> QED
    BY <2>4, <2>5, <2>6 DEF SortedByRecency
<1> QED
  BY <1>1, <1>2 DEF Put

(* A key is evicted only when every other key that stays was used later:   *)
(* dropping the front of the slice is dropping the least recently used.    *)
THEOREM CacheEvictsLRU == Spec => EvictsLeastRecentlyUsed
<1>1. Init => IInv /\ SortedByRecency
  BY InvInit
<1>2. (IInv /\ SortedByRecency) /\ [Next]_vars => (IInv /\ SortedByRecency)'
  BY InvStep, SortedStep
<1>3. IInv /\ SortedByRecency => EvictsOldestUse
  BY EvictionStep
<1> QED
  BY <1>1, <1>2, <1>3, PTL DEF Spec, EvictsLeastRecentlyUsed

-----------------------------------------------------------------------------

LEMMA ContractInit == Init => Contract!Init
  BY DEF Init, CacheInit, NoReply, Contract!Init, Contract!NoReply

LEMMA ContractStep == IInv /\ [Next]_vars => [Contract!Next]_(Contract!contractVars)
<1> SUFFICES ASSUME IInv, [Next]_vars
             PROVE  [Contract!Next]_(Contract!contractVars)
  OBVIOUS
<1> USE DEF Contract!Next, Contract!Known
<1>1. ASSUME NEW k \in Keys, NEW r \in Responses, GetHit(k, r), reply' = Hit(k, r)
      PROVE  Contract!GetHit(k)
  BY <1>1 DEF GetHit, Resident, Fresh, Hit, Contract!GetHit, Contract!Hit
<1>2. ASSUME NEW k \in Keys, GetMiss(k), reply' = Told("miss", k)
      PROVE  Contract!GetMiss(k)
  <2>1. entries' = [x \in Keys |-> IF x \in {k} THEN NoEntry ELSE entries[x]]
    BY <1>2 DEF IInv, TypeOK, GetMiss, Resident, cacheVars
  <2>2. Resident(k) => entries[k].age > TTL
    <3>1. Resident(k) => entries[k].age \in Int
      BY CacheAssumption DEF IInv, TypeOK, Resident, Entry
    <3> QED
      BY <1>2, <3>1, CacheAssumption DEF GetMiss, Fresh
  <2> QED
    BY <1>2, <2>1, <2>2
    DEF Resident, Told, Contract!GetMiss, Contract!Told, Contract!Forgets
<1>3. ASSUME NEW k \in Keys, PutIgnored(k), reply' = Told("ignored", k)
      PROVE  Contract!PutIgnored(k)
  BY <1>3 DEF PutIgnored, InDedupWindow, Resident, cacheVars, Told,
              Contract!PutIgnored, Contract!Told
<1>4. ASSUME NEW k \in Keys, NEW r \in Responses, PutStored(k, r),
             reply' = Told("stored", k)
      PROVE  Contract!PutStored(k, r)
  <2> DEFINE K == Evicted \cap Keys
  <2>1. entries' = [Contract!Forgets(K) EXCEPT ![k] = [response |-> r, age |-> 0]]
    BY <1>4 DEF PutStored, Contract!Forgets
  <2>2. Resident(k) => entries[k].age >= DedupWindow
    <3>1. Resident(k) => entries[k].age \in Int
      BY CacheAssumption DEF IInv, TypeOK, Resident, Entry
    <3> QED
      BY <1>4, <3>1, CacheAssumption DEF PutStored, InDedupWindow
  <2>3. K \in SUBSET Keys
    OBVIOUS
  <2> HIDE DEF K
  <2> QED
    BY <1>4, <2>1, <2>2, <2>3 DEF Resident, Told, Contract!PutStored, Contract!Told
<1>5. ASSUME CacheTick, UNCHANGED reply
      PROVE  Contract!Tick
  BY <1>5 DEF CacheTick, Resident, Older, Contract!Tick
<1>6. CASE UNCHANGED vars
  BY <1>6 DEF vars, Contract!contractVars
<1> QED
  BY <1>1, <1>2, <1>3, <1>4, <1>5, <1>6 DEF Next, Get, Put, Tick

(* The cache implements CacheContract: the order slice, the capacity and   *)
(* the eviction loop can make it forget, and never make it answer wrongly. *)
THEOREM CacheImplementsContract == Spec => ImplementsContract
<1>1. Spec => []IInv
  BY InductiveInvariant
<1> QED
  BY <1>1, ContractInit, ContractStep, PTL
  DEF Spec, ImplementsContract, Contract!Spec
=============================================================================

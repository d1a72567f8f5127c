---------------------------- MODULE Cache_proof ----------------------------
(***************************************************************************)
(* Proofs about the answer cache: the map and the list agree, the TTLs     *)
(* told are honest, and only the least recently used entry is evicted, for *)
(* every set of keys, size of the cache and choice of the TTL bounds.      *)
(***************************************************************************)
EXTENDS MCCache, FiniteSetTheorems, SequenceTheorems, TLAPS

\* The smallest element a set of natural numbers has: what RespTtl chooses.
LEMMA LeastNatural ==
  ASSUME NEW T \in SUBSET Nat, T # {}
  PROVE  \E x \in T : \A y \in T : x <= y
<1>. DEFINE R == {ss \in Nat \X Nat : ss[1] < ss[2]}
<1>1. IsWellFoundedOn(R, Nat)
  BY NatLessThanWellFounded DEF OpToRel
<1>2. \A x, y \in Nat : <<y, x>> \in R <=> y < x
  OBVIOUS
<1>. HIDE DEF R
<1>3. PICK x \in T : \A y \in T : ~(<<y, x>> \in R)
  BY <1>1, WFMin
<1>4. ASSUME NEW y \in T PROVE x <= y
  <2>1. x \in Nat /\ y \in Nat OBVIOUS
  <2>2. ~(y < x) BY <1>2, <1>3, <2>1
  <2>. QED BY <2>1, <2>2
<1>. QED BY <1>4

\* An answer's lifetime in the cache is a time (cache.go:68-96).
LEMMA RespTtlType ==
  ASSUME NEW m \in Message
  PROVE  RespTtl(m) \in Nat
<1>. DEFINE shortest == CHOOSE t \in m.ttls : \A s \in m.ttls : t <= s
            least == IF m.ttls = {} THEN EmptyTtl ELSE shortest * Second
<1>1. m.ttls \in SUBSET Nat
  BY CacheAssumption DEF Message
<1>2. least \in Nat
  <2>1. CASE m.ttls = {} BY <2>1, CacheAssumption
  <2>2. CASE m.ttls # {}
    <3>1. shortest \in Nat BY <2>2, <1>1, LeastNatural
    <3>2. least = shortest * Second BY <2>2
    <3>. HIDE DEF shortest, least
    <3>. QED BY <3>1, <3>2, CacheAssumption
  <2>. QED BY <2>1, <2>2
<1>. HIDE DEF least
<1>3. RespTtl(m) = Smaller(Greater(least, MinTtl), MaxTtl)
  BY DEF RespTtl, least
<1>. QED BY <1>2, <1>3, CacheAssumption DEF Smaller, Greater
-----------------------------------------------------------------------------
(* The list. *)

\* Under a key the map knows there is exactly one element of the list.
LEMMA PlaceOfKey ==
  ASSUME CacheConsistent, NEW k \in byKey
  PROVE  /\ Place(k) \in 1..Len(lru)
         /\ lru[Place(k)].key = k
         /\ \A i \in 1..Len(lru) : lru[i].key = k => i = Place(k)
<1>1. DOMAIN lru = 1..Len(lru)
  BY DEF CacheConsistent, CacheTypeOK
<1>2. \E i \in DOMAIN lru : lru[i].key = k
  BY DEF CacheConsistent, MapIsList
<1>. QED BY <1>1, <1>2 DEF Place, CacheConsistent, MapIsList

\* What list holds is taken from lru, in the order it has there.
InOrder(list) ==
  /\ list \in Seq(Entry)
  /\ \A i \in 1..Len(list) : \E p \in 1..Len(lru) : list[i] = lru[p]
  /\ \A i, j \in 1..Len(list) : i < j =>
       \E p, q \in 1..Len(lru) : p < q /\ list[i] = lru[p] /\ list[j] = lru[q]

\* So no key stands in it twice.
LEMMA InOrderDistinct ==
  ASSUME CacheConsistent, NEW list, InOrder(list)
  PROVE  \A i, j \in 1..Len(list) : list[i].key = list[j].key => i = j
<1>1. lru \in Seq(Entry) /\ DOMAIN lru = 1..Len(lru)
      /\ \A p, q \in DOMAIN lru : lru[p].key = lru[q].key => p = q
  BY DEF CacheConsistent, CacheTypeOK, MapIsList
<1>2. ASSUME NEW i \in 1..Len(list), NEW j \in 1..Len(list), i < j
      PROVE  list[i].key # list[j].key
  <2>1. PICK p, q \in 1..Len(lru) : p < q /\ list[i] = lru[p] /\ list[j] = lru[q]
    BY <1>2 DEF InOrder
  <2>. QED BY <2>1, <1>1
<1>3. \A i, j \in 1..Len(list) : i < j \/ j < i \/ i = j
  BY DEF InOrder
<1>. QED BY <1>2, <1>3

KeysOf(list) == {list[i].key : i \in 1..Len(list)}

\* Taking an element out leaves the others in order, and its key nowhere.
LEMMA WithoutProperties ==
  ASSUME CacheConsistent, NEW k \in Keys
  PROVE  /\ InOrder(Without(k))
         /\ Len(Without(k)) = IF k \in byKey THEN Len(lru) - 1 ELSE Len(lru)
         /\ KeysOf(Without(k)) = byKey \ {k}
<1>1. lru \in Seq(Entry) /\ DOMAIN lru = 1..Len(lru) /\ Len(lru) \in Nat
  BY DEF CacheConsistent, CacheTypeOK
<1>2. byKey = KeysOf(lru)
  BY <1>1 DEF CacheConsistent, MapIsList, KeysOf
<1>3. CASE k \notin byKey
  <2>1. Without(k) = lru BY <1>3 DEF Without
  <2>. QED BY <2>1, <1>1, <1>2, <1>3 DEF InOrder
<1>4. CASE k \in byKey
  <2>. DEFINE n == Len(lru) - 1
              w == [i \in 1..n |-> IF i < Place(k) THEN lru[i] ELSE lru[i + 1]]
  <2>1. Without(k) = w BY <1>4 DEF Without
  <2>2. /\ Place(k) \in 1..Len(lru) /\ lru[Place(k)].key = k
        /\ \A i \in 1..Len(lru) : lru[i].key = k => i = Place(k)
    BY <1>4, PlaceOfKey
  <2>3. n \in Nat BY <1>1, <2>2
  <2>4. ASSUME NEW i \in 1..n
        PROVE  /\ w[i] = lru[IF i < Place(k) THEN i ELSE i + 1]
               /\ w[i] \in Entry /\ w[i].key # k
    BY <1>1, <2>2
  <2>5. w \in Seq(Entry) /\ Len(w) = n
    BY <2>3, <2>4, IsASeq
  <2>. HIDE DEF w
  <2>6. InOrder(w)
    <3>1. ASSUME NEW i \in 1..n PROVE \E p \in 1..Len(lru) : w[i] = lru[p]
      BY <1>1, <2>4
    <3>2. ASSUME NEW i \in 1..n, NEW j \in 1..n, i < j
          PROVE  \E p, q \in 1..Len(lru) : p < q /\ w[i] = lru[p] /\ w[j] = lru[q]
      <4>. DEFINE at(x) == IF x < Place(k) THEN x ELSE x + 1
      <4>1. at(i) \in 1..Len(lru) /\ at(j) \in 1..Len(lru) /\ at(i) < at(j)
        BY <1>1, <2>2, <3>2
      <4>2. w[i] = lru[at(i)] /\ w[j] = lru[at(j)]
        BY <2>4
      <4>. QED BY <4>1, <4>2
    <3>. QED BY <3>1, <3>2, <2>5 DEF InOrder
  <2>7. KeysOf(w) = byKey \ {k}
    <3>1. KeysOf(w) \subseteq byKey \ {k}
      BY <2>4, <2>5, <1>1, <1>2 DEF KeysOf
    <3>2. ASSUME NEW x \in byKey \ {k} PROVE x \in KeysOf(w)
      <4>1. PICK p \in 1..Len(lru) : lru[p].key = x BY <1>2 DEF KeysOf
      <4>2. p # Place(k) BY <4>1, <2>2
      <4>. DEFINE i == IF p < Place(k) THEN p ELSE p - 1
      <4>3. i \in 1..n /\ w[i] = lru[p] BY <4>2, <2>2, <2>4, <1>1
      <4>. QED BY <4>1, <4>3, <2>5 DEF KeysOf
    <3>. QED BY <3>1, <3>2
  <2>. QED BY <2>1, <2>5, <2>6, <2>7, <1>4
<1>. QED BY <1>3, <1>4

\* An entry put in front of what is left of the list without its key, with or
\* without the end cut off: every key stands in it once.
LEMMA FrontProperties ==
  ASSUME CacheConsistent, NEW k \in Keys, NEW e \in Entry, e.key = k,
         NEW list \in Seq(Entry), Len(list) >= 1, Len(list) <= Len(Without(k)) + 1,
         \A i \in 1..Len(list) : list[i] = IF i = 1 THEN e ELSE Without(k)[i - 1]
  PROVE  /\ \A i \in 2..Len(list) : list[i].key \in byKey \ {k}
         /\ \A i, j \in 1..Len(list) : i < j /\ i > 1 =>
              \E p, q \in 1..Len(lru) : p < q /\ list[i] = lru[p] /\ list[j] = lru[q]
         /\ \A i, j \in 1..Len(list) : list[i].key = list[j].key => i = j
         /\ Len(list) = Len(Without(k)) + 1 => KeysOf(list) = byKey \cup {k}
<1>. DEFINE w == Without(k)
<1>1. InOrder(w) /\ KeysOf(w) = byKey \ {k}
  BY WithoutProperties
<1>2. \A p, q \in 1..Len(lru) : p < q => lru[p].key # lru[q].key
  BY DEF CacheConsistent, CacheTypeOK, MapIsList
<1>3. w \in Seq(Entry) /\ Len(w) \in Nat /\ Len(list) \in Nat
  BY <1>1 DEF InOrder
<1>4. Len(list) <= Len(w) + 1 /\ \A i \in 2..Len(list) : list[i] = w[i - 1]
  BY <1>3
<1>5. list[1] = e
  BY <1>3
<1>. HIDE DEF w
<1>6. ASSUME NEW i \in 2..Len(list) PROVE i - 1 \in 1..Len(w) /\ list[i] = w[i - 1]
  BY <1>3, <1>4
<1>7. ASSUME NEW i \in 2..Len(list) PROVE list[i].key \in byKey \ {k}
  <2>1. w[i - 1].key \in KeysOf(w) BY <1>6 DEF KeysOf
  <2>. QED BY <1>1, <1>6, <2>1
<1>8. ASSUME NEW i \in 2..Len(list), NEW j \in 2..Len(list), i < j
      PROVE  \E p, q \in 1..Len(lru) : p < q /\ list[i] = lru[p] /\ list[j] = lru[q]
  <2>1. i - 1 < j - 1 /\ i - 1 \in 1..Len(w) /\ j - 1 \in 1..Len(w)
    BY <1>3, <1>6, <1>8
  <2>2. \E p, q \in 1..Len(lru) : p < q /\ w[i - 1] = lru[p] /\ w[j - 1] = lru[q]
    BY <2>1, <1>1 DEF InOrder
  <2>. QED BY <2>2, <1>6
<1>9. ASSUME NEW i \in 1..Len(list), NEW j \in 1..Len(list), i < j
      PROVE  list[i].key # list[j].key
  <2>1. CASE i = 1
    BY <2>1, <1>3, <1>5, <1>7, <1>9
  <2>2. CASE i # 1
    <3>1. i \in 2..Len(list) /\ j \in 2..Len(list) BY <2>2, <1>3, <1>9
    <3>2. PICK p, q \in 1..Len(lru) : p < q /\ list[i] = lru[p] /\ list[j] = lru[q]
      BY <3>1, <1>8, <1>9
    <3>. QED BY <3>2, <1>2
  <2>. QED BY <2>1, <2>2
<1>10. \A i, j \in 1..Len(list) : list[i].key = list[j].key => i = j
  <2>1. \A i, j \in 1..Len(list) : i < j \/ j < i \/ i = j BY <1>3
  <2>. QED BY <2>1, <1>9
<1>11. ASSUME Len(list) = Len(w) + 1 PROVE KeysOf(list) = byKey \cup {k}
  <2>1. KeysOf(list) \subseteq byKey \cup {k}
    <3>1. ASSUME NEW i \in 1..Len(list) PROVE list[i].key \in byKey \cup {k}
      BY <1>3, <1>5, <1>7
    <3>. QED BY <3>1 DEF KeysOf
  <2>2. k \in KeysOf(list) BY <1>3, <1>5 DEF KeysOf
  <2>3. ASSUME NEW x \in byKey \ {k} PROVE x \in KeysOf(list)
    <3>1. PICK i \in 1..Len(w) : w[i].key = x BY <1>1 DEF KeysOf
    <3>2. i + 1 \in 2..Len(list) /\ list[i + 1] = w[i] BY <3>1, <1>3, <1>4, <1>11
    <3>. QED BY <3>1, <3>2 DEF KeysOf
  <2>. QED BY <2>1, <2>2, <2>3
<1>. QED BY <1>3, <1>7, <1>8, <1>10, <1>11 DEF w

LEMMA FoundType ==
  ASSUME CacheConsistent, NEW k \in byKey
  PROVE  Found(k) \in Entry /\ Found(k).key = k
BY PlaceOfKey DEF Found, CacheConsistent, CacheTypeOK

\* What Put makes of the list.
Stored(k, m) == <<[key |-> k, msg |-> m, ttl |-> RespTtl(m), age |-> 0]>> \o Without(k)

LEMMA StoreProperties ==
  ASSUME CacheConsistent, NEW k \in Keys, NEW m \in Message, Store(k, m)
  PROVE  /\ lru' \in Seq(Entry)
         /\ Len(lru') = Smaller(Len(Without(k)) + 1, Max)
         /\ \A i \in 1..Len(lru') : lru'[i] = Stored(k, m)[i]
         /\ lru'[1].key = k
         /\ \A i \in 2..Len(lru') : lru'[i] = Without(k)[i - 1]
         /\ byKey' = KeysOf(lru')
<1>. DEFINE e == [key |-> k, msg |-> m, ttl |-> RespTtl(m), age |-> 0]
            w == Without(k)
            all == <<e>> \o w
<1>1. e \in Entry BY RespTtlType DEF Entry
<1>2. w \in Seq(Entry) /\ Len(w) \in Nat BY WithoutProperties DEF InOrder
<1>3. lru' = SubSeq(all, 1, Smaller(Len(all), Max))
      /\ byKey' = {lru'[i].key : i \in DOMAIN lru'}
  BY DEF Store
<1>. HIDE DEF e, w
<1>4. all \in Seq(Entry) /\ Len(all) = Len(w) + 1 /\ all[1] = e
      /\ \A i \in 2..Len(all) : all[i] = w[i - 1]
  BY <1>1, <1>2
<1>. HIDE DEF all
<1>. DEFINE n == Smaller(Len(all), Max)
<1>5. n \in 1..Len(all) /\ n = Smaller(Len(w) + 1, Max)
  BY <1>2, <1>4, CacheAssumption DEF Smaller
<1>. HIDE DEF n
<1>6. lru' \in Seq(Entry) /\ Len(lru') = n /\ \A i \in 1..n : lru'[i] = all[i]
  BY <1>2, <1>3, <1>4, <1>5 DEF n
<1>7. lru'[1] = e /\ \A i \in 2..n : lru'[i] = w[i - 1]
  BY <1>2, <1>4, <1>5, <1>6
<1>8. e.key = k BY DEF e
<1>9. DOMAIN lru' = 1..Len(lru') BY <1>6
<1>. QED BY <1>3, <1>5, <1>6, <1>7, <1>8, <1>9 DEF Stored, KeysOf, e, w, all

\* DeleteIf keeps what it keeps in order, and the keys of that in the map.
LEMMA DeleteProperties ==
  ASSUME CacheConsistent, NEW drop, DeleteIf(drop)
  PROVE  InOrder(lru') /\ Len(lru') <= Max /\ byKey' = KeysOf(lru') /\ byKey' \subseteq byKey
<1>1. lru \in Seq(Entry) /\ DOMAIN lru = 1..Len(lru) /\ Len(lru) \in Nat /\ Len(lru) <= Max
  BY DEF CacheConsistent, CacheTypeOK
<1>. DEFINE stay == {i \in 1..Len(lru) : lru[i].msg \notin drop}
            n == Cardinality(stay)
<1>2. byKey' = {k \in byKey : Found(k).msg \notin drop}
  BY DEF DeleteIf
<1>3. PICK f \in [1..n -> stay] :
        /\ {f[i] : i \in 1..n} = stay
        /\ \A i, j \in 1..n : i < j => f[i] < f[j]
        /\ lru' = [i \in 1..n |-> lru[f[i]]]
  BY <1>1 DEF DeleteIf
<1>4. n \in Nat /\ n <= Len(lru)
  <2>. DEFINE len == Len(lru)
  <2>1. len \in Nat BY <1>1
  <2>. HIDE DEF len
  <2>2. IsFiniteSet(1..len) /\ Cardinality(1..len) = len
    BY <2>1, FS_Interval
  <2>3. stay \in SUBSET (1..len) BY DEF len
  <2>. HIDE DEF stay
  <2>4. IsFiniteSet(stay) /\ Cardinality(stay) <= Cardinality(1..len)
    BY <2>2, <2>3, FS_Subset
  <2>. QED BY <2>2, <2>4, FS_CardinalityType DEF len
<1>5. \A i \in stay : i \in 1..Len(lru) /\ lru[i] \in Entry /\ lru[i].msg \notin drop
  BY <1>1
<1>6. \A i \in 1..Len(lru) : lru[i].msg \notin drop => i \in stay
  OBVIOUS
<1>. HIDE DEF n, stay
<1>7. \A i \in 1..n : f[i] \in stay /\ lru'[i] = lru[f[i]]
  BY <1>3
<1>8. lru' \in Seq(Entry) /\ Len(lru') = n
  BY <1>3, <1>4, <1>5, IsASeq
<1>9. InOrder(lru')
  BY <1>3, <1>4, <1>5, <1>7, <1>8 DEF InOrder
<1>10. byKey' \subseteq KeysOf(lru')
  <2>. SUFFICES ASSUME NEW k \in byKey, Found(k).msg \notin drop PROVE k \in KeysOf(lru')
    BY <1>2
  <2>1. Place(k) \in 1..Len(lru) /\ lru[Place(k)].key = k BY PlaceOfKey
  <2>2. Place(k) \in stay BY <2>1, <1>6 DEF Found
  <2>3. PICK i \in 1..n : f[i] = Place(k) BY <2>2, <1>3
  <2>. QED BY <2>1, <2>3, <1>7, <1>8 DEF KeysOf
<1>11. KeysOf(lru') \subseteq byKey'
  <2>. SUFFICES ASSUME NEW i \in 1..n PROVE lru'[i].key \in byKey'
    BY <1>8 DEF KeysOf
  <2>1. f[i] \in 1..Len(lru) /\ lru[f[i]].msg \notin drop BY <1>5, <1>7
  <2>. DEFINE k == lru[f[i]].key
  <2>2. k \in byKey BY <2>1, <1>1 DEF CacheConsistent, MapIsList
  <2>3. Place(k) = f[i] BY <2>1, <2>2, PlaceOfKey
  <2>. QED BY <2>1, <2>2, <2>3, <1>2, <1>7 DEF Found
<1>12. Len(lru') <= Max
  BY <1>1, <1>4, <1>8, CacheAssumption
<1>. QED BY <1>2, <1>9, <1>10, <1>11, <1>12

\* Time changes nothing but the ages.
LEMMA AgeProperties ==
  ASSUME CacheConsistent, Age
  PROVE  /\ lru' \in Seq(Entry) /\ Len(lru') = Len(lru) /\ byKey' = byKey
         /\ \A i \in 1..Len(lru) : lru'[i].key = lru[i].key
<1>1. lru \in Seq(Entry) /\ DOMAIN lru = 1..Len(lru) /\ Len(lru) \in Nat
  BY DEF CacheConsistent, CacheTypeOK
<1>. DEFINE older(i) == [lru[i] EXCEPT !.age = Smaller(@ + 1, lru[i].ttl + MaxStale)]
<1>2. lru' = [i \in 1..Len(lru) |-> older(i)] /\ byKey' = byKey
  BY <1>1 DEF Age
<1>3. ASSUME NEW i \in 1..Len(lru) PROVE older(i) \in Entry /\ older(i).key = lru[i].key
  <2>1. lru[i] \in Entry BY <1>1
  <2>2. Smaller(lru[i].age + 1, lru[i].ttl + MaxStale) \in Nat
    BY <2>1, CacheAssumption DEF Entry, Smaller
  <2>. QED BY <2>1, <2>2 DEF Entry
<1>. HIDE DEF older
<1>. QED BY <1>1, <1>2, <1>3, IsASeq
-----------------------------------------------------------------------------
(* Consistency. *)

\* What Store leaves in the list is fit for FrontProperties.
LEMMA StoreFront ==
  ASSUME CacheConsistent, NEW k \in Keys, NEW m \in Message, Store(k, m)
  PROVE  /\ lru' \in Seq(Entry) /\ Len(lru') >= 1 /\ Len(lru') <= Max
         /\ Len(lru') <= Len(Without(k)) + 1
         /\ lru'[1] \in Entry /\ lru'[1].key = k
         /\ \A i \in 1..Len(lru') : lru'[i] = IF i = 1 THEN lru'[1] ELSE Without(k)[i - 1]
         /\ byKey' = KeysOf(lru')
<1>1. Without(k) \in Seq(Entry) /\ Len(Without(k)) \in Nat
  BY WithoutProperties DEF InOrder
<1>2. Len(lru') = Smaller(Len(Without(k)) + 1, Max) /\ lru' \in Seq(Entry)
  BY StoreProperties
<1>3. Len(lru') \in Nat /\ Len(lru') >= 1 /\ Len(lru') <= Max /\ Len(lru') <= Len(Without(k)) + 1
  BY <1>1, <1>2, CacheAssumption DEF Smaller
<1>4. lru'[1] \in Entry BY <1>2, <1>3
<1>. QED BY <1>2, <1>3, <1>4, StoreProperties

LEMMA StoreConsistent ==
  ASSUME CacheConsistent, NEW k \in Keys, NEW m \in Message, Store(k, m)
  PROVE  CacheConsistent'
<1>1. /\ lru' \in Seq(Entry) /\ Len(lru') <= Max
      /\ \A i, j \in 1..Len(lru') : lru'[i].key = lru'[j].key => i = j
  <2>1. /\ lru' \in Seq(Entry) /\ Len(lru') >= 1 /\ Len(lru') <= Max
        /\ Len(lru') <= Len(Without(k)) + 1
        /\ lru'[1] \in Entry /\ lru'[1].key = k
        /\ \A i \in 1..Len(lru') : lru'[i] = IF i = 1 THEN lru'[1] ELSE Without(k)[i - 1]
    BY StoreFront
  <2>2. \A i, j \in 1..Len(lru') : lru'[i].key = lru'[j].key => i = j
    BY <2>1, FrontProperties
  <2>. QED BY <2>1, <2>2
<1>2. byKey' = KeysOf(lru') /\ DOMAIN lru' = 1..Len(lru')
  BY <1>1, StoreFront
<1>3. byKey' \subseteq Keys
  <2>1. \A i \in 1..Len(lru') : lru'[i] \in Entry BY <1>1
  <2>2. \A e \in Entry : e.key \in Keys BY DEF Entry
  <2>. QED BY <1>2, <2>1, <2>2 DEF KeysOf
<1>. QED BY <1>1, <1>2, <1>3 DEF CacheConsistent, CacheTypeOK, MapIsList, KeysOf

\* A hit moves to the front, and the others stay in order behind it.
LEMMA HitFront ==
  ASSUME CacheConsistent, NEW k \in byKey, lru' = <<Found(k)>> \o Without(k)
  PROVE  /\ lru' \in Seq(Entry) /\ Len(lru') >= 1 /\ Len(lru') = Len(Without(k)) + 1
         /\ Len(lru') = Len(lru)
         /\ lru'[1] = Found(k) /\ Found(k) \in Entry /\ Found(k).key = k
         /\ \A i \in 1..Len(lru') : lru'[i] = IF i = 1 THEN Found(k) ELSE Without(k)[i - 1]
<1>. DEFINE w == Without(k)
            e == Found(k)
<1>1. e \in Entry /\ e.key = k BY FoundType
<1>2. w \in Seq(Entry) /\ Len(w) = Len(lru) - 1 /\ Len(lru) \in Nat
  BY WithoutProperties DEF InOrder, CacheConsistent, CacheTypeOK
<1>3. lru' = <<e>> \o w OBVIOUS
<1>. HIDE DEF w, e
<1>4. <<e>> \o w \in Seq(Entry) /\ Len(<<e>> \o w) = Len(w) + 1 /\ (<<e>> \o w)[1] = e
      /\ \A i \in 2..(Len(w) + 1) : (<<e>> \o w)[i] = w[i - 1]
  BY <1>1, <1>2
<1>. QED BY <1>1, <1>2, <1>3, <1>4 DEF w, e

LEMMA LookupConsistent ==
  ASSUME CacheConsistent, NEW k \in Keys, Lookup(k)
  PROVE  CacheConsistent'
<1>. USE DEF CacheConsistent, CacheTypeOK, MapIsList
<1>1. CASE UNCHANGED store
  BY <1>1 DEF store
<1>2. CASE k \in byKey /\ lru' = Without(k) /\ byKey' = byKey \ {k}
  <2>1. InOrder(lru') /\ Len(lru') = Len(lru) - 1 /\ KeysOf(lru') = byKey'
    BY <1>2, WithoutProperties
  <2>2. Len(lru) \in Nat /\ DOMAIN lru = 1..Len(lru) OBVIOUS
  <2>3. Len(lru') <= Max BY <2>1, <2>2, CacheAssumption
  <2>4. lru' \in Seq(Entry) /\ Len(lru') \in Nat /\ DOMAIN lru' = 1..Len(lru')
    BY <2>1 DEF InOrder
  <2>5. \A i, j \in 1..Len(lru') : lru'[i].key = lru'[j].key => i = j
    BY <2>1, InOrderDistinct
  <2>. QED BY <1>2, <2>1, <2>3, <2>4, <2>5 DEF KeysOf
<1>3. CASE k \in byKey /\ lru' = <<Found(k)>> \o Without(k) /\ byKey' = byKey
  <2>1. /\ lru' \in Seq(Entry) /\ Len(lru') = Len(lru) /\ KeysOf(lru') = byKey
        /\ \A i, j \in 1..Len(lru') : lru'[i].key = lru'[j].key => i = j
    <3>1. /\ lru' \in Seq(Entry) /\ Len(lru') >= 1 /\ Len(lru') = Len(Without(k)) + 1
          /\ Len(lru') = Len(lru) /\ Found(k) \in Entry /\ Found(k).key = k
          /\ \A i \in 1..Len(lru') : lru'[i] = IF i = 1 THEN Found(k) ELSE Without(k)[i - 1]
      BY <1>3, HitFront
    <3>2. Len(lru') <= Len(Without(k)) + 1 BY <3>1
    <3>3. KeysOf(lru') = byKey \cup {k}
      BY <3>1, <3>2, FrontProperties
    <3>4. \A i, j \in 1..Len(lru') : lru'[i].key = lru'[j].key => i = j
      BY <3>1, <3>2, FrontProperties
    <3>. QED BY <1>3, <3>1, <3>3, <3>4
  <2>2. DOMAIN lru' = 1..Len(lru') BY <2>1
  <2>. QED BY <1>3, <2>1, <2>2 DEF KeysOf
<1>. QED BY <1>1, <1>2, <1>3 DEF Lookup

LEMMA DeletionConsistent ==
  ASSUME CacheConsistent, Deletion
  PROVE  CacheConsistent'
<1>1. PICK drop : DeleteIf(drop) BY DEF Deletion
<1>2. InOrder(lru') /\ Len(lru') <= Max /\ byKey' = KeysOf(lru') /\ byKey' \subseteq byKey
  BY <1>1, DeleteProperties
<1>3. lru' \in Seq(Entry) /\ Len(lru') \in Nat /\ DOMAIN lru' = 1..Len(lru')
  BY <1>2 DEF InOrder
<1>4. \A i, j \in 1..Len(lru') : lru'[i].key = lru'[j].key => i = j
  BY <1>2, InOrderDistinct
<1>. QED BY <1>2, <1>3, <1>4 DEF CacheConsistent, CacheTypeOK, MapIsList, KeysOf

LEMMA AgeConsistent ==
  ASSUME CacheConsistent, Age
  PROVE  CacheConsistent'
<1>1. /\ lru' \in Seq(Entry) /\ Len(lru') = Len(lru) /\ byKey' = byKey
      /\ \A i \in 1..Len(lru) : lru'[i].key = lru[i].key
  BY AgeProperties
<1>2. DOMAIN lru' = 1..Len(lru) /\ DOMAIN lru = 1..Len(lru)
  BY <1>1 DEF CacheConsistent, CacheTypeOK
<1>. QED BY <1>1, <1>2 DEF CacheConsistent, CacheTypeOK, MapIsList

LEMMA CacheStep ==
  ASSUME CacheConsistent, [CacheNext]_store
  PROVE  CacheConsistent'
<1>1. ASSUME NEW k \in Keys, Lookup(k) PROVE CacheConsistent'
  BY <1>1, LookupConsistent
<1>2. ASSUME NEW k \in Keys, NEW m \in Message, Store(k, m) PROVE CacheConsistent'
  BY <1>2, StoreConsistent
<1>3. CASE Deletion BY <1>3, DeletionConsistent
<1>4. CASE Age BY <1>4, AgeConsistent
<1>5. CASE UNCHANGED store
  BY <1>5 DEF store, CacheConsistent, CacheTypeOK, MapIsList
<1>. QED BY <1>1, <1>2, <1>3, <1>4, <1>5 DEF CacheNext

\* The cache never holds more than Max entries, each key once, and the map knows
\* exactly the keys of the list, after every sequence of Put, Get, GetStale and
\* DeleteIf (cache.go:107-202).
THEOREM CacheStaysConsistent == CacheSpec => []CacheConsistent
<1>1. CacheInit => CacheConsistent
  <2>. SUFFICES ASSUME CacheInit PROVE CacheConsistent OBVIOUS
  <2>1. lru = <<>> /\ byKey = {} BY DEF CacheInit
  <2>2. <<>> \in Seq(Entry) /\ Len(<<>>) = 0 /\ DOMAIN <<>> = {} OBVIOUS
  <2>. QED BY <2>1, <2>2, CacheAssumption DEF CacheConsistent, CacheTypeOK, MapIsList
<1>. QED BY <1>1, CacheStep, PTL DEF CacheSpec

\* Dividing by a positive number and multiplying again loses less than it.
LEMMA WholeSeconds ==
  ASSUME NEW d \in Nat
  PROVE  /\ d \div Second \in Nat
         /\ (d \div Second) * Second <= d
         /\ d < (d \div Second) * Second + Second
BY CacheAssumption

\* No client is told a TTL of 0, nor one that lets it keep an answer a second or
\* more beyond both the upstream's own TTL and the lifetime in the cache: the age
\* is cut down to whole seconds, and no more is lost (cache.go:127-141).
THEOREM TtlStaysHonest == CacheSpec => []HonestTtl
<1>1. CacheConsistent => HonestTtl
  <2>. SUFFICES ASSUME CacheConsistent, NEW k \in byKey, Fresh(Found(k)),
                       NEW t \in Remaining(Found(k))
                PROVE  t > 0 /\ \E s \in Found(k).msg.ttls :
                         t * Second + Found(k).age < Greater(s * Second, Found(k).ttl) + Second
    BY DEF HonestTtl
  <2>. DEFINE e == Found(k)
              dec == e.age \div Second
  <2>1. e \in Entry /\ e.age < e.ttl BY FoundType DEF Fresh
  <2>2. e.age \in Nat /\ e.ttl \in Nat /\ e.msg.ttls \subseteq Nat /\ Second \in Nat \ {0}
    BY <2>1, CacheAssumption DEF Entry, Message
  <2>3. PICK s \in e.msg.ttls : t = IF s > dec THEN s - dec ELSE 1
    BY DEF Remaining
  <2>4. dec \in Nat /\ dec * Second <= e.age /\ e.age < dec * Second + Second
    BY <2>2, WholeSeconds
  <2>. HIDE DEF dec
  <2>. HIDE DEF e
  <2>5. s \in Nat BY <2>2
  <2>6. t > 0 /\ t * Second + e.age < Greater(s * Second, e.ttl) + Second
    <3>1. s * Second \in Nat /\ Greater(s * Second, e.ttl) >= s * Second
          /\ Greater(s * Second, e.ttl) >= e.ttl
      BY <2>2, <2>5 DEF Greater
    <3>2. Greater(s * Second, e.ttl) \in Nat
      BY <2>2, <3>1 DEF Greater
    <3>3. CASE s > dec
      <4>1. t = s - dec BY <2>3, <3>3
      <4>2. t * Second = s * Second - dec * Second BY <4>1, <2>2, <2>4, <2>5
      <4>3. dec * Second \in Nat BY <2>2, <2>4
      <4>4. t > 0 BY <4>1, <3>3, <2>4, <2>5
      <4>. QED BY <4>2, <4>3, <4>4, <3>1, <3>2, <2>2, <2>4
    <3>4. CASE ~(s > dec)
      <4>1. t = 1 BY <2>3, <3>4
      <4>2. t * Second = Second BY <4>1, <2>2
      <4>. QED BY <4>1, <4>2, <3>1, <3>2, <2>1, <2>2
    <3>. QED BY <3>3, <3>4
  <2>. QED BY <2>6, <2>5 DEF e
<1>. QED BY <1>1, CacheStaysConsistent, PTL
-----------------------------------------------------------------------------
(* What each operation makes of what is found, for those who use the cache. *)

\* What is found under each key the map knows.
Held == [k \in byKey |-> Found(k)]

LEMMA HeldThere ==
  ASSUME CacheConsistent, NEW i \in 1..Len(lru)
  PROVE  lru[i].key \in byKey /\ Held[lru[i].key] = lru[i]
<1>1. lru[i].key \in byKey
  BY DEF CacheConsistent, CacheTypeOK, MapIsList
<1>. QED BY <1>1, PlaceOfKey DEF Held, Found

\* The same after a step.
LEMMA HeldThereNext ==
  ASSUME CacheConsistent', NEW i \in 1..Len(lru')
  PROVE  lru'[i].key \in byKey' /\ Held'[lru'[i].key] = lru'[i]
<1>. DEFINE k == lru'[i].key
            place == CHOOSE j \in DOMAIN lru' : lru'[j].key = k
<1>1. DOMAIN lru' = 1..Len(lru') /\ k \in byKey'
  BY DEF CacheConsistent, CacheTypeOK, MapIsList
<1>2. \A j \in DOMAIN lru' : lru'[j].key = k => j = i
  BY <1>1 DEF CacheConsistent, MapIsList
<1>3. place = i
  BY <1>1, <1>2
<1>4. Held'[k] = lru'[place]
  BY <1>1 DEF Held, Found, Place
<1>. QED BY <1>1, <1>3, <1>4

\* Put leaves the other answers it keeps as they are.
LEMMA HeldAfterStore ==
  ASSUME CacheConsistent, NEW k \in Keys, NEW m \in Message, Store(k, m)
  PROVE  /\ k \in byKey' /\ byKey' \subseteq byKey \cup {k}
         /\ Held'[k] = [key |-> k, msg |-> m, ttl |-> RespTtl(m), age |-> 0]
         /\ \A x \in byKey' \ {k} : Held'[x] = Held[x]
<1>1. CacheConsistent' BY StoreConsistent
<1>2. /\ lru' \in Seq(Entry) /\ Len(lru') >= 1
      /\ \A i \in 1..Len(lru') : lru'[i] = IF i = 1 THEN lru'[1] ELSE Without(k)[i - 1]
      /\ lru'[1].key = k /\ byKey' = KeysOf(lru') /\ Len(lru') <= Len(Without(k)) + 1
  BY StoreFront
<1>3. InOrder(Without(k)) /\ KeysOf(Without(k)) = byKey \ {k} /\ Len(Without(k)) \in Nat
  BY WithoutProperties DEF InOrder
<1>4. 1 \in 1..Len(lru')
  BY <1>2
<1>5. lru'[1] = [key |-> k, msg |-> m, ttl |-> RespTtl(m), age |-> 0]
  <2>. DEFINE e == [key |-> k, msg |-> m, ttl |-> RespTtl(m), age |-> 0]
  <2>1. e \in Entry BY RespTtlType DEF Entry
  <2>2. Without(k) \in Seq(Entry) BY <1>3 DEF InOrder
  <2>3. lru'[1] = Stored(k, m)[1] BY <1>4, StoreProperties
  <2>4. Stored(k, m) = <<e>> \o Without(k) BY DEF Stored
  <2>. HIDE DEF e
  <2>5. Stored(k, m)[1] = e BY <2>1, <2>2, <2>4
  <2>. QED BY <2>3, <2>5 DEF e
<1>6. k \in byKey' /\ Held'[k] = lru'[1]
  BY <1>1, <1>2, <1>4, HeldThereNext
<1>7. ASSUME NEW x \in byKey' \ {k} PROVE x \in byKey /\ Held'[x] = Held[x]
  <2>1. PICK i \in 1..Len(lru') : lru'[i].key = x BY <1>2 DEF KeysOf
  <2>2. i # 1 BY <2>1, <1>2
  <2>3. i - 1 \in 1..Len(Without(k)) /\ lru'[i] = Without(k)[i - 1]
    BY <2>1, <2>2, <1>2, <1>3
  <2>4. PICK p \in 1..Len(lru) : Without(k)[i - 1] = lru[p]
    BY <2>3, <1>3 DEF InOrder
  <2>5. Held'[x] = lru'[i] BY <1>1, <2>1, HeldThereNext
  <2>6. x \in byKey /\ Held[x] = lru[p] BY <2>1, <2>3, <2>4, HeldThere
  <2>. QED BY <2>3, <2>4, <2>5, <2>6
<1>. QED BY <1>5, <1>6, <1>7

\* Get and GetStale change no answer; they may throw the one they look at away.
LEMMA HeldAfterLookup ==
  ASSUME CacheConsistent, NEW k \in Keys, Lookup(k)
  PROVE  /\ byKey' = IF k \in byKey /\ ~Hit(k) THEN byKey \ {k} ELSE byKey
         /\ \A x \in byKey' : Held'[x] = Held[x]
<1>1. CacheConsistent' BY LookupConsistent
<1>2. byKey' = IF k \in byKey /\ ~Hit(k) THEN byKey \ {k} ELSE byKey
  BY DEF Lookup, Hit, store
<1>3. ASSUME NEW i \in 1..Len(lru') PROVE \E p \in 1..Len(lru) : lru'[i] = lru[p]
  <2>1. CASE lru' = lru BY <2>1
  <2>2. CASE lru' = Without(k)
    BY <2>2, WithoutProperties DEF InOrder
  <2>3. CASE k \in byKey /\ lru' = <<Found(k)>> \o Without(k)
    <3>1. /\ Len(lru') = Len(Without(k)) + 1
          /\ \A j \in 1..Len(lru') : lru'[j] = IF j = 1 THEN Found(k) ELSE Without(k)[j - 1]
      BY <2>3, HitFront
    <3>2. InOrder(Without(k)) /\ Len(Without(k)) \in Nat
      BY WithoutProperties DEF InOrder
    <3>3. CASE i = 1 BY <3>1, <3>3, <2>3, PlaceOfKey DEF Found
    <3>4. CASE i # 1
      <4>1. i - 1 \in 1..Len(Without(k)) /\ lru'[i] = Without(k)[i - 1]
        BY <3>1, <3>2, <3>4
      <4>. QED BY <4>1, <3>2 DEF InOrder
    <3>. QED BY <3>3, <3>4
  <2>. QED BY <2>1, <2>2, <2>3 DEF Lookup, store
<1>4. ASSUME NEW x \in byKey' PROVE Held'[x] = Held[x]
  <2>1. PICK i \in 1..Len(lru') : lru'[i].key = x
    BY <1>1 DEF CacheConsistent, CacheTypeOK, MapIsList
  <2>2. PICK p \in 1..Len(lru) : lru'[i] = lru[p] BY <1>3
  <2>. QED BY <1>1, <2>1, <2>2, HeldThere, HeldThereNext
<1>. QED BY <1>2, <1>4

\* Time makes an answer older, up to the age at which it goes.
LEMMA HeldAfterAge ==
  ASSUME CacheConsistent, Age
  PROVE  /\ byKey' = byKey
         /\ \A x \in byKey : Held'[x].msg = Held[x].msg /\ Held'[x].ttl = Held[x].ttl
                             /\ (Outdated(Held[x]) => Outdated(Held'[x]))
<1>1. CacheConsistent' BY AgeConsistent
<1>2. lru \in Seq(Entry) /\ DOMAIN lru = 1..Len(lru) /\ Len(lru) \in Nat
  BY DEF CacheConsistent, CacheTypeOK
<1>. DEFINE older(i) == [lru[i] EXCEPT !.age = Smaller(@ + 1, lru[i].ttl + MaxStale)]
<1>3. lru' = [i \in 1..Len(lru) |-> older(i)] /\ byKey' = byKey /\ Len(lru') = Len(lru)
  BY <1>2, AgeProperties DEF Age
<1>4. ASSUME NEW x \in byKey
      PROVE  Held'[x].msg = Held[x].msg /\ Held'[x].ttl = Held[x].ttl
             /\ (Outdated(Held[x]) => Outdated(Held'[x]))
  <2>1. PICK i \in 1..Len(lru) : lru[i].key = x
    BY <1>2 DEF CacheConsistent, MapIsList
  <2>2. Held[x] = lru[i] BY <2>1, HeldThere
  <2>3. lru[i] \in Entry BY <1>2
  <2>. DEFINE a == Smaller(lru[i].age + 1, lru[i].ttl + MaxStale)
  <2>4. older(i) = [lru[i] EXCEPT !.age = a] OBVIOUS
  <2>5. /\ older(i).key = x /\ older(i).msg = lru[i].msg /\ older(i).ttl = lru[i].ttl
        /\ older(i).age = a
    <3>. HIDE DEF a, older
    <3>. QED BY <2>1, <2>3, <2>4 DEF Entry
  <2>. HIDE DEF older
  <2>6. lru'[i] = older(i) BY <1>3
  <2>7. Held'[x] = older(i) BY <1>1, <1>3, <2>5, <2>6, HeldThereNext
  <2>8. Outdated(lru[i]) => Outdated(older(i))
    BY <2>3, <2>5, CacheAssumption DEF Entry, Outdated, Smaller
  <2>. QED BY <2>2, <2>5, <2>7, <2>8
<1>. QED BY <1>3, <1>4

-----------------------------------------------------------------------------
(* Eviction.  What stands in front of a key in the list was used after it. *)

UsedAfter ==
  /\ since \in [Keys -> SUBSET Keys]
  /\ \A k \in Keys : IsFiniteSet(since[k])
  /\ \A i, j \in 1..Len(lru) : i < j => lru[i].key \in since[lru[j].key]

\* Steps that use no key.
LEMMA UsedAfterInOrder ==
  ASSUME UsedAfter, InOrder(lru'), since' = since
  PROVE  UsedAfter'
<1>1. ASSUME NEW i \in 1..Len(lru'), NEW j \in 1..Len(lru'), i < j
      PROVE  lru'[i].key \in since[lru'[j].key]
  <2>1. PICK p, q \in 1..Len(lru) : p < q /\ lru'[i] = lru[p] /\ lru'[j] = lru[q]
    BY <1>1 DEF InOrder
  <2>. QED BY <2>1 DEF UsedAfter
<1>. QED BY <1>1 DEF UsedAfter

\* Steps that use k and bring it to the front.
LEMMA UsedAfterFront ==
  ASSUME CacheConsistent, UsedAfter, NEW k \in Keys, Used(k),
         NEW e \in Entry, e.key = k,
         lru' \in Seq(Entry), Len(lru') >= 1, Len(lru') <= Len(Without(k)) + 1,
         \A i \in 1..Len(lru') : lru'[i] = IF i = 1 THEN e ELSE Without(k)[i - 1]
  PROVE  UsedAfter'
<1>1. since' = [j \in Keys |-> IF j = k THEN {} ELSE since[j] \cup {k}]
  BY DEF Used
<1>2. since' \in [Keys -> SUBSET Keys]
  BY <1>1 DEF UsedAfter
<1>3. ASSUME NEW j \in Keys PROVE IsFiniteSet(since'[j])
  <2>1. CASE j = k BY <2>1, <1>1, FS_EmptySet
  <2>2. CASE j # k
    <3>1. since'[j] = since[j] \cup {k} BY <2>2, <1>1
    <3>. QED BY <3>1, FS_AddElement DEF UsedAfter
  <2>. QED BY <2>1, <2>2
<1>4. ASSUME NEW i \in 1..Len(lru'), NEW j \in 1..Len(lru'), i < j
      PROVE  lru'[i].key \in since'[lru'[j].key]
  <2>1. j \in 2..Len(lru') BY <1>4
  <2>2. lru'[j].key \in byKey \ {k} BY <2>1, FrontProperties
  <2>3. lru'[j].key \in Keys /\ lru'[j].key # k
    BY <2>2 DEF CacheConsistent, CacheTypeOK
  <2>4. since'[lru'[j].key] = since[lru'[j].key] \cup {k}
    BY <2>3, <1>1
  <2>5. CASE i = 1
    BY <2>4, <2>5
  <2>6. CASE i > 1
    <3>. \A x, y \in 1..Len(lru') : x < y /\ x > 1 =>
           \E p, q \in 1..Len(lru) : p < q /\ lru'[x] = lru[p] /\ lru'[y] = lru[q]
      BY FrontProperties
    <3>1. PICK p, q \in 1..Len(lru) : p < q /\ lru'[i] = lru[p] /\ lru'[j] = lru[q]
      BY <1>4, <2>6
    <3>2. lru'[i].key \in since[lru'[j].key] BY <3>1 DEF UsedAfter
    <3>. QED BY <3>2, <2>4
  <2>7. i \in Nat /\ i >= 1 OBVIOUS
  <2>. QED BY <2>5, <2>6, <2>7
<1>. QED BY <1>2, <1>3, <1>4 DEF UsedAfter

LEMMA UsedAfterStep ==
  ASSUME CacheConsistent, UsedAfter, [LruNext]_<<store, since>>
  PROVE  UsedAfter'
<1>1. ASSUME NEW k \in Keys, NEW m \in Message, Store(k, m), Used(k) PROVE UsedAfter'
  <2>1. /\ lru' \in Seq(Entry) /\ Len(lru') >= 1
        /\ Len(lru') <= Len(Without(k)) + 1
        /\ lru'[1] \in Entry /\ lru'[1].key = k
        /\ \A i \in 1..Len(lru') : lru'[i] = IF i = 1 THEN lru'[1] ELSE Without(k)[i - 1]
    BY <1>1, StoreFront
  <2>. QED BY <1>1, <2>1, UsedAfterFront
<1>2. ASSUME NEW k \in Keys, Hit(k), Lookup(k), Used(k) PROVE UsedAfter'
  <2>1. k \in byKey /\ lru' = <<Found(k)>> \o Without(k)
    BY <1>2 DEF Hit, Lookup
  <2>2. /\ lru' \in Seq(Entry) /\ Len(lru') >= 1 /\ Len(lru') = Len(Without(k)) + 1
        /\ Found(k) \in Entry /\ Found(k).key = k
        /\ \A i \in 1..Len(lru') : lru'[i] = IF i = 1 THEN Found(k) ELSE Without(k)[i - 1]
    BY <2>1, HitFront
  <2>3. Len(lru') <= Len(Without(k)) + 1 BY <2>2
  <2>. QED BY <1>2, <2>2, <2>3, UsedAfterFront
<1>3. ASSUME NEW k \in Keys, ~Hit(k), Lookup(k), since' = since PROVE UsedAfter'
  <2>1. CASE UNCHANGED store BY <2>1, <1>3 DEF store, UsedAfter
  <2>2. CASE lru' = Without(k)
    <3>1. InOrder(lru') BY <2>2, WithoutProperties
    <3>. QED BY <3>1, <1>3, UsedAfterInOrder
  <2>. QED BY <2>1, <2>2, <1>3 DEF Hit, Lookup
<1>4. ASSUME Deletion, since' = since PROVE UsedAfter'
  <2>1. InOrder(lru') BY <1>4, DeleteProperties DEF Deletion
  <2>. QED BY <2>1, <1>4, UsedAfterInOrder
<1>5. ASSUME Age, since' = since PROVE UsedAfter'
  <2>1. /\ Len(lru') = Len(lru)
        /\ \A i \in 1..Len(lru) : lru'[i].key = lru[i].key
    BY <1>5, AgeProperties
  <2>. QED BY <2>1, <1>5 DEF UsedAfter
<1>6. CASE UNCHANGED <<store, since>>
  BY <1>6 DEF store, UsedAfter
<1>. QED BY <1>1, <1>2, <1>3, <1>4, <1>5, <1>6 DEF LruNext

\* A key that Put of another one pushes out has Max keys in front of it.
LEMMA EvictedWasLast ==
  ASSUME CacheConsistent, UsedAfter, NEW k \in Keys, NEW m \in Message,
         Store(k, m), Used(k), NEW d \in byKey, d \notin byKey'
  PROVE  Cardinality(since'[d]) >= Max
<1>. DEFINE w == Without(k)
            n == Len(lru')
<1>1. InOrder(w) /\ KeysOf(w) = byKey \ {k} /\ w \in Seq(Entry) /\ Len(w) \in Nat
  BY WithoutProperties DEF InOrder
<1>2. /\ n = Smaller(Len(w) + 1, Max) /\ lru'[1].key = k
      /\ \A x \in 2..n : lru'[x] = w[x - 1]
      /\ byKey' = KeysOf(lru') /\ lru' \in Seq(Entry)
  BY StoreProperties
<1>3. n \in Nat /\ n >= 1 BY <1>1, <1>2, CacheAssumption DEF Smaller
<1>4. \A x, y \in 1..n : lru'[x].key = lru'[y].key => x = y
  <2>1. CacheConsistent' BY StoreConsistent
  <2>. QED BY <2>1, <1>2 DEF CacheConsistent, MapIsList
<1>5. k \in byKey' BY <1>2, <1>3 DEF KeysOf
<1>6. d \in Keys /\ d # k
  BY <1>5 DEF CacheConsistent, CacheTypeOK
<1>7. since'[d] = since[d] \cup {k} /\ IsFiniteSet(since'[d])
  <2>1. since'[d] = since[d] \cup {k} BY <1>6 DEF Used
  <2>2. IsFiniteSet(since[d]) BY <1>6 DEF UsedAfter
  <2>. QED BY <2>1, <2>2, FS_AddElement
<1>. HIDE DEF w, n
<1>8. PICK i \in 1..Len(w) : w[i].key = d
  BY <1>1, <1>6 DEF KeysOf
<1>9. i + 1 > n
  <2>. SUFFICES ASSUME i + 1 <= n PROVE FALSE BY <1>1, <1>3
  <2>1. i + 1 \in 2..n /\ i + 1 - 1 = i BY <1>1, <1>3
  <2>2. lru'[i + 1] = w[i] BY <2>1, <1>2
  <2>. QED BY <2>1, <2>2, <1>2, <1>3, <1>8 DEF KeysOf, n
<1>10. n = Max
  BY <1>1, <1>2, <1>3, <1>9, CacheAssumption DEF Smaller
<1>11. ASSUME NEW x \in 1..n PROVE lru'[x].key \in since'[d]
  <2>1. CASE x = 1 BY <2>1, <1>2, <1>7
  <2>2. CASE x # 1
    <3>1. x \in 2..n /\ x - 1 \in 1..Len(w) /\ x - 1 < i
      BY <2>2, <1>1, <1>3, <1>9
    <3>2. PICK p, q \in 1..Len(lru) : p < q /\ w[x - 1] = lru[p] /\ w[i] = lru[q]
      BY <3>1, <1>1 DEF InOrder
    <3>3. w[x - 1].key \in since[d] BY <3>2, <1>8 DEF UsedAfter
    <3>. QED BY <3>1, <3>3, <1>2, <1>7
  <2>. QED BY <2>1, <2>2
<1>. DEFINE g == [x \in 1..n |-> lru'[x].key]
<1>12. g \in Injection(1..n, since'[d])
  BY <1>4, <1>11 DEF Injection, IsInjective
<1>13. Cardinality(1..n) <= Cardinality(since'[d])
  BY <1>7, <1>12, FS_Injection
<1>14. Cardinality(1..n) = n
  BY <1>3, FS_Interval
<1>. QED BY <1>10, <1>13, <1>14

\* What the run checks is a behaviour of the cache.
LEMMA LruIsCache == LruSpec => CacheSpec
<1>1. LruInit => CacheInit BY DEF LruInit
<1>2. [LruNext]_<<store, since>> => [CacheNext]_store
  BY DEF LruNext, CacheNext
<1>. QED BY <1>1, <1>2, PTL DEF LruSpec, CacheSpec

\* An answer that is neither outdated nor deleted leaves the cache only after Max
\* other keys were stored or found since it was used last (cache.go:118-123, 170).
THEOREM OldestGoes == LruSpec => OnlyTheOldestGoes
<1>1. LruInit => UsedAfter
  <2>. SUFFICES ASSUME LruInit PROVE UsedAfter OBVIOUS
  <2>1. lru = <<>> /\ since = [k \in Keys |-> {}] BY DEF LruInit, CacheInit
  <2>2. Len(lru) = 0 BY <2>1
  <2>. QED BY <2>1, <2>2, FS_EmptySet DEF UsedAfter
<1>2. LruSpec => [](CacheConsistent /\ UsedAfter)
  <2>1. CacheConsistent /\ CacheConsistent' /\ UsedAfter /\ [LruNext]_<<store, since>> => UsedAfter'
    BY UsedAfterStep
  <2>. QED BY <1>1, <2>1, LruIsCache, CacheStaysConsistent, PTL DEF LruSpec
<1>3. ASSUME CacheConsistent, UsedAfter, [LruNext]_<<store, since>>,
             NEW d \in byKey, d \notin byKey', ~Outdated(Found(d))
      PROVE  Deletion \/ Cardinality(since'[d]) >= Max
  <2>1. ASSUME NEW k \in Keys, NEW m \in Message, Store(k, m), Used(k)
        PROVE  Cardinality(since'[d]) >= Max
    BY <2>1, <1>3, EvictedWasLast
  <2>2. ASSUME NEW k \in Keys, Lookup(k) PROVE FALSE
    BY <2>2, <1>3 DEF Lookup, store
  <2>3. CASE Age BY <2>3, <1>3 DEF Age
  <2>4. CASE UNCHANGED <<store, since>> BY <2>4, <1>3 DEF store
  <2>. QED BY <1>3, <2>1, <2>2, <2>3, <2>4 DEF LruNext
<1>. DEFINE Step == \A k \in byKey : k \notin byKey' /\ ~Outdated(Found(k)) =>
                      Deletion \/ Cardinality(since'[k]) >= Max
<1>4. CacheConsistent /\ UsedAfter /\ [LruNext]_<<store, since>> => [Step]_<<store, since>>
  BY <1>3
<1>. QED BY <1>2, <1>4, PTL DEF LruSpec, OnlyTheOldestGoes
=============================================================================

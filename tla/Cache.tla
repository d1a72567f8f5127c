------------------------------- MODULE Cache -------------------------------
(***************************************************************************)
(* The answer cache (internal/cache/cache.go): an LRU list and a map over  *)
(* it, lifetimes clamped into [MinTtl, MaxTtl], and answers kept MaxStale  *)
(* beyond their lifetime for the time the upstreams cannot be reached.     *)
(* Every operation runs under c.mu, so each is one action.  A message is   *)
(* its version of the data and the TTLs of its records, in seconds.  Time  *)
(* and lifetimes are counted in ticks, Second of them to a second, as the  *)
(* program's are in nanoseconds: an age is seldom a whole second.          *)
(***************************************************************************)
EXTENDS Integers, Sequences, FiniteSets

CONSTANTS
  Keys,
  Versions,   \* what the upstreams may know of a key, the newer the greater
  Ttls,       \* TTLs of records, in seconds
  Max,        \* maxEntries
  Second,     \* ticks of the clock in a second
  MinTtl, MaxTtl, EmptyTtl, MaxStale   \* in ticks

ASSUME CacheAssumption ==
  /\ Versions \subseteq Nat /\ Ttls \subseteq Nat
  /\ Max \in Nat \ {0} /\ Second \in Nat \ {0}
  /\ {MinTtl, MaxTtl, EmptyTtl, MaxStale} \subseteq Nat

VARIABLES
  lru,    \* the list, most recently used first
  byKey   \* the keys the map knows

store == <<lru, byKey>>

Message == [ver : Versions, ttls : SUBSET Ttls]

Entry == [key : Keys, msg : Message, ttl : Nat, age : Nat]

CacheTypeOK ==
  /\ lru \in Seq(Entry) /\ Len(lru) <= Max
  /\ byKey \subseteq Keys

CacheInit == lru = <<>> /\ byKey = {}

-----------------------------------------------------------------------------
Smaller(a, b) == IF a < b THEN a ELSE b
Greater(a, b) == IF a > b THEN a ELSE b

\* The smallest TTL of the records, or EmptyTtl without any; MaxTtl has the
\* last word.
RespTtl(m) ==
  LET least == IF m.ttls = {} THEN EmptyTtl
               ELSE (CHOOSE t \in m.ttls : \A s \in m.ttls : t <= s) * Second
  IN Smaller(Greater(least, MinTtl), MaxTtl)

\* The element of the list under k, and the entry in it, when the map knows it.
Place(k) == CHOOSE i \in DOMAIN lru : lru[i].key = k
Found(k) == lru[Place(k)]

Outdated(e) == e.age >= e.ttl + MaxStale
Fresh(e) == e.age < e.ttl

\* The list without that element.
Without(k) ==
  IF k \notin byKey THEN lru
  ELSE [i \in 1..(Len(lru) - 1) |-> IF i < Place(k) THEN lru[i] ELSE lru[i + 1]]

\* What Get and GetStale find (after lookup threw an outdated entry away).
Hit(k) == k \in byKey /\ ~Outdated(Found(k))
FreshHit(k) == Hit(k) /\ Fresh(Found(k))

\* Mutant: the time an answer spent in the cache is not taken off.
RemainingWhole(e) == {Greater(t, 1) : t \in e.msg.ttls}

\* The TTLs a client is told: the age is cut down to whole seconds before it is
\* taken off, and nothing is told a TTL below 1.
Remaining(e) ==
  LET dec == e.age \div Second
  IN {IF t > dec THEN t - dec ELSE 1 : t \in e.msg.ttls}

\* Mutant: a hit does not move to the front.
LookupInPlace(k) ==
  IF k \in byKey /\ Outdated(Found(k))
  THEN lru' = Without(k) /\ byKey' = byKey \ {k}
  ELSE UNCHANGED store

\* lookup: an outdated entry is dropped, any other moves to the front.
Lookup(k) ==
  IF k \notin byKey THEN UNCHANGED store
  ELSE IF Outdated(Found(k))
  THEN lru' = Without(k) /\ byKey' = byKey \ {k}
  ELSE lru' = <<Found(k)>> \o Without(k) /\ UNCHANGED byKey

\* Mutant: eviction leaves the key in the map.
StoreLru(k, m) ==
  LET all == <<[key |-> k, msg |-> m, ttl |-> RespTtl(m), age |-> 0]>> \o Without(k)
  IN /\ lru' = SubSeq(all, 1, Smaller(Len(all), Max))
     /\ byKey' = byKey \cup {k}

\* Mutant: nothing is ever dropped.
StoreAll(k, m) ==
  /\ lru' = <<[key |-> k, msg |-> m, ttl |-> RespTtl(m), age |-> 0]>> \o Without(k)
  /\ byKey' = byKey \cup {k}

\* Put of an answer that may be kept: it replaces the old one, stands in front,
\* and what no longer fits is dropped from the back.
Store(k, m) ==
  LET all == <<[key |-> k, msg |-> m, ttl |-> RespTtl(m), age |-> 0]>> \o Without(k)
      kept == SubSeq(all, 1, Smaller(Len(all), Max))
  IN /\ lru' = kept
     /\ byKey' = {kept[i].key : i \in DOMAIN kept}

\* DeleteIf: the entries with a message in drop go, the others keep their order.
DeleteIf(drop) ==
  LET stay == {i \in DOMAIN lru : lru[i].msg \notin drop}
      n == Cardinality(stay)
  IN /\ \E f \in [1..n -> stay] :
          /\ {f[i] : i \in 1..n} = stay
          /\ \A i, j \in 1..n : i < j => f[i] < f[j]
          /\ lru' = [i \in 1..n |-> lru[f[i]]]
     /\ byKey' = {k \in byKey : Found(k).msg \notin drop}

Deletion == \E drop \in SUBSET {lru[i].msg : i \in DOMAIN lru} : DeleteIf(drop)

\* Time passes; beyond the drop an age says nothing more.
Age ==
  /\ \E i \in DOMAIN lru : ~Outdated(lru[i])
  /\ lru' = [i \in DOMAIN lru |->
               [lru[i] EXCEPT !.age = Smaller(@ + 1, lru[i].ttl + MaxStale)]]
  /\ UNCHANGED byKey

CacheNext ==
  \/ \E k \in Keys : Lookup(k) \/ \E m \in Message : Store(k, m)
  \/ Deletion \/ Age

CacheSpec == CacheInit /\ [][CacheNext]_store

-----------------------------------------------------------------------------
(* Properties. *)

\* MapIsList: the map and the list hold the same keys, each once, whatever was
\* replaced, deleted or evicted (cache.go:107-124, 158-172, 190-202).
MapIsList ==
  /\ byKey = {lru[i].key : i \in DOMAIN lru}
  /\ \A i, j \in DOMAIN lru : lru[i].key = lru[j].key => i = j

\* CacheConsistent: the cache never holds more than Max entries, and its map agrees with
\* its list (cache.go:51-56, 107-124).
CacheConsistent == CacheTypeOK /\ MapIsList

\* HonestTtl: the TTL Get tells a client is never 0 and lets it keep an answer
\* less than a second longer than the upstream's TTL or the lifetime in the cache,
\* whichever is longer: the program takes whole seconds off (cache.go:127-141), so
\* an answer told 0.9 seconds after it was stored is told its whole TTL again.
HonestTtl ==
  \A k \in byKey : Fresh(Found(k)) =>
    LET e == Found(k) IN
      \A t \in Remaining(e) :
        /\ t > 0
        /\ \E s \in e.msg.ttls :
             t * Second + e.age < Greater(s * Second, e.ttl) + Second
=============================================================================

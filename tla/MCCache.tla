------------------------------ MODULE MCCache ------------------------------
(* Cache on small instances, with the history an LRU cache is judged by.     *)
EXTENDS Cache

VARIABLE since   \* for each key, the keys used since its own last use

Used(k) == since' = [j \in Keys |-> IF j = k THEN {} ELSE since[j] \cup {k}]

LruInit == CacheInit /\ since = [k \in Keys |-> {}]

LruNext ==
  \/ \E k \in Keys :
       \/ \E m \in Message : Store(k, m) /\ Used(k)
       \/ Hit(k) /\ Lookup(k) /\ Used(k)
       \/ ~Hit(k) /\ Lookup(k) /\ UNCHANGED since
  \/ (Deletion \/ Age) /\ UNCHANGED since

LruSpec == LruInit /\ [][LruNext]_<<store, since>>

\* OnlyTheOldestGoes: an answer that is not outdated leaves the cache, when it is
\* not deleted, only after Max other keys were stored or found since it was used
\* last: an answer in use is not pushed out by rare ones (cache.go:118-123, 170).
OnlyTheOldestGoes ==
  [][\A k \in byKey : k \notin byKey' /\ ~Outdated(Found(k)) =>
       Deletion \/ Cardinality(since'[k]) >= Max]_<<store, since>>
=============================================================================

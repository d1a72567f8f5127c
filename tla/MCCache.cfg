\* Three keys in a cache of two; TTLs below, within and above the clamp, told at
\* whole and at half seconds.
SPECIFICATION LruSpec
CONSTANTS
  Keys = {"a", "b", "c"}
  Versions = {0}
  Ttls = {0, 1, 3}
  Max = 2
  Second = 2
  MinTtl = 3
  MaxTtl = 5
  EmptyTtl = 4
  MaxStale = 1
INVARIANTS CacheConsistent HonestTtl
PROPERTY OnlyTheOldestGoes

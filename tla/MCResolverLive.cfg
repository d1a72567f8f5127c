\* One client and two names that push each other out of the cache.
SPECIFICATION FairSpec
CONSTANTS
  Keys = {"a", "b"}
  Versions = {0}
  Ttls = {1}
  Max = 1
  Second = 1
  MinTtl = 0
  MaxTtl = 1
  EmptyTtl = 1
  MaxStale = 1
  Clients = {p1}
  Calls = {c1, c2}
  NoCall = NoCall
  NoMsg = NoMsg
PROPERTY AllEnd

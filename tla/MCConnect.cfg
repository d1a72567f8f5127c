\* One bootstrap server, whose answer changes between two lists of two addresses.
SPECIFICATION FairSpec
CONSTANTS
  Servers = {s1}
  Good = s1
  Dial = dial
  Callers = {dial}
  Refreshers = {r1}
  Addresses = {"a", "b", "c"}
  Nowhere = "nowhere"
  Zones <- TwoZones
  MaxTargets = 2
INVARIANTS Consistent NoneLeftBehind FailsOnlyAfterAll
PROPERTIES LookupFailsOnlyAfterAll QueriesEnd ConnectEnds MovedServerFound

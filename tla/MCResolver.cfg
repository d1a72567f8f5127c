\* Two clients of one name whose data change, one answer lifetime.
SPECIFICATION Spec
CONSTANTS
  Keys = {"a"}
  Versions = {0, 1}
  Ttls = {1}
  Max = 1
  Second = 1
  MinTtl = 0
  MaxTtl = 3
  EmptyTtl = 1
  MaxStale = 1
  Clients = {p1, p2}
  Calls = {c1, c2}
  NoCall = NoCall
  NoMsg = NoMsg
SYMMETRY Symmetry
INVARIANT Consistent
PROPERTY Forwards

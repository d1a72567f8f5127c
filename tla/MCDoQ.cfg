\* Safety: two queries on one upstream, two connections, two dial calls.
SPECIFICATION Spec
CONSTANTS
  Queries = {q1, q2}
  Conns = {c1, c2}
  Calls = {k1, k2}
  NoConn = NoConn
  NoCall = NoCall
  Pending = Pending
  Closable = FALSE
SYMMETRY Symmetry
INVARIANTS IInv SingleFlight NoLeak
PROPERTIES WokenAfterVerdict OneBadQueryKeepsConn

\* Close and liveness: one query after the other, two connections and two dials.
SPECIFICATION FairSpec
CONSTANTS
  Queries = {q1}
  Conns = {c1, c2}
  Calls = {k1, k2}
  NoConn = NoConn
  NoCall = NoCall
  Pending = Pending
  Closable = TRUE
INVARIANT ClosedStaysEmpty
PROPERTIES CloseReleases QueryEnds SilentIsReplaced

\* One query, two primary upstreams and a reserve.
SPECIFICATION Spec
CONSTANTS
  Queries = {q1}
  Primaries = 2
  Fallbacks = 1
  Rtts = {1}
  Elapsed = {1}
  Probing = {1}
INVARIANTS Consistent FallbackAfterPrimaries
PROPERTIES GivesUpOnlyAfterAll LosersNotBlamed LosersMeasured

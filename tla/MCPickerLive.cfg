\* A hung primary and a working one; every query returns.
SPECIFICATION FairSpec
CONSTANTS
  Queries = {q1}
  Primaries = 2
  Fallbacks = 0
  Rtts = {1}
  Elapsed = {9}
  Probing = {}
PROPERTIES QueryEnds Recovers HungLosesItsPlace

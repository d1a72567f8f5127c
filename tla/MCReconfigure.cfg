\* Two commands at once, each of them possibly interrupted at any of its steps.
SPECIFICATION FairSpec
CONSTANTS
  Editors = {e1, e2}
  Urls = {"a", "b", "c"}
  Procs = {p1, p2, p3}
  NoProc = NoProc
  Missing = Missing
  DefaultConf <- MCDefault
  InitConfs <- MCConfs
  MaxOutages = 1
INVARIANTS Consistent LatestServed
PROPERTY DaemonReturns
CHECK_DEADLOCK FALSE

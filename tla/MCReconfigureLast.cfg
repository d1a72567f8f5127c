\* What remove does when one URL stands in the file in both roles.
SPECIFICATION Spec
CONSTANTS
  Editors = {e1}
  Urls = {"a"}
  Procs = {p1, p2}
  NoProc = NoProc
  Missing = Missing
  DefaultConf <- MCDefault
  InitConfs <- Twice
  MaxOutages = 0
PROPERTY LastUpstreamStays
CHECK_DEADLOCK FALSE

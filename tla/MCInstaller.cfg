\* Two listen addresses and one the scripts cannot read, two NTP entries; two cuts and one edit of the user's.
SPECIFICATION Spec
CONSTANTS
  Targets = {"t1", "t2"}
  Unreadable = "localhost:5354"
  NtpNames = {"n1", "n2"}
  Other = "u"
  MaxCuts = 2
  MaxEdits = 1
INVARIANTS Consistent UndoneExactly
PROPERTIES NeverCutOff SuccessForwards

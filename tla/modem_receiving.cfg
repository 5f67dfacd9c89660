CONSTANTS
  Sms = {s1, s2}
  Texts = {}
  Events = {"lost", "error", "unplug", "crash", "path"}
  MaxJobs = 2
  MaxInputs = 2
SPECIFICATION Spec
CHECK_DEADLOCK FALSE
SYMMETRY MCSymmetry
INVARIANTS
  TypeOK
  OnlyMissedLost
PROPERTIES
  StoredAtMostOnce

CONSTANTS
  Sms = {s1}
  Texts = {}
  Events = {"lost"}
  MaxJobs = 2
  MaxInputs = 1
SPECIFICATION Spec
CHECK_DEADLOCK FALSE
INVARIANTS
  NothingLost

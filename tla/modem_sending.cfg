CONSTANTS
  Sms = {}
  Texts = {t1}
  Events = {"lost", "error", "unplug", "reinit"}
  MaxJobs = 2
  MaxInputs = 2
SPECIFICATION Spec
CHECK_DEADLOCK FALSE
PROPERTIES
  SentAtMostOnce
  OnlyDeathForgets
  SendAnswered

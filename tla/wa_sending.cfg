CONSTANTS
  m1 = m1
  m2 = m2
  Msgs = {m1, m2}
  To <- MCGroup
  ack_warn = 1
  ack_warn_pending = 2
  ack_expiry = 2
  MaxAge = 2
  FirstSaved = 1
  Events = {"fail", "sendfail", "notready", "setup", "logon", "ungroup", "crash"}
  MaxInputs = 3
SPECIFICATION Spec
CHECK_DEADLOCK FALSE
INVARIANTS
  TypeOK
  SessionFlushes
  PolledAgain
  NotGivenUp
PROPERTIES
  ConveyedAtMostOnce

CONSTANTS
  a1 = a1
  a2 = a2
  r1 = r1
  Addrs = {a1, a2}
  Remotes = {r1}
  Leaf = {}
  Nicks <- MCOneNick
  AdminNick <- MCAdminNick
  ControlNick <- MCControlNick
  UserIdLimit = 9
  Stored <- MCStoredOne
  Online <- MCAdminOnline
  Events = {"wa", "dm", "command", "drop", "mode", "query", "kill"}
  MaxInputs = 4
SPECIFICATION Spec
CHECK_DEADLOCK FALSE
INVARIANTS
  RightContact

CONSTANTS
  a1 = a1
  a2 = a2
  r1 = r1
  Addrs = {a1, a2}
  Remotes = {r1,r2}
  Leaf = {}
  Nicks <- MCOneNick
  AdminNick <- MCAdminNick
  ControlNick <- MCControlNick
  UserIdLimit = 9
  Stored <- MCStoredOne
  Online <- MCAdminOnline
  Events = {"sms", "nickaway", "nickback"}
  MaxInputs = 3
SPECIFICATION Spec
CHECK_DEADLOCK FALSE
PROPERTIES
  AdminReceivesAll

CONSTANTS
  a1 = a1
  a2 = a2
  r1 = r1
  Addrs = {a1, a2}
  Remotes = {r1, r2}
  Leaf = {}
  Nicks <- MCNicks
  AdminNick <- MCAdminNick
  ControlNick <- MCControlNick
  UserIdLimit = 4
  Stored <- MCStoredAlike
  Online <- MCAdminOnline
  Events = {"waseen", "kill", "killcontrol", "crash", "command", "drop", "nick", "autonick", "user"}
  MaxInputs = 4
SPECIFICATION Spec
SYMMETRY MCSymmetry
CHECK_DEADLOCK FALSE
INVARIANTS
  TypeOK
  Handshake
  RegistryConsistent
  GhostsMatchDatabase
  NicksUnique
  ServerAgrees
  GhostForRecipient

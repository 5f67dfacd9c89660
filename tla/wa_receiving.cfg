CONSTANTS
  g1 = g1
  g2 = g2
  c1 = c1
  Groups = {g1, g2}
  Channels = {c1}
  Subject <- MCSubject
  Msgs <- MCMsgs
  Events = {"error", "chats", "message", "associate", "remove", "nometadata", "lose", "crash", "updateall", "change", "introduce"}
  MaxInputs = 4
SPECIFICATION Spec
CHECK_DEADLOCK FALSE
INVARIANTS
  TypeOK
  
  StoredOnce
  RightChat
  AskedUntilReady
PROPERTIES
  MediaIsStored

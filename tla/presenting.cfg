CONSTANTS
  s1 = s1
  s2 = s2
  Sms = {s1, s2}
  Sender <- MCSender
  Reference <- MCReference
  Texts <- MCTexts
  MaxLen = 3
  Events = {"busy", "crash"}
  MaxInputs = 2
SPECIFICATION Spec
CHECK_DEADLOCK FALSE
INVARIANTS
  TypeOK
  OnceInOrder
  OnlyEndCut
  ChunksFit
  CompleteIsShown

CONSTANTS
  r1 = r1
  r2 = r2
  Size = 15
  HeaderSize = 2
  Lens <- MCLens
  MaxMsgs = 3
  MaxPerRead = 6
  Scenes <- MCAnyCut
  AnyLens <- MCAnyLens
  MaxCount = 4
  CountMod = 16
  Receivers <- MCReceivers
SPECIFICATION Spec
CHECK_DEADLOCK FALSE
INVARIANTS OnlyCompleteCounted

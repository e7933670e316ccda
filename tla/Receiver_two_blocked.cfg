CONSTANTS
  r1 = r1
  r2 = r2
  Size = 15
  HeaderSize = 2
  Lens <- MCLens
  MaxMsgs = 2
  MaxPerRead = 6
  Scenes <- MCTwoThreads
  AnyLens <- MCAnyLens
  MaxCount = 4
  CountMod = 16
  Receivers <- MCReceivers
SPECIFICATION FairSpec
CHECK_DEADLOCK FALSE
PROPERTIES BlockedReceiverServed

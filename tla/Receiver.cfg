CONSTANTS
  r1 = r1
  r2 = r2
  Size = 7
  HeaderSize = 2
  Lens <- MCLens
  MaxMsgs = 3
  MaxPerRead = 6
  Scenes <- MCScenes
  AnyLens <- MCAnyLens
  MaxCount = 4
  CountMod = 16
  Receivers <- MCReceivers
SPECIFICATION FairSpec
CHECK_DEADLOCK FALSE
INVARIANTS TypeOK NoSleepOnMessage WholeMessagesInOrder CompleteUnlessCut
PROPERTIES OnlyReceiverServed

SPECIFICATION FairSpec
CONSTANTS
  Size = 9
  HeaderSize = 2
  Lens = {0, 1, 3}
  MaxMsgs = 6
  MaxBytes = 0
  Producers = {p1}
  SendLens = {1, 2}
  AnyLens <- MCAnyLens
  MaxSends = 4
INVARIANTS ReadsNeverAhead WholeMessagesInOrder TakenInOrder SocketsOwned
PROPERTIES AllOrNothing SenderProgress ClientProgress
CHECK_DEADLOCK FALSE

CONSTANTS
  Size = 9
  HeaderSize = 2
  Lens = {0, 1, 3}
  MaxMsgs = 7
  MaxBytes = 0
SPECIFICATION UserSpec
INVARIANTS AcceptedIsReadable

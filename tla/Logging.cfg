SPECIFICATION FairSpec
CONSTANTS
  RollSize = 2
  FlushInterval = 0
  CheckEveryN = 2
  RollPerSeconds = 3
  Loggers = {g1, g2}
  MaxLines = 3
  Lengths = {1}
  BufferSize = 2
  MaxBuffers = 2
  MaxNow = 3
  Size = 16
  kMaxNumericSize = 8
  Header = 1
  TextSizes = {0, 2, 6}
  Ints <- SomeInts
  Pointers = {0, 10, 4096, 65535}
INVARIANTS TypeOK LinesInOrder BuffersSuffice FatalOnDisk StreamSound
PROPERTIES LinesReachDisk
CHECK_DEADLOCK FALSE

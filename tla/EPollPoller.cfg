CONSTANTS
  t1 = t1
  t2 = t2
  f1 = f1
  f2 = f2
  c1 = c1
  c2 = c2
  w = w
  Threads <- MCThreads
  Functors <- MCFunctors
  Channels <- MCChannels
  WakeupChannel = w
  EnableWakeup = TRUE
  InitEventListSize = 1
SPECIFICATION FairSpec
INVARIANTS TypeOK NoLostWakeup ActiveChannelsAlive
PROPERTIES ImplementsLoopQueue QuitEndsPoll ReadyIsHandled

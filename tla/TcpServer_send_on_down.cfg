CONSTANTS
  c1 = c1
  c2 = c2
  base = base
  io1 = io1
  Conns <- MCConns
  Base = base
  Pools <- MCAnyPool
  BaseWakeup = FALSE
  Scenes <- MCOne
  DownCalls <- MCSend
SPECIFICATION Spec
CHECK_DEADLOCK FALSE
INVARIANTS CloseAssertHolds

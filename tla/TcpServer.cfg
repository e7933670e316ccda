CONSTANTS
  c1 = c1
  c2 = c2
  base = base
  io1 = io1
  Conns <- MCConns
  Base = base
  Pools <- MCAnyPool
  BaseWakeup = FALSE
  Scenes <- MCScenes
  DownCalls <- MCNothing
SPECIFICATION FairSpec
CHECK_DEADLOCK FALSE
INVARIANTS TypeOK CloseAssertHolds CallbacksPaired NothingAfterDestroyed RemoveFindsConnection
PROPERTIES ClosedIsDestroyed

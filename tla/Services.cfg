SPECIFICATION FairSpec
CONSTANTS
  MaxThreads = 2
  QueueSizes = {0, 1, 2}
  Producers = {p1, p2}
  MaxTasks = 3
  MaxLoops = 2
  Timers = {t1, t2}
  MaxWhen = 2
  Intervals = {0, 2}
  MaxRound = 1
  MaxRewind = 1
  MaxForward = 1
  Careful = TRUE
  Nodes = {n1, n2, n3}
  Buckets = 3
  PerMilli = 2
  MaxTime = 9
  InitSpace = 2
  ExtraSpace = 2
  MaxPut = 6
INVARIANTS TypeOK TasksHaveWorkers PoolsOutlived TimersOwned ArmedForFirst WheelWindow BufferIsQueue
PROPERTIES NobodyStranded ThreadsEnd TimersFire
CHECK_DEADLOCK FALSE

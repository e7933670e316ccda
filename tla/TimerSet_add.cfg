SPECIFICATION SetSpec
CONSTANTS
  Timers = {t1, t2}
  MaxWhen = 2
  Intervals = {0, 2}
  MaxRound = 1
  MaxRewind = 1
  MaxForward = 1
  Careful = TRUE
INVARIANTS AddTimerSafe
CHECK_DEADLOCK FALSE

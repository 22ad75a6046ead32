CONSTANTS
  Threads = {t1, t2}
  Timers = {x, y}
  Periodic = {y}
  MaxPosts = 2
  MaxRuns = 2
  N = 3
  MaxNext = 4
SPECIFICATION MCSpec
INVARIANTS InOrder NoSleepWithWork TimersHonoured HandedOutLoopsAlive
PROPERTY LoopsFinish
CHECK_DEADLOCK FALSE

CONSTANTS
  lo = lo
  mid = mid
  hi = hi
  lockA = lockA
  Thread = {lo, mid, hi}
  Main = lo
  Idle = Idle
  Lock = {lockA}
  Sema = {}
  UserSema = {}
  NULL = NULL
  Priority = {1, 2, 3}
  InitPriority <- MCInitPriority
  InitValue <- MCInitValue
  LockRank <- MCLockRank
  NewPriority = {}
  MaxCalls <- MCCalls
  t1 = t1
  t2 = t2
  t3 = t3
  Task = {t1, t2, t3}
  MainTask = t1
  IdleTask = IdleTask
  F = 64
  TIMER_FREQ = 40
  TIME_SLICE = 4
  PriMin = 0
  PriMax = 63
  Nice = {0, 5}
  MaxEvents = 3
SPECIFICATION ProgressSpec
CHECK_DEADLOCK FALSE
PROPERTIES
  AcquireReturns OrderKept NobodyStarves

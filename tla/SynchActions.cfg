CONSTANTS
  main = main
  lo = lo
  mid = mid
  hi = hi
  lockA = lockA
  lockB = lockB
  sema = sema
  Thread <- MCThread4
  Main = main
  Idle = Idle
  Lock = {lockA}
  Sema = {sema}
  UserSema = {sema}
  NULL = NULL
  Priority = {1, 2, 3}
  InitPriority <- MCInitPriority4
  InitValue <- MCInitValue
  LockRank <- MCLockRank
  NewPriority = {}
  MaxCalls <- MCCalls4
SPECIFICATION Spec
INVARIANT NoLostWakeup
PROPERTIES WakesHighest PreemptsAfterUp ImplementsMutex

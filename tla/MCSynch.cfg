CONSTANTS
  main = main
  lo = lo
  mid = mid
  hi = hi
  lockA = lockA
  lockB = lockB
  sema = sema
  Thread <- MCThread
  Main = lo
  Idle = Idle
  Lock = {lockA, lockB}
  Sema = {}
  UserSema = {}
  NULL = NULL
  Priority = {1, 2, 3}
  InitPriority <- MCInitPriority
  InitValue <- MCInitValue
  LockRank <- MCLockRank
  NewPriority = {1, 3}
  MaxCalls <- MCCalls
SPECIFICATION Spec
INVARIANTS
  MutualExclusion ThreadPlacement 

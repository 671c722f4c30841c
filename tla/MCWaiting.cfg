CONSTANTS
  lo = lo
  mid = mid
  hi = hi
  lockA = lockA
  condA = condA
  ws1 = ws1
  ws2 = ws2
  ws3 = ws3
  Thread <- MCThread
  Main = lo
  Idle = Idle
  Lock = {lockA}
  Sema = {ws1, ws2, ws3}
  UserSema = {}
  Cond = {condA}
  CondLock <- MCCondLock
  WaiterSema <- MCWaiterSema
  NULL = NULL
  Priority = {1, 2, 3}
  NewPriority = {}
  InitPriority <- MCInitPriority
  InitValue <- MCInitValue
  LockRank <- MCLockRank
  MaxCalls <- MCCalls
  SleepTicks <- MCSleepTicks
  BootTicks = 1
  MaxTicks = 5
  u1 = u1
  u2 = u2
  User = {u1, u2}
  NoUser = NoUser
  Sector = {0, 1}
  Data = {1}
  Blank = Blank
  Broken = {1}
  r1 = r1
  r2 = r2
  w1 = w1
  Reader = {r1, r2}
  Writer = {w1}
  Nobody = Nobody
  INTQ_BUFSIZE = 3
  MaxBytes = 3
SPECIFICATION WaitingSpec
CHECK_DEADLOCK FALSE
INVARIANTS
  SignalAccounting  TransfersRight DiskProtocol BytesInOrder SleeperWillWake
PROPERTIES
  NoEarlyWake

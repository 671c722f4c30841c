SPECIFICATION FairSpec
CONSTANTS
  Main = main
  Initd = initd
  Proc = {main, initd, p1, p2}
  Status = {3}
INVARIANTS
   ForkBlocksParent
PROPERTIES
  WaitReports ForkReturns WaitedForIsFreed

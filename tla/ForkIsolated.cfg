CONSTANTS
  NULL = NULL
  p1 = p1
  p2 = p2
  seg = seg
  stk = stk
  map = map
  end = end
  Proc = {p1}
  SegVa = {seg}
  StackVa = {stk}
  FileVa = {map, end}
  Beyond = {end}
  NumFrames = 2
  NumSlots = 2
  Value = {0, 1}
  MaxMaps <- MCMaxMaps
  Family = {1, 2, 3}
  Ancestor = 1
  PageVa = {1}
  FrameKva = {1, 2, 3, 4}
  NoFrame = 0
  Stores = {1}
  t1 = t1
  t2 = t2
  d16 = d16
  Thread = {t1, t2}
  Pool = {"kernel"}
  KernelPool = "kernel"
  Base <- MCBase
  Size <- MCSize
  MaxCnt = 2
  MaxBlocks = 2
  Desc = {d16}
  blocks_per_arena <- MCBlocksPerArena
  Caller = {p1, p2}
  NoCaller = NoCaller
  ArgPage = {1, 2}
  MappedPage = {1}
  MaxFileCalls = 1
SPECIFICATION MemorySpec
CHECK_DEADLOCK FALSE
INVARIANT ForkIsolated

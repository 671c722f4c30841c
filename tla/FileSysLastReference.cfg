CONSTANTS
  NULL = NULL
  p = p
  q = q
  i1 = i1
  Proc = {p, q}
  Initd = p
  MAX_FD = 4
  MaxFile = 3
  Inode = {i1}
  DupTargets = {3}
  STDIN = STDIN
  STDOUT = STDOUT
  a = a
  b = b
  c = c
  x1 = x1
  x2 = x2
  Client = {p, q}
  Name <- MCName
  Struct = {x1, x2}
  DirSlots = 2
  NumSectors = 9
  MaxLength = 2
  MaxOpen = 2
  Writer = {1, 2}
  Nobody = 0
  DISK_SECTOR_SIZE = 2
  FileLength = 3
  MaxSize = 2
  MaxPos = 3
  MaxRequests = 3
SPECIFICATION FilesSpec
SYMMETRY Symmetry
CHECK_DEADLOCK FALSE
INVARIANT LastReference

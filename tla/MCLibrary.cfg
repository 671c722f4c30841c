CONSTANTS
  NULL = NULL
  e1 = e1
  e2 = e2
  e3 = e3
  e4 = e4
  e5 = e5
  Elem = {e1, e2, e3, e4}
  List = {"a", "b"}
  Key <- MCKey
  Item = {e1, e2, e3, e4, e5}
  HashKey <- MCHashKey
  Hash <- MCHash
  MIN_BUCKETS = 1
  BEST_ELEMS_PER_BUCKET = 1
  ELEM_BITS = 3
  BitCnt = 4
  BITMAP_ERROR = 255
  Fanout = 2
  Va <- MCVa
  Kpage = {k1}
  TablePages = {1, 2, 3, 4, 5, 6}
  invariant_keymap <- MCInvariantKeymap
  unshifted_keymap <- MCUnshiftedKeymap
  shifted_keymap <- MCShiftedKeymap
  Half = 4
  SortKey = {1, 2, 3}
  MaxArray = 5
  INT_MAX = 127
  Bytes = 4
  Byte = {0, 1, 2}
  MemSize = 5
  Delimiters = {2}
  Bits <- MCBits
  BufSize = 6
  Arguments = {0, 7, 21, 512, 1023}
  PGSIZE = 4
  KERN_BASE = 20
  Addresses = 48
  Counts = 32
  LengthOfFile = 9
  Headers <- MCHeaders
  ArgLists <- MCArgLists
  USER_STACK = 64
  PTR = 2
  PoolPage = 2
  MemoryMaps <- MCMemoryMaps
  KernelEnds = {2, 4, 6}
  UserLimits = {1, 2, 100}
SPECIFICATION LibrarySpec
INVARIANTS
   StartsRight
PROPERTIES
  ImplementsSequences ImplementsSet   CharactersMeant

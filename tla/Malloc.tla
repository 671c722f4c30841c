------------------------------- MODULE Malloc -------------------------------
(***************************************************************************)
(* The block allocator of threads/malloc.c on top of the page allocator.   *)
(* A descriptor keeps the free blocks of one size under its lock; its      *)
(* arenas are single pages, made when the free list is empty and returned  *)
(* when their last block is freed.  A block too big for every descriptor   *)
(* is an arena of several pages that no lock protects.                     *)
(*                                                                         *)
(* A request is its descriptor, or the number of pages it needs.  What the *)
(* lock of a descriptor protects changes in one step; between the steps of *)
(* the page allocator below every thread may run.                          *)
(***************************************************************************)
EXTENDS PagePool, Sequences

LOCAL SX == INSTANCE SequencesExt

CONSTANTS
  Desc,                \* the descriptors
  blocks_per_arena,
  KernelPool,          \* the pool palloc_get_multiple (0, ...) uses
  MaxBlocks            \* bound on the blocks a thread holds

VARIABLES
  free_list,   \* the free blocks of each descriptor
  desc_lock,   \* who holds its lock
  arena,       \* the header of a page: [desc, free_cnt], or NULL without magic
  blocks,      \* the blocks each thread was given
  want,        \* the descriptor or page count of the call in progress; 0 without one
  old,         \* the block realloc replaces, or NULL
  block        \* the block being freed or just made, or NULL

mlocal == <<want, old, block>>
mvars == <<pvars, free_list, desc_lock, arena, blocks, mlocal>>

MallocPC == PoolPC \cup {"m_lock", "m_arena", "m_big", "m_done", "f_start", "f_lock", "f_unlock"}

MallocInit ==
  /\ PoolInit
  /\ free_list = [d \in Desc |-> <<>>]
  /\ desc_lock = [d \in Desc |-> NULL]
  /\ arena = [p \in Page |-> NULL]
  /\ blocks = [t \in Thread |-> {}]
  /\ want = [t \in Thread |-> 0]
  /\ old = [t \in Thread |-> NULL]
  /\ block = [t \in Thread |-> NULL]

(* A block is its page and its index there; a big one has index 0. *)
block_to_arena(b) == b[1]
ArenaBlocks(p, d) == [i \in 1..blocks_per_arena[d] |-> <<p, i>>]
InArena(p, b) == block_to_arena(b) = p

(* malloc for realloc, calloc or itself: r is the block to copy from. *)
CallMalloc(t, w, r) ==
  /\ want' = [want EXCEPT ![t] = w]
  /\ old' = [old EXCEPT ![t] = r]
  /\ block' = [block EXCEPT ![t] = NULL]
  /\ IF w \in Desc THEN Goto(t, "m_lock") /\ UNCHANGED <<used_map, lock, content, held, frame>>
     ELSE CallGet(t, KernelPool, w)
  /\ UNCHANGED <<free_list, desc_lock, arena, blocks>>

(* The pages palloc has handed to malloc now belong to no thread. *)
TakePages(t, ps) ==
  /\ held' = [held EXCEPT ![t] = @ \ ps]
  /\ content' = [p \in Page |-> IF p \in ps THEN NULL ELSE content[p]]
  /\ Leave(t, NULL)

(* Variant: the block stays at the front of the list. *)
TakeBlockFront(t, d, list, headers) ==
  LET b == Head(list)
  IN  /\ free_list' = [free_list EXCEPT ![d] = list]
      /\ arena' = [headers EXCEPT ![block_to_arena(b)].free_cnt = @ - 1]
      /\ desc_lock' = [desc_lock EXCEPT ![d] = NULL]
      /\ block' = [block EXCEPT ![t] = b]

(* list_pop_front, free_cnt-- and lock_release *)
TakeBlock(t, d, list, headers) ==
  LET b == Head(list)
  IN  /\ free_list' = [free_list EXCEPT ![d] = Tail(list)]
      /\ arena' = [headers EXCEPT ![block_to_arena(b)].free_cnt = @ - 1]
      /\ desc_lock' = [desc_lock EXCEPT ![d] = NULL]
      /\ block' = [block EXCEPT ![t] = b]

MallocLock(t) ==
  LET d == want[t]
  IN  /\ pc[t] = "m_lock"
      /\ desc_lock[d] = NULL
      /\ IF free_list[d] # <<>>
         THEN /\ TakeBlock(t, d, free_list[d], arena)
              /\ Goto(t, "m_done")
              /\ UNCHANGED <<used_map, lock, content, held, frame>>
         ELSE /\ desc_lock' = [desc_lock EXCEPT ![d] = t]
              /\ CallGet(t, KernelPool, 1)
              /\ UNCHANGED <<free_list, arena, block>>
      /\ UNCHANGED <<blocks, want, old>>

(* palloc_get_page has returned: NULL, or a page for a new arena. *)
MallocArena(t) ==
  LET d == want[t]
      p == pages[t]
  IN  /\ pc[t] = "m_arena"
      /\ IF p = NULL
         THEN /\ desc_lock' = [desc_lock EXCEPT ![d] = NULL]
              /\ UNCHANGED <<free_list, arena, content, held, block, cnt, idx, off, pages>>
         ELSE /\ TakePages(t, {p})
              /\ TakeBlock(t, d, free_list[d] \o ArenaBlocks(p, d),
                           [arena EXCEPT ![p] = [desc |-> d, free_cnt |-> blocks_per_arena[d]]])
      /\ Goto(t, "m_done")
      /\ UNCHANGED <<used_map, lock, pool, blocks, want, old>>

(* The same for a block of several pages. *)
MallocBig(t) ==
  /\ pc[t] = "m_big"
  /\ IF pages[t] = NULL THEN UNCHANGED <<content, held, arena, block, cnt, idx, off, pages>>
     ELSE /\ TakePages(t, Run(pages[t], want[t]))
          /\ arena' = [arena EXCEPT ![pages[t]] = [desc |-> NULL, free_cnt |-> want[t]]]
          /\ block' = [block EXCEPT ![t] = <<pages[t], 0>>]
  /\ Goto(t, "m_done")
  /\ UNCHANGED <<used_map, lock, pool, free_list, desc_lock, blocks, want, old>>

(* malloc returns; realloc copies and frees the old block if it got one. *)
MallocReturn(t) ==
  /\ pc[t] = "m_done"
  /\ blocks' = [blocks EXCEPT ![t] = IF block[t] = NULL THEN @ ELSE @ \cup {block[t]}]
  /\ block' = [block EXCEPT ![t] = IF @ = NULL THEN NULL ELSE old[t]]
  /\ old' = [old EXCEPT ![t] = NULL]
  /\ want' = [want EXCEPT ![t] = 0]
  /\ Goto(t, IF block'[t] = NULL THEN "idle" ELSE "f_start")
  /\ UNCHANGED <<used_map, lock, content, held, frame, free_list, desc_lock, arena>>

(* free (b), and realloc (b, 0). *)
CallFreeBlock(t, b) ==
  /\ block' = [block EXCEPT ![t] = b]
  /\ Goto(t, "f_start")
  /\ UNCHANGED <<used_map, lock, content, held, frame, free_list, desc_lock, arena, blocks, want, old>>

(***************************************************************************)
(* palloc_free_multiple (a, n): the memset of its first lines takes the    *)
(* arena's magic away.                                                     *)
(***************************************************************************)
ReturnPages(t, p, n) ==
  /\ cnt' = [cnt EXCEPT ![t] = n]
  /\ pool' = [pool EXCEPT ![t] = KernelPool]
  /\ idx' = [idx EXCEPT ![t] = p - Base[KernelPool]]
  /\ off' = [off EXCEPT ![t] = 0]
  /\ pages' = [pages EXCEPT ![t] = p]
  /\ content' = [q \in Page |-> IF q \in Run(p, n) THEN NULL ELSE content[q]]
  /\ arena' = [arena EXCEPT ![p] = NULL]
  /\ Goto(t, "free")
  /\ UNCHANGED <<used_map, lock, held>>

(* Variant: a big block is given back as if it were one page. *)
FreeStartOnePage(t) ==
  LET p == block_to_arena(block[t])
  IN  /\ pc[t] = "f_start"
      /\ blocks' = [blocks EXCEPT ![t] = @ \ {block[t]}]
      /\ want' = [want EXCEPT ![t] = IF arena[p].desc = NULL THEN 0 ELSE arena[p].desc]
      /\ IF arena[p].desc = NULL THEN ReturnPages(t, p, 1)
         ELSE Goto(t, "f_lock") /\ UNCHANGED <<used_map, lock, content, held, frame, arena>>
      /\ block' = [block EXCEPT ![t] = IF arena[p].desc = NULL THEN NULL ELSE @]
      /\ UNCHANGED <<free_list, desc_lock, old>>

(* free up to its lock_acquire, or all of it for a big block. *)
FreeStart(t) ==
  LET p == block_to_arena(block[t])
  IN  /\ pc[t] = "f_start"
      /\ blocks' = [blocks EXCEPT ![t] = @ \ {block[t]}]
      /\ want' = [want EXCEPT ![t] = IF arena[p].desc = NULL THEN 0 ELSE arena[p].desc]
      /\ IF arena[p].desc = NULL THEN ReturnPages(t, p, arena[p].free_cnt)
         ELSE Goto(t, "f_lock") /\ UNCHANGED <<used_map, lock, content, held, frame, arena>>
      /\ block' = [block EXCEPT ![t] = IF arena[p].desc = NULL THEN NULL ELSE @]
      /\ UNCHANGED <<free_list, desc_lock, old>>

(* Variant: the blocks of a full arena stay on the free list. *)
FreeLockKeepsBlocks(t) ==
  LET d == want[t]
      p == block_to_arena(block[t])
      n == arena[p].free_cnt + 1
      freed == [free_list EXCEPT ![d] = <<block[t]>> \o @]
  IN  /\ pc[t] = "f_lock"
      /\ desc_lock[d] = NULL
      /\ free_list' = freed
      /\ IF n >= blocks_per_arena[d]
         THEN /\ desc_lock' = [desc_lock EXCEPT ![d] = t]
              /\ ReturnPages(t, p, 1)
         ELSE /\ arena' = [arena EXCEPT ![p].free_cnt = n]
              /\ Goto(t, "idle")
              /\ UNCHANGED <<used_map, lock, content, held, frame, desc_lock>>
      /\ want' = [want EXCEPT ![t] = IF n >= blocks_per_arena[d] THEN d ELSE 0]
      /\ block' = [block EXCEPT ![t] = NULL]
      /\ UNCHANGED <<blocks, old>>

(***************************************************************************)
(* Under the lock: the block goes on the free list; an arena whose blocks  *)
(* are all free is taken off it and given back, with the lock still held.  *)
(***************************************************************************)
FreeLock(t) ==
  LET d == want[t]
      p == block_to_arena(block[t])
      n == arena[p].free_cnt + 1
      freed == <<block[t]>> \o free_list[d]
  IN  /\ pc[t] = "f_lock"
      /\ desc_lock[d] = NULL
      /\ IF n >= blocks_per_arena[d]
         THEN /\ free_list' = [free_list EXCEPT ![d] = SelectSeq(freed, LAMBDA b : ~InArena(p, b))]
              /\ desc_lock' = [desc_lock EXCEPT ![d] = t]
              /\ ReturnPages(t, p, 1)
         ELSE /\ free_list' = [free_list EXCEPT ![d] = freed]
              /\ arena' = [arena EXCEPT ![p].free_cnt = n]
              /\ Goto(t, "idle")
              /\ UNCHANGED <<used_map, lock, content, held, frame, desc_lock>>
      /\ want' = [want EXCEPT ![t] = IF n >= blocks_per_arena[d] THEN d ELSE 0]
      /\ block' = [block EXCEPT ![t] = NULL]
      /\ UNCHANGED <<blocks, old>>

(* lock_release behind palloc_free_page *)
FreeUnlock(t) ==
  /\ pc[t] = "f_unlock"
  /\ desc_lock' = [desc_lock EXCEPT ![want[t]] = NULL]
  /\ want' = [want EXCEPT ![t] = 0]
  /\ Goto(t, "idle")
  /\ UNCHANGED <<used_map, lock, content, held, frame, free_list, arena, blocks, old, block>>

HoldsDesc(t) == \E d \in Desc : desc_lock[d] = t

(* Where the page allocator returns to: its caller among the steps above. *)
Return(t) ==
  IF pc[t] = "clear" THEN IF HoldsDesc(t) THEN "f_unlock" ELSE "idle"
  ELSE IF HoldsDesc(t) THEN "m_arena" ELSE IF want[t] # 0 THEN "m_big" ELSE "idle"

Result(t) == IF Return(t) = "idle" THEN NULL ELSE pages[t]

(* A thread calls the page allocator itself, or malloc, realloc or free. *)
MallocCall(t) ==
  /\ pc[t] = "idle"
  /\ \/ PoolCall(t) /\ UNCHANGED <<free_list, desc_lock, arena, blocks, mlocal>>
     \/ /\ Cardinality(blocks[t]) < MaxBlocks
        /\ \E w \in Desc \cup 1..MaxCnt, r \in blocks[t] \cup {NULL} : CallMalloc(t, w, r)
     \/ \E b \in blocks[t] : CallFreeBlock(t, b)

MallocStep(t) ==
  \/ PoolStep(t, Return(t), Result(t)) /\ UNCHANGED <<free_list, desc_lock, arena, blocks, mlocal>>
  \/ MallocLock(t) \/ MallocArena(t) \/ MallocBig(t) \/ MallocReturn(t)
  \/ FreeStart(t) \/ FreeLock(t) \/ FreeUnlock(t)

MallocNext == \E t \in Thread : MallocCall(t) \/ MallocStep(t)

MallocSpec == MallocInit /\ [][MallocNext]_mvars
-----------------------------------------------------------------------------
FreeBlocks == UNION {SX!ToSet(free_list[d]) : d \in Desc}

(* The pages of the arena that starts at p. *)
ArenaPages(p) ==
  IF arena[p] = NULL THEN {}
  ELSE Run(p, IF arena[p].desc = NULL THEN arena[p].free_cnt ELSE 1)

(* Blocks in the hands of a thread or of a call it makes. *)
Holding(t) ==
  blocks[t] \cup (IF pc[t] = "m_done" \/ pc[t] = "f_lock" THEN {block[t]} \ {NULL} ELSE {})

(***************************************************************************)
(* A block is given to one caller at a time: no block has two owners, is   *)
(* both free and owned, or is on a free list twice.                        *)
(***************************************************************************)
BlocksExclusive ==
  /\ \A t, u \in Thread : t # u => Holding(t) \cap Holding(u) = {}
  /\ \A t \in Thread : Holding(t) \cap FreeBlocks = {}
  /\ \A d \in Desc : SX!IsInjective(free_list[d])

(***************************************************************************)
(* The header of an arena agrees with the free list: free_cnt counts its   *)
(* blocks there, an arena with every block free has been given back, and   *)
(* no free block lies in a page that is not an arena of its descriptor.    *)
(***************************************************************************)
ArenaAccounting ==
  /\ \A p \in Page : arena[p] # NULL /\ arena[p].desc # NULL =>
       /\ arena[p].free_cnt =
            Cardinality({b \in SX!ToSet(free_list[arena[p].desc]) : InArena(p, b)})
       /\ arena[p].free_cnt < blocks_per_arena[arena[p].desc]
  /\ \A d \in Desc : \A b \in SX!ToSet(free_list[d]) :
       arena[block_to_arena(b)] # NULL /\ arena[block_to_arena(b)].desc = d

(***************************************************************************)
(* The asserts of block_to_arena hold for every block that is given out,   *)
(* and the pages of an arena are used, by it alone: every page is free, in *)
(* one arena, or in the hands of one call of the page allocator.           *)
(***************************************************************************)
ArenasIntact ==
  /\ \A t \in Thread : \A b \in Holding(t) :
       /\ arena[block_to_arena(b)] # NULL
       /\ arena[block_to_arena(b)].desc = NULL <=> b[2] = 0
  /\ \A p, q \in Page : p # q => ArenaPages(p) \cap ArenaPages(q) = {}
  /\ \A p \in Page : used_map[p] <=>
       (\E q \in Page : p \in ArenaPages(q)) \/ (\E t \in Thread : p \in Owned(t))

(* malloc and free under concurrent calls. *)
HeapSound == BlocksExclusive /\ ArenaAccounting /\ ArenasIntact
=============================================================================

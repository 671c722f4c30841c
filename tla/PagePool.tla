------------------------------ MODULE PagePool ------------------------------
(***************************************************************************)
(* The page allocator of threads/palloc.c over the bitmaps of              *)
(* lib/kernel/bitmap.c.  Taking pages holds the pool's lock; giving them   *)
(* back holds nothing.  A bit is read and written by one instruction, so   *)
(* the scan, the setting and the clearing go bit by bit and the calls of   *)
(* different threads interleave between any two bits.                      *)
(*                                                                         *)
(* A call with PAL_ASSERT that finds no pages stops the machine; the other *)
(* calls return the null pointer, and only they go on.  The lock is the    *)
(* one of Mutex, which Synch implements.                                   *)
(***************************************************************************)
EXTENDS Integers, FiniteSets, Null

CONSTANTS
  Thread,
  Pool,     \* the kernel pool and the user pool
  Base,     \* the number of the first page of each pool
  Size,     \* its number of pages, the size of used_map
  MaxCnt    \* the largest page_cnt a caller asks for

Page == UNION {Base[k]..(Base[k] + Size[k] - 1) : k \in Pool}

ASSUME PoolAssumption ==
  /\ NULL \notin Thread /\ NULL \notin Page
  /\ Base \in [Pool -> Nat]
  /\ Size \in [Pool -> Nat]
  /\ MaxCnt \in Nat \ {0}
  /\ \A k, l \in Pool : k # l => Base[k] + Size[k] <= Base[l] \/ Base[l] + Size[l] <= Base[k]

page_from_pool(k, p) == Base[k] <= p /\ p < Base[k] + Size[k]

VARIABLES
  used_map,   \* the bit of every page
  lock,       \* who holds the pool's lock
  content,    \* who wrote a page last; NULL after the memset of a free
  held,       \* the pages a thread was given and has not given back
  pc,
  pool,       \* of the call in progress
  cnt,        \* its page_cnt
  idx,        \* page_idx, or the index the scan is at
  off,        \* the bit the loop over cnt bits is at
  pages       \* its result: the first page, or NULL

frame == <<pool, cnt, idx, off, pages>>
pvars == <<used_map, lock, content, held, pc, frame>>

PoolPC == {"idle", "get", "scan", "flip", "get_unlock", "free", "clear"}

PoolInit ==
  /\ used_map = [p \in Page |-> FALSE]
  /\ lock = [k \in Pool |-> NULL]
  /\ content = [p \in Page |-> NULL]
  /\ held = [t \in Thread |-> {}]
  /\ pc = [t \in Thread |-> "idle"]
  /\ \E k \in Pool : pool = [t \in Thread |-> k]
  /\ cnt = [t \in Thread |-> 1]
  /\ idx = [t \in Thread |-> 0]
  /\ off = [t \in Thread |-> 0]
  /\ pages = [t \in Thread |-> NULL]

Goto(t, l) == pc' = [pc EXCEPT ![t] = l]

(* What a call leaves of its locals: its result at most. *)
Leave(t, result) ==
  /\ cnt' = [cnt EXCEPT ![t] = 1]
  /\ idx' = [idx EXCEPT ![t] = 0]
  /\ off' = [off EXCEPT ![t] = 0]
  /\ pages' = [pages EXCEPT ![t] = result]

(* The pages first .. first + n - 1. *)
Run(first, n) == {p \in Page : first <= p /\ p < first + n}
PageAt(t, i) == Base[pool[t]] + i

(* palloc_get_multiple up to its lock_acquire. *)
CallGet(t, k, n) ==
  /\ pool' = [pool EXCEPT ![t] = k]
  /\ cnt' = [cnt EXCEPT ![t] = n]
  /\ idx' = [idx EXCEPT ![t] = 0]
  /\ off' = [off EXCEPT ![t] = 0]
  /\ pages' = [pages EXCEPT ![t] = NULL]
  /\ Goto(t, "get")
  /\ UNCHANGED <<used_map, lock, content, held>>

(* Variant: the pool's lock is not waited for. *)
GetLockUnchecked(t) ==
  /\ pc[t] = "get"
  /\ lock' = [lock EXCEPT ![pool[t]] = t]
  /\ Goto(t, IF cnt[t] <= Size[pool[t]] THEN "scan" ELSE "get_unlock")
  /\ UNCHANGED <<used_map, content, held, frame>>

(* bitmap_scan looks for nothing when cnt exceeds bit_cnt. *)
GetLock(t) ==
  /\ pc[t] = "get"
  /\ lock[pool[t]] = NULL
  /\ lock' = [lock EXCEPT ![pool[t]] = t]
  /\ Goto(t, IF cnt[t] <= Size[pool[t]] THEN "scan" ELSE "get_unlock")
  /\ UNCHANGED <<used_map, content, held, frame>>

(***************************************************************************)
(* bitmap_contains for the range at idx, one bitmap_test: a used bit sends *)
(* the scan on to the next index, cnt clear bits end it.                   *)
(***************************************************************************)
ScanBit(t) ==
  /\ pc[t] = "scan"
  /\ IF ~used_map[PageAt(t, idx[t] + off[t])]
     THEN /\ off' = [off EXCEPT ![t] = IF off[t] + 1 = cnt[t] THEN 0 ELSE off[t] + 1]
          /\ Goto(t, IF off[t] + 1 = cnt[t] THEN "flip" ELSE "scan")
          /\ UNCHANGED idx
     ELSE /\ idx' = [idx EXCEPT ![t] = idx[t] + 1]
          /\ off' = [off EXCEPT ![t] = 0]
          /\ Goto(t, IF idx[t] + 1 + cnt[t] <= Size[pool[t]] THEN "scan" ELSE "get_unlock")
  /\ UNCHANGED <<used_map, lock, content, held, pool, cnt, pages>>

(* bitmap_set_multiple of the range found, one bit. *)
FlipBit(t) ==
  /\ pc[t] = "flip"
  /\ used_map' = [used_map EXCEPT ![PageAt(t, idx[t] + off[t])] = TRUE]
  /\ off' = [off EXCEPT ![t] = off[t] + 1]
  /\ IF off[t] + 1 = cnt[t]
     THEN pages' = [pages EXCEPT ![t] = PageAt(t, idx[t])] /\ Goto(t, "get_unlock")
     ELSE UNCHANGED <<pages, pc>>
  /\ UNCHANGED <<lock, content, held, pool, cnt, idx>>

(* lock_release, the memset of PAL_ZERO and the caller's first store. *)
GetReturn(t, l, result) ==
  /\ pc[t] = "get_unlock"
  /\ lock' = [lock EXCEPT ![pool[t]] = NULL]
  /\ IF pages[t] = NULL THEN UNCHANGED <<held, content>>
     ELSE /\ held' = [held EXCEPT ![t] = @ \cup Run(pages[t], cnt[t])]
          /\ content' = [p \in Page |-> IF p \in Run(pages[t], cnt[t]) THEN t ELSE content[p]]
  /\ Leave(t, result)
  /\ Goto(t, l)
  /\ UNCHANGED <<used_map, pool>>

(***************************************************************************)
(* palloc_free_multiple, to its ASSERT: the pages are the caller's, and    *)
(* all of one pool.  The memset comes before the bits are cleared.         *)
(***************************************************************************)
CallFree(t, k, first, n) ==
  /\ Run(first, n) \subseteq held[t]
  /\ page_from_pool(k, first) /\ page_from_pool(k, first + n - 1)
  /\ pool' = [pool EXCEPT ![t] = k]
  /\ cnt' = [cnt EXCEPT ![t] = n]
  /\ idx' = [idx EXCEPT ![t] = first - Base[k]]
  /\ off' = [off EXCEPT ![t] = 0]
  /\ pages' = [pages EXCEPT ![t] = first]
  /\ content' = [p \in Page |-> IF p \in Run(first, n) THEN NULL ELSE content[p]]
  /\ held' = [held EXCEPT ![t] = @ \ Run(first, n)]
  /\ Goto(t, "free")
  /\ UNCHANGED <<used_map, lock>>

(* ASSERT (bitmap_all (used_map, page_idx, page_cnt)) *)
FreeAssert(t) ==
  /\ pc[t] = "free"
  /\ Goto(t, "clear")
  /\ UNCHANGED <<used_map, lock, content, held, frame>>

(* Variant: the memset comes after the bits are cleared. *)
ClearBitThenFill(t, l) ==
  /\ pc[t] = "clear"
  /\ used_map' = [used_map EXCEPT ![PageAt(t, idx[t] + off[t])] = FALSE]
  /\ IF off[t] + 1 = cnt[t] THEN Leave(t, NULL) /\ Goto(t, l)
     ELSE off' = [off EXCEPT ![t] = off[t] + 1] /\ UNCHANGED <<pc, cnt, idx, pages>>
  /\ content' = IF off[t] + 1 < cnt[t] THEN content
                ELSE [p \in Page |-> IF p \in Run(pages[t], cnt[t]) THEN NULL ELSE content[p]]
  /\ UNCHANGED <<lock, held, pool>>

(* bitmap_set_multiple of the range given back, one bit. *)
ClearBit(t, l) ==
  /\ pc[t] = "clear"
  /\ used_map' = [used_map EXCEPT ![PageAt(t, idx[t] + off[t])] = FALSE]
  /\ IF off[t] + 1 = cnt[t] THEN Leave(t, NULL) /\ Goto(t, l)
     ELSE off' = [off EXCEPT ![t] = off[t] + 1] /\ UNCHANGED <<pc, cnt, idx, pages>>
  /\ UNCHANGED <<lock, content, held, pool>>

(* The steps inside the allocator, which return to label l. *)
PoolStep(t, l, result) ==
  \/ GetLock(t) \/ ScanBit(t) \/ FlipBit(t) \/ GetReturn(t, l, result)
  \/ FreeAssert(t) \/ ClearBit(t, l)

PoolCall(t) ==
  \E k \in Pool, n \in 1..MaxCnt :
    \/ CallGet(t, k, n)
    \/ \E first \in held[t] : CallFree(t, k, first, n)

PoolNext ==
  \E t \in Thread : PoolStep(t, "idle", NULL) \/ (pc[t] = "idle" /\ PoolCall(t))

PoolSpec == PoolInit /\ [][PoolNext]_pvars
-----------------------------------------------------------------------------
PoolTypeOK ==
  /\ used_map \in [Page -> BOOLEAN]
  /\ lock \in [Pool -> Thread \cup {NULL}]
  /\ content \in [Page -> Thread \cup {NULL}]
  /\ held \in [Thread -> SUBSET Page]
  /\ pool \in [Thread -> Pool]
  /\ cnt \in [Thread -> 1..MaxCnt]
  /\ idx \in [Thread -> Nat]
  /\ off \in [Thread -> 0..MaxCnt]
  /\ pages \in [Thread -> Page \cup {NULL}]

(* The pages whose bits a call in progress has set or has yet to clear. *)
InTransit(t) ==
  {p \in Page :
     \/ pc[t] = "flip" /\ p \in Run(PageAt(t, idx[t]), off[t])
     \/ pc[t] = "get_unlock" /\ pages[t] # NULL /\ p \in Run(pages[t], cnt[t])
     \/ pc[t] \in {"free", "clear"} /\ p \in Run(PageAt(t, idx[t] + off[t]), cnt[t] - off[t])}

Owned(t) == held[t] \cup InTransit(t)

(***************************************************************************)
(* No page has two owners, although a thread gives pages back without the  *)
(* lock while another one scans and sets bits.                             *)
(***************************************************************************)
PagesExclusive == \A t, u \in Thread : t # u => Owned(t) \cap Owned(u) = {}

(***************************************************************************)
(* A bit is set exactly while somebody owns the page: no call in any order *)
(* loses a page.                                                           *)
(***************************************************************************)
PagesAccounted == \A p \in Page : used_map[p] <=> \E t \in Thread : p \in Owned(t)

(***************************************************************************)
(* The ASSERT of palloc_free_multiple never fails: the bits of the pages   *)
(* that are given back are all set when it reads them.                     *)
(***************************************************************************)
FreeAssertHolds ==
  \A t \in Thread : pc[t] = "free" => \A p \in Run(pages[t], cnt[t]) : used_map[p]

(* What an owner wrote stays in its pages: no memset of a free hits them. *)
ContentsKept == \A t \in Thread : \A p \in held[t] : content[p] = t

(* palloc_get_multiple and palloc_free_multiple under concurrent calls. *)
PoolSound == PagesExclusive /\ FreeAssertHolds /\ ContentsKept
=============================================================================

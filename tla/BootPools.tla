----------------------------- MODULE BootPools -----------------------------
(***************************************************************************)
(* palloc_init and populate_pools of threads/palloc.c: the memory map the  *)
(* loader leaves is divided between the kernel pool and the user pool, and *)
(* the pages that may be given out are marked free.  The entries of the    *)
(* map that are not usable are the gaps between the others; addresses are  *)
(* physical.                                                               *)
(***************************************************************************)
EXTENDS Calls

LOCAL SX == INSTANCE SequencesExt

CONSTANTS
  PoolPage,        \* PGSIZE
  MemoryMaps,      \* sequences of usable entries [start, size], ascending
  KernelEnds,      \* where the kernel's image may end (&_end, rounded up)
  UserLimits       \* user_page_limit

pg_no(a) == a \div PoolPage
pg_up(a) == pg_no(a + PoolPage - 1) * PoolPage
UsableEnd(e) == e.start + e.size

(* init_pool: all its pages are used; the bitmaps take a page each. *)
init_pool(start, end) == [base |-> start, cnt |-> (end - start) \div PoolPage]
page_from_pool(pool, a) == pg_no(a) \in pg_no(pool.base)..(pg_no(pool.base) + pool.cnt - 1)

TotalSize(map) == SX!FoldLeft(LAMBDA n, e : n + e.size, 0, map)
user_pages(map, limit) ==
  LET half == (TotalSize(map) \div PoolPage) \div 2 IN IF half > limit THEN limit ELSE half
kern_pages(map, limit) == TotalSize(map) \div PoolPage - user_pages(map, limit)

Boot(map) == [state |-> "KERN", rem |-> 0, region_start |-> map[1].start,
              kernel |-> init_pool(0, 0), assert |-> TRUE]

(* Variant: the user pool starts where the entry does. *)
ClaimEntryFromStart(s, e, user) ==
  LET size_in_pg == e.size \div PoolPage IN
  CASE s.state = "KERN" /\ s.rem > size_in_pg -> [s EXCEPT !.rem = @ - size_in_pg]
    [] s.state = "KERN" /\ s.rem = size_in_pg ->
         [s EXCEPT !.kernel = init_pool(s.region_start, e.start + s.rem * PoolPage),
                   !.rem = user, !.state = "USER_START"]
    [] s.state = "KERN" /\ s.rem < size_in_pg ->
         [s EXCEPT !.kernel = init_pool(s.region_start, e.start + s.rem * PoolPage),
                   !.region_start = e.start,
                   !.rem = user - size_in_pg + s.rem, !.state = "USER"]
    [] s.state = "USER_START" -> [s EXCEPT !.region_start = e.start, !.state = "USER"]
    [] s.state = "USER" /\ s.rem > size_in_pg -> [s EXCEPT !.rem = @ - size_in_pg]
    [] OTHER -> [s EXCEPT !.assert = @ /\ (s.rem = e.size)]

(***************************************************************************)
(* The first loop of populate_pools on one entry: the kernel takes its     *)
(* pages from the start of memory, the user pool begins where they end.    *)
(***************************************************************************)
ClaimEntry(s, e, user) ==
  LET size_in_pg == e.size \div PoolPage IN
  CASE s.state = "KERN" /\ s.rem > size_in_pg -> [s EXCEPT !.rem = @ - size_in_pg]
    [] s.state = "KERN" /\ s.rem = size_in_pg ->
         [s EXCEPT !.kernel = init_pool(s.region_start, e.start + s.rem * PoolPage),
                   !.rem = user, !.state = "USER_START"]
    [] s.state = "KERN" /\ s.rem < size_in_pg ->
         [s EXCEPT !.kernel = init_pool(s.region_start, e.start + s.rem * PoolPage),
                   !.region_start = e.start + s.rem * PoolPage,
                   !.rem = user - size_in_pg + s.rem, !.state = "USER"]
    [] s.state = "USER_START" -> [s EXCEPT !.region_start = e.start, !.state = "USER"]
    [] s.state = "USER" /\ s.rem > size_in_pg -> [s EXCEPT !.rem = @ - size_in_pg]
    [] OTHER -> [s EXCEPT !.assert = @ /\ (s.rem = e.size)]

Claim(map, limit) ==
  SX!FoldLeft(LAMBDA s, e : ClaimEntry(s, e, user_pages(map, limit)),
              [Boot(map) EXCEPT !.rem = kern_pages(map, limit)], map)

Pages(first, cnt) == {first + i : i \in 0..(cnt - 1)}

(* The pages of one entry that are marked free, from start on; split at the pools' ends. *)
RECURSIVE FreeInPool(_, _, _, _)
FreeInPool(kernel, user, start, end) ==
  IF ~page_from_pool(kernel, start) /\ ~page_from_pool(user, start) THEN {<<"NOT_REACHED", 0>>}
  ELSE LET in_kernel == page_from_pool(kernel, start)
           pool == IF in_kernel THEN kernel ELSE user
           tag == IF in_kernel THEN "kernel" ELSE "user"
           pool_end == pool.base + pool.cnt * PoolPage
           stop == IF pool_end < end THEN pool_end ELSE end
           freed == {<<tag, p>> : p \in Pages(pg_no(start), (stop - start) \div PoolPage)}
       IN  IF pool_end < end THEN freed \cup FreeInPool(kernel, user, pool_end, end) ELSE freed

(* The second loop: what lies above the kernel and the two bitmaps. *)
EntryFree(kernel, user, e, usable_bound) ==
  IF UsableEnd(e) < usable_bound THEN {}
  ELSE FreeInPool(kernel, user, pg_up(IF e.start >= usable_bound THEN e.start ELSE usable_bound), UsableEnd(e))

populate_pools(map, kernel_end, limit) ==
  LET s == Claim(map, limit)
      user == init_pool(s.region_start, UsableEnd(map[Len(map)]))
      usable_bound == kernel_end + 2 * PoolPage
  IN  [kernel |-> s.kernel, user |-> user, assert |-> s.assert,
       free |-> UNION {EntryFree(s.kernel, user, map[i], usable_bound) : i \in 1..Len(map)}]

CallBoot ==
  /\ Idle
  /\ \E map \in MemoryMaps, kernel_end \in KernelEnds, limit \in UserLimits :
       /\ \E i \in 1..Len(map) : /\ kernel_end + 2 * PoolPage \in map[i].start..(UsableEnd(map[i]) - 1)
                                 /\ \A j \in i..Len(map) : map[j].size % PoolPage = 0
       /\ Called("populate_pools", <<map, kernel_end>>, populate_pools(map, kernel_end, limit))
-----------------------------------------------------------------------------
(***************************************************************************)
(* The pools are apart; a page is free in one of them if and only if all   *)
(* of it is usable memory above the kernel and its bitmaps.  Boot stops if *)
(* the assertion of the first loop fails, which compares pages with bytes: *)
(* it does when usable memory goes on after the entry that is divided.     *)
(***************************************************************************)
WholeUsable(map, bound, p) ==
  /\ p * PoolPage >= bound
  /\ \E i \in 1..Len(map) : p * PoolPage >= map[i].start /\ (p + 1) * PoolPage <= UsableEnd(map[i])

PoolsRight ==
  Is("populate_pools") /\ call.result.assert =>
    LET r == call.result
        map == call.args[1]
        bound == call.args[2] + 2 * PoolPage
        pools == {"kernel", "user"}
    IN  r.free = {f \in pools \X (0..pg_no(UsableEnd(map[Len(map)]))) :
                    /\ WholeUsable(map, bound, f[2])
                    /\ page_from_pool(r[f[1]], f[2] * PoolPage)
                    /\ ~page_from_pool(r[CHOOSE o \in pools : o # f[1]], f[2] * PoolPage)}
        /\ \A p \in 0..pg_no(UsableEnd(map[Len(map)])) :
             WholeUsable(map, bound, p) => \E t \in pools : <<t, p>> \in r.free
=============================================================================

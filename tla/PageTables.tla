----------------------------- MODULE PageTables -----------------------------
(***************************************************************************)
(* The page tables of threads/mmu.c: a tree of table pages below the pml4, *)
(* made as pages are mapped.  A user page is the tuple of its indexes into *)
(* the page table, the page directory, the pdp and the pml4; the index of  *)
(* a user page in the pml4 is 0.  A table page holds Fanout entries, 512   *)
(* in the machine.  The accessed bit, which nothing in the kernel reads,   *)
(* is left out; its functions are those of the dirty bit.                  *)
(***************************************************************************)
EXTENDS Integers, Sequences, FiniteSets, Null

CONSTANTS
  Fanout,
  Va,          \* the user pages used
  Kpage,       \* the pages of the user pool they are mapped to
  TablePages   \* the pages palloc can give for tables

VARIABLES
  mem,         \* mem.table: the entries of each table page; NULL when it is free
  pml4,        \* the root, or NULL
  result       \* what the last call returned

ptvars == <<mem, pml4, result>>

Index == 0..(Fanout - 1)
ZeroPte == [kpage |-> NULL, P |-> FALSE, W |-> FALSE, D |-> FALSE]

(* PTX, PDX, PDPE and PML4 of an address are va[1] .. va[4]. *)
FreePages(m) == {n \in TablePages : m.table[n] = NULL}
LowestFree(m) == CHOOSE n \in FreePages(m) : \A k \in FreePages(m) : n <= k

(* palloc_get_page (PAL_ZERO) while there is room; the entries of a page   *)
(* table are zero PTEs, those of the tables above are not present.         *)
ZeroPage(level) == [i \in Index |-> IF level = 1 THEN ZeroPte ELSE NULL]
Alloc(m, level) == [table |-> [m.table EXCEPT ![LowestFree(m)] = ZeroPage(level)], room |-> m.room - 1]
Link(m, n, i, to) == [m EXCEPT !.table[n][i] = to]
FreeTable(m, n) == [m EXCEPT !.table[n] = NULL]

(* Variant: the entry is zeroed and the page is not given back. *)
UndoEntry(m, n, i, allocated) == IF allocated THEN Link(m, n, i, NULL) ELSE m

(* pte == NULL && allocated: the page goes back and the entry is zeroed. *)
Undo(m, n, i, allocated) ==
  IF allocated THEN FreeTable(Link(m, n, i, NULL), m.table[n][i]) ELSE m

(***************************************************************************)
(* pml4e_walk (level 4), pdpe_walk (3) and pgdir_walk (2) from the table   *)
(* page n: the place of the PTE, or NULL, and the memory they leave.       *)
(***************************************************************************)
RECURSIVE Walk(_, _, _, _, _)
Walk(level, n, va, create, m) ==
  LET i         == va[level]
      allocated == m.table[n][i] = NULL
      new       == Link(Alloc(m, level - 1), n, i, LowestFree(m))
  IN  IF allocated /\ (~create \/ m.room = 0 \/ FreePages(m) = {})
      THEN [mem |-> m, pte |-> NULL]
      ELSE LET now  == IF allocated THEN new ELSE m
               next == now.table[n][i]
           IN  IF level = 2 THEN [mem |-> now, pte |-> <<next, va[1]>>]
               ELSE LET below == Walk(level - 1, next, va, create, now)
                    IN  IF below.pte # NULL THEN below
                        ELSE [mem |-> Undo(below.mem, n, i, allocated), pte |-> NULL]

pml4e_walk(va, create, m) ==
  IF pml4 = NULL THEN [mem |-> m, pte |-> NULL] ELSE Walk(4, pml4, va, create, m)

Pte(m, at) == m.table[at[1]][at[2]]
Put(m, at, e) == [m EXCEPT !.table[at[1]][at[2]] = e]
Lookup(va) == pml4e_walk(va, FALSE, mem).pte
EntryOf(va) == IF Lookup(va) = NULL THEN ZeroPte ELSE Pte(mem, Lookup(va))

PageTablesInit ==
  /\ mem = [table |-> [n \in TablePages |-> NULL], room |-> 0]
  /\ pml4 = NULL
  /\ result = FALSE

(* pml4_create; the entries of the kernel it copies are not among Va. *)
pml4_create ==
  /\ pml4 = NULL
  /\ pml4' = LowestFree(mem)
  /\ mem' = [Alloc(mem, 4) EXCEPT !.room = 0]
  /\ UNCHANGED result

(* room: how many pages palloc gives before it runs out. *)
pml4_set_page(va, kpage, rw, room) ==
  LET walk == pml4e_walk(va, TRUE, [mem EXCEPT !.room = room])
      done == [walk.mem EXCEPT !.room = 0]
      pte  == [kpage |-> kpage, P |-> TRUE, W |-> rw, D |-> FALSE]
  IN  /\ mem' = IF walk.pte = NULL THEN done ELSE Put(done, walk.pte, pte)
      /\ result' = (walk.pte # NULL)
      /\ UNCHANGED pml4

(* Variant: the whole entry is zeroed. *)
pml4_clear_page_all(va) ==
  /\ mem' = IF Lookup(va) # NULL /\ EntryOf(va).P THEN Put(mem, Lookup(va), ZeroPte) ELSE mem
  /\ UNCHANGED <<pml4, result>>

(* The other bits of the entry stay. *)
pml4_clear_page(va) ==
  /\ mem' = IF Lookup(va) # NULL /\ EntryOf(va).P
            THEN Put(mem, Lookup(va), [EntryOf(va) EXCEPT !.P = FALSE]) ELSE mem
  /\ UNCHANGED <<pml4, result>>

SetBit(va, e) ==
  /\ mem' = IF Lookup(va) # NULL THEN Put(mem, Lookup(va), e) ELSE mem
  /\ UNCHANGED <<pml4, result>>

pml4_set_dirty(va, dirty) == SetBit(va, [EntryOf(va) EXCEPT !.D = dirty])

Returned(a) == result' = a /\ UNCHANGED <<mem, pml4>>

pml4_get_page(va) == Returned(IF EntryOf(va).P THEN EntryOf(va).kpage ELSE NULL)
pml4_is_dirty(va) == Returned(EntryOf(va).D)

(* The processor sets D on a write that W allows. *)
Write(va) ==
  /\ EntryOf(va).P /\ EntryOf(va).W
  /\ SetBit(va, [EntryOf(va) EXCEPT !.D = TRUE])

(* The table pages pdpe_destroy, pgdir_destroy and pt_destroy free from n. *)
RECURSIVE Below(_, _)
Below(level, n) ==
  {n} \cup (IF level = 1 THEN {}
            ELSE UNION {Below(level - 1, mem.table[n][i]) : i \in {j \in Index : mem.table[n][j] # NULL}})

(* Only entry 0 of the pml4 is of user pages. *)
pml4_destroy ==
  LET pdp   == mem.table[pml4][0]
      freed == {pml4} \cup (IF pdp = NULL THEN {} ELSE Below(3, pdp))
  IN  /\ pml4 # NULL
      /\ mem' = [mem EXCEPT !.table = [n \in TablePages |-> IF n \in freed THEN NULL ELSE mem.table[n]]]
      /\ pml4' = NULL
      /\ UNCHANGED result

(* pml4_for_each: the addresses it rebuilds from the indexes it goes through. *)
RECURSIVE ForEach(_, _, _)
ForEach(level, n, above) ==
  IF level = 1 THEN {<<i>> \o above : i \in {j \in Index : mem.table[n][j].P}}
  ELSE UNION {ForEach(level - 1, mem.table[n][i], <<i>> \o above) :
                i \in {j \in Index : mem.table[n][j] # NULL}}

(* Variant: the index into the pml4 is left out of the address. *)
pml4_for_each_user ==
  IF pml4 = NULL \/ mem.table[pml4][0] = NULL THEN {} ELSE ForEach(3, mem.table[pml4][0], <<>>)

pml4_for_each == IF pml4 = NULL THEN {} ELSE ForEach(4, pml4, <<>>)

PageTablesNext ==
  \/ pml4_create \/ pml4_destroy
  \/ /\ pml4 # NULL
     /\ \E va \in Va :
          \/ \E k \in Kpage, rw \in BOOLEAN, room \in {0, 1, 3} : pml4_set_page(va, k, rw, room)
          \/ pml4_clear_page(va) \/ pml4_get_page(va) \/ pml4_is_dirty(va) \/ Write(va)
          \/ \E b \in BOOLEAN : pml4_set_dirty(va, b)

PageTablesBehavior == PageTablesInit /\ [][PageTablesNext]_ptvars
-----------------------------------------------------------------------------
(* What the processor finds for a page: it follows the entries from the pml4. *)
Descend(n, i) == IF n = NULL THEN NULL ELSE mem.table[n][i]
Translation ==
  [va \in Va |-> LET pt == Descend(Descend(Descend(pml4, va[4]), va[3]), va[2])
                 IN  IF pt = NULL THEN ZeroPte ELSE mem.table[pt][va[1]]]

(***************************************************************************)
(* The table pages in use are the ones the pml4 reaches, also after a      *)
(* pml4_set_page that ran out of memory half way down, and none is left    *)
(* when the process's tables are destroyed.                                *)
(***************************************************************************)
TablesAccounted ==
  TablePages \ FreePages(mem) = IF pml4 = NULL THEN {} ELSE Below(4, pml4)

(* pml4_for_each reaches exactly the pages that are present. *)
ForEachComplete == {va \in Va : Translation[va].P} = pml4_for_each

(* What the processor finds is the map of PageMapSpec, and no table is lost. *)
PageMap == INSTANCE PageMapSpec WITH entry <- Translation, Zero <- ZeroPte
ImplementsPageMap == [](TablesAccounted /\ ForEachComplete) /\ PageMap!Spec
=============================================================================

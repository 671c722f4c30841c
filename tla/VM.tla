--------------------------------- MODULE VM ---------------------------------
(***************************************************************************)
(* Virtual memory: vm/vm.c, anon.c, file.c and uninit.c, with the page     *)
(* table entries of threads/mmu.c.  Processes have segment pages (VM_ANON, *)
(* loaded from the executable on the first fault), stack pages and mapped  *)
(* file pages; they fault, and frames are evicted to the swap disk or to   *)
(* the file.  fork's copy-on-write pages are not modelled.                 *)
(*                                                                         *)
(* A fault is two steps: vm_get_frame, which puts a frame on the frame     *)
(* list, and the rest of vm_do_claim_page, which fills it.  A struct frame *)
(* is named by its kva: a new one takes over the kva of the one it         *)
(* replaces.  A struct page is <<process, address, generation>>.           *)
(***************************************************************************)
EXTENDS Integers, Sequences, FiniteSetsExt, OrderedList, Null

CONSTANTS
  Proc,
  SegVa, StackVa, FileVa,   \* the pages of a program, by what they hold
  Beyond,      \* the file pages that reach beyond the end of their file
  NumFrames,   \* pages of the user pool
  NumSlots,    \* slots of the swap disk
  Value,       \* what a page can hold; 0 is a zeroed page
  MaxMaps      \* bound: how often each address is mapped

Va == SegVa \cup StackVa \cup FileVa
Kva == 1..NumFrames
Slot == 1..NumSlots
None == 0
VmPage == UNION {Proc \X {v} \X (1..MaxMaps[v]) : v \in Va}
Content == Value \cup {0}

ASSUME VMAssumption ==
  /\ NumFrames \in Nat \ {0} /\ NumSlots \in Nat /\ MaxMaps \in [Va -> Nat \ {0}]
  /\ SegVa \cap StackVa = {} /\ (SegVa \cup StackVa) \cap FileVa = {}
  /\ Beyond \subseteq FileVa
  /\ NULL \notin VmPage \cup Content

VARIABLES
  spt,          \* the generation of the page at an address, None if there is none
  page,         \* the struct pages
  pml4,         \* the page table entries
  frame_list,
  frame_page,   \* frame->page
  mem,          \* what a frame holds
  swap_table,   \* the swap slots in use
  swap_disk,
  file,         \* what the file page behind an address holds
  phase,
  at,           \* the address a process faults on and the frame it got
  panic,        \* why the kernel stopped, if it did
  written       \* history: what the program last stored, NULL if nothing yet

disks == <<swap_table, swap_disk, file>>
vars == <<spt, page, pml4, frame_list, frame_page, mem, disks, phase, at, panic, written>>

Running(p) == panic = "no" /\ phase[p] = "user" /\ \A q \in Proc : phase[q] # "dead"
PageOf(p, v) == <<p, v, spt[p][v]>>

(* A page table t after pml4_set_page, pml4_clear_page and pml4_set_dirty. *)
Pml4SetPage(t, p, v, k) == [t EXCEPT ![p][v] = [kva |-> k, present |-> TRUE, dirty |-> FALSE]]
Pml4ClearPage(t, p, v) == [t EXCEPT ![p][v].present = FALSE]
Pml4SetDirty(t, p, v, dirty) == [t EXCEPT ![p][v].dirty = dirty]
Pml4IsDirty(p, v) == pml4[p][v].dirty

(* A program is loaded: load_segment has made its segment pages. *)
Init ==
  /\ spt = [p \in Proc |-> [v \in Va |-> IF v \in SegVa THEN 1 ELSE None]]
  /\ page = [x \in VmPage |-> [type |-> "uninit", frame |-> None, swap_idx |-> None]]
  /\ pml4 = [p \in Proc |-> [v \in Va |-> [kva |-> None, present |-> FALSE, dirty |-> FALSE]]]
  /\ frame_list = <<>>
  /\ frame_page = [k \in Kva |-> NULL]
  /\ mem = [k \in Kva |-> 0]
  /\ swap_table = {}
  /\ swap_disk = [i \in Slot |-> 0]
  /\ file = [v \in SegVa \cup FileVa |-> 0]
  /\ phase = [p \in Proc |-> "user"]
  /\ at = [p \in Proc |-> [va |-> NULL, kva |-> None]]
  /\ panic = "no"
  /\ written = [p \in Proc |-> [v \in Va |-> IF v \in StackVa THEN NULL ELSE 0]]
-----------------------------------------------------------------------------
(* A store by the program to a page that is present. *)
Store(p, v, value) ==
  /\ Running(p)
  /\ pml4[p][v].present
  /\ mem' = [mem EXCEPT ![pml4[p][v].kva] = value]
  /\ pml4' = Pml4SetDirty(pml4, p, v, TRUE)
  /\ written' = [written EXCEPT ![p][v] = value]
  /\ UNCHANGED <<spt, page, frame_list, frame_page, disks, phase, at, panic>>

(* vm_alloc_page_with_initializer: an uninit page, where there is none yet. *)
VmAllocPage(p, v, generation) ==
  /\ spt[p][v] = None
  /\ spt' = [spt EXCEPT ![p][v] = generation]

(* vm_try_handle_fault on an address of the stack that has no page. *)
VmStackGrowth(p, v) ==
  /\ Running(p)
  /\ v \in StackVa
  /\ VmAllocPage(p, v, 1)
  /\ UNCHANGED <<page, pml4, frame_list, frame_page, mem, disks, phase, at, panic, written>>

(***************************************************************************)
(* sys_mmap and do_mmap of one page: a new struct page, loaded on demand.  *)
(* A generation that was unmapped before is not used again, because its    *)
(* struct page is never freed.                                             *)
(***************************************************************************)
DoMmap(p, v) ==
  /\ Running(p)
  /\ v \in FileVa
  /\ LET fresh == {g \in 1..MaxMaps[v] : page[<<p, v, g>>].type = "uninit"}
     IN  fresh # {} /\ VmAllocPage(p, v, Min(fresh))
  /\ UNCHANGED <<page, pml4, frame_list, frame_page, mem, disks, phase, at, panic, written>>

(* munmap_cleaner: a dirty page is written back. *)
MunmapCleaner(p, x) ==
  file' = IF Pml4IsDirty(p, x[2]) THEN [file EXCEPT ![x[2]] = mem[page[x].frame]] ELSE file

(***************************************************************************)
(* sys_munmap of one page.  It reads the length of the mapping through     *)
(* page->file.aux, which in an uninit page is not the aux pointer: what    *)
(* follows is the failing ASSERT of do_munmap, or nothing.  Otherwise a    *)
(* dirty page is written back and the entry cleared; the struct page and   *)
(* its frame stay, with the frame on the list.                             *)
(***************************************************************************)
DoMunmap(p, v) ==
  LET x == PageOf(p, v)
  IN  /\ Running(p)
      /\ v \in FileVa
      /\ spt[p][v] # None
      /\ IF page[x].type = "uninit"
           THEN /\ panic' = "munmap"
                /\ UNCHANGED <<spt, pml4, file>>
           ELSE /\ spt' = [spt EXCEPT ![p][v] = None]
                /\ MunmapCleaner(p, x)
                /\ pml4' = Pml4ClearPage(Pml4SetDirty(pml4, p, v, FALSE), p, v)
                /\ UNCHANGED panic
      /\ UNCHANGED <<page, frame_list, frame_page, mem, swap_table, swap_disk, phase, at, written>>
-----------------------------------------------------------------------------
(* A page that munmap took out of the spt, and whose aux is freed. *)
Unmapped(x) == spt[x[1]][x[2]] # x[3]

(* Variant: the page is written to the slot, and the slot is not noted. *)
AnonSwapOutForgets(p, x) ==
  LET i == Min(Slot \ swap_table)
  IN  /\ swap_table' = swap_table \cup {i}
      /\ swap_disk' = [swap_disk EXCEPT ![i] = mem[page[x].frame]]
      /\ page' = [page EXCEPT ![x].frame = None]
      /\ pml4' = Pml4ClearPage(pml4, p, x[2])
      /\ UNCHANGED file

(* Variant: the entry is not cleared. *)
AnonSwapOutLeavesMapped(p, x) ==
  LET i == Min(Slot \ swap_table)
  IN  /\ swap_table' = swap_table \cup {i}
      /\ swap_disk' = [swap_disk EXCEPT ![i] = mem[page[x].frame]]
      /\ page' = [page EXCEPT ![x].frame = None, ![x].swap_idx = i]
      /\ UNCHANGED <<pml4, file>>

(***************************************************************************)
(* anon_swap_out and what vm_evict_frame does after it.  The entry that    *)
(* vm_evict_frame clears is in the page table of the running process p,    *)
(* whoever's page x is.                                                    *)
(***************************************************************************)
AnonSwapOut(p, x) ==
  LET i == Min(Slot \ swap_table)
  IN  /\ swap_table' = swap_table \cup {i}
      /\ swap_disk' = [swap_disk EXCEPT ![i] = mem[page[x].frame]]
      /\ page' = [page EXCEPT ![x].frame = None, ![x].swap_idx = i]
      /\ pml4' = Pml4ClearPage(pml4, p, x[2])
      /\ UNCHANGED file

(* Variant: a dirty page is not written back. *)
FileBackedSwapOutDrops(p, x) ==
  /\ page' = [page EXCEPT ![x].frame = None]
  /\ pml4' = Pml4ClearPage(Pml4SetDirty(pml4, p, x[2], FALSE), p, x[2])
  /\ UNCHANGED disks

(* file_backed_swap_out and what vm_evict_frame does after it. *)
FileBackedSwapOut(p, x) ==
  /\ file' = IF Pml4IsDirty(p, x[2]) THEN [file EXCEPT ![x[2]] = mem[page[x].frame]] ELSE file
  /\ page' = [page EXCEPT ![x].frame = None]
  /\ pml4' = Pml4ClearPage(Pml4SetDirty(pml4, p, x[2], FALSE), p, x[2])
  /\ UNCHANGED <<swap_table, swap_disk>>

(* Why the kernel stops in vm_evict_frame: the ASSERT on a frame that has no *)
(* page yet, the ASSERT on a full swap disk, the use of a freed aux.         *)
EvictPanics(p, x) ==
  CASE x = NULL -> "empty frame"
    [] x # NULL /\ page[x].type = "anon" /\ swap_table = Slot -> "swap full"
    [] x # NULL /\ page[x].type = "file" /\ Unmapped(x) /\ Pml4IsDirty(p, x[2]) -> "freed aux"
    [] OTHER -> "no"

Faults(p, v) ==
  /\ Running(p)
  /\ spt[p][v] # None
  /\ ~pml4[p][v].present

Got(p, v, k) ==
  /\ frame_page' = [frame_page EXCEPT ![k] = NULL]
  /\ at' = [at EXCEPT ![p] = [va |-> v, kva |-> k]]
  /\ phase' = [phase EXCEPT ![p] = "claim"]

(* vm_get_frame: a zeroed page of the user pool ... *)
VmGetFrame(p, v) ==
  LET free == Kva \ {frame_list[i] : i \in DOMAIN frame_list}
  IN  /\ Faults(p, v)
      /\ free # {}
      /\ mem' = [mem EXCEPT ![Min(free)] = 0]
      /\ frame_list' = Append(frame_list, Min(free))
      /\ Got(p, v, Min(free))
      /\ UNCHANGED <<spt, page, pml4, disks, panic, written>>

(* vm_get_victim: the frame that is on the list longest. *)
Victim == Head(frame_list)

(* Variant: the victim stays on the list. *)
VmEvictFrameKeeps(p, v) ==
  LET k == Victim
      x == frame_page[k]
  IN  /\ Faults(p, v)
      /\ Len(frame_list) >= NumFrames
      /\ EvictPanics(p, x) = "no"
      /\ IF page[x].type = "anon" THEN AnonSwapOut(p, x) ELSE FileBackedSwapOut(p, x)
      /\ frame_list' = Append(frame_list, k)
      /\ Got(p, v, k)
      /\ UNCHANGED <<spt, mem, panic, written>>

(* ... or, when there is none, the first frame of the list, evicted. *)
VmEvictFrame(p, v) ==
  LET k == Victim
      x == frame_page[k]
  IN  /\ Faults(p, v)
      /\ Len(frame_list) = NumFrames
      /\ panic' = EvictPanics(p, x)
      /\ \/ /\ panic' = "no"
            /\ IF page[x].type = "anon" THEN AnonSwapOut(p, x) ELSE FileBackedSwapOut(p, x)
            /\ frame_list' = Append(Tail(frame_list), k)
            /\ Got(p, v, k)
         \/ /\ panic' # "no"
            /\ UNCHANGED <<page, pml4, frame_list, frame_page, disks, phase, at>>
      /\ UNCHANGED <<spt, mem, written>>

(* Variant: anon_swap_in does not free the slot. *)
AnonSwapInKeepsSlot(x, k) ==
  /\ mem' = [mem EXCEPT ![k] = swap_disk[page[x].swap_idx]]
  /\ page' = [page EXCEPT ![x].frame = k, ![x].swap_idx = None]
  /\ UNCHANGED swap_table

AnonSwapIn(x, k) ==
  /\ mem' = [mem EXCEPT ![k] = swap_disk[page[x].swap_idx]]
  /\ page' = [page EXCEPT ![x].frame = k, ![x].swap_idx = None]
  /\ swap_table' = swap_table \ {page[x].swap_idx}

FileBackedSwapIn(x, k) ==
  /\ mem' = [mem EXCEPT ![k] = file[x[2]]]
  /\ page' = [page EXCEPT ![x].frame = k]
  /\ UNCHANGED swap_table

LazyLoadSegment(x, k) == mem' = [mem EXCEPT ![k] = file[x[2]]]

(* uninit_initialize.  A stack page has no init: nothing fills it. *)
UninitInitialize(x, k) ==
  /\ page' = [page EXCEPT ![x].frame = k,
                ![x].type = IF x[2] \in FileVa THEN "file" ELSE "anon"]
  /\ IF x[2] \in StackVa THEN UNCHANGED mem ELSE LazyLoadSegment(x, k)
  /\ UNCHANGED swap_table

(* swap_in of page x into the frame k, by the operations of its type. *)
SwapIn(x, k) ==
  CASE page[x].type = "anon"   -> AnonSwapIn(x, k)
    [] page[x].type = "file"   -> FileBackedSwapIn(x, k)
    [] page[x].type = "uninit" -> UninitInitialize(x, k)

(* What swap_in cannot do: an anonymous page that is in no slot, and reading *)
(* as many bytes as a page has that reaches beyond the end of the file.      *)
SwapInFails(x) ==
  \/ page[x].type = "anon" /\ page[x].swap_idx = None
  \/ page[x].type = "file" /\ x[2] \in Beyond

(* vm_do_claim_page after vm_get_frame; page_fault kills p if it fails. *)
VmDoClaimPage(p) ==
  LET v == at[p].va
      k == at[p].kva
      x == PageOf(p, v)
  IN  /\ panic = "no"
      /\ phase[p] = "claim"
      /\ frame_page' = [frame_page EXCEPT ![k] = x]
      /\ pml4' = Pml4SetPage(pml4, p, v, k)
      /\ \/ /\ ~SwapInFails(x)
            /\ SwapIn(x, k)
            /\ phase' = [phase EXCEPT ![p] = "user"]
            /\ at' = [at EXCEPT ![p] = [va |-> NULL, kva |-> None]]
         \/ /\ SwapInFails(x)
            /\ page' = [page EXCEPT ![x].frame = k]
            /\ phase' = [phase EXCEPT ![p] = "killed"]
            /\ UNCHANGED <<mem, swap_table, at>>
      /\ UNCHANGED <<spt, frame_list, swap_disk, file, panic, written>>

(* anon_destroy of these pages: their slots and their frames are freed. *)
AnonDestroy(anon) ==
  /\ swap_table' = swap_table \ {page[x].swap_idx : x \in anon}
  /\ frame_list' = Filter(frame_list, {i \in DOMAIN frame_list :
                                        \A x \in anon : page[x].frame # frame_list[i]})

(* file_backed_destroy of these pages of p: the dirty ones are written back. *)
FileBackedDestroy(p, back) ==
  file' = [v \in DOMAIN file |->
             IF PageOf(p, v) \in back /\ Pml4IsDirty(p, v)
               THEN mem[page[PageOf(p, v)].frame] ELSE file[v]]

(***************************************************************************)
(* process_cleanup: supplemental_page_table_kill destroys every page, with *)
(* anon_destroy, file_backed_destroy or uninit_destroy.  The frames that   *)
(* file_backed_destroy frees stay on the list; the model ends here.        *)
(***************************************************************************)
ProcessExit(p) ==
  LET mine == {PageOf(p, v) : v \in {v \in Va : spt[p][v] # None}}
  IN  /\ panic = "no"
      /\ phase[p] \in {"user", "killed"}
      /\ AnonDestroy({x \in mine : page[x].type = "anon"})
      /\ FileBackedDestroy(p, {x \in mine : page[x].type = "file"})
      /\ spt' = [spt EXCEPT ![p] = [v \in Va |-> None]]
      /\ pml4' = [pml4 EXCEPT ![p] = [v \in Va |-> [kva |-> None, present |-> FALSE, dirty |-> FALSE]]]
      /\ phase' = [phase EXCEPT ![p] = "dead"]
      /\ UNCHANGED <<page, frame_page, mem, swap_disk, at, panic, written>>

Next ==
  \E p \in Proc :
    \/ \E v \in Va :
         \/ \E value \in Value : Store(p, v, value)
         \/ VmStackGrowth(p, v)
         \/ DoMmap(p, v)
         \/ DoMunmap(p, v)
         \/ VmGetFrame(p, v)
         \/ VmEvictFrame(p, v)
    \/ VmDoClaimPage(p)
    \/ ProcessExit(p)

Spec == Init /\ [][Next]_vars
-----------------------------------------------------------------------------
(* Every variable has its type, and no frame is on the list twice. *)
TypeOK ==
  /\ \A p \in Proc, v \in Va : spt[p][v] \in 0..MaxMaps[v]
  /\ page \in [VmPage -> [type : {"uninit", "anon", "file"}, frame : Kva \cup {None},
                        swap_idx : Slot \cup {None}]]
  /\ pml4 \in [Proc -> [Va -> [kva : Kva \cup {None}, present : BOOLEAN, dirty : BOOLEAN]]]
  /\ \A i, j \in DOMAIN frame_list : frame_list[i] \in Kva /\ (frame_list[i] = frame_list[j] => i = j)
  /\ frame_page \in [Kva -> VmPage \cup {NULL}]
  /\ mem \in [Kva -> Content]
  /\ swap_table \in SUBSET Slot
  /\ swap_disk \in [Slot -> Content]
  /\ file \in [SegVa \cup FileVa -> Content]
  /\ phase \in [Proc -> {"user", "claim", "killed", "dead"}]
  /\ written \in [Proc -> [Va -> Content \cup {NULL}]]

(* Where the contents of an address are, as a load by the program finds them. *)
Contents(p, v) ==
  LET pg == page[PageOf(p, v)]
  IN  CASE spt[p][v] = None \/ pg.type = "uninit" -> file[v]
        [] spt[p][v] # None /\ pml4[p][v].present -> mem[pml4[p][v].kva]
        [] spt[p][v] # None /\ ~pml4[p][v].present /\ pg.type = "anon" -> swap_disk[pg.swap_idx]
        [] OTHER -> file[v]

(***************************************************************************)
(* Paging is invisible to a program: whatever was evicted, loaded, mapped  *)
(* and unmapped meanwhile, an address holds what the program last stored   *)
(* there, and a file what was stored through its last mapping.             *)
(***************************************************************************)
StoresKept ==
  panic = "no" =>
    \A p \in Proc, v \in Va :
      /\ written[p][v] # NULL
      /\ v \in FileVa \/ phase[p] # "dead"
      /\ ~(phase[p] = "killed" /\ at[p].va = v)
      => Contents(p, v) = written[p][v]

(***************************************************************************)
(* A page table entry that is present maps the frame of the page at that   *)
(* address, and the frame belongs to that page: vm_evict_frame never gives *)
(* away a frame that a program can still reach.                            *)
(***************************************************************************)
FramesPrivate ==
  \A p \in Proc, v \in Va : pml4[p][v].present =>
    /\ spt[p][v] # None
    /\ page[PageOf(p, v)].frame = pml4[p][v].kva
    /\ frame_page[pml4[p][v].kva] = PageOf(p, v)

(***************************************************************************)
(* A slot of the swap disk is in use exactly as long as one page is in it: *)
(* none is shared and none is lost, by eviction, reload or exit.           *)
(***************************************************************************)
SlotsOwned ==
  LET out == {x \in VmPage : spt[x[1]][x[2]] = x[3] /\ page[x].swap_idx # None}
  IN  /\ swap_table = {page[x].swap_idx : x \in out}
      /\ \A x, y \in out : page[x].swap_idx = page[y].swap_idx => x = y

(***************************************************************************)
(* vm_try_handle_fault finds the contents of every page that was there     *)
(* before: the only fault on a page of its own that kills a process is on  *)
(* a mapping that reaches beyond the end of its file.                      *)
(***************************************************************************)
FaultsServed ==
  \A p \in Proc : phase[p] = "killed" => at[p].va \in Beyond

(* Frames and swap slots have the owners they should, and faults find their pages. *)
MemoryOwned == TypeOK /\ FramesPrivate /\ SlotsOwned /\ FaultsServed
=============================================================================

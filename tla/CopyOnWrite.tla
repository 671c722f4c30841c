---------------------------- MODULE CopyOnWrite ----------------------------
(***************************************************************************)
(* fork's copy of an address space: supplemental_page_table_copy,          *)
(* page_table_copy and vm_handle_wp of vm/vm.c and anon_destroy of         *)
(* vm/anon.c, for writable anonymous pages.  The child takes over the      *)
(* parent's frames page by page while the parent waits in process_fork;    *)
(* its entries are read-only and the parent's stay as they are.  There are *)
(* frames enough: eviction is the subject of VM.                           *)
(***************************************************************************)
EXTENDS Integers, FiniteSets

CONSTANTS
  Family,      \* the processes
  Ancestor,    \* the first of them
  PageVa,      \* the addresses of their pages
  FrameKva,    \* the frames of the user pool, by number
  NoFrame,
  Stores       \* what a process can store; a fresh frame holds 0

ASSUME CowAssumption ==
  IsFiniteSet(Family) /\ IsFiniteSet(PageVa) /\ NoFrame \notin FrameKva

VARIABLES
  life,        \* unborn, copying, live, forking (waiting for the copy), exiting, dead
  parent,      \* the process a copying child copies
  page_frame,  \* page->frame
  entry,       \* the page table entry: none, ro or rw
  r_cnt,       \* frame->r_cnt
  frame_data,  \* what a frame holds
  free_frames,        \* the free frames
  expected     \* history: what the process would find if it were alone

cwvars == <<life, parent, page_frame, entry, r_cnt, frame_data, free_frames, expected>>

EachPage(x) == [p \in Family |-> [v \in PageVa |-> x]]

CowInit ==
  /\ life = [p \in Family |-> IF p = Ancestor THEN "live" ELSE "unborn"]
  /\ parent = [p \in Family |-> p]
  /\ page_frame = EachPage(NoFrame) /\ entry = EachPage("none")
  /\ r_cnt = [f \in FrameKva |-> 0] /\ frame_data = [f \in FrameKva |-> 0]
  /\ free_frames = FrameKva
  /\ expected = EachPage(0)
-----------------------------------------------------------------------------
(* The scan of the pool's bitmap finds the first free page. *)
palloc_get_page == {f \in free_frames : \A g \in free_frames : f <= g}

Set2(fn, p, v, x) == [fn EXCEPT ![p][v] = x]

(* vm_get_frame and vm_do_claim_page for the first access to a page. *)
vm_do_claim_page(p, v) ==
  /\ life[p] = "live" /\ entry[p][v] = "none"
  /\ \E f \in palloc_get_page :
       /\ free_frames' = free_frames \ {f}
       /\ page_frame' = Set2(page_frame, p, v, f) /\ entry' = Set2(entry, p, v, "rw")
       /\ r_cnt' = [r_cnt EXCEPT ![f] = 1]
       /\ frame_data' = [frame_data EXCEPT ![f] = 0]
  /\ UNCHANGED <<life, parent, expected>>

(* A store through a writable entry: no fault. *)
StorePage(p, v) ==
  /\ life[p] = "live" /\ entry[p][v] = "rw"
  /\ \E x \in Stores : /\ frame_data' = [frame_data EXCEPT ![page_frame[p][v]] = x]
                       /\ expected' = Set2(expected, p, v, x)
  /\ UNCHANGED <<life, parent, page_frame, entry, r_cnt, free_frames>>

(***************************************************************************)
(* The fault on a store through a read-only entry: a frame of its own with *)
(* a copy.  The old frame loses a reference; if that was the last one, it  *)
(* is not given back.                                                      *)
(***************************************************************************)
vm_handle_wp(p, v) ==
  LET old == page_frame[p][v] IN
  /\ life[p] = "live" /\ entry[p][v] = "ro"
  /\ \E f \in palloc_get_page :
       /\ free_frames' = free_frames \ {f}
       /\ page_frame' = Set2(page_frame, p, v, f) /\ entry' = Set2(entry, p, v, "rw")
       /\ r_cnt' = [r_cnt EXCEPT ![old] = @ - 1, ![f] = 1]
       /\ frame_data' = [frame_data EXCEPT ![f] = frame_data[old]]
  /\ UNCHANGED <<life, parent, expected>>

process_fork(p, c) ==
  /\ life[p] = "live" /\ life[c] = "unborn"
  /\ life' = [life EXCEPT ![p] = "forking", ![c] = "copying"]
  /\ parent' = [parent EXCEPT ![c] = p]
  /\ expected' = [expected EXCEPT ![c] = expected[p]]
  /\ UNCHANGED <<page_frame, entry, r_cnt, frame_data, free_frames>>

ToCopy(c) == {v \in PageVa : entry[parent[c]][v] # "none" /\ entry[c][v] = "none"}

(* Variant: the child's entry is writable. *)
page_table_copy_writable(c, v) ==
  LET f == page_frame[parent[c]][v] IN
  /\ life[c] = "copying" /\ v \in ToCopy(c)
  /\ page_frame' = Set2(page_frame, c, v, f) /\ entry' = Set2(entry, c, v, "rw")
  /\ r_cnt' = [r_cnt EXCEPT ![f] = @ + 1]
  /\ UNCHANGED <<life, parent, frame_data, free_frames, expected>>

page_table_copy(c, v) ==
  LET f == page_frame[parent[c]][v] IN
  /\ life[c] = "copying" /\ v \in ToCopy(c)
  /\ page_frame' = Set2(page_frame, c, v, f) /\ entry' = Set2(entry, c, v, "ro")
  /\ r_cnt' = [r_cnt EXCEPT ![f] = @ + 1]
  /\ UNCHANGED <<life, parent, frame_data, free_frames, expected>>

(* The end of supplemental_page_table_copy: the child ups fork_sema and both go on. *)
ForkDone(c) ==
  /\ life[c] = "copying" /\ ToCopy(c) = {}
  /\ life' = [life EXCEPT ![c] = "live", ![parent[c]] = "live"]
  /\ UNCHANGED <<parent, page_frame, entry, r_cnt, frame_data, free_frames, expected>>

(* process_exit: anon_destroy of every page, in supplemental_page_table_kill. *)
process_exit(p) ==
  /\ life[p] \in {"live", "exiting"} /\ \A v \in PageVa : entry[p][v] = "none"
  /\ life' = [life EXCEPT ![p] = "dead"]
  /\ UNCHANGED <<parent, page_frame, entry, r_cnt, frame_data, free_frames, expected>>

anon_destroy(p, v) ==
  LET f == page_frame[p][v] IN
  /\ life[p] \in {"live", "exiting"} /\ entry[p][v] # "none"
  /\ life' = [life EXCEPT ![p] = "exiting"]
  /\ page_frame' = Set2(page_frame, p, v, NoFrame) /\ entry' = Set2(entry, p, v, "none")
  /\ r_cnt' = [r_cnt EXCEPT ![f] = @ - 1]
  /\ free_frames' = IF r_cnt[f] = 1 THEN free_frames \cup {f} ELSE free_frames
  /\ UNCHANGED <<parent, frame_data, expected>>

CowNext ==
  \E p \in Family :
    \/ \E v \in PageVa : vm_do_claim_page(p, v) \/ StorePage(p, v) \/ vm_handle_wp(p, v)
                         \/ page_table_copy(p, v) \/ anon_destroy(p, v)
    \/ \E c \in Family : process_fork(p, c)
    \/ ForkDone(p) \/ process_exit(p)

CowSpec == CowInit /\ [][CowNext]_cwvars
-----------------------------------------------------------------------------
Users(f) == {pv \in Family \X PageVa : page_frame[pv[1]][pv[2]] = f}

(***************************************************************************)
(* r_cnt counts the pages that use the frame, through forks of forks,      *)
(* write faults and exits in any order; a free frame is in no page table,  *)
(* and no two processes can write the same frame.                          *)
(***************************************************************************)
SharingCounted ==
  \A f \in FrameKva :
    /\ r_cnt[f] = Cardinality(Users(f))
    /\ f \in free_frames => r_cnt[f] = 0
    /\ \A a, b \in Users(f) : entry[a[1]][a[2]] = "rw" /\ entry[b[1]][b[2]] = "rw" => a = b

(***************************************************************************)
(* A process finds in its memory what it would find if it were alone: what *)
(* it stored, or what its parent had stored before the fork.               *)
(***************************************************************************)
ForkIsolated ==
  \A p \in Family, v \in PageVa :
    life[p] = "live" /\ entry[p][v] # "none" => frame_data[page_frame[p][v]] = expected[p][v]
=============================================================================

------------------------------ MODULE VMProofs ------------------------------
(***************************************************************************)
(* Proofs for VM with one process, for any number of pages, frames and     *)
(* swap slots.  (With several, vm_evict_frame clears the entry in the page *)
(* table of whoever faults, and the invariant is lost.)                    *)
(*                                                                         *)
(* The inductive invariant says where the contents of each address are: in *)
(* its frame while the entry is present, and otherwise in the slot that    *)
(* only its page has, or in the file; and that a frame that has a page is  *)
(* on the frame list and has the frame of that page.                       *)
(***************************************************************************)
EXTENDS VM, FiniteSetTheorems, WellFoundedInduction, TLAPS

(* There is one process. *)
OneProcess == \A p, q \in Proc : p = q

(* The frames on the frame list. *)
OnList == {frame_list[i] : i \in DOMAIN frame_list}

PageStruct == [type : {"uninit", "anon", "file"}, frame : Kva \cup {None}, swap_idx : Slot \cup {None}]
PageEntry == [kva : Kva \cup {None}, present : BOOLEAN, dirty : BOOLEAN]
FaultAt == [va : Va \cup {NULL}, kva : Kva \cup {None}]

SptType == spt \in [Proc -> [Va -> Nat]] /\ \A p \in Proc, v \in Va : spt[p][v] \in 0..MaxMaps[v]
ListType == frame_list \in Seq(Kva) /\ Once(frame_list)
DiskType ==
  /\ swap_table \in SUBSET Slot
  /\ swap_disk \in [Slot -> Content]
  /\ file \in [SegVa \cup FileVa -> Content]

VmType ==
  /\ SptType
  /\ page \in [VmPage -> PageStruct]
  /\ pml4 \in [Proc -> [Va -> PageEntry]]
  /\ ListType
  /\ frame_page \in [Kva -> VmPage \cup {NULL}]
  /\ mem \in [Kva -> Content]
  /\ DiskType
  /\ phase \in [Proc -> {"user", "claim", "killed", "dead"}]
  /\ at \in [Proc -> FaultAt]
  /\ written \in [Proc -> [Va -> Content \cup {NULL}]]

(* A page has the type of its address; an anonymous page is never unmapped, *)
(* and only anonymous pages are in the swap disk.                           *)
PagesOK ==
  \A x \in VmPage :
    /\ page[x].type = "uninit" => page[x].frame = None
    /\ page[x].type = "anon" => x[2] \notin FileVa /\ spt[x[1]][x[2]] = x[3]
    /\ page[x].type = "file" => x[2] \in FileVa
    /\ page[x].swap_idx # None => page[x].type = "anon"

(* A frame that has a page is on the list, and no other frame has that page *)
(* if it is anonymous.  The frames of an unmapped file page stay.           *)
FramesOK ==
  \A k \in Kva : frame_page[k] # NULL =>
    /\ k \in OnList
    /\ page[frame_page[k]].type # "uninit"
    /\ page[frame_page[k]].type = "anon" => page[frame_page[k]].frame = k

EntryOK(p, v) ==
  /\ v \in FileVa /\ pml4[p][v].dirty => pml4[p][v].present
  /\ pml4[p][v].present =>
       /\ spt[p][v] # None
       /\ pml4[p][v].kva \in Kva
       /\ page[PageOf(p, v)].frame = pml4[p][v].kva
       /\ frame_page[pml4[p][v].kva] = PageOf(p, v)
  /\ spt[p][v] # None /\ page[PageOf(p, v)].type = "anon" =>
       IF pml4[p][v].present THEN page[PageOf(p, v)].swap_idx = None
       ELSE page[PageOf(p, v)].swap_idx # None /\ page[PageOf(p, v)].frame = None

SlotsOK ==
  /\ \A x \in VmPage : page[x].swap_idx # None => page[x].swap_idx \in swap_table
  /\ \A x, y \in VmPage : page[x].swap_idx # None /\ page[x].swap_idx = page[y].swap_idx => x = y
  /\ \A i \in swap_table : \E x \in VmPage : page[x].swap_idx = i

(* Nothing has been loaded into the page at an address. *)
Untouched(p, v) == spt[p][v] = None \/ page[PageOf(p, v)].type = "uninit"

(* What the program last stored is in the frame, in the slot or in the file. *)
ContentOK(p, v) ==
  /\ v \in FileVa => written[p][v] # NULL
  /\ v \in FileVa /\ ~pml4[p][v].dirty => file[v] = written[p][v]
  /\ v \in SegVa /\ Untouched(p, v) => file[v] = written[p][v]
  /\ v \in StackVa /\ Untouched(p, v) => written[p][v] = NULL
  /\ pml4[p][v].present /\ written[p][v] # NULL /\ ~(phase[p] = "killed" /\ at[p].va = v) =>
       mem[pml4[p][v].kva] = written[p][v]
  /\ ~Untouched(p, v) /\ page[PageOf(p, v)].type = "anon" /\ ~pml4[p][v].present /\ written[p][v] # NULL =>
       swap_disk[page[PageOf(p, v)].swap_idx] = written[p][v]

(* A fault is on a page that is not present, and its frame has no page yet. *)
FaultOK(p) ==
  /\ phase[p] = "claim" =>
       /\ at[p].va \in Va /\ at[p].kva \in OnList /\ at[p].kva \in Kva
       /\ frame_page[at[p].kva] = NULL
       /\ spt[p][at[p].va] # None /\ ~pml4[p][at[p].va].present
  /\ phase[p] = "killed" => at[p].va \in Beyond /\ ~pml4[p][at[p].va].dirty

EntriesOK == \A p \in Proc, v \in Va : EntryOK(p, v)
ContentsOK == \A p \in Proc, v \in Va : ContentOK(p, v)
FaultsOK == \A p \in Proc : FaultOK(p)

LiveInv == PagesOK /\ FramesOK /\ EntriesOK /\ SlotsOK /\ ContentsOK /\ FaultsOK

Live == \A p \in Proc : phase[p] # "dead"

(* A process has ended: what is left of its memory. *)
Ended == ~Live /\ StoresKept /\ FramesPrivate /\ SlotsOwned /\ FaultsServed

VmInv == VmType /\ (LiveInv \/ Ended)
-----------------------------------------------------------------------------
(* The smallest element of a set of numbers is one of them. *)
LEMMA MinIn ==
  ASSUME NEW S, S \subseteq Nat, S # {}
  PROVE  Min(S) \in S
<1>1. PICK x \in S : \A y \in S : ~(<<y, x>> \in OpToRel(<, Nat))
  BY NatLessThanWellFounded, WFMin, Zenon
<1>2. \A y \in S : ~(<<y, x>> \in {ss \in Nat \X Nat : ss[1] < ss[2]})
  BY <1>1, Zenon DEF OpToRel
<1>3. ASSUME NEW y \in S PROVE x <= y
  <2>1. x \in Nat /\ y \in Nat
    BY <1>1, Zenon
  <2>2. y < x => <<y, x>> \in Nat \X Nat /\ <<y, x>>[1] < <<y, x>>[2]
    BY <2>1
  <2>3. ~(y < x)
    BY <1>2, <2>2, Zenon
  <2> QED
    BY <2>1, <2>3
<1> QED
  BY <1>1, <1>3, Zenon DEF Min

(* A struct page and its name. *)
LEMMA PageName ==
  /\ \A x \in VmPage : /\ x = <<x[1], x[2], x[3]>>
                       /\ x[1] \in Proc /\ x[2] \in Va /\ x[3] \in 1..MaxMaps[x[2]]
  /\ \A p \in Proc, v \in Va : \A g \in 1..MaxMaps[v] : <<p, v, g>> \in VmPage
<1>1. ASSUME NEW x \in VmPage
      PROVE  /\ x = <<x[1], x[2], x[3]>>
             /\ x[1] \in Proc /\ x[2] \in Va /\ x[3] \in 1..MaxMaps[x[2]]
  <2>1. PICK v \in Va : x \in Proc \X {v} \X (1..MaxMaps[v])
    BY <1>1 DEF VmPage
  <2> QED
    BY <2>1
<1>2. ASSUME NEW p \in Proc, NEW v \in Va, NEW g \in 1..MaxMaps[v]
      PROVE  <<p, v, g>> \in VmPage
  <2>1. <<p, v, g>> \in Proc \X {v} \X (1..MaxMaps[v])
    OBVIOUS
  <2> QED
    BY <2>1 DEF VmPage
<1> QED
  BY <1>1, <1>2, Zenon

(* The numbers that frames, slots and generations are. *)
LEMMA Numbers ==
  /\ NumFrames \in Nat \ {0} /\ NumSlots \in Nat
  /\ \A v \in Va : MaxMaps[v] \in Nat \ {0} /\ \A g \in 1..MaxMaps[v] : g \in Nat /\ g # None
  /\ Kva \subseteq Nat /\ None \notin Kva /\ Slot \subseteq Nat /\ None \notin Slot
  /\ NULL \notin VmPage /\ NULL \notin Content
  /\ \A v \in FileVa : v \in Va /\ v \notin SegVa /\ v \notin StackVa
  /\ \A v \in Va : v \in SegVa \/ v \in StackVa \/ v \in FileVa
  /\ Beyond \subseteq FileVa /\ SegVa \cap StackVa = {}
BY VMAssumption DEF Va, Kva, Slot, None

(* A page that is in the spt is the page at its address. *)
LEMMA CurrentPage ==
  ASSUME OneProcess, NEW p \in Proc, NEW x \in VmPage, spt[x[1]][x[2]] = x[3]
  PROVE  x[2] \in Va /\ x = PageOf(p, x[2]) /\ spt[p][x[2]] # None
<1>1. x = <<x[1], x[2], x[3]>> /\ x[1] \in Proc /\ x[2] \in Va /\ x[3] \in 1..MaxMaps[x[2]]
  BY PageName, Zenon
<1>2. x[1] = p
  BY <1>1, Zenon DEF OneProcess
<1>3. x[3] # None
  BY <1>1, Numbers, Zenon
<1> QED
  BY <1>1, <1>2, <1>3, Zenon DEF PageOf

(* The page at an address that has one is a struct page. *)
LEMMA PageThere ==
  ASSUME SptType, NEW p \in Proc, NEW v \in Va, spt[p][v] # None
  PROVE  PageOf(p, v) \in VmPage
<1>1. spt[p][v] \in 1..MaxMaps[v]
  BY Numbers DEF SptType, None
<1> QED
  BY <1>1, PageName DEF PageOf

LEMMA PageOfIs ==
  /\ \A p \in Proc, v \in Va : PageOf(p, v)[1] = p /\ PageOf(p, v)[2] = v /\ PageOf(p, v)[3] = spt[p][v]
  /\ \A p, q \in Proc, v, w \in Va : PageOf(p, v) = PageOf(q, w) => p = q /\ v = w
BY DEF PageOf

(* A page table after a change of one entry. *)
Changed(t, u, p, v, e) ==
  /\ u \in [Proc -> [Va -> PageEntry]]
  /\ u[p][v] = e
  /\ \A q \in Proc, w \in Va : q # p \/ w # v => u[q][w] = t[q][w]

LEMMA ClearedEntry ==
  ASSUME NEW t, NEW u, NEW p \in Proc, NEW v \in Va, NEW a,
         Changed(t, u, p, v, [kva |-> a, present |-> FALSE, dirty |-> FALSE])
  PROVE  /\ u \in [Proc -> [Va -> PageEntry]] /\ ~u[p][v].present /\ ~u[p][v].dirty
<1>1. u[p][v] = [kva |-> a, present |-> FALSE, dirty |-> FALSE]
  BY Zenon DEF Changed
<1>2. ~u[p][v].present /\ ~u[p][v].dirty
  BY <1>1
<1> QED
  BY <1>2, Zenon DEF Changed

LEMMA EntryFields ==
  ASSUME NEW e \in PageEntry, NEW d
  PROVE  /\ [e EXCEPT !.present = d] = [kva |-> e.kva, present |-> d, dirty |-> e.dirty]
         /\ [e EXCEPT !.dirty = d] = [kva |-> e.kva, present |-> e.present, dirty |-> d]
BY DEF PageEntry

LEMMA EntryChanges ==
  ASSUME NEW t \in [Proc -> [Va -> PageEntry]], NEW p \in Proc, NEW v \in Va
  PROVE  /\ Changed(t, Pml4SetDirty(t, p, v, TRUE), p, v,
                    [kva |-> t[p][v].kva, present |-> t[p][v].present, dirty |-> TRUE])
         /\ Changed(t, Pml4ClearPage(Pml4SetDirty(t, p, v, FALSE), p, v), p, v,
                    [kva |-> t[p][v].kva, present |-> FALSE, dirty |-> FALSE])
         /\ Changed(t, Pml4ClearPage(t, p, v), p, v,
                    [kva |-> t[p][v].kva, present |-> FALSE, dirty |-> t[p][v].dirty])
         /\ \A k \in Kva : Changed(t, Pml4SetPage(t, p, v, k), p, v,
                                   [kva |-> k, present |-> TRUE, dirty |-> FALSE])
<1>1. ASSUME NEW s \in [Proc -> [Va -> PageEntry]], NEW e \in PageEntry
      PROVE  Changed(s, [s EXCEPT ![p][v] = e], p, v, e)
  BY DEF Changed
<1>2. ASSUME NEW s \in [Proc -> [Va -> PageEntry]], NEW d \in BOOLEAN
      PROVE  Changed(s, Pml4SetDirty(s, p, v, d), p, v,
                     [kva |-> s[p][v].kva, present |-> s[p][v].present, dirty |-> d])
  <2>1. PICK e \in PageEntry : e = [kva |-> s[p][v].kva, present |-> s[p][v].present, dirty |-> d]
    BY <1>2, Zenon DEF PageEntry
  <2>2. e = [s[p][v] EXCEPT !.dirty = d]
    <3>1. s[p][v] \in PageEntry
      BY <1>2
    <3> QED
      BY <2>1, <3>1 DEF PageEntry
  <2>3. Pml4SetDirty(s, p, v, d) = [s EXCEPT ![p][v] = e]
    BY <2>2 DEF Pml4SetDirty
  <2> QED
    BY <1>1, <1>2, <2>1, <2>3, Zenon
<1>3. ASSUME NEW s \in [Proc -> [Va -> PageEntry]]
      PROVE  Changed(s, Pml4ClearPage(s, p, v), p, v,
                     [kva |-> s[p][v].kva, present |-> FALSE, dirty |-> s[p][v].dirty])
  <2>1. PICK d \in BOOLEAN : d = FALSE
    BY Zenon
  <2>2. PICK e \in PageEntry : e = [kva |-> s[p][v].kva, present |-> d, dirty |-> s[p][v].dirty]
    BY <1>3, Zenon DEF PageEntry
  <2>3. e = [s[p][v] EXCEPT !.present = d]
    <3>1. s[p][v] \in PageEntry
      BY <1>3
    <3> QED
      BY <2>2, <3>1, EntryFields, Zenon
  <2>4. Pml4ClearPage(s, p, v) = [s EXCEPT ![p][v] = e]
    BY <2>1, <2>3, Zenon DEF Pml4ClearPage
  <2>5. e = [kva |-> s[p][v].kva, present |-> FALSE, dirty |-> s[p][v].dirty]
    BY <2>1, <2>2, Zenon
  <2> QED
    BY <1>1, <1>3, <2>4, <2>5, Zenon
<1>4. Changed(t, Pml4ClearPage(Pml4SetDirty(t, p, v, FALSE), p, v), p, v,
              [kva |-> t[p][v].kva, present |-> FALSE, dirty |-> FALSE])
  <2>1. PICK s : s = Pml4SetDirty(t, p, v, FALSE)
    BY Zenon
  <2>2. Changed(t, s, p, v, [kva |-> t[p][v].kva, present |-> t[p][v].present, dirty |-> FALSE])
    BY <1>2, <2>1, Zenon
  <2>3. /\ s \in [Proc -> [Va -> PageEntry]]
        /\ s[p][v].kva = t[p][v].kva /\ s[p][v].dirty = FALSE
        /\ \A q \in Proc, w \in Va : q # p \/ w # v => s[q][w] = t[q][w]
    BY <2>2 DEF Changed
  <2>4. PICK u : u = Pml4ClearPage(s, p, v)
    OBVIOUS
  <2>5. Changed(s, u, p, v, [kva |-> t[p][v].kva, present |-> FALSE, dirty |-> FALSE])
    BY <1>3, <2>3, <2>4, Zenon
  <2>6. Changed(t, u, p, v, [kva |-> t[p][v].kva, present |-> FALSE, dirty |-> FALSE])
    BY <2>3, <2>5 DEF Changed
  <2> QED
    BY <2>1, <2>4, <2>6, Zenon
<1>5. ASSUME NEW k \in Kva
      PROVE  Changed(t, Pml4SetPage(t, p, v, k), p, v, [kva |-> k, present |-> TRUE, dirty |-> FALSE])
  <2>1. PICK e \in PageEntry : e = [kva |-> k, present |-> TRUE, dirty |-> FALSE]
    BY Zenon DEF PageEntry
  <2> QED
    BY <1>1, <2>1, Zenon DEF Pml4SetPage
<1> QED
  BY <1>2, <1>3, <1>4, <1>5, Zenon

(* The frame list after a frame is put at its end, and after its first frame *)
(* is put there.                                                              *)
LEMMA Appended ==
  ASSUME ListType, NEW k \in Kva, k \notin OnList, frame_list' = Append(frame_list, k)
  PROVE  ListType' /\ OnList' = OnList \cup {k}
<1>1. /\ frame_list \in Seq(Kva) /\ Len(frame_list) \in Nat /\ DOMAIN frame_list = 1..Len(frame_list)
      /\ \A i, j \in 1..Len(frame_list) : frame_list[i] = frame_list[j] => i = j
      /\ \A i \in 1..Len(frame_list) : frame_list[i] # k
  BY DEF ListType, Once, OnList
<1>2. /\ frame_list' \in Seq(Kva) /\ Len(frame_list') = Len(frame_list) + 1
      /\ DOMAIN frame_list' = 1..(Len(frame_list) + 1)
      /\ frame_list'[Len(frame_list) + 1] = k
      /\ \A i \in 1..Len(frame_list) : frame_list'[i] = frame_list[i]
  BY <1>1
<1>3. Once(frame_list')
  BY <1>1, <1>2 DEF Once
<1>4. OnList' = OnList \cup {k}
  BY <1>1, <1>2 DEF OnList
<1> QED
  BY <1>2, <1>3, <1>4 DEF ListType

LEMMA Rotated ==
  ASSUME ListType, frame_list # <<>>, frame_list' = Append(Tail(frame_list), Head(frame_list))
  PROVE  ListType' /\ OnList' = OnList /\ Head(frame_list) \in Kva /\ Head(frame_list) \in OnList
<1> DEFINE n == Len(frame_list)
<1>1. /\ frame_list \in Seq(Kva) /\ n \in Nat \ {0} /\ DOMAIN frame_list = 1..n
      /\ \A i, j \in 1..n : frame_list[i] = frame_list[j] => i = j
      /\ Head(frame_list) = frame_list[1] /\ frame_list[1] \in Kva
  BY DEF ListType, Once
<1>2. /\ Tail(frame_list) \in Seq(Kva) /\ Len(Tail(frame_list)) = n - 1
      /\ \A i \in 1..(n - 1) : Tail(frame_list)[i] = frame_list[i + 1]
  BY <1>1
<1>3. /\ frame_list' \in Seq(Kva) /\ Len(frame_list') = n /\ DOMAIN frame_list' = 1..n
      /\ frame_list'[n] = frame_list[1]
      /\ \A i \in 1..(n - 1) : frame_list'[i] = frame_list[i + 1]
  BY <1>1, <1>2
<1> HIDE DEF n
<1>4. Once(frame_list')
  <2>1. ASSUME NEW i \in 1..n, NEW j \in 1..n, frame_list'[i] = frame_list'[j] PROVE i = j
    BY <1>1, <1>3, <2>1
  <2> QED
    BY <1>3, <2>1 DEF Once
<1>5. OnList' = OnList
  <2>1. \A i \in 1..n : \E j \in 1..n : frame_list'[i] = frame_list[j]
    BY <1>1, <1>3
  <2>2. \A j \in 1..n : \E i \in 1..n : frame_list'[i] = frame_list[j]
    <3> TAKE j \in 1..n
    <3>1. CASE j = 1
      BY <1>1, <1>3, <3>1
    <3>2. CASE j # 1
      <4>1. j - 1 \in 1..(n - 1) /\ (j - 1) + 1 = j /\ j - 1 \in 1..n
        BY <1>1, <3>2
      <4> QED
        BY <1>3, <4>1
    <3> QED
      BY <3>1, <3>2, Zenon
  <2>3. DOMAIN frame_list = 1..n /\ DOMAIN frame_list' = 1..n
    BY <1>1, <1>3
  <2>4. OnList \subseteq OnList'
    BY <2>2, <2>3, Zenon DEF OnList
  <2>5. OnList' \subseteq OnList
    BY <2>1, <2>3, Zenon DEF OnList
  <2> QED
    BY <2>4, <2>5, Zenon
<1>6. Head(frame_list) \in Kva /\ Head(frame_list) \in OnList
  <2>1. 1 \in DOMAIN frame_list
    BY <1>1
  <2> QED
    BY <1>1, <2>1, Zenon DEF OnList
<1> QED
  BY <1>3, <1>4, <1>5, <1>6, Zenon DEF ListType

LEMMA TypeHolds == VmType => TypeOK
<1> SUFFICES ASSUME VmType PROVE TypeOK
  OBVIOUS
<1>1. \A i, j \in DOMAIN frame_list : frame_list[i] \in Kva /\ (frame_list[i] = frame_list[j] => i = j)
  <2>1. frame_list \in Seq(Kva) /\ Once(frame_list)
    BY DEF VmType, ListType
  <2>2. DOMAIN frame_list = 1..Len(frame_list) /\ \A i \in 1..Len(frame_list) : frame_list[i] \in Kva
    BY <2>1
  <2> QED
    BY <2>1, <2>2, Zenon DEF Once
<1>2. \A p \in Proc, v \in Va : spt[p][v] \in 0..MaxMaps[v]
  BY DEF VmType, SptType
<1> QED
  BY <1>1, <1>2, Zenon DEF VmType, DiskType, TypeOK, PageStruct, PageEntry

LEMMA VmInitial == Init => VmInv
<1> SUFFICES ASSUME Init PROVE VmInv
  OBVIOUS
<1>1. SptType
  BY Numbers DEF Init, SptType, None
<1>2. page \in [VmPage -> PageStruct] /\ \A x \in VmPage : page[x] = [type |-> "uninit", frame |-> None, swap_idx |-> None]
  BY DEF Init, PageStruct
<1>3. /\ pml4 \in [Proc -> [Va -> PageEntry]]
      /\ \A p \in Proc, v \in Va : pml4[p][v] = [kva |-> None, present |-> FALSE, dirty |-> FALSE]
  BY DEF Init, PageEntry
<1>4. ListType
  BY DEF Init, ListType, Once
<1>5. frame_page \in [Kva -> VmPage \cup {NULL}] /\ mem \in [Kva -> Content] /\ \A k \in Kva : frame_page[k] = NULL
  BY DEF Init, Content
<1>6. DiskType /\ swap_table = {}
  BY DEF Init, DiskType, Content
<1>7. phase \in [Proc -> {"user", "claim", "killed", "dead"}] /\ \A p \in Proc : phase[p] = "user"
  BY DEF Init
<1>8. at \in [Proc -> FaultAt]
  BY DEF Init, FaultAt
<1>9. written \in [Proc -> [Va -> Content \cup {NULL}]]
  BY DEF Init, Content
<1>10. VmType
  BY <1>1, <1>2, <1>3, <1>4, <1>5, <1>6, <1>7, <1>8, <1>9, Zenon DEF VmType
<1>11. PagesOK
  BY <1>2 DEF PagesOK
<1>12. FramesOK
  BY <1>5 DEF FramesOK
<1>13. EntriesOK
  <2> SUFFICES ASSUME NEW p \in Proc, NEW v \in Va PROVE EntryOK(p, v)
    BY DEF EntriesOK
  <2>1. spt[p][v] # None => page[PageOf(p, v)].type = "uninit"
    BY <1>1, <1>2, PageThere
  <2> QED
    BY <1>3, <2>1 DEF EntryOK
<1>14. SlotsOK
  BY <1>2, <1>6 DEF SlotsOK
<1>15. ContentsOK
  <2> SUFFICES ASSUME NEW p \in Proc, NEW v \in Va PROVE ContentOK(p, v)
    BY DEF ContentsOK
  <2>1. Untouched(p, v)
    BY <1>1, <1>2, PageThere DEF Untouched
  <2>2. written[p][v] = IF v \in StackVa THEN NULL ELSE 0
    BY DEF Init
  <2>4. 0 # NULL
    BY Numbers DEF Content
  <2>3. v \in SegVa \cup FileVa => file[v] = 0
    BY DEF Init
  <2> QED
    BY <1>3, <2>1, <2>2, <2>3, <2>4, Numbers DEF ContentOK
<1>16. FaultsOK
  BY <1>7 DEF FaultsOK, FaultOK
<1> QED
  BY <1>10, <1>11, <1>12, <1>13, <1>14, <1>15, <1>16, Zenon DEF VmInv, LiveInv
-----------------------------------------------------------------------------
(* What the inductive invariant says of one address that is present. *)
LEMMA Present ==
  ASSUME VmType, LiveInv, NEW p \in Proc, NEW v \in Va, pml4[p][v].present
  PROVE  /\ pml4[p][v].kva \in Kva /\ pml4[p][v].kva \in OnList
         /\ frame_page[pml4[p][v].kva] = PageOf(p, v)
         /\ spt[p][v] # None /\ PageOf(p, v) \in VmPage
         /\ page[PageOf(p, v)].frame = pml4[p][v].kva /\ ~Untouched(p, v)
<1> DEFINE k == pml4[p][v].kva
<1>1. /\ k \in Kva /\ frame_page[k] = PageOf(p, v) /\ spt[p][v] # None
      /\ page[PageOf(p, v)].frame = k
  BY DEF LiveInv, EntriesOK, EntryOK
<1>2. PageOf(p, v) \in VmPage
  BY <1>1, PageThere DEF VmType
<1>3. frame_page[k] # NULL
  BY <1>1, <1>2, Numbers, Zenon
<1>4. k \in OnList /\ page[frame_page[k]].type # "uninit"
  BY <1>1, <1>3, Zenon DEF LiveInv, FramesOK
<1>5. ~Untouched(p, v)
  BY <1>1, <1>4, Zenon DEF Untouched
<1> QED
  BY <1>1, <1>2, <1>4, <1>5, Zenon

(* No frame is mapped twice. *)
LEMMA MappedOnce ==
  ASSUME LiveInv, NEW p \in Proc, NEW v \in Va, NEW q \in Proc, NEW w \in Va,
         pml4[p][v].present, pml4[q][w].present, pml4[q][w].kva = pml4[p][v].kva
  PROVE  q = p /\ w = v
<1>1. EntryOK(p, v) /\ EntryOK(q, w)
  BY Zenon DEF LiveInv, EntriesOK
<1>2. PageOf(q, w) = PageOf(p, v)
  BY <1>1, Zenon DEF EntryOK
<1> QED
  BY <1>2 DEF PageOf

LEMMA StoreStep ==
  ASSUME VmType, LiveInv, NEW p \in Proc, NEW v \in Va, NEW value \in Value, Store(p, v, value)
  PROVE  VmType' /\ LiveInv'
<1> DEFINE k == pml4[p][v].kva
<1>1. /\ k \in Kva /\ ~Untouched(p, v) /\ spt[p][v] # None
      /\ \A q \in Proc, w \in Va : pml4[q][w].present /\ pml4[q][w].kva = k => q = p /\ w = v
  <2>1. pml4[p][v].present
    BY Zenon DEF Store
  <2>2. k \in Kva
    BY <2>1, Present, Zenon
  <2>3. ~Untouched(p, v) /\ spt[p][v] # None
    BY <2>1, Present, Zenon
  <2> QED
    BY <2>1, <2>2, <2>3, MappedOnce, Zenon
<1>2. /\ spt' = spt /\ page' = page /\ frame_list' = frame_list /\ frame_page' = frame_page
      /\ swap_table' = swap_table /\ swap_disk' = swap_disk /\ file' = file
      /\ phase' = phase /\ at' = at
      /\ phase[p] = "user" /\ pml4[p][v].present
  BY DEF Store, disks, Running
<1>3. /\ mem' \in [Kva -> Content] /\ mem'[k] = value
      /\ \A l \in Kva : l # k => mem'[l] = mem[l]
  BY <1>1 DEF Store, VmType, Content
<1>4. /\ pml4' \in [Proc -> [Va -> PageEntry]]
      /\ pml4'[p][v].kva = k /\ pml4'[p][v].present = pml4[p][v].present /\ pml4'[p][v].dirty
      /\ \A q \in Proc, w \in Va : q # p \/ w # v => pml4'[q][w] = pml4[q][w]
  <2>1. pml4 \in [Proc -> [Va -> PageEntry]] /\ pml4' = Pml4SetDirty(pml4, p, v, TRUE)
    BY DEF Store, VmType
  <2>2. Changed(pml4, pml4', p, v, [kva |-> k, present |-> pml4[p][v].present, dirty |-> TRUE])
    BY <2>1, EntryChanges, Zenon
  <2> QED
    BY <2>2 DEF Changed
<1>5. /\ written' \in [Proc -> [Va -> Content \cup {NULL}]]
      /\ written'[p][v] = value /\ value # NULL
      /\ \A q \in Proc, w \in Va : q # p \/ w # v => written'[q][w] = written[q][w]
  BY Numbers DEF Store, VmType, Content
<1>6. VmType'
  BY <1>2, <1>3, <1>4, <1>5, Zenon DEF VmType, SptType, ListType, DiskType
<1>7. PagesOK' /\ FramesOK' /\ SlotsOK'
  <2>1. PagesOK'
    BY <1>2, Zenon DEF LiveInv, PagesOK
  <2>2. FramesOK'
    BY <1>2 DEF LiveInv, FramesOK, OnList
  <2>3. SlotsOK'
    BY <1>2, Zenon DEF LiveInv, SlotsOK
  <2> QED
    BY <2>1, <2>2, <2>3
<1>8. EntriesOK'
  <2> SUFFICES ASSUME NEW q \in Proc, NEW w \in Va PROVE EntryOK(q, w)'
    BY DEF EntriesOK
  <2>1. EntryOK(q, w) /\ PageOf(q, w)' = PageOf(q, w)
    BY <1>2 DEF LiveInv, EntriesOK, PageOf
  <2>2. CASE q = p /\ w = v
    BY <1>2, <1>4, <2>1, <2>2, Zenon DEF EntryOK
  <2>3. CASE q # p \/ w # v
    BY <1>2, <1>4, <2>1, <2>3, Zenon DEF EntryOK
  <2> QED
    BY <2>2, <2>3
<1>9. ContentsOK'
  <2> SUFFICES ASSUME NEW q \in Proc, NEW w \in Va PROVE ContentOK(q, w)'
    BY Zenon DEF ContentsOK
  <2>1. ContentOK(q, w) /\ PageOf(q, w)' = PageOf(q, w) /\ Untouched(q, w)' = Untouched(q, w)
    BY <1>2 DEF LiveInv, ContentsOK, PageOf, Untouched
  <2>2. CASE q = p /\ w = v
    BY <1>1, <1>2, <1>3, <1>4, <1>5, <2>1, <2>2, Zenon DEF ContentOK
  <2>3. CASE q # p \/ w # v
    <3>1. pml4[q][w].present => pml4[q][w].kva \in Kva /\ pml4[q][w].kva # k
      BY <1>1, <2>3, Zenon DEF LiveInv, EntriesOK, EntryOK
    <3>2. pml4[q][w].present => mem'[pml4[q][w].kva] = mem[pml4[q][w].kva]
      BY <1>3, <3>1, Zenon
    <3> QED
      BY <1>2, <1>4, <1>5, <2>1, <2>3, <3>2, ZenonT(30) DEF ContentOK
  <2> QED
    BY <2>2, <2>3
<1>10. FaultsOK'
  <2> SUFFICES ASSUME NEW q \in Proc PROVE FaultOK(q)'
    BY DEF FaultsOK
  <2>1. FaultOK(q)
    BY DEF LiveInv, FaultsOK
  <2>2. \A w \in Va : pml4'[q][w].present = pml4[q][w].present
    BY <1>4, Zenon
  <2>3. phase[q] = "killed" => q # p /\ at[q].va \in Va
    BY <1>2, <2>1, Numbers DEF FaultOK
  <2> QED
    BY <1>2, <1>4, <2>1, <2>2, <2>3 DEF FaultOK, OnList
<1> QED
  BY <1>6, <1>7, <1>8, <1>9, <1>10, Zenon DEF LiveInv

(* vm_alloc_page_with_initializer: a page that nothing has been loaded into. *)
LEMMA AllocStep ==
  ASSUME VmType, LiveInv, NEW p \in Proc, NEW v \in Va, NEW g \in 1..MaxMaps[v],
         VmAllocPage(p, v, g), page[<<p, v, g>>].type = "uninit", phase[p] = "user",
         UNCHANGED <<page, pml4, frame_list, frame_page, mem, disks, phase, at, written>>
  PROVE  VmType' /\ LiveInv'
<1>1. /\ page' = page /\ pml4' = pml4 /\ frame_list' = frame_list /\ frame_page' = frame_page /\ mem' = mem
      /\ swap_table' = swap_table /\ swap_disk' = swap_disk /\ file' = file
      /\ phase' = phase /\ at' = at /\ written' = written
  BY DEF disks
<1>2. /\ spt' \in [Proc -> [Va -> Nat]] /\ spt'[p][v] = g /\ spt[p][v] = None /\ g # None
      /\ \A q \in Proc, w \in Va : q # p \/ w # v => spt'[q][w] = spt[q][w]
  <2>1. g \in Nat /\ g # None
    BY Numbers, Zenon
  <2> QED
    BY <2>1, Zenon DEF VmType, SptType, VmAllocPage
<1>3. SptType'
  <2> SUFFICES ASSUME NEW q \in Proc, NEW w \in Va PROVE spt'[q][w] \in 0..MaxMaps[w]
    BY <1>2 DEF SptType
  <2>1. CASE q = p /\ w = v
    BY <1>2, <2>1, Numbers
  <2>2. CASE q # p \/ w # v
    BY <1>2, <2>2 DEF VmType, SptType
  <2> QED
    BY <2>1, <2>2
<1>4. VmType'
  BY <1>1, <1>3, Zenon DEF VmType, ListType, DiskType
<1>5. \A q \in Proc, w \in Va : /\ q # p \/ w # v => PageOf(q, w)' = PageOf(q, w)
                                /\ Untouched(q, w)' = Untouched(q, w)
  <2> SUFFICES ASSUME NEW q \in Proc, NEW w \in Va
               PROVE  /\ q # p \/ w # v => PageOf(q, w)' = PageOf(q, w)
                      /\ Untouched(q, w)' = Untouched(q, w)
    BY Zenon
  <2>1. CASE q = p /\ w = v
    BY <1>1, <1>2, <2>1, Zenon DEF PageOf, Untouched
  <2>2. CASE q # p \/ w # v
    BY <1>1, <1>2, <2>2, Zenon DEF PageOf, Untouched
  <2> QED
    BY <2>1, <2>2
<1>6. PagesOK'
  <2> SUFFICES ASSUME NEW x \in VmPage, page[x].type = "anon" PROVE spt'[x[1]][x[2]] = x[3]
    BY <1>1 DEF LiveInv, PagesOK
  <2>1. spt[x[1]][x[2]] = x[3] /\ x[1] \in Proc /\ x[2] \in Va /\ x[3] # None
    BY PageName, Numbers, Zenon DEF LiveInv, PagesOK
  <2> QED
    BY <1>2, <2>1
<1>7. FramesOK' /\ SlotsOK'
  BY <1>1 DEF LiveInv, FramesOK, SlotsOK, OnList
<1>8. EntriesOK'
  <2> SUFFICES ASSUME NEW q \in Proc, NEW w \in Va PROVE EntryOK(q, w)'
    BY DEF EntriesOK
  <2>1. EntryOK(q, w)
    BY Zenon DEF LiveInv, EntriesOK
  <2>2. CASE q = p /\ w = v
    <3>1. ~pml4[p][v].present
      BY <1>2, <2>1, <2>2, Zenon DEF EntryOK
    <3>2. page'[PageOf(p, v)'].type = "uninit"
      BY <1>1, <1>2 DEF PageOf
    <3> QED
      BY <1>1, <2>1, <2>2, <3>1, <3>2, Zenon DEF EntryOK
  <2>3. CASE q # p \/ w # v
    BY <1>1, <1>2, <1>5, <2>1, <2>3, Zenon DEF EntryOK
  <2> QED
    BY <2>2, <2>3
<1>9. ContentsOK'
  <2> SUFFICES ASSUME NEW q \in Proc, NEW w \in Va PROVE ContentOK(q, w)'
    BY DEF ContentsOK
  <2>1. ContentOK(q, w) /\ Untouched(q, w)' = Untouched(q, w)
    BY <1>5 DEF LiveInv, ContentsOK
  <2>2. CASE q = p /\ w = v
    <3>1. Untouched(q, w)
      BY <1>2, <2>2 DEF Untouched
    <3> QED
      BY <1>1, <2>1, <3>1, Zenon DEF ContentOK
  <2>3. CASE q # p \/ w # v
    BY <1>1, <1>5, <2>1, <2>3, Zenon DEF ContentOK
  <2> QED
    BY <2>2, <2>3
<1>10. FaultsOK'
  <2> SUFFICES ASSUME NEW q \in Proc PROVE FaultOK(q)'
    BY DEF FaultsOK
  <2>1. FaultOK(q) /\ OnList' = OnList
    BY <1>1 DEF LiveInv, FaultsOK, OnList
  <2>2. phase[q] = "claim" => q # p
    OBVIOUS
  <2> QED
    BY <1>1, <1>2, <2>1, <2>2 DEF FaultOK
<1> QED
  BY <1>4, <1>6, <1>7, <1>8, <1>9, <1>10, Zenon DEF LiveInv

LEMMA GrowthStep ==
  ASSUME VmType, LiveInv, NEW p \in Proc, NEW v \in Va, VmStackGrowth(p, v)
  PROVE  VmType' /\ LiveInv'
<1>1. /\ VmAllocPage(p, v, 1) /\ phase[p] = "user" /\ v \in StackVa /\ spt[p][v] = None
      /\ UNCHANGED <<page, pml4, frame_list, frame_page, mem, disks, phase, at, written>>
  BY DEF VmStackGrowth, VmAllocPage, Running
<1>2. 1 \in 1..MaxMaps[v]
  BY Numbers
<1>3. <<p, v, 1>> \in VmPage
  BY <1>2, PageName
<1>4. page[<<p, v, 1>>].type = "uninit"
  <2>1. page[<<p, v, 1>>].type \in {"uninit", "anon", "file"}
    BY <1>3 DEF VmType, PageStruct
  <2>2. page[<<p, v, 1>>].type # "file"
    BY <1>1, <1>3, Numbers, Zenon DEF LiveInv, PagesOK
  <2>3. page[<<p, v, 1>>].type # "anon"
    BY <1>1, <1>3 DEF LiveInv, PagesOK, None
  <2> QED
    BY <2>1, <2>2, <2>3
<1> QED
  BY <1>1, <1>2, <1>4, AllocStep, Zenon

LEMMA MmapStep ==
  ASSUME VmType, LiveInv, NEW p \in Proc, NEW v \in Va, DoMmap(p, v)
  PROVE  VmType' /\ LiveInv'
<1> DEFINE fresh == {g \in 1..MaxMaps[v] : page[<<p, v, g>>].type = "uninit"}
<1>1. /\ fresh # {} /\ VmAllocPage(p, v, Min(fresh)) /\ phase[p] = "user"
      /\ UNCHANGED <<page, pml4, frame_list, frame_page, mem, disks, phase, at, written>>
  BY Zenon DEF DoMmap, Running
<1>2. fresh \subseteq Nat
  BY Numbers
<1>3. Min(fresh) \in fresh
  BY <1>1, <1>2, MinIn, Zenon
<1>4. Min(fresh) \in 1..MaxMaps[v] /\ page[<<p, v, Min(fresh)>>].type = "uninit"
  BY <1>3, Zenon
<1> HIDE DEF fresh
<1> QED
  BY <1>1, <1>4, AllocStep, Zenon

LEMMA SameStep ==
  ASSUME VmType, LiveInv,
         UNCHANGED <<spt, page, pml4, frame_list, frame_page, mem, disks, phase, at, written>>
  PROVE  VmType' /\ LiveInv'
<1>1. /\ spt' = spt /\ page' = page /\ pml4' = pml4 /\ frame_list' = frame_list
      /\ frame_page' = frame_page /\ mem' = mem
      /\ swap_table' = swap_table /\ swap_disk' = swap_disk /\ file' = file
      /\ phase' = phase /\ at' = at /\ written' = written
  BY DEF disks
<1>2. VmType'
  BY <1>1, Zenon DEF VmType, SptType, ListType, DiskType
<1>3. OnList' = OnList /\ \A p \in Proc, v \in Va : PageOf(p, v)' = PageOf(p, v)
  BY <1>1 DEF OnList, PageOf
<1>4. \A p \in Proc, v \in Va : Untouched(p, v)' = Untouched(p, v)
  BY <1>1, <1>3 DEF Untouched
<1>5. PagesOK' /\ FramesOK' /\ SlotsOK'
  <2>1. PagesOK'
    BY <1>1, Zenon DEF LiveInv, PagesOK
  <2>2. FramesOK'
    BY <1>1, <1>3, Zenon DEF LiveInv, FramesOK
  <2>3. SlotsOK'
    BY <1>1, Zenon DEF LiveInv, SlotsOK
  <2> QED
    BY <2>1, <2>2, <2>3
<1>6. EntriesOK'
  <2> SUFFICES ASSUME NEW p \in Proc, NEW v \in Va PROVE EntryOK(p, v)'
    BY DEF EntriesOK
  <2>1. EntryOK(p, v)
    BY Zenon DEF LiveInv, EntriesOK
  <2> QED
    BY <1>1, <1>3, <2>1, Zenon DEF EntryOK
<1>7. ContentsOK'
  <2> SUFFICES ASSUME NEW p \in Proc, NEW v \in Va PROVE ContentOK(p, v)'
    BY DEF ContentsOK
  <2>1. ContentOK(p, v)
    BY Zenon DEF LiveInv, ContentsOK
  <2> QED
    BY <1>1, <1>3, <1>4, <2>1, Zenon DEF ContentOK
<1>8. FaultsOK'
  BY <1>1, <1>3, Zenon DEF LiveInv, FaultsOK, FaultOK
<1> QED
  BY <1>2, <1>5, <1>6, <1>7, <1>8, Zenon DEF LiveInv

(* A dirty page is in its frame. *)
LEMMA DirtyPage ==
  ASSUME VmType, LiveInv, NEW p \in Proc, NEW v \in FileVa, pml4[p][v].dirty, phase[p] # "killed"
  PROVE  /\ spt[p][v] # None /\ pml4[p][v].present
         /\ page[PageOf(p, v)].frame \in Kva
         /\ mem[page[PageOf(p, v)].frame] = written[p][v]
<1>1. v \in Va
  BY Numbers
<1>2. EntryOK(p, v) /\ ContentOK(p, v)
  BY <1>1 DEF LiveInv, EntriesOK, ContentsOK
<1>3. pml4[p][v].present
  BY <1>2 DEF EntryOK
<1> QED
  BY <1>2, <1>3 DEF EntryOK, ContentOK

LEMMA MunmapStep ==
  ASSUME VmType, LiveInv, OneProcess, NEW p \in Proc, NEW v \in Va, DoMunmap(p, v)
  PROVE  VmType' /\ LiveInv'
<1>1. /\ page' = page /\ frame_list' = frame_list /\ frame_page' = frame_page /\ mem' = mem
      /\ swap_table' = swap_table /\ swap_disk' = swap_disk
      /\ phase' = phase /\ at' = at /\ written' = written
      /\ phase[p] = "user" /\ v \in FileVa /\ spt[p][v] # None
  BY DEF DoMunmap, Running
<1>2. CASE page[PageOf(p, v)].type = "uninit"
  <2>1. spt' = spt /\ pml4' = pml4 /\ file' = file
    BY <1>2 DEF DoMunmap
  <2> QED
    BY <1>1, <2>1, SameStep DEF disks
<1>3. CASE page[PageOf(p, v)].type # "uninit"
  <2>1. /\ spt' = [spt EXCEPT ![p][v] = None]
        /\ MunmapCleaner(p, PageOf(p, v))
        /\ pml4' = Pml4ClearPage(Pml4SetDirty(pml4, p, v, FALSE), p, v)
    BY <1>3 DEF DoMunmap
  <2>2. /\ spt' \in [Proc -> [Va -> Nat]] /\ spt'[p][v] = None
        /\ \A w \in Va : w # v => spt'[p][w] = spt[p][w]
    BY <2>1 DEF VmType, SptType, None
  <2>3. SptType'
    BY <2>2, OneProcess, Numbers DEF VmType, SptType, None, OneProcess
  <2>4. /\ pml4' \in [Proc -> [Va -> PageEntry]]
        /\ ~pml4'[p][v].present /\ ~pml4'[p][v].dirty
        /\ \A w \in Va : w # v => pml4'[p][w] = pml4[p][w]
    <3>1. Changed(pml4, pml4', p, v, [kva |-> pml4[p][v].kva, present |-> FALSE, dirty |-> FALSE])
      BY <2>1, EntryChanges, Zenon DEF VmType
    <3> QED
      BY <3>1 DEF Changed
  <2>5. /\ file' \in [SegVa \cup FileVa -> Content]
        /\ file'[v] = written[p][v]
        /\ \A w \in SegVa \cup FileVa : w # v => file'[w] = file[w]
    <3>1. file \in [SegVa \cup FileVa -> Content] /\ mem \in [Kva -> Content] /\ v \in SegVa \cup FileVa
      BY <1>1 DEF VmType, DiskType
    <3>2. file' = IF pml4[p][v].dirty THEN [file EXCEPT ![v] = mem[page[PageOf(p, v)].frame]] ELSE file
      BY <2>1 DEF MunmapCleaner, Pml4IsDirty, PageOf
    <3>3. CASE pml4[p][v].dirty
      BY <1>1, <3>1, <3>2, <3>3, DirtyPage, SMTT(30)
    <3>4. CASE ~pml4[p][v].dirty
      BY <1>1, <3>1, <3>2, <3>4 DEF LiveInv, ContentsOK, ContentOK
    <3> QED
      BY <3>3, <3>4
  <2>6. VmType'
    BY <1>1, <2>3, <2>4, <2>5, Zenon DEF VmType, ListType, DiskType
  <2>7. \A w \in Va : w # v => PageOf(p, w)' = PageOf(p, w) /\ Untouched(p, w)' = Untouched(p, w)
    BY <1>1, <2>2, Zenon DEF PageOf, Untouched
  <2>8. OnList' = OnList
    BY <1>1 DEF OnList
  <2>9. PagesOK'
    <3> SUFFICES ASSUME NEW x \in VmPage, page[x].type = "anon" PROVE spt'[x[1]][x[2]] = x[3]
      BY <1>1 DEF LiveInv, PagesOK
    <3>1. spt[x[1]][x[2]] = x[3] /\ x[1] = p /\ x[2] \in Va /\ x[2] \notin FileVa
      BY PageName DEF LiveInv, PagesOK, OneProcess
    <3> QED
      BY <1>1, <2>2, <3>1
  <2>10. FramesOK' /\ SlotsOK'
    BY <1>1, <2>8, Zenon DEF LiveInv, FramesOK, SlotsOK
  <2>11. EntriesOK'
    <3> SUFFICES ASSUME NEW w \in Va PROVE EntryOK(p, w)'
      BY DEF EntriesOK, OneProcess
    <3>1. EntryOK(p, w)
      BY Zenon DEF LiveInv, EntriesOK
    <3>2. CASE w = v
      BY <2>2, <2>4, <3>2 DEF EntryOK
    <3>3. CASE w # v
      BY <1>1, <2>2, <2>4, <2>7, <3>1, <3>3, Zenon DEF EntryOK
    <3> QED
      BY <3>2, <3>3
  <2>12. ContentsOK'
    <3> SUFFICES ASSUME NEW w \in Va PROVE ContentOK(p, w)'
      BY DEF ContentsOK, OneProcess
    <3>1. ContentOK(p, w)
      BY Zenon DEF LiveInv, ContentsOK
    <3>2. CASE w = v
      <4>1. v \notin SegVa /\ v \notin StackVa /\ Untouched(p, v)'
        BY <1>1, <2>2, Numbers DEF Untouched
      <4> QED
        BY <1>1, <2>4, <2>5, <3>1, <3>2, <4>1, Zenon DEF ContentOK
    <3>3. CASE w # v
      <4>1. w \in SegVa \/ w \in FileVa => file'[w] = file[w]
        BY <2>5, <3>3
      <4> QED
        BY <1>1, <2>4, <2>7, <3>1, <3>3, <4>1, Zenon DEF ContentOK
    <3> QED
      BY <3>2, <3>3
  <2>13. FaultsOK'
    BY <1>1 DEF FaultsOK, FaultOK, OneProcess
  <2> QED
    BY <2>6, <2>9, <2>10, <2>11, <2>12, <2>13, Zenon DEF LiveInv
<1> QED
  BY <1>2, <1>3

(* What Got does: the fault of p at v gets a frame that has no page. *)
LEMMA GotFrame ==
  ASSUME VmType, NEW p \in Proc, NEW v \in Va, NEW k \in Kva, Got(p, v, k)
  PROVE  /\ frame_page' \in [Kva -> VmPage \cup {NULL}] /\ frame_page'[k] = NULL
         /\ \A l \in Kva : l # k => frame_page'[l] = frame_page[l]
         /\ at' \in [Proc -> FaultAt] /\ at'[p].va = v /\ at'[p].kva = k
         /\ phase' \in [Proc -> {"user", "claim", "killed", "dead"}] /\ phase'[p] = "claim"
<1>1. [va |-> v, kva |-> k] \in FaultAt
  BY DEF FaultAt
<1>2. at' \in [Proc -> FaultAt] /\ at'[p] = [va |-> v, kva |-> k]
  BY <1>1 DEF VmType, Got
<1> QED
  BY <1>2 DEF VmType, Got

LEMMA GetFrameStep ==
  ASSUME VmType, LiveInv, OneProcess, NEW p \in Proc, NEW v \in Va, VmGetFrame(p, v)
  PROVE  VmType' /\ LiveInv'
<1> DEFINE free == Kva \ OnList
           k == Min(free)
<1>1. /\ spt' = spt /\ page' = page /\ pml4' = pml4
      /\ swap_table' = swap_table /\ swap_disk' = swap_disk /\ file' = file /\ written' = written
      /\ phase[p] = "user" /\ spt[p][v] # None /\ ~pml4[p][v].present /\ free # {}
      /\ mem' = [mem EXCEPT ![k] = 0] /\ frame_list' = Append(frame_list, k) /\ Got(p, v, k)
  BY DEF VmGetFrame, Faults, Running, disks, OnList
<1>2. k \in Kva /\ k \notin OnList
  <2>1. free \subseteq Nat
    BY Numbers, Zenon
  <2>2. k \in free
    BY <1>1, <2>1, MinIn, Zenon
  <2> QED
    BY <2>2, Zenon
<1> HIDE DEF free, k
<1>3. /\ frame_page' \in [Kva -> VmPage \cup {NULL}] /\ frame_page'[k] = NULL
      /\ \A l \in Kva : l # k => frame_page'[l] = frame_page[l]
      /\ at' \in [Proc -> FaultAt] /\ at'[p].va = v /\ at'[p].kva = k
      /\ phase' \in [Proc -> {"user", "claim", "killed", "dead"}] /\ phase'[p] = "claim"
  BY <1>1, <1>2, GotFrame, Zenon
<1>4. /\ mem' \in [Kva -> Content]
      /\ \A l \in Kva : l # k => mem'[l] = mem[l]
  BY <1>1, <1>2 DEF VmType, Content
<1>5. ListType' /\ OnList' = OnList \cup {k}
  BY <1>1, <1>2, Appended DEF VmType
<1>6. VmType'
  BY <1>1, <1>3, <1>4, <1>5, Zenon DEF VmType, SptType, DiskType
<1>7. frame_page[k] = NULL
  BY <1>2 DEF LiveInv, FramesOK
<1>8. PagesOK' /\ SlotsOK'
  <2>1. PagesOK'
    BY <1>1, Zenon DEF LiveInv, PagesOK
  <2>2. SlotsOK'
    BY <1>1, Zenon DEF LiveInv, SlotsOK
  <2> QED
    BY <2>1, <2>2
<1>9. FramesOK'
  BY <1>1, <1>3, <1>5, <1>7 DEF LiveInv, FramesOK
<1>10. \A w \in Va : PageOf(p, w)' = PageOf(p, w) /\ Untouched(p, w)' = Untouched(p, w)
  BY <1>1 DEF PageOf, Untouched
<1>11. \A w \in Va : pml4[p][w].present => pml4[p][w].kva \in Kva /\ pml4[p][w].kva # k
  BY <1>2, Present, Zenon
<1>12. EntriesOK'
  <2> SUFFICES ASSUME NEW w \in Va PROVE EntryOK(p, w)'
    BY DEF EntriesOK, OneProcess
  <2>1. EntryOK(p, w)
    BY Zenon DEF LiveInv, EntriesOK
  <2>2. pml4[p][w].present => frame_page'[pml4[p][w].kva] = frame_page[pml4[p][w].kva]
    BY <1>3, <1>11, Zenon
  <2> QED
    BY <1>1, <1>10, <2>1, <2>2, Zenon DEF EntryOK
<1>13. ContentsOK'
  <2> SUFFICES ASSUME NEW w \in Va PROVE ContentOK(p, w)'
    BY DEF ContentsOK, OneProcess
  <2>1. ContentOK(p, w)
    BY Zenon DEF LiveInv, ContentsOK
  <2>2. pml4[p][w].present => mem'[pml4[p][w].kva] = mem[pml4[p][w].kva]
    BY <1>4, <1>11, Zenon
  <2>3. phase[p] # "killed"
    BY <1>1, Zenon
  <2> QED
    BY <1>1, <1>10, <2>1, <2>2, <2>3, Zenon DEF ContentOK
<1>14. FaultsOK'
  BY <1>1, <1>2, <1>3, <1>5 DEF FaultsOK, FaultOK, OneProcess
<1> QED
  BY <1>6, <1>8, <1>9, <1>12, <1>13, <1>14, Zenon DEF LiveInv

(* The struct page of a frame that is evicted. *)
LEMMA VictimPage ==
  ASSUME VmType, LiveInv, OneProcess, NEW p \in Proc, NEW k \in Kva, frame_page[k] # NULL
  PROVE  /\ frame_page[k] \in VmPage
         /\ frame_page[k] = <<p, frame_page[k][2], frame_page[k][3]>> /\ frame_page[k][2] \in Va
         /\ page[frame_page[k]].type \in {"anon", "file"}
         /\ \A w \in Va : /\ pml4[p][w].present /\ pml4[p][w].kva = k => PageOf(p, w) = frame_page[k]
                          /\ w # frame_page[k][2] => PageOf(p, w) # frame_page[k]
<1>1. frame_page[k] \in VmPage
  BY DEF VmType
<1>2. frame_page[k] = <<p, frame_page[k][2], frame_page[k][3]>> /\ frame_page[k][2] \in Va
  BY <1>1, PageName DEF OneProcess
<1>3. page[frame_page[k]].type \in {"anon", "file"}
  <2>1. page[frame_page[k]].type \in {"uninit", "anon", "file"}
    BY <1>1 DEF VmType, PageStruct
  <2>2. page[frame_page[k]].type # "uninit"
    BY DEF LiveInv, FramesOK
  <2> QED
    BY <2>1, <2>2
<1>4. \A w \in Va : pml4[p][w].present /\ pml4[p][w].kva = k => PageOf(p, w) = frame_page[k]
  BY DEF LiveInv, EntriesOK, EntryOK
<1>5. \A w \in Va : w # frame_page[k][2] => PageOf(p, w) # frame_page[k]
  BY DEF PageOf
<1> QED
  BY <1>1, <1>2, <1>3, <1>4, <1>5, Zenon

(***************************************************************************)
(* vm_evict_frame of an anonymous page: its contents move to a slot that   *)
(* no page is in, and its entry is cleared.                                *)
(***************************************************************************)
LEMMA EvictAnonStep ==
  ASSUME VmType, LiveInv, OneProcess, NEW p \in Proc, NEW v \in Va, NEW k \in Kva, k \in OnList,
         Faults(p, v), frame_page[k] # NULL, page[frame_page[k]].type = "anon", swap_table # Slot,
         AnonSwapOut(p, frame_page[k]), ListType', OnList' = OnList, Got(p, v, k),
         UNCHANGED <<spt, mem, written>>
  PROVE  VmType' /\ LiveInv'
<1>1. PICK x \in VmPage : x = frame_page[k]
  BY VictimPage
<1>2. PICK y \in Va : y = x[2]
  BY <1>1, VictimPage, Zenon
<1>3. PICK i : i = Min(Slot \ swap_table)
  BY Zenon
<1>4. i \in Slot /\ i \notin swap_table /\ i # None
  <2>1. Slot \ swap_table \subseteq Nat /\ Slot \ swap_table # {}
    BY Numbers, Zenon DEF VmType, DiskType
  <2>2. i \in Slot \ swap_table
    BY <1>3, <2>1, MinIn, Zenon
  <2> QED
    BY <2>2, Numbers
<1>5. /\ spt' = spt /\ mem' = mem /\ written' = written /\ file' = file
      /\ phase[p] = "user" /\ spt[p][v] # None /\ ~pml4[p][v].present
      /\ swap_table' = swap_table \cup {i}
      /\ swap_disk' = [swap_disk EXCEPT ![i] = mem[page[x].frame]]
      /\ page' = [page EXCEPT ![x].frame = None, ![x].swap_idx = i]
      /\ pml4' = Pml4ClearPage(pml4, p, y)
  BY <1>1, <1>2, <1>3 DEF AnonSwapOut, Faults, Running
<1>6. /\ frame_page' \in [Kva -> VmPage \cup {NULL}] /\ frame_page'[k] = NULL
      /\ \A l \in Kva : l # k => frame_page'[l] = frame_page[l]
      /\ at' \in [Proc -> FaultAt] /\ at'[p].va = v /\ at'[p].kva = k
      /\ phase' \in [Proc -> {"user", "claim", "killed", "dead"}] /\ phase'[p] = "claim"
  BY GotFrame, Zenon
<1>7. /\ page[x].type = "anon" /\ page[x].frame = k /\ x = PageOf(p, y) /\ spt[p][y] # None /\ y \notin FileVa
      /\ pml4[p][y].present /\ page[x].swap_idx = None /\ pml4[p][y].kva = k
  <2>1. page[x].type = "anon" /\ page[x].frame = k /\ spt[x[1]][x[2]] = x[3] /\ x[2] \notin FileVa
    BY <1>1, Zenon DEF LiveInv, FramesOK, PagesOK
  <2>3. x = PageOf(p, y) /\ spt[p][y] # None
    BY <1>2, <2>1, CurrentPage, Zenon
  <2>4. EntryOK(p, y) /\ k # None
    BY Numbers DEF LiveInv, EntriesOK
  <2> QED
    BY <1>2, <2>1, <2>3, <2>4, Zenon DEF EntryOK
<1>8. /\ page' \in [VmPage -> PageStruct]
      /\ page'[x].type = "anon" /\ page'[x].frame = None /\ page'[x].swap_idx = i
      /\ \A z \in VmPage : z # x => page'[z] = page[z]
  <2>1. page \in [VmPage -> PageStruct] /\ page[x] \in PageStruct
    BY DEF VmType
  <2>2. page'[x] = [page[x] EXCEPT !.frame = None, !.swap_idx = i]
    BY <1>5, <2>1
  <2>3. [page[x] EXCEPT !.frame = None, !.swap_idx = i] \in PageStruct
    BY <1>4, <2>1, Zenon DEF PageStruct
  <2>4. page'[x].type = "anon" /\ page'[x].frame = None /\ page'[x].swap_idx = i
    BY <1>7, <2>1, <2>2, SMTT(30) DEF PageStruct
  <2> QED
    BY <1>5, <2>1, <2>2, <2>3, <2>4
<1>9. /\ pml4' \in [Proc -> [Va -> PageEntry]] /\ ~pml4'[p][y].present
      /\ \A w \in Va : w # y => pml4'[p][w] = pml4[p][w]
  <2>1. Changed(pml4, pml4', p, y, [kva |-> pml4[p][y].kva, present |-> FALSE, dirty |-> pml4[p][y].dirty])
    BY <1>5, EntryChanges, Zenon DEF VmType
  <2> QED
    BY <2>1 DEF Changed
<1>10. DiskType' /\ swap_disk'[i] = mem[k] /\ \A j \in Slot : j # i => swap_disk'[j] = swap_disk[j]
  BY <1>4, <1>5, <1>7 DEF VmType, DiskType
<1>11. VmType'
  BY <1>5, <1>6, <1>8, <1>9, <1>10, Zenon DEF VmType, SptType
<1>12. PagesOK'
  BY <1>5, <1>7, <1>8, SMTT(30) DEF LiveInv, PagesOK
<1>13. \A w \in Va : /\ PageOf(p, w)' = PageOf(p, w)
                     /\ spt[p][w] # None => PageOf(p, w) \in VmPage
                     /\ w # y => PageOf(p, w) # x
  <2>1. \A w \in Va : PageOf(p, w)' = PageOf(p, w) /\ (w # y => PageOf(p, w) # x)
    BY <1>5, <1>7 DEF PageOf
  <2>2. \A w \in Va : spt[p][w] # None => PageOf(p, w) \in VmPage
    BY PageThere, SMTT(30) DEF VmType
  <2> QED
    BY <2>1, <2>2
<1>14. \A w \in Va : Untouched(p, w)' = Untouched(p, w)
  <2> TAKE w \in Va
  <2>1. PageOf(p, w)' = PageOf(p, w) /\ spt'[p][w] = spt[p][w]
    BY <1>5, <1>13, Zenon
  <2>2. spt[p][w] # None => page'[PageOf(p, w)].type = page[PageOf(p, w)].type
    BY <1>7, <1>8, <1>13, Zenon
  <2> QED
    BY <2>1, <2>2 DEF Untouched
<1>15. FramesOK'
  <2> SUFFICES ASSUME NEW l \in Kva, frame_page'[l] # NULL
               PROVE  /\ l \in OnList'
                      /\ page'[frame_page'[l]].type # "uninit"
                      /\ page'[frame_page'[l]].type = "anon" => page'[frame_page'[l]].frame = l
    BY DEF FramesOK
  <2>1. l # k /\ frame_page'[l] = frame_page[l] /\ frame_page[l] \in VmPage
    BY <1>6, Zenon DEF VmType
  <2>2. /\ l \in OnList /\ page[frame_page[l]].type # "uninit"
        /\ page[frame_page[l]].type = "anon" => page[frame_page[l]].frame = l
    BY <2>1, Zenon DEF LiveInv, FramesOK
  <2>3. frame_page[l] # x
    BY <1>7, <2>1, <2>2, ZenonT(30)
  <2> QED
    BY <1>8, <2>1, <2>2, <2>3, ZenonT(30)
<1>16. SlotsOK'
  <2>1. \A z \in VmPage : page[z].swap_idx # None => page[z].swap_idx \in swap_table /\ page[z].swap_idx # i
    BY <1>4, Zenon DEF LiveInv, SlotsOK
  <2>2. \A z \in VmPage : page'[z].swap_idx # None => page'[z].swap_idx \in swap_table'
    BY <1>5, <1>8, <2>1
  <2>3. ASSUME NEW z \in VmPage, NEW a \in VmPage, page'[z].swap_idx # None, page'[z].swap_idx = page'[a].swap_idx
        PROVE  z = a
    <3>1. CASE z = x \/ a = x
      BY <1>4, <1>8, <2>1, <2>3, <3>1, Zenon
    <3>2. CASE z # x /\ a # x
      <4>1. page'[z] = page[z] /\ page'[a] = page[a]
        BY <1>8, <3>2, ZenonT(30)
      <4>2. page[z].swap_idx # None /\ page[z].swap_idx = page[a].swap_idx
        BY <2>3, <4>1, ZenonT(30)
      <4> QED
        BY <4>2, Zenon DEF LiveInv, SlotsOK
    <3> QED
      BY <3>1, <3>2, Zenon
  <2>4. ASSUME NEW j \in swap_table' PROVE \E z \in VmPage : page'[z].swap_idx = j
    <3>1. CASE j = i
      BY <1>8, <3>1, Zenon
    <3>2. CASE j # i
      <4>1. j \in swap_table
        BY <1>5, <2>4, <3>2
      <4>2. PICK z \in VmPage : page[z].swap_idx = j
        BY <4>1, Zenon DEF LiveInv, SlotsOK
      <4>3. j # None
        BY <4>1, Numbers, Zenon DEF VmType, DiskType
      <4> QED
        BY <1>7, <1>8, <4>2, <4>3
    <3> QED
      BY <3>1, <3>2
  <2> QED
    BY <2>2, <2>3, <2>4 DEF SlotsOK
<1>17. EntriesOK'
  <2> SUFFICES ASSUME NEW w \in Va PROVE EntryOK(p, w)'
    BY Zenon DEF EntriesOK, OneProcess
  <2>1. EntryOK(p, w)
    BY Zenon DEF LiveInv, EntriesOK
  <2>2. CASE w = y
    BY <1>4, <1>7, <1>8, <1>9, <1>13, <2>2, Zenon DEF EntryOK
  <2>3. CASE w # y
    <3>1. spt[p][w] # None => page'[PageOf(p, w)] = page[PageOf(p, w)]
      BY <1>8, <1>13, <2>3, Zenon
    <3>2. pml4[p][w].present => pml4[p][w].kva # k /\ frame_page'[pml4[p][w].kva] = frame_page[pml4[p][w].kva]
      BY <1>1, <1>6, <1>13, <2>1, <2>3, Zenon DEF EntryOK
    <3>3. pml4'[p][w] = pml4[p][w] /\ PageOf(p, w)' = PageOf(p, w)
      BY <1>9, <1>13, <2>3, Zenon
    <3> QED
      BY <1>5, <2>1, <3>1, <3>2, <3>3, Zenon DEF EntryOK
  <2> QED
    BY <2>2, <2>3
<1>18. ContentsOK'
  <2> SUFFICES ASSUME NEW w \in Va PROVE ContentOK(p, w)'
    BY Zenon DEF ContentsOK, OneProcess
  <2>1. ContentOK(p, w)
    BY Zenon DEF LiveInv, ContentsOK
  <2>2. CASE w = y
    BY <1>5, <1>7, <1>8, <1>9, <1>10, <1>13, <1>14, <2>1, <2>2 DEF ContentOK
  <2>3. CASE w # y
    <3>1. ~Untouched(p, w) => PageOf(p, w) \in VmPage /\ page'[PageOf(p, w)] = page[PageOf(p, w)]
      BY <1>8, <1>13, <2>3, Zenon DEF Untouched
    <3>2. ~Untouched(p, w) /\ page[PageOf(p, w)].type = "anon" /\ ~pml4[p][w].present =>
            swap_disk'[page[PageOf(p, w)].swap_idx] = swap_disk[page[PageOf(p, w)].swap_idx]
      <4> SUFFICES ASSUME ~Untouched(p, w), page[PageOf(p, w)].type = "anon", ~pml4[p][w].present
                   PROVE  swap_disk'[page[PageOf(p, w)].swap_idx] = swap_disk[page[PageOf(p, w)].swap_idx]
        BY Zenon
      <4>1. page[PageOf(p, w)].swap_idx # None
        BY Zenon DEF LiveInv, EntriesOK, EntryOK, Untouched
      <4>2. page[PageOf(p, w)].swap_idx \in swap_table
        BY <3>1, <4>1, Zenon DEF LiveInv, SlotsOK
      <4> QED
        BY <1>4, <1>10, <4>2 DEF VmType, DiskType
    <3>3. phase[p] # "killed" /\ phase'[p] # "killed"
      BY <1>5, <1>6
    <3>4. pml4'[p][w] = pml4[p][w] /\ PageOf(p, w)' = PageOf(p, w)
      BY <1>9, <1>13, <2>3, Zenon
    <3> QED
      BY <1>5, <1>14, <2>1, <3>1, <3>2, <3>3, <3>4, Zenon DEF ContentOK
  <2> QED
    BY <2>2, <2>3, Zenon
<1>19. FaultsOK'
  <2>1. ~pml4'[p][v].present
    BY <1>5, <1>9
  <2> QED
    BY <1>5, <1>6, <2>1 DEF FaultsOK, FaultOK, OneProcess
<1> QED
  BY <1>11, <1>12, <1>15, <1>16, <1>17, <1>18, <1>19, ZenonT(30) DEF LiveInv

(***************************************************************************)
(* vm_evict_frame of a file page: what the program stored is in the file,  *)
(* and the entry of the address is cleared.  The page may be an earlier    *)
(* mapping of its address, if the mapping there now is not dirty.          *)
(***************************************************************************)
LEMMA EvictFileStep ==
  ASSUME VmType, LiveInv, OneProcess, NEW p \in Proc, NEW v \in Va, NEW k \in Kva, k \in OnList,
         Faults(p, v), frame_page[k] # NULL, page[frame_page[k]].type = "file",
         ~(Unmapped(frame_page[k]) /\ Pml4IsDirty(p, frame_page[k][2])),
         FileBackedSwapOut(p, frame_page[k]), ListType', OnList' = OnList, Got(p, v, k),
         UNCHANGED <<spt, mem, written>>
  PROVE  VmType' /\ LiveInv'
<1>1. PICK x \in VmPage : x = frame_page[k]
  BY VictimPage, Zenon
<1>2. PICK y \in Va : y = x[2]
  BY <1>1, VictimPage
<1>3. /\ spt' = spt /\ mem' = mem /\ written' = written
      /\ swap_table' = swap_table /\ swap_disk' = swap_disk
      /\ phase[p] = "user" /\ spt[p][v] # None /\ ~pml4[p][v].present
      /\ file' = IF pml4[p][y].dirty THEN [file EXCEPT ![y] = mem[page[x].frame]] ELSE file
      /\ page' = [page EXCEPT ![x].frame = None]
      /\ pml4' = Pml4ClearPage(Pml4SetDirty(pml4, p, y, FALSE), p, y)
  BY <1>1, <1>2 DEF FileBackedSwapOut, Faults, Running, Pml4IsDirty
<1>4. /\ frame_page' \in [Kva -> VmPage \cup {NULL}] /\ frame_page'[k] = NULL
      /\ \A l \in Kva : l # k => frame_page'[l] = frame_page[l]
      /\ at' \in [Proc -> FaultAt] /\ at'[p].va = v /\ at'[p].kva = k
      /\ phase' \in [Proc -> {"user", "claim", "killed", "dead"}] /\ phase'[p] = "claim"
  BY GotFrame, Zenon
<1>5. y \in FileVa /\ x = <<p, y, x[3]>> /\ page[x].type = "file"
  BY <1>1, <1>2, VictimPage, ZenonT(30) DEF LiveInv, PagesOK
<1>6. pml4[p][y].dirty => x = PageOf(p, y)
  <2>1. pml4[p][y].dirty => spt[x[1]][x[2]] = x[3]
    BY <1>1, <1>2, Zenon DEF Unmapped, Pml4IsDirty
  <2> QED
    BY <1>2, <2>1, CurrentPage, Zenon
<1>7. /\ page' \in [VmPage -> PageStruct]
      /\ \A z \in VmPage : /\ page'[z].type = page[z].type /\ page'[z].swap_idx = page[z].swap_idx
                           /\ z # x => page'[z] = page[z]
      /\ page'[x].frame = None
  <2>1. page \in [VmPage -> PageStruct] /\ page[x] \in PageStruct
    BY DEF VmType
  <2>2. page'[x] = [page[x] EXCEPT !.frame = None] /\ \A z \in VmPage : z # x => page'[z] = page[z]
    BY <1>3, <2>1
  <2>3. [page[x] EXCEPT !.frame = None] \in PageStruct
    BY <2>1 DEF PageStruct
  <2>4. page'[x].type = page[x].type /\ page'[x].frame = None /\ page'[x].swap_idx = page[x].swap_idx
    BY <2>1, <2>2 DEF PageStruct
  <2>5. page' \in [VmPage -> PageStruct]
    BY <1>3, <2>1, <2>2, <2>3
  <2> QED
    BY <2>2, <2>4, <2>5, Zenon
<1>8. /\ pml4' \in [Proc -> [Va -> PageEntry]] /\ ~pml4'[p][y].present /\ ~pml4'[p][y].dirty
      /\ \A w \in Va : w # y => pml4'[p][w] = pml4[p][w]
  <2>1. Changed(pml4, pml4', p, y, [kva |-> pml4[p][y].kva, present |-> FALSE, dirty |-> FALSE])
    BY <1>3, EntryChanges, Zenon DEF VmType
  <2>2. pml4' \in [Proc -> [Va -> PageEntry]] /\ ~pml4'[p][y].present /\ ~pml4'[p][y].dirty
    BY <2>1, ClearedEntry, Zenon
  <2>3. \A w \in Va : w # y => pml4'[p][w] = pml4[p][w]
    BY <2>1, Zenon DEF Changed
  <2> QED
    BY <2>2, <2>3, Zenon
<1>9. /\ file' \in [SegVa \cup FileVa -> Content]
      /\ file'[y] = written[p][y]
      /\ \A w \in SegVa \cup FileVa : w # y => file'[w] = file[w]
  <2>1. file \in [SegVa \cup FileVa -> Content] /\ mem \in [Kva -> Content] /\ y \in SegVa \cup FileVa
    BY <1>5 DEF VmType, DiskType
  <2>2. CASE pml4[p][y].dirty
    <3>1. page[x].frame \in Kva /\ mem[page[x].frame] = written[p][y]
      BY <1>3, <1>5, <1>6, <2>2, DirtyPage
    <3> QED
      BY <1>3, <2>1, <2>2, <3>1
  <2>3. CASE ~pml4[p][y].dirty
    BY <1>3, <1>5, <2>1, <2>3 DEF LiveInv, ContentsOK, ContentOK
  <2> QED
    BY <2>2, <2>3, Zenon
<1>10. VmType'
  BY <1>3, <1>4, <1>7, <1>8, <1>9, Zenon DEF VmType, SptType, DiskType
<1>11. PagesOK'
  <2> SUFFICES ASSUME NEW z \in VmPage
               PROVE  /\ page[z].type = "uninit" => page'[z].frame = None
                      /\ page[z].type = "anon" => z[2] \notin FileVa /\ spt[z[1]][z[2]] = z[3]
                      /\ page[z].type = "file" => z[2] \in FileVa
                      /\ page[z].swap_idx # None => page[z].type = "anon"
    BY <1>3, <1>7, ZenonT(30) DEF PagesOK
  <2>1. page[z].type = "uninit" => page'[z].frame = None
    BY <1>7, Zenon DEF LiveInv, PagesOK
  <2> QED
    BY <2>1, Zenon DEF LiveInv, PagesOK
<1>12. SlotsOK'
  <2>1. \A z \in VmPage : page'[z].swap_idx = page[z].swap_idx
    BY <1>7, Zenon
  <2> QED
    BY <1>3, <2>1 DEF LiveInv, SlotsOK
<1>13. FramesOK'
  <2> SUFFICES ASSUME NEW l \in Kva, frame_page'[l] # NULL
               PROVE  /\ l \in OnList'
                      /\ page'[frame_page'[l]].type # "uninit"
                      /\ page'[frame_page'[l]].type = "anon" => page'[frame_page'[l]].frame = l
    BY DEF FramesOK
  <2>1. l # k /\ frame_page'[l] = frame_page[l] /\ frame_page[l] \in VmPage
    BY <1>4 DEF VmType
  <2>2. /\ l \in OnList /\ page[frame_page[l]].type # "uninit"
        /\ page[frame_page[l]].type = "anon" => page[frame_page[l]].frame = l
    BY <2>1, Zenon DEF LiveInv, FramesOK
  <2> QED
    BY <1>5, <1>7, <2>1, <2>2, Zenon
<1>14. \A w \in Va : /\ PageOf(p, w)' = PageOf(p, w)
                     /\ spt[p][w] # None => PageOf(p, w) \in VmPage
                     /\ w # y => PageOf(p, w) # x
  <2>1. \A w \in Va : PageOf(p, w)' = PageOf(p, w) /\ (w # y => PageOf(p, w) # x)
    <3>1. \A w \in Va : PageOf(p, w)' = PageOf(p, w)
      BY <1>3, ZenonT(30) DEF PageOf
    <3>2. \A w \in Va : PageOf(p, w)[2] = w
      BY DEF PageOf
    <3> QED
      BY <1>2, <3>1, <3>2, Zenon
  <2>2. \A w \in Va : spt[p][w] # None => PageOf(p, w) \in VmPage
    BY PageThere DEF VmType
  <2> QED
    BY <2>1, <2>2, Zenon
<1>15. \A w \in Va : Untouched(p, w)' = Untouched(p, w)
  BY <1>3, <1>7, <1>14 DEF Untouched
<1>16. spt[p][y] # None => page[PageOf(p, y)].type # "anon"
  BY <1>5, <1>14, Zenon DEF LiveInv, PagesOK, PageOf
<1>17. EntriesOK'
  <2> SUFFICES ASSUME NEW w \in Va PROVE EntryOK(p, w)'
    BY Zenon DEF EntriesOK, OneProcess
  <2>1. EntryOK(p, w)
    BY Zenon DEF LiveInv, EntriesOK
  <2>2. CASE w = y
    BY <1>3, <1>7, <1>8, <1>14, <1>16, <2>2, Zenon DEF EntryOK
  <2>3. CASE w # y
    <3>1. spt[p][w] # None => page'[PageOf(p, w)] = page[PageOf(p, w)]
      BY <1>7, <1>14, <2>3, Zenon
    <3>2. pml4[p][w].present => pml4[p][w].kva # k /\ frame_page'[pml4[p][w].kva] = frame_page[pml4[p][w].kva]
      BY <1>1, <1>4, <1>14, <2>1, <2>3, Zenon DEF EntryOK
    <3>3. pml4'[p][w] = pml4[p][w] /\ PageOf(p, w)' = PageOf(p, w)
      BY <1>8, <1>14, <2>3, Zenon
    <3> QED
      BY <1>3, <2>1, <3>1, <3>2, <3>3, Zenon DEF EntryOK
  <2> QED
    BY <2>2, <2>3, Zenon
<1>18. ContentsOK'
  <2> SUFFICES ASSUME NEW w \in Va PROVE ContentOK(p, w)'
    BY Zenon DEF ContentsOK, OneProcess
  <2>1. ContentOK(p, w)
    BY Zenon DEF LiveInv, ContentsOK
  <2>2. CASE w = y
    <3>1. w \in FileVa /\ w \notin SegVa /\ w \notin StackVa
      BY <1>5, <2>2, Numbers, Zenon
    <3>2. ~Untouched(p, w) => page'[PageOf(p, w)].type # "anon"
      BY <1>7, <1>14, <1>16, <2>2, Zenon DEF Untouched
    <3> QED
      BY <1>3, <1>8, <1>9, <1>14, <1>15, <2>1, <2>2, <3>1, <3>2, Zenon DEF ContentOK
  <2>3. CASE w # y
    <3>1. ~Untouched(p, w) => page'[PageOf(p, w)] = page[PageOf(p, w)]
      BY <1>7, <1>14, <2>3, Zenon DEF Untouched
    <3>2. w \in SegVa \/ w \in FileVa => file'[w] = file[w]
      BY <1>9, <2>3, Zenon
    <3>3. phase[p] # "killed" /\ phase'[p] # "killed"
      BY <1>3, <1>4
    <3>4. pml4'[p][w] = pml4[p][w] /\ PageOf(p, w)' = PageOf(p, w)
      BY <1>8, <1>14, <2>3, Zenon
    <3> QED
      BY <1>3, <1>15, <2>1, <3>1, <3>2, <3>3, <3>4, Zenon DEF ContentOK
  <2> QED
    BY <2>2, <2>3, Zenon
<1>19. FaultsOK'
  <2>1. ~pml4'[p][v].present
    BY <1>3, <1>8, Zenon
  <2> QED
    BY <1>3, <1>4, <2>1, Zenon DEF FaultsOK, FaultOK, OneProcess
<1> QED
  BY <1>10, <1>11, <1>12, <1>13, <1>17, <1>18, <1>19, Zenon DEF LiveInv

LEMMA EvictStep ==
  ASSUME VmType, LiveInv, OneProcess, NEW p \in Proc, NEW v \in Va, VmEvictFrame(p, v)
  PROVE  VmType' /\ LiveInv'
<1> DEFINE k == Head(frame_list)
<1>1. CASE panic' # "no"
  <2>1. UNCHANGED <<spt, page, pml4, frame_list, frame_page, mem, disks, phase, at, written>>
    BY <1>1, Zenon DEF VmEvictFrame
  <2> QED
    BY <2>1, SameStep, Zenon
<1>2. CASE panic' = "no"
  <2>1. /\ Faults(p, v) /\ Len(frame_list) = NumFrames
        /\ EvictPanics(p, frame_page[k]) = "no"
        /\ IF page[frame_page[k]].type = "anon" THEN AnonSwapOut(p, frame_page[k])
           ELSE FileBackedSwapOut(p, frame_page[k])
        /\ frame_list' = Append(Tail(frame_list), k)
        /\ Got(p, v, k) /\ UNCHANGED <<spt, mem, written>>
    BY <1>2, Zenon DEF VmEvictFrame, Victim
  <2>2. frame_list # <<>>
    BY <2>1, Numbers, Zenon
  <2>3. ListType' /\ OnList' = OnList /\ k \in Kva /\ k \in OnList
    BY <2>1, <2>2, Rotated DEF VmType
  <2> HIDE DEF k
  <2>4. /\ frame_page[k] # NULL
        /\ page[frame_page[k]].type = "anon" => swap_table # Slot
        /\ page[frame_page[k]].type = "file" =>
             ~(Unmapped(frame_page[k]) /\ Pml4IsDirty(p, frame_page[k][2]))
    BY <2>1, Zenon DEF EvictPanics
  <2>5. page[frame_page[k]].type = "anon" \/ page[frame_page[k]].type = "file"
    BY <2>3, <2>4, VictimPage
  <2>6. CASE page[frame_page[k]].type = "anon"
    BY <2>1, <2>3, <2>4, <2>6, EvictAnonStep, Zenon
  <2>7. CASE page[frame_page[k]].type = "file"
    <3>1. FileBackedSwapOut(p, frame_page[k])
      BY <2>1, <2>7
    <3> QED
      BY <2>1, <2>3, <2>4, <2>7, <3>1, EvictFileStep, Zenon
  <2> QED
    BY <2>5, <2>6, <2>7
<1> QED
  BY <1>1, <1>2

(* swap_in fills the frame k, or fails and the process is killed. *)
Outcome(p, v, k) ==
  \/ phase'[p] = "user" /\ (written[p][v] # NULL => mem'[k] = written[p][v])
  \/ phase'[p] = "killed" /\ at'[p].va = v /\ v \in Beyond
=============================================================================

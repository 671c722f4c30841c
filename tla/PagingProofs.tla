---------------------------- MODULE PagingProofs ----------------------------
(***************************************************************************)
(* The rest of the proofs for VM: vm_do_claim_page and process_cleanup     *)
(* keep the inductive invariant of VMProofs, and what follows from it.     *)
(***************************************************************************)
EXTENDS VMProofs

(* A list is a function on its positions, and the other way round. *)
LEMMA ListItems ==
  ASSUME NEW S, NEW s \in Seq(S)
  PROVE  Len(s) \in Nat /\ s \in [1..Len(s) -> S] /\ \A i \in 1..Len(s) : s[i] \in S
OBVIOUS

LEMMA FunctionIsSeq ==
  ASSUME NEW S, NEW n \in Nat, NEW f \in [1..n -> S]
  PROVE  f \in Seq(S) /\ Len(f) = n
OBVIOUS

(***************************************************************************)
(* Counting gives positions: if the sets P[i] are nested, and P[i] holds i *)
(* and differs for different i, then each size from 1 to Cardinality(I)    *)
(* occurs exactly once.                                                    *)
(***************************************************************************)
LEMMA Ranking ==
  ASSUME NEW I, IsFiniteSet(I), NEW P \in [I -> SUBSET I],
         \A i \in I : i \in P[i],
         \A i, j \in I : i # j => \/ P[i] \subseteq P[j] /\ j \notin P[i]
                                  \/ P[j] \subseteq P[i] /\ i \notin P[j]
  PROVE  /\ Cardinality(I) \in Nat
         /\ \A i \in I : Cardinality(P[i]) \in 1..Cardinality(I)
         /\ \A i, j \in I : Cardinality(P[i]) = Cardinality(P[j]) => i = j
         /\ \A i, j \in I : Cardinality(P[i]) < Cardinality(P[j]) => i \in P[j]
         /\ \A k \in 1..Cardinality(I) : \E i \in I : Cardinality(P[i]) = k
<1>. DEFINE n == Cardinality(I)
            r == [i \in I |-> Cardinality(P[i])]
<1>1. n \in Nat
  BY FS_CardinalityType
<1>2. \A i \in I : IsFiniteSet(P[i]) /\ Cardinality(P[i]) \in Nat
  BY FS_Subset, FS_CardinalityType
<1>3. \A i \in I : Cardinality(P[i]) \in 1..n
  <2>. TAKE i \in I
  <2>1. Cardinality(P[i]) <= n
    BY FS_Subset
  <2>2. Cardinality(P[i]) # 0
    BY <1>2, FS_EmptySet
  <2>. QED  BY <1>1, <1>2, <2>1, <2>2
<1>4. ASSUME NEW i \in I, NEW j \in I, P[i] \subseteq P[j], j \notin P[i]
      PROVE  Cardinality(P[i]) < Cardinality(P[j])
  <2>1. /\ Cardinality(P[i]) <= Cardinality(P[j])
        /\ Cardinality(P[j]) = Cardinality(P[i]) => P[j] = P[i]
    BY <1>2, <1>4, FS_Subset
  <2>2. P[i] # P[j]
    BY <1>4
  <2>. QED  BY <1>2, <2>1, <2>2
<1>5. \A i, j \in I : Cardinality(P[i]) = Cardinality(P[j]) => i = j
  BY <1>2, <1>4
<1>6. \A i, j \in I : Cardinality(P[i]) < Cardinality(P[j]) => i \in P[j]
  BY <1>2, <1>4
<1>7. ASSUME NEW k \in 1..n, \A i \in I : Cardinality(P[i]) # k
      PROVE  FALSE
  <2>1. IsFiniteSet(1..n) /\ Cardinality(1..n) = n
    BY <1>1, FS_Interval
  <2>2. IsFiniteSet((1..n) \ {k}) /\ Cardinality((1..n) \ {k}) = n - 1
    BY <1>7, <2>1, FS_RemoveElement, Zenon
  <2>3. Cardinality((1..n) \ {k}) < Cardinality(I)
    BY <1>1, <2>2
  <2>4. r \in [I -> (1..n) \ {k}]
    BY <1>3, <1>7
  <2>. HIDE DEF r, n
  <2>5. \E x, y \in I : x # y /\ r[x] = r[y]
    BY <2>2, <2>3, <2>4, FS_PigeonHole
  <2>. USE DEF r
  <2>. QED  BY <2>5, <1>5
<1>. QED  BY <1>1, <1>3, <1>5, <1>6, <1>7

(* The loop that removes elements keeps only elements of the list, once each. *)
LEMMA FilterProperties ==
  ASSUME NEW S, NEW s \in Seq(S), NEW keep \in SUBSET (1..Len(s))
  PROVE  /\ Filter(s, keep) \in Seq(S)
         /\ Once(s) => Once(Filter(s, keep))
<1>. DEFINE P == [i \in keep |-> UpTo(keep, i)]
            pos(k) == CHOOSE i \in keep : Cardinality(UpTo(keep, i)) = k
<1>1. Len(s) \in Nat /\ \A i \in 1..Len(s) : s[i] \in S
  BY ListItems
<1>2. IsFiniteSet(keep)
  <2>1. IsFiniteSet(1..Len(s))
    BY <1>1, FS_Interval
  <2>. QED  BY <2>1, FS_Subset, Zenon
<1>3. P \in [keep -> SUBSET keep] /\ \A i \in keep : i \in P[i]
  BY <1>1 DEF UpTo
<1>4. ASSUME NEW i \in keep, NEW j \in keep, i # j
      PROVE  \/ P[i] \subseteq P[j] /\ j \notin P[i]
             \/ P[j] \subseteq P[i] /\ i \notin P[j]
  <2>1. i \in Int /\ j \in Int /\ \A k \in keep : k \in Int
    BY <1>1
  <2>2. P[i] = {k \in keep : k <= i} /\ P[j] = {k \in keep : k <= j}
    BY DEF UpTo
  <2>. HIDE DEF P
  <2>3. CASE i < j
    <3>1. \A k \in keep : k <= i => k <= j
      BY <2>1, <2>3
    <3>2. ~ (j <= i)
      BY <2>1, <2>3
    <3>. QED  BY <2>2, <3>1, <3>2, Zenon
  <2>4. CASE j < i
    <3>1. \A k \in keep : k <= j => k <= i
      BY <2>1, <2>4
    <3>2. ~ (i <= j)
      BY <2>1, <2>4
    <3>. QED  BY <2>2, <3>1, <3>2, Zenon
  <2>. QED  BY <1>4, <2>1, <2>3, <2>4
<1>5. \A i \in keep : P[i] = UpTo(keep, i)
  OBVIOUS
<1>. HIDE DEF P
<1>6. /\ Cardinality(keep) \in Nat
      /\ \A k \in 1..Cardinality(keep) : \E i \in keep : Cardinality(P[i]) = k
  BY <1>2, <1>3, <1>4, Ranking
<1>7. \A k \in 1..Cardinality(keep) : pos(k) \in keep /\ Cardinality(UpTo(keep, pos(k))) = k
  BY <1>5, <1>6
<1>8. Filter(s, keep) = [k \in 1..Cardinality(keep) |-> s[pos(k)]]
  BY DEF Filter
<1>. HIDE DEF pos
<1>9. Filter(s, keep) \in [1..Cardinality(keep) -> S]
  BY <1>1, <1>7, <1>8, Zenon
<1>10. Filter(s, keep) \in Seq(S) /\ Len(Filter(s, keep)) = Cardinality(keep)
  BY <1>6, <1>9, FunctionIsSeq, Zenon
<1>11. ASSUME Once(s), NEW k \in 1..Cardinality(keep), NEW l \in 1..Cardinality(keep),
              Filter(s, keep)[k] = Filter(s, keep)[l]
       PROVE  k = l
  <2>1. s[pos(k)] = s[pos(l)] /\ pos(k) \in 1..Len(s) /\ pos(l) \in 1..Len(s)
    BY <1>7, <1>8, <1>11, Zenon
  <2>2. pos(k) = pos(l)
    BY <1>11, <2>1, Zenon DEF Once
  <2>. QED  BY <1>7, <2>2, Zenon
<1>. QED  BY <1>10, <1>11, Zenon DEF Once
-----------------------------------------------------------------------------
(* What vm_do_claim_page and swap_in do to the frame k and the page x. *)
Claimed(p, v, k, x) ==
  /\ frame_page' = [frame_page EXCEPT ![k] = x] /\ pml4' = Pml4SetPage(pml4, p, v, k)
  /\ page' \in [VmPage -> PageStruct]
  /\ page'[x].type = (IF v \in FileVa THEN "file" ELSE "anon")
  /\ page'[x].frame = k /\ page'[x].swap_idx = None
  /\ \A z \in VmPage : z # x => page'[z] = page[z]
  /\ swap_table' = swap_table \ {page[x].swap_idx}
  /\ mem' \in [Kva -> Content] /\ \A l \in Kva : l # k => mem'[l] = mem[l]
  /\ phase' \in [Proc -> {"user", "claim", "killed", "dead"}] /\ at' \in [Proc -> FaultAt]
  /\ UNCHANGED <<spt, frame_list, swap_disk, file, written>>

(***************************************************************************)
(* The frame k of the fault at v gets the page there: swap_in, or its      *)
(* failure on a mapping that reaches beyond the end of the file.           *)
(***************************************************************************)
LEMMA ClaimedStep ==
  ASSUME VmType, LiveInv, OneProcess, NEW p \in Proc, NEW v \in Va, NEW k \in Kva, NEW x \in VmPage,
         k \in OnList, frame_page[k] = NULL, spt[p][v] # None, ~pml4[p][v].present, phase[p] = "claim",
         x = PageOf(p, v), Claimed(p, v, k, x), Outcome(p, v, k)
  PROVE  VmType' /\ LiveInv'
<1>0. /\ frame_page' = [frame_page EXCEPT ![k] = x] /\ pml4' = Pml4SetPage(pml4, p, v, k)
      /\ swap_table' = swap_table \ {page[x].swap_idx}
  BY Zenon DEF Claimed
<1>16. /\ page' \in [VmPage -> PageStruct]
       /\ page'[x].type = (IF v \in FileVa THEN "file" ELSE "anon")
       /\ page'[x].frame = k /\ page'[x].swap_idx = None
       /\ \A z \in VmPage : z # x => page'[z] = page[z]
  BY Zenon DEF Claimed
<1>17. /\ mem' \in [Kva -> Content] /\ \A l \in Kva : l # k => mem'[l] = mem[l]
       /\ phase' \in [Proc -> {"user", "claim", "killed", "dead"}] /\ at' \in [Proc -> FaultAt]
  BY Zenon DEF Claimed
<1>1. spt' = spt /\ frame_list' = frame_list /\ swap_disk' = swap_disk /\ file' = file /\ written' = written
  BY Zenon DEF Claimed
<1>2. /\ frame_page' \in [Kva -> VmPage \cup {NULL}] /\ frame_page'[k] = x
      /\ \A l \in Kva : l # k => frame_page'[l] = frame_page[l]
  BY <1>0 DEF VmType
<1>20. pml4 \in [Proc -> [Va -> PageEntry]]
  BY Zenon DEF VmType
<1>3. /\ pml4' \in [Proc -> [Va -> PageEntry]]
      /\ pml4'[p][v].kva = k /\ pml4'[p][v].present /\ ~pml4'[p][v].dirty
      /\ \A w \in Va : w # v => pml4'[p][w] = pml4[p][w]
  <2>1. Changed(pml4, pml4', p, v, [kva |-> k, present |-> TRUE, dirty |-> FALSE])
    BY <1>0, <1>20, EntryChanges, Zenon
  <2>2. pml4' \in [Proc -> [Va -> PageEntry]]
    BY <2>1, Zenon DEF Changed
  <2>6. pml4'[p][v] = [kva |-> k, present |-> TRUE, dirty |-> FALSE]
    BY <2>1, Zenon DEF Changed
  <2>4. pml4'[p][v].kva = k /\ pml4'[p][v].present
    BY <2>6
  <2>5. ~pml4'[p][v].dirty
    BY <2>6
  <2>3. \A w \in Va : w # v => pml4'[p][w] = pml4[p][w]
    BY <2>1, Zenon DEF Changed
  <2> QED
    BY <2>2, <2>3, <2>4, <2>5, Zenon
<1>15. \/ phase'[p] = "user" /\ (written[p][v] # NULL => mem'[k] = written[p][v])
       \/ phase'[p] = "killed" /\ at'[p].va = v /\ v \in Beyond
  BY Zenon DEF Outcome
<1>4. VmType'
  <2>1. DiskType'
    BY <1>0, <1>1, Zenon DEF VmType, DiskType
  <2> QED
    BY <1>1, <1>2, <1>3, <1>16, <1>17, <2>1, Zenon DEF VmType, SptType, ListType
<1>5. OnList' = OnList
  BY <1>1, Zenon DEF OnList
<1>6. /\ x[1] = p /\ x[2] = v /\ x[3] = spt[p][v]
      /\ \A w \in Va : /\ PageOf(p, w)' = PageOf(p, w)
                       /\ spt[p][w] # None => PageOf(p, w) \in VmPage
                       /\ w # v => PageOf(p, w) # x
  <2>1. \A w \in Va : PageOf(p, w)' = PageOf(p, w) /\ (w # v => PageOf(p, w) # x)
    BY <1>1, Zenon DEF PageOf
  <2>2. \A w \in Va : spt[p][w] # None => PageOf(p, w) \in VmPage
    BY PageThere, Zenon DEF VmType
  <2>3. x[1] = p /\ x[2] = v /\ x[3] = spt[p][v]
    BY DEF PageOf
  <2> QED
    BY <2>1, <2>2, <2>3
<1>7. PagesOK'
  <2> SUFFICES ASSUME NEW z \in VmPage
               PROVE  /\ page'[z].type = "uninit" => page'[z].frame = None
                      /\ page'[z].type = "anon" => z[2] \notin FileVa /\ spt[z[1]][z[2]] = z[3]
                      /\ page'[z].type = "file" => z[2] \in FileVa
                      /\ page'[z].swap_idx # None => page'[z].type = "anon"
    BY <1>1, Zenon DEF PagesOK
  <2>1. CASE z = x
    BY <1>6, <1>16, <2>1, Zenon
  <2>2. CASE z # x
    <3>1. page'[z] = page[z]
      BY <1>16, <2>2, Zenon
    <3> QED
      BY <3>1, Zenon DEF LiveInv, PagesOK
  <2> QED
    BY <2>1, <2>2, Zenon
<1>8. ASSUME NEW l \in Kva, frame_page[l] # NULL
      PROVE  frame_page[l] \in VmPage /\ (page[frame_page[l]].type = "anon" => frame_page[l] # x)
  <2>1. frame_page[l] \in VmPage
    BY <1>8, Zenon DEF VmType
  <2>2. page[frame_page[l]].type = "anon" => page[frame_page[l]].frame = l /\ l # None
    BY <1>8, Numbers, Zenon DEF LiveInv, FramesOK
  <2>3. page[x].type = "anon" => page[x].frame = None
    BY Zenon DEF LiveInv, EntriesOK, EntryOK
  <2> QED
    BY <2>1, <2>2, <2>3
<1>9. FramesOK'
  <2> SUFFICES ASSUME NEW l \in Kva, frame_page'[l] # NULL
               PROVE  /\ l \in OnList
                      /\ page'[frame_page'[l]].type # "uninit"
                      /\ page'[frame_page'[l]].type = "anon" => page'[frame_page'[l]].frame = l
    BY <1>5, Zenon DEF FramesOK
  <2>1. CASE l = k
    BY <1>2, <1>16, <2>1, Zenon
  <2>2. CASE l # k
    <3>1. /\ frame_page'[l] = frame_page[l] /\ frame_page[l] # NULL /\ frame_page[l] \in VmPage
          /\ page[frame_page[l]].type = "anon" => frame_page[l] # x
      BY <1>2, <1>8, <2>2, Zenon
    <3>2. /\ l \in OnList /\ page[frame_page[l]].type # "uninit"
          /\ page[frame_page[l]].type = "anon" => page[frame_page[l]].frame = l
      BY <3>1 DEF LiveInv, FramesOK
    <3>3. CASE frame_page[l] = x
      <4>1. page[x].type = "file"
        <5>1. page[x].type \in {"uninit", "anon", "file"}
          BY DEF VmType, PageStruct
        <5> QED
          BY <3>1, <3>2, <3>3, <5>1, Zenon
      <4>2. page'[x].type = "file"
        BY <1>6, <1>16, <4>1, Zenon DEF LiveInv, PagesOK
      <4> QED
        BY <3>1, <3>2, <3>3, <4>2, Zenon
    <3>4. CASE frame_page[l] # x
      BY <1>16, <3>1, <3>2, <3>4, Zenon
    <3> QED
      BY <3>3, <3>4
  <2> QED
    BY <2>1, <2>2, Zenon
<1>10. SlotsOK'
  <2>1. \A z \in VmPage : page'[z].swap_idx # None => z # x /\ page'[z].swap_idx = page[z].swap_idx
    BY <1>16
  <2>2. ASSUME NEW z \in VmPage, page'[z].swap_idx # None PROVE page'[z].swap_idx \in swap_table'
    <3>1. page[z].swap_idx \in swap_table /\ page[z].swap_idx # page[x].swap_idx
      BY <2>1, <2>2, Zenon DEF LiveInv, SlotsOK
    <3> QED
      BY <1>0, <2>1, <2>2, <3>1, Zenon
  <2>3. \A z, a \in VmPage : page'[z].swap_idx # None /\ page'[z].swap_idx = page'[a].swap_idx => z = a
    BY <2>1 DEF LiveInv, SlotsOK
  <2>4. ASSUME NEW j \in swap_table' PROVE \E z \in VmPage : page'[z].swap_idx = j
    <3>1. j \in swap_table /\ j # page[x].swap_idx
      BY <1>0, <2>4, Zenon
    <3>2. PICK z \in VmPage : page[z].swap_idx = j
      BY <3>1 DEF LiveInv, SlotsOK
    <3> QED
      BY <1>16, <3>1, <3>2, Zenon
  <2> QED
    BY <2>2, <2>3, <2>4, Zenon DEF SlotsOK
<1>11. \A w \in Va : w # v =>
         /\ pml4'[p][w] = pml4[p][w] /\ PageOf(p, w)' = PageOf(p, w)
         /\ spt[p][w] # None => page'[PageOf(p, w)] = page[PageOf(p, w)]
         /\ Untouched(p, w)' = Untouched(p, w)
         /\ pml4[p][w].present => pml4[p][w].kva \in Kva /\ pml4[p][w].kva # k
  <2> SUFFICES ASSUME NEW w \in Va, w # v
               PROVE  /\ pml4'[p][w] = pml4[p][w] /\ PageOf(p, w)' = PageOf(p, w)
                      /\ spt[p][w] # None => page'[PageOf(p, w)] = page[PageOf(p, w)]
                      /\ Untouched(p, w)' = Untouched(p, w)
                      /\ pml4[p][w].present => pml4[p][w].kva \in Kva /\ pml4[p][w].kva # k
    BY Zenon
  <2>1. pml4'[p][w] = pml4[p][w] /\ PageOf(p, w)' = PageOf(p, w)
    BY <1>3, <1>6, Zenon
  <2>2. spt[p][w] # None => page'[PageOf(p, w)] = page[PageOf(p, w)]
    BY <1>6, <1>16, Zenon
  <2>3. Untouched(p, w)' = Untouched(p, w)
    BY <1>1, <2>1, <2>2, Zenon DEF Untouched
  <2>4. pml4[p][w].present => pml4[p][w].kva \in Kva /\ pml4[p][w].kva # k
    <3> SUFFICES ASSUME pml4[p][w].present PROVE pml4[p][w].kva \in Kva /\ pml4[p][w].kva # k
      BY Zenon
    <3>1. pml4[p][w].kva \in Kva /\ frame_page[pml4[p][w].kva] \in VmPage
      <4>1. pml4[p][w].kva \in Kva /\ frame_page[pml4[p][w].kva] = PageOf(p, w)
        BY Present, Zenon
      <4>2. PageOf(p, w) \in VmPage
        BY Present, Zenon
      <4> QED
        BY <4>1, <4>2, Zenon
    <3> QED
      BY <3>1, Numbers, Zenon
  <2> QED
    BY <2>1, <2>2, <2>3, <2>4, Zenon
<1>12. EntriesOK'
  <2> SUFFICES ASSUME NEW w \in Va PROVE EntryOK(p, w)'
    BY Zenon DEF EntriesOK, OneProcess
  <2>1. EntryOK(p, w)
    BY Zenon DEF LiveInv, EntriesOK
  <2>2. CASE w = v
    BY <1>1, <1>2, <1>3, <1>6, <1>16, <2>2, ZenonT(30) DEF EntryOK
  <2>3. CASE w # v
    <3>1. pml4[p][w].present => frame_page'[pml4[p][w].kva] = frame_page[pml4[p][w].kva]
      BY <1>2, <1>11, <2>3, Zenon
    <3>2. /\ pml4'[p][w] = pml4[p][w] /\ PageOf(p, w)' = PageOf(p, w)
          /\ spt[p][w] # None => page'[PageOf(p, w)] = page[PageOf(p, w)]
      BY <1>11, <2>3, Zenon
    <3> QED
      BY <1>1, <2>1, <3>1, <3>2, Zenon DEF EntryOK
  <2> QED
    BY <2>2, <2>3, Zenon
<1>13. ContentsOK'
  <2> SUFFICES ASSUME NEW w \in Va PROVE ContentOK(p, w)'
    BY Zenon DEF ContentsOK, OneProcess
  <2>1. ContentOK(p, w)
    BY Zenon DEF LiveInv, ContentsOK
  <2>2. CASE w = v
    <3>1. w \in FileVa => ~pml4[p][w].dirty
      BY <2>2, Zenon DEF LiveInv, EntriesOK, EntryOK
    <3>2. ~Untouched(p, w)'
      BY <1>1, <1>6, <1>16, <2>2, Zenon DEF Untouched
    <3>3. phase'[p] = "user" \/ (phase'[p] = "killed" /\ at'[p].va = v)
      BY <1>15, Zenon
    <3>4. phase'[p] = "user" /\ written[p][v] # NULL => mem'[k] = written[p][v]
      BY <1>15
    <3> QED
      BY <1>1, <1>3, <2>1, <2>2, <3>1, <3>2, <3>3, <3>4, Zenon DEF ContentOK
  <2>3. CASE w # v
    <3>1. pml4[p][w].present => mem'[pml4[p][w].kva] = mem[pml4[p][w].kva]
      BY <1>11, <1>17, <2>3, Zenon
    <3>2. ~Untouched(p, w) => page'[PageOf(p, w)] = page[PageOf(p, w)]
      BY <1>11, <2>3, Zenon DEF Untouched
    <3>3. pml4'[p][w] = pml4[p][w] /\ PageOf(p, w)' = PageOf(p, w) /\ Untouched(p, w)' = Untouched(p, w)
      BY <1>11, <2>3, Zenon
    <3>4. phase[p] # "killed"
      BY Zenon
    <3> QED
      BY <1>1, <2>1, <3>1, <3>2, <3>3, <3>4, Zenon DEF ContentOK
  <2> QED
    BY <2>2, <2>3, Zenon
<1>14. FaultsOK'
  <2>1. phase'[p] # "claim" /\ (phase'[p] = "killed" => at'[p].va \in Beyond /\ ~pml4'[p][at'[p].va].dirty)
    BY <1>3, <1>15, Zenon
  <2> QED
    BY <2>1, Zenon DEF FaultsOK, FaultOK, OneProcess
<1> QED
  BY <1>4, <1>7, <1>9, <1>10, <1>12, <1>13, <1>14, Zenon DEF LiveInv

(* vm_do_claim_page, by the type of the page. *)
LEMMA ClaimStep ==
  ASSUME VmType, LiveInv, OneProcess, NEW p \in Proc, VmDoClaimPage(p)
  PROVE  VmType' /\ LiveInv'
<1>1. PICK v, k, x : v = at[p].va /\ k = at[p].kva /\ x = PageOf(p, v)
  OBVIOUS
<1>2. /\ v \in Va /\ k \in Kva /\ k \in OnList /\ frame_page[k] = NULL
      /\ spt[p][v] # None /\ ~pml4[p][v].present /\ phase[p] = "claim"
  BY <1>1 DEF VmDoClaimPage, LiveInv, FaultsOK, FaultOK
<1>3. x \in VmPage /\ x[2] = v
  <2>1. x \in VmPage
    BY <1>1, <1>2, PageThere DEF VmType
  <2> QED
    BY <1>1, <2>1, Zenon DEF PageOf
<1>4. /\ frame_page' = [frame_page EXCEPT ![k] = x] /\ pml4' = Pml4SetPage(pml4, p, v, k)
      /\ UNCHANGED <<spt, frame_list, swap_disk, file, written>>
      /\ \/ /\ ~SwapInFails(x) /\ SwapIn(x, k)
            /\ phase' = [phase EXCEPT ![p] = "user"]
            /\ at' = [at EXCEPT ![p] = [va |-> NULL, kva |-> None]]
         \/ /\ SwapInFails(x)
            /\ page' = [page EXCEPT ![x].frame = k]
            /\ phase' = [phase EXCEPT ![p] = "killed"]
            /\ UNCHANGED <<mem, swap_table, at>>
  BY <1>1 DEF VmDoClaimPage
<1>5. /\ page \in [VmPage -> PageStruct] /\ page[x] \in PageStruct
      /\ page[x].type \in {"uninit", "anon", "file"}
  BY <1>3 DEF VmType, PageStruct
<1>6. /\ page[x].type = "anon" => v \notin FileVa /\ page[x].swap_idx # None
      /\ page[x].type = "file" => v \in FileVa
      /\ page[x].type # "anon" => page[x].swap_idx = None
  <2>1. EntryOK(p, v)
    BY <1>2 DEF LiveInv, EntriesOK
  <2>2. page[x].type = "anon" => page[x].swap_idx # None
    BY <1>1, <1>2, <2>1, Zenon DEF EntryOK
  <2> QED
    BY <1>3, <2>2, Zenon DEF LiveInv, PagesOK
<1>7. ContentOK(p, v)
  BY <1>2 DEF LiveInv, ContentsOK
<1>8. swap_table \ {None} = swap_table
  BY Numbers, Zenon DEF VmType, DiskType
<1>9. /\ phase \in [Proc -> {"user", "claim", "killed", "dead"}] /\ at \in [Proc -> FaultAt]
      /\ mem \in [Kva -> Content] /\ swap_disk \in [Slot -> Content]
      /\ file \in [SegVa \cup FileVa -> Content]
  BY DEF VmType, DiskType
<1>10. [va |-> NULL, kva |-> None] \in FaultAt
  BY DEF FaultAt
<1>14. /\ frame_page' = [frame_page EXCEPT ![k] = x] /\ pml4' = Pml4SetPage(pml4, p, v, k)
       /\ UNCHANGED <<spt, frame_list, swap_disk, file, written>>
  BY <1>4, Zenon
<1>15. x = PageOf(p, v)
  BY <1>1
<1>11. CASE page[x].type = "anon"
  <2>1. AnonSwapIn(x, k) /\ phase' = [phase EXCEPT ![p] = "user"] /\ at' = [at EXCEPT ![p] = [va |-> NULL, kva |-> None]]
    BY <1>4, <1>6, <1>11 DEF SwapInFails, SwapIn
  <2>2. phase' \in [Proc -> {"user", "claim", "killed", "dead"}] /\ phase'[p] = "user" /\ at' \in [Proc -> FaultAt]
    BY <1>9, <1>10, <2>1
  <2>3. page[x].swap_idx \in Slot
    BY <1>5, <1>6, <1>11 DEF PageStruct
  <2>4. /\ mem' \in [Kva -> Content] /\ mem'[k] = swap_disk[page[x].swap_idx]
        /\ \A l \in Kva : l # k => mem'[l] = mem[l]
    BY <1>2, <1>9, <2>1, <2>3 DEF AnonSwapIn
  <2>5. written[p][v] # NULL => mem'[k] = written[p][v]
    BY <1>1, <1>2, <1>7, <1>11, <2>4, Zenon DEF ContentOK, Untouched
  <2>6. page' = [page EXCEPT ![x].frame = k, ![x].swap_idx = None] /\ swap_table' = swap_table \ {page[x].swap_idx}
    BY <2>1 DEF AnonSwapIn
  <2>7. page'[x] = [page[x] EXCEPT !.frame = k, !.swap_idx = None] /\ \A z \in VmPage : z # x => page'[z] = page[z]
    BY <1>3, <1>5, <2>6
  <2>8. page'[x] \in PageStruct /\ page'[x].type = "anon" /\ page'[x].frame = k /\ page'[x].swap_idx = None
    BY <1>2, <1>5, <1>11, <2>7, Zenon DEF PageStruct
  <2>9. page' \in [VmPage -> PageStruct]
    BY <1>3, <1>5, <2>6, <2>7, <2>8
  <2>10. page'[x].type = IF v \in FileVa THEN "file" ELSE "anon"
    BY <1>6, <1>11, <2>8
  <2>11. Outcome(p, v, k)
    BY <2>2, <2>5 DEF Outcome
  <2>12. Claimed(p, v, k, x)
    BY <1>14, <2>2, <2>4, <2>6, <2>7, <2>8, <2>9, <2>10, Zenon DEF Claimed
  <2> QED
    BY <1>2, <1>3, <1>15, <2>11, <2>12, ClaimedStep, Zenon
<1>12. CASE page[x].type = "file"
  <2>1. page' = [page EXCEPT ![x].frame = k] /\ swap_table' = swap_table
    BY <1>4, <1>12 DEF SwapIn, FileBackedSwapIn
  <2>2. page'[x] = [page[x] EXCEPT !.frame = k] /\ \A z \in VmPage : z # x => page'[z] = page[z]
    BY <1>3, <1>5, <2>1
  <2>3. page'[x] \in PageStruct /\ page'[x].type = "file" /\ page'[x].frame = k /\ page'[x].swap_idx = page[x].swap_idx
    BY <1>2, <1>5, <1>12, <2>2 DEF PageStruct
  <2>4. page' \in [VmPage -> PageStruct]
    BY <1>3, <1>5, <2>1, <2>2, <2>3
  <2>5. /\ page'[x].type = (IF v \in FileVa THEN "file" ELSE "anon") /\ page'[x].swap_idx = None
        /\ swap_table' = swap_table \ {page[x].swap_idx}
    BY <1>6, <1>8, <1>12, <2>1, <2>3
  <2>6. file[v] = written[p][v] /\ v \in SegVa \cup FileVa
    <3>1. v \in FileVa /\ ~pml4[p][v].dirty
      BY <1>2, <1>6, <1>12, Zenon DEF LiveInv, EntriesOK, EntryOK
    <3> QED
      BY <1>7, <3>1, Zenon DEF ContentOK
  <2>7. CASE v \in Beyond
    <3>1. phase' = [phase EXCEPT ![p] = "killed"] /\ mem' = mem /\ at' = at
      BY <1>3, <1>4, <1>12, <2>7 DEF SwapInFails
    <3>2. /\ phase' \in [Proc -> {"user", "claim", "killed", "dead"}] /\ phase'[p] = "killed"
          /\ at' \in [Proc -> FaultAt] /\ at'[p].va = v
          /\ mem' \in [Kva -> Content] /\ \A l \in Kva : l # k => mem'[l] = mem[l]
      BY <1>1, <1>9, <3>1, Zenon
    <3>3. Outcome(p, v, k)
      BY <2>7, <3>2 DEF Outcome
    <3>4. Claimed(p, v, k, x)
      BY <1>14, <2>2, <2>3, <2>4, <2>5, <3>2, Zenon DEF Claimed
    <3> QED
      BY <1>2, <1>3, <1>15, <3>3, <3>4, ClaimedStep, Zenon
  <2>8. CASE v \notin Beyond
    <3>1. FileBackedSwapIn(x, k) /\ phase' = [phase EXCEPT ![p] = "user"] /\ at' = [at EXCEPT ![p] = [va |-> NULL, kva |-> None]]
      BY <1>3, <1>4, <1>12, <2>8 DEF SwapInFails, SwapIn
    <3>2. phase' \in [Proc -> {"user", "claim", "killed", "dead"}] /\ phase'[p] = "user" /\ at' \in [Proc -> FaultAt]
      BY <1>9, <1>10, <3>1
    <3>3. /\ mem' \in [Kva -> Content] /\ mem'[k] = file[v]
          /\ \A l \in Kva : l # k => mem'[l] = mem[l]
      BY <1>2, <1>3, <1>9, <2>6, <3>1 DEF FileBackedSwapIn
    <3>4. mem'[k] = written[p][v]
      BY <2>6, <3>3, Zenon
    <3>5. Outcome(p, v, k)
      BY <3>2, <3>4 DEF Outcome
    <3>6. Claimed(p, v, k, x)
      BY <1>14, <2>2, <2>3, <2>4, <2>5, <3>2, <3>3, Zenon DEF Claimed
    <3> QED
      BY <1>2, <1>3, <1>15, <3>5, <3>6, ClaimedStep, Zenon
  <2> QED
    BY <2>7, <2>8
<1>13. CASE page[x].type = "uninit"
  <2>1. UninitInitialize(x, k) /\ phase' = [phase EXCEPT ![p] = "user"] /\ at' = [at EXCEPT ![p] = [va |-> NULL, kva |-> None]]
    BY <1>4, <1>13 DEF SwapInFails, SwapIn
  <2>2. phase' \in [Proc -> {"user", "claim", "killed", "dead"}] /\ phase'[p] = "user" /\ at' \in [Proc -> FaultAt]
    BY <1>9, <1>10, <2>1
  <2>3. PICK type \in {"anon", "file"} : type = IF v \in FileVa THEN "file" ELSE "anon"
    OBVIOUS
  <2>4. page' = [page EXCEPT ![x].frame = k, ![x].type = type] /\ swap_table' = swap_table
    BY <1>3, <2>1, <2>3 DEF UninitInitialize
  <2>5. page'[x] = [page[x] EXCEPT !.frame = k, !.type = type] /\ \A z \in VmPage : z # x => page'[z] = page[z]
    BY <1>3, <1>5, <2>4
  <2>6. page'[x] \in PageStruct /\ page'[x].type = type /\ page'[x].frame = k /\ page'[x].swap_idx = page[x].swap_idx
    BY <1>2, <1>5, <2>3, <2>5, Zenon DEF PageStruct
  <2>7. page' \in [VmPage -> PageStruct]
    BY <1>3, <1>5, <2>4, <2>5, <2>6
  <2>8. /\ page'[x].type = (IF v \in FileVa THEN "file" ELSE "anon") /\ page'[x].swap_idx = None
        /\ swap_table' = swap_table \ {page[x].swap_idx}
    BY <1>6, <1>8, <1>13, <2>3, <2>4, <2>6
  <2>9. Untouched(p, v)
    BY <1>1, <1>13 DEF Untouched
  <2>10. /\ mem' \in [Kva -> Content] /\ \A l \in Kva : l # k => mem'[l] = mem[l]
         /\ written[p][v] # NULL => mem'[k] = written[p][v]
    <3>1. CASE v \in StackVa
      BY <1>3, <1>7, <1>9, <2>1, <2>9, <3>1, Zenon DEF UninitInitialize, ContentOK
    <3>2. CASE v \notin StackVa
      <4>1. v \in SegVa \cup FileVa /\ mem' = [mem EXCEPT ![k] = file[v]]
        BY <1>2, <1>3, <2>1, <3>2, Numbers DEF UninitInitialize, LazyLoadSegment
      <4>2. file[v] = written[p][v]
        <5>1. v \in FileVa => ~pml4[p][v].dirty
          BY <1>2 DEF LiveInv, EntriesOK, EntryOK
        <5> QED
          BY <1>7, <2>9, <4>1, <5>1, Zenon DEF ContentOK
      <4> QED
        BY <1>2, <1>9, <4>1, <4>2
    <3> QED
      BY <3>1, <3>2
  <2>11. Outcome(p, v, k)
    BY <2>2, <2>10 DEF Outcome
  <2>12. Claimed(p, v, k, x)
    BY <1>14, <2>2, <2>5, <2>6, <2>7, <2>8, <2>10, Zenon DEF Claimed
  <2> QED
    BY <1>2, <1>3, <1>15, <2>11, <2>12, ClaimedStep, Zenon
<1> QED
  BY <1>5, <1>11, <1>12, <1>13
-----------------------------------------------------------------------------
(* process_cleanup: what is left when the process is gone. *)
LEMMA ExitStep ==
  ASSUME VmType, LiveInv, OneProcess, NEW p \in Proc, ProcessExit(p)
  PROVE  VmType' /\ Ended'
<1> DEFINE mine == {PageOf(p, v) : v \in {v \in Va : spt[p][v] # None}}
           anon == {x \in mine : page[x].type = "anon"}
           back == {x \in mine : page[x].type = "file"}
           keep == {i \in DOMAIN frame_list : \A x \in anon : page[x].frame # frame_list[i]}
<1>1. /\ page' = page /\ frame_page' = frame_page /\ mem' = mem /\ swap_disk' = swap_disk
      /\ at' = at /\ panic' = panic /\ written' = written
      /\ phase[p] \in {"user", "killed"}
      /\ swap_table' = swap_table \ {page[x].swap_idx : x \in anon}
      /\ frame_list' = Filter(frame_list, keep)
      /\ FileBackedDestroy(p, back)
  BY Zenon DEF ProcessExit, AnonDestroy
<1>2. /\ spt' = [spt EXCEPT ![p] = [v \in Va |-> None]]
      /\ pml4' = [pml4 EXCEPT ![p] = [v \in Va |-> [kva |-> None, present |-> FALSE, dirty |-> FALSE]]]
      /\ phase' = [phase EXCEPT ![p] = "dead"]
  BY Zenon DEF ProcessExit
<1>3. \A q \in Proc : q = p
  BY DEF OneProcess
<1>4. ASSUME NEW x \in VmPage, page[x].type = "anon" PROVE x \in anon
  <2>1. spt[x[1]][x[2]] = x[3]
    BY <1>4, Zenon DEF LiveInv, PagesOK
  <2>2. x = <<x[1], x[2], x[3]>> /\ x[1] \in Proc /\ x[2] \in Va /\ x[3] \in 1..MaxMaps[x[2]]
    BY PageName, Zenon
  <2>3. x[1] = p
    BY <1>3, <2>2, Zenon
  <2>4. x[3] # None
    BY <2>2, Numbers DEF None
  <2>5. x = PageOf(p, x[2]) /\ spt[p][x[2]] # None
    BY <2>1, <2>2, <2>3, <2>4, Zenon DEF PageOf
  <2> QED
    BY <1>4, <2>2, <2>5, Zenon
<1>5. \A w \in Va : spt[p][w] # None => PageOf(p, w) \in mine
  OBVIOUS
<1>6. keep \in SUBSET DOMAIN frame_list
  OBVIOUS
<1>7. \A x \in back : x \in mine /\ page[x].type = "file"
  OBVIOUS
<1>8. \A x \in mine : page[x].type = "file" => x \in back
  OBVIOUS
<1> HIDE DEF mine, anon, back, keep
<1>9. SptType' /\ \A q \in Proc, w \in Va : spt'[q][w] = None
  <2>1. spt' \in [Proc -> [Va -> Nat]] /\ \A w \in Va : spt'[p][w] = None
    BY <1>2 DEF VmType, SptType, None
  <2>2. \A q \in Proc, w \in Va : spt'[q][w] = None
    BY <1>3, <2>1, Zenon
  <2>3. \A w \in Va : None \in 0..MaxMaps[w]
    BY Numbers DEF None
  <2> QED
    BY <2>1, <2>2, <2>3, Zenon DEF SptType
<1>10. pml4' \in [Proc -> [Va -> PageEntry]] /\ \A q \in Proc, w \in Va : ~pml4'[q][w].present
  <2>1. PICK e \in PageEntry : e = [kva |-> None, present |-> FALSE, dirty |-> FALSE]
    BY Zenon DEF PageEntry
  <2>2. pml4' = [pml4 EXCEPT ![p] = [v \in Va |-> e]]
    BY <1>2, <2>1, Zenon
  <2>3. pml4' \in [Proc -> [Va -> PageEntry]] /\ \A w \in Va : pml4'[p][w] = e
    BY <2>2 DEF VmType
  <2>4. ~e.present
    BY <2>1
  <2> QED
    BY <1>3, <2>3, <2>4, Zenon
<1>11. phase' \in [Proc -> {"user", "claim", "killed", "dead"}] /\ phase'[p] = "dead"
  BY <1>2 DEF VmType
<1>12. ListType'
  <2>1. frame_list \in Seq(Kva) /\ Once(frame_list)
    BY DEF VmType, ListType
  <2>2. keep \in SUBSET (1..Len(frame_list))
    BY <1>6, <2>1
  <2>3. Filter(frame_list, keep) \in Seq(Kva) /\ Once(Filter(frame_list, keep))
    BY <2>1, <2>2, FilterProperties, Zenon
  <2> QED
    BY <1>1, <2>3, Zenon DEF ListType
<1>13. swap_table' = {}
  <2>1. ASSUME NEW i \in swap_table PROVE \E x \in anon : page[x].swap_idx = i
    <3>1. PICK x \in VmPage : page[x].swap_idx = i
      BY <2>1, Zenon DEF LiveInv, SlotsOK
    <3>2. i # None
      BY <2>1, Numbers, Zenon DEF VmType, DiskType
    <3>3. page[x].type = "anon"
      BY <3>1, <3>2, Zenon DEF LiveInv, PagesOK
    <3> QED
      BY <1>4, <3>1, <3>3, Zenon
  <2> QED
    BY <1>1, <2>1, Zenon
<1>14. /\ file' \in [SegVa \cup FileVa -> Content]
       /\ \A v \in FileVa : file'[v] = written[p][v]
  <2>1. /\ file' = [v \in SegVa \cup FileVa |->
                     IF PageOf(p, v) \in back /\ pml4[p][v].dirty
                       THEN mem[page[PageOf(p, v)].frame] ELSE file[v]]
        /\ file \in [SegVa \cup FileVa -> Content] /\ mem \in [Kva -> Content]
    BY <1>1, Zenon DEF FileBackedDestroy, VmType, DiskType, Pml4IsDirty
  <2>2. ASSUME NEW v \in FileVa, pml4[p][v].dirty
        PROVE  /\ mem[page[PageOf(p, v)].frame] = written[p][v]
               /\ PageOf(p, v) \in back
    <3>1. v \in Va
      BY <2>2, Numbers, Zenon
    <3>2. pml4[p][v].present
      BY <2>2, <3>1, Zenon DEF LiveInv, EntriesOK, EntryOK
    <3>3. /\ spt[p][v] # None /\ PageOf(p, v) \in VmPage
          /\ page[PageOf(p, v)].frame = pml4[p][v].kva /\ ~Untouched(p, v)
      <4>1. spt[p][v] # None /\ PageOf(p, v) \in VmPage
        BY <3>1, <3>2, Present, Zenon
      <4>2. page[PageOf(p, v)].frame = pml4[p][v].kva
        BY <3>1, <3>2, Present, Zenon
      <4>3. ~Untouched(p, v)
        BY <3>1, <3>2, Present, Zenon
      <4> QED
        BY <4>1, <4>2, <4>3
    <3>4. page[PageOf(p, v)].type = "file"
      <4>1. page[PageOf(p, v)].type \in {"uninit", "anon", "file"}
        BY <3>3, Zenon DEF VmType, PageStruct
      <4>2. page[PageOf(p, v)].type # "anon"
        <5>1. PageOf(p, v)[2] = v
          BY DEF PageOf
        <5> QED
          BY <2>2, <3>3, <5>1, Zenon DEF LiveInv, PagesOK
      <4> QED
        BY <3>3, <4>1, <4>2, Zenon DEF Untouched
    <3>5. ~(phase[p] = "killed" /\ at[p].va = v)
      BY <2>2 DEF LiveInv, FaultsOK, FaultOK
    <3>6. written[p][v] # NULL /\ mem[pml4[p][v].kva] = written[p][v]
      BY <2>2, <3>1, <3>2, <3>5, Zenon DEF LiveInv, ContentsOK, ContentOK
    <3> QED
      BY <1>5, <1>8, <3>1, <3>3, <3>4, <3>6, Zenon
  <2>3. ASSUME NEW v \in FileVa PROVE file'[v] = written[p][v]
    <3>1. v \in Va
      BY <2>3, Numbers, Zenon
    <3>2. CASE pml4[p][v].dirty
      BY <2>1, <2>2, <2>3, <3>2, Zenon
    <3>3. CASE ~pml4[p][v].dirty
      <4>1. file[v] = written[p][v]
        BY <2>3, <3>1, <3>3, Zenon DEF LiveInv, ContentsOK, ContentOK
      <4> QED
        BY <2>1, <2>3, <3>3, <4>1
    <3> QED
      BY <3>2, <3>3
  <2>4. ASSUME NEW v \in SegVa, pml4[p][v].dirty, PageOf(p, v) \in back PROVE FALSE
    <3>1. PICK w \in Va : spt[p][w] # None /\ PageOf(p, v) = PageOf(p, w)
      BY <1>7, <2>4 DEF mine
    <3>2. v \in Va /\ v \notin FileVa
      BY <2>4, Numbers, Zenon DEF Va
    <3>3. w = v
      BY <3>1 DEF PageOf
    <3>4. PageOf(p, v) \in VmPage
      BY <3>1, <3>2, <3>3, PageThere DEF VmType
    <3>5. page[PageOf(p, v)].type = "file"
      BY <1>7, <2>4, Zenon
    <3>6. PageOf(p, v)[2] = v
      BY DEF PageOf
    <3> QED
      BY <3>2, <3>4, <3>5, <3>6, Zenon DEF LiveInv, PagesOK
  <2>5. ASSUME NEW v \in SegVa PROVE file'[v] = file[v]
    <3>1. ~(PageOf(p, v) \in back /\ pml4[p][v].dirty)
      BY <2>4, <2>5, Zenon
    <3> QED
      BY <2>1, <2>5, <3>1
  <2>6. ASSUME NEW v \in FileVa PROVE written[p][v] \in Content
    <3>1. v \in Va
      BY <2>6, Numbers, Zenon
    <3>2. written[p][v] # NULL
      BY <2>6, <3>1, Zenon DEF LiveInv, ContentsOK, ContentOK
    <3>3. written[p][v] \in Content \cup {NULL}
      BY <3>1 DEF VmType
    <3> QED
      BY <3>2, <3>3
  <2>7. ASSUME NEW v \in SegVa \cup FileVa PROVE file'[v] \in Content
    <3>1. CASE v \in FileVa
      BY <2>3, <2>6, <3>1, Zenon
    <3>2. CASE v \in SegVa
      BY <2>1, <2>5, <3>2
    <3> QED
      BY <2>7, <3>1, <3>2
  <2> QED
    BY <2>1, <2>3, <2>7, Zenon
<1>15. VmType'
  <2>1. DiskType'
    BY <1>1, <1>13, <1>14, Zenon DEF VmType, DiskType
  <2> QED
    BY <1>1, <1>9, <1>10, <1>11, <1>12, <2>1, Zenon DEF VmType
<1>16. StoresKept'
  <2> SUFFICES ASSUME NEW q \in Proc, NEW v \in Va, v \in FileVa \/ phase'[q] # "dead"
               PROVE  Contents(q, v)' = written'[q][v]
    BY DEF StoresKept
  <2>1. q = p /\ v \in FileVa
    BY <1>3, <1>11, Zenon
  <2>2. spt'[q][v] = None
    BY <1>9, Zenon
  <2>3. Contents(q, v)' = file'[v]
    BY <2>2 DEF Contents
  <2> QED
    BY <1>1, <1>14, <2>1, <2>3, Zenon
<1>17. FramesPrivate'
  BY <1>10, Zenon DEF FramesPrivate
<1>18. SlotsOwned'
  <2>1. ASSUME NEW x \in VmPage PROVE ~(spt'[x[1]][x[2]] = x[3])
    <3>1. x[1] \in Proc /\ x[2] \in Va /\ x[3] \in 1..MaxMaps[x[2]]
      BY PageName, Zenon
    <3>2. x[3] # None
      BY <3>1, Numbers DEF None
    <3> QED
      BY <1>9, <3>1, <3>2, Zenon
  <2> QED
    BY <1>13, <2>1 DEF SlotsOwned
<1>19. FaultsServed'
  BY <1>3, <1>11 DEF FaultsServed
<1> QED
  BY <1>11, <1>15, <1>16, <1>17, <1>18, <1>19, Zenon DEF Ended, Live
-----------------------------------------------------------------------------
(* What the invariant says of the slots of the swap disk. *)
LEMMA LiveSlots ==
  ASSUME VmType, LiveInv PROVE SlotsOwned
<1> DEFINE out == {x \in VmPage : spt[x[1]][x[2]] = x[3] /\ page[x].swap_idx # None}
<1>1. \A x \in VmPage : page[x].swap_idx # None => x \in out
  BY DEF LiveInv, PagesOK
<1>2. \A x \in out : x \in VmPage /\ page[x].swap_idx # None
  OBVIOUS
<1> HIDE DEF out
<1>3. \A i \in swap_table : i # None
  BY Numbers, Zenon DEF VmType, DiskType
<1>4. \A i \in swap_table : \E x \in out : page[x].swap_idx = i
  BY <1>1, <1>3, Zenon DEF LiveInv, SlotsOK
<1>5. \A x \in out : page[x].swap_idx \in swap_table
  BY <1>2, Zenon DEF LiveInv, SlotsOK
<1>6. swap_table = {page[x].swap_idx : x \in out}
  BY <1>4, <1>5, Zenon
<1>7. \A x, y \in out : page[x].swap_idx = page[y].swap_idx => x = y
  BY <1>2, Zenon DEF LiveInv, SlotsOK
<1> QED
  BY <1>6, <1>7, Zenon DEF SlotsOwned, out

(* What the invariant says of the contents of an address. *)
LEMMA LiveStores ==
  ASSUME VmType, LiveInv PROVE StoresKept
<1> SUFFICES ASSUME NEW p \in Proc, NEW v \in Va, written[p][v] # NULL,
                    ~(phase[p] = "killed" /\ at[p].va = v)
             PROVE  Contents(p, v) = written[p][v]
  BY DEF StoresKept
<1>1. ContentOK(p, v) /\ EntryOK(p, v)
  BY DEF LiveInv, ContentsOK, EntriesOK
<1>2. pml4[p][v].present => ~Untouched(p, v)
  BY Present, Zenon
<1>3. CASE Untouched(p, v)
  <2>1. Contents(p, v) = file[v]
    BY <1>2, <1>3 DEF Contents, Untouched
  <2>2. v \in FileVa => ~pml4[p][v].dirty
    BY <1>1, <1>2, <1>3, Zenon DEF EntryOK
  <2>3. file[v] = written[p][v]
    BY <1>1, <1>3, <2>2, Numbers, Zenon DEF ContentOK
  <2> QED
    BY <2>1, <2>3, Zenon
<1>4. CASE ~Untouched(p, v)
  <2>1. spt[p][v] # None /\ page[PageOf(p, v)].type # "uninit"
    BY <1>4, Zenon DEF Untouched
  <2>2. PageOf(p, v) \in VmPage
    BY <2>1, PageThere DEF VmType
  <2>3. page[PageOf(p, v)].type \in {"uninit", "anon", "file"}
    BY <2>2 DEF VmType, PageStruct
  <2>4. CASE pml4[p][v].present
    <3>1. Contents(p, v) = mem[pml4[p][v].kva]
      BY <2>1, <2>4 DEF Contents
    <3> QED
      BY <1>1, <2>4, <3>1, Zenon DEF ContentOK
  <2>5. CASE ~pml4[p][v].present /\ page[PageOf(p, v)].type = "anon"
    <3>1. Contents(p, v) = swap_disk[page[PageOf(p, v)].swap_idx]
      BY <2>1, <2>5 DEF Contents
    <3> QED
      BY <1>1, <1>4, <2>5, <3>1, Zenon DEF ContentOK
  <2>6. CASE ~pml4[p][v].present /\ page[PageOf(p, v)].type = "file"
    <3>1. Contents(p, v) = file[v]
      BY <2>1, <2>6 DEF Contents
    <3>2. v \in FileVa
      <4>1. PageOf(p, v)[2] = v
        BY DEF PageOf
      <4> QED
        BY <2>2, <2>6, <4>1, Zenon DEF LiveInv, PagesOK
    <3>3. ~pml4[p][v].dirty
      BY <1>1, <2>6, <3>2, Zenon DEF EntryOK
    <3> QED
      BY <1>1, <3>1, <3>2, <3>3, Zenon DEF ContentOK
  <2> QED
    BY <2>1, <2>3, <2>4, <2>5, <2>6
<1> QED
  BY <1>3, <1>4

(* The invariant is enough. *)
LEMMA VmInvImplies == VmInv => StoresKept /\ MemoryOwned
<1> SUFFICES ASSUME VmType, LiveInv \/ Ended PROVE StoresKept /\ MemoryOwned
  BY DEF VmInv
<1>1. TypeOK
  BY TypeHolds, Zenon
<1>2. CASE LiveInv
  <2>1. StoresKept /\ SlotsOwned
    BY <1>2, LiveStores, LiveSlots, Zenon
  <2>2. FramesPrivate
    <3> SUFFICES ASSUME NEW p \in Proc, NEW v \in Va, pml4[p][v].present
                 PROVE  /\ spt[p][v] # None
                        /\ page[PageOf(p, v)].frame = pml4[p][v].kva
                        /\ frame_page[pml4[p][v].kva] = PageOf(p, v)
      BY DEF FramesPrivate
    <3>1. EntryOK(p, v)
      BY <1>2, Zenon DEF LiveInv, EntriesOK
    <3> QED
      BY <3>1, Zenon DEF EntryOK
  <2>3. FaultsServed
    BY <1>2, Zenon DEF LiveInv, FaultsOK, FaultOK, FaultsServed
  <2> QED
    BY <1>1, <2>1, <2>2, <2>3, Zenon DEF MemoryOwned
<1>3. CASE Ended
  BY <1>1, <1>3, Zenon DEF Ended, MemoryOwned
<1> QED
  BY <1>2, <1>3

(* Nothing happens when the only process has ended. *)
LEMMA EndedStep ==
  ASSUME VmType, Ended, OneProcess, [Next]_vars PROVE VmType' /\ Ended'
<1>1. PICK q \in Proc : phase[q] = "dead"
  BY Zenon DEF Ended, Live
<1>2. \A p \in Proc : phase[p] = "dead"
  BY <1>1, Zenon DEF OneProcess
<1>3. ASSUME Next PROVE FALSE
  <2>1. PICK p \in Proc :
          \/ \E v \in Va :
               \/ \E value \in Value : Store(p, v, value)
               \/ VmStackGrowth(p, v)
               \/ DoMmap(p, v)
               \/ DoMunmap(p, v)
               \/ VmGetFrame(p, v)
               \/ VmEvictFrame(p, v)
          \/ VmDoClaimPage(p)
          \/ ProcessExit(p)
    BY <1>3, Zenon DEF Next
  <2>2. phase[p] = "dead"
    BY <1>2
  <2>3. ~Running(p)
    BY <2>2 DEF Running
  <2>4. ~VmDoClaimPage(p) /\ ~ProcessExit(p)
    BY <2>2 DEF VmDoClaimPage, ProcessExit
  <2>5. ASSUME NEW v \in Va, NEW value \in Value PROVE ~Store(p, v, value)
    BY <2>3, Zenon DEF Store
  <2>6. ASSUME NEW v \in Va
        PROVE  /\ ~VmStackGrowth(p, v) /\ ~DoMmap(p, v) /\ ~DoMunmap(p, v)
               /\ ~VmGetFrame(p, v) /\ ~VmEvictFrame(p, v)
    BY <2>3, Zenon DEF VmStackGrowth, DoMmap, DoMunmap, VmGetFrame, VmEvictFrame, Faults
  <2> QED
    BY <2>1, <2>4, <2>5, <2>6, Zenon
<1>4. UNCHANGED vars
  BY <1>3, Zenon
<1>5. /\ spt' = spt /\ page' = page /\ pml4' = pml4 /\ frame_list' = frame_list
      /\ frame_page' = frame_page /\ mem' = mem
      /\ swap_table' = swap_table /\ swap_disk' = swap_disk /\ file' = file
      /\ phase' = phase /\ at' = at /\ written' = written /\ panic' = panic
  BY <1>4 DEF vars, disks
<1>6. VmType'
  BY <1>5, Zenon DEF VmType, SptType, ListType, DiskType
<1>7. \A p \in Proc, v \in Va : Contents(p, v)' = Contents(p, v) /\ PageOf(p, v)' = PageOf(p, v)
  BY <1>5 DEF Contents, PageOf
<1>8. StoresKept'
  BY <1>5, <1>7, Zenon DEF Ended, StoresKept
<1>9. FramesPrivate'
  <2> SUFFICES ASSUME NEW p \in Proc, NEW v \in Va, pml4'[p][v].present
               PROVE  /\ spt'[p][v] # None
                      /\ page'[PageOf(p, v)'].frame = pml4'[p][v].kva
                      /\ frame_page'[pml4'[p][v].kva] = PageOf(p, v)'
    BY Zenon DEF FramesPrivate
  <2>1. PageOf(p, v)' = PageOf(p, v) /\ pml4[p][v].present
    BY <1>5, <1>7
  <2> QED
    BY <1>5, <2>1, ZenonT(30) DEF Ended, FramesPrivate
<1>10. SlotsOwned' /\ FaultsServed' /\ ~Live'
  BY <1>5, Zenon DEF Ended, SlotsOwned, FaultsServed, Live
<1> QED
  BY <1>6, <1>8, <1>9, <1>10, Zenon DEF Ended

LEMMA VmStep ==
  ASSUME VmInv, OneProcess, [Next]_vars PROVE VmInv'
<1>1. VmType /\ (LiveInv \/ Ended)
  BY DEF VmInv
<1>2. CASE Ended
  BY <1>1, <1>2, EndedStep, Zenon DEF VmInv
<1>3. CASE LiveInv
  <2>1. CASE UNCHANGED vars
    <3>1. UNCHANGED <<spt, page, pml4, frame_list, frame_page, mem, disks, phase, at, written>>
      BY <2>1 DEF vars
    <3> QED
      BY <1>1, <1>3, <3>1, SameStep, Zenon DEF VmInv
  <2>2. CASE Next
    <3>1. PICK p \in Proc :
            \/ \E v \in Va :
                 \/ \E value \in Value : Store(p, v, value)
                 \/ VmStackGrowth(p, v)
                 \/ DoMmap(p, v)
                 \/ DoMunmap(p, v)
                 \/ VmGetFrame(p, v)
                 \/ VmEvictFrame(p, v)
            \/ VmDoClaimPage(p)
            \/ ProcessExit(p)
      BY <2>2, Zenon DEF Next
    <3>2. CASE ProcessExit(p)
      BY <1>1, <1>3, <3>2, ExitStep, Zenon DEF VmInv
    <3>3. CASE VmDoClaimPage(p)
      BY <1>1, <1>3, <3>3, ClaimStep, Zenon DEF VmInv
    <3>4. ASSUME NEW v \in Va, NEW value \in Value, Store(p, v, value) PROVE VmInv'
      BY <1>1, <1>3, <3>4, StoreStep, Zenon DEF VmInv
    <3>5. ASSUME NEW v \in Va, VmStackGrowth(p, v) PROVE VmInv'
      BY <1>1, <1>3, <3>5, GrowthStep, Zenon DEF VmInv
    <3>6. ASSUME NEW v \in Va, DoMmap(p, v) PROVE VmInv'
      BY <1>1, <1>3, <3>6, MmapStep, Zenon DEF VmInv
    <3>7. ASSUME NEW v \in Va, DoMunmap(p, v) PROVE VmInv'
      BY <1>1, <1>3, <3>7, MunmapStep, Zenon DEF VmInv
    <3>8. ASSUME NEW v \in Va, VmGetFrame(p, v) PROVE VmInv'
      BY <1>1, <1>3, <3>8, GetFrameStep, Zenon DEF VmInv
    <3>9. ASSUME NEW v \in Va, VmEvictFrame(p, v) PROVE VmInv'
      BY <1>1, <1>3, <3>9, EvictStep, Zenon DEF VmInv
    <3> QED
      BY <3>1, <3>2, <3>3, <3>4, <3>5, <3>6, <3>7, <3>8, <3>9, Zenon
  <2> QED
    BY <2>1, <2>2
<1> QED
  BY <1>1, <1>2, <1>3

LEMMA VmInvariant == OneProcess => (Spec => []VmInv)
<1> SUFFICES ASSUME OneProcess PROVE Spec => []VmInv
  OBVIOUS
<1>1. Init => VmInv
  BY VmInitial
<1>2. VmInv /\ [Next]_vars => VmInv'
  BY VmStep
<1> QED
  BY <1>1, <1>2, PTL DEF Spec

(***************************************************************************)
(* Paging is invisible to a program, with any number of frames, swap slots *)
(* and pages: while one process stores, faults, maps and unmaps, and       *)
(* vm_evict_frame sends its pages to the swap disk or to their file, every *)
(* address holds what the program last stored there, and when it has ended *)
(* so do its files.                                                        *)
(***************************************************************************)
THEOREM PagingIsInvisible == OneProcess => (Spec => []StoresKept)
<1> SUFFICES ASSUME OneProcess PROVE Spec => []StoresKept
  OBVIOUS
<1>1. Spec => []VmInv
  BY VmInvariant
<1>2. VmInv => StoresKept
  BY VmInvImplies
<1> QED
  BY <1>1, <1>2, PTL

(***************************************************************************)
(* vm_evict_frame, swap_in, munmap and exit leave every frame and every    *)
(* slot with its owner: an entry that is present maps the frame of its own *)
(* page, a slot is in use exactly as long as one page is in it, and only a *)
(* fault beyond the end of a mapped file kills the process.                *)
(***************************************************************************)
THEOREM MemoryStaysOwned == OneProcess => (Spec => []MemoryOwned)
<1> SUFFICES ASSUME OneProcess PROVE Spec => []MemoryOwned
  OBVIOUS
<1>1. Spec => []VmInv
  BY VmInvariant
<1>2. VmInv => MemoryOwned
  BY VmInvImplies
<1> QED
  BY <1>1, <1>2, PTL
=============================================================================

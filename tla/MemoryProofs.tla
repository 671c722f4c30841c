---------------------------- MODULE MemoryProofs ----------------------------
(***************************************************************************)
(* Proofs for PagePool, for any number of threads, pools and pages, and    *)
(* for CopyOnWrite, for any family of processes, pages and frames.         *)
(*                                                                         *)
(* PagePool: only the holder of a pool's lock sets bits of the pool, so    *)
(* the bits it has seen clear stay clear until it sets them, whatever the  *)
(* others give back meanwhile; and a bit is set exactly while the page has *)
(* an owner.                                                               *)
(*                                                                         *)
(* CopyOnWrite: a page has a frame exactly when it has an entry, and the   *)
(* count of a frame is the number of the pages that use it.                *)
(***************************************************************************)
EXTENDS PagePool, CopyOnWrite, FiniteSetTheorems, TLAPS

Inside(t) == pc[t] \in {"scan", "flip", "get_unlock"}

LockInv == \A t \in Thread : Inside(t) => lock[pool[t]] = t

PcOK == pc \in [Thread -> PoolPC]

(* The loops of a call stay inside the bitmap. *)
LoopOK(t) ==
  /\ pc[t] \in {"scan", "flip", "free", "clear"} => idx[t] + cnt[t] <= Size[pool[t]] /\ off[t] < cnt[t]
  /\ pc[t] = "get_unlock" /\ pages[t] # NULL =>
       idx[t] + cnt[t] <= Size[pool[t]] /\ pages[t] = PageAt(t, idx[t])
  /\ pc[t] \in {"free", "clear"} => pages[t] = PageAt(t, idx[t])
  /\ pc[t] \in {"get", "free"} => off[t] = 0
  /\ pc[t] = "get" => idx[t] = 0
  /\ pc[t] \in {"get", "scan", "flip"} => pages[t] = NULL

LoopInv == \A t \in Thread : LoopOK(t)

(* The bits a scan has passed, and those still to be set, are clear. *)
ClearOK(t) ==
  \A i \in Nat :
    \/ pc[t] = "scan" /\ i < off[t]
    \/ pc[t] = "flip" /\ off[t] <= i /\ i < cnt[t]
    => ~used_map[PageAt(t, idx[t] + i)]

ClearInv == \A t \in Thread : ClearOK(t)

(* A call works on pages its thread does not have, or has no more. *)
HeldApart == \A t \in Thread : held[t] \cap InTransit(t) = {}

PoolInv ==
  /\ PoolTypeOK /\ PcOK /\ LockInv /\ LoopInv /\ ClearInv
  /\ HeldApart /\ PagesExclusive /\ PagesAccounted

(* The number of an index inside the bitmap is a page of that pool alone. *)
LEMMA PageInPool ==
  ASSUME NEW k \in Pool, NEW i \in Nat, i < Size[k]
  PROVE  /\ Base[k] + i \in Page
         /\ \A l \in Pool, j \in Nat : j < Size[l] /\ Base[l] + j = Base[k] + i => l = k /\ j = i
<1>1. Base[k] + i \in Base[k]..(Base[k] + Size[k] - 1)
  BY PoolAssumption
<1>2. Base[k] + i \in Page
  BY <1>1 DEF Page
<1>3. ASSUME NEW l \in Pool, NEW j \in Nat, j < Size[l], Base[l] + j = Base[k] + i
      PROVE  l = k /\ j = i
  BY <1>3, PoolAssumption
<1> QED
  BY <1>2, <1>3

(* A page is a natural number, and not NULL. *)
LEMMA PageNat == Page \subseteq Nat /\ NULL \notin Page
BY PoolAssumption DEF Page

(* A run of pages grows at its end and shrinks at its start. *)
LEMMA RunFacts ==
  ASSUME NEW f \in Nat, NEW n \in Nat
  PROVE  /\ Run(f, 0) = {}
         /\ f + n \in Page => Run(f, n + 1) = Run(f, n) \cup {f + n}
         /\ f \in Page => Run(f, n + 1) = Run(f + 1, n) \cup {f} /\ f \notin Run(f + 1, n)
<1>1. \A p \in Page : p \in Nat
  BY PageNat
<1>2. Run(f, 0) = {}
  BY <1>1 DEF Run
<1>3. f + n \in Page => Run(f, n + 1) = Run(f, n) \cup {f + n}
  BY <1>1 DEF Run
<1>4. f \notin Run(f + 1, n)
  BY DEF Run
<1>5. ASSUME f \in Page PROVE Run(f, n + 1) = Run(f + 1, n) \cup {f}
  <2>1. \A p \in Nat : f <= p /\ p < f + (n + 1) <=> p = f \/ (f + 1 <= p /\ p < (f + 1) + n)
    OBVIOUS
  <2> QED
    BY <1>1, <1>5, <2>1, Zenon DEF Run
<1> QED
  BY <1>2, <1>3, <1>4, <1>5

LEMMA PoolInvInit == PoolInit => PoolInv
<1> SUFFICES ASSUME PoolInit PROVE PoolInv
  OBVIOUS
<1> USE PoolAssumption DEF PoolInit
<1>1. PoolTypeOK /\ PcOK
  BY DEF PoolTypeOK, PcOK, PoolPC
<1>2. LockInv /\ LoopInv /\ ClearInv
  BY DEF LockInv, LoopInv, LoopOK, ClearInv, ClearOK, Inside
<1>3. \A t \in Thread : held[t] = {} /\ InTransit(t) = {}
  BY DEF InTransit
<1>4. HeldApart /\ PagesExclusive /\ PagesAccounted
  BY <1>3 DEF HeldApart, Owned, PagesExclusive, PagesAccounted
<1> QED
  BY <1>1, <1>2, <1>4 DEF PoolInv

(* A step of t leaves the locals and the pages of the others alone. *)
Others(t) ==
  \A u \in Thread \ {t} :
    /\ held'[u] = held[u] /\ pc'[u] = pc[u] /\ pool'[u] = pool[u] /\ cnt'[u] = cnt[u]
    /\ idx'[u] = idx[u] /\ off'[u] = off[u] /\ pages'[u] = pages[u]

LEMMA OthersSame ==
  ASSUME PoolInv, NEW t \in Thread, Others(t), NEW u \in Thread, u # t
  PROVE  /\ Owned(u)' = Owned(u)
         /\ (held[u] \cap InTransit(u) = {})'
         /\ LoopOK(u)'
         /\ (\A p \in Page : used_map'[p] => used_map[p]) => ClearOK(u)'
<1> USE DEF Others
<1>1. InTransit(u)' = InTransit(u) /\ held'[u] = held[u]
  BY DEF InTransit, Run, PageAt
<1>2. Owned(u)' = Owned(u) /\ (held[u] \cap InTransit(u) = {})'
  BY <1>1 DEF Owned, PoolInv, HeldApart
<1>3. LoopOK(u) /\ ClearOK(u)
  BY DEF PoolInv, LoopInv, ClearInv
<1>4. LoopOK(u)'
  BY <1>3 DEF LoopOK, PageAt
<1>5. ASSUME \A p \in Page : used_map'[p] => used_map[p] PROVE ClearOK(u)'
  <2> SUFFICES ASSUME NEW i \in Nat,
                      \/ pc[u] = "scan" /\ i < off[u]
                      \/ pc[u] = "flip" /\ off[u] <= i /\ i < cnt[u]
               PROVE  ~used_map'[PageAt(u, idx[u] + i)]
    BY DEF ClearOK, PageAt
  <2>1. ~used_map[PageAt(u, idx[u] + i)]
    BY <1>3 DEF ClearOK
  <2>2. idx[u] \in Nat /\ idx[u] + i < Size[pool[u]] /\ pool[u] \in Pool
    BY <1>3, PoolAssumption DEF LoopOK, PoolInv, PoolTypeOK
  <2>3. PageAt(u, idx[u] + i) \in Page
    BY <2>2, PageInPool DEF PageAt
  <2> QED
    BY <2>1, <2>3, <1>5
<1> QED
  BY <1>2, <1>4, <1>5

(* A step of t that sets no bit keeps the others' part of the invariant. *)
LEMMA QuietStep ==
  ASSUME PoolInv, NEW t \in Thread, Others(t), used_map' = used_map,
         LoopOK(t)', ClearOK(t)', Owned(t)' = Owned(t), (held[t] \cap InTransit(t) = {})'
  PROVE  LoopInv' /\ ClearInv' /\ HeldApart' /\ PagesExclusive' /\ PagesAccounted'
<1>1. LoopInv' /\ ClearInv' /\ HeldApart'
  BY OthersSame DEF LoopInv, ClearInv, HeldApart
<1>2. \A u \in Thread : Owned(u)' = Owned(u)
  BY OthersSame
<1> QED
  BY <1>1, <1>2 DEF PoolInv, PagesExclusive, PagesAccounted

(* The calls change no bit: what is given back stays owned, in transit. *)
LEMMA CallSteps ==
  ASSUME PoolInv, NEW t \in Thread, NEW k \in Pool, NEW n \in 1..MaxCnt, pc[t] = "idle",
         CallGet(t, k, n) \/ \E first \in held[t] : CallFree(t, k, first, n)
  PROVE  PoolInv'
<1> USE PoolAssumption, PageNat DEF Goto
<1>0. InTransit(t) = {} /\ PoolTypeOK /\ PcOK /\ LockInv
  BY DEF InTransit, PoolInv
<1>1. CASE CallGet(t, k, n)
  <2> USE <1>1 DEF CallGet
  <2>1. PoolTypeOK' /\ PcOK' /\ Others(t)
    BY <1>0 DEF PoolTypeOK, PcOK, PoolPC, Others
  <2>2. LockInv'
    BY <1>0 DEF LockInv, Inside, PoolTypeOK, PcOK
  <2>3. pc'[t] = "get" /\ off'[t] = 0 /\ idx'[t] = 0 /\ pages'[t] = NULL /\ held' = held
    BY <1>0 DEF PoolTypeOK, PcOK
  <2>4. LoopOK(t)' /\ ClearOK(t)' /\ InTransit(t)' = {}
    BY <2>3 DEF LoopOK, ClearOK, InTransit
  <2> QED
    BY <1>0, <2>1, <2>2, <2>3, <2>4, QuietStep DEF PoolInv, Owned
<1>2. ASSUME NEW first \in held[t], CallFree(t, k, first, n)
      PROVE  PoolInv'
  <2> USE <1>2 DEF CallFree
  <2>0. first \in Page /\ first \in Nat /\ first - Base[k] \in Nat /\ Run(first, n) \subseteq held[t]
    BY <1>0 DEF PoolTypeOK, page_from_pool
  <2>1. PoolTypeOK' /\ PcOK' /\ Others(t)
    BY <1>0, <2>0 DEF PoolTypeOK, PcOK, PoolPC, Others
  <2>2. LockInv'
    BY <1>0 DEF LockInv, Inside, PoolTypeOK, PcOK
  <2>3. /\ pc'[t] = "free" /\ off'[t] = 0 /\ pages'[t] = first /\ cnt'[t] = n /\ pool'[t] = k
        /\ idx'[t] = first - Base[k] /\ held'[t] = held[t] \ Run(first, n)
    BY <1>0 DEF PoolTypeOK, PcOK
  <2>4. LoopOK(t)' /\ ClearOK(t)'
    BY <2>0, <2>3 DEF LoopOK, ClearOK, PageAt, page_from_pool
  <2>5. InTransit(t)' = Run(first, n)
    BY <2>0, <2>3 DEF InTransit, Run, PageAt
  <2> QED
    BY <1>0, <2>0, <2>1, <2>2, <2>3, <2>4, <2>5, QuietStep DEF PoolInv, Owned
<1> QED
  BY <1>1, <1>2

(* The lock is free when it is taken: nobody else is inside its pool. *)
LEMMA GetLockStep ==
  ASSUME PoolInv, NEW t \in Thread, GetLock(t)
  PROVE  PoolInv'
<1> USE PoolAssumption DEF Goto, GetLock, frame
<1>0. PoolTypeOK /\ PcOK /\ LockInv /\ LoopOK(t)
  BY DEF PoolInv, LoopInv
<1>1. PoolTypeOK' /\ PcOK' /\ Others(t)
  BY <1>0 DEF PoolTypeOK, PcOK, PoolPC, Others
<1>2. LockInv'
  BY <1>0 DEF LockInv, Inside, PoolTypeOK, PcOK
<1>3. /\ off[t] = 0 /\ pages[t] = NULL
      /\ (pc'[t] = "scan" /\ cnt[t] <= Size[pool[t]]) \/ pc'[t] = "get_unlock"
      /\ cnt[t] \in Nat \ {0}
  BY <1>0 DEF LoopOK, PoolTypeOK, PcOK
<1>4. InTransit(t) = {} /\ InTransit(t)' = {}
  BY <1>3 DEF InTransit
<1>5. ClearOK(t)'
  BY <1>3 DEF ClearOK
<1>6. idx[t] = 0
  BY <1>0 DEF LoopOK
<1>7. LoopOK(t)'
  BY <1>3, <1>6 DEF LoopOK
<1> QED
  BY <1>0, <1>1, <1>2, <1>4, <1>5, <1>7, QuietStep DEF PoolInv, Owned

LEMMA ScanStep ==
  ASSUME PoolInv, NEW t \in Thread, ScanBit(t)
  PROVE  PoolInv'
<1> USE PoolAssumption DEF Goto, ScanBit
<1>0. PoolTypeOK /\ PcOK /\ LockInv /\ LoopOK(t) /\ ClearOK(t)
  BY DEF PoolInv, LoopInv, ClearInv
<1>1. /\ idx[t] \in Nat /\ off[t] \in Nat /\ cnt[t] \in 1..MaxCnt /\ off[t] < cnt[t]
      /\ idx[t] + cnt[t] <= Size[pool[t]] /\ Size[pool[t]] \in Nat /\ pages[t] = NULL
      /\ PageAt(t, idx[t]) \in Nat
  BY <1>0, SMTT(30) DEF PoolTypeOK, LoopOK, PageAt
<1>2. LockInv' /\ Others(t) /\ PcOK'
  <2>1. Others(t)
    BY <1>0 DEF PoolTypeOK, PcOK, Others
  <2>2. PcOK'
    BY <1>0, SMTT(30) DEF PoolTypeOK, PcOK, PoolPC
  <2>3. pc'[t] \in {"scan", "flip", "get_unlock"} /\ pc[t] = "scan" /\ lock' = lock /\ pool' = pool
    BY <1>0 DEF PcOK
  <2>4. \A u \in Thread : u # t => pc'[u] = pc[u] /\ pool'[u] = pool[u]
    BY <1>0 DEF PcOK
  <2> QED
    BY <1>0, <2>1, <2>2, <2>3, <2>4 DEF LockInv, Inside
<1>3. CASE ~used_map[PageAt(t, idx[t] + off[t])]
  <2>1. /\ idx' = idx /\ pages' = pages /\ held' = held /\ cnt' = cnt /\ pool' = pool
        /\ off'[t] = IF off[t] + 1 = cnt[t] THEN 0 ELSE off[t] + 1
        /\ pc'[t] = IF off[t] + 1 = cnt[t] THEN "flip" ELSE "scan"
    BY <1>3, <1>0 DEF PoolTypeOK, PcOK
  <2>2. off' \in [Thread -> 0..MaxCnt]
    BY <1>0, <1>1, <1>3 DEF PoolTypeOK
  <2>3. PoolTypeOK'
    BY <1>0, <2>1, <2>2 DEF PoolTypeOK
  <2>4. LoopOK(t)'
    BY <2>1, <1>1 DEF LoopOK
  <2>5. ClearOK(t)'
    <3> SUFFICES ASSUME NEW i \in Nat, i < off[t] \/ i = off[t]
                 PROVE  ~used_map[PageAt(t, idx[t] + i)]
      BY <2>1, <1>1 DEF ClearOK, PageAt
    <3> QED
      BY <1>3, <1>0 DEF ClearOK
  <2>6. InTransit(t) = {} /\ InTransit(t)' = {}
    <3>1. Run(PageAt(t, idx[t]), 0) = {}
      BY <1>1, RunFacts
    <3>2. pc'[t] = "flip" => off'[t] = 0 /\ PageAt(t, idx[t])' = PageAt(t, idx[t])
      BY <2>1, SMTT(30) DEF PageAt
    <3> QED
      BY <2>1, <3>1, <3>2 DEF InTransit, Run
  <2> QED
    BY <1>0, <1>2, <2>1, <2>3, <2>4, <2>5, <2>6, QuietStep DEF PoolInv, Owned
<1>4. CASE used_map[PageAt(t, idx[t] + off[t])]
  <2>1. /\ idx'[t] = idx[t] + 1 /\ pages' = pages /\ held' = held /\ cnt' = cnt /\ pool' = pool
        /\ off'[t] = 0
        /\ pc'[t] = IF idx[t] + 1 + cnt[t] <= Size[pool[t]] THEN "scan" ELSE "get_unlock"
    BY <1>4, <1>0 DEF PoolTypeOK, PcOK
  <2>2. PoolTypeOK'
    <3>1. off' = [off EXCEPT ![t] = 0] /\ idx' = [idx EXCEPT ![t] = idx[t] + 1] /\ idx[t] + 1 \in Nat /\ 0 \in 0..MaxCnt
      BY <1>0, <1>1, <1>4 DEF PoolTypeOK
    <3>2. off' \in [Thread -> 0..MaxCnt] /\ idx' \in [Thread -> Nat]
      BY <1>0, <3>1 DEF PoolTypeOK
    <3>3. UNCHANGED <<used_map, lock, content, held, pool, cnt, pages>>
      OBVIOUS
    <3> QED
      BY <1>0, <3>2, <3>3, Zenon DEF PoolTypeOK
  <2>3. LoopOK(t)' /\ ClearOK(t)'
    BY <2>1, <1>1 DEF LoopOK, ClearOK
  <2>4. InTransit(t) = {} /\ InTransit(t)' = {}
    BY <2>1, <1>1, ZenonT(30) DEF InTransit
  <2> QED
    BY <1>0, <1>2, <2>1, <2>2, <2>3, <2>4, QuietStep DEF PoolInv, Owned
<1> QED
  BY <1>3, <1>4

LEMMA FreeAssertStep ==
  ASSUME PoolInv, NEW t \in Thread, FreeAssert(t)
  PROVE  PoolInv'
<1> USE PoolAssumption DEF Goto, FreeAssert, frame
<1>0. PoolTypeOK /\ PcOK /\ LockInv /\ LoopOK(t) /\ held[t] \cap InTransit(t) = {}
  BY DEF PoolInv, LoopInv, HeldApart
<1>1. PoolTypeOK' /\ PcOK' /\ Others(t) /\ pc'[t] = "clear"
  BY <1>0 DEF PoolTypeOK, PcOK, PoolPC, Others
<1>2. LockInv'
  BY <1>0, SMTT(30) DEF LockInv, Inside, PoolTypeOK, PcOK
<1>3. LoopOK(t)' /\ ClearOK(t)'
  BY <1>0, <1>1 DEF LoopOK, ClearOK, PageAt
<1>4. InTransit(t)' = InTransit(t)
  BY <1>1, SMTT(30) DEF InTransit, Run, PageAt
<1> QED
  BY <1>0, <1>1, <1>2, <1>3, <1>4, QuietStep, SMTT(30) DEF PoolInv, Owned

LEMMA ReturnStep ==
  ASSUME PoolInv, NEW t \in Thread, GetReturn(t, "idle", NULL)
  PROVE  PoolInv'
<1> USE PoolAssumption, PageNat DEF Goto, GetReturn, Leave
<1>0. PoolTypeOK /\ PcOK /\ LockInv
  BY DEF PoolInv
<1>1. PoolTypeOK' /\ PcOK' /\ Others(t) /\ pc'[t] = "idle"
  <2>1. held' \in [Thread -> SUBSET Page] /\ content' \in [Page -> Thread \cup {NULL}]
    <3>1. Run(pages[t], cnt[t]) \subseteq Page
      BY DEF Run
    <3>2. /\ held \in [Thread -> SUBSET Page] /\ content \in [Page -> Thread \cup {NULL}]
          /\ \/ held' = held /\ content' = content
             \/ /\ held' = [held EXCEPT ![t] = @ \cup Run(pages[t], cnt[t])]
                /\ content' = [p \in Page |-> IF p \in Run(pages[t], cnt[t]) THEN t ELSE content[p]]
      BY <1>0, Zenon DEF PoolTypeOK
    <3> HIDE DEF GetReturn
    <3> QED
      BY <3>1, <3>2
  <2>2. PoolTypeOK'
    BY <1>0, <2>1 DEF PoolTypeOK
  <2>3. PcOK' /\ pc'[t] = "idle" /\ Others(t)
    BY <1>0 DEF PoolTypeOK, PcOK, PoolPC, Others
  <2> QED
    BY <2>2, <2>3
<1>2. LockInv'
  BY <1>0 DEF LockInv, Inside, PoolTypeOK, PcOK
<1>3. LoopOK(t)' /\ ClearOK(t)' /\ InTransit(t)' = {}
  BY <1>1 DEF LoopOK, ClearOK, InTransit
<1>4. held'[t] = held[t] \cup InTransit(t)
  BY <1>0 DEF InTransit, Run, PoolTypeOK
<1> QED
  BY <1>0, <1>1, <1>2, <1>3, <1>4, QuietStep DEF PoolInv, Owned

(* A bit is set by the holder of the pool's lock: the page had no owner. *)
LEMMA FlipStep ==
  ASSUME PoolInv, NEW t \in Thread, FlipBit(t)
  PROVE  PoolInv'
<1> USE PoolAssumption, PageNat DEF Goto, FlipBit
<1> DEFINE new == PageAt(t, idx[t] + off[t])
<1>0. PoolTypeOK /\ PcOK /\ LockInv /\ LoopOK(t) /\ ClearOK(t) /\ HeldApart
  BY DEF PoolInv, LoopInv, ClearInv
<1>1. /\ idx[t] \in Nat /\ off[t] \in Nat /\ cnt[t] \in 1..MaxCnt /\ pool[t] \in Pool
      /\ off[t] < cnt[t] /\ idx[t] + cnt[t] <= Size[pool[t]] /\ pages[t] = NULL
      /\ Base[pool[t]] \in Nat /\ Size[pool[t]] \in Nat
  BY <1>0, SMTT(30) DEF PoolTypeOK, LoopOK
<1>2. new \in Page /\ ~used_map[new] /\ PageAt(t, idx[t]) \in Page
  <2>1. \A i \in Nat : i < Size[pool[t]] => PageAt(t, i) \in Page
    BY <1>1, PageInPool DEF PageAt
  <2> QED
    BY <1>0, <1>1, <2>1 DEF ClearOK
<1>3. /\ off'[t] = off[t] + 1 /\ used_map' = [used_map EXCEPT ![new] = TRUE]
      /\ held' = held /\ idx' = idx /\ cnt' = cnt /\ pool' = pool
      /\ \/ off[t] + 1 < cnt[t] /\ pc'[t] = "flip" /\ pages'[t] = NULL
         \/ off[t] + 1 = cnt[t] /\ pc'[t] = "get_unlock" /\ pages'[t] = PageAt(t, idx[t])
  BY <1>0, <1>1, SMTT(30) DEF PoolTypeOK, PcOK
<1>4. PoolTypeOK' /\ PcOK' /\ Others(t)
  <2>1. off' \in [Thread -> 0..MaxCnt] /\ pages' \in [Thread -> Page \cup {NULL}]
    BY <1>0, <1>1, <1>2 DEF PoolTypeOK
  <2>2. PcOK' /\ Others(t)
    BY <1>0, Zenon DEF PoolTypeOK, PcOK, PoolPC, Others
  <2>3. used_map' \in [Page -> BOOLEAN]
    BY <1>0, <1>3, Zenon DEF PoolTypeOK
  <2> QED
    BY <1>0, <2>1, <2>2, <2>3 DEF PoolTypeOK
<1>5. LockInv'
  BY <1>0 DEF LockInv, Inside, PoolTypeOK, PcOK
<1>6. LoopOK(t)'
  BY <1>1, <1>2, <1>3, Zenon DEF LoopOK, PageAt
<1>7. LoopInv'
  BY <1>6, <1>4, OthersSame DEF LoopInv
<1>8. ClearOK(t)'
  <2> SUFFICES ASSUME NEW i \in Nat, off[t] + 1 <= i, i < cnt[t]
               PROVE  ~used_map'[PageAt(t, idx[t] + i)]
    BY <1>1, <1>3 DEF ClearOK, PageAt
  <2>1. ~used_map[PageAt(t, idx[t] + i)] /\ PageAt(t, idx[t] + i) # new
    BY <1>0, <1>1, SMTT(30) DEF ClearOK, PageAt
  <2> QED
    BY <2>1, <1>3
<1>9. ASSUME NEW u \in Thread, u # t PROVE ClearOK(u)'
  <2> SUFFICES ASSUME NEW i \in Nat,
                      \/ pc[u] = "scan" /\ i < off[u]
                      \/ pc[u] = "flip" /\ off[u] <= i /\ i < cnt[u]
               PROVE  ~used_map'[PageAt(u, idx[u] + i)]
    BY <1>4, <1>9 DEF ClearOK, PageAt, Others
  <2>1. ~used_map[PageAt(u, idx[u] + i)]
    BY DEF PoolInv, ClearInv, ClearOK
  <2>2. pool[u] # pool[t]
    BY <1>0, <1>9, SMTT(30) DEF LockInv, Inside
  <2>3. idx[u] + i < Size[pool[u]] /\ pool[u] \in Pool /\ idx[u] + i \in Nat
    BY <1>0 DEF PoolInv, LoopInv, LoopOK, PoolTypeOK
  <2>4. \A l \in Pool, j \in Nat : j < Size[l] /\ Base[l] + j = new => l = pool[t]
    BY <1>1, PageInPool DEF PageAt
  <2>5. PageAt(u, idx[u] + i) # new
    BY <2>2, <2>3, <2>4 DEF PageAt
  <2> QED
    BY <2>1, <2>5, <1>3
<1>10. ClearInv'
  BY <1>8, <1>9 DEF ClearInv
<1>11. InTransit(t)' = InTransit(t) \cup {new}
  <2>1. InTransit(t)' = Run(PageAt(t, idx[t]), off[t] + 1)
    BY <1>1, <1>2, <1>3 DEF InTransit, Run, PageAt
  <2>2. InTransit(t) = Run(PageAt(t, idx[t]), off[t])
    BY DEF InTransit, Run
  <2> QED
    <3>1. new = PageAt(t, idx[t]) + off[t] /\ PageAt(t, idx[t]) \in Nat
      BY <1>1 DEF PageAt
    <3> HIDE DEF new
    <3> QED
      BY <1>1, <1>2, <2>1, <2>2, <3>1, RunFacts, ZenonT(60)
<1>12. \A u \in Thread : new \notin Owned(u)
  BY <1>2, Zenon DEF PoolInv, PagesAccounted
<1>13. \A u \in Thread \ {t} : Owned(u)' = Owned(u) /\ (held[u] \cap InTransit(u) = {})'
  BY <1>4, OthersSame
<1>14. Owned(t)' = Owned(t) \cup {new} /\ (held[t] \cap InTransit(t) = {})'
  BY <1>0, <1>3, <1>11, <1>12, Zenon DEF Owned, HeldApart
<1>15. HeldApart' /\ PagesExclusive'
  BY <1>12, <1>13, <1>14, SMTT(30) DEF HeldApart, PagesExclusive, PoolInv
<1>16. PagesAccounted'
  <2> SUFFICES ASSUME NEW p \in Page
               PROVE  used_map'[p] <=> \E u \in Thread : p \in Owned(u)'
    BY DEF PagesAccounted
  <2>1. used_map[p] <=> \E u \in Thread : p \in Owned(u)
    BY DEF PoolInv, PagesAccounted
  <2>2. used_map'[p] <=> used_map[p] \/ p = new
    BY <1>0, <1>2, <1>3 DEF PoolTypeOK
  <2> QED
    BY <2>1, <2>2, <1>13, <1>14
<1> QED
  BY <1>4, <1>5, <1>7, <1>10, <1>15, <1>16 DEF PoolInv

(* A bit is cleared by the owner of the page, who then owns it no more. *)
LEMMA ClearStep ==
  ASSUME PoolInv, NEW t \in Thread, ClearBit(t, "idle")
  PROVE  PoolInv'
<1> USE PoolAssumption, PageNat DEF Goto, ClearBit, Leave
<1> DEFINE gone == PageAt(t, idx[t] + off[t])
<1>0. PoolTypeOK /\ PcOK /\ LockInv /\ LoopOK(t) /\ HeldApart
  BY DEF PoolInv, LoopInv
<1>1. /\ idx[t] \in Nat /\ off[t] \in Nat /\ cnt[t] \in 1..MaxCnt /\ pool[t] \in Pool
      /\ off[t] < cnt[t] /\ idx[t] + cnt[t] <= Size[pool[t]]
      /\ Base[pool[t]] \in Nat /\ Size[pool[t]] \in Nat /\ pages[t] = PageAt(t, idx[t])
  BY <1>0 DEF PoolTypeOK, LoopOK
<1>2. gone \in Page /\ gone \in Nat
  BY <1>1, PageInPool DEF PageAt
<1>3. /\ used_map' = [used_map EXCEPT ![gone] = FALSE] /\ held' = held /\ pool' = pool
      /\ \/ /\ off[t] + 1 < cnt[t] /\ pc'[t] = "clear" /\ off'[t] = off[t] + 1
            /\ idx'[t] = idx[t] /\ cnt'[t] = cnt[t] /\ pages'[t] = pages[t]
         \/ off[t] + 1 = cnt[t] /\ pc'[t] = "idle"
  <2>1. CASE off[t] + 1 = cnt[t]
    BY <2>1, <1>0 DEF PcOK
  <2>2. CASE off[t] + 1 # cnt[t]
    BY <2>2, <1>0, <1>1 DEF PoolTypeOK, PcOK
  <2> QED
    BY <2>1, <2>2, Zenon
<1>4. PoolTypeOK' /\ PcOK' /\ Others(t)
  <2>1. /\ off' \in [Thread -> 0..MaxCnt] /\ cnt' \in [Thread -> 1..MaxCnt]
        /\ idx' \in [Thread -> Nat] /\ pages' \in [Thread -> Page \cup {NULL}] /\ PcOK'
    <3>1. CASE off[t] + 1 = cnt[t]
      <4>1. /\ off' = [off EXCEPT ![t] = 0] /\ cnt' = [cnt EXCEPT ![t] = 1]
            /\ idx' = [idx EXCEPT ![t] = 0] /\ pages' = [pages EXCEPT ![t] = NULL]
            /\ pc' = [pc EXCEPT ![t] = "idle"] /\ 0 \in 0..MaxCnt /\ 1 \in 1..MaxCnt
        BY <3>1
      <4> QED
        BY <1>0, <4>1 DEF PoolTypeOK, PcOK, PoolPC
    <3>2. CASE off[t] + 1 # cnt[t]
      BY <3>2, <1>0, <1>1 DEF PoolTypeOK, PcOK
    <3> QED
      BY <3>1, <3>2
  <2>2. Others(t)
    BY <1>0 DEF PoolTypeOK, PcOK, Others
  <2> QED
    BY <1>0, <1>3, <2>1, <2>2, ZenonT(30) DEF PoolTypeOK
<1>5. LockInv'
  BY <1>0, Zenon DEF LockInv, Inside, PoolTypeOK, PcOK
<1>6. LoopOK(t)' /\ ClearOK(t)'
  BY <1>1, <1>3 DEF LoopOK, ClearOK, PageAt
<1>7. \A p \in Page : used_map'[p] => used_map[p]
  BY <1>0, <1>3, ZenonT(30) DEF PoolTypeOK
<1>8. LoopInv' /\ ClearInv'
  BY <1>4, <1>6, <1>7, OthersSame DEF LoopInv, ClearInv
<1>9. gone \in InTransit(t) /\ InTransit(t)' = InTransit(t) \ {gone}
  <2>1. InTransit(t) = Run(gone, cnt[t] - off[t])
    BY DEF InTransit, Run
  <2>2. InTransit(t)' = Run(gone + 1, cnt[t] - off[t] - 1)
    <3>1. CASE pc'[t] = "idle"
      <4>1. cnt[t] - off[t] - 1 = 0 /\ gone + 1 \in Nat
        BY <3>1, <1>1, <1>2, <1>3
      <4> QED
        BY <3>1, <4>1, RunFacts, Zenon DEF InTransit
    <3>2. CASE pc'[t] = "clear"
      <4>1. PageAt(t, idx[t] + off[t])' = gone + 1 /\ cnt'[t] - off'[t] = cnt[t] - off[t] - 1
        BY <3>2, <1>1, <1>3 DEF PageAt
      <4> QED
        BY <3>2, <4>1, SMTT(30) DEF InTransit, Run
    <3> QED
      BY <1>3, <3>1, <3>2
  <2> HIDE DEF gone
  <2>3. cnt[t] - off[t] - 1 \in Nat /\ cnt[t] - off[t] = (cnt[t] - off[t] - 1) + 1
    BY <1>1
  <2>4. /\ Run(gone, cnt[t] - off[t]) = Run(gone + 1, cnt[t] - off[t] - 1) \cup {gone}
        /\ gone \notin Run(gone + 1, cnt[t] - off[t] - 1)
    BY <1>2, <2>3, RunFacts, SMTT(30)
  <2> QED
    BY <2>1, <2>2, <2>4
<1>10. \A u \in Thread \ {t} : Owned(u)' = Owned(u) /\ (held[u] \cap InTransit(u) = {})'
  BY <1>4, OthersSame
<1>11. Owned(t)' = Owned(t) \ {gone} /\ (held[t] \cap InTransit(t) = {})'
  BY <1>0, <1>3, <1>9, Zenon DEF Owned, HeldApart
<1>12. HeldApart' /\ PagesExclusive'
  BY <1>10, <1>11 DEF HeldApart, PagesExclusive, PoolInv
<1>13. PagesAccounted'
  <2> SUFFICES ASSUME NEW p \in Page
               PROVE  used_map'[p] <=> \E u \in Thread : p \in Owned(u)'
    BY DEF PagesAccounted
  <2>1. used_map[p] <=> \E u \in Thread : p \in Owned(u)
    BY DEF PoolInv, PagesAccounted
  <2>2. used_map'[p] <=> used_map[p] /\ p # gone
    BY <1>0, <1>2, <1>3 DEF PoolTypeOK
  <2>3. \A u \in Thread \ {t} : gone \notin Owned(u)
    BY <1>9 DEF PoolInv, PagesExclusive, Owned
  <2> QED
    BY <2>1, <2>2, <2>3, <1>10, <1>11
<1> QED
  BY <1>4, <1>5, <1>8, <1>12, <1>13 DEF PoolInv

LEMMA PoolInvNext == PoolInv /\ [PoolNext]_pvars => PoolInv'
<1> SUFFICES ASSUME PoolInv, [PoolNext]_pvars PROVE PoolInv'
  OBVIOUS
<1>1. CASE PoolNext
  <2>1. PICK t \in Thread : PoolStep(t, "idle", NULL) \/ (pc[t] = "idle" /\ PoolCall(t))
    BY <1>1 DEF PoolNext
  <2>2. CASE PoolStep(t, "idle", NULL)
    BY <2>2, GetLockStep, ScanStep, FlipStep, ReturnStep, FreeAssertStep, ClearStep DEF PoolStep
  <2>3. CASE pc[t] = "idle" /\ PoolCall(t)
    BY <2>3, CallSteps DEF PoolCall
  <2> QED
    BY <2>1, <2>2, <2>3
<1>2. CASE UNCHANGED pvars
  <2> USE <1>2 DEF pvars, frame, PoolInv
  <2>1. PoolTypeOK' /\ PcOK' /\ LockInv'
    BY Zenon DEF PoolTypeOK, PcOK, LockInv, Inside
  <2>2. LoopInv' /\ ClearInv'
    BY Zenon DEF LoopInv, LoopOK, ClearInv, ClearOK, PageAt
  <2>3. \A t \in Thread : InTransit(t)' = InTransit(t)
    BY ZenonT(30) DEF InTransit, Run, PageAt
  <2>4. HeldApart' /\ PagesExclusive' /\ PagesAccounted'
    BY <2>3 DEF HeldApart, PagesExclusive, PagesAccounted, Owned
  <2> QED
    BY <2>1, <2>2, <2>4
<1> QED
  BY <1>1, <1>2

(***************************************************************************)
(* palloc_get_multiple never hands out a page that somebody owns, and no   *)
(* page is lost, however the calls of any number of threads interleave and *)
(* although palloc_free_multiple takes no lock.                            *)
(***************************************************************************)
THEOREM PagesOwnedOnce == PoolSpec => [](PagesExclusive /\ PagesAccounted)
<1>1. PoolInv => PagesExclusive /\ PagesAccounted
  BY DEF PoolInv
<1> QED
  BY <1>1, PoolInvInit, PoolInvNext, PTL DEF PoolSpec

(* The assert of palloc_free_multiple holds whenever it is reached. *)
THEOREM FreeAssertNeverFails == PoolSpec => []FreeAssertHolds
<1>1. PoolInv => FreeAssertHolds
  <2> SUFFICES ASSUME PoolInv, NEW t \in Thread, pc[t] = "free", NEW p \in Run(pages[t], cnt[t])
               PROVE  used_map[p]
    BY DEF FreeAssertHolds
  <2>1. off[t] = 0 /\ pages[t] = PageAt(t, idx[t]) /\ idx[t] \in Nat /\ cnt[t] \in Nat
    BY DEF PoolInv, LoopInv, LoopOK, PoolTypeOK
  <2>2. p \in Page /\ p \in InTransit(t)
    BY <2>1 DEF InTransit, Run, PageAt
  <2> QED
    BY <2>2 DEF PoolInv, PagesAccounted, Owned
<1> QED
  BY <1>1, PoolInvInit, PoolInvNext, PTL DEF PoolSpec

(***************************************************************************)
(* The memset of a free hits only pages of the caller: what a thread wrote *)
(* in its pages stays.                                                     *)
(***************************************************************************)
THEOREM ContentsNeverLost == PoolSpec => []ContentsKept
<1>1. PoolInit => ContentsKept
  BY DEF PoolInit, ContentsKept
<1>2. PoolInv /\ ContentsKept /\ [PoolNext]_pvars => ContentsKept'
  <2> SUFFICES ASSUME PoolInv, ContentsKept, [PoolNext]_pvars,
                      NEW u \in Thread, NEW p \in held'[u]
               PROVE  content'[p] = u
    BY DEF ContentsKept
  <2>0. /\ p \in held[u] => content[p] = u
        /\ \A t \in Thread : t # u => Owned(t) \cap Owned(u) = {}
        /\ content \in [Page -> Thread \cup {NULL}] /\ held \in [Thread -> SUBSET Page]
    BY DEF ContentsKept, PoolInv, PagesExclusive, PoolTypeOK
  <2>1. CASE UNCHANGED <<content, held>>
    BY <2>0, <2>1
  <2>2. ASSUME NEW t \in Thread, GetReturn(t, "idle", NULL), pages[t] # NULL
        PROVE  content'[p] = u
    <3>1. Run(pages[t], cnt[t]) \subseteq Owned(t)
      BY <2>2, Zenon DEF GetReturn, Owned, InTransit, Run
    <3>2. held' = [held EXCEPT ![t] = @ \cup Run(pages[t], cnt[t])]
          /\ content' = [q \in Page |-> IF q \in Run(pages[t], cnt[t]) THEN t ELSE content[q]]
      BY <2>2 DEF GetReturn
    <3>3. p \in Page
      BY <3>2, <2>0 DEF Run
    <3>4. CASE p \in Run(pages[t], cnt[t])
      BY <3>1, <3>2, <3>3, <3>4, <2>0 DEF Owned
    <3>5. CASE p \notin Run(pages[t], cnt[t])
      BY <3>2, <3>3, <3>5, <2>0
    <3> QED
      BY <3>4, <3>5
  <2>3. ASSUME NEW t \in Thread, NEW k \in Pool, NEW n \in 1..MaxCnt, NEW first \in held[t],
               CallFree(t, k, first, n)
        PROVE  content'[p] = u
    <3>1. /\ Run(first, n) \subseteq held[t] /\ held' = [held EXCEPT ![t] = @ \ Run(first, n)]
          /\ content' = [q \in Page |-> IF q \in Run(first, n) THEN NULL ELSE content[q]]
      BY <2>3 DEF CallFree
    <3>2. p \in held[u] /\ p \in Page
      BY <3>1, <2>0
    <3>3. p \notin Run(first, n)
      BY <3>1, <3>2, <2>0 DEF Owned
    <3> QED
      BY <3>1, <3>2, <3>3, <2>0
  <2>4. CASE PoolNext
    <3>1. PICK t \in Thread : PoolStep(t, "idle", NULL) \/ (pc[t] = "idle" /\ PoolCall(t))
      BY <2>4, Zenon DEF PoolNext
    <3>2. CASE PoolStep(t, "idle", NULL)
      BY <3>2, <2>1, <2>2, Zenon DEF PoolStep, GetLock, ScanBit, FlipBit, GetReturn, FreeAssert, ClearBit
    <3>3. CASE PoolCall(t)
      BY <3>3, <2>1, <2>3 DEF PoolCall, CallGet
    <3> QED
      BY <3>1, <3>2, <3>3
  <2> QED
    BY <2>1, <2>4 DEF pvars
<1> QED
  BY <1>1, <1>2, PoolInvInit, PoolInvNext, PTL DEF PoolSpec

(***************************************************************************)
(* The pools are sound under any interleaving of palloc_get_multiple and   *)
(* palloc_free_multiple, although the latter clears the bitmap without the *)
(* pool's lock.                                                            *)
(***************************************************************************)
THEOREM PoolsSound == PoolSpec => []PoolSound
<1>1. PagesExclusive /\ FreeAssertHolds /\ ContentsKept => PoolSound
  BY DEF PoolSound
<1> QED
  BY <1>1, PagesOwnedOnce, FreeAssertNeverFails, ContentsNeverLost, PTL
-----------------------------------------------------------------------------
CowType ==
  /\ parent \in [Family -> Family]
  /\ page_frame \in [Family -> [PageVa -> FrameKva \cup {NoFrame}]]
  /\ entry \in [Family -> [PageVa -> {"none", "ro", "rw"}]]
  /\ r_cnt \in [FrameKva -> Int]
  /\ free_frames \subseteq FrameKva

(* A page has a frame exactly when it has an entry in the page table. *)
Mapped == \A p \in Family, v \in PageVa : entry[p][v] = "none" <=> page_frame[p][v] = NoFrame

CowInv == CowType /\ Mapped /\ SharingCounted

(* The pages that use a frame when one page changes its frame. *)
LEMMA UsersChange ==
  ASSUME CowType, NEW p \in Family, NEW v \in PageVa, NEW x \in FrameKva \cup {NoFrame},
         page_frame' = Set2(page_frame, p, v, x)
  PROVE  /\ page_frame' \in [Family -> [PageVa -> FrameKva \cup {NoFrame}]]
         /\ Users(x)' = Users(x) \cup {<<p, v>>}
         /\ \A f \in FrameKva \ {x} : Users(f)' = Users(f) \ {<<p, v>>}
<1>1. \A q \in Family, w \in PageVa : page_frame'[q][w] = IF q = p /\ w = v THEN x ELSE page_frame[q][w]
  BY DEF Set2, CowType
<1>2. page_frame' \in [Family -> [PageVa -> FrameKva \cup {NoFrame}]]
  BY DEF Set2, CowType
<1>3. \A f \in FrameKva \cup {NoFrame}, q \in Family, w \in PageVa :
        <<q, w>> \in Users(f)' <=> IF q = p /\ w = v THEN x = f ELSE <<q, w>> \in Users(f)
  BY <1>1 DEF Users
<1>4. \A f \in FrameKva \cup {NoFrame} :
        /\ \A pv \in Users(f) : pv = <<pv[1], pv[2]>> /\ pv[1] \in Family /\ pv[2] \in PageVa
        /\ \A pv \in Users(f)' : pv = <<pv[1], pv[2]>> /\ pv[1] \in Family /\ pv[2] \in PageVa
  BY DEF Users
<1>5. Users(x)' = Users(x) \cup {<<p, v>>}
  BY <1>3, <1>4
<1>6. ASSUME NEW f \in FrameKva \ {x} PROVE Users(f)' = Users(f) \ {<<p, v>>}
  BY <1>3, <1>4, <1>6
<1> QED
  BY <1>2, <1>5, <1>6

LEMMA UsersFinite ==
  ASSUME NEW f PROVE IsFiniteSet(Users(f)) /\ Cardinality(Users(f)) \in Nat
<1>1. IsFiniteSet(Family \X PageVa)
  BY CowAssumption, FS_Product
<1> QED
  BY <1>1, FS_Subset, FS_CardinalityType DEF Users

(* Nobody uses a frame whose count is zero. *)
LEMMA Unused ==
  ASSUME CowInv, NEW f \in free_frames PROVE f \in FrameKva /\ Users(f) = {}
<1>1. f \in FrameKva /\ Cardinality(Users(f)) = 0
  BY DEF CowInv, CowType, SharingCounted
<1> QED
  BY <1>1, UsersFinite, FS_EmptySet

LEMMA CowInitial == CowInit => CowInv
<1> SUFFICES ASSUME CowInit PROVE CowInv
  OBVIOUS
<1>1. CowType /\ Mapped
  BY CowAssumption DEF CowInit, CowType, Mapped, EachPage
<1>2. \A f \in FrameKva : Users(f) = {}
  BY CowAssumption DEF CowInit, EachPage, Users
<1> QED
  BY <1>1, <1>2, FS_EmptySet DEF CowInv, SharingCounted, CowInit

(* A page gets the free frame f as its own: a first access, or a copy of old. *)
LEMMA TakeStep ==
  ASSUME CowInv, NEW p \in Family, NEW v \in PageVa, NEW f \in free_frames,
         free_frames' = free_frames \ {f}, parent' = parent,
         page_frame' = Set2(page_frame, p, v, f), entry' = Set2(entry, p, v, "rw"),
         LET old == page_frame[p][v]
         IN  \/ old = NoFrame /\ r_cnt' = [r_cnt EXCEPT ![f] = 1]
             \/ old # NoFrame /\ r_cnt' = [r_cnt EXCEPT ![old] = @ - 1, ![f] = 1]
  PROVE  CowInv'
<1> DEFINE old == page_frame[p][v]
<1>0. CowType /\ Mapped /\ f \in FrameKva /\ Users(f) = {} /\ f # NoFrame /\ SharingCounted
  BY Unused, CowAssumption DEF CowInv
<1>1. /\ page_frame' \in [Family -> [PageVa -> FrameKva \cup {NoFrame}]]
      /\ Users(f)' = {<<p, v>>}
      /\ \A g \in FrameKva \ {f} : Users(g)' = Users(g) \ {<<p, v>>}
  BY <1>0, UsersChange
<1>2. /\ entry' \in [Family -> [PageVa -> {"none", "ro", "rw"}]]
      /\ \A q \in Family, w \in PageVa : entry'[q][w] = IF q = p /\ w = v THEN "rw" ELSE entry[q][w]
      /\ \A q \in Family, w \in PageVa : page_frame'[q][w] = IF q = p /\ w = v THEN f ELSE page_frame[q][w]
  BY <1>0 DEF CowType, Set2
<1>3. old \in FrameKva \cup {NoFrame} /\ old # f /\ <<p, v>> \in Users(old)
  BY <1>0 DEF CowType, Users
<1>4. /\ r_cnt' \in [FrameKva -> Int] /\ r_cnt'[f] = 1
      /\ \A g \in FrameKva \ {f} : r_cnt'[g] = IF g = old THEN r_cnt[g] - 1 ELSE r_cnt[g]
  <2>1. r_cnt \in [FrameKva -> Int]
    BY <1>0, SMTT(30) DEF CowType
  <2>2. CASE old = NoFrame /\ r_cnt' = [r_cnt EXCEPT ![f] = 1]
    BY <2>1, <2>2, <1>0, CowAssumption, SMTT(30)
  <2>3. CASE old # NoFrame /\ r_cnt' = [r_cnt EXCEPT ![old] = @ - 1, ![f] = 1]
    <3>1. old \in FrameKva
      BY <2>3, <1>3
    <3> HIDE DEF old
    <3> QED
      BY <2>1, <2>3, <3>1, <1>0, <1>3, SMTT(30)
  <2> QED
    BY <2>2, <2>3, Zenon
<1>5. CowType' /\ Mapped'
  <2>1. CowType'
    BY <1>0, <1>1, <1>2, <1>4, SMTT(30) DEF CowType
  <2>2. Mapped'
    BY <1>0, <1>2, SMTT(30) DEF Mapped
  <2> QED
    BY <2>1, <2>2
<1>6. ASSUME NEW g \in FrameKva
      PROVE  /\ r_cnt'[g] = Cardinality(Users(g)')
             /\ g \in free_frames' => r_cnt'[g] = 0
             /\ \A a, b \in Users(g)' : entry'[a[1]][a[2]] = "rw" /\ entry'[b[1]][b[2]] = "rw" => a = b
  <2>1. CASE g = f
    BY <2>1, <1>1, <1>4, FS_Singleton, Zenon
  <2>2. CASE g # f
    <3>1. Users(g)' = Users(g) \ {<<p, v>>} /\ r_cnt[g] = Cardinality(Users(g))
      BY <1>1, <1>0, <2>2, <1>6, Zenon DEF SharingCounted
    <3>2. <<p, v>> \in Users(g) <=> g = old
      BY <1>3 DEF Users
    <3>3. r_cnt'[g] = Cardinality(Users(g)')
      <4>1. CASE g = old
        <5>1. Cardinality(Users(g) \ {<<p, v>>}) = Cardinality(Users(g)) - 1
          BY <4>1, <3>2, UsersFinite, FS_RemoveElement, Zenon
        <5> QED
          BY <5>1, <4>1, <3>1, <1>4, <2>2
      <4>2. CASE g # old
        <5>1. Users(g)' = Users(g)
          BY <3>1, <3>2, <4>2, Zenon
        <5> QED
          BY <5>1, <3>1, <1>4, <2>2, <4>2
      <4> QED
        BY <4>1, <4>2, Zenon
    <3>4. g \in free_frames' => r_cnt'[g] = 0
      <4> SUFFICES ASSUME g \in free_frames PROVE r_cnt'[g] = 0
        BY <2>2
      <4>1. g # old
        BY <3>2, Unused, Zenon
      <4> QED
        BY <4>1, <1>0, <1>4, <2>2 DEF SharingCounted
    <3>5. ASSUME NEW a \in Users(g)', NEW b \in Users(g)', entry'[a[1]][a[2]] = "rw", entry'[b[1]][b[2]] = "rw"
          PROVE  a = b
      <4>1. a \in Users(g) /\ b \in Users(g) /\ a # <<p, v>> /\ b # <<p, v>>
        BY <3>1, <3>5, Zenon
      <4>2. entry[a[1]][a[2]] = "rw" /\ entry[b[1]][b[2]] = "rw"
        BY <4>1, <1>2, <3>5, SMTT(30) DEF Users
      <4> QED
        BY <4>1, <4>2, <1>0, <1>6, Zenon DEF SharingCounted
    <3> QED
      BY <3>3, <3>4, <3>5, Zenon
  <2> QED
    BY <2>1, <2>2, Zenon
<1>7. SharingCounted'
  BY <1>6 DEF SharingCounted
<1> QED
  BY <1>5, <1>7 DEF CowInv

(* page_table_copy: one more page uses the frame, read-only. *)
LEMMA ShareStep ==
  ASSUME CowInv, NEW c \in Family, NEW v \in PageVa, page_table_copy(c, v)
  PROVE  CowInv'
<1>0. CowType /\ Mapped /\ SharingCounted
  BY DEF CowInv
<1>15. PICK f : f = page_frame[parent[c]][v]
  BY Zenon
<1>1. /\ parent[c] \in Family /\ entry[parent[c]][v] # "none" /\ entry[c][v] = "none"
      /\ page_frame' = Set2(page_frame, c, v, f) /\ entry' = Set2(entry, c, v, "ro")
      /\ r_cnt' = [r_cnt EXCEPT ![f] = @ + 1]
      /\ parent' = parent /\ free_frames' = free_frames
  BY <1>0, <1>15 DEF page_table_copy, ToCopy, CowType
<1>2. f \in FrameKva /\ page_frame[c][v] = NoFrame /\ f # NoFrame /\ <<parent[c], v>> \in Users(f)
  BY <1>0, <1>1, <1>15, SMTT(30) DEF CowType, Mapped, Users
<1>3. /\ page_frame' \in [Family -> [PageVa -> FrameKva \cup {NoFrame}]]
      /\ Users(f)' = Users(f) \cup {<<c, v>>}
      /\ \A g \in FrameKva \ {f} : Users(g)' = Users(g) \ {<<c, v>>}
  BY <1>0, <1>1, <1>2, UsersChange, SMTT(30)
<1>4. \A g \in FrameKva : <<c, v>> \notin Users(g)
  BY <1>2, CowAssumption DEF Users
<1>5. /\ entry' \in [Family -> [PageVa -> {"none", "ro", "rw"}]]
      /\ \A q \in Family, w \in PageVa : entry'[q][w] = IF q = c /\ w = v THEN "ro" ELSE entry[q][w]
      /\ \A q \in Family, w \in PageVa : page_frame'[q][w] = IF q = c /\ w = v THEN f ELSE page_frame[q][w]
  BY <1>0, <1>1 DEF CowType, Set2
<1>6. r_cnt' \in [FrameKva -> Int] /\ r_cnt'[f] = r_cnt[f] + 1 /\ \A g \in FrameKva \ {f} : r_cnt'[g] = r_cnt[g]
  BY <1>0, <1>1, <1>2 DEF CowType
<1>7. CowType'
  BY <1>0, <1>1, <1>3, <1>5, <1>6, ZenonT(30) DEF CowType
<1>8. Mapped'
  BY <1>0, <1>2, <1>5 DEF Mapped
<1>9. ASSUME NEW g \in FrameKva
      PROVE  /\ r_cnt'[g] = Cardinality(Users(g)')
             /\ g \in free_frames' => r_cnt'[g] = 0
             /\ \A a, b \in Users(g)' : entry'[a[1]][a[2]] = "rw" /\ entry'[b[1]][b[2]] = "rw" => a = b
  <2>1. r_cnt'[g] = Cardinality(Users(g)')
    <3>1. CASE g = f
      <4>1. Cardinality(Users(f) \cup {<<c, v>>}) = Cardinality(Users(f)) + 1
        BY <1>2, <1>4, UsersFinite, FS_AddElement, Zenon
      <4> QED
        BY <4>1, <3>1, <1>0, <1>2, <1>3, <1>6, Zenon DEF SharingCounted
    <3>2. CASE g # f
      <4>1. Users(g)' = Users(g)
        <5>1. Users(g)' = Users(g) \ {<<c, v>>}
          BY <3>2, <1>3, <1>9
        <5>2. <<c, v>> \notin Users(g)
          BY <1>4, <1>9
        <5> QED
          BY <5>1, <5>2
      <4> QED
        BY <4>1, <3>2, <1>0, <1>6, <1>9, Zenon DEF SharingCounted
    <3> QED
      BY <3>1, <3>2
  <2>2. g \in free_frames' => r_cnt'[g] = 0
    <3> SUFFICES ASSUME g \in free_frames PROVE r_cnt'[g] = 0
      BY <1>1
    <3>1. g # f
      BY <1>2, Unused, Zenon
    <3> QED
      BY <3>1, <1>0, <1>6, SMTT(30) DEF SharingCounted
  <2>3. ASSUME NEW a \in Users(g)', NEW b \in Users(g)', entry'[a[1]][a[2]] = "rw", entry'[b[1]][b[2]] = "rw"
        PROVE  a = b
    <3>1. a[1] \in Family /\ a[2] \in PageVa /\ b[1] \in Family /\ b[2] \in PageVa
      BY <2>3 DEF Users
    <3>2. entry'[c][v] = "ro"
      BY <1>5
    <3>3. a # <<c, v>> /\ b # <<c, v>>
      BY <2>3, <3>2, SMTT(30)
    <3>4. a \in Users(g) /\ b \in Users(g)
      BY <1>3, <2>3, <3>3
    <3>5. entry[a[1]][a[2]] = "rw" /\ entry[b[1]][b[2]] = "rw"
      BY <1>5, <2>3, <3>1
    <3> QED
      BY <3>4, <3>5, <1>0, <1>9 DEF SharingCounted
  <2> QED
    BY <2>1, <2>2, <2>3, Zenon
<1>10. SharingCounted'
  BY <1>9 DEF SharingCounted
<1> QED
  BY <1>7, <1>8, <1>10 DEF CowInv

(* anon_destroy: one page less uses the frame, and the last one gives it back. *)
LEMMA DropStep ==
  ASSUME CowInv, NEW p \in Family, NEW v \in PageVa, anon_destroy(p, v)
  PROVE  CowInv'
<1> DEFINE f == page_frame[p][v]
<1>0. CowType /\ Mapped /\ SharingCounted
  BY Zenon DEF CowInv
<1>1. /\ entry[p][v] # "none"
      /\ page_frame' = Set2(page_frame, p, v, NoFrame) /\ entry' = Set2(entry, p, v, "none")
      /\ r_cnt' = [r_cnt EXCEPT ![f] = @ - 1]
      /\ parent' = parent /\ free_frames' = IF r_cnt[f] = 1 THEN free_frames \cup {f} ELSE free_frames
  BY Zenon DEF anon_destroy
<1>2. f \in FrameKva /\ f # NoFrame /\ <<p, v>> \in Users(f)
  BY <1>0, <1>1, CowAssumption DEF CowType, Mapped, Users
<1>3. \A g \in FrameKva \ {f} : <<p, v>> \notin Users(g)
  BY DEF Users
<1>4. /\ entry' \in [Family -> [PageVa -> {"none", "ro", "rw"}]]
      /\ \A q \in Family, w \in PageVa : entry'[q][w] = IF q = p /\ w = v THEN "none" ELSE entry[q][w]
      /\ \A q \in Family, w \in PageVa : page_frame'[q][w] = IF q = p /\ w = v THEN NoFrame ELSE page_frame[q][w]
  BY <1>0, <1>1, SMTT(30) DEF CowType, Set2
<1> HIDE DEF f
<1>5. /\ page_frame' \in [Family -> [PageVa -> FrameKva \cup {NoFrame}]]
      /\ \A g \in FrameKva : Users(g)' = Users(g) \ {<<p, v>>}
  BY <1>0, <1>1, UsersChange, CowAssumption, SMTT(30)
<1>6. r_cnt' \in [FrameKva -> Int] /\ r_cnt'[f] = r_cnt[f] - 1 /\ \A g \in FrameKva \ {f} : r_cnt'[g] = r_cnt[g]
  BY <1>0, <1>1, <1>2 DEF CowType
<1>7. CowType'
  BY <1>0, <1>1, <1>2, <1>4, <1>5, <1>6, Zenon DEF CowType
<1>8. Mapped'
  <2>1. ASSUME NEW q \in Family, NEW w \in PageVa, q = p /\ w = v
        PROVE  entry'[q][w] = "none" <=> page_frame'[q][w] = NoFrame
    BY <1>4, <2>1
  <2>2. ASSUME NEW q \in Family, NEW w \in PageVa, ~(q = p /\ w = v)
        PROVE  entry'[q][w] = "none" <=> page_frame'[q][w] = NoFrame
    <3>1. entry'[q][w] = entry[q][w] /\ page_frame'[q][w] = page_frame[q][w]
      BY <1>4, <2>2
    <3>2. entry[q][w] = "none" <=> page_frame[q][w] = NoFrame
      BY <1>0, Zenon DEF Mapped
    <3> QED
      BY <3>1, <3>2
  <2> QED
    BY <2>1, <2>2, Zenon DEF Mapped
<1>9. ASSUME NEW g \in FrameKva
      PROVE  /\ r_cnt'[g] = Cardinality(Users(g)')
             /\ g \in free_frames' => r_cnt'[g] = 0
             /\ \A a, b \in Users(g)' : entry'[a[1]][a[2]] = "rw" /\ entry'[b[1]][b[2]] = "rw" => a = b
  <2>1. r_cnt'[g] = Cardinality(Users(g)')
    <3>1. CASE g = f
      <4>1. Cardinality(Users(f) \ {<<p, v>>}) = Cardinality(Users(f)) - 1
        BY <1>2, UsersFinite, FS_RemoveElement, Zenon
      <4> QED
        BY <4>1, <3>1, <1>0, <1>2, <1>5, <1>6, Zenon DEF SharingCounted
    <3>2. CASE g # f
      <4>1. Users(g)' = Users(g)
        BY <3>2, <1>3, <1>5, Zenon
      <4> QED
        BY <4>1, <3>2, <1>0, <1>6, <1>9 DEF SharingCounted
    <3> QED
      BY <3>1, <3>2
  <2>2. g \in free_frames' => r_cnt'[g] = 0
    <3>1. f \notin free_frames
      BY <1>2, Unused, ZenonT(30)
    <3>2. CASE g = f
      BY <3>1, <3>2, <1>0, <1>1, <1>2, <1>6 DEF CowType
    <3>3. CASE g # f
      BY <3>3, <1>0, <1>1, <1>6, <1>9, Zenon DEF SharingCounted
    <3> QED
      BY <3>2, <3>3
  <2>3. ASSUME NEW a \in Users(g)', NEW b \in Users(g)', entry'[a[1]][a[2]] = "rw", entry'[b[1]][b[2]] = "rw"
        PROVE  a = b
    <3>1. a[1] \in Family /\ a[2] \in PageVa /\ b[1] \in Family /\ b[2] \in PageVa
      BY <2>3 DEF Users
    <3>2. a \in Users(g) /\ b \in Users(g)
      BY <1>5, <2>3
    <3>3. entry[a[1]][a[2]] = "rw" /\ entry[b[1]][b[2]] = "rw"
      BY <1>4, <2>3, <3>1, Zenon
    <3> QED
      BY <3>2, <3>3, <1>0, <1>9 DEF SharingCounted
  <2> QED
    BY <2>1, <2>2, <2>3
<1>10. SharingCounted'
  BY <1>9 DEF SharingCounted
<1> QED
  BY <1>7, <1>8, <1>10 DEF CowInv

LEMMA CowStep == CowInv /\ [CowNext]_cwvars => CowInv'
<1> SUFFICES ASSUME CowInv, [CowNext]_cwvars PROVE CowInv'
  OBVIOUS
<1>1. CASE UNCHANGED <<page_frame, entry, r_cnt, free_frames>> /\ parent' \in [Family -> Family]
  <2>1. \A f \in FrameKva : Users(f)' = Users(f)
    BY <1>1, SMTT(30) DEF Users
  <2>2. SharingCounted'
    BY <1>1, <2>1 DEF CowInv, SharingCounted
  <2> QED
    BY <1>1, <2>2 DEF CowInv, CowType, Mapped
<1>2. ASSUME NEW p \in Family, NEW v \in PageVa, vm_do_claim_page(p, v) \/ vm_handle_wp(p, v) PROVE CowInv'
  <2>1. palloc_get_page \subseteq free_frames
    BY DEF palloc_get_page
  <2>2. entry[p][v] = "none" <=> page_frame[p][v] = NoFrame
    BY DEF CowInv, Mapped
  <2>3. CASE vm_do_claim_page(p, v)
    BY <2>1, <2>2, <2>3, TakeStep, Zenon DEF vm_do_claim_page
  <2>4. CASE vm_handle_wp(p, v)
    <3>1. PICK f \in free_frames :
            /\ free_frames' = free_frames \ {f} /\ parent' = parent
            /\ page_frame' = Set2(page_frame, p, v, f) /\ entry' = Set2(entry, p, v, "rw")
            /\ r_cnt' = [r_cnt EXCEPT ![page_frame[p][v]] = @ - 1, ![f] = 1]
      BY <2>1, <2>4, Zenon DEF vm_handle_wp
    <3>2. page_frame[p][v] # NoFrame
      BY <2>2, <2>4 DEF vm_handle_wp
    <3> QED
      BY <3>1, <3>2, TakeStep, Zenon
  <2> QED
    BY <1>2, <2>3, <2>4
<1>3. ASSUME NEW p \in Family, (\E v \in PageVa : StorePage(p, v)) \/ ForkDone(p) \/ process_exit(p)
                               \/ \E c \in Family : process_fork(p, c)
      PROVE  CowInv'
  <2>1. UNCHANGED <<page_frame, entry, r_cnt, free_frames>> /\ parent' \in [Family -> Family]
    BY <1>3 DEF StorePage, ForkDone, process_exit, process_fork, CowInv, CowType
  <2> QED
    BY <1>1, <2>1
<1>4. CASE UNCHANGED cwvars
  <2>1. UNCHANGED <<page_frame, entry, r_cnt, free_frames>> /\ parent' \in [Family -> Family]
    BY <1>4 DEF cwvars, CowInv, CowType
  <2> QED
    BY <1>1, <2>1
<1> QED
  BY <1>2, <1>3, <1>4, ShareStep, DropStep DEF CowNext

(***************************************************************************)
(* The reference counts of copy on write are right after any forks, write  *)
(* faults and exits: page_table_copy, vm_handle_wp and anon_destroy.  No   *)
(* frame is freed while a page uses it and no two pages can write one.     *)
(***************************************************************************)
THEOREM SharingIsCounted == CowSpec => []SharingCounted
<1>1. CowInv => SharingCounted
  BY DEF CowInv
<1> QED
  BY <1>1, CowInitial, CowStep, PTL DEF CowSpec
=============================================================================

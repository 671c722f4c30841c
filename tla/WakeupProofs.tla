---------------------------- MODULE WakeupProofs ----------------------------
(***************************************************************************)
(* Proofs about whom the primitives of module Synch wake, whom they let    *)
(* run, and with which priority, for every set of threads, locks,          *)
(* semaphores and priorities.                                              *)
(***************************************************************************)
EXTENDS SynchProofs

(***************************************************************************)
(* Donated priorities.  Most steps leave the priorities alone and neither  *)
(* begin nor end the two places where they are being changed.              *)
(***************************************************************************)
Changing == {"acq_insert", "rel_recalc"}

PrioritiesRest ==
  /\ UNCHANGED <<priority, original_priority, donations, donate>>
  /\ \A t \in Thread : /\ pc[t] \in Changing <=> pc'[t] \in Changing
                       /\ pc[t] \in Changing => pc'[t] = pc[t] /\ donee'[t] = donee[t]

LEMMA RestKeepsPriorities ==
  ASSUME EffectivePriority, PrioritiesRest
  PROVE  EffectivePriority'
<1>1. \A t \in Thread : Donors(t)' = Donors(t)
  BY DEF PrioritiesRest, Donors, Changing
<1>2. /\ priority' = priority /\ original_priority' = original_priority
      /\ donations' = donations /\ donate' = donate
  BY DEF PrioritiesRest
<1>3. \A t \in Thread : pc'[t] # "rel_recalc" => pc[t] # "rel_recalc"
  BY DEF PrioritiesRest, Changing
<1>. QED  BY <1>1, <1>2, <1>3 DEF EffectivePriority

(* A thread moves between places at which no priority is being changed. *)
LEMMA MoveRests ==
  ASSUME pc \in [Thread -> PC], donee \in [Thread -> Thread \cup {NULL}],
         UNCHANGED <<priority, original_priority, donations, donate>>,
         cur \in Thread, pc[cur] \notin Changing,
         \/ pc' = pc
         \/ \E l \in PC \ Changing : pc' = [pc EXCEPT ![cur] = l],
         donee' = donee \/ \E x : donee' = [donee EXCEPT ![cur] = x]
  PROVE  PrioritiesRest
<1>1. \A t \in Thread : t # cur => pc'[t] = pc[t] /\ donee'[t] = donee[t]
  OBVIOUS
<1>2. pc'[cur] \notin Changing
  OBVIOUS
<1>. QED  BY <1>1, <1>2 DEF PrioritiesRest

(* The effective priority is at least the base one, and somebody's. *)
LEMMA EffectiveGiven ==
  ASSUME NEW base \in Priority, NEW ds \in Seq(Donation)
  PROVE  /\ Effective(base, ds) >= base
         /\ Effective(base, ds) \in {base} \cup {d.priority : d \in Elems(ds)}
<1>1. CASE ds = <<>>
  BY <1>1, PriorityInt DEF Effective
<1>2. CASE ds # <<>>
  <2>1. Head(ds) \in Donation /\ Head(ds) \in Elems(ds)
    BY <1>2, PopProperties
  <2>2. Head(ds).priority \in Int /\ base \in Int
    BY <2>1, PriorityInt DEF Donation
  <2>. QED  BY <2>1, <2>2 DEF Effective
<1>. QED  BY <1>1, <1>2

(* Donations are ordered by numbers. *)
LEMMA DonationsKeyed ==
  ASSUME NEW ds \in Seq(Donation)
  PROVE  /\ ds \in Seq(Elems(ds)) /\ Keyed(Elems(ds), DonationKey(ds))
         /\ Elems(ds) \subseteq Donation
<1>1. \A i \in 1..Len(ds) : ds[i] \in Donation
  BY ListItems
<1>2. Elems(ds) \subseteq Donation
  BY <1>1 DEF Elems
<1>3. \A d \in Elems(ds) : DonationKey(ds)[d] = d.priority
  BY DEF DonationKey
<1>4. \A d \in Elems(ds) : DonationKey(ds)[d] \in Int
  BY <1>2, <1>3, PriorityInt DEF Donation
<1>5. ds \in Seq(Elems(ds))
  <2>1. ds \in [1..Len(ds) -> Elems(ds)] /\ Len(ds) \in Nat
    BY ListItems DEF Elems
  <2>. QED  BY <2>1, FunctionIsSeq
<1>. QED  BY <1>2, <1>4, <1>5 DEF Keyed

(***************************************************************************)
(* The steps that change priorities: thread_set_priority, the donation     *)
(* loop, and the two steps of lock_release.                                *)
(***************************************************************************)
LEMMA SetPriorityGiven ==
  ASSUME PlacementInv, EffectivePriority, NEW p \in NewPriority, ThreadSetPriority(p)
  PROVE  EffectivePriority'
<1>1. /\ cur \in Thread /\ pc[cur] = "run" /\ p \in Priority /\ donations[cur] \in Seq(Donation)
      /\ original_priority' = [original_priority EXCEPT ![cur] = p]
      /\ priority' = [priority EXCEPT ![cur] = Effective(p, donations[cur])]
      /\ donations' = donations /\ donee' = donee /\ donate' = donate
      /\ pc' = [pc EXCEPT ![cur] = "resched"]
  BY PriorityAssumption DEF ThreadSetPriority, Call, At, Goto, PlacementInv, DataOK, LinksOK
<1>2. /\ pc \in [Thread -> PC]
      /\ priority \in [AllThreads -> Priority \cup {PRI_MIN}] /\ cur \in AllThreads
      /\ original_priority \in [AllThreads -> Priority \cup {PRI_MIN}]
  BY <1>1 DEF PlacementInv, DataOK, CodeOK, PriosOK, AllThreads
<1>3. \A t \in Thread : Donors(t)' = Donors(t) /\ (pc'[t] = "rel_recalc" <=> pc[t] = "rel_recalc")
  BY <1>1, <1>2 DEF Donors
<1>4. ASSUME NEW t \in Thread
      PROVE  /\ priority'[t] >= original_priority'[t]
             /\ pc'[t] # "rel_recalc" =>
                  priority'[t] \in {original_priority'[t]} \cup {d.priority : d \in Elems(donations'[t])}
                                      \cup {donate'[u].priority : u \in Donors(t)'}
  <2>1. CASE t = cur
    <3>1. priority'[t] = Effective(p, donations[t]) /\ original_priority'[t] = p
      BY <1>1, <1>2, <2>1
    <3>. QED  BY <1>1, <2>1, <3>1, EffectiveGiven
  <2>2. CASE t # cur
    <3>1. priority'[t] = priority[t] /\ original_priority'[t] = original_priority[t] /\ t \in AllThreads
      BY <1>1, <1>2, <2>2 DEF AllThreads
    <3>. QED  BY <1>1, <1>3, <3>1 DEF EffectivePriority
  <2>. QED  BY <2>1, <2>2
<1>. QED  BY <1>4 DEF EffectivePriority

LEMMA DonateGiven ==
  ASSUME PlacementInv, EffectivePriority, AcquireDonate
  PROVE  EffectivePriority'
<1>0. PICK h \in Thread : h = donee[cur]
  BY DEF AcquireDonate, At, PlacementInv, LocalOK
<1>1. /\ cur \in Thread /\ pc[cur] = "acq_donate" /\ h \in Thread
      /\ original_priority' = original_priority /\ donations' = donations /\ donee' = donee
      /\ pc' = [pc EXCEPT ![cur] = "acq_insert"]
      /\ priority' = [priority EXCEPT ![h] = IF priority[h] < priority[cur] THEN priority[cur] ELSE priority[h]]
      /\ donate' = [donate EXCEPT ![cur] = [donor |-> cur, lock |-> pending[cur], priority |-> priority[cur]]]
  BY <1>0 DEF AcquireDonate, At, Goto
<1>2. /\ pc \in [Thread -> PC] /\ donate \in [Thread -> Donation \cup {NULL}]
      /\ priority \in [AllThreads -> Priority \cup {PRI_MIN}]
      /\ \A t \in Thread : t \in AllThreads /\ priority[t] \in Int /\ original_priority[t] \in Int
  BY PriorityInt DEF PlacementInv, DataOK, CodeOK, PriosOK, TempsOK, AllThreads
<1>3. \A t \in Thread : /\ Donors(t) \subseteq Donors(t)' /\ cur \notin Donors(t)
                        /\ pc'[t] # "rel_recalc" => pc[t] # "rel_recalc"
  BY <1>1, <1>2 DEF Donors
<1>4. cur \in Donors(h)' /\ donate'[cur].priority = priority[cur]
  BY <1>0, <1>1, <1>2 DEF Donors
<1>5. \A t \in Thread : \A u \in Donors(t) : donate'[u] = donate[u]
  BY <1>1, <1>2, <1>3 DEF Donors
<1>6. priority'[h] = priority[h] \/ (priority'[h] = priority[cur] /\ priority[h] < priority[cur])
  BY <1>1, <1>2
<1>7. \A t \in Thread : t # h => priority'[t] = priority[t]
  BY <1>1, <1>2
<1>8. ASSUME NEW t \in Thread
      PROVE  /\ priority'[t] >= original_priority'[t]
             /\ pc'[t] # "rel_recalc" =>
                  priority'[t] \in {original_priority'[t]} \cup {d.priority : d \in Elems(donations'[t])}
                                      \cup {donate'[u].priority : u \in Donors(t)'}
  <2>1. CASE priority'[t] = priority[t]
    BY <1>1, <1>3, <1>5, <2>1 DEF EffectivePriority
  <2>2. CASE t = h /\ priority'[h] = priority[cur] /\ priority[h] < priority[cur]
    <3>1. priority[h] >= original_priority[h] /\ priority[h] \in Int /\ priority[cur] \in Int /\ original_priority[h] \in Int
      BY <1>1, <1>2 DEF EffectivePriority
    <3>2. priority'[t] >= original_priority'[t]
      BY <1>1, <2>2, <3>1
    <3>. QED  BY <1>4, <2>2, <3>2
  <2>. QED  BY <1>6, <1>7, <2>1, <2>2
<1>. QED  BY <1>8 DEF EffectivePriority

LEMMA InsertGiven ==
  ASSUME PlacementInv, EffectivePriority, AcquireInsert
  PROVE  EffectivePriority'
<1>0. PICK h \in Thread, d0 \in Donation : h = donee[cur] /\ d0 = donate[cur]
  BY DEF AcquireInsert, At, PlacementInv, LocalOK
<1>. DEFINE ds == InsertOrdered(donations[h], d0, DonationKey(Append(donations[h], d0)))
<1>1. /\ cur \in Thread /\ pc[cur] = "acq_insert" /\ h \in Thread /\ d0 \in Donation
      /\ original_priority' = original_priority /\ priority' = priority
      /\ donations' = [donations EXCEPT ![h] = ds]
      /\ donee' = [donee EXCEPT ![cur] = NULL] /\ donate' = [donate EXCEPT ![cur] = NULL]
      /\ \E l \in {"acq_down", "acq_scan"} : pc' = [pc EXCEPT ![cur] = l]
  BY <1>0, Zenon DEF AcquireInsert, At, Goto
<1>2. /\ pc \in [Thread -> PC] /\ donate \in [Thread -> Donation \cup {NULL}]
      /\ donee \in [Thread -> Thread \cup {NULL}] /\ donations \in [Thread -> Seq(Donation)]
  BY DEF PlacementInv, DataOK, CodeOK, TempsOK, LinksOK
<1>3. Elems(ds) = Elems(donations[h]) \cup {d0}
  BY <1>1, <1>2, InsertProperties
<1>. HIDE DEF ds
<1>4. d0 \in Elems(donations'[h]) /\ \A t \in Thread : Elems(donations[t]) \subseteq Elems(donations'[t])
  <2>1. donations'[h] = ds /\ \A t \in Thread : t # h => donations'[t] = donations[t]
    BY <1>1, <1>2
  <2>. QED  BY <1>3, <2>1
<1>5. \A t \in Thread : /\ pc'[t] # "rel_recalc" => pc[t] # "rel_recalc"
                        /\ \A u \in Donors(t) : (u \in Donors(t)' /\ donate'[u] = donate[u]) \/ (u = cur /\ t = h)
  BY <1>0, <1>1, <1>2 DEF Donors
<1>6. ASSUME NEW t \in Thread, pc'[t] # "rel_recalc"
      PROVE  priority'[t] \in {original_priority'[t]} \cup {d.priority : d \in Elems(donations'[t])}
                                   \cup {donate'[u].priority : u \in Donors(t)'}
  <2>0. priority'[t] = priority[t] /\ Elems(donations[t]) \subseteq Elems(donations'[t])
    BY <1>1, <1>4, Zenon
  <2>1. CASE priority[t] \in {original_priority[t]} \cup {d.priority : d \in Elems(donations[t])}
    BY <1>1, <2>0, <2>1, Zenon
  <2>2. ASSUME NEW u \in Donors(t), priority[t] = donate[u].priority
        PROVE  priority'[t] \in {d.priority : d \in Elems(donations'[t])} \cup {donate'[v].priority : v \in Donors(t)'}
    <3>1. CASE u \in Donors(t)' /\ donate'[u] = donate[u]
      BY <1>1, <2>2, <3>1
    <3>2. CASE u = cur /\ t = h
      <4>1. d0 \in Elems(donations'[t]) /\ priority'[t] = d0.priority
        BY <1>0, <1>4, <2>0, <2>2, <3>2, Zenon
      <4>. QED  BY <4>1, Zenon
    <3>. QED  BY <1>5, <3>1, <3>2
  <2>. QED  BY <1>5, <1>6, <2>1, <2>2 DEF EffectivePriority
<1>. QED  BY <1>1, <1>6, Zenon DEF EffectivePriority

LEMMA ReleaseGiven ==
  ASSUME PlacementInv, EffectivePriority, ReleaseDonations \/ ReleaseRecalc
  PROVE  EffectivePriority'
<1>1. /\ cur \in Thread /\ cur \in AllThreads /\ original_priority' = original_priority /\ donee' = donee /\ donate' = donate
      /\ pc[cur] \in {"rel_donations", "rel_recalc"}
  BY DEF ReleaseDonations, ReleaseRecalc, At, local, AllThreads
<1>2. /\ pc \in [Thread -> PC] /\ donations \in [Thread -> Seq(Donation)]
      /\ priority \in [AllThreads -> Priority \cup {PRI_MIN}] /\ original_priority[cur] \in Priority
  BY <1>1 DEF PlacementInv, DataOK, CodeOK, LinksOK, PriosOK
<1>3. /\ \A t \in Thread : t # cur => pc'[t] = pc[t] /\ donations'[t] = donations[t] /\ priority'[t] = priority[t]
      /\ pc'[cur] # "acq_insert"
  <2>1. CASE ReleaseDonations
    BY <1>1, <1>2, <2>1 DEF ReleaseDonations, Goto, AllThreads
  <2>2. CASE ReleaseRecalc
    BY <1>1, <1>2, <2>2 DEF ReleaseRecalc, Goto, AllThreads
  <2>. QED  BY <2>1, <2>2
<1>4. \A t \in Thread : Donors(t)' = Donors(t)
  BY <1>1, <1>3 DEF Donors
<1>5. /\ priority'[cur] >= original_priority[cur]
      /\ pc'[cur] # "rel_recalc" =>
           priority'[cur] \in {original_priority[cur]} \cup {d.priority : d \in Elems(donations'[cur])}
  <2>1. CASE ReleaseDonations
    <3>1. priority' = priority /\ pc'[cur] = "rel_recalc"
      BY <1>1, <1>2, <2>1 DEF ReleaseDonations, Goto
    <3>. QED  BY <1>1, <3>1 DEF EffectivePriority
  <2>2. CASE ReleaseRecalc
    <3>. DEFINE sorted == Sort(donations[cur], DonationKey(donations[cur]))
    <3>1. donations'[cur] = sorted /\ priority'[cur] = Effective(original_priority[cur], sorted)
      BY <1>1, <1>2, <2>2 DEF ReleaseRecalc
    <3>2. sorted \in Seq(Donation)
      <4>1. /\ donations[cur] \in Seq(Elems(donations[cur])) /\ Elems(donations[cur]) \subseteq Donation
            /\ Keyed(Elems(donations[cur]), DonationKey(donations[cur]))
        BY <1>1, <1>2, DonationsKeyed
      <4>2. sorted \in Seq(Elems(donations[cur]))
        BY <4>1, SortProperties
      <4>. QED  BY <4>1, <4>2, ListWiden
    <3>. HIDE DEF sorted
    <3>. QED  BY <1>2, <3>1, <3>2, EffectiveGiven
  <2>. QED  BY <2>1, <2>2
<1>6. ASSUME NEW t \in Thread
      PROVE  /\ priority'[t] >= original_priority'[t]
             /\ pc'[t] # "rel_recalc" =>
                  priority'[t] \in {original_priority'[t]} \cup {d.priority : d \in Elems(donations'[t])}
                                      \cup {donate'[u].priority : u \in Donors(t)'}
  <2>1. CASE t = cur
    BY <1>1, <1>5, <2>1
  <2>2. CASE t # cur
    BY <1>1, <1>3, <1>4, <2>2 DEF EffectivePriority
  <2>. QED  BY <2>1, <2>2
<1>. QED  BY <1>6 DEF EffectivePriority

LEMMA EffectiveStep ==
  ASSUME PlacementInv, EffectivePriority, [Next]_vars
  PROVE  EffectivePriority'
<1>0. /\ pc \in [Thread -> PC] /\ donee \in [Thread -> Thread \cup {NULL}] /\ ret \in [Thread -> {"run"}]
  BY DEF PlacementInv, DataOK, CodeOK, TempsOK
<1>. DEFINE Moves ==
       /\ UNCHANGED <<priority, original_priority, donations, donate>>
       /\ cur \in Thread /\ pc[cur] \notin Changing
       /\ \/ pc' = pc
          \/ \E l \in PC \ Changing : pc' = [pc EXCEPT ![cur] = l]
       /\ donee' = donee \/ \E x : donee' = [donee EXCEPT ![cur] = x]
<1>a. Moves => EffectivePriority'
  BY <1>0, MoveRests, RestKeepsPriorities
<1>1. ASSUME NEW s \in UserSema, CallDown(s) PROVE Moves
  BY <1>0, <1>1, Zenon DEF CallDown, Call, At, Goto, Changing, PC, sched, prio, semas, local
<1>2. ASSUME NEW s \in UserSema, TryDown(s) PROVE Moves
  BY <1>0, <1>2 DEF TryDown, Call, At, Goto, Changing, PC, sched, prio, semas, local
<1>3. ASSUME NEW s \in UserSema, Up(s) PROVE Moves
  BY <1>0, <1>3 DEF Up, Call, At, Goto, Changing, PC, sched, prio, semas, local
<1>4. ASSUME NEW l \in Lock, CallAcquire(l) PROVE Moves
  BY <1>0, <1>4, Zenon DEF CallAcquire, Call, At, Goto, Changing, PC, sched, prio, semas, local
<1>5. ASSUME NEW l \in Lock, LockTryAcquire(l) PROVE Moves
  BY <1>0, <1>5 DEF LockTryAcquire, Call, At, Goto, Changing, PC, sched, prio, semas, local
<1>6. ASSUME NEW l \in Lock, CallRelease(l) PROVE Moves
  BY <1>0, <1>6, Zenon DEF CallRelease, At, Goto, Changing, PC, sched, prio, semas, local
<1>7. ASSUME AcquireCheck PROVE Moves
  BY <1>0, <1>7 DEF AcquireCheck, At, Goto, Changing, PC, sched, prio, semas, local
<1>8. ASSUME AcquireScan PROVE Moves
  BY <1>0, <1>8 DEF AcquireScan, At, Goto, Changing, PC, sched, prio, semas, local
<1>9. ASSUME AcquireDown PROVE Moves
  BY <1>0, <1>9 DEF AcquireDown, SemaDown, At, Goto, Changing, PC, sched, prio, semas, local
<1>10. ASSUME AcquireHold PROVE Moves
  BY <1>0, <1>10, Zenon DEF AcquireHold, At, Goto, Changing, PC, sched, prio, semas, local
<1>11. ASSUME ReleaseHolder PROVE Moves
  BY <1>0, <1>11, Zenon DEF ReleaseHolder, At, Goto, Changing, PC, sched, prio, semas, local
<1>12. ASSUME ReleaseUp PROVE Moves
  BY <1>0, <1>12, Zenon DEF ReleaseUp, At, Goto, Changing, PC, sched, prio, semas, local
<1>13. ASSUME Down PROVE Moves
  BY <1>0, <1>13 DEF Down, SemaDown, At, Goto, Changing, PC, sched, prio, semas, local
<1>14. ASSUME Resched PROVE Moves
  BY <1>0, <1>14, Zenon DEF Resched, At, Goto, Changing, PC, sched, prio, semas, local
<1>15. ASSUME ThreadExit PROVE Moves
  BY <1>0, <1>15, Zenon DEF ThreadExit, At, Goto, Changing, PC, sched, prio, semas, local
<1>16. ASSUME NEW t \in Thread, ThreadCreate(t) PROVE Moves
  BY <1>0, <1>16 DEF ThreadCreate, At, Goto, Changing, PC, sched, prio, semas, local
<1>17. ASSUME TimerYield \/ UNCHANGED vars PROVE EffectivePriority'
  <2>1. PrioritiesRest
    BY <1>17 DEF TimerYield, PrioritiesRest, vars, prio, local
  <2>. QED  BY <2>1, RestKeepsPriorities, Zenon
<1>. QED
  BY <1>a, <1>1, <1>2, <1>3, <1>4, <1>5, <1>6, <1>7, <1>8, <1>9,
     <1>10, <1>11, <1>12, <1>13, <1>14, <1>15, <1>16, <1>17,
     SetPriorityGiven, DonateGiven, InsertGiven, ReleaseGiven, Zenon DEF Next, Step

(***************************************************************************)
(* A thread's priority is never below its own base priority, and it is the *)
(* base priority or one that a donation, recorded or about to be, gives it *)
(* (recalc_priority, thread_set_priority, the loop of lock_acquire).       *)
(***************************************************************************)
THEOREM PrioritiesAreGiven == Spec => []EffectivePriority
<1>1. Init => EffectivePriority
  <2>. SUFFICES ASSUME Init PROVE EffectivePriority
    OBVIOUS
  <2>1. \A t \in Thread : priority[t] = InitPriority[t] /\ InitPriority[t] \in Priority
    BY PriorityAssumption, ThreadAssumption DEF Init, AllThreads
  <2>2. \A t \in Thread : priority[t] \in Int /\ original_priority[t] = priority[t]
    BY <2>1, PriorityInt, Zenon DEF Init
  <2>. QED  BY <2>2 DEF EffectivePriority
<1>2. PlacementInv /\ EffectivePriority /\ [Next]_vars => EffectivePriority'
  BY EffectiveStep
<1>. QED  BY <1>1, <1>2, PlacementAlways, PTL DEF Spec

-----------------------------------------------------------------------------
(* Lists: list_sort puts the largest key in front, and what is not larger  *)
(* is inserted behind it.                                                  *)
LEMMA SortedHead ==
  ASSUME NEW S, NEW s \in Seq(S), NEW key, Keyed(S, key), Sort(s, key) # <<>>
  PROVE  \A e \in Elems(s) : key[e] <= key[Head(Sort(s, key))]
<1>. DEFINE r == Sort(s, key)
<1>1. r \in Seq(S) /\ Elems(r) = Elems(s) /\ Sorted(r, key) /\ r # <<>>
  BY SortProperties
<1>. HIDE DEF r
<1>2. Head(r) = r[1] /\ Head(r) \in S /\ Len(r) \in Nat \ {0}
  BY <1>1, PopProperties
<1>3. ASSUME NEW i \in 1..Len(r) PROVE key[r[i]] <= key[r[1]]
  <2>1. r[i] \in S /\ r[1] \in S
    BY <1>1, <1>2, ListItems
  <2>2. key[r[i]] \in Int /\ key[r[1]] \in Int
    BY <2>1 DEF Keyed
  <2>3. i = 1 \/ key[r[1]] >= key[r[i]]
    BY <1>1, <1>2 DEF Sorted
  <2>. QED  BY <2>2, <2>3
<1>. QED  BY <1>1, <1>2, <1>3, Zenon DEF Elems, r

LEMMA InsertBehind ==
  ASSUME NEW S, NEW s \in Seq(S), s # <<>>, NEW x \in S, NEW key, key[Head(s)] >= key[x]
  PROVE  /\ InsertOrdered(s, x, key) # <<>>
         /\ Head(InsertOrdered(s, x, key)) = Head(s)
<1>. DEFINE front == {i \in 1..Len(s) : \A j \in 1..i : key[s[j]] >= key[x]}
            t == InsertOrdered(s, x, key)
<1>1. Len(s) \in Nat \ {0} /\ Head(s) = s[1]
  BY PopProperties
<1>2. 1 \in front
  BY <1>1
<1>3. IsFiniteSet(front)
  <2>1. IsFiniteSet(1..Len(s))
    BY <1>1, FS_Interval
  <2>. QED  BY <2>1, FS_Subset
<1>4. Cardinality(front) \in Nat /\ Cardinality(front) # 0
  BY <1>2, <1>3, FS_CardinalityType, FS_EmptySet, Zenon
<1>5. InsertPoint(s, x, key) > 1
  BY <1>4 DEF InsertPoint
<1>6. t[1] = s[1]
  BY <1>1, <1>5 DEF InsertOrdered
<1>7. t \in Seq(S) /\ Len(t) = Len(s) + 1
  BY InsertProperties
<1>. HIDE DEF t
<1>8. t # <<>>
  BY <1>1, <1>7
<1>9. Head(t) = t[1]
  BY <1>7, <1>8, PopProperties
<1>. QED  BY <1>1, <1>6, <1>8, <1>9 DEF t

(***************************************************************************)
(* compare_cur_next_priority leaves no ready thread above the running one. *)
(***************************************************************************)
LEMMA ComparePreempts ==
  ASSUME NEW STATE st, NEW STATE ready, NEW STATE pr,
         SchedOK(cur, st, ready), Keyed(AllThreads, pr), CompareCurNext(st, ready, pr)
  PROVE  \A t \in Elems(ready_list') : pr[t] <= pr[cur']
<1>. DEFINE sorted == Sort(ready, pr)
<1>0. Keyed(Thread, pr) /\ ready \in Seq(Thread) /\ cur \in AllThreads /\ \A t \in AllThreads : pr[t] \in Int
  BY DEF Keyed, AllThreads, SchedOK
<1>1. sorted \in Seq(Thread) /\ Elems(sorted) = Elems(ready) /\ Once(sorted) /\ Len(sorted) = Len(ready)
  BY <1>0, SortProperties DEF SchedOK
<1>2. sorted # <<>> => \A e \in Elems(sorted) : pr[e] <= pr[Head(sorted)]
  BY <1>0, <1>1, SortedHead
<1>3. sorted # <<>> => Head(sorted) \in Thread /\ Elems(Tail(sorted)) \subseteq Elems(sorted)
  BY <1>1, PopProperties
<1>4. Elems(sorted) \subseteq Thread
  BY <1>1, ListItems DEF Elems
<1>5. ready = <<>> <=> sorted = <<>>
  BY <1>0, <1>1
<1>6. \/ /\ ready # <<>> /\ pr[Head(sorted)] > pr[cur]
         /\ Yield(st, sorted, pr)
      \/ /\ ready = <<>> \/ ~(pr[Head(sorted)] > pr[cur])
         /\ cur' = cur /\ ready_list' = sorted
  BY DEF CompareCurNext
<1>. HIDE DEF sorted
<1>7. CASE ready = <<>> /\ ready_list' = sorted
  BY <1>5, <1>7 DEF Elems
<1>8. CASE ready # <<>> /\ ~(pr[Head(sorted)] > pr[cur]) /\ cur' = cur /\ ready_list' = sorted
  <2>1. pr[Head(sorted)] <= pr[cur] /\ pr[Head(sorted)] \in Int /\ pr[cur] \in Int
    BY <1>0, <1>3, <1>5, <1>8 DEF AllThreads
  <2>. QED  BY <1>0, <1>2, <1>4, <1>5, <1>8, <2>1 DEF AllThreads
<1>9. CASE ready # <<>> /\ pr[Head(sorted)] > pr[cur] /\ Yield(st, sorted, pr)
  <2>. DEFINE next == IF cur = Idle THEN sorted ELSE InsertOrdered(sorted, cur, pr)
  <2>1. pr[Head(sorted)] \in Int /\ pr[cur] \in Int /\ sorted # <<>>
    BY <1>0, <1>3, <1>5, <1>9 DEF AllThreads
  <2>2. /\ next \in Seq(Thread) /\ next # <<>> /\ Head(next) = Head(sorted)
        /\ \A e \in Elems(next) : e \in Elems(sorted) \/ e = cur
    <3>1. CASE cur = Idle
      BY <1>1, <2>1, <3>1
    <3>2. CASE cur # Idle
      <4>1. cur \in Thread /\ pr[Head(sorted)] >= pr[cur]
        BY <1>0, <1>9, <2>1, <3>2 DEF AllThreads
      <4>2. InsertOrdered(sorted, cur, pr) # <<>> /\ Head(InsertOrdered(sorted, cur, pr)) = Head(sorted)
        BY <1>1, <2>1, <4>1, InsertBehind
      <4>3. /\ InsertOrdered(sorted, cur, pr) \in Seq(Thread)
            /\ Elems(InsertOrdered(sorted, cur, pr)) = Elems(sorted) \cup {cur}
        BY <1>1, <4>1, InsertProperties
      <4>. QED  BY <3>2, <4>2, <4>3
    <3>. QED  BY <3>1, <3>2
  <2>3. Schedule([st EXCEPT ![cur] = "READY"], next)
    BY <1>9 DEF Yield
  <2>. HIDE DEF next
  <2>4. cur' = Head(sorted) /\ ready_list' = Tail(next)
    BY <2>2, <2>3 DEF Schedule
  <2>5. Elems(Tail(next)) \subseteq Elems(next)
    BY <2>2, PopProperties
  <2>6. ASSUME NEW t \in Elems(ready_list') PROVE pr[t] <= pr[Head(sorted)]
    <3>1. t \in Elems(sorted) \/ t = cur
      BY <2>2, <2>4, <2>5, Zenon
    <3>. QED  BY <1>2, <1>9, <2>1, <3>1
  <2>. QED  BY <2>4, <2>6
<1>. QED  BY <1>6, <1>7, <1>8, <1>9

-----------------------------------------------------------------------------
(* What sema_up does to the waiters, to who is blocked and to who runs. *)
LEMMA WakeFacts ==
  ASSUME PlacementInv, NEW STATE s, s \in AllSemas, SemaUp(s)
  PROVE  /\ value' = [value EXCEPT ![s] = @ + 1]
         /\ \A t \in Thread : status'[t] = "BLOCKED" => status[t] = "BLOCKED"
         /\ \/ waiters[s] = <<>> /\ waiters' = waiters
            \/ \E w \in Elems(waiters[s]) :
                 /\ w \in Thread /\ status'[w] # "BLOCKED"
                 /\ \A u \in Elems(waiters[s]) : priority[u] <= priority[w]
                 /\ Elems(waiters'[s]) = Elems(waiters[s]) \ {w}
                 /\ \A r \in AllSemas : r # s => waiters'[r] = waiters[r]
         /\ \A t \in Elems(ready_list') : priority[t] <= priority[cur']
<1>. DEFINE sorted == Sort(waiters[s], priority)
            w == Head(sorted)
<1>1. Keyed(Thread, priority) /\ Keyed(AllThreads, priority)
  <2>1. \A t \in AllThreads : priority[t] \in Int
    BY PriorityInt, SMTT(30) DEF PlacementInv, DataOK, PriosOK, PRI_MIN
  <2>. QED  BY <2>1 DEF Keyed, AllThreads
<1>2. waiters \in [AllSemas -> Seq(Thread)] /\ waiters[s] \in Seq(Thread) /\ Once(waiters[s])
  BY DEF PlacementInv, DataOK, SemasOK, WaitersOK
<1>3. /\ sorted \in Seq(Thread) /\ Elems(sorted) = Elems(waiters[s]) /\ Once(sorted)
      /\ Len(sorted) = Len(waiters[s])
  BY <1>1, <1>2, SortProperties
<1>4. value' = [value EXCEPT ![s] = @ + 1]
  BY Zenon DEF SemaUp
<1>5. CASE sorted = <<>>
  <2>1. CompareCurNext(status, ready_list, priority) /\ waiters' = waiters
    BY <1>5 DEF SemaUp
  <2>2. waiters[s] = <<>>
    BY <1>2, <1>3, <1>5
  <2>3. \A t \in Thread : status'[t] = "BLOCKED" <=> status[t] = "BLOCKED"
    BY <1>1, <2>1, CompareOK DEF PlacementInv
  <2>4. \A t \in Elems(ready_list') : priority[t] <= priority[cur']
    BY <1>1, <2>1, ComparePreempts, Zenon DEF PlacementInv
  <2>. QED  BY <1>4, <2>1, <2>2, <2>3, <2>4
<1>6. CASE sorted # <<>>
  <2>1. /\ w \in Thread /\ w \in Elems(waiters[s])
        /\ Elems(Tail(sorted)) = Elems(waiters[s]) \ {w}
    BY <1>3, <1>6, PopProperties
  <2>2. status[w] = "BLOCKED"
    BY <2>1 DEF PlacementInv, WaitersOK
  <2>3. \A u \in Elems(waiters[s]) : priority[u] <= priority[w]
    BY <1>1, <1>2, <1>6, SortedHead
  <2>. DEFINE st2 == [status EXCEPT ![w] = "READY"]
              ready2 == ReadyWith(w, ready_list, priority)
  <2>4. CompareCurNext(st2, ready2, priority) /\ waiters' = [waiters EXCEPT ![s] = Tail(sorted)]
    BY <1>6 DEF SemaUp
  <2>5. SchedOK(cur, st2, ready2)
    BY <2>1, <2>2, UnblockOK DEF PlacementInv
  <2>6. \A t \in Thread : st2[t] = "BLOCKED" <=> status[t] = "BLOCKED" /\ t # w
    BY <2>1, <2>2 DEF PlacementInv, SchedOK, AllThreads
  <2>. HIDE DEF st2, ready2, w, sorted
  <2>7. \A t \in Thread : status'[t] = "BLOCKED" <=> st2[t] = "BLOCKED"
    BY <1>1, <2>4, <2>5, CompareOK
  <2>8. \A t \in Elems(ready_list') : priority[t] <= priority[cur']
    BY <1>1, <2>4, <2>5, ComparePreempts
  <2>9. waiters'[s] = Tail(sorted) /\ \A r \in AllSemas : r # s => waiters'[r] = waiters[r]
    BY <1>2, <2>4
  <2>10. status'[w] # "BLOCKED" /\ \A t \in Thread : status'[t] = "BLOCKED" => status[t] = "BLOCKED"
    BY <2>1, <2>6, <2>7
  <2>. QED  BY <1>4, <2>1, <2>3, <2>8, <2>9, <2>10, Zenon
<1>. QED  BY <1>5, <1>6

(***************************************************************************)
(* Every step leaves the semaphores calm (no value grows, nobody joins or  *)
(* leaves the waiters, nobody who is about to test a value goes away), is  *)
(* a test in sema_down, or is a sema_up.                                   *)
(***************************************************************************)
Calm ==
  /\ OthersStay
  /\ \A s \in AllSemas : value'[s] <= value[s] /\ Elems(waiters'[s]) = Elems(waiters[s])
  /\ \A t \in Thread : status'[t] = "BLOCKED" => status[t] = "BLOCKED" \/ t = cur
  /\ cur \in Thread => \/ pc[cur] \notin Downing
                       \/ pc'[cur] = pc[cur] /\ arg'[cur] = arg[cur] /\ status'[cur] # "BLOCKED"

Testing(s) ==
  /\ cur \in Thread /\ pc[cur] \in Downing /\ arg[cur] = s /\ arg' = arg
  /\ \E next \in PC : SemaDown(s, next)

Waking(s) ==
  /\ cur \in Thread /\ pc[cur] \notin Downing /\ OthersStay /\ priority' = priority
  /\ SemaUp(s)

LEMMA CalmMove ==
  ASSUME PlacementInv, OthersStay, cur \in Thread, pc[cur] \notin Downing,
         UNCHANGED <<sched, waiters>>,
         \A s \in AllSemas : value'[s] <= value[s]
  PROVE  Calm
BY DEF Calm, sched

LEMMA StepKinds ==
  ASSUME PlacementInv, [Next]_vars
  PROVE  Calm \/ \E s \in AllSemas : Testing(s) \/ Waking(s)
<1>0. /\ pc \in [Thread -> PC] /\ arg \in [Thread -> AllSemas \cup {NULL}] /\ ret \in [Thread -> {"run"}]
      /\ value \in [AllSemas -> Nat] /\ waiters \in [AllSemas -> Seq(Thread)]
  BY Zenon DEF PlacementInv, DataOK, CodeOK, SemasOK
<1>. DEFINE Moved ==
       /\ OthersStay /\ cur \in Thread /\ pc[cur] \notin Downing /\ UNCHANGED <<sched, waiters>>
       /\ \A r \in AllSemas : value'[r] <= value[r]
<1>a. Moved => Calm
  BY CalmMove
<1>b. Keyed(Thread, priority)
  BY PriorityKeyed, Zenon DEF PlacementInv
<1>1. ASSUME NEW p \in NewPriority, ThreadSetPriority(p) PROVE Moved
  BY <1>0, <1>1 DEF ThreadSetPriority, Call, At, Goto, OthersStay, Downing, sched, prio, semas, local
<1>2. ASSUME NEW s \in UserSema, CallDown(s) PROVE Moved
  BY <1>0, <1>2 DEF CallDown, Call, At, Goto, OthersStay, Downing, sched, prio, semas, local
<1>3. ASSUME NEW s \in UserSema, TryDown(s) PROVE Moved
  BY <1>0, <1>3 DEF TryDown, Call, At, Goto, OthersStay, Downing, sched, prio, semas, local
<1>4. ASSUME NEW l \in Lock, CallAcquire(l) PROVE Moved
  BY <1>0, <1>4 DEF CallAcquire, Call, At, Goto, OthersStay, Downing, sched, prio, semas, local
<1>5. ASSUME NEW l \in Lock, LockTryAcquire(l) PROVE Moved
  <2>1. /\ cur \in Thread /\ pc[cur] = "run" /\ UNCHANGED <<sched, waiters>>
        /\ \/ /\ value' = [value EXCEPT ![l] = @ - 1] /\ arg' = [arg EXCEPT ![cur] = l]
              /\ pc' = [pc EXCEPT ![cur] = "acq_hold"]
           \/ UNCHANGED <<value, arg, pc>>
    BY <1>5 DEF LockTryAcquire, Call, At, Goto
  <2>2. OthersStay /\ pc[cur] \notin Downing
    BY <1>0, <2>1 DEF OthersStay, Downing
  <2>3. \A r \in AllSemas : value'[r] <= value[r]
    <3>. SUFFICES ASSUME NEW r \in AllSemas PROVE value'[r] <= value[r]
      OBVIOUS
    <3>1. value[r] \in Nat
      BY <1>0
    <3>2. CASE value' = value
      BY <3>1, <3>2
    <3>3. CASE value' = [value EXCEPT ![l] = @ - 1]
      <4>1. value'[r] = value[r] \/ value'[r] = value[r] - 1
        BY <1>0, <3>3
      <4>. QED  BY <3>1, <4>1
    <3>. QED  BY <2>1, <3>2, <3>3
  <2>. QED  BY <2>1, <2>2, <2>3
<1>6. ASSUME NEW l \in Lock, CallRelease(l) PROVE Moved
  BY <1>0, <1>6 DEF CallRelease, At, Goto, OthersStay, Downing, sched, prio, semas, local
<1>7. ASSUME AcquireCheck PROVE Moved
  BY <1>0, <1>7 DEF AcquireCheck, At, Goto, OthersStay, Downing, sched, prio, semas, local
<1>8. ASSUME AcquireScan PROVE Moved
  BY <1>0, <1>8 DEF AcquireScan, At, Goto, OthersStay, Downing, sched, prio, semas, local
<1>9. ASSUME AcquireDonate PROVE Moved
  BY <1>0, <1>9 DEF AcquireDonate, At, Goto, OthersStay, Downing, sched, prio, semas, local
<1>10. ASSUME AcquireHold PROVE Moved
  BY <1>0, <1>10 DEF AcquireHold, At, Goto, OthersStay, Downing, sched, prio, semas, local
<1>11. ASSUME ReleaseDonations PROVE Moved
  BY <1>0, <1>11 DEF ReleaseDonations, At, Goto, OthersStay, Downing, sched, prio, semas, local
<1>12. ASSUME ReleaseRecalc PROVE Moved
  BY <1>0, <1>12 DEF ReleaseRecalc, At, Goto, OthersStay, Downing, sched, prio, semas, local
<1>13. ASSUME ReleaseHolder PROVE Moved
  BY <1>0, <1>13, SMTT(30) DEF ReleaseHolder, At, Goto, OthersStay, Downing, sched, prio, semas, local
<1>14. ASSUME AcquireInsert PROVE Calm
  <2>1. /\ cur \in Thread /\ pc[cur] = "acq_insert" /\ donee[cur] \in Thread
        /\ UNCHANGED <<sched, value, arg>> /\ \E l \in PC : pc' = [pc EXCEPT ![cur] = l]
        /\ \/ waiters' = waiters
           \/ \E next \in AllSemas : waiters' = [waiters EXCEPT ![next] = Sort(waiters[next], priority)]
    BY <1>14, Zenon DEF AcquireInsert, At, Goto, PC, PlacementInv, LocalOK, DataOK, LinksOK, AllSemas
  <2>2. \A r \in AllSemas : Elems(Sort(waiters[r], priority)) = Elems(waiters[r])
    BY <1>0, <1>b, SortProperties
  <2>3. \A r \in AllSemas : Elems(waiters'[r]) = Elems(waiters[r])
    BY <1>0, <2>1, <2>2, Zenon
  <2>4. OthersStay /\ \A r \in AllSemas : value'[r] <= value[r]
    BY <1>0, <2>1 DEF OthersStay
  <2>5. status' = status
    BY <2>1 DEF sched
  <2>. QED  BY <2>1, <2>3, <2>4, <2>5 DEF Calm, Downing
<1>. DEFINE Switched ==
       /\ OthersStay /\ UNCHANGED <<semas, arg>>
       /\ \A t \in Thread : status'[t] = "BLOCKED" => status[t] = "BLOCKED" \/ t = cur
       /\ cur \in Thread => \/ pc[cur] \notin Downing
                            \/ pc'[cur] = pc[cur] /\ status'[cur] # "BLOCKED"
<1>c. Switched => Calm
  BY <1>0 DEF Calm, semas
<1>15. ASSUME Resched PROVE Switched
  <2>1. cur \in Thread /\ pc[cur] = "resched" /\ UNCHANGED <<semas, arg>> /\ pc' = [pc EXCEPT ![cur] = "run"]
    BY <1>0, <1>15, Zenon DEF Resched, At, Goto, semas, local
  <2>2. \A t \in Thread : status'[t] = "BLOCKED" <=> status[t] = "BLOCKED"
    BY <1>15, <1>b, CompareOK DEF Resched, PlacementInv
  <2>. QED  BY <1>0, <2>1, <2>2 DEF OthersStay, Downing
<1>16. ASSUME ThreadExit PROVE Switched
  <2>1. cur \in Thread /\ pc[cur] = "run" /\ UNCHANGED <<semas, arg>> /\ pc' = [pc EXCEPT ![cur] = "exit"]
    BY <1>16 DEF ThreadExit, At, Goto, semas, local
  <2>2. \A t \in Thread : status'[t] = "BLOCKED" <=> status[t] = "BLOCKED" \/ t = cur
    BY <1>16, <2>1, BlockOK DEF ThreadExit, PlacementInv
  <2>. QED  BY <1>0, <2>1, <2>2 DEF OthersStay, Downing
<1>17. ASSUME NEW t \in Thread, ThreadCreate(t) PROVE Switched
  <2>. DEFINE st == [status EXCEPT ![t] = "READY"]
              ready == ReadyWith(t, ready_list, priority)
  <2>1. /\ cur \in Thread /\ pc[cur] = "run" /\ UNCHANGED <<semas, arg, pc>> /\ status[t] = "NONE"
        /\ Yield(st, ready, priority) \/ status' = st
    BY <1>17 DEF ThreadCreate, At, semas, local
  <2>2. SchedOK(cur, st, ready)
    BY <2>1, UnblockOK DEF PlacementInv
  <2>3. \A u \in Thread : st[u] = "BLOCKED" => status[u] = "BLOCKED"
    BY Zenon DEF PlacementInv, SchedOK, AllThreads
  <2>. HIDE DEF st, ready
  <2>4. \A u \in Thread : status'[u] = "BLOCKED" <=> st[u] = "BLOCKED"
    BY <2>1, <2>2, YieldOK, Zenon
  <2>. QED  BY <2>1, <2>3, <2>4, Zenon DEF OthersStay, Downing
<1>18. ASSUME TimerYield PROVE Switched
  <2>1. UNCHANGED <<semas, arg, pc>> /\ Yield(status, ready_list, priority)
    BY <1>18 DEF TimerYield, semas, local
  <2>2. \A u \in Thread : status'[u] = "BLOCKED" <=> status[u] = "BLOCKED"
    BY <2>1, YieldOK DEF PlacementInv
  <2>3. cur \in Thread => status[cur] = "RUNNING"
    BY CurUnlisted
  <2>. QED  BY <2>1, <2>2, <2>3 DEF OthersStay
<1>19. ASSUME UNCHANGED vars PROVE Switched
  <2>1. cur \in Thread => status[cur] = "RUNNING"
    BY CurUnlisted, Zenon
  <2>. QED  BY <1>19, <2>1 DEF vars, sched, semas, local, OthersStay
<1>20. ASSUME Down PROVE Testing(arg[cur]) /\ arg[cur] \in AllSemas
  BY <1>20, Zenon DEF Down, At, Testing, Downing, PC, PlacementInv, LocalOK, AllSemas, local
<1>21. ASSUME AcquireDown PROVE Testing(arg[cur]) /\ arg[cur] \in AllSemas
  BY <1>21, Zenon DEF AcquireDown, At, Testing, Downing, PC, PlacementInv, LocalOK, Acquiring, AllSemas, local
<1>22. ASSUME NEW s \in UserSema, Up(s) PROVE Waking(s) /\ s \in AllSemas
  BY <1>22, SemaAssumption DEF Up, Call, At, Waking, Downing, OthersStay, AllSemas, prio
<1>23. ASSUME ReleaseUp PROVE Waking(arg[cur]) /\ arg[cur] \in AllSemas
  <2>1. cur \in Thread /\ pc[cur] = "rel_up" /\ SemaUp(arg[cur]) /\ priority' = priority /\ arg' = arg
        /\ pc' = [pc EXCEPT ![cur] = "resched"]
    BY <1>23, Zenon DEF ReleaseUp, At, Goto, prio, local
  <2>2. arg[cur] \in AllSemas
    BY <2>1 DEF PlacementInv, LocalOK, Releasing, AllSemas
  <2>. QED  BY <1>0, <2>1, <2>2 DEF Waking, Downing, OthersStay
<1>. HIDE DEF Moved, Switched
<1>. QED
  BY <1>a, <1>c, <1>1, <1>2, <1>3, <1>4, <1>5, <1>6, <1>7, <1>8, <1>9, <1>10, <1>11,
     <1>12, <1>13, <1>14, <1>15, <1>16, <1>17, <1>18, <1>19, <1>20, <1>21, <1>22, <1>23, Zenon DEF Next, Step

(***************************************************************************)
(* The thread that sema_up takes off the waiters has the highest priority  *)
(* among them: the list is sorted again before its front is taken.         *)
(***************************************************************************)
THEOREM UpWakesTheHighest == Spec => WakesHighest
<1>. DEFINE Highest ==
       \A s \in AllSemas : \A t \in Elems(waiters[s]) \ Elems(waiters'[s]) :
         \A u \in Elems(waiters[s]) : priority[u] <= priority[t]
<1>1. ASSUME PlacementInv, Calm PROVE Highest
  BY <1>1 DEF Calm
<1>2. ASSUME PlacementInv, NEW s \in AllSemas, Testing(s) PROVE Highest
  <2>1. \A r \in AllSemas : Elems(waiters[r]) \subseteq Elems(waiters'[r])
    <3>1. waiters \in [AllSemas -> Seq(Thread)] /\ cur \in Thread
      BY <1>2, Zenon DEF PlacementInv, DataOK, SemasOK, Testing
    <3>2. waiters' = waiters \/ waiters' = [waiters EXCEPT ![s] = InsertOrdered(waiters[s], cur, priority)]
      BY <1>2 DEF Testing, SemaDown
    <3>3. Elems(InsertOrdered(waiters[s], cur, priority)) = Elems(waiters[s]) \cup {cur}
      BY <3>1, InsertProperties
    <3>. QED  BY <3>1, <3>2, <3>3, Zenon
  <2>. QED  BY <2>1
<1>3. ASSUME PlacementInv, NEW s \in AllSemas, Waking(s) PROVE Highest
  <2>1. SemaUp(s)
    BY <1>3 DEF Waking
  <2>2. CASE waiters' = waiters
    BY <2>2, Zenon
  <2>3. ASSUME NEW w \in Elems(waiters[s]),
               \A u \in Elems(waiters[s]) : priority[u] <= priority[w],
               Elems(waiters'[s]) = Elems(waiters[s]) \ {w},
               \A r \in AllSemas : r # s => waiters'[r] = waiters[r]
        PROVE  Highest
    BY <2>3, Zenon
  <2>. QED  BY <1>3, <2>1, <2>2, <2>3, WakeFacts, Zenon
<1>4. PlacementInv /\ [Next]_vars => [Highest]_vars
  BY <1>1, <1>2, <1>3, StepKinds
<1>. QED  BY <1>4, PlacementAlways, PTL DEF Spec, WakesHighest

(***************************************************************************)
(* After compare_cur_next_priority, at the end of sema_up, lock_release    *)
(* and thread_set_priority, no ready thread is above the running one.      *)
(***************************************************************************)
THEOREM UpLetsTheHighestRun == Spec => PreemptsAfterUp
<1>. DEFINE Preempts ==
       (\E s \in AllSemas : value'[s] > value[s]) \/ Resched =>
         \A t \in Elems(ready_list') : priority'[t] <= priority'[cur']
<1>1. ASSUME PlacementInv, Resched PROVE Preempts
  <2>1. Keyed(AllThreads, priority)
    <3>1. \A t \in AllThreads : priority[t] \in Int
      BY <1>1, PriorityInt DEF PlacementInv, DataOK, PriosOK, PRI_MIN
    <3>. QED  BY <3>1 DEF Keyed
  <2>2. CompareCurNext(status, ready_list, priority) /\ priority' = priority
    BY <1>1 DEF Resched, prio
  <2>3. \A t \in Elems(ready_list') : priority[t] <= priority[cur']
    BY <1>1, <2>1, <2>2, ComparePreempts DEF PlacementInv
  <2>. QED  BY <2>2, <2>3
<1>2. ASSUME PlacementInv, NEW s \in AllSemas, Waking(s) PROVE Preempts
  <2>1. SemaUp(s) /\ priority' = priority
    BY <1>2, Zenon DEF Waking
  <2>2. \A t \in Elems(ready_list') : priority[t] <= priority[cur']
    BY <1>2, <2>1, WakeFacts
  <2>. QED  BY <2>1, <2>2
<1>3. ASSUME PlacementInv, PlacementInv', Calm \/ \E s \in AllSemas : Testing(s)
      PROVE  \A r \in AllSemas : ~(value'[r] > value[r])
  <2>1. value \in [AllSemas -> Nat] /\ value' \in [AllSemas -> Nat]
    BY <1>3 DEF PlacementInv, DataOK, SemasOK
  <2>2. CASE Calm
    <3>1. ASSUME NEW r \in AllSemas PROVE ~(value'[r] > value[r])
      <4>1. value'[r] <= value[r]
        BY <2>2 DEF Calm
      <4>. QED  BY <4>1, <2>1
    <3>. QED  BY <3>1
  <2>3. ASSUME NEW s \in AllSemas, Testing(s) PROVE \A r \in AllSemas : ~(value'[r] > value[r])
    <3>1. value' = value \/ value' = [value EXCEPT ![s] = @ - 1]
      BY <2>3, Zenon DEF Testing, SemaDown
    <3>. QED  BY <2>1, <3>1
  <2>. QED  BY <1>3, <2>2, <2>3
<1>4. PlacementInv /\ PlacementInv' /\ [Next]_vars => [Preempts]_vars
  BY <1>1, <1>2, <1>3, StepKinds
<1>. QED  BY <1>4, PlacementAlways, PTL DEF Spec, PreemptsAfterUp

-----------------------------------------------------------------------------
(* The threads about to test a semaphore are finitely many, and only the   *)
(* running one and one that blocks can stop being one of them.             *)
LEMMA TestersFinite ==
  ASSUME NEW s \in AllSemas
  PROVE  /\ IsFiniteSet(Testers(s)) /\ Cardinality(Testers(s)) \in Nat
         /\ IsFiniteSet(Testers(s)') /\ Cardinality(Testers(s)') \in Nat
<1>1. Testers(s) \in SUBSET Thread /\ Testers(s)' \in SUBSET Thread
  BY DEF Testers
<1>. QED  BY <1>1, FiniteAssumption, FS_Subset, FS_CardinalityType, Zenon

LEMMA OthersTest ==
  ASSUME OthersStay, NEW s \in AllSemas,
         \A t \in Thread : status'[t] = "BLOCKED" => status[t] = "BLOCKED" \/ t = cur
  PROVE  Testers(s) \ {cur} \subseteq Testers(s)'
BY DEF OthersStay, Testers

(* A list has elements unless it is empty. *)
LEMMA ElemsEmpty ==
  ASSUME NEW S, NEW s \in Seq(S)
  PROVE  s = <<>> <=> Elems(s) = {}
<1>1. Len(s) \in Nat /\ (s # <<>> => Len(s) # 0)
  BY ListItems
<1>2. s # <<>> => s[1] \in Elems(s)
  BY <1>1 DEF Elems
<1>. QED  BY <1>2 DEF Elems

(* More threads test a semaphore, and its value has not grown. *)
LEMMA StillMatched ==
  ASSUME NEW s \in AllSemas, value[s] \in Nat, value'[s] \in Nat, value'[s] <= value[s],
         value[s] <= Cardinality(Testers(s)), Testers(s) \subseteq Testers(s)'
  PROVE  value'[s] <= Cardinality(Testers(s)')
<1>1. Cardinality(Testers(s)) <= Cardinality(Testers(s)')
  BY TestersFinite, FS_Subset, Zenon
<1>. QED  BY <1>1, TestersFinite

LEMMA CalmKeepsWakeups ==
  ASSUME PlacementInv, PlacementInv', NoLostWakeup, Calm
  PROVE  NoLostWakeup'
<1>. SUFFICES ASSUME NEW s \in AllSemas, waiters'[s] # <<>>
              PROVE  value'[s] <= Cardinality(Testers(s)')
  BY Zenon DEF NoLostWakeup
<1>1. /\ value[s] \in Nat /\ value'[s] \in Nat /\ waiters[s] \in Seq(Thread) /\ waiters'[s] \in Seq(Thread)
      /\ pc \in [Thread -> PC]
  BY Zenon DEF PlacementInv, DataOK, SemasOK, CodeOK
<1>2. waiters[s] # <<>> /\ value'[s] <= value[s]
  <2>1. Elems(waiters'[s]) # {}
    BY <1>1, ElemsEmpty
  <2>2. Elems(waiters[s]) # {}
    BY <2>1 DEF Calm
  <2>. QED  BY <1>1, <2>2, ElemsEmpty DEF Calm
<1>3. Testers(s) \subseteq Testers(s)'
  <2>1. Testers(s) \ {cur} \subseteq Testers(s)'
    BY OthersTest, Zenon DEF Calm
  <2>2. cur \in Testers(s) => cur \in Testers(s)'
    BY DEF Calm, Testers, Downing
  <2>. QED  BY <2>1, <2>2, Zenon
<1>4. value[s] <= Cardinality(Testers(s))
  BY <1>2, Zenon DEF NoLostWakeup
<1>. QED  BY <1>1, <1>2, <1>3, <1>4, StillMatched, Zenon

LEMMA TestKeepsWakeups ==
  ASSUME PlacementInv, PlacementInv', NoLostWakeup, NEW s \in AllSemas, Testing(s)
  PROVE  NoLostWakeup'
<1>. SUFFICES ASSUME NEW r \in AllSemas, waiters'[r] # <<>>
              PROVE  value'[r] <= Cardinality(Testers(r)')
  BY Zenon DEF NoLostWakeup
<1>1. /\ value \in [AllSemas -> Nat] /\ value'[r] \in Nat /\ waiters \in [AllSemas -> Seq(Thread)]
      /\ pc \in [Thread -> PC] /\ cur \in Thread /\ arg[cur] = s
  BY Zenon DEF PlacementInv, DataOK, SemasOK, CodeOK, Testing
<1>2. /\ OthersStay
      /\ \A t \in Thread : status'[t] = "BLOCKED" => status[t] = "BLOCKED" \/ t = cur
      /\ \/ value' = [value EXCEPT ![s] = @ - 1] /\ value[s] > 0 /\ waiters' = waiters
         \/ value' = value /\ value[s] = 0 /\ \A q \in AllSemas : q # s => waiters'[q] = waiters[q]
  <2>1. PICK next \in PC : SemaDown(s, next)
    BY Zenon DEF Testing
  <2>2. CASE value[s] > 0 /\ value' = [value EXCEPT ![s] = @ - 1] /\ Goto(next) /\ UNCHANGED <<sched, waiters>>
    BY <1>1, <2>2, Zenon DEF Testing, OthersStay, Goto, sched
  <2>3. CASE /\ value[s] = 0 /\ Block /\ UNCHANGED <<value, pc>>
             /\ waiters' = [waiters EXCEPT ![s] = InsertOrdered(@, cur, priority)]
    <3>1. \A t \in Thread : status'[t] = "BLOCKED" <=> status[t] = "BLOCKED" \/ t = cur
      BY <1>1, <2>3, BlockOK, Zenon DEF PlacementInv
    <3>. QED  BY <1>1, <2>3, <3>1, Zenon DEF Testing, OthersStay
  <2>. QED  BY <2>1, <2>2, <2>3 DEF SemaDown
<1>3. Testers(r) \ {cur} \subseteq Testers(r)'
  BY <1>2, OthersTest, Zenon
<1>4. CASE r # s
  <2>1. Testers(r) \subseteq Testers(r)'
    BY <1>1, <1>3, <1>4, Zenon DEF Testers
  <2>2. value'[r] = value[r] /\ waiters'[r] = waiters[r] /\ value[r] \in Nat
    BY <1>1, <1>2, <1>4
  <2>3. value[r] <= Cardinality(Testers(r))
    BY <2>2, Zenon DEF NoLostWakeup
  <2>4. value'[r] <= value[r]
    BY <2>2
  <2>. QED  BY <1>1, <2>1, <2>2, <2>3, <2>4, StillMatched, Zenon
<1>5. CASE r = s /\ value' = value /\ value[s] = 0
  <2>1. value'[r] = 0
    BY <1>5, Zenon
  <2>2. Cardinality(Testers(r)') \in Nat
    BY TestersFinite
  <2>. QED  BY <2>1, <2>2
<1>6. CASE r = s /\ value' = [value EXCEPT ![s] = @ - 1] /\ value[s] > 0 /\ waiters' = waiters
  <2>1. value'[r] = value[r] - 1 /\ value[r] \in Nat /\ waiters[r] # <<>>
    BY <1>1, <1>6
  <2>2. value[r] <= Cardinality(Testers(r))
    BY <2>1, Zenon DEF NoLostWakeup
  <2>3. /\ Cardinality(Testers(r) \ {cur}) >= Cardinality(Testers(r)) - 1
        /\ Cardinality(Testers(r) \ {cur}) \in Nat
    <3>1. IsFiniteSet(Testers(r)) /\ Cardinality(Testers(r)) \in Nat
      BY TestersFinite, Zenon
    <3>2. /\ IsFiniteSet(Testers(r) \ {cur})
          /\ \/ Cardinality(Testers(r) \ {cur}) = Cardinality(Testers(r)) - 1
             \/ Cardinality(Testers(r) \ {cur}) = Cardinality(Testers(r))
      BY <3>1, FS_RemoveElement, Zenon
    <3>3. Cardinality(Testers(r) \ {cur}) \in Nat
      BY <3>2, FS_CardinalityType, Zenon
    <3>. QED  BY <3>1, <3>2, <3>3
  <2>4. Cardinality(Testers(r) \ {cur}) <= Cardinality(Testers(r)')
    BY <1>3, TestersFinite, FS_Subset, Zenon
  <2>. QED  BY <2>1, <2>2, <2>3, <2>4, TestersFinite
<1>. QED  BY <1>2, <1>4, <1>5, <1>6

LEMMA WakeKeepsWakeups ==
  ASSUME PlacementInv, PlacementInv', NoLostWakeup, NEW s \in AllSemas, Waking(s)
  PROVE  NoLostWakeup'
<1>. SUFFICES ASSUME NEW r \in AllSemas, waiters'[r] # <<>>
              PROVE  value'[r] <= Cardinality(Testers(r)')
  BY DEF NoLostWakeup
<1>1. /\ value \in [AllSemas -> Nat] /\ value'[r] \in Nat /\ SemaUp(s) /\ OthersStay
      /\ cur \in Thread /\ pc[cur] \notin Downing
  BY DEF PlacementInv, DataOK, SemasOK, Waking
<1>2. /\ value' = [value EXCEPT ![s] = @ + 1]
      /\ \A t \in Thread : status'[t] = "BLOCKED" => status[t] = "BLOCKED"
      /\ \/ waiters[s] = <<>> /\ waiters' = waiters
         \/ \E w \in Elems(waiters[s]) :
              /\ w \in Thread /\ status'[w] # "BLOCKED"
              /\ \A q \in AllSemas : q # s => waiters'[q] = waiters[q]
  BY <1>1, WakeFacts, Zenon
<1>3. Testers(r) \subseteq Testers(r)'
  <2>1. Testers(r) \ {cur} \subseteq Testers(r)'
    BY <1>1, <1>2, OthersTest, Zenon
  <2>. QED  BY <1>1, <2>1, Zenon DEF Testers, Downing
<1>4. CASE r # s
  <2>1. value'[r] = value[r] /\ waiters'[r] = waiters[r] /\ value[r] \in Nat
    BY <1>1, <1>2, <1>4, Zenon
  <2>2. value[r] <= Cardinality(Testers(r))
    BY <2>1, Zenon DEF NoLostWakeup
  <2>. QED  BY <1>1, <1>3, <2>1, <2>2, StillMatched
<1>5. CASE r = s
  <2>1. PICK w \in Elems(waiters[s]) : w \in Thread /\ status'[w] # "BLOCKED"
    BY <1>2, <1>5, ZenonT(30)
  <2>2. waiters[s] # <<>> /\ value'[s] = value[s] + 1 /\ value[s] \in Nat
    BY <1>1, <1>2, <2>1 DEF Elems
  <2>3. status[w] = "BLOCKED" /\ pc[w] \in Downing /\ arg[w] = s /\ w # cur
    BY <1>1, <2>1, CurUnlisted, Zenon DEF PlacementInv, WaitersOK
  <2>4. w \notin Testers(s) /\ w \in Testers(s)'
    BY <1>1, <2>1, <2>3, Zenon DEF Testers, Downing, OthersStay
  <2>5. Cardinality(Testers(s) \cup {w}) = Cardinality(Testers(s)) + 1 /\ Cardinality(Testers(s)) \in Nat
    BY <2>4, TestersFinite, FS_AddElement, Zenon
  <2>6. Cardinality(Testers(s) \cup {w}) <= Cardinality(Testers(s)')
    BY <1>3, <1>5, <2>4, TestersFinite, FS_Subset, SMTT(30)
  <2>7. value[s] <= Cardinality(Testers(s))
    BY <2>2 DEF NoLostWakeup
  <2>. QED  BY <1>5, <2>2, <2>5, <2>6, <2>7, TestersFinite
<1>. QED  BY <1>4, <1>5

(***************************************************************************)
(* No wakeup is lost: while threads wait on a semaphore, a thread that has *)
(* been woken or has arrived is about to test for every unit of its value. *)
(* sema_up wakes one thread for the one it counts, and sema_down tests     *)
(* again after it has been woken.                                          *)
(***************************************************************************)
THEOREM WakeupsAreNotLost == Spec => []NoLostWakeup
<1>1. Init => NoLostWakeup
  BY DEF Init, NoLostWakeup
<1>2. PlacementInv /\ PlacementInv' /\ NoLostWakeup /\ [Next]_vars => NoLostWakeup'
  BY StepKinds, CalmKeepsWakeups, TestKeepsWakeups, WakeKeepsWakeups
<1>. QED  BY <1>1, <1>2, PlacementAlways, PTL DEF Spec
=============================================================================

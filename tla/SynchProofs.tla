---------------------------- MODULE SynchProofs ----------------------------
(***************************************************************************)
(* Proofs about module Synch, for every set of threads, locks, semaphores  *)
(* and priorities.                                                         *)
(***************************************************************************)
EXTENDS Synch, FiniteSetTheorems, TLAPS

(* A list is a function on its positions, and the other way round. *)
LEMMA ListItems ==
  ASSUME NEW S, NEW s \in Seq(S)
  PROVE  Len(s) \in Nat /\ s \in [1..Len(s) -> S] /\ \A i \in 1..Len(s) : s[i] \in S
OBVIOUS

LEMMA FunctionIsSeq ==
  ASSUME NEW S, NEW n \in Nat, NEW f \in [1..n -> S]
  PROVE  f \in Seq(S) /\ Len(f) = n
OBVIOUS

LEMMA ListWiden ==
  ASSUME NEW S, NEW T, S \subseteq T, NEW s \in Seq(S)
  PROVE  s \in Seq(T)
<1>1. Len(s) \in Nat /\ s \in [1..Len(s) -> T]
  BY ListItems
<1>. QED  BY <1>1, FunctionIsSeq

(* The front of a list and what is behind it. *)
LEMMA ListFront ==
  ASSUME NEW S, NEW s \in Seq(S), s # <<>>
  PROVE  /\ Len(s) \in Nat \ {0} /\ Head(s) \in S /\ Head(s) = s[1]
         /\ Tail(s) \in Seq(S) /\ Len(Tail(s)) = Len(s) - 1
         /\ \A i \in 1..Len(Tail(s)) : Tail(s)[i] = s[i + 1]
<1>1. Len(s) \in Nat /\ Len(s) # 0
  OBVIOUS
<1>2. Head(s) = s[1] /\ s[1] \in S
  BY <1>1
<1>3. Tail(s) \in Seq(S) /\ Len(Tail(s)) = Len(s) - 1
  BY <1>1
<1>4. \A i \in 1..Len(Tail(s)) : Tail(s)[i] = s[i + 1]
  BY <1>1
<1>. QED  BY <1>1, <1>2, <1>3, <1>4

(***************************************************************************)
(* Counting gives positions: if the sets P[i] are nested, and P[i] holds i *)
(* and differs for different i, then each size from 1 to Cardinality(I)    *)
(* occurs exactly once.                                                    *)
(***************************************************************************)
LEMMA Ranking ==
  ASSUME NEW I, IsFiniteSet(I), NEW P \in [I -> SUBSET I],
         \A i \in I : i \in P[i],
         \A i, j \in I : i # j => \/ P[i] \subseteq P[j] /\ j \notin P[i]
                                  \/ P[j] \subseteq P[i] /\ i \notin P[j]
  PROVE  /\ Cardinality(I) \in Nat
         /\ \A i \in I : Cardinality(P[i]) \in 1..Cardinality(I)
         /\ \A i, j \in I : Cardinality(P[i]) = Cardinality(P[j]) => i = j
         /\ \A i, j \in I : Cardinality(P[i]) < Cardinality(P[j]) => i \in P[j]
         /\ \A k \in 1..Cardinality(I) : \E i \in I : Cardinality(P[i]) = k
<1>. DEFINE n == Cardinality(I)
            r == [i \in I |-> Cardinality(P[i])]
<1>1. n \in Nat
  BY FS_CardinalityType
<1>2. \A i \in I : IsFiniteSet(P[i]) /\ Cardinality(P[i]) \in Nat
  BY FS_Subset, FS_CardinalityType
<1>3. \A i \in I : Cardinality(P[i]) \in 1..n
  <2>. TAKE i \in I
  <2>1. Cardinality(P[i]) <= n
    BY FS_Subset
  <2>2. Cardinality(P[i]) # 0
    BY <1>2, FS_EmptySet
  <2>. QED  BY <1>1, <1>2, <2>1, <2>2
<1>4. ASSUME NEW i \in I, NEW j \in I, P[i] \subseteq P[j], j \notin P[i]
      PROVE  Cardinality(P[i]) < Cardinality(P[j])
  <2>1. /\ Cardinality(P[i]) <= Cardinality(P[j])
        /\ Cardinality(P[j]) = Cardinality(P[i]) => P[j] = P[i]
    BY <1>2, <1>4, FS_Subset
  <2>2. P[i] # P[j]
    BY <1>4
  <2>. QED  BY <1>2, <2>1, <2>2
<1>5. \A i, j \in I : Cardinality(P[i]) = Cardinality(P[j]) => i = j
  BY <1>2, <1>4
<1>6. \A i, j \in I : Cardinality(P[i]) < Cardinality(P[j]) => i \in P[j]
  BY <1>2, <1>4
<1>7. ASSUME NEW k \in 1..n, \A i \in I : Cardinality(P[i]) # k
      PROVE  FALSE
  <2>1. IsFiniteSet(1..n) /\ Cardinality(1..n) = n
    BY <1>1, FS_Interval
  <2>2. IsFiniteSet((1..n) \ {k}) /\ Cardinality((1..n) \ {k}) = n - 1
    BY <1>7, <2>1, FS_RemoveElement, Zenon
  <2>3. Cardinality((1..n) \ {k}) < Cardinality(I)
    BY <1>1, <2>2
  <2>4. r \in [I -> (1..n) \ {k}]
    BY <1>3, <1>7
  <2>. HIDE DEF r, n
  <2>5. \E x, y \in I : x # y /\ r[x] = r[y]
    BY <2>2, <2>3, <2>4, FS_PigeonHole
  <2>. USE DEF r
  <2>. QED  BY <2>5, <1>5
<1>. QED  BY <1>1, <1>3, <1>5, <1>6, <1>7

(* Every element of S has a key. *)
Keyed(S, key) == \A e \in S : key[e] \in Int

(* list_sort: the ranks of the elements are the positions of the result. *)
LEMMA RankPositions ==
  ASSUME NEW S, NEW s \in Seq(S), NEW key, Keyed(S, key)
  PROVE  /\ \A i \in 1..Len(s) : Rank(s, key, i) \in 1..Len(s)
         /\ \A i, j \in 1..Len(s) : Rank(s, key, i) = Rank(s, key, j) => i = j
         /\ \A i, j \in 1..Len(s) :
              Rank(s, key, i) < Rank(s, key, j) => i \in Precedes(s, key, j)
         /\ \A k \in 1..Len(s) : \E i \in 1..Len(s) : Rank(s, key, i) = k
<1>. DEFINE I == 1..Len(s)
            P == [i \in I |-> Precedes(s, key, i)]
<1>1. Len(s) \in Nat /\ \A i \in I : key[s[i]] \in Int
  BY ListItems DEF Keyed
<1>2. IsFiniteSet(I) /\ Cardinality(I) = Len(s)
  <2>1. IsFiniteSet(I) /\ Cardinality(I) = IF 1 > Len(s) THEN 0 ELSE Len(s) - 1 + 1
    BY <1>1, FS_Interval
  <2>. QED  BY <1>1, <2>1
<1>3. P \in [I -> SUBSET I]
  BY DEF Precedes
<1>4. \A i \in I : i \in P[i]
  BY <1>1 DEF Precedes
<1>5. ASSUME NEW i \in I, NEW j \in I, i # j
      PROVE  \/ P[i] \subseteq P[j] /\ j \notin P[i]
             \/ P[j] \subseteq P[i] /\ i \notin P[j]
  <2>1. ASSUME NEW a \in I, NEW b \in I,
               key[s[a]] > key[s[b]] \/ (key[s[a]] = key[s[b]] /\ a < b)
        PROVE  P[a] \subseteq P[b] /\ b \notin P[a]
    <3>1. /\ a \in Int /\ b \in Int /\ key[s[a]] \in Int /\ key[s[b]] \in Int
          /\ \A m \in I : m \in Int /\ key[s[m]] \in Int
      BY <1>1
    <3>2. \A m \in I : key[s[m]] > key[s[a]] \/ (key[s[m]] = key[s[a]] /\ m <= a) =>
                       key[s[m]] > key[s[b]] \/ (key[s[m]] = key[s[b]] /\ m <= b)
      BY <2>1, <3>1
    <3>3. ~(key[s[b]] > key[s[a]] \/ (key[s[b]] = key[s[a]] /\ b <= a))
      BY <2>1, <3>1
    <3>4. /\ P[a] = {m \in I : key[s[m]] > key[s[a]] \/ (key[s[m]] = key[s[a]] /\ m <= a)}
          /\ P[b] = {m \in I : key[s[m]] > key[s[b]] \/ (key[s[m]] = key[s[b]] /\ m <= b)}
      BY Zenon DEF Precedes
    <3>. HIDE DEF I, P
    <3>. QED  BY <3>2, <3>3, <3>4, Zenon
  <2>2. \/ key[s[i]] > key[s[j]] \/ (key[s[i]] = key[s[j]] /\ i < j)
        \/ key[s[j]] > key[s[i]] \/ (key[s[j]] = key[s[i]] /\ j < i)
    <3>1. i \in Int /\ j \in Int /\ key[s[i]] \in Int /\ key[s[j]] \in Int
      BY <1>1
    <3>. QED  BY <1>5, <3>1
  <2>. QED  BY <2>1, <2>2, Zenon
<1>6. \A i \in I : Rank(s, key, i) = Cardinality(P[i])
  BY DEF Rank
<1>. HIDE DEF I, P
<1>7. /\ \A i \in I : Cardinality(P[i]) \in 1..Cardinality(I)
      /\ \A i, j \in I : Cardinality(P[i]) = Cardinality(P[j]) => i = j
      /\ \A i, j \in I : Cardinality(P[i]) < Cardinality(P[j]) => i \in P[j]
      /\ \A k \in 1..Cardinality(I) : \E i \in I : Cardinality(P[i]) = k
  BY <1>2, <1>3, <1>4, <1>5, Ranking
<1>. QED  BY <1>2, <1>6, <1>7 DEF I, P

(***************************************************************************)
(* list_sort keeps the elements, puts none on the list twice, and leaves   *)
(* the list in order.                                                      *)
(***************************************************************************)
LEMMA SortProperties ==
  ASSUME NEW S, NEW s \in Seq(S), NEW key, Keyed(S, key)
  PROVE  /\ Sort(s, key) \in Seq(S)
         /\ Len(Sort(s, key)) = Len(s)
         /\ Elems(Sort(s, key)) = Elems(s)
         /\ Once(s) => Once(Sort(s, key))
         /\ Sorted(Sort(s, key), key)
<1>. DEFINE n == Len(s)
            pos(k) == CHOOSE i \in 1..n : Rank(s, key, i) = k
            t == Sort(s, key)
<1>1. n \in Nat /\ \A i \in 1..n : s[i] \in S
  BY ListItems
<1>2. /\ \A i \in 1..n : Rank(s, key, i) \in 1..n
      /\ \A i, j \in 1..n : Rank(s, key, i) = Rank(s, key, j) => i = j
      /\ \A i, j \in 1..n : Rank(s, key, i) < Rank(s, key, j) => i \in Precedes(s, key, j)
      /\ \A k \in 1..n : \E i \in 1..n : Rank(s, key, i) = k
  BY RankPositions
<1>3. \A k \in 1..n : pos(k) \in 1..n /\ Rank(s, key, pos(k)) = k
  BY <1>2
<1>4. \A i \in 1..n : pos(Rank(s, key, i)) = i
  BY <1>2, <1>3
<1>5. t = [k \in 1..n |-> s[pos(k)]]
  BY DEF Sort
<1>. HIDE DEF pos, t, n
<1>6. t \in [1..n -> S]
  BY <1>1, <1>3, <1>5
<1>7. t \in Seq(S) /\ Len(t) = n
  BY <1>1, <1>6, FunctionIsSeq
<1>8. Elems(t) = Elems(s)
  <2>1. \A k \in 1..n : t[k] \in Elems(s)
    BY <1>3, <1>5 DEF Elems, n
  <2>2. \A i \in 1..n : \E k \in 1..n : s[i] = t[k]
    BY <1>2, <1>4, <1>5, SMTT(30)
  <2>. QED  BY <1>7, <2>1, <2>2 DEF Elems, n
<1>9. Once(s) => Once(t)
  BY <1>3, <1>5, <1>7 DEF Once, n
<1>10. Sorted(t, key)
  <2>. SUFFICES ASSUME NEW k \in 1..n, NEW l \in 1..n, k < l
                PROVE  key[t[k]] >= key[t[l]]
    BY <1>7 DEF Sorted
  <2>1. pos(k) \in Precedes(s, key, pos(l))
    BY <1>2, <1>3, SMTT(30)
  <2>2. key[s[pos(k)]] \in Int /\ key[s[pos(l)]] \in Int
    BY <1>1, <1>3, Zenon DEF Keyed
  <2>3. key[s[pos(k)]] >= key[s[pos(l)]]
    BY <2>1, <2>2 DEF Precedes
  <2>. QED  BY <1>5, <2>3
<1>. QED  BY <1>7, <1>8, <1>9, <1>10 DEF t, n

(***************************************************************************)
(* list_insert_ordered adds one element; on a list without repetitions, a  *)
(* new one.                                                                *)
(***************************************************************************)
LEMMA InsertProperties ==
  ASSUME NEW S, NEW s \in Seq(S), NEW x \in S, NEW key
  PROVE  /\ InsertOrdered(s, x, key) \in Seq(S)
         /\ Len(InsertOrdered(s, x, key)) = Len(s) + 1
         /\ Elems(InsertOrdered(s, x, key)) = Elems(s) \cup {x}
         /\ Once(s) /\ x \notin Elems(s) => Once(InsertOrdered(s, x, key))
<1>. DEFINE n == Len(s)
            at == InsertPoint(s, x, key)
            t == InsertOrdered(s, x, key)
            before == {i \in 1..n : \A j \in 1..i : key[s[j]] >= key[x]}
<1>1. n \in Nat /\ \A i \in 1..n : s[i] \in S
  BY ListItems
<1>2. IsFiniteSet(1..n) /\ Cardinality(1..n) = n
  <2>1. IsFiniteSet(1..n) /\ Cardinality(1..n) = IF 1 > n THEN 0 ELSE n - 1 + 1
    BY <1>1, FS_Interval
  <2>. QED  BY <1>1, <2>1
<1>3. IsFiniteSet(before) /\ Cardinality(before) <= n
  BY <1>2, FS_Subset
<1>4. Cardinality(before) \in Nat
  BY <1>3, FS_CardinalityType, Zenon
<1>5. at \in 1..(n + 1)
  BY <1>1, <1>3, <1>4 DEF InsertPoint
<1>6. t = [j \in 1..(n + 1) |-> IF j < at THEN s[j] ELSE IF j = at THEN x ELSE s[j - 1]]
  BY DEF InsertOrdered
<1>. HIDE DEF at, t, n, before
<1>7. t \in [1..(n + 1) -> S]
  BY <1>1, <1>5, <1>6
<1>8. t \in Seq(S) /\ Len(t) = n + 1
  BY <1>1, <1>7, FunctionIsSeq
<1>9. Elems(t) = Elems(s) \cup {x}
  <2>1. \A j \in 1..(n + 1) : t[j] \in Elems(s) \cup {x}
    BY <1>1, <1>5, <1>6 DEF Elems, n
  <2>2. t[at] = x
    BY <1>5, <1>6
  <2>3. \A i \in 1..n : IF i < at THEN t[i] = s[i] ELSE t[i + 1] = s[i]
    BY <1>1, <1>5, <1>6
  <2>4. \A i \in 1..n : i \in 1..(n + 1) /\ i + 1 \in 1..(n + 1)
    BY <1>1
  <2>. QED  BY <1>5, <1>8, <2>1, <2>2, <2>3, <2>4 DEF Elems, n
<1>10. Once(s) /\ x \notin Elems(s) => Once(t)
  <2>. SUFFICES ASSUME Once(s), x \notin Elems(s),
                       NEW i \in 1..(n + 1), NEW j \in 1..(n + 1), t[i] = t[j]
                PROVE  i = j
    BY <1>8 DEF Once
  <2>1. \A k \in 1..n : s[k] # x
    BY DEF Elems, n
  <2>2. \A k, l \in 1..n : s[k] = s[l] => k = l
    BY DEF Once, n
  <2>. QED  BY <1>1, <1>5, <1>6, <2>1, <2>2
<1>. QED  BY <1>8, <1>9, <1>10 DEF t, n

(* list_pop_front removes the front and nothing else. *)
LEMMA PopProperties ==
  ASSUME NEW S, NEW s \in Seq(S), s # <<>>
  PROVE  /\ Head(s) \in S /\ Head(s) = s[1] /\ Head(s) \in Elems(s)
         /\ Tail(s) \in Seq(S)
         /\ Elems(Tail(s)) \subseteq Elems(s)
         /\ Elems(s) \subseteq Elems(Tail(s)) \cup {Head(s)}
         /\ Once(s) => Once(Tail(s)) /\ Elems(Tail(s)) = Elems(s) \ {Head(s)}
<1>1. /\ Len(s) \in Nat \ {0} /\ Head(s) \in S /\ Head(s) = s[1]
      /\ Tail(s) \in Seq(S) /\ Len(Tail(s)) = Len(s) - 1
      /\ \A i \in 1..Len(Tail(s)) : Tail(s)[i] = s[i + 1]
  BY ListFront
<1>2. \A i \in 1..Len(s) : i = 1 \/ (i - 1 \in 1..Len(Tail(s)) /\ s[i] = Tail(s)[i - 1])
  BY <1>1
<1>3. \A i \in 1..Len(Tail(s)) : i + 1 \in 1..Len(s) /\ i + 1 # 1
  BY <1>1
<1>4. 1 \in 1..Len(s)
  BY <1>1
<1>5. Elems(Tail(s)) \subseteq Elems(s)
  BY <1>1, <1>3 DEF Elems
<1>6. Elems(s) \subseteq Elems(Tail(s)) \cup {Head(s)}
  BY <1>1, <1>2 DEF Elems
<1>7. ASSUME Once(s) PROVE Once(Tail(s)) /\ Head(s) \notin Elems(Tail(s))
  <2>1. Once(Tail(s))
    BY <1>1, <1>3, <1>7 DEF Once
  <2>2. Head(s) \notin Elems(Tail(s))
    BY <1>1, <1>3, <1>4, <1>7 DEF Once, Elems
  <2>. QED  BY <2>1, <2>2
<1>8. Head(s) \in Elems(s)
  BY <1>1, <1>4 DEF Elems
<1>. QED  BY <1>1, <1>5, <1>6, <1>7, <1>8

(* The loop that removes elements keeps only elements of the list. *)
LEMMA FilterProperties ==
  ASSUME NEW S, NEW s \in Seq(S), NEW keep \in SUBSET (1..Len(s))
  PROVE  Filter(s, keep) \in Seq(S)
<1>. DEFINE P == [i \in keep |-> UpTo(keep, i)]
            pos(k) == CHOOSE i \in keep : Cardinality(UpTo(keep, i)) = k
<1>1. Len(s) \in Nat /\ \A i \in 1..Len(s) : s[i] \in S
  BY ListItems
<1>2. IsFiniteSet(keep)
  <2>1. IsFiniteSet(1..Len(s))
    BY <1>1, FS_Interval
  <2>. QED  BY <2>1, FS_Subset, Zenon
<1>3. P \in [keep -> SUBSET keep] /\ \A i \in keep : i \in P[i]
  BY <1>1 DEF UpTo
<1>4. ASSUME NEW i \in keep, NEW j \in keep, i # j
      PROVE  \/ P[i] \subseteq P[j] /\ j \notin P[i]
             \/ P[j] \subseteq P[i] /\ i \notin P[j]
  <2>1. i \in Int /\ j \in Int /\ \A k \in keep : k \in Int
    BY <1>1
  <2>2. P[i] = {k \in keep : k <= i} /\ P[j] = {k \in keep : k <= j}
    BY DEF UpTo
  <2>. HIDE DEF P
  <2>3. CASE i < j
    <3>1. \A k \in keep : k <= i => k <= j
      BY <2>1, <2>3
    <3>2. ~ (j <= i)
      BY <2>1, <2>3
    <3>. QED  BY <2>2, <3>1, <3>2, Zenon
  <2>4. CASE j < i
    <3>1. \A k \in keep : k <= j => k <= i
      BY <2>1, <2>4
    <3>2. ~ (i <= j)
      BY <2>1, <2>4
    <3>. QED  BY <2>2, <3>1, <3>2, Zenon
  <2>. QED  BY <1>4, <2>1, <2>3, <2>4
<1>5. \A i \in keep : P[i] = UpTo(keep, i)
  OBVIOUS
<1>. HIDE DEF P
<1>6. /\ Cardinality(keep) \in Nat
      /\ \A k \in 1..Cardinality(keep) : \E i \in keep : Cardinality(P[i]) = k
  BY <1>2, <1>3, <1>4, Ranking
<1>7. \A k \in 1..Cardinality(keep) : pos(k) \in keep
  BY <1>5, <1>6
<1>8. Filter(s, keep) = [k \in 1..Cardinality(keep) |-> s[pos(k)]]
  BY DEF Filter
<1>. HIDE DEF pos
<1>9. Filter(s, keep) \in [1..Cardinality(keep) -> S]
  BY <1>1, <1>7, <1>8, Zenon
<1>. QED  BY <1>6, <1>9, FunctionIsSeq
-----------------------------------------------------------------------------
Status == {"NONE", "READY", "RUNNING", "BLOCKED"}
Acquiring == {"acq_check", "acq_scan", "acq_donate", "acq_insert", "acq_down", "acq_hold"}
Releasing == {"rel_donations", "rel_recalc", "rel_holder", "rel_up"}
Downing == {"down", "acq_down", "cond_down"}

(* The running thread, the statuses and the ready list fit together. *)
SchedOK(c, st, ready) ==
  /\ c \in AllThreads
  /\ st \in [AllThreads -> Status]
  /\ ready \in Seq(Thread)
  /\ Once(ready)
  /\ \A t \in AllThreads : st[t] = "RUNNING" <=> t = c
  /\ \A t \in Thread : st[t] = "READY" <=> t \in Elems(ready)

(* The rest of the type invariant, in groups; the priorities of a thread   *)
(* that is not idle are in Priority.                                       *)
PriosOK ==
  /\ priority \in [AllThreads -> Priority \cup {PRI_MIN}]
  /\ original_priority \in [AllThreads -> Priority \cup {PRI_MIN}]
  /\ \A t \in Thread : priority[t] \in Priority /\ original_priority[t] \in Priority

SemasOK == value \in [AllSemas -> Nat] /\ waiters \in [AllSemas -> Seq(Thread)]

LinksOK ==
  /\ holder \in [Lock -> Thread \cup {NULL}]
  /\ donations \in [Thread -> Seq(Donation)]
  /\ pending_lock \in [Thread -> Lock \cup {NULL}]

CodeOK ==
  /\ pc \in [Thread -> PC]
  /\ arg \in [Thread -> AllSemas \cup {NULL}]
  /\ ret \in [Thread -> {"run"}]
  /\ calls \in [Thread -> Nat]

TempsOK ==
  /\ pending \in [Thread -> Lock \cup {NULL}]
  /\ donee \in [Thread -> Thread \cup {NULL}]
  /\ donate \in [Thread -> Donation \cup {NULL}]

DataOK == PriosOK /\ SemasOK /\ LinksOK /\ CodeOK /\ TempsOK

(* What the locals of a thread hold where it uses them. *)
LocalOK ==
  \A t \in Thread :
    /\ pc[t] \in {"run", "resched", "down", "exit"} \cup Acquiring \cup Releasing
    /\ pc[t] \in Acquiring \cup Releasing => arg[t] \in Lock
    /\ pc[t] = "down" => arg[t] \in Sema
    /\ pc[t] \in {"acq_scan", "acq_donate", "acq_insert"} => pending[t] \in Lock
    /\ pc[t] \in {"acq_donate", "acq_insert"} => donee[t] \in Thread
    /\ pc[t] = "acq_insert" => donate[t] \in Donation

WaitersOK ==
  /\ \A s \in AllSemas : Once(waiters[s])
  /\ \A t \in Thread, s \in AllSemas :
       t \in Elems(waiters[s]) <=> /\ status[t] = "BLOCKED"
                                   /\ pc[t] \in Downing
                                   /\ arg[t] = s

PlacementInv == SchedOK(cur, status, ready_list) /\ DataOK /\ LocalOK /\ WaitersOK

(* Priorities are numbers, so they can be sorted on. *)
LEMMA PriorityInt == \A p \in Priority : p \in Int
BY PriorityAssumption

LEMMA PriorityKeyed ==
  ASSUME DataOK
  PROVE  Keyed(Thread, priority)
<1>1. \A t \in Thread : priority[t] \in Priority
  BY DEF DataOK, PriosOK
<1>. QED  BY <1>1, PriorityInt DEF Keyed

(* The effective priority is the base one or that of a donation. *)
LEMMA EffectiveOK ==
  ASSUME NEW base \in Priority, NEW ds \in Seq(Donation)
  PROVE  Effective(base, ds) \in Priority
<1>1. CASE ds = <<>>
  BY <1>1 DEF Effective
<1>2. CASE ds # <<>>
  <2>1. Head(ds) \in Donation
    BY <1>2, ListFront
  <2>. QED  BY <2>1 DEF Effective, Donation
<1>. QED  BY <1>1, <1>2

(***************************************************************************)
(* schedule: the caller has marked the running thread as something else.   *)
(***************************************************************************)
LEMMA ScheduleOK ==
  ASSUME NEW STATE st, NEW STATE ready,
         st \in [AllThreads -> Status], ready \in Seq(Thread), Once(ready),
         \A t \in AllThreads : st[t] # "RUNNING",
         \A t \in Thread : st[t] = "READY" <=> t \in Elems(ready),
         Schedule(st, ready)
  PROVE  /\ SchedOK(cur', status', ready_list')
         /\ \A t \in Thread : status'[t] = "BLOCKED" <=> st[t] = "BLOCKED"
<1>1. CASE ready = <<>>
  <2>1. cur' = Idle /\ ready_list' = <<>> /\ status' = [st EXCEPT ![Idle] = "RUNNING"]
    BY <1>1 DEF Schedule
  <2>2. Elems(ready) = {}
    BY <1>1 DEF Elems
  <2>. QED  BY <1>1, <2>1, <2>2, ThreadAssumption DEF SchedOK, AllThreads, Status
<1>2. CASE ready # <<>>
  <2>1. cur' = Head(ready) /\ ready_list' = Tail(ready) /\ status' = [st EXCEPT ![Head(ready)] = "RUNNING"]
    BY <1>2 DEF Schedule
  <2>2. /\ Head(ready) \in Thread /\ Head(ready) \in Elems(ready)
        /\ Tail(ready) \in Seq(Thread) /\ Once(Tail(ready))
        /\ Elems(Tail(ready)) = Elems(ready) \ {Head(ready)}
    BY <1>2, PopProperties
  <2>. QED  BY <2>1, <2>2 DEF SchedOK, AllThreads, Status
<1>. QED  BY <1>1, <1>2

(* thread_yield *)
LEMMA YieldOK ==
  ASSUME NEW STATE st, NEW STATE ready, NEW STATE pr,
         SchedOK(cur, st, ready), Yield(st, ready, pr)
  PROVE  /\ SchedOK(cur', status', ready_list')
         /\ \A t \in Thread : status'[t] = "BLOCKED" <=> st[t] = "BLOCKED"
<1>. DEFINE st2 == [st EXCEPT ![cur] = "READY"]
            ready2 == IF cur = Idle THEN ready ELSE InsertOrdered(ready, cur, pr)
<1>1. st2 \in [AllThreads -> Status] /\ \A t \in AllThreads : st2[t] # "RUNNING"
  BY DEF SchedOK, Status
<1>2. /\ ready2 \in Seq(Thread) /\ Once(ready2)
      /\ \A t \in Thread : st2[t] = "READY" <=> t \in Elems(ready2)
  <2>1. CASE cur = Idle
    BY <2>1, ThreadAssumption DEF SchedOK, AllThreads
  <2>2. CASE cur # Idle
    <3>1. cur \in Thread /\ cur \notin Elems(ready)
      BY <2>2 DEF SchedOK, AllThreads
    <3>2. /\ ready2 \in Seq(Thread) /\ Once(ready2)
          /\ Elems(ready2) = Elems(ready) \cup {cur}
      BY <2>2, <3>1, InsertProperties DEF SchedOK
    <3>. QED  BY <3>1, <3>2 DEF SchedOK, AllThreads
  <2>. QED  BY <2>1, <2>2
<1>3. Schedule(st2, ready2)
  BY DEF Yield
<1>4. \A t \in Thread : st2[t] = "BLOCKED" <=> st[t] = "BLOCKED"
  BY DEF SchedOK, AllThreads
<1>. HIDE DEF st2, ready2
<1>. QED  BY <1>1, <1>2, <1>3, <1>4, ScheduleOK

(* thread_block *)
LEMMA BlockOK ==
  ASSUME SchedOK(cur, status, ready_list), cur \in Thread, Block
  PROVE  /\ SchedOK(cur', status', ready_list')
         /\ \A t \in Thread : status'[t] = "BLOCKED" <=> status[t] = "BLOCKED" \/ t = cur
<1>. DEFINE st2 == [status EXCEPT ![cur] = "BLOCKED"]
<1>1. st2 \in [AllThreads -> Status] /\ \A t \in AllThreads : st2[t] # "RUNNING"
  BY DEF SchedOK, Status
<1>2. /\ ready_list \in Seq(Thread) /\ Once(ready_list)
      /\ \A t \in Thread : st2[t] = "READY" <=> t \in Elems(ready_list)
  BY DEF SchedOK, AllThreads
<1>3. Schedule(st2, ready_list)
  BY DEF Block
<1>4. \A t \in Thread : st2[t] = "BLOCKED" <=> status[t] = "BLOCKED" \/ t = cur
  BY DEF SchedOK, AllThreads
<1>. HIDE DEF st2
<1>. QED  BY <1>1, <1>2, <1>3, <1>4, ScheduleOK

(* compare_cur_next_priority *)
LEMMA CompareOK ==
  ASSUME NEW STATE st, NEW STATE ready, NEW STATE pr,
         SchedOK(cur, st, ready), Keyed(Thread, pr), CompareCurNext(st, ready, pr)
  PROVE  /\ SchedOK(cur', status', ready_list')
         /\ \A t \in Thread : status'[t] = "BLOCKED" <=> st[t] = "BLOCKED"
<1>. DEFINE sorted == Sort(ready, pr)
<1>1. sorted \in Seq(Thread) /\ Elems(sorted) = Elems(ready) /\ Once(sorted)
  BY SortProperties DEF SchedOK
<1>2. SchedOK(cur, st, sorted)
  BY <1>1 DEF SchedOK
<1>3. \/ Yield(st, sorted, pr)
      \/ cur' = cur /\ ready_list' = sorted /\ status' = st
  BY DEF CompareCurNext
<1>. HIDE DEF sorted
<1>4. CASE Yield(st, sorted, pr)
  BY <1>2, <1>4, YieldOK
<1>5. CASE cur' = cur /\ ready_list' = sorted /\ status' = st
  BY <1>2, <1>5
<1>. QED  BY <1>3, <1>4, <1>5

(* thread_unblock of a blocked or a new thread *)
LEMMA UnblockOK ==
  ASSUME NEW STATE st, NEW STATE ready, NEW STATE t, NEW STATE pr,
         SchedOK(cur, st, ready), t \in Thread, st[t] \in {"BLOCKED", "NONE"}
  PROVE  SchedOK(cur, [st EXCEPT ![t] = "READY"], ReadyWith(t, ready, pr))
<1>. DEFINE st2 == [st EXCEPT ![t] = "READY"]
            ready2 == InsertOrdered(ready, t, pr)
<1>1. t \notin Elems(ready)
  BY DEF SchedOK
<1>2. ready2 \in Seq(Thread) /\ Once(ready2) /\ Elems(ready2) = Elems(ready) \cup {t}
  BY <1>1, InsertProperties DEF SchedOK
<1>3. st2 \in [AllThreads -> Status]
  BY Zenon DEF SchedOK, Status
<1>4. \A u \in AllThreads : st2[u] = "RUNNING" <=> u = cur
  BY DEF SchedOK, AllThreads
<1>5. \A u \in Thread : st2[u] = "READY" <=> u \in Elems(ready2)
  BY <1>2 DEF SchedOK, AllThreads
<1>. HIDE DEF st2, ready2
<1>6. SchedOK(cur, st2, ready2)
  BY <1>2, <1>3, <1>4, <1>5 DEF SchedOK
<1>. QED  BY <1>6 DEF ReadyWith, st2, ready2

(* The running thread is on no list. *)
LEMMA CurUnlisted ==
  ASSUME PlacementInv, cur \in Thread
  PROVE  /\ status[cur] = "RUNNING"
         /\ \A s \in AllSemas : cur \notin Elems(waiters[s])
BY DEF PlacementInv, SchedOK, WaitersOK, AllThreads

(* Only the running thread moves in the code and in its locals. *)
OthersStay == \A t \in Thread : t # cur => pc'[t] = pc[t] /\ arg'[t] = arg[t]

(***************************************************************************)
(* A step that blocks and wakes nobody keeps the waiters in place, also if *)
(* it sorts some of them.                                                  *)
(***************************************************************************)
LEMMA WaitersKept ==
  ASSUME PlacementInv, OthersStay,
         \A s \in AllSemas : Once(waiters'[s]) /\ Elems(waiters'[s]) = Elems(waiters[s]),
         \A t \in Thread : status'[t] = "BLOCKED" <=> status[t] = "BLOCKED"
  PROVE  WaitersOK'
<1>. SUFFICES ASSUME NEW t \in Thread, NEW s \in AllSemas
              PROVE  t \in Elems(waiters'[s]) <=> /\ status'[t] = "BLOCKED"
                                                  /\ pc'[t] \in Downing
                                                  /\ arg'[t] = s
  BY DEF WaitersOK, Downing
<1>1. CASE t = cur
  BY <1>1, CurUnlisted
<1>2. CASE t # cur
  BY <1>2 DEF OthersStay, PlacementInv, WaitersOK
<1>. QED  BY <1>1, <1>2

LEMMA QuietOK ==
  ASSUME PlacementInv, OthersStay, UNCHANGED <<sched, waiters>>
  PROVE  SchedOK(cur, status, ready_list)' /\ WaitersOK'
<1>1. cur' = cur /\ status' = status /\ ready_list' = ready_list /\ waiters' = waiters
  BY DEF sched
<1>2. SchedOK(cur, status, ready_list)'
  BY <1>1 DEF PlacementInv, SchedOK
<1>3. \A s \in AllSemas : Once(waiters'[s]) /\ Elems(waiters'[s]) = Elems(waiters[s])
  BY <1>1 DEF PlacementInv, WaitersOK
<1>. QED  BY <1>1, <1>2, <1>3, WaitersKept

(* A change of the running thread, and of nothing else. *)
LEMMA SwitchOK ==
  ASSUME PlacementInv, UNCHANGED <<prio, semas, holder, pc, local>>,
         SchedOK(cur', status', ready_list'),
         \A t \in Thread : status'[t] = "BLOCKED" <=> status[t] = "BLOCKED"
  PROVE  PlacementInv'
<1>1. DataOK' /\ LocalOK'
  BY Zenon DEF PlacementInv, DataOK, PriosOK, SemasOK, LinksOK, CodeOK, TempsOK, LocalOK, prio, semas, local
<1>2. OthersStay /\ \A s \in AllSemas : Once(waiters'[s]) /\ Elems(waiters'[s]) = Elems(waiters[s])
  BY DEF OthersStay, PlacementInv, WaitersOK, semas, local
<1>. QED  BY <1>1, <1>2, WaitersKept DEF PlacementInv

(* sema_up *)
LEMMA SemaUpOK ==
  ASSUME PlacementInv, OthersStay, NEW STATE s, s \in AllSemas, SemaUp(s)
  PROVE  /\ SchedOK(cur, status, ready_list)'
         /\ WaitersOK'
         /\ waiters' \in [AllSemas -> Seq(Thread)]
         /\ value' = [value EXCEPT ![s] = @ + 1]
<1>. DEFINE sorted == Sort(waiters[s], priority)
            w == Head(sorted)
<1>1. /\ sorted \in Seq(Thread) /\ Elems(sorted) = Elems(waiters[s]) /\ Once(sorted)
  <2>1. waiters[s] \in Seq(Thread) /\ Once(waiters[s])
    BY DEF PlacementInv, DataOK, SemasOK, WaitersOK
  <2>2. Keyed(Thread, priority)
    BY PriorityKeyed DEF PlacementInv
  <2>. QED  BY <2>1, <2>2, SortProperties
<1>2. Keyed(Thread, priority)
  BY PriorityKeyed DEF PlacementInv
<1>3. waiters \in [AllSemas -> Seq(Thread)]
  BY DEF PlacementInv, DataOK, SemasOK
<1>4. value' = [value EXCEPT ![s] = @ + 1]
  BY DEF SemaUp
<1>5. CASE sorted = <<>>
  <2>1. CompareCurNext(status, ready_list, priority) /\ waiters' = waiters
    BY <1>5 DEF SemaUp
  <2>2. /\ SchedOK(cur', status', ready_list')
        /\ \A t \in Thread : status'[t] = "BLOCKED" <=> status[t] = "BLOCKED"
    BY <1>2, <2>1, CompareOK, Zenon DEF PlacementInv
  <2>3. \A r \in AllSemas : Once(waiters'[r]) /\ Elems(waiters'[r]) = Elems(waiters[r])
    BY <2>1 DEF PlacementInv, WaitersOK
  <2>. QED  BY <1>3, <1>4, <2>1, <2>2, <2>3, WaitersKept
<1>6. CASE sorted # <<>>
  <2>1. /\ w \in Thread /\ w \in Elems(waiters[s])
        /\ Tail(sorted) \in Seq(Thread) /\ Once(Tail(sorted))
        /\ Elems(Tail(sorted)) = Elems(waiters[s]) \ {w}
    BY <1>1, <1>6, PopProperties
  <2>2. status[w] = "BLOCKED" /\ arg[w] = s /\ pc[w] \in Downing
    BY <2>1 DEF PlacementInv, WaitersOK
  <2>. DEFINE st2 == [status EXCEPT ![w] = "READY"]
              ready2 == ReadyWith(w, ready_list, priority)
  <2>3. CompareCurNext(st2, ready2, priority) /\ waiters' = [waiters EXCEPT ![s] = Tail(sorted)]
    BY <1>6 DEF SemaUp
  <2>4. SchedOK(cur, st2, ready2)
    BY <2>1, <2>2, UnblockOK DEF PlacementInv
  <2>5. \A t \in Thread : st2[t] = "BLOCKED" <=> status[t] = "BLOCKED" /\ t # w
    BY <2>1, <2>2 DEF PlacementInv, SchedOK, AllThreads
  <2>. HIDE DEF st2, ready2, w, sorted
  <2>6. /\ SchedOK(cur', status', ready_list')
        /\ \A t \in Thread : status'[t] = "BLOCKED" <=> st2[t] = "BLOCKED"
    BY <1>2, <2>3, <2>4, CompareOK
  <2>7. waiters' \in [AllSemas -> Seq(Thread)]
    BY <1>3, <2>1, <2>3
  <2>8. \A r \in AllSemas : Once(waiters'[r])
    BY <1>3, <2>1, <2>3 DEF PlacementInv, WaitersOK
  <2>9. ASSUME NEW t \in Thread, NEW r \in AllSemas
        PROVE  t \in Elems(waiters'[r]) <=> /\ status'[t] = "BLOCKED"
                                            /\ pc'[t] \in Downing
                                            /\ arg'[t] = r
    <3>1. t \in Elems(waiters'[r]) <=> t \in Elems(waiters[r]) /\ ~(r = s /\ t = w)
      BY <1>3, <2>1, <2>3
    <3>2. status'[t] = "BLOCKED" <=> status[t] = "BLOCKED" /\ t # w
      BY <2>5, <2>6
    <3>3. CASE t = cur
      BY <3>1, <3>2, <3>3, CurUnlisted
    <3>4. CASE t # cur
      <4>1. t \in Elems(waiters[r]) <=> /\ status[t] = "BLOCKED"
                                        /\ pc[t] \in Downing
                                        /\ arg[t] = r
        BY DEF PlacementInv, WaitersOK
      <4>. QED  BY <2>2, <3>1, <3>2, <3>4, <4>1 DEF OthersStay
    <3>. QED  BY <3>3, <3>4
  <2>10. WaitersOK'
    BY <2>8, <2>9, Zenon DEF WaitersOK, Downing
  <2>. QED  BY <1>4, <2>6, <2>7, <2>10
<1>. QED  BY <1>5, <1>6

(* One turn of sema_down's loop. *)
LEMMA SemaDownOK ==
  ASSUME PlacementInv, cur \in Thread, pc[cur] \in Downing, arg[cur] \in AllSemas,
         NEW next, SemaDown(arg[cur], next), arg' = arg
  PROVE  /\ SchedOK(cur, status, ready_list)'
         /\ WaitersOK'
         /\ waiters' \in [AllSemas -> Seq(Thread)]
         /\ value' \in [AllSemas -> Nat]
         /\ pc' = pc \/ pc' = [pc EXCEPT ![cur] = next]
<1>. DEFINE s == arg[cur]
<1>1. waiters \in [AllSemas -> Seq(Thread)] /\ value \in [AllSemas -> Nat] /\ pc \in [Thread -> PC]
  BY DEF PlacementInv, DataOK, SemasOK, CodeOK
<1>2. CASE /\ value[s] > 0 /\ value' = [value EXCEPT ![s] = @ - 1]
           /\ Goto(next) /\ UNCHANGED <<sched, waiters>>
  <2>1. pc' = [pc EXCEPT ![cur] = next]
    BY <1>2 DEF Goto
  <2>2. OthersStay
    BY <1>1, <2>1 DEF OthersStay
  <2>3. value' \in [AllSemas -> Nat]
    BY <1>1, <1>2
  <2>. QED  BY <1>1, <1>2, <2>1, <2>2, <2>3, QuietOK
<1>3. CASE /\ value[s] = 0
           /\ waiters' = [waiters EXCEPT ![s] = InsertOrdered(@, cur, priority)]
           /\ Block /\ UNCHANGED <<value, pc>>
  <2>. DEFINE ws == InsertOrdered(waiters[s], cur, priority)
  <2>1. cur \notin Elems(waiters[s])
    BY CurUnlisted
  <2>2. ws \in Seq(Thread) /\ Once(ws) /\ Elems(ws) = Elems(waiters[s]) \cup {cur}
    <3>1. waiters[s] \in Seq(Thread) /\ Once(waiters[s])
      BY <1>1 DEF PlacementInv, WaitersOK
    <3>. QED  BY <2>1, <3>1, InsertProperties
  <2>3. waiters' = [waiters EXCEPT ![s] = ws]
    BY <1>3
  <2>. HIDE DEF ws
  <2>4. waiters' \in [AllSemas -> Seq(Thread)]
    BY <1>1, <2>2, <2>3, Zenon
  <2>5. /\ SchedOK(cur', status', ready_list')
        /\ \A t \in Thread : status'[t] = "BLOCKED" <=> status[t] = "BLOCKED" \/ t = cur
    BY <1>3, BlockOK, Zenon DEF PlacementInv
  <2>6. \A r \in AllSemas : Once(waiters'[r])
    BY <1>1, <2>2, <2>3, Zenon DEF PlacementInv, WaitersOK
  <2>7. ASSUME NEW t \in Thread, NEW r \in AllSemas
        PROVE  t \in Elems(waiters'[r]) <=> /\ status'[t] = "BLOCKED"
                                            /\ pc'[t] \in Downing
                                            /\ arg'[t] = r
    <3>1. t \in Elems(waiters'[r]) <=> t \in Elems(waiters[r]) \/ (r = s /\ t = cur)
      BY <1>1, <2>2, <2>3, Zenon
    <3>2. t \in Elems(waiters[r]) <=> /\ status[t] = "BLOCKED"
                                      /\ pc[t] \in Downing
                                      /\ arg[t] = r
      BY DEF PlacementInv, WaitersOK
    <3>. QED  BY <1>3, <2>5, <3>1, <3>2
  <2>8. WaitersOK'
    BY <2>6, <2>7 DEF WaitersOK, Downing
  <2>. QED  BY <1>1, <1>3, <2>4, <2>5, <2>8, Zenon
<1>. QED  BY <1>2, <1>3 DEF SemaDown

(* A call counts down, and is made only while the count allows it. *)
LEMMA CallsOK ==
  ASSUME CodeOK, Call
  PROVE  calls' \in [Thread -> Nat]
<1>1. calls \in [Thread -> Nat]
  BY Zenon DEF CodeOK
<1>2. cur \in Thread /\ calls[cur] > 0 /\ calls' = [calls EXCEPT ![cur] = @ - 1]
  BY Zenon DEF Call, At
<1>. QED  BY <1>1, <1>2

(***************************************************************************)
(* Every step of the scheduler and of the primitives keeps the threads,    *)
(* the lists and the locals in order.                                      *)
(***************************************************************************)
LEMMA PlacementStep ==
  ASSUME PlacementInv, [Next]_vars
  PROVE  PlacementInv'
<1>. USE DEF Acquiring, Releasing
<1>1. ASSUME NEW p \in NewPriority, ThreadSetPriority(p) PROVE PlacementInv'
  <2>1. OthersStay /\ UNCHANGED <<sched, waiters>>
    BY <1>1 DEF ThreadSetPriority, OthersStay, PlacementInv, DataOK, CodeOK, Call, Goto, At, sched, prio, semas, local
  <2>2. PriosOK'
    <3>1. p \in Priority /\ cur \in Thread /\ donations[cur] \in Seq(Donation)
      BY <1>1, PriorityAssumption DEF ThreadSetPriority, Call, At, PlacementInv, DataOK, LinksOK
    <3>2. Effective(p, donations[cur]) \in Priority
      BY <3>1, EffectiveOK
    <3>3. /\ priority' = [priority EXCEPT ![cur] = Effective(p, donations[cur])]
          /\ original_priority' = [original_priority EXCEPT ![cur] = p]
      BY <1>1, Zenon DEF ThreadSetPriority
    <3>. QED  BY <3>1, <3>2, <3>3 DEF PlacementInv, DataOK, PriosOK, AllThreads
  <2>3. SemasOK'
    BY <1>1, PriorityAssumption, Zenon DEF ThreadSetPriority, PlacementInv, DataOK, SemasOK, LocalOK, AllSemas, Call, Goto, At, sched, prio, semas, local
  <2>4. LinksOK'
    BY <1>1, PriorityAssumption, Zenon DEF ThreadSetPriority, PlacementInv, DataOK, LinksOK, LocalOK, Call, Goto, At, sched, prio, semas, local
  <2>5. CodeOK'
    BY <1>1, CallsOK, Zenon DEF ThreadSetPriority, PlacementInv, DataOK, CodeOK, PC, Goto
  <2>6. TempsOK'
    BY <1>1, PriorityAssumption, Zenon DEF ThreadSetPriority, PlacementInv, DataOK, TempsOK, LocalOK, Call, Goto, At, sched, prio, semas, local
  <2>7. LocalOK'
    BY <1>1, PriorityAssumption DEF ThreadSetPriority, PlacementInv, DataOK, CodeOK, TempsOK, LinksOK, LocalOK, AllSemas, Call, Goto, At, sched, prio, semas, local
  <2>. QED  BY <2>1, <2>2, <2>3, <2>4, <2>5, <2>6, <2>7, QuietOK DEF PlacementInv, DataOK
<1>2. ASSUME NEW s \in UserSema, CallDown(s) PROVE PlacementInv'
  <2>1. OthersStay /\ UNCHANGED <<sched, waiters>>
    BY <1>2, Zenon DEF CallDown, OthersStay, PlacementInv, DataOK, CodeOK, Call, Goto, At, sched, prio, semas, local
  <2>2. PriosOK'
    BY <1>2, SemaAssumption DEF CallDown, PlacementInv, DataOK, PriosOK, LocalOK, AllThreads, Call, Goto, At, sched, prio, semas, local
  <2>3. SemasOK'
    BY <1>2, SemaAssumption, Zenon DEF CallDown, PlacementInv, DataOK, SemasOK, LocalOK, AllSemas, Call, Goto, At, sched, prio, semas, local
  <2>4. LinksOK'
    BY <1>2, SemaAssumption, Zenon DEF CallDown, PlacementInv, DataOK, LinksOK, LocalOK, Call, Goto, At, sched, prio, semas, local
  <2>5. CodeOK'
    BY <1>2, CallsOK, SemaAssumption, Zenon DEF CallDown, PlacementInv, DataOK, CodeOK, AllSemas, PC, Goto
  <2>6. TempsOK'
    BY <1>2, SemaAssumption, Zenon DEF CallDown, PlacementInv, DataOK, TempsOK, LocalOK, Call, Goto, At, sched, prio, semas, local
  <2>7. LocalOK'
    BY <1>2, SemaAssumption DEF CallDown, PlacementInv, DataOK, CodeOK, TempsOK, LinksOK, LocalOK, AllSemas, Call, Goto, At, sched, prio, semas, local
  <2>. QED  BY <2>1, <2>2, <2>3, <2>4, <2>5, <2>6, <2>7, QuietOK DEF PlacementInv, DataOK
<1>3. ASSUME NEW s \in UserSema, TryDown(s) PROVE PlacementInv'
  <2>1. OthersStay /\ UNCHANGED <<sched, waiters>>
    BY <1>3, Zenon DEF TryDown, OthersStay, PlacementInv, DataOK, CodeOK, Call, Goto, At, sched, prio, semas, local
  <2>2. PriosOK'
    BY <1>3, SemaAssumption, Zenon DEF TryDown, PlacementInv, DataOK, PriosOK, LocalOK, AllThreads, Call, Goto, At, sched, prio, semas, local
  <2>3. SemasOK'
    <3>1. s \in AllSemas /\ value \in [AllSemas -> Nat] /\ waiters \in [AllSemas -> Seq(Thread)]
      BY SemaAssumption, Zenon DEF AllSemas, PlacementInv, DataOK, SemasOK
    <3>2. value' = [value EXCEPT ![s] = IF @ > 0 THEN @ - 1 ELSE @] /\ waiters' = waiters
      BY <1>3, Zenon DEF TryDown
    <3>. QED  BY <3>1, <3>2 DEF SemasOK
  <2>4. LinksOK'
    BY <1>3, SemaAssumption, Zenon DEF TryDown, PlacementInv, DataOK, LinksOK, LocalOK, Call, Goto, At, sched, prio, semas, local
  <2>5. CodeOK'
    BY <1>3, CallsOK, Zenon DEF TryDown, PlacementInv, DataOK, CodeOK
  <2>6. TempsOK'
    BY <1>3, SemaAssumption, Zenon DEF TryDown, PlacementInv, DataOK, TempsOK, LocalOK, Call, Goto, At, sched, prio, semas, local
  <2>7. LocalOK'
    BY <1>3, SemaAssumption DEF TryDown, PlacementInv, DataOK, CodeOK, TempsOK, LinksOK, LocalOK, AllSemas, Call, Goto, At, sched, prio, semas, local
  <2>. QED  BY <2>1, <2>2, <2>3, <2>4, <2>5, <2>6, <2>7, QuietOK DEF PlacementInv, DataOK
<1>4. ASSUME NEW l \in Lock, CallAcquire(l) PROVE PlacementInv'
  <2>1. OthersStay /\ UNCHANGED <<sched, waiters>>
    BY <1>4, Zenon DEF CallAcquire, OthersStay, PlacementInv, DataOK, CodeOK, Call, Goto, At, sched, prio, semas, local
  <2>2. PriosOK'
    BY <1>4, Zenon DEF CallAcquire, PlacementInv, DataOK, PriosOK, LocalOK, AllThreads, Call, Goto, At, sched, prio, semas, local
  <2>3. SemasOK'
    BY <1>4, Zenon DEF CallAcquire, PlacementInv, DataOK, SemasOK, LocalOK, AllSemas, Call, Goto, At, sched, prio, semas, local
  <2>4. LinksOK'
    BY <1>4, Zenon DEF CallAcquire, PlacementInv, DataOK, LinksOK, LocalOK, Call, Goto, At, sched, prio, semas, local
  <2>5. CodeOK'
    BY <1>4, CallsOK, Zenon DEF CallAcquire, PlacementInv, DataOK, CodeOK, AllSemas, PC, Goto
  <2>6. TempsOK'
    BY <1>4, Zenon DEF CallAcquire, PlacementInv, DataOK, TempsOK, LocalOK, Call, Goto, At, sched, prio, semas, local
  <2>7. LocalOK'
    BY <1>4 DEF CallAcquire, PlacementInv, DataOK, CodeOK, TempsOK, LinksOK, LocalOK, AllSemas, Call, Goto, At, sched, prio, semas, local
  <2>. QED  BY <2>1, <2>2, <2>3, <2>4, <2>5, <2>6, <2>7, QuietOK, Zenon DEF PlacementInv, DataOK
<1>5. ASSUME AcquireCheck PROVE PlacementInv'
  <2>1. OthersStay /\ UNCHANGED <<sched, waiters>>
    BY <1>5, Zenon DEF AcquireCheck, OthersStay, PlacementInv, DataOK, CodeOK, Goto, At, sched, prio, semas, local
  <2>2. PriosOK'
    BY <1>5, NullAssumption, Zenon DEF AcquireCheck, PlacementInv, DataOK, PriosOK, LocalOK, AllThreads, Goto, At, sched, prio, semas, local
  <2>3. SemasOK'
    BY <1>5, NullAssumption DEF AcquireCheck, PlacementInv, DataOK, SemasOK, LocalOK, AllSemas, Goto, At, sched, prio, semas, local
  <2>4. LinksOK'
    BY <1>5, NullAssumption, Zenon DEF AcquireCheck, PlacementInv, DataOK, LinksOK, LocalOK, Goto, At, sched, prio, semas, local
  <2>5. CodeOK'
    BY <1>5, NullAssumption DEF AcquireCheck, PlacementInv, DataOK, CodeOK, LocalOK, AllSemas, PC, Goto, At, sched, prio, semas, local
  <2>6. TempsOK'
    <3>1. /\ arg[cur] \in Lock /\ UNCHANGED <<donee, donate>>
          /\ pending' = pending \/ pending' = [pending EXCEPT ![cur] = arg[cur]]
      BY <1>5, Zenon DEF AcquireCheck, PlacementInv, LocalOK, At
    <3>. QED  BY <3>1, Zenon DEF PlacementInv, DataOK, TempsOK
  <2>7. LocalOK'
    <3>1. /\ cur \in Thread /\ arg[cur] \in Lock /\ UNCHANGED <<arg, donee, donate>>
          /\ \/ pc' = [pc EXCEPT ![cur] = "acq_scan"] /\ pending' = [pending EXCEPT ![cur] = arg[cur]]
             \/ pc' = [pc EXCEPT ![cur] = "acq_down"] /\ pending' = pending
      BY <1>5, Zenon DEF AcquireCheck, PlacementInv, LocalOK, At, Goto
    <3>2. pc \in [Thread -> PC] /\ pending \in [Thread -> Lock \cup {NULL}]
      BY Zenon DEF PlacementInv, DataOK, CodeOK, TempsOK
    <3>. QED  BY <3>1, <3>2 DEF PlacementInv, LocalOK
  <2>. QED  BY <2>1, <2>2, <2>3, <2>4, <2>5, <2>6, <2>7, QuietOK, Zenon DEF PlacementInv, DataOK
<1>6. ASSUME AcquireScan PROVE PlacementInv'
  <2>1. OthersStay /\ UNCHANGED <<sched, waiters>>
    BY <1>6, Zenon DEF AcquireScan, OthersStay, PlacementInv, DataOK, CodeOK, Goto, At, sched, prio, semas, local
  <2>2. PriosOK'
    BY <1>6, NullAssumption, Zenon DEF AcquireScan, PlacementInv, DataOK, PriosOK, LocalOK, AllThreads, Goto, At, sched, prio, semas, local
  <2>3. SemasOK'
    BY <1>6, NullAssumption, Zenon DEF AcquireScan, PlacementInv, DataOK, SemasOK, LocalOK, AllSemas, Goto, At, sched, prio, semas, local
  <2>4. LinksOK'
    BY <1>6, NullAssumption, Zenon DEF AcquireScan, PlacementInv, DataOK, LinksOK, LocalOK, Goto, At, sched, prio, semas, local
  <2>5. CodeOK'
    <3>1. /\ pc' = [pc EXCEPT ![cur] = "acq_down"] \/ pc' = [pc EXCEPT ![cur] = "acq_donate"]
          /\ UNCHANGED <<arg, ret, calls>>
      BY <1>6, Zenon DEF AcquireScan, Goto
    <3>. QED  BY <3>1, Zenon DEF PlacementInv, DataOK, CodeOK, PC
  <2>6. TempsOK'
    <3>1. cur \in Thread /\ pending[cur] \in Lock
      BY <1>6, Zenon DEF AcquireScan, At, PlacementInv, LocalOK
    <3>2. holder[pending[cur]] \in Thread \cup {NULL}
      BY <3>1, Zenon DEF PlacementInv, DataOK, LinksOK
    <3>. QED  BY <1>6, <3>1, <3>2 DEF AcquireScan, PlacementInv, DataOK, TempsOK, local
  <2>7. LocalOK'
    BY <1>6, NullAssumption DEF AcquireScan, PlacementInv, DataOK, CodeOK, TempsOK, LinksOK, LocalOK, AllSemas, Goto, At, sched, prio, semas, local
  <2>. QED  BY <2>1, <2>2, <2>3, <2>4, <2>5, <2>6, <2>7, QuietOK DEF PlacementInv, DataOK
<1>7. ASSUME AcquireDonate PROVE PlacementInv'
  <2>1. OthersStay /\ UNCHANGED <<sched, waiters>>
    BY <1>7 DEF AcquireDonate, OthersStay, PlacementInv, DataOK, CodeOK, Goto, At, sched, prio, semas, local
  <2>2. PriosOK'
    BY <1>7, Zenon DEF AcquireDonate, PlacementInv, DataOK, PriosOK, LocalOK, AllThreads, Goto, At, sched, prio, semas, local
  <2>3. SemasOK'
    BY <1>7, Zenon DEF AcquireDonate, PlacementInv, DataOK, SemasOK, LocalOK, AllSemas, Goto, At, sched, prio, semas, local
  <2>4. LinksOK'
    BY <1>7, Zenon DEF AcquireDonate, PlacementInv, DataOK, LinksOK, LocalOK, Goto, At, sched, prio, semas, local
  <2>5. CodeOK'
    BY <1>7, Zenon DEF AcquireDonate, PlacementInv, DataOK, CodeOK, LocalOK, AllSemas, PC, Goto, At, sched, prio, semas, local
  <2>6. TempsOK'
    <3>1. /\ cur \in Thread /\ pending[cur] \in Lock
          /\ [donor |-> cur, lock |-> pending[cur], priority |-> priority[cur]] \in Donation
      BY <1>7, Zenon DEF AcquireDonate, At, PlacementInv, LocalOK, DataOK, PriosOK, Donation
    <3>. QED  BY <1>7, <3>1 DEF AcquireDonate, PlacementInv, DataOK, TempsOK
  <2>7. LocalOK'
    <3>1. /\ cur \in Thread /\ pending[cur] \in Lock
          /\ [donor |-> cur, lock |-> pending[cur], priority |-> priority[cur]] \in Donation
      BY <1>7, Zenon DEF AcquireDonate, At, PlacementInv, LocalOK, DataOK, PriosOK, Donation
    <3>2. donate \in [Thread -> Donation \cup {NULL}] /\ pc \in [Thread -> PC]
      BY DEF PlacementInv, DataOK, TempsOK, CodeOK
    <3>. QED  BY <1>7, <3>1, <3>2 DEF AcquireDonate, At, Goto, PlacementInv, LocalOK
  <2>. QED  BY <2>1, <2>2, <2>3, <2>4, <2>5, <2>6, <2>7, QuietOK, Zenon DEF PlacementInv, DataOK
<1>8. ASSUME AcquireHold PROVE PlacementInv'
  <2>1. OthersStay /\ UNCHANGED <<sched, waiters>>
    BY <1>8 DEF AcquireHold, OthersStay, PlacementInv, DataOK, CodeOK, Goto, At, sched, prio, semas, local
  <2>2. PriosOK'
    BY <1>8, Zenon DEF AcquireHold, PlacementInv, DataOK, PriosOK, LocalOK, AllThreads, Goto, At, sched, prio, semas, local
  <2>3. SemasOK'
    BY <1>8, Zenon DEF AcquireHold, PlacementInv, DataOK, SemasOK, LocalOK, AllSemas, Goto, At, sched, prio, semas, local
  <2>4. LinksOK'
    BY <1>8, Zenon DEF AcquireHold, PlacementInv, DataOK, LinksOK, LocalOK, Goto, At, sched, prio, semas, local
  <2>5. CodeOK'
    BY <1>8, Zenon DEF AcquireHold, PlacementInv, DataOK, CodeOK, LocalOK, AllSemas, PC, Goto, At, sched, prio, semas, local
  <2>6. TempsOK'
    BY <1>8, Zenon DEF AcquireHold, PlacementInv, DataOK, TempsOK, LocalOK, Goto, At, sched, prio, semas, local
  <2>7. LocalOK'
    BY <1>8 DEF AcquireHold, PlacementInv, DataOK, CodeOK, TempsOK, LinksOK, LocalOK, AllSemas, Goto, At, sched, prio, semas, local
  <2>. QED  BY <2>1, <2>2, <2>3, <2>4, <2>5, <2>6, <2>7, QuietOK, Zenon DEF PlacementInv, DataOK
<1>9. ASSUME NEW l \in Lock, LockTryAcquire(l) PROVE PlacementInv'
  <2>1. OthersStay /\ UNCHANGED <<sched, waiters>>
    BY <1>9, Zenon DEF LockTryAcquire, OthersStay, PlacementInv, DataOK, CodeOK, Call, Goto, At, sched, prio, semas, local
  <2>2. PriosOK'
    BY <1>9 DEF LockTryAcquire, PlacementInv, DataOK, PriosOK, LocalOK, AllThreads, Call, Goto, At, sched, prio, semas, local
  <2>3. SemasOK'
    <3>1. l \in AllSemas /\ value \in [AllSemas -> Nat] /\ waiters' = waiters
      BY <1>9 DEF LockTryAcquire, PlacementInv, DataOK, SemasOK, AllSemas
    <3>2. value' = value \/ (value[l] > 0 /\ value' = [value EXCEPT ![l] = @ - 1])
      BY <1>9 DEF LockTryAcquire
    <3>3. value' \in [AllSemas -> Nat]
      BY <3>1, <3>2
    <3>. QED  BY <3>1, <3>3 DEF PlacementInv, DataOK, SemasOK
  <2>4. LinksOK'
    BY <1>9, Zenon DEF LockTryAcquire, PlacementInv, DataOK, LinksOK, LocalOK, Call, Goto, At, sched, prio, semas, local
  <2>5. CodeOK'
    <3>1. /\ UNCHANGED <<pc, arg, ret>> \/ (/\ pc' = [pc EXCEPT ![cur] = "acq_hold"]
                                            /\ arg' = [arg EXCEPT ![cur] = l]
                                            /\ ret' = [ret EXCEPT ![cur] = "run"])
          /\ calls' \in [Thread -> Nat]
      BY <1>9, CallsOK, Zenon DEF LockTryAcquire, Goto, PlacementInv, DataOK
    <3>. QED  BY <3>1, Zenon DEF PlacementInv, DataOK, CodeOK, AllSemas, PC
  <2>6. TempsOK'
    BY <1>9, Zenon DEF LockTryAcquire, PlacementInv, DataOK, TempsOK, LocalOK, Call, Goto, At, sched, prio, semas, local
  <2>7. LocalOK'
    BY <1>9 DEF LockTryAcquire, PlacementInv, DataOK, CodeOK, TempsOK, LinksOK, LocalOK, AllSemas, Call, Goto, At, sched, prio, semas, local
  <2>. QED  BY <2>1, <2>2, <2>3, <2>4, <2>5, <2>6, <2>7, QuietOK, Zenon DEF PlacementInv, DataOK
<1>10. ASSUME NEW l \in Lock, CallRelease(l) PROVE PlacementInv'
  <2>1. OthersStay /\ UNCHANGED <<sched, waiters>>
    BY <1>10 DEF CallRelease, OthersStay, PlacementInv, DataOK, CodeOK, Goto, At, sched, prio, semas, local
  <2>2. PriosOK'
    BY <1>10, Zenon DEF CallRelease, PlacementInv, DataOK, PriosOK, LocalOK, AllThreads, Goto, At, sched, prio, semas, local
  <2>3. SemasOK'
    BY <1>10, Zenon DEF CallRelease, PlacementInv, DataOK, SemasOK, LocalOK, AllSemas, Goto, At, sched, prio, semas, local
  <2>4. LinksOK'
    BY <1>10, Zenon DEF CallRelease, PlacementInv, DataOK, LinksOK, LocalOK, Goto, At, sched, prio, semas, local
  <2>5. CodeOK'
    BY <1>10, Zenon DEF CallRelease, PlacementInv, DataOK, CodeOK, LocalOK, AllSemas, PC, Goto, At, sched, prio, semas, local
  <2>6. TempsOK'
    BY <1>10, Zenon DEF CallRelease, PlacementInv, DataOK, TempsOK, LocalOK, Goto, At, sched, prio, semas, local
  <2>7. LocalOK'
    BY <1>10 DEF CallRelease, PlacementInv, DataOK, CodeOK, TempsOK, LinksOK, LocalOK, AllSemas, Goto, At, sched, prio, semas, local
  <2>. QED  BY <2>1, <2>2, <2>3, <2>4, <2>5, <2>6, <2>7, QuietOK, Zenon DEF PlacementInv, DataOK
<1>11. ASSUME ReleaseHolder PROVE PlacementInv'
  <2>1. OthersStay /\ UNCHANGED <<sched, waiters>>
    BY <1>11 DEF ReleaseHolder, OthersStay, PlacementInv, DataOK, CodeOK, Goto, At, sched, prio, semas, local
  <2>2. PriosOK'
    BY <1>11, Zenon DEF ReleaseHolder, PlacementInv, DataOK, PriosOK, LocalOK, AllThreads, Goto, At, sched, prio, semas, local
  <2>3. SemasOK'
    BY <1>11, Zenon DEF ReleaseHolder, PlacementInv, DataOK, SemasOK, LocalOK, AllSemas, Goto, At, sched, prio, semas, local
  <2>4. LinksOK'
    BY <1>11, Zenon DEF ReleaseHolder, PlacementInv, DataOK, LinksOK, LocalOK, Goto, At, sched, prio, semas, local
  <2>5. CodeOK'
    BY <1>11, Zenon DEF ReleaseHolder, PlacementInv, DataOK, CodeOK, LocalOK, AllSemas, PC, Goto, At, sched, prio, semas, local
  <2>6. TempsOK'
    BY <1>11, Zenon DEF ReleaseHolder, PlacementInv, DataOK, TempsOK, LocalOK, Goto, At, sched, prio, semas, local
  <2>7. LocalOK'
    BY <1>11 DEF ReleaseHolder, PlacementInv, DataOK, CodeOK, TempsOK, LinksOK, LocalOK, AllSemas, Goto, At, sched, prio, semas, local
  <2>. QED  BY <2>1, <2>2, <2>3, <2>4, <2>5, <2>6, <2>7, QuietOK, Zenon DEF PlacementInv, DataOK
<1>12. ASSUME ReleaseDonations PROVE PlacementInv'
  <2>1. OthersStay /\ UNCHANGED <<sched, waiters>>
    BY <1>12 DEF ReleaseDonations, OthersStay, PlacementInv, DataOK, CodeOK, Goto, At, sched, semas, local
  <2>. DEFINE kept == {i \in 1..Len(donations[cur]) : donations[cur][i].lock # arg[cur]}
              left == Filter(donations[cur], kept)
  <2>2. left \in Seq(Donation)
    <3>1. donations[cur] \in Seq(Donation)
      BY <1>12, Zenon DEF ReleaseDonations, At, PlacementInv, DataOK, LinksOK
    <3>2. kept \in SUBSET (1..Len(donations[cur]))
      BY Zenon
    <3>. HIDE DEF kept
    <3>. QED  BY <3>1, <3>2, FilterProperties, Zenon
  <2>3. donations' = [donations EXCEPT ![cur] = left]
    BY <1>12, Zenon DEF ReleaseDonations
  <2>. HIDE DEF left
  <2>4. DataOK'
    BY <1>12, <2>2, <2>3, ZenonT(30) DEF ReleaseDonations, PlacementInv, DataOK, PriosOK, SemasOK, LinksOK, CodeOK, TempsOK, PC, Goto, At, sched, semas, local
  <2>5. LocalOK'
    BY <1>12 DEF ReleaseDonations, PlacementInv, DataOK, CodeOK, TempsOK, LocalOK, Goto, At, local
  <2>. QED  BY <2>1, <2>4, <2>5, QuietOK, Zenon DEF PlacementInv
<1>13. ASSUME ReleaseRecalc PROVE PlacementInv'
  <2>1. OthersStay /\ UNCHANGED <<sched, waiters>>
    BY <1>13 DEF ReleaseRecalc, OthersStay, PlacementInv, DataOK, CodeOK, Goto, At, sched, semas, local
  <2>. DEFINE sorted == Sort(donations[cur], DonationKey(donations[cur]))
  <2>2. cur \in Thread /\ donations[cur] \in Seq(Donation)
    BY <1>13, Zenon DEF ReleaseRecalc, At, PlacementInv, DataOK, LinksOK
  <2>3. sorted \in Seq(Donation)
    <3>. DEFINE ds == donations[cur]
    <3>1. ds \in Seq(Elems(ds)) /\ Elems(ds) \subseteq Donation
      BY <2>2 DEF Elems
    <3>2. Keyed(Elems(ds), DonationKey(ds))
      <4>1. \A d \in Elems(ds) : DonationKey(ds)[d] = d.priority
        BY DEF DonationKey
      <4>2. \A d \in Donation : d.priority \in Int
        BY PriorityInt DEF Donation
      <4>. QED  BY <3>1, <4>1, <4>2 DEF Keyed
    <3>3. sorted \in Seq(Elems(ds))
      BY <3>1, <3>2, SortProperties, Zenon
    <3>. QED  BY <3>1, <3>3, ListWiden
  <2>4. Effective(original_priority[cur], sorted) \in Priority
    <3>1. original_priority[cur] \in Priority
      BY <2>2, Zenon DEF PlacementInv, DataOK, PriosOK
    <3>. QED  BY <2>3, <3>1, EffectiveOK
  <2>5. /\ donations' = [donations EXCEPT ![cur] = sorted]
        /\ priority' = [priority EXCEPT ![cur] = Effective(original_priority[cur], sorted)]
    BY <1>13, Zenon DEF ReleaseRecalc
  <2>. HIDE DEF sorted
  <2>6. DataOK'
    <3>1. /\ UNCHANGED <<original_priority, pending_lock, semas, holder, local>>
          /\ pc' = [pc EXCEPT ![cur] = "rel_holder"]
      BY <1>13, Zenon DEF ReleaseRecalc, Goto
    <3>2. PriosOK'
      BY <2>2, <2>4, <2>5, <3>1 DEF PlacementInv, DataOK, PriosOK, AllThreads
    <3>3. SemasOK' /\ LinksOK' /\ CodeOK' /\ TempsOK'
      BY <2>3, <2>5, <3>1, Zenon DEF PlacementInv, DataOK, SemasOK, LinksOK, CodeOK, TempsOK, PC, semas, local
    <3>. QED  BY <3>2, <3>3, Zenon DEF DataOK
  <2>7. LocalOK'
    BY <1>13 DEF ReleaseRecalc, PlacementInv, DataOK, CodeOK, TempsOK, LocalOK, Goto, At, local
  <2>. QED  BY <2>1, <2>6, <2>7, QuietOK, Zenon DEF PlacementInv
<1>14. ASSUME AcquireInsert PROVE PlacementInv'
  <2>. DEFINE h == donee[cur]
              d == donate[cur]
              next == pending_lock[h]
              ds == InsertOrdered(donations[h], d, DonationKey(Append(donations[h], d)))
              ws == Sort(waiters[next], priority)
  <2>1. /\ cur \in Thread /\ h \in Thread /\ d \in Donation /\ next \in Lock \cup {NULL}
        /\ pc[cur] = "acq_insert" /\ arg[cur] \in Lock
    BY <1>14, Zenon DEF AcquireInsert, At, PlacementInv, LocalOK, DataOK, LinksOK
  <2>2. /\ donations' = [donations EXCEPT ![h] = ds]
        /\ waiters' = IF next = NULL THEN waiters ELSE [waiters EXCEPT ![next] = ws]
        /\ pending' = [pending EXCEPT ![cur] = next]
        /\ pc' = [pc EXCEPT ![cur] = IF next = NULL THEN "acq_down" ELSE "acq_scan"]
        /\ donee' = [donee EXCEPT ![cur] = NULL]
        /\ donate' = [donate EXCEPT ![cur] = NULL]
        /\ UNCHANGED <<sched, priority, original_priority, pending_lock, value, holder, arg, ret, calls>>
    BY <1>14, Zenon DEF AcquireInsert, Goto
  <2>3. ds \in Seq(Donation)
    <3>1. donations[h] \in Seq(Donation)
      BY <2>1, Zenon DEF PlacementInv, DataOK, LinksOK
    <3>. QED  BY <2>1, <3>1, InsertProperties, Zenon
  <2>4. next # NULL => /\ next \in AllSemas /\ ws \in Seq(Thread) /\ Once(ws)
                       /\ Elems(ws) = Elems(waiters[next])
    <3>. SUFFICES ASSUME next # NULL
                  PROVE  /\ next \in AllSemas /\ ws \in Seq(Thread) /\ Once(ws)
                         /\ Elems(ws) = Elems(waiters[next])
      OBVIOUS
    <3>1. next \in AllSemas /\ waiters[next] \in Seq(Thread) /\ Once(waiters[next])
      BY <2>1, Zenon DEF PlacementInv, DataOK, SemasOK, WaitersOK, AllSemas
    <3>2. Keyed(Thread, priority)
      BY PriorityKeyed DEF PlacementInv
    <3>. HIDE DEF next
    <3>. QED  BY <3>1, <3>2, SortProperties, Zenon
  <2>. HIDE DEF ds, ws, h, d, next
  <2>5. waiters \in [AllSemas -> Seq(Thread)] /\ pc \in [Thread -> PC]
    BY Zenon DEF PlacementInv, DataOK, SemasOK, CodeOK
  <2>6. OthersStay
    BY <2>2, <2>5 DEF OthersStay
  <2>7. \A s \in AllSemas : Once(waiters'[s]) /\ Elems(waiters'[s]) = Elems(waiters[s])
    BY <2>2, <2>4, <2>5, Zenon DEF PlacementInv, WaitersOK
  <2>8. SchedOK(cur, status, ready_list)' /\ status' = status
    BY <2>2, Zenon DEF PlacementInv, SchedOK, sched
  <2>9. WaitersOK'
    BY <2>6, <2>7, <2>8, WaitersKept, Zenon
  <2>10. SemasOK'
    BY <2>2, <2>4, <2>5 DEF PlacementInv, DataOK, SemasOK
  <2>11. PriosOK' /\ LinksOK'
    BY <2>1, <2>2, <2>3, Zenon DEF PlacementInv, DataOK, PriosOK, LinksOK
  <2>12. CodeOK' /\ TempsOK'
    BY <2>1, <2>2 DEF PlacementInv, DataOK, CodeOK, TempsOK, PC
  <2>13. LocalOK'
    <3>1. pending \in [Thread -> Lock \cup {NULL}] /\ donee \in [Thread -> Thread \cup {NULL}]
          /\ donate \in [Thread -> Donation \cup {NULL}]
      BY Zenon DEF PlacementInv, DataOK, TempsOK
    <3>. QED  BY <2>1, <2>2, <2>5, <3>1, Zenon DEF PlacementInv, LocalOK
  <2>. QED  BY <2>8, <2>9, <2>10, <2>11, <2>12, <2>13 DEF PlacementInv, DataOK
<1>15. ASSUME NEW t \in Thread, ThreadCreate(t) PROVE PlacementInv'
  <2>. DEFINE st == [status EXCEPT ![t] = "READY"]
              ready == ReadyWith(t, ready_list, priority)
  <2>1. SchedOK(cur, st, ready)
    BY <1>15, UnblockOK, Zenon DEF ThreadCreate, PlacementInv
  <2>2. \A u \in Thread : st[u] = "BLOCKED" <=> status[u] = "BLOCKED"
    BY <1>15, Zenon DEF ThreadCreate, PlacementInv, SchedOK, AllThreads
  <2>3. Yield(st, ready, priority) \/ (cur' = cur /\ ready_list' = ready /\ status' = st)
    BY <1>15, Zenon DEF ThreadCreate
  <2>. HIDE DEF st, ready
  <2>4. /\ SchedOK(cur', status', ready_list')
        /\ \A u \in Thread : status'[u] = "BLOCKED" <=> st[u] = "BLOCKED"
    BY <2>1, <2>3, YieldOK, Zenon
  <2>5. UNCHANGED <<prio, semas, holder, pc, local>>
    BY <1>15, Zenon DEF ThreadCreate
  <2>. QED  BY <2>2, <2>4, <2>5, SwitchOK, Zenon
<1>16. ASSUME TimerYield PROVE PlacementInv'
  <2>1. /\ SchedOK(cur', status', ready_list')
        /\ \A u \in Thread : status'[u] = "BLOCKED" <=> status[u] = "BLOCKED"
    BY <1>16, YieldOK DEF TimerYield, PlacementInv
  <2>2. UNCHANGED <<prio, semas, holder, pc, local>>
    BY <1>16 DEF TimerYield
  <2>. QED  BY <2>1, <2>2, SwitchOK
<1>17. ASSUME ThreadExit PROVE PlacementInv'
  <2>1. cur \in Thread /\ pc[cur] = "run" /\ pc \in [Thread -> PC]
    BY <1>17 DEF ThreadExit, At, PlacementInv, DataOK, CodeOK
  <2>2. pc' = [pc EXCEPT ![cur] = "exit"] /\ UNCHANGED <<prio, semas, holder, local>>
    BY <1>17, Zenon DEF ThreadExit, Goto
  <2>3. /\ SchedOK(cur', status', ready_list')
        /\ \A t \in Thread : status'[t] = "BLOCKED" <=> status[t] = "BLOCKED" \/ t = cur
    BY <1>17, <2>1, BlockOK, Zenon DEF ThreadExit, PlacementInv
  <2>4. WaitersOK'
    <3>1. waiters' = waiters /\ arg' = arg
      BY <2>2 DEF semas, local
    <3>. SUFFICES ASSUME NEW t \in Thread, NEW s \in AllSemas
                  PROVE  t \in Elems(waiters[s]) <=> /\ status'[t] = "BLOCKED"
                                                     /\ pc'[t] \in Downing
                                                     /\ arg[t] = s
      BY <3>1, Zenon DEF WaitersOK, Downing, PlacementInv
    <3>2. CASE t = cur
      BY <2>1, <2>2, <3>2, CurUnlisted, Zenon DEF Downing
    <3>3. CASE t # cur
      BY <2>1, <2>2, <2>3, <3>3, Zenon DEF PlacementInv, WaitersOK
    <3>. QED  BY <3>2, <3>3
  <2>5. DataOK'
    BY <2>1, <2>2 DEF PlacementInv, DataOK, PriosOK, SemasOK, LinksOK, CodeOK, TempsOK, PC, prio, semas, local
  <2>6. LocalOK'
    BY <2>1, <2>2, Zenon DEF PlacementInv, LocalOK, local
  <2>. QED  BY <2>3, <2>4, <2>5, <2>6, Zenon DEF PlacementInv
<1>18. ASSUME Resched PROVE PlacementInv'
  <2>1. /\ cur \in Thread /\ pc[cur] = "resched" /\ pc \in [Thread -> PC] /\ ret[cur] = "run"
        /\ pc' = [pc EXCEPT ![cur] = "run"] /\ UNCHANGED <<prio, semas, holder, local>>
    BY <1>18, Zenon DEF Resched, At, Goto, PlacementInv, DataOK, CodeOK
  <2>2. /\ SchedOK(cur', status', ready_list')
        /\ \A u \in Thread : status'[u] = "BLOCKED" <=> status[u] = "BLOCKED"
    BY <1>18, PriorityKeyed, CompareOK, Zenon DEF Resched, PlacementInv
  <2>3. OthersStay
    BY <2>1, Zenon DEF OthersStay, local
  <2>4. \A s \in AllSemas : Once(waiters'[s]) /\ Elems(waiters'[s]) = Elems(waiters[s])
    BY <2>1, Zenon DEF PlacementInv, WaitersOK, semas
  <2>5. DataOK'
    BY <2>1 DEF PlacementInv, DataOK, PriosOK, SemasOK, LinksOK, CodeOK, TempsOK, PC, prio, semas, local
  <2>6. LocalOK'
    BY <2>1, Zenon DEF PlacementInv, LocalOK, local
  <2>. QED  BY <2>2, <2>3, <2>4, <2>5, <2>6, WaitersKept, Zenon DEF PlacementInv
<1>19. ASSUME Down PROVE PlacementInv'
  <2>1. /\ cur \in Thread /\ pc[cur] = "down" /\ pc \in [Thread -> PC]
        /\ arg[cur] \in Sema /\ SemaDown(arg[cur], "run")
        /\ UNCHANGED <<prio, holder, local>>
    BY <1>19 DEF Down, At, PlacementInv, LocalOK, DataOK, CodeOK
  <2>2. arg' = arg /\ arg[cur] \in AllSemas /\ pc[cur] \in Downing
    BY <2>1, Zenon DEF local, AllSemas, Downing
  <2>3. /\ SchedOK(cur, status, ready_list)' /\ WaitersOK'
        /\ waiters' \in [AllSemas -> Seq(Thread)] /\ value' \in [AllSemas -> Nat]
        /\ pc' = pc \/ pc' = [pc EXCEPT ![cur] = "run"]
    BY <2>1, <2>2, SemaDownOK, Zenon
  <2>4. DataOK'
    BY <2>1, <2>3, Zenon DEF PlacementInv, DataOK, PriosOK, SemasOK, LinksOK, CodeOK, TempsOK, PC, prio, local
  <2>5. LocalOK'
    BY <2>1, <2>3 DEF PlacementInv, LocalOK, local
  <2>. QED  BY <2>3, <2>4, <2>5, ZenonT(30) DEF PlacementInv
<1>20. ASSUME AcquireDown PROVE PlacementInv'
  <2>1. /\ cur \in Thread /\ pc[cur] = "acq_down" /\ pc \in [Thread -> PC]
        /\ arg[cur] \in Lock /\ SemaDown(arg[cur], "acq_hold")
        /\ UNCHANGED <<prio, holder, local>>
    BY <1>20, Zenon DEF AcquireDown, At, PlacementInv, LocalOK, DataOK, CodeOK
  <2>2. arg' = arg /\ arg[cur] \in AllSemas /\ pc[cur] \in Downing
    BY <2>1, Zenon DEF local, AllSemas, Downing
  <2>3. /\ SchedOK(cur, status, ready_list)' /\ WaitersOK'
        /\ waiters' \in [AllSemas -> Seq(Thread)] /\ value' \in [AllSemas -> Nat]
        /\ pc' = pc \/ pc' = [pc EXCEPT ![cur] = "acq_hold"]
    BY <2>1, <2>2, SemaDownOK, Zenon
  <2>4. DataOK'
    BY <2>1, <2>3 DEF PlacementInv, DataOK, PriosOK, SemasOK, LinksOK, CodeOK, TempsOK, PC, prio, local
  <2>5. LocalOK'
    BY <2>1, <2>3, Zenon DEF PlacementInv, LocalOK, local
  <2>. QED  BY <2>3, <2>4, <2>5 DEF PlacementInv
<1>21. ASSUME ReleaseUp PROVE PlacementInv'
  <2>1. /\ cur \in Thread /\ pc[cur] = "rel_up" /\ pc \in [Thread -> PC] /\ arg[cur] \in Lock
        /\ SemaUp(arg[cur]) /\ pc' = [pc EXCEPT ![cur] = "resched"]
        /\ UNCHANGED <<prio, holder, local>>
    BY <1>21, Zenon DEF ReleaseUp, At, Goto, PlacementInv, LocalOK, DataOK, CodeOK
  <2>2. OthersStay /\ arg[cur] \in AllSemas
    BY <2>1 DEF OthersStay, local, AllSemas
  <2>3. /\ SchedOK(cur, status, ready_list)' /\ WaitersOK'
        /\ waiters' \in [AllSemas -> Seq(Thread)]
        /\ value' = [value EXCEPT ![arg[cur]] = @ + 1]
    BY <2>1, <2>2, SemaUpOK
  <2>4. SemasOK'
    <3>1. value \in [AllSemas -> Nat]
      BY Zenon DEF PlacementInv, DataOK, SemasOK
    <3>. QED  BY <2>2, <2>3, <3>1 DEF SemasOK
  <2>5. DataOK'
    BY <2>1, <2>4 DEF PlacementInv, DataOK, PriosOK, LinksOK, CodeOK, TempsOK, PC, prio, local
  <2>6. LocalOK'
    BY <2>1, Zenon DEF PlacementInv, LocalOK, local
  <2>. QED  BY <2>3, <2>5, <2>6 DEF PlacementInv
<1>22. ASSUME NEW s \in UserSema, Up(s) PROVE PlacementInv'
  <2>1. /\ cur \in Thread /\ s \in AllSemas /\ SemaUp(s)
        /\ calls[cur] > 0 /\ calls' = [calls EXCEPT ![cur] = @ - 1]
        /\ UNCHANGED <<prio, holder, pc, arg, pending, donee, donate, ret>>
    BY <1>22, SemaAssumption, Zenon DEF Up, Call, At, AllSemas
  <2>2. OthersStay
    BY <2>1, Zenon DEF OthersStay
  <2>3. /\ SchedOK(cur, status, ready_list)' /\ WaitersOK'
        /\ waiters' \in [AllSemas -> Seq(Thread)]
        /\ value' = [value EXCEPT ![s] = @ + 1]
    BY <2>1, <2>2, SemaUpOK, Zenon
  <2>4. SemasOK'
    <3>1. value \in [AllSemas -> Nat]
      BY Zenon DEF PlacementInv, DataOK, SemasOK
    <3>. QED  BY <2>1, <2>3, <3>1 DEF SemasOK
  <2>5. CodeOK'
    BY <2>1 DEF PlacementInv, DataOK, CodeOK
  <2>6. DataOK' /\ LocalOK'
    BY <2>1, <2>4, <2>5, Zenon DEF PlacementInv, DataOK, PriosOK, LinksOK, TempsOK, LocalOK, prio
  <2>. QED  BY <2>3, <2>6, Zenon DEF PlacementInv
<1>23. CASE UNCHANGED vars
  <2>1. UNCHANGED <<prio, semas, holder, pc, local>> /\ UNCHANGED sched
    BY <1>23 DEF vars
  <2>2. SchedOK(cur', status', ready_list') /\ status' = status
    BY <2>1 DEF PlacementInv, sched
  <2>. QED  BY <2>1, <2>2, SwitchOK
<1>. QED
  BY SMTT(30), <1>1, <1>2, <1>3, <1>4, <1>5, <1>6, <1>7, <1>8, <1>9, <1>10, <1>11, <1>12, <1>13,
     <1>14, <1>15, <1>16, <1>17, <1>18, <1>19, <1>20, <1>21, <1>22, <1>23
  DEF Next, Step

LEMMA PlacementInit ==
  ASSUME Init
  PROVE  PlacementInv
<1>1. \A s \in AllSemas : Once(waiters[s]) /\ Elems(waiters[s]) = {}
  BY DEF Init, Once, Elems
<1>2. Once(ready_list) /\ Elems(ready_list) = {} /\ ready_list \in Seq(Thread)
  BY DEF Init, Once, Elems
<1>3. SchedOK(cur, status, ready_list)
  BY <1>2, ThreadAssumption, Zenon DEF Init, SchedOK, AllThreads, Status
<1>4. PriosOK
  BY PriorityAssumption, ThreadAssumption, Zenon DEF Init, PriosOK, AllThreads
<1>5. SemasOK
  BY SemaAssumption DEF Init, SemasOK, AllSemas
<1>6. LinksOK /\ CodeOK /\ TempsOK
  BY OrderAssumption DEF Init, LinksOK, CodeOK, TempsOK, PC
<1>7. LocalOK
  BY Zenon DEF Init, LocalOK, Acquiring, Releasing
<1>8. WaitersOK
  BY <1>1 DEF Init, WaitersOK, Downing
<1>. QED  BY <1>3, <1>4, <1>5, <1>6, <1>7, <1>8, Zenon DEF PlacementInv, DataOK

LEMMA PlacementAlways == Spec => []PlacementInv
<1>1. Init => PlacementInv
  BY PlacementInit
<1>2. PlacementInv /\ [Next]_vars => PlacementInv'
  BY PlacementStep
<1>. QED  BY <1>1, <1>2, PTL DEF Spec

(***************************************************************************)
(* Type correctness of the scheduler, the semaphores, the locks and the    *)
(* donations.                                                              *)
(***************************************************************************)
THEOREM TypeCorrect == Spec => []TypeOK
<1>1. PlacementInv => TypeOK
  BY DEF PlacementInv, SchedOK, DataOK, PriosOK, SemasOK, LinksOK, CodeOK, TempsOK, TypeOK, Status, PC
<1>. QED  BY <1>1, PlacementAlways, PTL

(***************************************************************************)
(* A thread is on the ready list exactly when it is READY, on the waiters  *)
(* of the semaphore it downs exactly when it is BLOCKED there, on no list  *)
(* twice, and the running thread is the only RUNNING one: what thread_yield, *)
(* thread_block, thread_unblock, sema_down and sema_up must agree on.      *)
(***************************************************************************)
THEOREM PlacementCorrect == Spec => []ThreadPlacement
<1>1. PlacementInv => ThreadPlacement
  BY Zenon DEF PlacementInv, SchedOK, WaitersOK, ThreadPlacement, Downing
<1>. QED  BY <1>1, PlacementAlways, PTL
-----------------------------------------------------------------------------
(***************************************************************************)
(* Mutual exclusion.  Where a thread is in lock_acquire or lock_release    *)
(* tells whether lock->holder names it.                                    *)
(***************************************************************************)
HolderOK ==
  \A t \in Thread :
    /\ pc[t] \in {"rel_donations", "rel_recalc", "rel_holder"} => holder[arg[t]] = t
    /\ pc[t] \in {"acq_hold", "rel_up"} => holder[arg[t]] # t

OwnInv == MutualExclusion /\ HolderOK

(* The places where a thread owns the lock it operates on. *)
Owning == {"acq_hold"} \cup Releasing

(* What a step does to the owners of the locks. *)
Keeping == \A t \in Thread, l \in Lock : Owns(t, l)' <=> Owns(t, l)
Taking(t0, l0) ==
  /\ \A t \in Thread : ~ Owns(t, l0)
  /\ \A t \in Thread, l \in Lock : Owns(t, l)' <=> Owns(t, l) \/ (t = t0 /\ l = l0)
Giving(l0) ==
  /\ \E t \in Thread : Owns(t, l0)
  /\ \A t \in Thread, l \in Lock : Owns(t, l)' <=> Owns(t, l) /\ l # l0

(* Steps elsewhere in the code leave the owners alone. *)
LEMMA OwnersKept ==
  ASSUME PlacementInv, OwnInv, OthersStay, cur \in Thread,
         pc[cur] \notin Owning, pc'[cur] \notin Owning,
         holder' = holder, \A l \in Lock : value'[l] = value[l]
  PROVE  OwnInv' /\ Keeping
<1>1. Keeping
  BY Zenon DEF Keeping, Owns, OthersStay, Owning, Releasing
<1>2. MutualExclusion'
  BY <1>1, Zenon DEF Keeping, OwnInv, MutualExclusion
<1>3. HolderOK'
  BY Zenon DEF OwnInv, HolderOK, OthersStay, Owning, Releasing
<1>. QED  BY <1>1, <1>2, <1>3, Zenon DEF OwnInv

LEMMA OwnersUntouched ==
  ASSUME OwnInv, UNCHANGED <<pc, arg, holder>>, \A l \in Lock : value'[l] = value[l]
  PROVE  OwnInv' /\ Keeping
<1>1. Keeping
  BY Zenon DEF Keeping, Owns
<1>2. MutualExclusion'
  BY <1>1, Zenon DEF Keeping, OwnInv, MutualExclusion
<1>. QED  BY <1>1, <1>2, Zenon DEF OwnInv, HolderOK

(* A thread passes the semaphore of a lock. *)
LEMMA LockTaken ==
  ASSUME PlacementInv, OwnInv, OthersStay, cur \in Thread, NEW STATE l0, l0 \in Lock,
         pc[cur] \notin Owning, pc'[cur] = "acq_hold", arg'[cur] = l0,
         holder' = holder, value[l0] > 0, value' = [value EXCEPT ![l0] = @ - 1]
  PROVE  OwnInv' /\ Taking(cur, l0)
<1>1. value \in [AllSemas -> Nat] /\ Lock \subseteq AllSemas
  BY Zenon DEF PlacementInv, DataOK, SemasOK, AllSemas
<1>2. \A t \in Thread : ~ Owns(t, l0)
  BY DEF OwnInv, MutualExclusion
<1>3. value[l0] = 1
  BY <1>2, Zenon DEF OwnInv, MutualExclusion
<1>4. \A t \in Thread, l \in Lock : Owns(t, l)' <=> Owns(t, l) \/ (t = cur /\ l = l0)
  BY Zenon DEF Owns, OthersStay, Owning, Releasing
<1>5. \A l \in Lock : value'[l] = IF l = l0 THEN 0 ELSE value[l]
  BY <1>1, <1>3
<1>6. MutualExclusion'
  <2>. SUFFICES ASSUME NEW l \in Lock
                PROVE  /\ \A t, u \in Thread : Owns(t, l)' /\ Owns(u, l)' => t = u
                       /\ value'[l] = IF \E t \in Thread : Owns(t, l)' THEN 0 ELSE 1
    BY DEF MutualExclusion
  <2>1. CASE l = l0
    BY <1>2, <1>4, <1>5, <2>1, Zenon
  <2>2. CASE l # l0
    BY <1>4, <1>5, <2>2, Zenon DEF OwnInv, MutualExclusion
  <2>. QED  BY <2>1, <2>2, Zenon
<1>7. HolderOK'
  <2>1. holder[l0] # cur
    BY <1>2, Zenon DEF Owns
  <2>. QED  BY <2>1, Zenon DEF OwnInv, HolderOK, OthersStay
<1>. QED  BY <1>2, <1>4, <1>6, <1>7, Zenon DEF OwnInv, Taking

(* A thread sets or clears lock->holder, or moves on inside lock_release. *)
LEMMA HolderMoved ==
  ASSUME PlacementInv, OwnInv, OthersStay, cur \in Thread, NEW STATE l0, l0 \in Lock,
         Owns(cur, l0), arg'[cur] = l0,
         pc[cur] \in Owning => arg[cur] = l0,
         holder' = holder \/ holder' = [holder EXCEPT ![l0] = cur]
                          \/ holder' = [holder EXCEPT ![l0] = NULL],
         holder'[l0] = cur => pc'[cur] \notin {"acq_hold", "rel_up"},
         holder'[l0] # cur => pc'[cur] = "rel_up",
         \A l \in Lock : value'[l] = value[l]
  PROVE  OwnInv' /\ Keeping
<1>1. holder \in [Lock -> Thread \cup {NULL}] /\ NULL \notin Thread
  BY NullAssumption, Zenon DEF PlacementInv, DataOK, LinksOK
<1>2. \A t \in Thread : t # cur => ~ Owns(t, l0)
  BY Zenon DEF OwnInv, MutualExclusion
<1>3. Keeping
  <2>. SUFFICES ASSUME NEW t \in Thread, NEW l \in Lock
                PROVE  Owns(t, l)' <=> Owns(t, l)
    BY Zenon DEF Keeping
  <2>1. CASE l = l0 /\ t = cur
    BY <2>1, Zenon DEF Owns
  <2>2. CASE l = l0 /\ t # cur
    BY <1>1, <1>2, <2>2, Zenon DEF Owns, OthersStay
  <2>3. CASE l # l0 /\ t = cur
    BY <1>1, <2>3, Zenon DEF Owns, Owning, Releasing
  <2>4. CASE l # l0 /\ t # cur
    BY <1>1, <2>4 DEF Owns, OthersStay
  <2>. QED  BY <2>1, <2>2, <2>3, <2>4, Zenon
<1>4. MutualExclusion'
  BY <1>3, Zenon DEF Keeping, OwnInv, MutualExclusion
<1>5. HolderOK'
  <2>. SUFFICES ASSUME NEW t \in Thread
                PROVE  /\ pc'[t] \in {"rel_donations", "rel_recalc", "rel_holder"} => holder'[arg'[t]] = t
                       /\ pc'[t] \in {"acq_hold", "rel_up"} => holder'[arg'[t]] # t
    BY Zenon DEF HolderOK
  <2>1. CASE t = cur
    BY <2>1, Zenon
  <2>2. CASE t # cur
    <3>1. pc[t] \in Acquiring \cup Releasing => arg[t] \in Lock
      BY Zenon DEF PlacementInv, LocalOK
    <3>2. holder[l0] # t
      BY <1>2, <2>2, Zenon DEF Owns
    <3>. QED  BY <1>1, <2>2, <3>1, <3>2 DEF OwnInv, HolderOK, OthersStay, Acquiring, Releasing
  <2>. QED  BY <2>1, <2>2, Zenon
<1>. QED  BY <1>3, <1>4, <1>5, Zenon DEF OwnInv

(* A thread gives the semaphore of a lock back. *)
LEMMA LockGiven ==
  ASSUME PlacementInv, OwnInv, OthersStay, cur \in Thread, NEW STATE l0, l0 \in Lock,
         pc[cur] = "rel_up", arg[cur] = l0, pc'[cur] = "resched",
         holder' = holder, value' = [value EXCEPT ![l0] = @ + 1]
  PROVE  OwnInv' /\ Giving(l0)
<1>1. value \in [AllSemas -> Nat] /\ Lock \subseteq AllSemas
  BY DEF PlacementInv, DataOK, SemasOK, AllSemas
<1>2. Owns(cur, l0) /\ holder[l0] # cur
  BY Zenon DEF Owns, OwnInv, HolderOK
<1>3. value[l0] = 0 /\ \A t \in Thread : Owns(t, l0) => t = cur
  BY <1>2, Zenon DEF OwnInv, MutualExclusion
<1>4. \A l \in Lock : value'[l] = IF l = l0 THEN 1 ELSE value[l]
  BY <1>1, <1>3
<1>5. \A t \in Thread, l \in Lock : Owns(t, l)' <=> Owns(t, l) /\ l # l0
  <2>. SUFFICES ASSUME NEW t \in Thread, NEW l \in Lock
                PROVE  Owns(t, l)' <=> Owns(t, l) /\ l # l0
    BY Zenon
  <2>1. CASE t = cur
    BY <1>2, <2>1, Zenon DEF Owns
  <2>2. CASE t # cur
    <3>1. Owns(t, l)' <=> Owns(t, l)
      BY <2>2, Zenon DEF Owns, OthersStay
    <3>. QED  BY <1>3, <2>2, <3>1, Zenon
  <2>. QED  BY <2>1, <2>2, Zenon
<1>6. MutualExclusion'
  <2>. SUFFICES ASSUME NEW l \in Lock
                PROVE  /\ \A t, u \in Thread : Owns(t, l)' /\ Owns(u, l)' => t = u
                       /\ value'[l] = IF \E t \in Thread : Owns(t, l)' THEN 0 ELSE 1
    BY Zenon DEF MutualExclusion
  <2>1. CASE l = l0
    BY <1>4, <1>5, <2>1, Zenon
  <2>2. CASE l # l0
    BY <1>4, <1>5, <2>2, Zenon DEF OwnInv, MutualExclusion
  <2>. QED  BY <2>1, <2>2, Zenon
<1>7. HolderOK'
  BY DEF OwnInv, HolderOK, OthersStay
<1>. QED  BY <1>2, <1>5, <1>6, <1>7, Zenon DEF OwnInv, Giving

(* What every step does to the owners. *)
OwnStep == Keeping \/ (\E t \in Thread, l \in Lock : Taking(t, l)) \/ (\E l \in Lock : Giving(l))

LEMMA OwnNext ==
  ASSUME PlacementInv, OwnInv, [Next]_vars
  PROVE  OwnInv' /\ OwnStep
<1>. USE DEF Owning, Releasing, OwnStep
<1>. DEFINE Goal == OwnInv' /\ OwnStep
<1>0. /\ pc \in [Thread -> PC] /\ arg \in [Thread -> AllSemas \cup {NULL}]
      /\ ret \in [Thread -> {"run"}] /\ value \in [AllSemas -> Nat]
      /\ holder \in [Lock -> Thread \cup {NULL}]
  BY Zenon DEF PlacementInv, DataOK, CodeOK, SemasOK, LinksOK
<1>a. \A s \in Sema : s \notin Lock
  BY SemaAssumption
<1>b. NULL \notin Thread
  BY NullAssumption, Zenon
<1>1. ASSUME NEW p \in NewPriority, ThreadSetPriority(p) PROVE Goal
  <2>1. /\ OthersStay /\ cur \in Thread /\ pc[cur] \notin Owning /\ pc'[cur] \notin Owning
        /\ holder' = holder /\ \A l \in Lock : value'[l] = value[l]
    BY <1>0, <1>1, Zenon DEF ThreadSetPriority, OthersStay, Call, At, Goto, sched, prio, semas, local
  <2>. QED  BY <2>1, OwnersKept, Zenon
<1>2. ASSUME NEW s \in UserSema, CallDown(s) PROVE Goal
  <2>1. /\ OthersStay /\ cur \in Thread /\ pc[cur] \notin Owning /\ pc'[cur] \notin Owning
        /\ holder' = holder /\ \A l \in Lock : value'[l] = value[l]
    BY <1>0, <1>2, Zenon DEF CallDown, OthersStay, Call, At, Goto, sched, prio, semas, local
  <2>. QED  BY <2>1, OwnersKept, Zenon
<1>3. ASSUME NEW k \in Lock, CallAcquire(k) PROVE Goal
  <2>1. /\ OthersStay /\ cur \in Thread /\ pc[cur] \notin Owning /\ pc'[cur] \notin Owning
        /\ holder' = holder /\ \A l \in Lock : value'[l] = value[l]
    BY <1>0, <1>3 DEF CallAcquire, OthersStay, Call, At, Goto, sched, prio, semas, local
  <2>. QED  BY <2>1, OwnersKept, Zenon
<1>4. ASSUME AcquireCheck PROVE Goal
  <2>1. /\ OthersStay /\ cur \in Thread /\ pc[cur] \notin Owning /\ pc'[cur] \notin Owning
        /\ holder' = holder /\ \A l \in Lock : value'[l] = value[l]
    BY <1>0, <1>4, Zenon DEF AcquireCheck, OthersStay, At, Goto, sched, prio, semas, local
  <2>. QED  BY <2>1, OwnersKept, Zenon
<1>5. ASSUME AcquireScan PROVE Goal
  <2>1. /\ OthersStay /\ cur \in Thread /\ pc[cur] \notin Owning /\ pc'[cur] \notin Owning
        /\ holder' = holder /\ \A l \in Lock : value'[l] = value[l]
    BY <1>0, <1>5 DEF AcquireScan, OthersStay, At, Goto, sched, prio, semas, local
  <2>. QED  BY <2>1, OwnersKept, Zenon
<1>6. ASSUME AcquireDonate PROVE Goal
  <2>1. /\ OthersStay /\ cur \in Thread /\ pc[cur] \notin Owning /\ pc'[cur] \notin Owning
        /\ holder' = holder /\ \A l \in Lock : value'[l] = value[l]
    BY <1>0, <1>6 DEF AcquireDonate, OthersStay, At, Goto, sched, prio, semas, local
  <2>. QED  BY <2>1, OwnersKept, Zenon
<1>7. ASSUME AcquireInsert PROVE Goal
  <2>1. /\ OthersStay /\ cur \in Thread /\ pc[cur] \notin Owning /\ pc'[cur] \notin Owning
        /\ holder' = holder /\ \A l \in Lock : value'[l] = value[l]
    BY <1>0, <1>7, Zenon DEF AcquireInsert, OthersStay, At, Goto, sched, prio, semas, local
  <2>. QED  BY <2>1, OwnersKept, Zenon
<1>8. ASSUME ThreadExit PROVE Goal
  <2>1. /\ OthersStay /\ cur \in Thread /\ pc[cur] \notin Owning /\ pc'[cur] \notin Owning
        /\ holder' = holder /\ \A l \in Lock : value'[l] = value[l]
    BY <1>0, <1>8, Zenon DEF ThreadExit, OthersStay, At, Goto, sched, prio, semas, local
  <2>. QED  BY <2>1, OwnersKept, Zenon
<1>9. ASSUME Resched PROVE Goal
  <2>1. /\ OthersStay /\ cur \in Thread /\ pc[cur] \notin Owning /\ pc'[cur] \notin Owning
        /\ holder' = holder /\ \A l \in Lock : value'[l] = value[l]
    BY <1>0, <1>9 DEF Resched, OthersStay, At, Goto, sched, prio, semas, local
  <2>. QED  BY <2>1, OwnersKept, Zenon
<1>10. ASSUME NEW s \in UserSema, TryDown(s) PROVE Goal
  <2>1. /\ OthersStay /\ cur \in Thread /\ pc[cur] \notin Owning /\ pc'[cur] \notin Owning
        /\ holder' = holder /\ \A l \in Lock : value'[l] = value[l]
    BY <1>0, <1>10, <1>a, SemaAssumption DEF TryDown, OthersStay, Call, At, Goto, sched, prio, semas, local, AllSemas
  <2>. QED  BY <2>1, OwnersKept, Zenon
<1>11. ASSUME NEW s \in UserSema, Up(s) PROVE Goal
  <2>1. /\ OthersStay /\ cur \in Thread /\ pc[cur] \notin Owning /\ pc'[cur] \notin Owning
        /\ holder' = holder /\ \A l \in Lock : value'[l] = value[l]
    BY <1>0, <1>11, <1>a, SemaAssumption, Zenon DEF Up, OthersStay, Call, At, Goto, sched, prio, semas, local, SemaUp, AllSemas
  <2>. QED  BY <2>1, OwnersKept, Zenon
<1>12. ASSUME Down PROVE Goal
  <2>1. cur \in Thread /\ pc[cur] = "down" /\ arg[cur] \in Sema /\ arg[cur] \notin Lock
        /\ holder' = holder /\ arg' = arg /\ arg[cur] \in AllSemas
    BY <1>12, <1>a, Zenon DEF Down, At, PlacementInv, LocalOK, local, AllSemas
  <2>2. /\ pc' = pc \/ pc' = [pc EXCEPT ![cur] = "run"]
        /\ value' = value \/ value' = [value EXCEPT ![arg[cur]] = @ - 1]
    BY <1>12, Zenon DEF Down, SemaDown, Goto
  <2>3. OthersStay /\ pc'[cur] \notin Owning /\ \A l \in Lock : value'[l] = value[l]
    BY <1>0, <2>1, <2>2, Zenon DEF OthersStay, AllSemas
  <2>. QED  BY <2>1, <2>3, OwnersKept, Zenon
<1>13. ASSUME AcquireDown PROVE Goal
  <2>1. cur \in Thread /\ pc[cur] = "acq_down" /\ arg[cur] \in Lock /\ holder' = holder /\ arg' = arg
    BY <1>13, Zenon DEF AcquireDown, At, PlacementInv, LocalOK, local, Acquiring
  <2>2. CASE /\ value[arg[cur]] > 0 /\ value' = [value EXCEPT ![arg[cur]] = @ - 1]
             /\ pc' = [pc EXCEPT ![cur] = "acq_hold"]
    <3>1. OthersStay /\ pc'[cur] = "acq_hold" /\ arg'[cur] = arg[cur]
      BY <1>0, <2>1, <2>2 DEF OthersStay
    <3>2. OwnInv' /\ Taking(cur, arg[cur])
      BY <2>1, <2>2, <3>1, LockTaken, Zenon
    <3>. QED  BY <2>1, <3>2, Zenon
  <2>3. CASE value' = value /\ pc' = pc
    BY <2>1, <2>3, OwnersUntouched, Zenon
  <2>. QED  BY <1>13, <2>2, <2>3, Zenon DEF AcquireDown, SemaDown, Goto
<1>14. ASSUME NEW k \in Lock, LockTryAcquire(k) PROVE Goal
  <2>1. cur \in Thread /\ pc[cur] = "run" /\ holder' = holder
    BY <1>14, Zenon DEF LockTryAcquire, Call, At
  <2>2. CASE /\ value[k] > 0 /\ value' = [value EXCEPT ![k] = @ - 1]
             /\ pc' = [pc EXCEPT ![cur] = "acq_hold"] /\ arg' = [arg EXCEPT ![cur] = k]
    <3>1. OthersStay /\ pc'[cur] = "acq_hold" /\ arg'[cur] = k
      BY <1>0, <2>1, <2>2 DEF OthersStay
    <3>2. OwnInv' /\ Taking(cur, k)
      BY <2>1, <2>2, <3>1, LockTaken, Zenon
    <3>. QED  BY <2>1, <3>2, Zenon
  <2>3. CASE value' = value /\ pc' = pc /\ arg' = arg
    BY <2>1, <2>3, OwnersUntouched
  <2>. QED  BY <1>14, <2>2, <2>3, Zenon DEF LockTryAcquire, Goto
<1>15. ASSUME AcquireHold PROVE Goal
  <2>1. /\ cur \in Thread /\ pc[cur] = "acq_hold" /\ arg[cur] \in Lock /\ arg' = arg /\ value' = value
        /\ holder' = [holder EXCEPT ![arg[cur]] = cur] /\ pc' = [pc EXCEPT ![cur] = "run"]
    BY <1>0, <1>15, Zenon DEF AcquireHold, At, Goto, PlacementInv, LocalOK, local, semas, Acquiring
  <2>2. OthersStay /\ Owns(cur, arg[cur]) /\ holder'[arg[cur]] = cur /\ pc'[cur] = "run"
    BY <1>0, <2>1 DEF OthersStay, Owns
  <2>3. OwnInv' /\ Keeping
    BY <2>1, <2>2, HolderMoved, Zenon
  <2>. QED  BY <2>3
<1>16. ASSUME NEW k \in Lock, CallRelease(k) PROVE Goal
  <2>1. /\ cur \in Thread /\ pc[cur] = "run" /\ holder[k] = cur /\ holder' = holder /\ value' = value
        /\ arg' = [arg EXCEPT ![cur] = k] /\ pc' = [pc EXCEPT ![cur] = "rel_donations"]
    BY <1>16, Zenon DEF CallRelease, At, Goto, semas
  <2>2. OthersStay /\ Owns(cur, k) /\ arg'[cur] = k /\ pc'[cur] = "rel_donations"
    BY <1>0, <2>1, Zenon DEF OthersStay, Owns
  <2>3. OwnInv' /\ Keeping
    BY <2>1, <2>2, HolderMoved
  <2>. QED  BY <2>3, Zenon
<1>17. ASSUME ReleaseDonations \/ ReleaseRecalc PROVE Goal
  <2>1. /\ cur \in Thread /\ pc[cur] \in {"rel_donations", "rel_recalc"} /\ arg[cur] \in Lock
        /\ arg' = arg /\ value' = value /\ holder' = holder
        /\ \E q \in {"rel_recalc", "rel_holder"} : pc' = [pc EXCEPT ![cur] = q]
    BY <1>17, Zenon DEF ReleaseDonations, ReleaseRecalc, At, Goto, PlacementInv, LocalOK, local, semas
  <2>2. holder[arg[cur]] = cur
    BY <2>1, Zenon DEF OwnInv, HolderOK
  <2>3. /\ OthersStay /\ Owns(cur, arg[cur]) /\ arg'[cur] = arg[cur]
        /\ pc'[cur] \in {"rel_recalc", "rel_holder"} /\ holder'[arg[cur]] = cur
    BY <1>0, <2>1, <2>2, Zenon DEF OthersStay, Owns
  <2>4. OwnInv' /\ Keeping
    BY <2>1, <2>3, HolderMoved
  <2>. QED  BY <2>4
<1>18. ASSUME ReleaseHolder PROVE Goal
  <2>1. /\ cur \in Thread /\ pc[cur] = "rel_holder" /\ arg[cur] \in Lock /\ arg' = arg /\ value' = value
        /\ holder' = [holder EXCEPT ![arg[cur]] = NULL] /\ pc' = [pc EXCEPT ![cur] = "rel_up"]
    BY <1>18, Zenon DEF ReleaseHolder, At, Goto, PlacementInv, LocalOK, local, semas
  <2>2. OthersStay /\ Owns(cur, arg[cur]) /\ holder'[arg[cur]] # cur /\ pc'[cur] = "rel_up"
    BY <1>0, <1>b, <2>1 DEF OthersStay, Owns, OwnInv, HolderOK
  <2>3. OwnInv' /\ Keeping
    BY <2>1, <2>2, HolderMoved, Zenon
  <2>. QED  BY <2>3
<1>19. ASSUME ReleaseUp PROVE Goal
  <2>1. /\ cur \in Thread /\ pc[cur] = "rel_up" /\ arg[cur] \in Lock /\ arg' = arg /\ holder' = holder
        /\ value' = [value EXCEPT ![arg[cur]] = @ + 1] /\ pc' = [pc EXCEPT ![cur] = "resched"]
    BY <1>19, Zenon DEF ReleaseUp, SemaUp, At, Goto, PlacementInv, LocalOK, local
  <2>2. OthersStay /\ pc'[cur] = "resched"
    BY <1>0, <2>1 DEF OthersStay
  <2>3. OwnInv' /\ Giving(arg[cur])
    BY <2>1, <2>2, LockGiven, Zenon
  <2>. QED  BY <2>1, <2>3
<1>20. ASSUME NEW t \in Thread, ThreadCreate(t) PROVE Goal
  BY <1>20, OwnersUntouched DEF ThreadCreate, semas, local
<1>21. ASSUME TimerYield PROVE Goal
  BY <1>21, OwnersUntouched DEF TimerYield, semas, local
<1>22. CASE UNCHANGED vars
  BY <1>22, OwnersUntouched, Zenon DEF vars, semas, local
<1>. QED
  BY <1>1, <1>2, <1>3, <1>4, <1>5, <1>6, <1>7, <1>8, <1>9, <1>10, <1>11, <1>12, <1>13,
     <1>14, <1>15, <1>16, <1>17, <1>18, <1>19, <1>20, <1>21, <1>22, Zenon DEF Next, Step

LEMMA OwnInit ==
  ASSUME Init
  PROVE  OwnInv
BY NullAssumption DEF Init, OwnInv, MutualExclusion, HolderOK, Owns, AllSemas

(***************************************************************************)
(* A lock never has two owners, also in the windows of lock_acquire and    *)
(* lock_release where lock->holder is not set, and its semaphore's value   *)
(* is 0 exactly when it has one.                                           *)
(***************************************************************************)
THEOREM LocksExclude == Spec => []MutualExclusion
<1>1. Init => OwnInv
  BY OwnInit
<1>2. PlacementInv /\ OwnInv /\ [Next]_vars => OwnInv'
  BY OwnNext
<1>3. OwnInv => MutualExclusion
  BY DEF OwnInv
<1>. QED  BY <1>1, <1>2, <1>3, PlacementAlways, PTL DEF Spec

(* Every step is a step of the abstract lock, or leaves its owner alone. *)
LEMMA MutexStep ==
  ASSUME PlacementInv, OwnInv, [Next]_vars
  PROVE  [M!Next]_LockOwner
<1>. DEFINE o == LockOwner
            op == LockOwner'
<1>0. NULL \notin Thread
  BY NullAssumption
<1>1. OwnInv' /\ OwnStep
  BY OwnNext
<1>2. /\ o \in [Lock -> Thread \cup {NULL}]
      /\ \A l \in Lock, t \in Thread : o[l] = t <=> Owns(t, l)
  BY <1>0, Zenon DEF LockOwner, OwnInv, MutualExclusion
<1>3. /\ op \in [Lock -> Thread \cup {NULL}]
      /\ \A l \in Lock, t \in Thread : op[l] = t <=> Owns(t, l)'
  BY <1>0, <1>1 DEF LockOwner, OwnInv, MutualExclusion
<1>. HIDE DEF o, op
<1>4. CASE Keeping
  <2>1. \A l \in Lock : op[l] = o[l]
    BY <1>2, <1>3, <1>4 DEF Keeping
  <2>2. op = o
    BY <1>2, <1>3, <2>1
  <2>. QED  BY <2>2 DEF o, op
<1>5. ASSUME NEW t \in Thread, NEW l \in Lock, Taking(t, l)
      PROVE  M!Next
  <2>1. o[l] = NULL /\ op[l] = t
    BY <1>2, <1>3, <1>5, Zenon DEF Taking
  <2>2. \A k \in Lock : k # l => op[k] = o[k]
    BY <1>2, <1>3, <1>5, Zenon DEF Taking
  <2>3. op = [o EXCEPT ![l] = t]
    BY <1>2, <1>3, <2>1, <2>2
  <2>4. M!Acquire(t, l)
    BY <2>1, <2>3 DEF M!Acquire, o, op
  <2>. QED  BY <2>4, Zenon DEF M!Next
<1>6. ASSUME NEW l \in Lock, Giving(l)
      PROVE  M!Next
  <2>1. o[l] # NULL /\ op[l] = NULL
    BY <1>0, <1>2, <1>3, <1>6, Zenon DEF Giving
  <2>2. \A k \in Lock : k # l => op[k] = o[k]
    BY <1>2, <1>3, <1>6, Zenon DEF Giving
  <2>3. op = [o EXCEPT ![l] = NULL]
    BY <1>2, <1>3, <2>1, <2>2, Zenon
  <2>4. M!Release(l)
    BY <2>1, <2>3 DEF M!Release, o, op
  <2>. QED  BY <2>4, Zenon DEF M!Next
<1>. QED  BY <1>1, <1>4, <1>5, <1>6 DEF OwnStep

(***************************************************************************)
(* lock_acquire, lock_try_acquire and lock_release, cut into their steps   *)
(* and preempted anywhere, implement the abstract lock of module Mutex.    *)
(***************************************************************************)
THEOREM LocksImplementMutex == Spec => ImplementsMutex
<1>1. Init => M!Init
  BY NullAssumption DEF Init, M!Init, LockOwner, Owns
<1>2. Init => OwnInv
  BY OwnInit
<1>3. PlacementInv /\ OwnInv /\ [Next]_vars => OwnInv' /\ [M!Next]_LockOwner
  BY OwnNext, MutexStep
<1>. QED  BY <1>1, <1>2, <1>3, PlacementAlways, PTL DEF Spec, ImplementsMutex, M!Spec
=============================================================================

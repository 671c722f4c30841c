----------------------------- MODULE HashTable ------------------------------
(***************************************************************************)
(* The hash tables of lib/kernel/hash.c that hold every process's pages:   *)
(* buckets of lists, a number of buckets that follows the number of        *)
(* elements, and an iterator.  A rehash that gets no memory keeps the old  *)
(* buckets.                                                                *)
(***************************************************************************)
EXTENDS Integers, Sequences, FiniteSets, Null, Bitwise

LOCAL SX == INSTANCE SequencesExt

CONSTANTS
  Item,                    \* the elements
  HashKey,                 \* what h->less compares
  Hash,                    \* h->hash
  MIN_BUCKETS,             \* 4 in the source
  BEST_ELEMS_PER_BUCKET    \* 2 in the source

ASSUME HashAssumption ==
  /\ \A x, y \in Item : HashKey[x] = HashKey[y] => Hash[x] = Hash[y]
  /\ MIN_BUCKETS \in Nat \ {0} /\ BEST_ELEMS_PER_BUCKET \in Nat \ {0}

VARIABLES
  buckets,    \* the lists, numbered from 0; its domain is bucket_cnt
  elem_cnt,
  found,      \* what the last call returned
  iter,       \* the iterator: the bucket and the position in it, or NULL
  visited     \* what hash_next has returned since hash_first

hvars == <<buckets, elem_cnt, found, iter, visited>>

bucket_cnt(b) == Cardinality(DOMAIN b)
NewBuckets(n) == [i \in 0..(n - 1) |-> <<>>]

(* hash_init *)
HashInit ==
  /\ buckets = NewBuckets(MIN_BUCKETS)
  /\ elem_cnt = 0
  /\ found = NULL
  /\ iter = NULL
  /\ visited = <<>>

(* The number of the bucket: the low bits of the hash. *)
find_bucket(b, e) == Hash[e] & (bucket_cnt(b) - 1)

(* Variant: only the front of the bucket is compared. *)
find_elem_front(b, e) ==
  LET list == b[find_bucket(b, e)]
  IN  IF list # <<>> /\ HashKey[list[1]] = HashKey[e] THEN list[1] ELSE NULL

find_elem(b, e) ==
  LET list == b[find_bucket(b, e)]
      same == {i \in 1..Len(list) : HashKey[list[i]] = HashKey[e]}
  IN  IF same = {} THEN NULL ELSE list[CHOOSE i \in same : \A j \in same : i <= j]

insert_elem(b, e) == [b EXCEPT ![find_bucket(b, e)] = <<e>> \o @]
remove_elem(b, e) ==
  [b EXCEPT ![find_bucket(b, e)] = SX!RemoveAt(@, CHOOSE i \in 1..Len(@) : @[i] = e)]

is_power_of_2(x) == x # 0 /\ x & (x - 1) = 0

RECURSIVE PowerBelow(_)
PowerBelow(x) == IF is_power_of_2(x) THEN x ELSE PowerBelow(x & (x - 1))

IdealBuckets(cnt) ==
  PowerBelow(IF cnt \div BEST_ELEMS_PER_BUCKET < MIN_BUCKETS THEN MIN_BUCKETS
             ELSE cnt \div BEST_ELEMS_PER_BUCKET)

(* Variant: an element goes to the bucket it had before. *)
MoveAllSamePlace(b, n) == [i \in 0..(n - 1) |-> IF i \in DOMAIN b THEN b[i] ELSE <<>>]

(* The loop of rehash: bucket by bucket, every element to its new front. *)
MoveAll(b, n) ==
  LET order == SX!FlattenSeq([i \in 1..bucket_cnt(b) |-> b[i - 1]])
  IN  SX!FoldLeft(LAMBDA new, e : insert_elem(new, e), NewBuckets(n), order)

(* rehash; memory says whether malloc finds room for other buckets. *)
Rehash(b, cnt, memory) ==
  IF IdealBuckets(cnt) = bucket_cnt(b) \/ ~memory THEN b ELSE MoveAll(b, IdealBuckets(cnt))

(* A change to the table ends every iteration. *)
Changed(b, cnt) ==
  /\ buckets' = b
  /\ elem_cnt' = cnt
  /\ iter' = NULL
  /\ visited' = <<>>

hash_insert(e, memory) ==
  LET old == find_elem(buckets, e)
      cnt == IF old = NULL THEN elem_cnt + 1 ELSE elem_cnt
  IN  /\ Changed(Rehash(IF old = NULL THEN insert_elem(buckets, e) ELSE buckets, cnt, memory), cnt)
      /\ found' = old

(* e is not in the table itself: its links are free. *)
hash_replace(e, memory) ==
  LET old == find_elem(buckets, e)
      cnt == IF old = NULL THEN elem_cnt + 1 ELSE elem_cnt
      b   == IF old = NULL THEN buckets ELSE remove_elem(buckets, old)
  IN  /\ old # e
      /\ Changed(Rehash(insert_elem(b, e), cnt, memory), cnt)
      /\ found' = old

hash_find(e) ==
  /\ found' = IF elem_cnt = 0 THEN NULL ELSE find_elem(buckets, e)
  /\ UNCHANGED <<buckets, elem_cnt, iter, visited>>

hash_delete(e, memory) ==
  LET old == find_elem(buckets, e)
  IN  /\ IF old = NULL THEN Changed(buckets, elem_cnt)
         ELSE Changed(Rehash(remove_elem(buckets, old), elem_cnt - 1, memory), elem_cnt - 1)
      /\ found' = old

(* hash_clear calls the destructor on every element; the buckets stay. *)
hash_clear ==
  /\ Changed(NewBuckets(bucket_cnt(buckets)), 0)
  /\ UNCHANGED found

hash_first ==
  /\ iter' = [bucket |-> 0, pos |-> 0]
  /\ visited' = <<>>
  /\ UNCHANGED <<buckets, elem_cnt, found>>

(* Variant: the bucket behind a full one is entered at its second element. *)
NextPlaceSkips(at) ==
  IF at.pos < Len(buckets[at.bucket]) THEN [at EXCEPT !.pos = @ + 1]
  ELSE LET later == {i \in DOMAIN buckets : i > at.bucket /\ Len(buckets[i]) > at.pos}
       IN  IF later = {} THEN NULL
           ELSE [bucket |-> CHOOSE i \in later : \A j \in later : i <= j, pos |-> at.pos + 1]

(* The next element: in this bucket, or the front of the next with any. *)
NextPlace(at) ==
  IF at.pos < Len(buckets[at.bucket]) THEN [at EXCEPT !.pos = @ + 1]
  ELSE LET later == {i \in DOMAIN buckets : i > at.bucket /\ buckets[i] # <<>>}
       IN  IF later = {} THEN NULL
           ELSE [bucket |-> CHOOSE i \in later : \A j \in later : i <= j, pos |-> 1]

hash_next ==
  /\ iter # NULL
  /\ iter' = NextPlace(iter)
  /\ visited' = IF iter' = NULL THEN Append(visited, NULL)
                ELSE Append(visited, buckets[iter'.bucket][iter'.pos])
  /\ UNCHANGED <<buckets, elem_cnt, found>>

HashNext ==
  \/ \E e \in Item, memory \in BOOLEAN :
       hash_insert(e, memory) \/ hash_replace(e, memory) \/ hash_delete(e, memory)
  \/ \E e \in Item : hash_find(e)
  \/ hash_clear \/ hash_first \/ hash_next

HashBehavior == HashInit /\ [][HashNext]_hvars
-----------------------------------------------------------------------------
Members(b) == UNION {{b[i][j] : j \in 1..Len(b[i])} : i \in DOMAIN b}

(***************************************************************************)
(* Every element is in the bucket find_bucket looks into, once, and        *)
(* elem_cnt counts them: after any growing, shrinking and failed rehash    *)
(* every element can still be found, and the next rehash is computed from  *)
(* the right number.                                                       *)
(***************************************************************************)
HashPlaced ==
  /\ \A i \in DOMAIN buckets : \A j \in 1..Len(buckets[i]) : find_bucket(buckets, buckets[i][j]) = i
  /\ elem_cnt = Cardinality(Members(buckets))
  /\ \A i \in DOMAIN buckets : \A j, k \in 1..Len(buckets[i]) :
       HashKey[buckets[i][j]] = HashKey[buckets[i][k]] => j = k

(***************************************************************************)
(* An iteration that nothing disturbs returns every element once, and only *)
(* then the null pointer: supplemental_page_table_copy copies every page.  *)
(***************************************************************************)
IterationComplete ==
  /\ SX!IsInjective(visited)
  /\ \A i \in 1..Len(visited) :
       visited[i] = NULL => i = Len(visited) /\ Len(visited) = elem_cnt + 1

(* The buckets, rightly filled, implement the set of HashSpec, iterations included. *)
Set == INSTANCE HashSpec WITH contents <- Members(buckets)
ImplementsSet == [](HashPlaced /\ IterationComplete) /\ Set!Spec
=============================================================================

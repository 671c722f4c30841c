----------------------------- MODULE LinkedList -----------------------------
(***************************************************************************)
(* The doubly linked lists of lib/kernel/list.c, link by link.  An element *)
(* carries its own links; every list has a head and a tail of its own that *)
(* are no elements.  `less' is "has the larger key", the order the kernel  *)
(* gives its lists.                                                        *)
(***************************************************************************)
EXTENDS Integers, Sequences, FiniteSets, Null

LOCAL SX == INSTANCE SequencesExt

CONSTANTS
  Elem,     \* the list elements
  List,     \* the lists
  Key       \* what `less' compares

VARIABLES
  heap,     \* the links: heap.next and heap.prev
  out       \* what the last call returned

lvars == <<heap, out>>

HeadOf(l) == <<"head", l>>
TailOf(l) == <<"tail", l>>
Node == Elem \cup {HeadOf(l) : l \in List} \cup {TailOf(l) : l \in List}
Less(a, b) == Key[a] > Key[b]

is_tail(n)     == n \in {TailOf(l) : l \in List}
is_interior(n) == n \in Elem /\ heap.next[n] # NULL /\ heap.prev[n] # NULL

(* list_init of every list; an element on no list has no links. *)
ListInit ==
  /\ heap = [next |-> [n \in Node |-> IF \E l \in List : n = HeadOf(l)
                                        THEN TailOf(CHOOSE l \in List : n = HeadOf(l)) ELSE NULL],
             prev |-> [n \in Node |-> IF is_tail(n)
                                        THEN HeadOf(CHOOSE l \in List : n = TailOf(l)) ELSE NULL]]
  /\ out = NULL
-----------------------------------------------------------------------------
(* The operations as functions from links to links. *)

Begin(h, l) == h.next[HeadOf(l)]
Empty(h, l) == Begin(h, l) = TailOf(l)

InsertBefore(h, before, elem) ==
  LET p == h.prev[before]
  IN  [next |-> [h.next EXCEPT ![elem] = before, ![p] = elem],
       prev |-> [h.prev EXCEPT ![elem] = p, ![before] = elem]]

(* Variant: the node behind the gap keeps its link to the removed range. *)
UnlinkForward(h, first, last) ==
  [h EXCEPT !.next[h.prev[first]] = h.next[last]]

(* The nodes around first..last are linked to each other. *)
Unlink(h, first, last) ==
  [next |-> [h.next EXCEPT ![h.prev[first]] = h.next[last]],
   prev |-> [h.prev EXCEPT ![h.next[last]] = h.prev[first]]]

(***************************************************************************)
(* list_remove leaves the links of the removed element as they are; nobody *)
(* may follow them any more, and the model forgets them.                   *)
(***************************************************************************)
Remove(h, e) ==
  LET cut == Unlink(h, e, e)
  IN  [next |-> [cut.next EXCEPT ![e] = NULL], prev |-> [cut.prev EXCEPT ![e] = NULL]]

(* list_splice; `end' is exclusive. *)
Splice(h, before, first, end) ==
  IF first = end THEN h
  ELSE LET last == h.prev[end]
           cut  == Unlink(h, first, last)
           p    == cut.prev[before]
       IN  [next |-> [cut.next EXCEPT ![last] = before, ![p] = first],
            prev |-> [cut.prev EXCEPT ![first] = p, ![before] = last]]

(* The elements from n on, at most k of them, and the elements of l in order. *)
RECURSIVE From(_, _, _)
From(h, n, k) == IF k = 0 \/ n \notin Elem THEN <<>> ELSE <<n>> \o From(h, h.next[n], k - 1)

Chain(h, l) == From(h, Begin(h, l), Cardinality(Elem))

(* Swap prev and next of every element, then the ends, then their links back. *)
ReverseLinks(h, l) ==
  IF Empty(h, l) THEN h
  ELSE LET inner == {Chain(h, l)[i] : i \in 1..Len(Chain(h, l))}
           front == h.prev[TailOf(l)]
           back  == Begin(h, l)
           nx == [n \in Node |-> IF n \in inner THEN h.prev[n]
                                 ELSE IF n = HeadOf(l) THEN front ELSE h.next[n]]
           pv == [n \in Node |-> IF n \in inner THEN h.next[n]
                                 ELSE IF n = TailOf(l) THEN back ELSE h.prev[n]]
       IN  [next |-> [nx EXCEPT ![back] = pv[front]], prev |-> [pv EXCEPT ![front] = nx[back]]]

RECURSIVE FindEndOfRun(_, _, _), InplaceMerge(_, _, _, _), SortPass(_, _, _, _),
          SortLinks(_, _), OrderedPlace(_, _, _), Deduplicate(_, _, _)

FindEndOfRun(h, a, b) ==
  LET n == h.next[a]
  IN  IF n # b /\ ~Less(n, h.prev[n]) THEN FindEndOfRun(h, n, b) ELSE n

(* Variant: of equal elements the one of the second run goes first. *)
InplaceMergeUnstable(h, a0, a1b0, b1) ==
  IF a0 = a1b0 \/ a1b0 = b1 THEN h
  ELSE IF Less(a0, a1b0) THEN InplaceMerge(h, h.next[a0], a1b0, b1)
  ELSE LET next == h.next[a1b0]
       IN  InplaceMerge(Splice(h, a0, h.prev[next], next), a0, next, b1)

InplaceMerge(h, a0, a1b0, b1) ==
  IF a0 = a1b0 \/ a1b0 = b1 THEN h
  ELSE IF ~Less(a1b0, a0) THEN InplaceMerge(h, h.next[a0], a1b0, b1)
  ELSE LET next == h.next[a1b0]
       IN  InplaceMerge(Splice(h, a0, h.prev[next], next), a0, next, b1)

(* One pass of list_sort: merge adjacent runs pairwise, count the results. *)
SortPass(h, l, a0, runs) ==
  IF a0 = TailOf(l) THEN [links |-> h, runs |-> runs]
  ELSE LET a1b0 == FindEndOfRun(h, a0, TailOf(l))
           b1   == FindEndOfRun(h, a1b0, TailOf(l))
       IN  IF a1b0 = TailOf(l) THEN [links |-> h, runs |-> runs + 1]
           ELSE SortPass(InplaceMerge(h, a0, a1b0, b1), l, b1, runs + 1)

SortLinks(h, l) ==
  LET pass == SortPass(h, l, Begin(h, l), 0)
  IN  IF pass.runs > 1 THEN SortLinks(pass.links, l) ELSE pass.links

(* list_insert_ordered's loop: the first node the new one is less than. *)
OrderedPlace(h, n, elem) ==
  IF is_tail(n) \/ Less(elem, n) THEN n ELSE OrderedPlace(h, h.next[n], elem)

Deduplicate(h, elem, duplicates) ==
  LET next == h.next[elem]
  IN  IF is_tail(next) THEN h
      ELSE IF Less(elem, next) \/ Less(next, elem) THEN Deduplicate(h, next, duplicates)
      ELSE LET cut == Remove(h, next)
           IN  Deduplicate(IF duplicates = NULL THEN cut
                           ELSE InsertBefore(cut, TailOf(duplicates), next),
                           elem, duplicates)

-----------------------------------------------------------------------------
(* The calls. *)

Free(e) == heap.next[e] = NULL
Answer(n) == IF n \in Elem THEN n ELSE NULL

list_insert(before, elem) ==
  /\ is_interior(before) \/ is_tail(before)
  /\ Free(elem)
  /\ heap' = InsertBefore(heap, before, elem)
  /\ out' = NULL

list_push_front(l, elem) == list_insert(Begin(heap, l), elem)
list_push_back(l, elem) == list_insert(TailOf(l), elem)

list_remove(elem) ==
  /\ is_interior(elem)
  /\ heap' = Remove(heap, elem)
  /\ out' = Answer(heap.next[elem])

list_pop_front(l) ==
  LET front == Begin(heap, l)
  IN  ~Empty(heap, l) /\ heap' = Remove(heap, front) /\ out' = front

list_pop_back(l) ==
  LET back == heap.prev[TailOf(l)]
  IN  ~Empty(heap, l) /\ heap' = Remove(heap, back) /\ out' = back

(* The i-th up to the j-th node of l move; `before' is not one of them. *)
list_splice(l, i, j, before) ==
  LET s == Append(Chain(heap, l), TailOf(l))
  IN  /\ is_interior(before) \/ is_tail(before)
      /\ i <= j /\ j <= Len(s)
      /\ s[i] \in Elem /\ \A k \in i..(j - 1) : s[k] # before
      /\ heap' = Splice(heap, before, s[i], s[j])
      /\ out' = NULL

list_reverse(l) == heap' = ReverseLinks(heap, l) /\ out' = NULL
list_sort(l) == heap' = SortLinks(heap, l) /\ out' = NULL

list_insert_ordered(l, elem) ==
  /\ Free(elem)
  /\ heap' = InsertBefore(heap, OrderedPlace(heap, Begin(heap, l), elem), elem)
  /\ out' = NULL

list_unique(l, duplicates) ==
  /\ duplicates # l
  /\ heap' = IF Empty(heap, l) THEN heap ELSE Deduplicate(heap, Begin(heap, l), duplicates)
  /\ out' = NULL

(* Only a larger element replaces the candidate, so the first one wins. *)
list_max(l) ==
  /\ out' = IF Empty(heap, l) THEN NULL
            ELSE SX!FoldLeft(LAMBDA max, e : IF Less(max, e) THEN e ELSE max,
                             Begin(heap, l), Chain(heap, l))
  /\ UNCHANGED heap

list_min(l) ==
  /\ out' = IF Empty(heap, l) THEN NULL
            ELSE SX!FoldLeft(LAMBDA min, e : IF Less(e, min) THEN e ELSE min,
                             Begin(heap, l), Chain(heap, l))
  /\ UNCHANGED heap

list_size(l) ==
  /\ out' = Len(Chain(heap, l))
  /\ UNCHANGED heap

ListNext ==
  \/ \E elem \in Elem : \E before \in Node : list_insert(before, elem)
  \/ \E l \in List, elem \in Elem : list_push_front(l, elem) \/ list_push_back(l, elem)
  \/ \E elem \in Elem : list_remove(elem)
  \/ \E l \in List, i, j \in 1..Cardinality(Elem) + 1, before \in Node : list_splice(l, i, j, before)
  \/ \E l \in List : list_pop_front(l) \/ list_pop_back(l) \/ list_reverse(l) \/ list_sort(l)
  \/ \E l \in List, elem \in Elem : list_insert_ordered(l, elem)
  \/ \E l \in List, d \in List \cup {NULL} : list_unique(l, d)
  \/ \E l \in List : list_max(l) \/ list_min(l) \/ list_size(l)

ListBehavior == ListInit /\ [][ListNext]_lvars
-----------------------------------------------------------------------------
(***************************************************************************)
(* Every list runs from its head to its tail, every link has its link back *)
(* and no element is reached twice: walking a list backwards meets the     *)
(* same elements, whatever splices, merges and reversals came before.      *)
(***************************************************************************)
WellLinked(l) ==
  LET s    == Chain(heap, l)
      path == <<HeadOf(l)>> \o s \o <<TailOf(l)>>
  IN  /\ heap.next[path[Len(path) - 1]] = TailOf(l)
      /\ \A i \in 2..Len(path) : heap.prev[path[i]] = path[i - 1]
      /\ \A m \in List, i \in 1..Len(s) : \A j \in 1..Len(Chain(heap, m)) :
           s[i] = Chain(heap, m)[j] => l = m /\ i = j

(* The pointer lists, well linked, implement the sequences of ListSpec, call by call. *)
Abstract == INSTANCE ListSpec WITH lists <- [l \in List |-> Chain(heap, l)]
ImplementsSequences == [](\A l \in List : WellLinked(l)) /\ Abstract!Spec
=============================================================================

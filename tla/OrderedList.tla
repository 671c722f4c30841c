---------------------------- MODULE OrderedList ----------------------------
(***************************************************************************)
(* The two ordering operations of lib/kernel/list.c that the scheduler,    *)
(* the semaphores and the sleep queue rely on, defined by what they        *)
(* compute.  A list is a sequence; `key' maps every element to a number,   *)
(* and the `less' callback of the kernel lists is "has the larger key":    *)
(* compare_priority, compare_priority_for_donate and                       *)
(* compare_priority_for_cond put the larger number in front.               *)
(***************************************************************************)
EXTENDS Naturals, Sequences, FiniteSets

(* The elements of a list. *)
Elems(s) == {s[i] : i \in 1..Len(s)}

(***************************************************************************)
(* list_insert_ordered walks from the front and stops at the first element *)
(* that the new one is `less' than: the new element ends up behind every   *)
(* leading element whose key is at least as large, so equal keys are FIFO. *)
(* Nothing is assumed about the list being sorted.                         *)
(***************************************************************************)
InsertPoint(s, x, key) ==
  1 + Cardinality({i \in 1..Len(s) : \A j \in 1..i : key[s[j]] >= key[x]})

InsertOrdered(s, x, key) ==
  LET at == InsertPoint(s, x, key)
  IN  [j \in 1..(Len(s) + 1) |-> IF j < at THEN s[j]
                                 ELSE IF j = at THEN x ELSE s[j - 1]]

(***************************************************************************)
(* list_sort is a stable sort.  Rank(s, key, i) is the position the i-th   *)
(* element moves to: behind the elements with a larger key, and behind the *)
(* elements with the same key that stood before it.                        *)
(***************************************************************************)
Precedes(s, key, i) ==
  {j \in 1..Len(s) : \/ key[s[j]] > key[s[i]]
                     \/ key[s[j]] = key[s[i]] /\ j <= i}

Rank(s, key, i) == Cardinality(Precedes(s, key, i))

Sort(s, key) ==
  [k \in 1..Len(s) |-> s[CHOOSE i \in 1..Len(s) : Rank(s, key, i) = k]]

(***************************************************************************)
(* What a loop that list_removes elements leaves: the positions in `keep', *)
(* in their order.                                                         *)
(***************************************************************************)
UpTo(keep, i) == {j \in keep : j <= i}

Filter(s, keep) ==
  [k \in 1..Cardinality(keep) |-> s[CHOOSE i \in keep : Cardinality(UpTo(keep, i)) = k]]

(* No element is on the list twice. *)
Once(s) == \A i, j \in 1..Len(s) : s[i] = s[j] => i = j

(* A list whose keys never increase from front to back. *)
Sorted(s, key) == \A i, j \in 1..Len(s) : i < j => key[s[i]] >= key[s[j]]
=============================================================================

------------------------------ MODULE ListSpec ------------------------------
(***************************************************************************)
(* What lib/kernel/list.c promises: a list is a sequence of elements, an   *)
(* element is on at most one list, and every operation is the operation on *)
(* sequences its comment describes.  LinkedList, the lists of pointers,    *)
(* implements this; the scheduler's modules are written with these         *)
(* sequences and with OrderedList's InsertOrdered and Sort.                *)
(***************************************************************************)
EXTENDS OrderedList

SX == INSTANCE SequencesExt

CONSTANTS Elem, List, Key, NULL

VARIABLES
  lists,    \* the sequence each list stands for
  out       \* what the last call returned

Listed == UNION {Elems(lists[l]) : l \in List}

Init == /\ lists = [l \in List |-> <<>>]
        /\ out = NULL

(* list_insert, list_push_front, list_push_back *)
Insert(l, i, e) ==
  /\ e \in Elem \ Listed
  /\ lists' = [lists EXCEPT ![l] = SX!InsertAt(@, i, e)]
  /\ out' = NULL

(* list_remove answers the element behind; the pops answer the element. *)
Remove(l, i) ==
  /\ lists' = [lists EXCEPT ![l] = SX!RemoveAt(@, i)]
  /\ out' \in {lists[l][i], IF i = Len(lists[l]) THEN NULL ELSE lists[l][i + 1]}

(* list_splice moves the elements from..to-1 of l to before position i of m. *)
Splice(l, from, to, m, i) ==
  LET moved == SubSeq(lists[l], from, to - 1)
      rest  == [lists EXCEPT ![l] = SubSeq(@, 1, from - 1) \o SubSeq(@, to, Len(@))]
      at    == IF m = l /\ i >= to THEN i - Len(moved) ELSE i
  IN  /\ lists' = [rest EXCEPT ![m] = SubSeq(@, 1, at - 1) \o moved \o SubSeq(@, at, Len(@))]
      /\ out' = NULL

Reverse(l) == lists' = [lists EXCEPT ![l] = SX!Reverse(@)] /\ out' = NULL

(* list_sort is stable. *)
SortList(l) == lists' = [lists EXCEPT ![l] = Sort(@, Key)] /\ out' = NULL

InsertSorted(l, e) ==
  /\ e \in Elem \ Listed
  /\ lists' = [lists EXCEPT ![l] = InsertOrdered(@, e, Key)]
  /\ out' = NULL

(* list_unique keeps the first of adjacent equals, and collects the others. *)
Unique(l, duplicates) ==
  LET s    == lists[l]
      keep == {i \in 1..Len(s) : i = 1 \/ Key[s[i - 1]] # Key[s[i]]}
      kept == [lists EXCEPT ![l] = Filter(s, keep)]
  IN  /\ duplicates # l
      /\ lists' = IF duplicates = NULL THEN kept
                  ELSE [kept EXCEPT ![duplicates] = @ \o Filter(s, (1..Len(s)) \ keep)]
      /\ out' = NULL

(* The first of the largest or of the smallest, if there is any; the length. *)
Extreme(l) ==
  /\ \/ \E e \in Elems(lists[l]) :
          /\ \/ \A f \in Elems(lists[l]) : Key[f] >= Key[e]
             \/ \A f \in Elems(lists[l]) : Key[f] <= Key[e]
          /\ \A i, j \in 1..Len(lists[l]) :
               lists[l][i] = e /\ j < i => Key[lists[l][j]] # Key[e]
          /\ out' = e
     \/ lists[l] = <<>> /\ out' = NULL
     \/ out' = Len(lists[l])
  /\ UNCHANGED lists

Next ==
  \E l \in List :
    \/ \E i \in 1..(Len(lists[l]) + 1), e \in Elem : Insert(l, i, e)
    \/ \E i \in 1..Len(lists[l]) : Remove(l, i)
    \/ out' = NULL /\ \E from \in 1..Len(lists[l]), to \in 1..(Len(lists[l]) + 1), m \in List :
         /\ from <= to
         /\ \E i \in 1..(Len(lists[m]) + 1) : (m = l => i \notin from..(to - 1)) /\ Splice(l, from, to, m, i)
    \/ Reverse(l) \/ SortList(l) \/ Extreme(l)
    \/ \E e \in Elem : InsertSorted(l, e)
    \/ \E d \in List \cup {NULL} : Unique(l, d)

Spec == Init /\ [][Next]_<<lists, out>>
=============================================================================

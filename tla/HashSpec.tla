------------------------------ MODULE HashSpec ------------------------------
(***************************************************************************)
(* What lib/kernel/hash.c promises: a set of elements, no two of them      *)
(* equal.  Nothing of the buckets, of their number or of a rehash that     *)
(* finds no memory shows.                                                  *)
(***************************************************************************)
CONSTANTS Item, HashKey, NULL

VARIABLES
  contents,   \* the elements in the table
  found       \* what the last call returned

Init == contents = {} /\ found = NULL

(* The element of the table that is equal to e, if there is one. *)
Equal(e) == {x \in contents : HashKey[x] = HashKey[e]}
Match(e) == IF Equal(e) = {} THEN NULL ELSE CHOOSE x \in Equal(e) : TRUE

Insert(e) ==
  /\ contents' = IF Equal(e) = {} THEN contents \cup {e} ELSE contents
  /\ found' = Match(e)

Replace(e) == contents' = (contents \ Equal(e)) \cup {e} /\ found' = Match(e)
Delete(e)  == contents' = contents \ Equal(e) /\ found' = Match(e)
Find(e)    == UNCHANGED contents /\ found' = Match(e)
Clear      == contents' = {} /\ UNCHANGED found

Next == Clear \/ \E e \in Item : Insert(e) \/ Replace(e) \/ Delete(e) \/ Find(e)

Spec == Init /\ [][Next]_<<contents, found>>
=============================================================================

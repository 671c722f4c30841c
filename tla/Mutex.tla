------------------------------- MODULE Mutex -------------------------------
(***************************************************************************)
(* What the locks of threads/synch.c promise (the comment on lock_init):   *)
(* a lock is held by at most one thread, and it is free between two        *)
(* holders.  `owner' is who may use what the lock protects.                *)
(***************************************************************************)
CONSTANTS Thread, Lock, NULL

VARIABLE owner

Init == owner = [l \in Lock |-> NULL]

Acquire(t, l) ==
  /\ owner[l] = NULL
  /\ owner' = [owner EXCEPT ![l] = t]

Release(l) ==
  /\ owner[l] # NULL
  /\ owner' = [owner EXCEPT ![l] = NULL]

Next == \E l \in Lock : Release(l) \/ \E t \in Thread : Acquire(t, l)

Spec == Init /\ [][Next]_owner
=============================================================================

------------------------------ MODULE MCSynch ------------------------------
(***************************************************************************)
(* Small instances of Synch: a low, a middle and a high priority thread,   *)
(* or these three and the main thread that created them.                   *)
(***************************************************************************)
EXTENDS Synch, TLC

CONSTANTS main, lo, mid, hi, lockA, lockB, sema

MCThread == {lo, mid, hi}
MCInitPriority == lo :> 1 @@ mid :> 2 @@ hi :> 3
MCCalls == lo :> 2 @@ mid :> 2 @@ hi :> 1
MCInitValue == [s \in Sema |-> 0]
MCLockRank == [l \in Lock |-> IF l = lockA THEN 1 ELSE 2]

MCThread4 == {main, lo, mid, hi}
MCInitPriority4 == main :> 1 @@ MCInitPriority
MCCalls4 == main :> 1 @@ lo :> 2 @@ mid :> 1 @@ hi :> 1
=============================================================================

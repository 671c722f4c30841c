----------------------------- MODULE MCProgress -----------------------------
(***************************************************************************)
(* What has to happen in the end, for two parts of the kernel of which a   *)
(* behaviour is about one: "synch", a low, a middle and a high priority    *)
(* thread that share a lock; "mlfqs", the scheduler with the option        *)
(* -mlfqs.                                                                 *)
(***************************************************************************)
EXTENDS Synch, Mlfqs, TLC

CONSTANTS lo, mid, hi, lockA, t1, t2, t3

MCInitPriority == lo :> 1 @@ mid :> 2 @@ hi :> 3
MCCalls == lo :> 2 @@ mid :> 2 @@ hi :> 1
MCInitValue == [s \in Sema |-> 0]
MCLockRank == [l \in Lock |-> 1]

VARIABLE unit

ProgressInit ==
  /\ unit \in {"synch", "mlfqs"}
  /\ Init /\ MlfqsInit

ProgressNext ==
  /\ UNCHANGED unit
  /\ \/ unit = "synch" /\ Next /\ UNCHANGED mlvars
     \/ unit = "mlfqs" /\ MlfqsNext /\ UNCHANGED vars

(***************************************************************************)
(* A thread that is given the CPU gets a time slice to run in, so one that *)
(* is scheduled again and again makes steps.  The timer keeps ticking.     *)
(***************************************************************************)
ProgressFair ==
  /\ \A t \in Thread : SF_vars(unit = "synch" /\ cur = t /\ Step)
  /\ WF_mlvars(unit = "mlfqs" /\ Tick)

ProgressSpec == ProgressInit /\ [][ProgressNext]_<<unit, vars, mlvars>> /\ ProgressFair
=============================================================================

----------------------------- MODULE MCWaiting ------------------------------
(***************************************************************************)
(* Threads that wait for each other, for the clock or for a device.  A     *)
(* behaviour is about one of them: "monitor", a low, a middle and a high   *)
(* priority thread with one lock and one condition variable; "alarm", the  *)
(* same threads sleep and take no lock; "disk", two threads and the two    *)
(* devices of a channel; "serial", the queues of the serial port and of    *)
(* the keyboard.                                                           *)
(***************************************************************************)
EXTENDS Monitor, Alarm, Disk, Input, TLC

CONSTANTS lo, mid, hi, lockA, condA, ws1, ws2, ws3, u1, u2, r1, r2, w1

MCThread == {lo, mid, hi}
MCInitPriority == lo :> 1 @@ mid :> 2 @@ hi :> 3
MCInitValue == [s \in Sema |-> 0]
MCLockRank == [l \in Lock |-> 1]
MCCondLock == [c \in Cond |-> lockA]
MCWaiterSema == lo :> ws1 @@ mid :> ws2 @@ hi :> ws3
MCCalls == lo :> 3 @@ mid :> 2 @@ hi :> 2
MCSleepTicks == 0..2

VARIABLE unit

(* The devices are left undecided only where they matter. *)
WaitingInit ==
  /\ unit \in {"monitor", "alarm", "disk", "serial"}
  /\ MInit /\ AInit /\ DiskInit /\ InputInit
  /\ unit = "disk" \/ \A d \in Dev : signature[d] = [error |-> 1, ready |-> TRUE, ata |-> TRUE]

NoLockCalled == value' = value /\ \A t \in Thread : pc'[t] # "acq_check"

WaitingNext ==
  /\ UNCHANGED unit
  /\ \/ unit = "monitor" /\ MNext /\ UNCHANGED <<clock, dkvars, ivars>>
     \/ unit = "alarm" /\ ANext /\ NoLockCalled /\ UNCHANGED <<monitor, dkvars, ivars>>
     \/ unit = "disk" /\ DiskNext /\ UNCHANGED <<mvars, clock, ivars>>
     \/ unit = "serial" /\ InputNext /\ UNCHANGED <<mvars, clock, dkvars>>

WaitingSpec == WaitingInit /\ [][WaitingNext]_<<unit, mvars, clock, dkvars, ivars>>
=============================================================================

------------------------------ MODULE Monitor ------------------------------
(***************************************************************************)
(* The condition variables of threads/synch.c on top of its locks and      *)
(* semaphores.  A thread in cond_wait owns one semaphore_elem on its own   *)
(* stack; WaiterSema[t] is the semaphore in it, and the thread stands for  *)
(* the element on cond->waiters.                                           *)
(***************************************************************************)
EXTENDS Synch

CONSTANTS
  Cond,        \* the condition variables
  CondLock,    \* the one lock each is used with
  WaiterSema   \* the semaphore in each thread's semaphore_elem

ASSUME CondAssumption ==
  /\ CondLock \in [Cond -> Lock]
  /\ WaiterSema \in [Thread -> Sema \ UserSema]
  /\ \A t, u \in Thread : WaiterSema[t] = WaiterSema[u] => t = u

VARIABLES
  cond_waiters,  \* cond->waiters
  cond           \* the condition variable a thread is operating on

monitor == <<cond_waiters, cond>>
mvars == <<vars, monitor>>

MInit ==
  /\ Init
  /\ cond_waiters = [c \in Cond |-> <<>>]
  /\ cond = [t \in Thread |-> NULL]

(***************************************************************************)
(* compare_priority_for_cond: an element whose thread is not (yet) waiting *)
(* on its semaphore compares below every other.                            *)
(***************************************************************************)
CondKey(ws) ==
  [t \in Elems(ws) |-> IF waiters[WaiterSema[t]] = <<>> THEN 0 ELSE 1 + priority[t]]

(* cond_wait up to its call of lock_release. *)
CondWait(c) ==
  /\ Call
  /\ holder[CondLock[c]] = cur
  /\ value' = [value EXCEPT ![WaiterSema[cur]] = 0]
  /\ waiters' = [waiters EXCEPT ![WaiterSema[cur]] = <<>>]
  /\ cond_waiters' = [cond_waiters EXCEPT ![c] =
                        InsertOrdered(@, cur, CondKey(Append(@, cur)))]
  /\ cond' = [cond EXCEPT ![cur] = c]
  /\ arg' = [arg EXCEPT ![cur] = CondLock[c]]
  /\ ret' = [ret EXCEPT ![cur] = "cond_sleep"]
  /\ Goto("rel_donations")
  /\ UNCHANGED <<sched, prio, holder, pending, donee, donate>>

(* Its sema_down on the waiter's semaphore is called, and is taken. *)
CondSleep ==
  /\ At("cond_sleep")
  /\ arg' = [arg EXCEPT ![cur] = WaiterSema[cur]]
  /\ Goto("cond_down")
  /\ UNCHANGED <<sched, prio, semas, holder, pending, donee, donate, ret, calls, monitor>>

CondDown ==
  /\ At("cond_down")
  /\ SemaDown(arg[cur], "cond_acquire")
  /\ UNCHANGED <<prio, holder, local, monitor>>

(* Its lock_acquire is called. *)
CondAcquire ==
  /\ At("cond_acquire")
  /\ arg' = [arg EXCEPT ![cur] = CondLock[cond[cur]]]
  /\ ret' = [ret EXCEPT ![cur] = "run"]
  /\ Goto("acq_check")
  /\ UNCHANGED <<sched, prio, semas, holder, pending, donee, donate, calls, monitor>>

(* Variant: the signalled waiter stays on the list. *)
SignalFront(c, next) ==
  LET sorted == Sort(cond_waiters[c], CondKey(cond_waiters[c]))
  IN  IF sorted = <<>>
        THEN /\ pc' = [pc EXCEPT ![cur] = "run"]
             /\ UNCHANGED <<cond_waiters, arg, ret>>
        ELSE /\ cond_waiters' = [cond_waiters EXCEPT ![c] = sorted]
             /\ arg' = [arg EXCEPT ![cur] = WaiterSema[Head(sorted)]]
             /\ ret' = [ret EXCEPT ![cur] = next]
             /\ Goto("sig_up")

(* cond_signal up to its sema_up: take the first of the sorted waiters. *)
Signal(c, next) ==
  LET sorted == Sort(cond_waiters[c], CondKey(cond_waiters[c]))
  IN  IF sorted = <<>>
        THEN /\ pc' = [pc EXCEPT ![cur] = "run"]
             /\ UNCHANGED <<cond_waiters, arg, ret>>
        ELSE /\ cond_waiters' = [cond_waiters EXCEPT ![c] = Tail(sorted)]
             /\ arg' = [arg EXCEPT ![cur] = WaiterSema[Head(sorted)]]
             /\ ret' = [ret EXCEPT ![cur] = next]
             /\ Goto("sig_up")

CondSignal(c) ==
  /\ Call
  /\ holder[CondLock[c]] = cur
  /\ Signal(c, "run")
  /\ UNCHANGED <<sched, prio, semas, holder, pending, donee, donate, cond>>

SignalUp ==
  /\ At("sig_up")
  /\ SemaUp(arg[cur])
  /\ Goto(ret[cur])
  /\ UNCHANGED <<prio, holder, local, monitor>>

(* cond_broadcast: cond_signal until nobody waits. *)
CondBroadcast(c) ==
  /\ Call
  /\ holder[CondLock[c]] = cur
  /\ cond' = [cond EXCEPT ![cur] = c]
  /\ Goto("broadcast")
  /\ UNCHANGED <<sched, prio, semas, holder, arg, pending, donee, donate, ret, cond_waiters>>

BroadcastNext ==
  /\ At("broadcast")
  /\ Signal(cond[cur], "broadcast")
  /\ UNCHANGED <<sched, prio, semas, holder, pending, donee, donate, calls, cond>>

MStep ==
  \/ Step /\ UNCHANGED monitor
  \/ \E c \in Cond : CondWait(c) \/ CondSignal(c) \/ CondBroadcast(c)
  \/ CondSleep \/ CondDown \/ CondAcquire \/ SignalUp \/ BroadcastNext

MNext == MStep \/ (TimerYield /\ UNCHANGED monitor)

MSpec == MInit /\ [][MNext]_mvars
-----------------------------------------------------------------------------
(* Scheduler, locks and condition variables keep their types. *)
MTypeOK ==
  /\ TypeOK
  /\ cond_waiters \in [Cond -> Seq(Thread)]
  /\ cond \in [Thread -> Cond \cup {NULL}]

(* t is in cond_wait(c) and its semaphore has not been taken. *)
Waiting(t, c) ==
  /\ cond[t] = c
  /\ \/ pc[t] \in {"rel_donations", "rel_recalc", "rel_holder", "rel_up", "resched"}
        /\ ret[t] = "cond_sleep"
     \/ pc[t] \in {"cond_sleep", "cond_down"}

(***************************************************************************)
(* No signal is lost and none is spent twice: a thread in cond_wait is on  *)
(* cond->waiters, or has been taken off by a cond_signal whose sema_up is  *)
(* still to come, or has its semaphore up: exactly one of the three.  The  *)
(* semaphore of a thread that does not wait is down, so the sema_init of   *)
(* the next cond_wait throws nothing away.                                 *)
(***************************************************************************)
SignalAccounting ==
  MTypeOK /\ \A t \in Thread :
    LET listed  == Cardinality({c \in Cond : t \in Elems(cond_waiters[c])})
        raising == Cardinality({u \in Thread : pc[u] = "sig_up" /\ arg[u] = WaiterSema[t]})
    IN  listed + raising + value[WaiterSema[t]] =
          IF \E c \in Cond : Waiting(t, c) THEN 1 ELSE 0
=============================================================================

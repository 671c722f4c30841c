------------------------------- MODULE Synch -------------------------------
(***************************************************************************)
(* The priority scheduler of threads/thread.c with the semaphores, the     *)
(* locks and the priority donation of threads/synch.c.                     *)
(*                                                                         *)
(* There is one CPU: `cur' is the running thread and only it takes steps.  *)
(* Code between intr_disable and intr_set_level is one step.  Everything   *)
(* else is cut at the points where an interrupt can matter, and TimerYield *)
(* is the timer interrupt whose time slice is over (thread_tick), which    *)
(* may come between any two steps.  lock_acquire and lock_release run with *)
(* interrupts on, so each is several steps.                                *)
(*                                                                         *)
(* The threads are arbitrary kernel threads: they create the others, call  *)
(* the primitives in any order that respects the documented preconditions  *)
(* (no recursive acquire, release by the holder) and a lock order, release *)
(* what they hold, and exit.                                               *)
(***************************************************************************)
EXTENDS Integers, OrderedList

CONSTANTS
  Thread,        \* the kernel threads
  Main,          \* the initial thread
  Idle,          \* the idle thread
  Lock,          \* the locks
  Sema,          \* the semaphores that do not belong to a lock
  UserSema,      \* those of them that threads operate on directly
  NULL,
  Priority,      \* the priorities in use
  InitPriority,  \* the priority every thread is created with
  InitValue,     \* the initial value of every semaphore in Sema
  LockRank,      \* the order in which a thread may nest locks
  NewPriority,   \* the arguments of thread_set_priority
  MaxCalls       \* bound: how many calls each thread makes before it exits

ASSUME ThreadAssumption == Main \in Thread /\ Idle \notin Thread
ASSUME FiniteAssumption == IsFiniteSet(Thread)
ASSUME NullAssumption == NULL \notin Thread \cup {Idle} \cup Lock
ASSUME SemaAssumption ==
  /\ Lock \cap Sema = {}
  /\ UserSema \subseteq Sema
  /\ NULL \notin Sema
  /\ InitValue \in [Sema -> Nat]
ASSUME PriorityAssumption ==
  /\ Priority \subseteq Nat
  /\ NewPriority \subseteq Priority
  /\ InitPriority \in [Thread -> Priority]
ASSUME OrderAssumption == LockRank \in [Lock -> Nat] /\ MaxCalls \in [Thread -> Nat]

AllThreads == Thread \cup {Idle}
AllSemas == Lock \cup Sema
PRI_MIN == 0

VARIABLES
  cur,                \* running_thread()
  status,             \* thread->status; NONE before thread_create
  ready_list,
  priority,           \* thread->priority, the donated one
  original_priority,
  value,              \* semaphore->value, of a lock's semaphore too
  waiters,            \* semaphore->waiters
  holder,             \* lock->holder
  donations,          \* thread->donations
  pending_lock,       \* thread->pending_lock
  pc,                 \* where each thread is in the code below
  arg,                \* the lock or semaphore a thread is operating on
  pending,            \* lock_acquire's local `pending'
  donee,              \* lock_acquire's local `holder'
  donate,             \* lock_acquire's local `donate'
  ret,                \* where the current lock operation returns to
  calls               \* calls left to each thread

sched == <<cur, status, ready_list>>
prio  == <<priority, original_priority, donations, pending_lock>>
semas == <<value, waiters>>
local == <<arg, pending, donee, donate, ret, calls>>
vars  == <<sched, prio, semas, holder, pc, local>>

(* Every place a thread can be preempted at. *)
PC == {"run",                                                  \* the caller
       "acq_check", "acq_scan", "acq_donate", "acq_insert", "acq_down", "acq_hold",
       "rel_donations", "rel_recalc", "rel_holder", "rel_up", "resched",
       "down", "exit", "sleep_insert", "sleep_block",
       "cond_sleep", "cond_down", "cond_acquire", "sig_up", "broadcast"}  \* Monitor

Donation == [donor : Thread, lock : Lock, priority : Priority]
DonationKey(ds) == [d \in Elems(ds) |-> d.priority]

Init ==
  /\ cur = Main
  /\ status = [t \in AllThreads |->
                 IF t = Main THEN "RUNNING" ELSE IF t = Idle THEN "BLOCKED" ELSE "NONE"]
  /\ ready_list = <<>>
  /\ priority = [t \in AllThreads |-> IF t = Idle THEN PRI_MIN ELSE InitPriority[t]]
  /\ original_priority = priority
  /\ value = [s \in AllSemas |-> IF s \in Lock THEN 1 ELSE InitValue[s]]
  /\ waiters = [s \in AllSemas |-> <<>>]
  /\ holder = [l \in Lock |-> NULL]
  /\ donations = [t \in Thread |-> <<>>]
  /\ pending_lock = [t \in Thread |-> NULL]
  /\ pc = [t \in Thread |-> "run"]
  /\ arg = [t \in Thread |-> NULL]
  /\ pending = [t \in Thread |-> NULL]
  /\ donee = [t \in Thread |-> NULL]
  /\ donate = [t \in Thread |-> NULL]
  /\ ret = [t \in Thread |-> "run"]
  /\ calls = MaxCalls
-----------------------------------------------------------------------------
(***************************************************************************)
(* The scheduler.  Its operations take the statuses, the ready list and    *)
(* the priorities as the caller has left them in the same step.            *)
(***************************************************************************)

(* schedule and next_thread_to_run: the front of the ready list, or idle. *)
Schedule(st, ready) ==
  /\ cur' = IF ready = <<>> THEN Idle ELSE Head(ready)
  /\ ready_list' = IF ready = <<>> THEN ready ELSE Tail(ready)
  /\ status' = [st EXCEPT ![cur'] = "RUNNING"]

(* thread_block *)
Block == Schedule([status EXCEPT ![cur] = "BLOCKED"], ready_list)

(* thread_unblock does not preempt the running thread. *)
ReadyWith(t, ready, pr) == InsertOrdered(ready, t, pr)

(* Variant: thread_yield does not except the idle thread. *)
YieldIdleListed(st, ready, pr) ==
  Schedule([st EXCEPT ![cur] = "READY"], InsertOrdered(ready, cur, pr))

(* thread_yield: idle is never put on the ready list. *)
Yield(st, ready, pr) ==
  Schedule([st EXCEPT ![cur] = "READY"],
           IF cur = Idle THEN ready ELSE InsertOrdered(ready, cur, pr))

(* Variant: the comparison trusts the order of the ready list. *)
CompareCurNextUnsorted(st, ready, pr) ==
  IF ready # <<>> /\ pr[Head(ready)] > pr[cur]
    THEN Yield(st, ready, pr)
    ELSE cur' = cur /\ ready_list' = ready /\ status' = st

(* compare_cur_next_priority *)
CompareCurNext(st, ready, pr) ==
  LET sorted == Sort(ready, pr)
  IN  IF ready # <<>> /\ pr[Head(sorted)] > pr[cur]
        THEN Yield(st, sorted, pr)
        ELSE cur' = cur /\ ready_list' = sorted /\ status' = st

(* The timer interrupt at the end of a time slice: intr_yield_on_return. *)
TimerYield ==
  /\ Yield(status, ready_list, priority)
  /\ UNCHANGED <<prio, semas, holder, pc, local>>

Goto(l) == pc' = [pc EXCEPT ![cur] = l]

(* The running thread is at label l. *)
At(l) == cur \in Thread /\ pc[cur] = l

(* The running thread makes another call. *)
Call == /\ At("run")
        /\ calls[cur] > 0
        /\ calls' = [calls EXCEPT ![cur] = @ - 1]

(***************************************************************************)
(* thread_create, from init_thread's BLOCKED to READY, then the yield to   *)
(* a new thread of higher priority.  A timer interrupt between the two     *)
(* gives the CPU away just as this yield does.                             *)
(***************************************************************************)
ThreadCreate(t) ==
  /\ At("run")
  /\ status[t] = "NONE"
  /\ LET st    == [status EXCEPT ![t] = "READY"]
         ready == ReadyWith(t, ready_list, priority)
     IN  IF priority[t] > priority[cur]
           THEN Yield(st, ready, priority)
           ELSE cur' = cur /\ ready_list' = ready /\ status' = st
  /\ UNCHANGED <<prio, semas, holder, pc, local>>

(***************************************************************************)
(* thread_exit: the thread gives the CPU away for good (process_exit has   *)
(* it wait for its parent; module Process has that part).                  *)
(***************************************************************************)
ThreadExit ==
  /\ At("run")
  /\ \A l \in Lock : holder[l] # cur
  /\ Goto("exit")
  /\ Block
  /\ UNCHANGED <<prio, semas, holder, local>>

(***************************************************************************)
(* thread_set_priority: the donations' front stays effective; then, in a   *)
(* second step, compare_cur_next_priority.                                 *)
(***************************************************************************)
Effective(base, ds) ==
  IF ds # <<>> /\ Head(ds).priority > base THEN Head(ds).priority ELSE base

(* Variant: the new priority is not made the base priority. *)
ThreadSetPriorityEffectiveOnly(p) ==
  /\ Call
  /\ priority' = [priority EXCEPT ![cur] = p]
  /\ ret' = [ret EXCEPT ![cur] = "run"]
  /\ Goto("resched")
  /\ UNCHANGED <<sched, original_priority, donations, pending_lock, semas, holder,
                 arg, pending, donee, donate>>

ThreadSetPriority(p) ==
  /\ Call
  /\ original_priority' = [original_priority EXCEPT ![cur] = p]
  /\ priority' = [priority EXCEPT ![cur] = Effective(p, donations[cur])]
  /\ ret' = [ret EXCEPT ![cur] = "run"]
  /\ Goto("resched")
  /\ UNCHANGED <<sched, donations, pending_lock, semas, holder, arg, pending, donee, donate>>

Resched ==
  /\ At("resched")
  /\ CompareCurNext(status, ready_list, priority)
  /\ Goto(ret[cur])
  /\ UNCHANGED <<prio, semas, holder, local>>
-----------------------------------------------------------------------------
(* Semaphores. *)

(* Variant: the value is not tested. *)
SemaDownUntested(s, next) ==
  /\ value' = [value EXCEPT ![s] = @ - 1]
  /\ Goto(next)
  /\ UNCHANGED <<sched, waiters>>

(***************************************************************************)
(* One turn of sema_down's loop, all with interrupts off: take the value,  *)
(* or join the waiters in priority order and block.  A woken thread comes  *)
(* back to the same test.                                                  *)
(***************************************************************************)
SemaDown(s, next) ==
  \/ /\ value[s] > 0
     /\ value' = [value EXCEPT ![s] = @ - 1]
     /\ Goto(next)
     /\ UNCHANGED <<sched, waiters>>
  \/ /\ value[s] = 0
     /\ waiters' = [waiters EXCEPT ![s] = InsertOrdered(@, cur, priority)]
     /\ Block
     /\ UNCHANGED <<value, pc>>

(* Variants: the waiters are not sorted; the woken waiter is not taken off *)
(* the list; nobody is woken.                                              *)
SemaUpUnsorted(s) ==
  /\ value' = [value EXCEPT ![s] = @ + 1]
  /\ IF waiters[s] = <<>>
       THEN CompareCurNext(status, ready_list, priority) /\ UNCHANGED waiters
       ELSE /\ waiters' = [waiters EXCEPT ![s] = Tail(@)]
            /\ CompareCurNext([status EXCEPT ![Head(waiters[s])] = "READY"],
                              ReadyWith(Head(waiters[s]), ready_list, priority), priority)

SemaUpFront(s) ==
  LET sorted == Sort(waiters[s], priority)
  IN  /\ value' = [value EXCEPT ![s] = @ + 1]
      /\ waiters' = [waiters EXCEPT ![s] = sorted]
      /\ IF sorted = <<>>
           THEN CompareCurNext(status, ready_list, priority)
           ELSE CompareCurNext([status EXCEPT ![Head(sorted)] = "READY"],
                               ReadyWith(Head(sorted), ready_list, priority), priority)

SemaUpSilent(s) ==
  /\ value' = [value EXCEPT ![s] = @ + 1]
  /\ CompareCurNext(status, ready_list, priority)
  /\ UNCHANGED waiters

(* sema_up: wake the first of the sorted waiters, then count, then compare. *)
SemaUp(s) ==
  LET sorted == Sort(waiters[s], priority)
  IN  /\ value' = [value EXCEPT ![s] = @ + 1]
      /\ IF sorted = <<>>
           THEN /\ CompareCurNext(status, ready_list, priority)
                /\ UNCHANGED waiters
           ELSE /\ waiters' = [waiters EXCEPT ![s] = Tail(sorted)]
                /\ CompareCurNext([status EXCEPT ![Head(sorted)] = "READY"],
                                  ReadyWith(Head(sorted), ready_list, priority),
                                  priority)

CallDown(s) ==
  /\ Call
  /\ arg' = [arg EXCEPT ![cur] = s]
  /\ Goto("down")
  /\ UNCHANGED <<sched, prio, semas, holder, pending, donee, donate, ret>>

Down ==
  /\ At("down")
  /\ SemaDown(arg[cur], "run")
  /\ UNCHANGED <<prio, holder, local>>

TryDown(s) ==
  /\ Call
  /\ value' = [value EXCEPT ![s] = IF @ > 0 THEN @ - 1 ELSE @]
  /\ UNCHANGED <<sched, prio, waiters, holder, pc, arg, pending, donee, donate, ret>>

Up(s) ==
  /\ Call
  /\ SemaUp(s)
  /\ UNCHANGED <<prio, holder, pc, arg, pending, donee, donate, ret>>
-----------------------------------------------------------------------------
(* Locks. *)

(* lock_acquire is called; the caller respects the lock order. *)
CallAcquire(l) ==
  /\ Call
  /\ \A k \in Lock : holder[k] = cur => LockRank[k] < LockRank[l]
  /\ arg' = [arg EXCEPT ![cur] = l]
  /\ ret' = [ret EXCEPT ![cur] = "run"]
  /\ Goto("acq_check")
  /\ UNCHANGED <<sched, prio, semas, holder, pending, donee, donate>>

(* `if (lock->holder)': remember what we wait for. *)
AcquireCheck ==
  /\ At("acq_check")
  /\ LET l == arg[cur]
     IN  IF holder[l] # NULL
           THEN /\ pending_lock' = [pending_lock EXCEPT ![cur] = l]
                /\ pending' = [pending EXCEPT ![cur] = l]
                /\ Goto("acq_scan")
           ELSE Goto("acq_down") /\ UNCHANGED <<pending_lock, pending>>
  /\ UNCHANGED <<sched, priority, original_priority, donations, semas, holder,
                 arg, donee, donate, ret, calls>>

(* The head of the donation loop: stop at a free lock or a stronger holder. *)
AcquireScan ==
  /\ At("acq_scan")
  /\ LET h == holder[pending[cur]]
     IN  IF h = NULL \/ priority[cur] < priority[h]
           THEN Goto("acq_down") /\ UNCHANGED donee
           ELSE Goto("acq_donate") /\ donee' = [donee EXCEPT ![cur] = h]
  /\ UNCHANGED <<sched, prio, semas, holder, arg, pending, donate, ret, calls>>

(***************************************************************************)
(* The rest of the loop body, after create_donation's malloc: raise the    *)
(* donee's priority, then record the donation.  The donee was read before  *)
(* the allocation, so it may have released the lock since.                 *)
(***************************************************************************)
AcquireDonate ==
  /\ At("acq_donate")
  /\ donate' = [donate EXCEPT ![cur] =
                  [donor |-> cur, lock |-> pending[cur], priority |-> priority[cur]]]
  /\ priority' = [priority EXCEPT ![donee[cur]] = IF @ < priority[cur] THEN priority[cur] ELSE @]
  /\ Goto("acq_insert")
  /\ UNCHANGED <<sched, original_priority, donations, pending_lock, semas, holder,
                 arg, pending, donee, ret, calls>>

AcquireInsert ==
  /\ At("acq_insert")
  /\ LET h    == donee[cur]
         d    == donate[cur]
         next == pending_lock[h]
     IN  /\ donations' = [donations EXCEPT ![h] =
                            InsertOrdered(@, d, DonationKey(Append(@, d)))]
         /\ waiters' = IF next = NULL THEN waiters
                       ELSE [waiters EXCEPT ![next] = Sort(@, priority)]
         /\ pending' = [pending EXCEPT ![cur] = next]
         /\ Goto(IF next = NULL THEN "acq_down" ELSE "acq_scan")
  /\ donee' = [donee EXCEPT ![cur] = NULL]
  /\ donate' = [donate EXCEPT ![cur] = NULL]
  /\ UNCHANGED <<sched, priority, original_priority, pending_lock, value, holder,
                 arg, ret, calls>>

AcquireDown ==
  /\ At("acq_down")
  /\ SemaDown(arg[cur], "acq_hold")
  /\ UNCHANGED <<prio, holder, local>>

(* The lock is ours; only now does it say so. *)
AcquireHold ==
  /\ At("acq_hold")
  /\ pending_lock' = [pending_lock EXCEPT ![cur] = NULL]
  /\ holder' = [holder EXCEPT ![arg[cur]] = cur]
  /\ Goto(ret[cur])
  /\ UNCHANGED <<sched, priority, original_priority, donations, semas, local>>

(* Variant: lock->holder is tested instead of the semaphore. *)
LockTryAcquireByHolder(l) ==
  /\ Call
  /\ holder[l] = NULL
  /\ value' = [value EXCEPT ![l] = 0]
  /\ arg' = [arg EXCEPT ![cur] = l]
  /\ ret' = [ret EXCEPT ![cur] = "run"]
  /\ Goto("acq_hold")
  /\ UNCHANGED <<sched, prio, waiters, holder, pending, donee, donate>>

LockTryAcquire(l) ==
  /\ Call
  /\ holder[l] # cur
  /\ IF value[l] > 0
       THEN /\ value' = [value EXCEPT ![l] = @ - 1]
            /\ arg' = [arg EXCEPT ![cur] = l]
            /\ ret' = [ret EXCEPT ![cur] = "run"]
            /\ Goto("acq_hold")
       ELSE UNCHANGED <<value, arg, ret, pc>>
  /\ UNCHANGED <<sched, prio, waiters, holder, pending, donee, donate>>

(* lock_release is called; a release does not count as a call. *)
CallRelease(l) ==
  /\ At("run")
  /\ holder[l] = cur
  /\ arg' = [arg EXCEPT ![cur] = l]
  /\ ret' = [ret EXCEPT ![cur] = "run"]
  /\ Goto("rel_donations")
  /\ UNCHANGED <<sched, prio, semas, holder, pending, donee, donate, calls>>

(* remove_donation_for_lock *)
ReleaseDonations ==
  /\ At("rel_donations")
  /\ LET kept == {i \in 1..Len(donations[cur]) : donations[cur][i].lock # arg[cur]}
     IN  donations' = [donations EXCEPT ![cur] = Filter(@, kept)]
  /\ Goto("rel_recalc")
  /\ UNCHANGED <<sched, priority, original_priority, pending_lock, semas, holder, local>>

(* Variant: an empty donation list is returned on before the reset. *)
ReleaseRecalcEarly ==
  /\ At("rel_recalc")
  /\ IF donations[cur] = <<>> THEN UNCHANGED <<priority, donations>>
     ELSE LET sorted == Sort(donations[cur], DonationKey(donations[cur]))
          IN  /\ donations' = [donations EXCEPT ![cur] = sorted]
              /\ priority' = [priority EXCEPT ![cur] = Effective(original_priority[cur], sorted)]
  /\ Goto("rel_holder")
  /\ UNCHANGED <<sched, original_priority, pending_lock, semas, holder, local>>

(* recalc_priority *)
ReleaseRecalc ==
  /\ At("rel_recalc")
  /\ LET sorted == Sort(donations[cur], DonationKey(donations[cur]))
     IN  /\ donations' = [donations EXCEPT ![cur] = sorted]
         /\ priority' = [priority EXCEPT ![cur] = Effective(original_priority[cur], sorted)]
  /\ Goto("rel_holder")
  /\ UNCHANGED <<sched, original_priority, pending_lock, semas, holder, local>>

ReleaseHolder ==
  /\ At("rel_holder")
  /\ holder' = [holder EXCEPT ![arg[cur]] = NULL]
  /\ Goto("rel_up")
  /\ UNCHANGED <<sched, prio, semas, local>>

(* sema_up with its yield, and behind it lock_release's own comparison. *)
ReleaseUp ==
  /\ At("rel_up")
  /\ SemaUp(arg[cur])
  /\ Goto("resched")
  /\ UNCHANGED <<prio, holder, local>>
-----------------------------------------------------------------------------
Step ==
  \/ \E t \in Thread : ThreadCreate(t)
  \/ ThreadExit
  \/ \E p \in NewPriority : ThreadSetPriority(p)
  \/ Resched
  \/ \E s \in UserSema : CallDown(s) \/ TryDown(s) \/ Up(s)
  \/ Down
  \/ \E l \in Lock : CallAcquire(l) \/ LockTryAcquire(l) \/ CallRelease(l)
  \/ AcquireCheck \/ AcquireScan \/ AcquireDonate \/ AcquireInsert \/ AcquireDown \/ AcquireHold
  \/ ReleaseDonations \/ ReleaseRecalc \/ ReleaseHolder \/ ReleaseUp

Next == Step \/ TimerYield

Spec == Init /\ [][Next]_vars

(***************************************************************************)
(* A thread that is given the CPU gets a time slice to run in, so a thread *)
(* that is scheduled again and again makes steps.                          *)
(***************************************************************************)
Fairness == \A t \in Thread : SF_vars(cur = t /\ Step)
FairSpec == Spec /\ Fairness
-----------------------------------------------------------------------------
(* Every variable of the scheduler, the semaphores and the locks has its type. *)
TypeOK ==
  /\ cur \in AllThreads
  /\ status \in [AllThreads -> {"NONE", "READY", "RUNNING", "BLOCKED"}]
  /\ ready_list \in Seq(Thread)
  /\ priority \in [AllThreads -> Priority \cup {PRI_MIN}]
  /\ original_priority \in [AllThreads -> Priority \cup {PRI_MIN}]
  /\ value \in [AllSemas -> Nat]
  /\ waiters \in [AllSemas -> Seq(Thread)]
  /\ holder \in [Lock -> Thread \cup {NULL}]
  /\ donations \in [Thread -> Seq(Donation)]
  /\ pending_lock \in [Thread -> Lock \cup {NULL}]
  /\ pc \in [Thread -> PC]
  /\ arg \in [Thread -> AllSemas \cup {NULL}]
  /\ pending \in [Thread -> Lock \cup {NULL}]
  /\ donee \in [Thread -> Thread \cup {NULL}]
  /\ donate \in [Thread -> Donation \cup {NULL}]
  /\ ret \in [Thread -> PC]
  /\ calls \in [Thread -> Nat]

(* t has passed the semaphore of l and has not given it back: from the end *)
(* of sema_down in lock_acquire to the sema_up in lock_release.            *)
Owns(t, l) ==
  \/ holder[l] = t
  \/ pc[t] \in {"acq_hold", "rel_up"} /\ arg[t] = l

(***************************************************************************)
(* A lock has at most one owner, also in the windows where lock->holder is *)
(* not set yet or not set any more, and its semaphore counts exactly that. *)
(***************************************************************************)
MutualExclusion ==
  \A l \in Lock :
    /\ \A t, u \in Thread : Owns(t, l) /\ Owns(u, l) => t = u
    /\ value[l] = IF \E t \in Thread : Owns(t, l) THEN 0 ELSE 1

(***************************************************************************)
(* lock_acquire, lock_try_acquire and lock_release implement the abstract  *)
(* lock: the owner is the thread between the two semaphore operations.     *)
(***************************************************************************)
LockOwner ==
  [l \in Lock |-> IF \E t \in Thread : Owns(t, l)
                    THEN CHOOSE t \in Thread : Owns(t, l) ELSE NULL]

M == INSTANCE Mutex WITH owner <- LockOwner

ImplementsMutex == M!Spec

(***************************************************************************)
(* thread.h on `elem': a thread is on the run queue exactly when it is     *)
(* READY and on the waiters of exactly the semaphore it is downing when it *)
(* is BLOCKED, on no list twice, and only the running thread is RUNNING.   *)
(***************************************************************************)
ThreadPlacement ==
  /\ Once(ready_list)
  /\ \A s \in AllSemas : Once(waiters[s])
  /\ \A t \in AllThreads : status[t] = "RUNNING" <=> t = cur
  /\ \A t \in Thread : status[t] = "READY" <=> t \in Elems(ready_list)
  /\ \A t \in Thread, s \in AllSemas :
       t \in Elems(waiters[s]) <=> /\ status[t] = "BLOCKED"
                                  /\ pc[t] \in {"down", "acq_down", "cond_down"}
                                  /\ arg[t] = s

(***************************************************************************)
(* No wakeup is lost: while threads wait on a semaphore, every unit of its *)
(* value is matched by a thread that has been woken, or has arrived, and   *)
(* is about to test the value again.                                       *)
(***************************************************************************)
Testers(s) == {t \in Thread : /\ pc[t] \in {"down", "acq_down", "cond_down"}
                              /\ arg[t] = s
                              /\ status[t] # "BLOCKED"}

NoLostWakeup ==
  \A s \in AllSemas : waiters[s] # <<>> => value[s] <= Cardinality(Testers(s))

(***************************************************************************)
(* recalc_priority, thread_set_priority and the donation loop never leave  *)
(* a thread below its base priority or at a priority nobody gave it: it is *)
(* the base one, that of a recorded donation, or that of a donor which is  *)
(* about to record one (lock_release has it stale for one statement).      *)
(***************************************************************************)
Donors(t) == {u \in Thread : pc[u] = "acq_insert" /\ donee[u] = t}

EffectivePriority ==
  \A t \in Thread :
    /\ priority[t] >= original_priority[t]
    /\ pc[t] # "rel_recalc" =>
         priority[t] \in {original_priority[t]} \cup {d.priority : d \in Elems(donations[t])}
                                               \cup {donate[u].priority : u \in Donors(t)}

(***************************************************************************)
(* tests/threads/priority-sema.c: the thread that sema_up takes off the    *)
(* waiters has the highest priority among them, although donation may have *)
(* changed the order since they were inserted.                             *)
(***************************************************************************)
WakesHighest ==
  [][\A s \in AllSemas : \A t \in Elems(waiters[s]) \ Elems(waiters'[s]) :
       \A u \in Elems(waiters[s]) : priority[u] <= priority[t]]_vars

(***************************************************************************)
(* After compare_cur_next_priority (at the end of sema_up, lock_release    *)
(* and thread_set_priority) no ready thread has a higher priority than the *)
(* running one.                                                            *)
(***************************************************************************)
PreemptsAfterUp ==
  [][(\E s \in AllSemas : value'[s] > value[s]) \/ Resched =>
       \A t \in Elems(ready_list') : priority'[t] <= priority'[cur']]_vars

(* Every lock_acquire returns, if the holders keep releasing. *)
AcquireReturns == \A t \in Thread : pc[t] = "acq_check" ~> pc[t] = "run"
=============================================================================

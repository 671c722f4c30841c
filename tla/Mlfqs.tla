------------------------------- MODULE Mlfqs --------------------------------
(***************************************************************************)
(* The multi-level feedback queue scheduler of threads/thread.c, driven by *)
(* mlfqs_on_tick of devices/timer.c, in the fixed-point arithmetic of      *)
(* threads/fixed-point.c.  A tick is the whole timer interrupt, with the   *)
(* yield on its return.                                                    *)
(***************************************************************************)
EXTENDS Integers, Sequences, FiniteSets, TLC

CONSTANTS Task, MainTask, IdleTask, F, TIMER_FREQ, TIME_SLICE, PriMin, PriMax, Nice, MaxEvents

ASSUME MlfqsAssumption == MainTask \in Task /\ IdleTask \notin Task /\ TIMER_FREQ % 4 = 0 /\ F \div 60 > 0

VARIABLES running,        \* the running thread
          ready,          \* ready_list
          blocked,        \* the blocked threads; IdleTask is never listed
          fresh,          \* the threads that are not created yet
          nice, recent_cpu, pri,
          load_avg,
          ticks,          \* counted up to two seconds, then again from the first
          thread_ticks,
          events          \* calls so far

mlvars == <<running, ready, blocked, fresh, nice, recent_cpu, pri, load_avg, ticks, thread_ticks, events>>

(* Division of C, towards zero. *)
Div(x, n) == IF x >= 0 THEN x \div n ELSE -((-x) \div n)
int_to_fp(n) == n * F
fp_to_int_round(x) == IF x >= 0 THEN Div(x + F \div 2, F) ELSE Div(x - F \div 2, F)
add_fp_int(x, n) == x + n * F
mul_fp(x, y) == Div(x * y, F)
div_fp(x, y) == Div(x * F, y)

Formula(cpu, n) ==
  LET p == PriMax - fp_to_int_round(Div(cpu, 4)) - n * 2
  IN  IF p > PriMax THEN PriMax ELSE IF p < PriMin THEN PriMin ELSE p

LoadAvg(load, r, cur) ==
  Div(load * 59, 60) + Div(int_to_fp(1), 60) * (Len(r) + IF cur = IdleTask THEN 0 ELSE 1)

Decay(load, cpu, n) == mul_fp(div_fp(load * 2, add_fp_int(load * 2, 1)), cpu) + int_to_fp(n)

(***************************************************************************)
(* list_insert_ordered and list_sort by compare_priority; the sort is      *)
(* stable.  The variant compares the other way round.                      *)
(***************************************************************************)
InsertReadyLowest(r, t, p) ==
  LET k == Len(SelectSeq(r, LAMBDA u : p[u] <= p[t]))
  IN  SubSeq(r, 1, k) \o <<t>> \o SubSeq(r, k + 1, Len(r))

InsertReady(r, t, p) ==
  LET k == Len(SelectSeq(r, LAMBDA u : p[u] >= p[t]))
  IN  SubSeq(r, 1, k) \o <<t>> \o SubSeq(r, k + 1, Len(r))

RECURSIVE SortReady(_, _)
SortReady(r, p) == IF r = <<>> THEN <<>> ELSE
  LET n == Len(r) IN InsertReady(SortReady(SubSeq(r, 1, n - 1), p), r[n], p)

(***************************************************************************)
(* thread_yield and thread_block: the running thread goes to the ready     *)
(* list, unless it is the idle thread, or blocks; next_thread_to_run is    *)
(* dispatched and gets a new time slice.                                   *)
(***************************************************************************)
Dispatch(r) ==
  /\ running' = IF r = <<>> THEN IdleTask ELSE Head(r)
  /\ ready' = IF r = <<>> THEN r ELSE Tail(r)
  /\ thread_ticks' = 0

Yielded(r, p) == Dispatch(IF running = IdleTask THEN r ELSE InsertReady(r, running, p))

Stay(r) == ready' = r /\ UNCHANGED <<running, thread_ticks>>

(* compare_cur_next_priority outside of an interrupt. *)
compare_cur_next_priority(p) ==
  LET r == SortReady(ready, p)
  IN  IF r # <<>> /\ p[Head(r)] > p[running] THEN Yielded(r, p) ELSE Stay(r)

(***************************************************************************)
(* timer_interrupt, thread_tick, mlfqs_on_tick.                            *)
(***************************************************************************)
(* update_recent_cpu, and update_recent_cpu_all once a second. *)
CpuAfter(t, load, second) ==
  LET cpu == IF t = running THEN add_fp_int(recent_cpu[t], 1) ELSE recent_cpu[t]
  IN  IF second THEN Decay(load, cpu, nice[t]) ELSE cpu

(* Variant: the priority is computed before recent_cpu is. *)
update_priority_before(t) == Formula(recent_cpu[t], nice[t])

update_priority(t) == Formula(recent_cpu'[t], nice[t])

(* Variant: the list keeps the order of the old priorities. *)
SortedOnTick_not(fourth) == ready

(* update_all_priority ends in compare_cur_next_priority, which sorts the list. *)
SortedOnTick(fourth) == IF fourth THEN SortReady(ready, pri') ELSE ready

(* The idle thread, whose recent_cpu nobody reads, blocks once the interrupt has returned. *)
Tick ==
  LET now == ticks + 1
      second == now % TIMER_FREQ = 0
      fourth == now % 4 = 0
      r == SortedOnTick(fourth)
      higher == fourth /\ r # <<>> /\ pri'[Head(r)] > pri'[running]
  IN  /\ ticks' = IF now = 2 * TIMER_FREQ THEN TIMER_FREQ ELSE now
      /\ load_avg' = IF second THEN LoadAvg(load_avg, ready, running) ELSE load_avg
      /\ recent_cpu' = [t \in Task |-> CpuAfter(t, load_avg', second)]
      /\ pri' = IF fourth THEN [t \in Task |-> update_priority(t)] @@ (IdleTask :> PriMin) ELSE pri
      /\ IF running = IdleTask THEN Dispatch(r)
         ELSE IF higher \/ thread_ticks + 1 >= TIME_SLICE THEN Yielded(r, pri')
         ELSE ready' = r /\ thread_ticks' = thread_ticks + 1 /\ UNCHANGED running
      /\ events' = 0 /\ UNCHANGED <<blocked, fresh, nice>>

(***************************************************************************)
(* What threads do to the scheduler: MaxEvents calls, before the first     *)
(* tick, choose the threads and their nice values.                         *)
(***************************************************************************)
Event == ticks = 0 /\ events < MaxEvents /\ events' = events + 1

thread_set_nice(n) ==
  /\ Event
  /\ running # IdleTask
  /\ nice' = [nice EXCEPT ![running] = n]
  /\ pri' = [pri EXCEPT ![running] = Formula(recent_cpu[running], n)]
  /\ compare_cur_next_priority(pri')
  /\ UNCHANGED <<blocked, fresh, recent_cpu, load_avg, ticks>>

thread_block ==
  /\ Event
  /\ running # IdleTask
  /\ blocked' = blocked \cup {running}
  /\ Dispatch(ready)
  /\ UNCHANGED <<fresh, nice, recent_cpu, pri, load_avg, ticks>>

thread_unblock(t) ==
  /\ Event
  /\ t \in blocked
  /\ blocked' = blocked \ {t}
  /\ Stay(InsertReady(ready, t, pri))
  /\ UNCHANGED <<fresh, nice, recent_cpu, pri, load_avg, ticks>>

(* A new thread inherits nice and recent_cpu, and its priority is computed. *)
thread_create(t) ==
  /\ Event
  /\ running # IdleTask /\ t \in fresh
  /\ fresh' = fresh \ {t}
  /\ nice' = [nice EXCEPT ![t] = nice[running]]
  /\ recent_cpu' = [recent_cpu EXCEPT ![t] = recent_cpu[running]]
  /\ pri' = [pri EXCEPT ![t] = Formula(recent_cpu[running], nice[running])]
  /\ LET r == InsertReady(ready, t, pri')
     IN  IF pri'[t] > pri'[running] THEN Yielded(r, pri') ELSE Stay(r)
  /\ UNCHANGED <<blocked, load_avg, ticks>>

MlfqsInit ==
  /\ running = MainTask /\ ready = <<>> /\ blocked = {} /\ fresh = Task \ {MainTask}
  /\ nice = [t \in Task |-> 0] /\ recent_cpu = [t \in Task |-> 0]
  /\ pri = [t \in Task \cup {IdleTask} |-> IF t = IdleTask THEN PriMin ELSE PriMax]
  /\ load_avg = 0 /\ ticks = 0 /\ thread_ticks = 0 /\ events = 0

MlfqsNext ==
  \/ Tick
  \/ \E n \in Nice : thread_set_nice(n)
  \/ thread_block
  \/ \E t \in Task : thread_unblock(t) \/ thread_create(t)
-----------------------------------------------------------------------------
(***************************************************************************)
(* After every fourth tick each thread has the priority its recent_cpu and *)
(* its nice value give at that tick, and no ready thread has a higher one  *)
(* than the thread that runs.                                              *)
(***************************************************************************)
FreshAndHighest ==
  ticks' # ticks /\ ticks' % 4 = 0 =>
    /\ \A t \in Task \ fresh : pri'[t] = Formula(recent_cpu'[t], nice'[t])
    /\ \A i \in DOMAIN ready' : pri'[ready'[i]] <= pri'[running']

(***************************************************************************)
(* The ready list is in the order of the priorities the threads have now,  *)
(* although a tick changes the priorities of listed threads, and holds     *)
(* every thread once that is neither running nor blocked.                  *)
(***************************************************************************)
InOrder == \A i, j \in DOMAIN ready : i < j => pri[ready[i]] >= pri[ready[j]]
ListedOnce ==
  /\ {ready[i] : i \in DOMAIN ready} = Task \ (fresh \cup blocked \cup {running})
  /\ Len(ready) = Cardinality({ready[i] : i \in DOMAIN ready})

(***************************************************************************)
(* A thread that is no nicer than the others does not starve: what another *)
(* thread uses up of the processor lowers that thread's priority until the *)
(* waiting one runs.  (A nicer thread may wait for ever behind two busy    *)
(* ones, so nothing is said of it.)                                        *)
(***************************************************************************)
LeastNice(t) == \A u \in Task \ fresh : nice[t] <= nice[u]
NobodyStarves ==
  \A t \in Task : (\E i \in DOMAIN ready : ready[i] = t) /\ LeastNice(t) ~> (running = t \/ ~LeastNice(t))

(* On every tick: the ready list is in order, and the highest priority runs. *)
OrderKept == [](InOrder /\ ListedOnce) /\ [][FreshAndHighest]_mlvars
=============================================================================

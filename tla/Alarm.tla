------------------------------- MODULE Alarm -------------------------------
(***************************************************************************)
(* The alarm clock of devices/timer.c on top of the scheduler: timer_sleep *)
(* puts the caller on block_thread_list and blocks it, timer_interrupt     *)
(* counts the tick, wakes what is due and ends the running time slice.     *)
(***************************************************************************)
EXTENDS Synch

SX == INSTANCE SequencesExt

CONSTANTS
  SleepTicks,   \* the arguments of timer_sleep
  BootTicks,    \* ticks gone by when the first thread can sleep
  MaxTicks      \* bound on the clock

ASSUME TickAssumption ==
  /\ SleepTicks \subseteq Int
  /\ BootTicks \in Nat /\ MaxTicks \in Nat

VARIABLES
  ticks,
  block_thread_list,
  closet_tick,       \* the next tick to wake somebody at; 0 is its NULL
  wakeup_tick        \* of the entry a thread in timer_sleep has allocated

clock == <<ticks, block_thread_list, closet_tick, wakeup_tick>>
avars == <<vars, clock>>

NoTick == 0

AInit ==
  /\ Init
  /\ ticks = BootTicks
  /\ block_thread_list = <<>>
  /\ closet_tick = NoTick
  /\ wakeup_tick = [t \in Thread |-> NoTick]

(* compare_tick orders by wakeup_tick, the smallest first. *)
TickKey(s) == [t \in Elems(s) |-> -wakeup_tick[t]]

(* timer_sleep reads the clock with interrupts on ... *)
TimerSleep(n) ==
  /\ Call
  /\ wakeup_tick' = [wakeup_tick EXCEPT ![cur] = ticks + n]
  /\ Goto("sleep_insert")
  /\ UNCHANGED <<sched, prio, semas, holder, arg, pending, donee, donate, ret,
                 ticks, block_thread_list, closet_tick>>

(* ... and some ticks later, with interrupts off, inserts and blocks. *)
TimerSleepInsert ==
  /\ At("sleep_insert")
  /\ closet_tick' = IF closet_tick = NoTick \/ closet_tick > wakeup_tick[cur]
                      THEN wakeup_tick[cur] ELSE closet_tick
  /\ block_thread_list' =
       InsertOrdered(block_thread_list, cur, TickKey(Append(block_thread_list, cur)))
  /\ Goto("sleep_block")
  /\ Block
  /\ UNCHANGED <<prio, semas, holder, local, ticks, wakeup_tick>>

(* thread_block in timer_sleep returns. *)
TimerSleepReturn ==
  /\ At("sleep_block")
  /\ Goto("run")
  /\ UNCHANGED <<sched, prio, semas, holder, local, clock>>

(* Variant: the loop does not stop at an entry that is not due. *)
DueAll(now) == Len(block_thread_list)

(* The entries wake_up's loop removes: the leading ones that are due. *)
Due(now) ==
  Cardinality({i \in 1..Len(block_thread_list) :
                 \A j \in 1..i : wakeup_tick[block_thread_list[j]] <= now})

(* Variants: closet_tick is cleared; the woken entries stay listed. *)
WakeUpClearsTick(n) ==
  /\ block_thread_list' = SubSeq(block_thread_list, n + 1, Len(block_thread_list))
  /\ closet_tick' = NoTick

WakeUpKeepsList(n) ==
  /\ block_thread_list' = block_thread_list
  /\ closet_tick' = IF n = Len(block_thread_list) THEN NoTick
                    ELSE wakeup_tick[block_thread_list[n + 1]]

(* What wake_up does to the list and the next tick after removing n. *)
WakeUp(n) ==
  /\ block_thread_list' = SubSeq(block_thread_list, n + 1, Len(block_thread_list))
  /\ closet_tick' = IF n = Len(block_thread_list) THEN NoTick
                    ELSE wakeup_tick[block_thread_list[n + 1]]

(***************************************************************************)
(* timer_interrupt.  wake_up unblocks the due threads in list order.  When *)
(* thread_tick has found the time slice used up, the interrupted thread    *)
(* yields on return; otherwise it goes on, whoever was woken.              *)
(***************************************************************************)
TimerInterrupt(sliceOver) ==
  LET now   == ticks + 1
      rings == closet_tick # NoTick /\ now >= closet_tick
      n     == IF rings THEN Due(now) ELSE 0
      woken == SubSeq(block_thread_list, 1, n)
      ready == SX!FoldLeft(LAMBDA list, t : ReadyWith(t, list, priority), ready_list, woken)
      st    == [t \in AllThreads |-> IF t \in Elems(woken) THEN "READY" ELSE status[t]]
  IN  /\ ticks < MaxTicks
      /\ ticks' = now
      /\ IF rings THEN WakeUp(n) ELSE UNCHANGED <<block_thread_list, closet_tick>>
      /\ IF sliceOver THEN Yield(st, ready, priority)
         ELSE cur' = cur /\ ready_list' = ready /\ status' = st
      /\ UNCHANGED <<prio, semas, holder, pc, local, wakeup_tick>>

(* The idle thread blocks again after every interrupt. *)
IdleBlocks ==
  /\ cur = Idle
  /\ Block
  /\ UNCHANGED <<prio, semas, holder, pc, local, clock>>

ANext ==
  \/ Step /\ UNCHANGED clock
  \/ \E n \in SleepTicks : TimerSleep(n)
  \/ TimerSleepInsert
  \/ TimerSleepReturn
  \/ \E sliceOver \in BOOLEAN : TimerInterrupt(sliceOver)
  \/ IdleBlocks

ASpec == AInit /\ [][ANext]_avars
-----------------------------------------------------------------------------
(* Scheduler and clock keep their types, with every sleeper a thread. *)
ATypeOK ==
  /\ TypeOK
  /\ ticks \in Nat
  /\ block_thread_list \in Seq(Thread)
  /\ closet_tick \in Int
  /\ wakeup_tick \in [Thread -> Int]

(***************************************************************************)
(* A sleeping thread is on block_thread_list exactly once and on no other  *)
(* list, and nobody else is: wake_up never unblocks a thread twice, which  *)
(* thread_unblock would assert.                                            *)
(***************************************************************************)
SleepersListed ==
  /\ Once(block_thread_list)
  /\ \A t \in Thread :
       t \in Elems(block_thread_list) <=> pc[t] = "sleep_block" /\ status[t] = "BLOCKED"

(***************************************************************************)
(* "Suspends execution for approximately TICKS timer ticks" (timer_sleep): *)
(* closet_tick never makes the interrupt overlook a sleeper.  A listed     *)
(* thread that is already due has a tick ahead that rings.                 *)
(***************************************************************************)
NoOversleep ==
  \A t \in Elems(block_thread_list) :
    closet_tick # NoTick /\ closet_tick <= wakeup_tick[t]

(***************************************************************************)
(* No sleeper leaves the list before its tick, and the sleepers leave in   *)
(* the order of their ticks.                                               *)
(***************************************************************************)
NoEarlyWake ==
  [][\A t \in Elems(block_thread_list) \ Elems(block_thread_list') :
       /\ wakeup_tick[t] <= ticks'
       /\ \A u \in Elems(block_thread_list') : wakeup_tick[t] <= wakeup_tick[u]]_avars

(* The sleepers of timer_sleep: listed, on no other list, and not overlooked. *)
SleepersKept == ATypeOK /\ ThreadPlacement /\ SleepersListed /\ NoOversleep
=============================================================================

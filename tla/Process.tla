------------------------------ MODULE Process ------------------------------
(***************************************************************************)
(* Creation, exit and collection of processes: process_fork, __do_fork,    *)
(* process_wait and process_exit of userprog/process.c with the parts of   *)
(* threads/thread.c they use.  Parent and child meet on three semaphores   *)
(* of struct thread: the child's wait_sema and free_sema and the parent's  *)
(* fork_sema.                                                              *)
(*                                                                         *)
(* All processes have priority PRI_DEFAULT and the timer preempts them, so *)
(* any process whose next step is not a sema_down of 0 may take it.  A     *)
(* step ends where another process can notice: at a semaphore operation or *)
(* a write to a struct thread that someone else reads.  An address space   *)
(* and a file table are copied or not; what is in them is left out.        *)
(***************************************************************************)
EXTENDS Integers, FiniteSets

CONSTANTS
  Proc,     \* the threads that can ever exist (bounds the number of forks)
  Main,     \* initial_thread, which starts and waits for initd
  Initd,    \* the first user process
  Status    \* the values processes pass to exit(), besides -1

TID_ERROR == -1

ASSUME ProcAssumption ==
  /\ Main \in Proc /\ Initd \in Proc /\ Main # Initd
  /\ Status \subseteq Int
  /\ Proc \cap Int = {}

VARIABLES
  on,           \* power_off has not been called
  pc,           \* where each process is; "none" and "freed": no struct thread
  arg,          \* the child a call in progress is about
  rax,          \* what the last fork or wait returned (or is to return)
  parent,       \* info->parent
  children,     \* children_list
  exit_status,
  fork_sema,
  wait_sema,
  free_sema,
  forked        \* history: __do_fork copied everything

semas == <<fork_sema, wait_sema, free_sema>>
vars == <<on, pc, arg, rax, parent, children, exit_status, semas, forked>>

Copying == {"copying", "fork_up", "fork_error"}
Exiting == {"exit_up", "exit_down"}
Gone == {"none", "dying", "freed"}
PC == Copying \cup Exiting \cup Gone \cup
      {"user", "fork_down", "fork_check", "fork_exit", "wait_down", "wait_read", "wait_free"}

(* What process_wait makes of an exit status. *)
Collected(status) == IF status < 0 THEN -1 ELSE status

(***************************************************************************)
(* run_task has called process_create_initd and initd has been loaded      *)
(* (otherwise the kernel panics).                                          *)
(***************************************************************************)
Init ==
  /\ on = TRUE
  /\ pc = [p \in Proc |-> IF p \in {Main, Initd} THEN "user" ELSE "none"]
  /\ arg = [p \in Proc |-> Main]
  /\ rax = [p \in Proc |-> 0]
  /\ parent = [p \in Proc |-> Main]
  /\ children = [p \in Proc |-> IF p = Main THEN {Initd} ELSE {}]
  /\ exit_status = [p \in Proc |-> 0]
  /\ fork_sema = [p \in Proc |-> 0]
  /\ wait_sema = [p \in Proc |-> 0]
  /\ free_sema = [p \in Proc |-> 0]
  /\ forked = [p \in Proc |-> p \in {Main, Initd}]

At(p, label) == on /\ pc[p] = label
Goto(p, label) == pc' = [pc EXCEPT ![p] = label]
Returns(p, r) == rax' = [rax EXCEPT ![p] = r]
InUserMode(p) == At(p, "user") /\ p # Main

(***************************************************************************)
(* process_fork: thread_create makes a zeroed struct thread, links it into *)
(* the caller's children_list and puts it on the ready list; the caller    *)
(* then sleeps on its own fork_sema.                                       *)
(***************************************************************************)
ProcessFork(p, c) ==
  /\ InUserMode(p)
  /\ pc[c] = "none"
  /\ pc' = [pc EXCEPT ![p] = "fork_down", ![c] = "copying"]
  /\ arg' = [arg EXCEPT ![p] = c]
  /\ parent' = [parent EXCEPT ![c] = p]
  /\ children' = [children EXCEPT ![p] = @ \cup {c}]
  /\ UNCHANGED <<on, rax, exit_status, semas, forked>>

(* thread_create has no page for the struct thread. *)
ProcessForkNoPage(p) ==
  /\ InUserMode(p)
  /\ Returns(p, TID_ERROR)
  /\ UNCHANGED <<on, pc, arg, parent, children, exit_status, semas, forked>>

ForkDown(p) ==
  /\ At(p, "fork_down")
  /\ fork_sema[p] > 0
  /\ fork_sema' = [fork_sema EXCEPT ![p] = @ - 1]
  /\ Goto(p, "fork_check")
  /\ UNCHANGED <<on, arg, rax, parent, children, exit_status, wait_sema, free_sema, forked>>

(* get_my_child and the look at the child's exit_status. *)
ForkCheck(p) ==
  /\ At(p, "fork_check")
  /\ Returns(p, IF exit_status[arg[p]] = TID_ERROR THEN TID_ERROR ELSE arg[p])
  /\ Goto(p, "user")
  /\ UNCHANGED <<on, arg, parent, children, exit_status, semas, forked>>

(***************************************************************************)
(* __do_fork in the child: the copy of the page table, the supplemental    *)
(* page table and the file table succeeds, or one of them fails.           *)
(***************************************************************************)
DoForkCopy(c) ==
  /\ At(c, "copying")
  /\ forked' = [forked EXCEPT ![c] = TRUE]
  /\ fork_sema' = [fork_sema EXCEPT ![c] = 0]
  /\ Goto(c, "fork_up")
  /\ UNCHANGED <<on, arg, rax, parent, children, exit_status, wait_sema, free_sema>>

DoForkFails(c) ==
  /\ At(c, "copying")
  /\ Goto(c, "fork_error")
  /\ UNCHANGED <<on, arg, rax, parent, children, exit_status, semas, forked>>

(* Variant: without do_iret the child falls through to the error label. *)
DoForkUpFallsThrough(c) ==
  /\ At(c, "fork_up")
  /\ fork_sema' = [fork_sema EXCEPT ![parent[c]] = @ + 1]
  /\ Goto(c, "fork_error")
  /\ UNCHANGED <<on, arg, rax, parent, children, exit_status, wait_sema, free_sema, forked>>

(* sema_up on the parent's fork_sema, then do_iret into user mode. *)
DoForkUp(c) ==
  /\ At(c, "fork_up")
  /\ fork_sema' = [fork_sema EXCEPT ![parent[c]] = @ + 1]
  /\ Goto(c, "user")
  /\ UNCHANGED <<on, arg, rax, parent, children, exit_status, wait_sema, free_sema, forked>>

(* Variant: the error path does not wake the parent. *)
DoForkErrorSilent(c) ==
  /\ At(c, "fork_error")
  /\ Goto(c, "fork_exit")
  /\ UNCHANGED <<on, arg, rax, parent, children, exit_status, semas, forked>>

(* The error label: sema_up first, sys_exit(TID_ERROR) after it. *)
DoForkError(c) ==
  /\ At(c, "fork_error")
  /\ fork_sema' = [fork_sema EXCEPT ![parent[c]] = @ + 1]
  /\ Goto(c, "fork_exit")
  /\ UNCHANGED <<on, arg, rax, parent, children, exit_status, wait_sema, free_sema, forked>>

DoForkExit(c) ==
  /\ At(c, "fork_exit")
  /\ exit_status' = [exit_status EXCEPT ![c] = TID_ERROR]
  /\ Goto(c, "exit_up")
  /\ UNCHANGED <<on, arg, rax, parent, children, semas, forked>>

(* sys_exit; an exception in user mode and a failed exec exit with -1. *)
SysExit(p, status) ==
  /\ InUserMode(p)
  /\ exit_status' = [exit_status EXCEPT ![p] = status]
  /\ Goto(p, "exit_up")
  /\ UNCHANGED <<on, arg, rax, parent, children, semas, forked>>

Kill(p) == SysExit(p, -1)

SysExecFails(p) == SysExit(p, -1)

(* Variant: process_exit does not announce the exit. *)
ProcessExitUpSilent(p) ==
  /\ At(p, "exit_up")
  /\ Goto(p, "exit_down")
  /\ UNCHANGED <<on, arg, rax, parent, children, exit_status, semas, forked>>

(* process_exit gives up the resources and announces the exit ... *)
ProcessExitUp(p) ==
  /\ At(p, "exit_up")
  /\ wait_sema' = [wait_sema EXCEPT ![p] = @ + 1]
  /\ Goto(p, "exit_down")
  /\ UNCHANGED <<on, arg, rax, parent, children, exit_status, fork_sema, free_sema, forked>>

(* Variant: process_exit does not wait to be collected. *)
ProcessExitDownUntested(p) ==
  /\ At(p, "exit_down")
  /\ Goto(p, "dying")
  /\ UNCHANGED <<on, arg, rax, parent, children, exit_status, semas, forked>>

(* ... and waits for the parent; thread_exit then makes it THREAD_DYING. *)
ProcessExitDown(p) ==
  /\ At(p, "exit_down")
  /\ free_sema[p] > 0
  /\ free_sema' = [free_sema EXCEPT ![p] = @ - 1]
  /\ Goto(p, "dying")
  /\ UNCHANGED <<on, arg, rax, parent, children, exit_status, fork_sema, wait_sema, forked>>

(* A later do_schedule frees the page of a thread on destruction_req. *)
DoScheduleFrees(p) ==
  /\ At(p, "dying")
  /\ Goto(p, "freed")
  /\ UNCHANGED <<on, arg, rax, parent, children, exit_status, semas, forked>>

(***************************************************************************)
(* process_wait.  initial_thread waits for initd and nothing else.         *)
(***************************************************************************)
ProcessWait(p, c) ==
  /\ At(p, "user")
  /\ p = Main => c = Initd
  /\ IF c \in children[p]
     THEN /\ arg' = [arg EXCEPT ![p] = c]
          /\ Goto(p, "wait_down")
          /\ UNCHANGED rax
     ELSE /\ Returns(p, -1)
          /\ UNCHANGED <<pc, arg>>
  /\ UNCHANGED <<on, parent, children, exit_status, semas, forked>>

(* Variant: process_wait does not wait for the exit. *)
WaitDownUntested(p) ==
  /\ At(p, "wait_down")
  /\ Goto(p, "wait_read")
  /\ UNCHANGED <<on, arg, rax, parent, children, exit_status, semas, forked>>

WaitDown(p) ==
  /\ At(p, "wait_down")
  /\ wait_sema[arg[p]] > 0
  /\ wait_sema' = [wait_sema EXCEPT ![arg[p]] = @ - 1]
  /\ Goto(p, "wait_read")
  /\ UNCHANGED <<on, arg, rax, parent, children, exit_status, fork_sema, free_sema, forked>>

(* The status is read and the child unlinked ... *)
WaitRead(p) ==
  /\ At(p, "wait_read")
  /\ Returns(p, Collected(exit_status[arg[p]]))
  /\ children' = [children EXCEPT ![p] = @ \ {arg[p]}]
  /\ Goto(p, "wait_free")
  /\ UNCHANGED <<on, arg, parent, exit_status, semas, forked>>

(* ... and let go; when initial_thread returns from here it powers off. *)
WaitFree(p) ==
  /\ At(p, "wait_free")
  /\ free_sema' = [free_sema EXCEPT ![arg[p]] = @ + 1]
  /\ Goto(p, "user")
  /\ on' = (p # Main)
  /\ UNCHANGED <<arg, rax, parent, children, exit_status, fork_sema, wait_sema, forked>>

SysHalt(p) ==
  /\ InUserMode(p)
  /\ on' = FALSE
  /\ UNCHANGED <<pc, arg, rax, parent, children, exit_status, semas, forked>>

(* The machine is off. *)
Off ==
  /\ ~on
  /\ UNCHANGED vars

(* The steps a process takes inside the kernel once it has called it. *)
KernelStep(p) ==
  \/ ForkDown(p) \/ ForkCheck(p)
  \/ DoForkCopy(p) \/ DoForkFails(p) \/ DoForkUp(p) \/ DoForkError(p) \/ DoForkExit(p)
  \/ ProcessExitUp(p) \/ ProcessExitDown(p) \/ DoScheduleFrees(p)
  \/ WaitDown(p) \/ WaitRead(p) \/ WaitFree(p)

UserStep(p) ==
  \/ ProcessForkNoPage(p)
  \/ SysHalt(p)
  \/ Kill(p) \/ SysExecFails(p)
  \/ \E c \in Proc : ProcessFork(p, c) \/ ProcessWait(p, c)
  \/ \E status \in Status \cup {TID_ERROR} : SysExit(p, status)

Next ==
  \/ \E p \in Proc : KernelStep(p) \/ UserStep(p)
  \/ Off

Spec == Init /\ [][Next]_vars

(***************************************************************************)
(* The timer makes every ready thread run, and nothing a process does in   *)
(* user mode is assumed.                                                   *)
(***************************************************************************)
FairSpec == Spec /\ \A p \in Proc : WF_vars(KernelStep(p))

----------------------------------------------------------------------------
(* Every variable has its type and no semaphore of the protocol passes 1. *)
TypeOK ==
  /\ on \in BOOLEAN
  /\ pc \in [Proc -> PC]
  /\ arg \in [Proc -> Proc]
  /\ rax \in [Proc -> Proc \cup Int]
  /\ parent \in [Proc -> Proc]
  /\ children \in [Proc -> SUBSET Proc]
  /\ exit_status \in [Proc -> Int]
  /\ fork_sema \in [Proc -> {0, 1}]
  /\ wait_sema \in [Proc -> {0, 1}]
  /\ free_sema \in [Proc -> {0, 1}]
  /\ forked \in [Proc -> BOOLEAN]

(***************************************************************************)
(* No struct thread is used after it is freed: whatever is on a            *)
(* children_list (get_my_child walks it), the child a fork or a wait is    *)
(* working on, and the parent whose tables __do_fork is copying, all still *)
(* exist.  This is what the free_sema of process_exit is for.              *)
(***************************************************************************)
NoUseAfterFree ==
  \A p \in Proc :
    /\ \A c \in children[p] : pc[c] \notin Gone
    /\ pc[p] \in {"fork_down", "fork_check", "wait_down", "wait_read"} => arg[p] \in children[p]
    /\ pc[p] = "wait_free" => pc[arg[p]] \notin Gone
    /\ pc[p] \in Copying => pc[parent[p]] \notin Gone

(***************************************************************************)
(* "The parent must not return from fork() until this function has         *)
(* duplicated its resources" (__do_fork): while a child copies, its parent *)
(* sleeps in the very call that made this child, with nothing on fork_sema *)
(* that would let it go, and no other child copies from it.                *)
(***************************************************************************)
ForkBlocksParent ==
  /\ \A c \in Proc :
       pc[c] \in Copying =>
         /\ pc[parent[c]] = "fork_down"
         /\ arg[parent[c]] = c
         /\ fork_sema[parent[c]] = 0
  /\ \A p \in Proc : pc[p] # "fork_down" => fork_sema[p] = 0

(***************************************************************************)
(* process_wait on a child returns only when the child has announced its   *)
(* exit, and then the status the child exited with (-1 for a negative      *)
(* one); no other process was or will be given that status.                *)
(***************************************************************************)
WaitReports ==
  [][\A p \in Proc :
       pc[p] = "wait_free" /\ pc'[p] = "user" =>
         /\ pc[arg[p]] = "exit_down"
         /\ rax[p] = Collected(exit_status[arg[p]])
         /\ \A q \in Proc : arg[p] \notin children[q]]_vars

(* A call of fork comes back, whether or not the child could be made. *)
ForkReturns ==
  \A p \in Proc : pc[p] = "fork_down" ~> pc[p] = "user" \/ ~on

(* A child that exits and is waited for is freed in the end. *)
WaitedForIsFreed ==
  \A c \in Proc :
    (\E p \in Proc : pc[p] = "wait_down" /\ arg[p] = c /\ pc[c] \in Exiting)
      ~> pc[c] = "freed" \/ ~on

(* "If a process could not really be started, -1 must be returned and not  *)
(* a valid PID" (multi-oom): fork returns a tid only for a complete child. *)
ForkTidMeansCreated ==
  [][\A p \in Proc :
       pc[p] = "fork_check" /\ pc'[p] = "user" /\ rax'[p] = arg[p] => forked[arg[p]]]_vars
============================================================================

------------------------------ MODULE FileCalls ------------------------------
(***************************************************************************)
(* The system calls on files (userprog/syscall.c) as users of filesys_lock *)
(* and of the caller's memory: check_address and check_buffer bring the    *)
(* pages of the argument in, the file system copies from or to them under  *)
(* the lock, and a page that has left memory in between faults there.  The *)
(* lock is also taken to write a mapped page back (eviction, exit) and to  *)
(* reload it.  Acquiring it twice stops the kernel (the ASSERT of          *)
(* lock_acquire).                                                          *)
(*                                                                         *)
(* A name lies within a page.  A frame that another process takes stays in *)
(* the page table of its owner (VM), so a page leaves memory only by a     *)
(* fault of its owner.                                                     *)
(***************************************************************************)
EXTENDS Integers, FiniteSets

CONSTANTS
  Caller,       \* the processes
  NoCaller,
  ArgPage,      \* pages of a process an argument can lie in, by number
  MappedPage,   \* those of them that map a file
  MaxFileCalls  \* bound: calls of all the processes

ASSUME NoCallerAssumption == NoCaller \notin Caller

VARIABLES
  flock,        \* who holds filesys_lock
  doing,        \* where a process is
  syscall,      \* the call it is in
  argument,     \* the pages of its argument
  todo,         \* those still to check or to copy
  fault,        \* the page it faults on, and where it goes on after that
  upage,        \* unmapped, lazy, in, dirty, out
  asserts,      \* the assertion of lock_acquire holds
  ncalls

fcvars == <<flock, doing, syscall, argument, todo, fault, upage, asserts, ncalls>>

NoFault == <<0, "user">>
Names == {"create", "remove", "open"}
Buffers == {"read", "write"}

FileCallsInit ==
  /\ flock = NoCaller
  /\ doing = [p \in Caller |-> "user"]
  /\ syscall = [p \in Caller |-> "none"]
  /\ argument = [p \in Caller |-> {}] /\ todo = [p \in Caller |-> {}]
  /\ fault = [p \in Caller |-> NoFault]
  /\ upage \in [Caller -> [ArgPage -> {"unmapped", "lazy"}]]
  /\ asserts = TRUE
  /\ ncalls = 0
-----------------------------------------------------------------------------
InMemory(p, g) == upage[p][g] \in {"in", "dirty"}
GoTo(p, l) == doing' = [doing EXCEPT ![p] = l]
NextPage(p) == CHOOSE g \in todo[p] : \A h \in todo[p] : g <= h
SetPage(p, g, s) == upage' = [upage EXCEPT ![p][g] = s]

(* lock_acquire: the caller waits, and must not be the holder. *)
lock_acquire(p) == flock = NoCaller /\ flock' = p
(* lock_acquire, one file access and lock_release, where nobody else can come between. *)
lock_for(p) == flock = NoCaller /\ UNCHANGED flock

NeedsLock(p) ==
  \/ doing[p] \in {"lock", "evict", "writeback"}
  \/ doing[p] = "reload" /\ upage[p][fault[p][1]] = "out" /\ fault[p][1] \in MappedPage

(* A thread that holds the lock and needs it: the kernel stops. *)
HeldByCurrentThread(p) ==
  /\ asserts /\ NeedsLock(p) /\ flock = p
  /\ asserts' = FALSE
  /\ UNCHANGED <<flock, doing, syscall, argument, todo, fault, upage, ncalls>>

(* Variant: every name is checked under the lock. *)
sys_start_all(p, c) == IF c \in Names THEN "lock" ELSE "check"

(* sys_create takes the lock before it checks the name, the others after. *)
sys_start(p, c) == IF c = "create" THEN "lock" ELSE "check"

syscall_handler(p) ==
  /\ doing[p] = "user" /\ ncalls < MaxFileCalls /\ asserts
  /\ \E c \in Names \cup Buffers, a \in SUBSET ArgPage \ {{}} :
       /\ (c \in Names => Cardinality(a) = 1)
       /\ syscall' = [syscall EXCEPT ![p] = c] /\ argument' = [argument EXCEPT ![p] = a]
       /\ todo' = [todo EXCEPT ![p] = a]
       /\ GoTo(p, sys_start(p, c))
  /\ ncalls' = ncalls + 1
  /\ UNCHANGED <<flock, fault, upage, asserts>>

(* A store of the program to a page in memory. *)
UserStore(p) ==
  /\ doing[p] = "user" /\ asserts
  /\ \E g \in MappedPage : upage[p][g] = "in" /\ SetPage(p, g, "dirty")
  /\ UNCHANGED <<flock, doing, syscall, argument, todo, fault, asserts, ncalls>>

(* An access of the program to a page that is not in memory. *)
UserFault(p) ==
  /\ doing[p] = "user" /\ asserts
  /\ \E g \in ArgPage : /\ upage[p][g] \in {"lazy", "out"}
                        /\ fault' = [fault EXCEPT ![p] = <<g, "user">>] /\ GoTo(p, "fault")
  /\ UNCHANGED <<flock, syscall, argument, todo, upage, asserts, ncalls>>

(* check_address and check_buffer, page by page. *)
check_buffer(p) ==
  /\ doing[p] = "check" /\ todo[p] # {} /\ asserts
  /\ LET g == NextPage(p) IN
     IF InMemory(p, g)
       THEN /\ todo' = [todo EXCEPT ![p] = @ \ {g}] /\ UNCHANGED <<doing, fault>>
       ELSE /\ IF upage[p][g] = "unmapped" THEN GoTo(p, "exit") ELSE GoTo(p, "fault")
            /\ fault' = [fault EXCEPT ![p] = <<g, "check">>] /\ UNCHANGED todo
  /\ UNCHANGED <<flock, syscall, argument, upage, asserts, ncalls>>

Checked(p) ==
  /\ doing[p] = "check" /\ todo[p] = {} /\ asserts
  /\ GoTo(p, IF flock = p THEN "copy" ELSE "lock")
  /\ todo' = [todo EXCEPT ![p] = argument[p]]
  /\ UNCHANGED <<flock, syscall, argument, fault, upage, asserts, ncalls>>

Locked(p) ==
  /\ doing[p] = "lock" /\ asserts /\ lock_acquire(p)
  /\ GoTo(p, IF sys_start(p, syscall[p]) = "lock" THEN "check" ELSE "copy")
  /\ UNCHANGED <<syscall, argument, todo, fault, upage, asserts, ncalls>>

(* The file system reads or fills the pages; sys_read's stores make them dirty. *)
Copy(p) ==
  /\ doing[p] = "copy" /\ todo[p] # {} /\ asserts
  /\ LET g == NextPage(p) IN
     IF InMemory(p, g)
       THEN /\ todo' = [todo EXCEPT ![p] = @ \ {g}] /\ UNCHANGED <<doing, fault>>
            /\ IF syscall[p] = "read" /\ g \in MappedPage THEN SetPage(p, g, "dirty") ELSE UNCHANGED upage
       ELSE /\ fault' = [fault EXCEPT ![p] = <<g, "copy">>] /\ GoTo(p, "fault")
            /\ UNCHANGED <<todo, upage>>
  /\ UNCHANGED <<flock, syscall, argument, asserts, ncalls>>

(* lock_release and the return to the program. *)
SysReturn(p) ==
  /\ doing[p] = "copy" /\ todo[p] = {} /\ asserts
  /\ flock' = NoCaller /\ GoTo(p, "user")
  /\ syscall' = [syscall EXCEPT ![p] = "none"] /\ argument' = [argument EXCEPT ![p] = {}]
  /\ UNCHANGED <<todo, fault, upage, asserts, ncalls>>

(***************************************************************************)
(* A fault: vm_get_frame finds a free page or evicts one, perhaps one of   *)
(* the process's own; a dirty mapped page is written to its file first.    *)
(***************************************************************************)
vm_get_frame(p) ==
  /\ doing[p] = "fault" /\ asserts
  /\ \/ GoTo(p, "reload") /\ UNCHANGED upage
     \/ \E h \in ArgPage : upage[p][h] = "in" /\ SetPage(p, h, "out") /\ GoTo(p, "reload")
     \/ (\E h \in ArgPage : upage[p][h] = "dirty") /\ GoTo(p, "evict") /\ UNCHANGED upage
  /\ UNCHANGED <<flock, syscall, argument, todo, fault, asserts, ncalls>>

file_backed_swap_out(p) ==
  /\ doing[p] = "evict" /\ asserts /\ lock_for(p)
  /\ \E h \in ArgPage : upage[p][h] = "dirty" /\ SetPage(p, h, "out")
  /\ GoTo(p, "reload")
  /\ UNCHANGED <<syscall, argument, todo, fault, asserts, ncalls>>

(* file_backed_swap_in takes the lock, lazy_load_segment and anon_swap_in do not. *)
swap_in(p) ==
  LET g == fault[p][1] IN
  /\ doing[p] = "reload" /\ asserts
  /\ IF NeedsLock(p) THEN lock_for(p) ELSE UNCHANGED flock
  /\ SetPage(p, g, "in") /\ GoTo(p, fault[p][2])
  /\ fault' = [fault EXCEPT ![p] = NoFault]
  /\ UNCHANGED <<syscall, argument, todo, asserts, ncalls>>

(* sys_exit and process_cleanup: file_backed_destroy of the dirty pages. *)
sys_exit(p) ==
  /\ doing[p] = "user" /\ asserts /\ GoTo(p, "exit")
  /\ UNCHANGED <<flock, syscall, argument, todo, fault, upage, asserts, ncalls>>

process_cleanup(p) ==
  /\ doing[p] = "exit" /\ asserts
  /\ GoTo(p, IF \E g \in ArgPage : upage[p][g] = "dirty" THEN "writeback" ELSE "dead")
  /\ UNCHANGED <<flock, syscall, argument, todo, fault, upage, asserts, ncalls>>

file_backed_destroy(p) ==
  /\ doing[p] = "writeback" /\ asserts /\ lock_for(p)
  /\ \E g \in ArgPage : upage[p][g] = "dirty" /\ SetPage(p, g, "unmapped")
  /\ GoTo(p, "exit")
  /\ UNCHANGED <<syscall, argument, todo, fault, asserts, ncalls>>

FileCallsNext ==
  \E p \in Caller :
    \/ syscall_handler(p) \/ UserStore(p) \/ UserFault(p) \/ sys_exit(p)
    \/ HeldByCurrentThread(p) \/ check_buffer(p) \/ Checked(p) \/ Locked(p) \/ Copy(p)
    \/ SysReturn(p) \/ vm_get_frame(p) \/ file_backed_swap_out(p) \/ swap_in(p)
    \/ process_cleanup(p) \/ file_backed_destroy(p)

FileCallsSpec == FileCallsInit /\ [][FileCallsNext]_fcvars
-----------------------------------------------------------------------------
(***************************************************************************)
(* filesys_lock outlives no process: it is held by one that is in a call.  *)
(* The exception is sys_create, which checks the name after it has taken   *)
(* the lock; a name that is not mapped ends the process there, and with no *)
(* dirty page left the lock stays with the dead process.                   *)
(***************************************************************************)
LockHolderLives ==
  flock # NoCaller /\ doing[flock] \in {"user", "exit", "writeback", "dead"} => syscall[flock] = "create"

(***************************************************************************)
(* lock_acquire's assertion: a thread that wants filesys_lock does not     *)
(* hold it.                                                                *)
(***************************************************************************)
NotHeldByCurrentThread == asserts
=============================================================================

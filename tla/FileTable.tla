----------------------------- MODULE FileTable -----------------------------
(***************************************************************************)
(* File descriptors: the fd tables of userprog/syscall.c and               *)
(* userprog/process.c, the struct file objects of filesys/file.c that they *)
(* point to, and the open and deny-write counts of the inodes behind them. *)
(*                                                                         *)
(* A table and the objects in it belong to one process, so a system call   *)
(* is one step; filesys_lock and the races on a struct inode are in module *)
(* FileSys.  What is read and written is left out.                         *)
(***************************************************************************)
EXTENDS Integers, Sequences, FiniteSets, Null

LOCAL SX == INSTANCE SequencesExt

CONSTANTS
  Proc, Initd,   \* the processes, and the first one
  MAX_FD,        \* slots of a table
  MaxFile,       \* bound: struct file objects ever allocated at once
  Inode,         \* the files on disk
  DupTargets,    \* the slots dup2 is asked to fill
  STDIN, STDOUT

File == 1..MaxFile
Slot == 0..(MAX_FD - 1)

ASSUME TableAssumption ==
  /\ MAX_FD \in Nat /\ MAX_FD > 2 /\ MaxFile \in Nat
  /\ Initd \in Proc
  /\ DupTargets \subseteq Slot
  /\ Cardinality({NULL, STDIN, STDOUT} \cup Inode) = 3 + Cardinality(Inode)

VARIABLES
  state,          \* "none", "running" or "exited"
  fd_table,
  fd_idx,
  stdin_count,
  stdout_count,
  running_file,
  heap            \* the struct files and the counts of the inodes:
                  \*   inode[f]  NULL when object f is not allocated
                  \*   dup_count[f], deny_write[f]
                  \*   open_cnt[i], deny_write_cnt[i]

ftvars == <<state, fd_table, fd_idx, stdin_count, stdout_count, running_file, heap>>
-----------------------------------------------------------------------------
(* filesys/file.c on the heap. *)

Free(h) == {f \in File : h.inode[f] = NULL}

(* file_open on an inode whose reference the caller hands over. *)
FileOpen(h, f, i) ==
  [h EXCEPT !.inode[f] = i, !.dup_count[f] = 1, !.deny_write[f] = FALSE, !.open_cnt[i] = @ + 1]

FileDenyWrite(h, f) ==
  IF h.deny_write[f] THEN h
  ELSE [h EXCEPT !.deny_write[f] = TRUE, !.deny_write_cnt[h.inode[f]] = @ + 1]

FileAllowWrite(h, f) ==
  IF h.deny_write[f]
    THEN [h EXCEPT !.deny_write[f] = FALSE, !.deny_write_cnt[h.inode[f]] = @ - 1]
    ELSE h

FileClose(h, f) ==
  LET g == FileAllowWrite(h, f)
  IN  [g EXCEPT !.inode[f] = NULL, !.dup_count[f] = 0, !.open_cnt[h.inode[f]] = @ - 1]

(* Variant: the copy shares the reference to the inode. *)
FileDuplicateUncounted(h, f, g) ==
  [h EXCEPT !.inode[f] = h.inode[g], !.dup_count[f] = 1, !.deny_write[f] = h.deny_write[g]]

(* file_duplicate of g into f. *)
FileDuplicate(h, f, g) ==
  LET opened == FileOpen(h, f, h.inode[g])
  IN  IF h.deny_write[g] THEN FileDenyWrite(opened, f) ELSE opened

(* Variant: the last reference is not told from the others. *)
DropReferenceAlways(h, f) == FileClose(h, f)

(* What sys_close does to the object in the slot it empties. *)
DropReference(h, f) ==
  IF h.dup_count[f] - 1 = 0 THEN FileClose(h, f) ELSE [h EXCEPT !.dup_count[f] = @ - 1]
-----------------------------------------------------------------------------
FreshTable == [fd \in Slot |-> IF fd = 0 THEN STDIN ELSE IF fd = 1 THEN STDOUT ELSE NULL]
NoTable == [fd \in Slot |-> NULL]

(* process_init in initd; the other processes are forked from it. *)
FTInit ==
  /\ state = [p \in Proc |-> IF p = Initd THEN "running" ELSE "none"]
  /\ fd_table = [p \in Proc |-> IF p = Initd THEN FreshTable ELSE NoTable]
  /\ fd_idx = [p \in Proc |-> 2]
  /\ stdin_count = [p \in Proc |-> IF p = Initd THEN 1 ELSE 0]
  /\ stdout_count = [p \in Proc |-> IF p = Initd THEN 1 ELSE 0]
  /\ running_file = [p \in Proc |-> NULL]
  /\ heap = [inode |-> [f \in File |-> NULL],
             dup_count |-> [f \in File |-> 0],
             deny_write |-> [f \in File |-> FALSE],
             open_cnt |-> [i \in Inode |-> 0],
             deny_write_cnt |-> [i \in Inode |-> 0]]

Running(p) == state[p] = "running"

(* The k-th smallest number in a set, counted from 1. *)
Nth(S, k) == CHOOSE x \in S : Cardinality({y \in S : y <= x}) = k

(* find_unused_fd: fd_idx only grows, up to MAX_FD. *)
UnusedFd(p) ==
  LET free == {fd \in fd_idx[p]..(MAX_FD - 1) : fd_table[p][fd] = NULL}
  IN  IF free = {} THEN MAX_FD ELSE Nth(free, 1)

(* sys_open of an existing file.  On a full table the object is not closed. *)
SysOpen(p, i) ==
  /\ Running(p)
  /\ Free(heap) # {}
  /\ LET f  == Nth(Free(heap), 1)
         fd == UnusedFd(p)
     IN  /\ heap' = FileOpen(heap, f, i)
         /\ fd_idx' = [fd_idx EXCEPT ![p] = fd]
         /\ fd_table' = IF fd = MAX_FD THEN fd_table ELSE [fd_table EXCEPT ![p][fd] = f]
  /\ UNCHANGED <<state, stdin_count, stdout_count, running_file>>

(* A table with its heap and its counts, and sys_close on them. *)
TableOf(p) ==
  [table |-> fd_table[p], heap |-> heap, stdin |-> stdin_count[p], stdout |-> stdout_count[p]]

CloseFd(t, fd) ==
  LET obj == t.table[fd]
  IN  [table  |-> [t.table EXCEPT ![fd] = NULL],
       heap   |-> IF obj \in File THEN DropReference(t.heap, obj) ELSE t.heap,
       stdin  |-> IF obj = STDIN THEN t.stdin - 1 ELSE t.stdin,
       stdout |-> IF obj = STDOUT THEN t.stdout - 1 ELSE t.stdout]

SetTable(p, t) ==
  /\ fd_table' = [fd_table EXCEPT ![p] = t.table]
  /\ heap' = t.heap
  /\ stdin_count' = [stdin_count EXCEPT ![p] = t.stdin]
  /\ stdout_count' = [stdout_count EXCEPT ![p] = t.stdout]

(* sys_close; on an empty slot it changes nothing. *)
SysClose(p, fd) ==
  /\ Running(p)
  /\ fd_table[p][fd] # NULL
  /\ SetTable(p, CloseFd(TableOf(p), fd))
  /\ UNCHANGED <<state, fd_idx, running_file>>

(* Variant: the references to the object are not counted. *)
CountDupNothing(t, obj) == t

(* sys_dup2 counts the new reference before it closes the old one. *)
CountDup(t, obj) ==
  CASE obj = STDIN  -> [t EXCEPT !.stdin = @ + 1]
    [] obj = STDOUT -> [t EXCEPT !.stdout = @ + 1]
    [] OTHER        -> [t EXCEPT !.heap.dup_count[obj] = @ + 1]

SysDup2(p, oldfd, newfd) ==
  /\ Running(p)
  /\ oldfd # newfd
  /\ fd_table[p][oldfd] # NULL
  /\ LET obj     == fd_table[p][oldfd]
         counted == CountDup(TableOf(p), obj)
         closed  == IF fd_table[p][newfd] # NULL THEN CloseFd(counted, newfd) ELSE counted
     IN  SetTable(p, [closed EXCEPT !.table[newfd] = obj])
  /\ UNCHANGED <<state, fd_idx, running_file>>

(***************************************************************************)
(* The file part of __do_fork: slots 0 and 1 are copied as they are, every *)
(* other object is duplicated, slot by slot.  running_file is not copied.  *)
(***************************************************************************)
Duplicated(p) == {fd \in Slot : fd > 1 /\ fd_table[p][fd] \in File}

DoFork(p, q) ==
  /\ Running(p)
  /\ state[q] = "none"
  /\ fd_idx[p] # MAX_FD
  /\ Cardinality(Free(heap)) >= Cardinality(Duplicated(p))
  /\ LET copy(fd) == Nth(Free(heap), Cardinality({x \in Duplicated(p) : x <= fd}))
         slots    == SX!SetToSeq(Duplicated(p))
     IN  /\ fd_table' = [fd_table EXCEPT ![q] =
                           [fd \in Slot |-> IF fd \in Duplicated(p) THEN copy(fd)
                                            ELSE fd_table[p][fd]]]
         /\ heap' = SX!FoldLeft(LAMBDA h, fd : FileDuplicate(h, copy(fd), fd_table[p][fd]),
                                heap, slots)
  /\ state' = [state EXCEPT ![q] = "running"]
  /\ fd_idx' = [fd_idx EXCEPT ![q] = fd_idx[p]]
  /\ stdin_count' = [stdin_count EXCEPT ![q] = stdin_count[p]]
  /\ stdout_count' = [stdout_count EXCEPT ![q] = stdout_count[p]]
  /\ UNCHANGED running_file

(* When the parent has used its last slot, the fork fails. *)
DoForkFails(p, q) ==
  /\ Running(p)
  /\ state[q] = "none"
  /\ fd_idx[p] = MAX_FD
  /\ state' = [state EXCEPT ![q] = "exited"]
  /\ UNCHANGED <<fd_table, fd_idx, stdin_count, stdout_count, running_file, heap>>

(***************************************************************************)
(* process_exec: the executable is opened and write-protected.  What       *)
(* running_file held before is dropped, not closed; the fds stay open.     *)
(***************************************************************************)
ProcessExec(p, i) ==
  /\ Running(p)
  /\ Free(heap) # {}
  /\ LET f == Nth(Free(heap), 1)
     IN  /\ heap' = FileDenyWrite(FileOpen(heap, f, i), f)
         /\ running_file' = [running_file EXCEPT ![p] = f]
  /\ UNCHANGED <<state, fd_table, fd_idx, stdin_count, stdout_count>>

(* process_exit: sys_close on every slot, then the executable.  With initd *)
(* the machine goes off.                                                   *)
ProcessExit(p) ==
  /\ Running(p)
  /\ p # Initd
  /\ LET closed == SX!FoldLeft(CloseFd, TableOf(p), [n \in 1..MAX_FD |-> n - 1])
         f      == running_file[p]
     IN  SetTable(p, [closed EXCEPT !.heap =
                        IF f = NULL THEN @ ELSE FileClose(FileAllowWrite(@, f), f)])
  /\ state' = [state EXCEPT ![p] = "exited"]
  /\ UNCHANGED <<fd_idx, running_file>>

FTNext ==
  \E p \in Proc :
    \/ \E i \in Inode : SysOpen(p, i) \/ ProcessExec(p, i)
    \/ \E fd \in Slot : SysClose(p, fd)
    \/ \E oldfd \in Slot, newfd \in DupTargets : SysDup2(p, oldfd, newfd)
    \/ \E q \in Proc : DoFork(p, q) \/ DoForkFails(p, q)
    \/ ProcessExit(p)

FTSpec == FTInit /\ [][FTNext]_ftvars
-----------------------------------------------------------------------------
(* Tables, counts and struct files keep their types; no count goes below zero. *)
FTTypeOK ==
  /\ state \in [Proc -> {"none", "running", "exited"}]
  /\ fd_table \in [Proc -> [Slot -> File \cup {NULL, STDIN, STDOUT}]]
  /\ fd_idx \in [Proc -> 2..MAX_FD]
  /\ stdin_count \in [Proc -> Nat] /\ stdout_count \in [Proc -> Nat]
  /\ running_file \in [Proc -> File \cup {NULL}]
  /\ heap \in [inode : [File -> Inode \cup {NULL}], dup_count : [File -> Nat],
               deny_write : [File -> BOOLEAN],
               open_cnt : [Inode -> Nat], deny_write_cnt : [Inode -> Nat]]

SlotsWith(obj) == {x \in Proc \X Slot : fd_table[x[1]][x[2]] = obj}

(***************************************************************************)
(* dup2, fork and close agree on who refers to a struct file: its          *)
(* dup_count is the number of slots that hold it, all in one table, so the *)
(* last sys_close and no other closes it, and no slot points to a closed   *)
(* one.  An object no slot holds is an executable or was lost to a full    *)
(* table or an exec, and counts 1.                                         *)
(***************************************************************************)
ReferencesCounted ==
  \A f \in File :
    LET slots == SlotsWith(f)
    IN  /\ slots # {} => heap.inode[f] # NULL /\ heap.dup_count[f] = Cardinality(slots)
        /\ slots = {} /\ heap.inode[f] # NULL => heap.dup_count[f] = 1
        /\ \A x, y \in slots : x[1] = y[1]

(* stdin_count and stdout_count, which sys_read and sys_write test, count  *)
(* the slots that hold the standard streams.                               *)
StandardStreamsCounted ==
  \A p \in Proc :
    /\ stdin_count[p] = Cardinality({fd \in Slot : fd_table[p][fd] = STDIN})
    /\ stdout_count[p] = Cardinality({fd \in Slot : fd_table[p][fd] = STDOUT})

(***************************************************************************)
(* What inode_deny_write and inode_allow_write assert, and inode_close     *)
(* relies on: an inode is open as often as there are struct files on it,   *)
(* and write-protected by exactly those that asked for it.                 *)
(***************************************************************************)
InodeCounts ==
  \A i \in Inode :
    LET on == {f \in File : heap.inode[f] = i}
    IN  /\ heap.open_cnt[i] = Cardinality(on)
        /\ heap.deny_write_cnt[i] = Cardinality({f \in on : heap.deny_write[f]})

(* All the counts that six operations keep agree with what they count. *)
CountsRight == FTTypeOK /\ ReferencesCounted /\ StandardStreamsCounted /\ InodeCounts
=============================================================================

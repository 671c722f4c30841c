------------------------------ MODULE MCMemory ------------------------------
(***************************************************************************)
(* Instances of the four models of memory, of which a behaviour is about   *)
(* one: "pages", one process with every kind of page; "copies", a process  *)
(* and its descendants that share pages copy-on-write; "blocks", threads   *)
(* in malloc, free and the page allocator; "calls", system calls on files  *)
(* whose arguments lie in pages that come and go.                          *)
(***************************************************************************)
EXTENDS VM, CopyOnWrite, Malloc, FileCalls, TLC

CONSTANTS p1, p2, seg, stk, map, end, t1, t2, d16

MCMaxMaps == [v \in Va |-> IF v = map THEN 2 ELSE 1]

(* The kernel pool, with two pages; two blocks fit into an arena. *)
MCBase == "kernel" :> 0
MCSize == "kernel" :> 2
MCBlocksPerArena == d16 :> 2

VARIABLE unit

MemoryInit ==
  /\ unit \in {"pages", "copies", "blocks", "calls"}
  /\ Init /\ CowInit /\ MallocInit /\ FileCallsInit
  /\ unit = "calls" \/ \A u \in Caller, g \in ArgPage : upage[u][g] = "lazy"

MemoryNext ==
  /\ UNCHANGED unit
  /\ \/ unit = "pages" /\ Next /\ UNCHANGED <<cwvars, mvars, fcvars>>
     \/ unit = "copies" /\ CowNext /\ UNCHANGED <<vars, mvars, fcvars>>
     \/ unit = "blocks" /\ MallocNext /\ UNCHANGED <<vars, cwvars, fcvars>>
     \/ unit = "calls" /\ FileCallsNext /\ UNCHANGED <<vars, cwvars, mvars>>

MemorySpec == MemoryInit /\ [][MemoryNext]_<<unit, vars, cwvars, mvars, fcvars>>
=============================================================================

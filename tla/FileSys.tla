------------------------------ MODULE FileSys ------------------------------
(***************************************************************************)
(* Names, inodes and sectors: filesys/filesys.c, directory.c, inode.c and  *)
(* free-map.c (the build without EFILESYS).                                *)
(*                                                                         *)
(* create, open and remove run under filesys_lock and are one step each.   *)
(* sys_close and the closes of process_exit do not take the lock, so       *)
(* inode_close is cut into the steps between which a locked call may come; *)
(* the pointers of the list open_inodes, which such a call may also find   *)
(* half changed, are not modelled.                                         *)
(* The contents of the files are left out; an on-disk inode is the set of  *)
(* its data sectors.                                                       *)
(***************************************************************************)
EXTENDS Integers, FiniteSetsExt, Null

CONSTANTS
  Client,       \* the processes that open files
  Name,
  DirSlots,     \* entries the root directory has room for (it does not grow)
  NumSectors,   \* sectors of the disk
  MaxLength,    \* bound: data sectors of a file
  Struct,       \* bound: the struct inodes there can be at once
  MaxOpen       \* bound: how often a process opens the same file

Sector == 0..(NumSectors - 1)
FREE_MAP_SECTOR == 0
ROOT_DIR_SECTOR == 1

(* What do_format leaves in use: the inodes of the free map and of the root *)
(* directory, and a data sector of each.  Both stay open or are opened and  *)
(* closed within a step; their struct inodes are not among Struct.          *)
SystemSectors == {FREE_MAP_SECTOR, ROOT_DIR_SECTOR, 2, 3}

ASSUME DiskAssumption ==
  /\ NumSectors \in Nat /\ NumSectors > 4
  /\ DirSlots \in Nat /\ MaxLength \in Nat /\ MaxOpen \in Nat
  /\ NULL \notin Name \cup Sector \cup Struct

VARIABLES
  dir,          \* the root directory: the inode sector of each name
  free_map,     \* the sectors marked used
  disk_inode,   \* the data sectors of the inode in each sector
  inode,        \* the struct inodes; NULL when not allocated
  open_inodes,
  files,        \* how many struct files of a process refer to each struct inode
  pc,
  closing,      \* the struct inode an inode_close is about to free
  lost          \* history: data sectors of files that could not be created

fsvars == <<dir, free_map, disk_inode, inode, open_inodes, files, pc, closing, lost>>

FSInit ==
  /\ dir = [n \in Name |-> NULL]
  /\ free_map = SystemSectors
  /\ disk_inode = [s \in Sector |-> {}]
  /\ inode = [x \in Struct |-> NULL]
  /\ open_inodes = {}
  /\ files = [p \in Client |-> [x \in Struct |-> 0]]
  /\ pc = [p \in Client |-> "user"]
  /\ closing = [p \in Client |-> NULL]
  /\ lost = {}
-----------------------------------------------------------------------------
(* bitmap_scan_and_flip: the first run of cnt free sectors, if there is one. *)
Run(first, cnt) == first..(first + cnt - 1)

(* Variant: the scan goes one sector too far. *)
FreeMapAllocatePastEnd(used, cnt) ==
  LET free == {first \in 0..(NumSectors - cnt + 1) : Run(first, cnt) \cap used = {}}
  IN  IF free = {} THEN NULL ELSE Run(Min(free), cnt)

FreeMapAllocate(used, cnt) ==
  LET free == {first \in 0..(NumSectors - cnt) : Run(first, cnt) \cap used = {}}
  IN  IF free = {} THEN NULL ELSE Run(Min(free), cnt)

(* inode_create: the inode in this sector has these data sectors. *)
InodeCreate(sector, data) == [s \in Sector |-> IF s \in sector THEN data ELSE disk_inode[s]]

(* dir_add: the name is taken, or the directory has no free entry. *)
DirAddFails(n) ==
  dir[n] # NULL \/ Cardinality({m \in Name : dir[m] # NULL}) >= DirSlots

(***************************************************************************)
(* filesys_create: allocate the inode's sector, then inode_create with the *)
(* data sectors, then dir_add.  When dir_add fails the inode's sector is   *)
(* released again and the data sectors are not.  When there are not enough *)
(* free sectors nothing changes.                                           *)
(***************************************************************************)
FilesysCreate(p, n, length) ==
  LET sector == FreeMapAllocate(free_map, 1)
      used   == free_map \cup sector
      data   == FreeMapAllocate(used, length)
  IN  /\ pc[p] = "user"
      /\ sector # NULL /\ data # NULL
      /\ disk_inode' = InodeCreate(sector, data)
      /\ IF DirAddFails(n)
           THEN /\ free_map' = free_map \cup data
                /\ lost' = lost \cup data
                /\ UNCHANGED dir
           ELSE /\ free_map' = used \cup data
                /\ dir' = [dir EXCEPT ![n] = CHOOSE s \in sector : TRUE]
                /\ UNCHANGED lost
      /\ UNCHANGED <<inode, open_inodes, files, pc, closing>>

(* Variant: the walk never finds the struct. *)
OpenedNever(s) == {}

(* The struct of a sector, as inode_open's walk finds it. *)
Opened(s) == {x \in open_inodes : inode[x].sector = s}
Unused == {x \in Struct : inode[x] = NULL}

(* filesys_open: dir_lookup and inode_open. *)
FilesysOpen(p, n) ==
  /\ pc[p] = "user"
  /\ dir[n] # NULL
  /\ \/ \E x \in Opened(dir[n]) :
          /\ files[p][x] < MaxOpen
          /\ inode' = [inode EXCEPT ![x].open_cnt = @ + 1]
          /\ files' = [files EXCEPT ![p][x] = @ + 1]
          /\ UNCHANGED open_inodes
     \/ /\ Opened(dir[n]) = {}
        /\ Unused # {}
        /\ LET x == CHOOSE x \in Unused : TRUE
           IN  /\ inode' = [inode EXCEPT ![x] =
                              [sector |-> dir[n], open_cnt |-> 1, removed |-> FALSE,
                               data |-> disk_inode[dir[n]]]]
               /\ open_inodes' = open_inodes \cup {x}
               /\ files' = [files EXCEPT ![p][x] = @ + 1]
  /\ UNCHANGED <<dir, free_map, disk_inode, pc, closing, lost>>

(* Variant: the blocks are released although the file is open. *)
FilesysRemoveNow(p, n) ==
  /\ pc[p] = "user"
  /\ dir[n] # NULL
  /\ dir' = [dir EXCEPT ![n] = NULL]
  /\ free_map' = free_map \ ({dir[n]} \cup disk_inode[dir[n]])
  /\ UNCHANGED <<disk_inode, inode, open_inodes, files, pc, closing, lost>>

(***************************************************************************)
(* filesys_remove: dir_remove erases the entry and marks the inode; its    *)
(* own inode_close frees the blocks if nobody has the file open.           *)
(***************************************************************************)
FilesysRemove(p, n) ==
  /\ pc[p] = "user"
  /\ dir[n] # NULL
  /\ dir' = [dir EXCEPT ![n] = NULL]
  /\ IF \E x \in Opened(dir[n]) : inode[x].open_cnt > 0
       THEN /\ inode' = [x \in Struct |-> IF x \in Opened(dir[n])
                                            THEN [inode[x] EXCEPT !.removed = TRUE] ELSE inode[x]]
            /\ UNCHANGED <<free_map, open_inodes>>
       ELSE /\ inode' = [x \in Struct |-> IF x \in Opened(dir[n]) THEN NULL ELSE inode[x]]
            /\ open_inodes' = open_inodes \ Opened(dir[n])
            /\ free_map' = free_map \ ({dir[n]} \cup disk_inode[dir[n]])
  /\ UNCHANGED <<disk_inode, files, pc, closing, lost>>

(* inode_close: count down, and for the last opener go on ... *)
InodeClose(p, x) ==
  /\ pc[p] = "user"
  /\ files[p][x] > 0
  /\ files' = [files EXCEPT ![p][x] = @ - 1]
  /\ inode' = [inode EXCEPT ![x].open_cnt = @ - 1]
  /\ IF inode[x].open_cnt = 1
       THEN /\ closing' = [closing EXCEPT ![p] = x]
            /\ pc' = [pc EXCEPT ![p] = "unlink"]
       ELSE UNCHANGED <<closing, pc>>
  /\ UNCHANGED <<dir, free_map, disk_inode, open_inodes, lost>>

(* ... unlink the struct from open_inodes ... *)
InodeCloseUnlink(p) ==
  /\ pc[p] = "unlink"
  /\ open_inodes' = open_inodes \ {closing[p]}
  /\ pc' = [pc EXCEPT ![p] = "free"]
  /\ UNCHANGED <<dir, free_map, disk_inode, inode, files, closing, lost>>

(* Variant: only the inode's own sector is released. *)
InodeCloseFreeHalf(p) ==
  /\ pc[p] = "free"
  /\ free_map' = IF inode[closing[p]].removed
                   THEN free_map \ {inode[closing[p]].sector} ELSE free_map
  /\ inode' = [inode EXCEPT ![closing[p]] = NULL]
  /\ closing' = [closing EXCEPT ![p] = NULL]
  /\ pc' = [pc EXCEPT ![p] = "user"]
  /\ UNCHANGED <<dir, disk_inode, open_inodes, files, lost>>

(* ... release the blocks of a removed file and free the struct. *)
InodeCloseFree(p) ==
  /\ pc[p] = "free"
  /\ LET x == inode[closing[p]]
     IN  free_map' = IF x.removed THEN free_map \ ({x.sector} \cup x.data) ELSE free_map
  /\ inode' = [inode EXCEPT ![closing[p]] = NULL]
  /\ closing' = [closing EXCEPT ![p] = NULL]
  /\ pc' = [pc EXCEPT ![p] = "user"]
  /\ UNCHANGED <<dir, disk_inode, open_inodes, files, lost>>

FSNext ==
  \E p \in Client :
    \/ \E n \in Name :
         \/ FilesysOpen(p, n)
         \/ FilesysRemove(p, n)
         \/ \E length \in 0..MaxLength : FilesysCreate(p, n, length)
    \/ \E x \in Struct : InodeClose(p, x)
    \/ InodeCloseUnlink(p)
    \/ InodeCloseFree(p)

FSSpec == FSInit /\ [][FSNext]_fsvars
-----------------------------------------------------------------------------
(* A sector whose inode has a name or is open, and the sectors it occupies. *)
Live == {dir[n] : n \in {n \in Name : dir[n] # NULL}}
          \cup {inode[x].sector : x \in {x \in Struct : inode[x] # NULL}}
Blocks(s) == {s} \cup disk_inode[s]

(* Every variable has its type; in particular every sector is on the disk. *)
FSTypeOK ==
  /\ dir \in [Name -> Sector \cup {NULL}]
  /\ free_map \in SUBSET Sector
  /\ disk_inode \in [Sector -> SUBSET Sector]
  /\ \A x \in Struct : inode[x] # NULL =>
       /\ inode[x].sector \in Sector /\ inode[x].data \in SUBSET Sector
       /\ inode[x].open_cnt \in 0..(MaxOpen * Cardinality(Client)) /\ inode[x].removed \in BOOLEAN
  /\ open_inodes \in SUBSET Struct
  /\ files \in [Client -> [Struct -> 0..MaxOpen]]
  /\ pc \in [Client -> {"user", "unlink", "free"}]
  /\ closing \in [Client -> Struct \cup {NULL}]
  /\ lost \in SUBSET Sector

(***************************************************************************)
(* A sector belongs to one file only: as long as a file has a name or is   *)
(* open, also after filesys_remove, free_map_allocate gives none of its    *)
(* sectors, nor those of the free map and the root directory, to another.  *)
(***************************************************************************)
BlocksKept ==
  /\ \A s \in Live : Blocks(s) \subseteq free_map \ SystemSectors
  /\ \A s, t \in Live : s # t => Blocks(s) \cap Blocks(t) = {}
  /\ \A x \in Struct : inode[x] # NULL => inode[x].data = disk_inode[inode[x].sector]

(***************************************************************************)
(* The blocks of a removed file come back when the last opener closes it:  *)
(* every sector in use belongs to a file that has a name or is open, or    *)
(* was lost by a filesys_create whose dir_add failed.                      *)
(***************************************************************************)
BlocksReturned ==
  free_map \ SystemSectors = lost \cup UNION {Blocks(s) : s \in Live}

(***************************************************************************)
(* inode_open's promise, "opening a single inode twice returns the same    *)
(* struct inode": two listed structs are of different sectors, and a       *)
(* struct counts the files that refer to it, whoever opened them.          *)
(***************************************************************************)
OneStruct ==
  /\ \A x, y \in open_inodes : inode[x].sector = inode[y].sector => x = y
  /\ \A x \in Struct : inode[x] # NULL =>
       inode[x].open_cnt = MapThenSumSet(LAMBDA p : files[p][x], Client)

(* The sectors in use and the struct inodes have the owners they should. *)
SectorsOwned == FSTypeOK /\ BlocksKept /\ BlocksReturned /\ OneStruct

(***************************************************************************)
(* inode_close frees the struct only "if this was the last reference": the *)
(* struct a file refers to, or a close is at work on, is allocated.        *)
(***************************************************************************)
LastReference ==
  \A p \in Client, x \in Struct : files[p][x] > 0 \/ closing[p] = x => inode[x] # NULL
=============================================================================

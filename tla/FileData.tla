------------------------------ MODULE FileData ------------------------------
(***************************************************************************)
(* The bytes of a file: inode_read_at and inode_write_at of filesys/       *)
(* inode.c, sector by sector, with the positions and the write denial of   *)
(* filesys/file.c, for several processes that have the same file open.     *)
(*                                                                         *)
(* read, write, the reload and the write-back of mapped pages hold         *)
(* filesys_lock; load's and lazy_load_segment's reads, file_deny_write in  *)
(* process_exec and file_close do not.  A thread may lose the processor    *)
(* between any two disk accesses.  A process writes its own byte.          *)
(***************************************************************************)
EXTENDS Integers, Sequences, FiniteSets

CONSTANTS
  Writer,             \* the processes
  Nobody,
  DISK_SECTOR_SIZE,
  FileLength,         \* bytes of the file
  MaxSize,            \* bound: bytes of a request
  MaxPos,             \* bound: where a request starts
  MaxRequests         \* bound: calls of all the processes

ASSUME FileDataAssumption ==
  /\ DISK_SECTOR_SIZE \in Nat \ {0} /\ FileLength \in Nat
  /\ MaxSize \in Nat /\ MaxPos \in Nat
  /\ IsFiniteSet(Writer) /\ Nobody \notin Writer

VARIABLES
  sectors,            \* the bytes of the data sectors, in one row
  pos,                \* file->pos of the struct file of each process
  deny_write,         \* file->deny_write
  deny_write_cnt,     \* of the inode
  filesys_lock,
  request,            \* what a process is doing
  requests            \* how many calls there were

fdvars == <<sectors, pos, deny_write, deny_write_cnt, filesys_lock, request, requests>>

Min2(a, b) == IF a < b THEN a ELSE b
bytes_to_sectors == (FileLength + DISK_SECTOR_SIZE - 1) \div DISK_SECTOR_SIZE
Offsets == 0..(bytes_to_sectors * DISK_SECTOR_SIZE - 1)
Blank == [op |-> "none", locked |-> FALSE, at |-> "user", first |-> 0, size |-> 0,
          done |-> 0, buf |-> <<>>, bounce |-> <<>>]

FileDataInit ==
  /\ sectors = [i \in Offsets |-> 0]
  /\ pos = [p \in Writer |-> 0]
  /\ deny_write = [p \in Writer |-> FALSE] /\ deny_write_cnt = 0
  /\ filesys_lock = Nobody
  /\ request = [p \in Writer |-> Blank]
  /\ requests = 0
-----------------------------------------------------------------------------
(* The chunk at byte offset ofs of a request with left bytes to go. *)
sector_ofs(ofs) == ofs % DISK_SECTOR_SIZE
sector_left(ofs) == DISK_SECTOR_SIZE - sector_ofs(ofs)
chunk_size(ofs, left) == Min2(left, Min2(FileLength - ofs, sector_left(ofs)))

Offset(p) == request[p].first + request[p].done
Chunk(p) == chunk_size(Offset(p), request[p].size - request[p].done)
FirstByte(p) == Offset(p) - sector_ofs(Offset(p))   \* byte_to_sector, as a byte offset
disk_read(p) == [i \in 1..DISK_SECTOR_SIZE |-> sectors[FirstByte(p) + i - 1]]
WholeSector(p) == sector_ofs(Offset(p)) = 0 /\ Chunk(p) = DISK_SECTOR_SIZE
More(p) == request[p].size > request[p].done /\ Chunk(p) > 0

Update(p, r) == request' = [request EXCEPT ![p] = r]

(* A request: size bytes from offset first, holding filesys_lock or not. *)
Start(p, op, first, size, locked) ==
  /\ request[p].at = "user" /\ requests < MaxRequests
  /\ requests' = requests + 1
  /\ locked => filesys_lock = Nobody
  /\ filesys_lock' = IF locked THEN p ELSE filesys_lock
  /\ Update(p, [Blank EXCEPT !.op = op, !.locked = locked, !.at = "enter", !.first = first, !.size = size])
  /\ UNCHANGED <<sectors, pos, deny_write, deny_write_cnt>>

file_read(p) == \E size \in 1..MaxSize, locked \in BOOLEAN : Start(p, "read", pos[p], size, locked)
file_read_at(p) ==
  \E size \in 1..MaxSize, first \in 0..MaxPos, locked \in BOOLEAN : Start(p, "read_at", first, size, locked)

(* Variant: the caller does not take the lock. *)
file_write_unlocked(p) == \E size \in 1..MaxSize : Start(p, "write", pos[p], size, FALSE)

file_write(p) == \E size \in 1..MaxSize : Start(p, "write", pos[p], size, TRUE)
file_write_at(p) == \E size \in 1..MaxSize, first \in 0..MaxPos : Start(p, "write_at", first, size, TRUE)

IsWrite(p) == request[p].op \in {"write", "write_at"}
IsRead(p) == request[p].op \in {"read", "read_at"}

inode_write_at(p) ==
  /\ request[p].at = "enter" /\ IsWrite(p)
  /\ Update(p, [request[p] EXCEPT !.at = IF deny_write_cnt > 0 THEN "return" ELSE "loop"])
  /\ UNCHANGED <<sectors, pos, deny_write, deny_write_cnt, filesys_lock, requests>>

FillBounce(p) ==
  IF sector_ofs(Offset(p)) > 0 \/ Chunk(p) < sector_left(Offset(p))
    THEN disk_read(p) ELSE [i \in 1..DISK_SECTOR_SIZE |-> 0]

(***************************************************************************)
(* One turn of the loop of inode_write_at.  A whole sector goes to the     *)
(* disk at once; a part of one is first read into the bounce buffer, and   *)
(* the request ends there if the buffer cannot be allocated.               *)
(***************************************************************************)
WriteBounce(p) ==
  /\ request[p].at = "loop" /\ IsWrite(p) /\ More(p) /\ ~WholeSector(p)
  /\ \/ Update(p, [request[p] EXCEPT !.at = "store", !.bounce = FillBounce(p)])
     \/ request[p].bounce = <<>> /\ Update(p, [request[p] EXCEPT !.at = "return"])
  /\ UNCHANGED <<sectors, pos, deny_write, deny_write_cnt, filesys_lock, requests>>

disk_write(p) ==
  LET from == FirstByte(p)
      whole == request[p].at = "loop"
  IN  /\ IsWrite(p) /\ (request[p].at = "store" \/ (request[p].at = "loop" /\ More(p) /\ WholeSector(p)))
      /\ sectors' = [i \in Offsets |->
           IF i \in Offset(p)..(Offset(p) + Chunk(p) - 1) THEN p
           ELSE IF ~whole /\ i \in from..(from + DISK_SECTOR_SIZE - 1)
             THEN request[p].bounce[i - from + 1] ELSE sectors[i]]
      /\ Update(p, [request[p] EXCEPT !.at = "loop", !.done = @ + Chunk(p)])
      /\ UNCHANGED <<pos, deny_write, deny_write_cnt, filesys_lock, requests>>

(* Variant: the copy starts at the first byte of the sector. *)
CopiedFromStart(p) == SubSeq(disk_read(p), 1, Chunk(p))

Copied(p) == SubSeq(disk_read(p), sector_ofs(Offset(p)) + 1, sector_ofs(Offset(p)) + Chunk(p))

(* One turn of the loop of inode_read_at; the copy is to the caller's own memory. *)
inode_read_at(p) ==
  /\ request[p].at \in {"enter", "loop"} /\ IsRead(p) /\ More(p)
  /\ \/ Update(p, [request[p] EXCEPT !.at = "loop", !.done = @ + Chunk(p), !.buf = @ \o Copied(p),
                     !.bounce = IF WholeSector(p) THEN @ ELSE disk_read(p)])
     \/ /\ ~WholeSector(p) /\ request[p].bounce = <<>>
        /\ Update(p, [request[p] EXCEPT !.at = "return"])
  /\ UNCHANGED <<sectors, pos, deny_write, deny_write_cnt, filesys_lock, requests>>

(* The end of the file or of the request. *)
LoopEnds(p) ==
  /\ request[p].at = "loop" \/ (request[p].at = "enter" /\ IsRead(p))
  /\ ~More(p)
  /\ Update(p, [request[p] EXCEPT !.at = "return"])
  /\ UNCHANGED <<sectors, pos, deny_write, deny_write_cnt, filesys_lock, requests>>

(* The return through file_read or file_write, which move file->pos. *)
Return(p) ==
  /\ request[p].at = "return"
  /\ pos' = [pos EXCEPT ![p] = IF request[p].op \in {"read", "write"} THEN @ + request[p].done ELSE @]
  /\ filesys_lock' = IF request[p].locked THEN Nobody ELSE filesys_lock
  /\ Update(p, Blank)
  /\ UNCHANGED <<sectors, deny_write, deny_write_cnt, requests>>

file_seek(p) ==
  /\ request[p].at = "user" /\ requests < MaxRequests
  /\ \E new_pos \in 0..MaxPos : pos' = [pos EXCEPT ![p] = new_pos]
  /\ UNCHANGED <<sectors, deny_write, deny_write_cnt, filesys_lock, request>>
  /\ requests' = requests + 1

file_deny_write(p) ==
  /\ request[p].at = "user" /\ ~deny_write[p] /\ requests < MaxRequests
  /\ deny_write' = [deny_write EXCEPT ![p] = TRUE]
  /\ deny_write_cnt' = deny_write_cnt + 1
  /\ UNCHANGED <<sectors, pos, filesys_lock, request>>
  /\ requests' = requests + 1

(* Variant: file_allow_write does not look at the file's own flag. *)
file_allow_write_always(p) ==
  /\ request[p].at = "user" /\ requests < MaxRequests
  /\ deny_write' = [deny_write EXCEPT ![p] = FALSE]
  /\ deny_write_cnt' = IF deny_write_cnt > 0 THEN deny_write_cnt - 1 ELSE 0
  /\ UNCHANGED <<sectors, pos, filesys_lock, request>>
  /\ requests' = requests + 1

file_allow_write(p) ==
  /\ request[p].at = "user" /\ deny_write[p] /\ requests < MaxRequests
  /\ deny_write' = [deny_write EXCEPT ![p] = FALSE]
  /\ deny_write_cnt' = deny_write_cnt - 1
  /\ UNCHANGED <<sectors, pos, filesys_lock, request>>
  /\ requests' = requests + 1

FileDataNext ==
  \E p \in Writer :
    \/ file_read(p) \/ file_read_at(p) \/ file_write(p) \/ file_write_at(p)
    \/ inode_write_at(p) \/ WriteBounce(p) \/ disk_write(p) \/ inode_read_at(p)
    \/ LoopEnds(p) \/ Return(p) \/ file_seek(p) \/ file_deny_write(p) \/ file_allow_write(p)

FileDataSpec == FileDataInit /\ [][FileDataNext]_fdvars
-----------------------------------------------------------------------------
(***************************************************************************)
(* A write changes the bytes it was asked to write and no others: the rest *)
(* of a sector that goes through the bounce buffer keeps what other        *)
(* processes wrote there in the meantime.                                  *)
(***************************************************************************)
WritesOnlyTheirBytes ==
  [][\A i \in Offsets : sectors'[i] # sectors[i] =>
       \E p \in Writer : /\ IsWrite(p) /\ i < FileLength
                         /\ i \in request[p].first..(request[p].first + request[p].size - 1)
                         /\ sectors'[i] = p]_fdvars

(***************************************************************************)
(* A read under filesys_lock returns what the file holds from its offset   *)
(* on, as much as was asked for or the file has; less only for want of     *)
(* memory for the bounce buffer.                                           *)
(***************************************************************************)
ReadsRight ==
  \A p \in Writer : IsRead(p) /\ request[p].at = "return" /\ request[p].locked =>
    LET r == request[p]
        full == Min2(r.size, IF FileLength > r.first THEN FileLength - r.first ELSE 0)
    IN  /\ Len(r.buf) = r.done /\ r.done <= full
        /\ \A k \in 1..r.done : r.buf[k] = sectors[r.first + k - 1]
        /\ r.bounce # <<>> => r.done = full

(***************************************************************************)
(* While a struct file denies writing and the writes that were already     *)
(* past the test of deny_write_cnt have returned, the file does not        *)
(* change: a running program keeps the text it was loaded from.  The test  *)
(* is made once, and process_exec denies without filesys_lock, so a write  *)
(* that began before may still change the file after the denial.           *)
(***************************************************************************)
DeniedFileKept ==
  [][/\ \E p \in Writer : deny_write[p]
     /\ ~\E p \in Writer : IsWrite(p) /\ request[p].at \in {"loop", "store"}
     => (sectors' = sectors /\ ~\E p \in Writer : IsWrite(p)' /\ request'[p].at \in {"loop", "store"})]_fdvars
=============================================================================

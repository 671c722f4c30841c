----------------------------- MODULE FileProofs -----------------------------
(***************************************************************************)
(* Theorems about the file calls: who holds filesys_lock (FileCalls), and  *)
(* what reads and writes do to the bytes of a file (FileData).             *)
(***************************************************************************)
EXTENDS FileCalls, FileData, FiniteSetTheorems, TLAPS

(***************************************************************************)
(* filesys_lock.  A process is under the lock while the file system copies *)
(* for it, the faults it takes there included.                             *)
(***************************************************************************)
Faulting == {"fault", "evict", "reload"}
Place == {"user", "check", "lock", "copy", "exit", "writeback", "dead"} \cup Faulting

UnderLock(p) == doing[p] = "copy" \/ (doing[p] \in Faulting /\ fault[p][2] = "copy")
Outside(p) == doing[p] = "user" \/ (doing[p] \in Faulting /\ fault[p][2] = "user")

CallsType ==
  /\ flock \in Caller \cup {NoCaller}
  /\ doing \in [Caller -> Place]
  /\ syscall \in [Caller -> Names \cup Buffers \cup {"none"}]
  /\ DOMAIN fault = Caller
  /\ \A p \in Caller : fault[p][2] \in {"user", "check", "copy"}

(***************************************************************************)
(* The lock is held by the process that is under it, or by one in          *)
(* sys_create, which takes the lock first; a process outside a call has    *)
(* none of it.                                                             *)
(***************************************************************************)
HolderOf(p) ==
  /\ UnderLock(p) => flock = p
  /\ flock = p => UnderLock(p) \/ syscall[p] = "create"
  /\ Outside(p) => syscall[p] = "none"

HolderInv == CallsType /\ \A p \in Caller : HolderOf(p)

LEMMA HolderInit == FileCallsInit => HolderInv
  BY NoCallerAssumption
  DEF FileCallsInit, HolderInv, CallsType, HolderOf, UnderLock, Outside, Place, Faulting, NoFault

(* A step of p that keeps the lock leaves the others as they are. *)
LEMMA HolderFrame ==
  ASSUME HolderInv, NEW p \in Caller, CallsType', HolderOf(p)',
         flock' = flock,
         \A o \in Caller \ {p} : doing'[o] = doing[o] /\ fault'[o] = fault[o] /\ syscall'[o] = syscall[o]
  PROVE  HolderInv'
  BY DEF HolderInv, HolderOf, UnderLock, Outside

LEMMA HolderNext == HolderInv /\ [FileCallsNext]_fcvars => HolderInv'
<1> SUFFICES ASSUME HolderInv, [FileCallsNext]_fcvars PROVE HolderInv'
  OBVIOUS
<1>1. CASE UNCHANGED fcvars
  BY <1>1 DEF fcvars, HolderInv, CallsType, HolderOf, UnderLock, Outside
<1>2. ASSUME NEW p \in Caller, syscall_handler(p) PROVE HolderInv'
  <2>1. CallsType' /\ HolderOf(p)'
    BY <1>2, NoCallerAssumption DEF syscall_handler, sys_start, GoTo, HolderInv, CallsType, HolderOf, UnderLock, Outside, Place, Faulting, Names, Buffers
  <2> QED
    BY <2>1, <1>2, HolderFrame DEF syscall_handler, GoTo, HolderInv, CallsType
<1>3. ASSUME NEW p \in Caller, UserStore(p) \/ HeldByCurrentThread(p) PROVE HolderInv'
  BY <1>3 DEF UserStore, HeldByCurrentThread, HolderInv, CallsType, HolderOf, UnderLock, Outside
<1>4. ASSUME NEW p \in Caller, UserFault(p) PROVE HolderInv'
  <2>1. CallsType' /\ HolderOf(p)'
    BY <1>4 DEF UserFault, GoTo, HolderInv, CallsType, HolderOf, UnderLock, Outside, Place, Faulting
  <2> QED
    BY <2>1, <1>4, HolderFrame DEF UserFault, GoTo, HolderInv, CallsType
<1>5. ASSUME NEW p \in Caller, sys_exit(p) \/ process_cleanup(p) \/ file_backed_destroy(p) PROVE HolderInv'
  <2>1. CallsType' /\ HolderOf(p)'
    BY <1>5 DEF sys_exit, process_cleanup, file_backed_destroy, lock_for, GoTo, HolderInv, CallsType, HolderOf, UnderLock, Outside, Place, Faulting
  <2> QED
    BY <2>1, <1>5, HolderFrame DEF sys_exit, process_cleanup, file_backed_destroy, lock_for, GoTo, HolderInv, CallsType
<1>6. ASSUME NEW p \in Caller, check_buffer(p) PROVE HolderInv'
  <2> DEFINE g == NextPage(p)
  <2> HIDE DEF g
  <2>1. CASE InMemory(p, g)
    BY <2>1, <1>6 DEF check_buffer, g, HolderInv, CallsType, HolderOf, UnderLock, Outside
  <2>2. CASE ~InMemory(p, g)
    <3>1. CallsType' /\ HolderOf(p)'
      BY <2>2, <1>6 DEF check_buffer, g, GoTo, HolderInv, CallsType, HolderOf, UnderLock, Outside, Place, Faulting
    <3> QED
      BY <3>1, <2>2, <1>6, HolderFrame DEF check_buffer, g, GoTo, HolderInv, CallsType
  <2> QED
    BY <2>1, <2>2
<1>7. ASSUME NEW p \in Caller, Checked(p) PROVE HolderInv'
  <2>1. CallsType' /\ HolderOf(p)'
    BY <1>7 DEF Checked, GoTo, HolderInv, CallsType, HolderOf, UnderLock, Outside, Place, Faulting
  <2> QED
    BY <2>1, <1>7, HolderFrame DEF Checked, GoTo, HolderInv, CallsType
<1>8. ASSUME NEW p \in Caller, Locked(p) PROVE HolderInv'
  BY <1>8, NoCallerAssumption DEF Locked, lock_acquire, sys_start, GoTo, HolderInv, CallsType, HolderOf, UnderLock, Outside, Place, Faulting
<1>9. ASSUME NEW p \in Caller, Copy(p) PROVE HolderInv'
  <2> DEFINE g == NextPage(p)
  <2> HIDE DEF g
  <2>1. CASE InMemory(p, g)
    BY <2>1, <1>9 DEF Copy, g, HolderInv, CallsType, HolderOf, UnderLock, Outside
  <2>2. CASE ~InMemory(p, g)
    <3>1. CallsType' /\ HolderOf(p)'
      BY <2>2, <1>9 DEF Copy, g, GoTo, HolderInv, CallsType, HolderOf, UnderLock, Outside, Place, Faulting
    <3> QED
      BY <3>1, <2>2, <1>9, HolderFrame DEF Copy, g, GoTo, HolderInv, CallsType
  <2> QED
    BY <2>1, <2>2
<1>10. ASSUME NEW p \in Caller, SysReturn(p) PROVE HolderInv'
  BY <1>10, NoCallerAssumption DEF SysReturn, GoTo, HolderInv, CallsType, HolderOf, UnderLock, Outside, Place, Faulting
<1>11. ASSUME NEW p \in Caller, vm_get_frame(p) \/ file_backed_swap_out(p) PROVE HolderInv'
  <2>1. CallsType' /\ HolderOf(p)'
    BY <1>11 DEF vm_get_frame, file_backed_swap_out, lock_for, GoTo, HolderInv, CallsType, HolderOf, UnderLock, Outside, Place, Faulting
  <2> QED
    BY <2>1, <1>11, HolderFrame DEF vm_get_frame, file_backed_swap_out, lock_for, GoTo, HolderInv, CallsType
<1>12. ASSUME NEW p \in Caller, swap_in(p) PROVE HolderInv'
  <2>1. CallsType' /\ HolderOf(p)'
    BY <1>12 DEF swap_in, lock_for, GoTo, NoFault, HolderInv, CallsType, HolderOf, UnderLock, Outside, Place, Faulting
  <2> QED
    BY <2>1, <1>12, HolderFrame DEF swap_in, lock_for, GoTo, HolderInv, CallsType
<1> QED
  BY <1>1, <1>2, <1>3, <1>4, <1>5, <1>6, <1>7, <1>8, <1>9, <1>10, <1>11, <1>12 DEF FileCallsNext

(***************************************************************************)
(* filesys_lock is not left behind: for any processes, pages and faults it *)
(* is held by a process in a call, unless sys_create ended the process.    *)
(***************************************************************************)
THEOREM LockIsGivenBack == FileCallsSpec => []LockHolderLives
<1>1. HolderInv => LockHolderLives
  BY DEF HolderInv, CallsType, HolderOf, UnderLock, LockHolderLives, Faulting
<1> QED
  BY <1>1, HolderInit, HolderNext, PTL DEF FileCallsSpec

(***************************************************************************)
(* The file system copies for one process at a time, also while that       *)
(* process waits for a page in the middle of the copy.                     *)
(***************************************************************************)
THEOREM CopiesExclude ==
  FileCallsSpec => [](\A p, q \in Caller : UnderLock(p) /\ UnderLock(q) => p = q)
<1>1. HolderInv => \A p, q \in Caller : UnderLock(p) /\ UnderLock(q) => p = q
  BY DEF HolderInv, HolderOf
<1> QED
  BY <1>1, HolderInit, HolderNext, PTL DEF FileCallsSpec

-----------------------------------------------------------------------------
(***************************************************************************)
(* The bytes of a file.  Arithmetic of sectors first.                      *)
(***************************************************************************)
LEMMA DivMod ==
  ASSUME NEW o \in Nat, NEW S \in Nat, S > 0
  PROVE  /\ o \div S \in Nat
         /\ o % S \in 0..(S - 1) /\ o % S <= o
         /\ o - (o % S) = S * (o \div S)
         /\ S * (o \div S) <= o /\ o < S * (o \div S) + S
  OBVIOUS

LEMMA NextMultiple ==
  ASSUME NEW a \in Nat, NEW k \in Nat, NEW S \in Nat, S > 0, S * a < S * k
  PROVE  S * a + S <= S * k
<1>1. a < k
  OBVIOUS
<1> QED
  BY <1>1

LEMMA SectorOffset ==
  ASSUME NEW o \in Nat
  PROVE  /\ sector_ofs(o) \in 0..(DISK_SECTOR_SIZE - 1)
         /\ sector_ofs(o) <= o
         /\ sector_left(o) \in 1..DISK_SECTOR_SIZE
  BY DivMod, FileDataAssumption DEF sector_ofs, sector_left

(* The sector of a byte of the file is one of its data sectors. *)
LEMMA SectorInside ==
  ASSUME NEW o \in Nat, o < FileLength, NEW i \in 1..DISK_SECTOR_SIZE
  PROVE  o - sector_ofs(o) + i - 1 \in Offsets
<1> DEFINE S == DISK_SECTOR_SIZE
           a == o \div S
           up == FileLength + S - 1
           k == bytes_to_sectors
<1>1. S \in Nat /\ S > 0 /\ FileLength \in Nat /\ up \in Nat
  BY FileDataAssumption
<1>2. a \in Nat /\ o - sector_ofs(o) = S * a /\ S * a <= o
  BY DivMod, <1>1 DEF sector_ofs
<1>3. k \in Nat /\ up < S * k + S
  BY DivMod, <1>1 DEF bytes_to_sectors
<1> HIDE DEF a, k
<1>4. S * k \in Int /\ S * a \in Int /\ S * a >= 0
  BY <1>1, <1>2, <1>3
<1> DEFINE Sa == S * a
           Sk == S * k
<1> HIDE DEF Sa, Sk
<1>5. Sa < Sk
  BY <1>1, <1>2, <1>3, <1>4 DEF Sa, Sk
<1>6. Sa + S <= Sk
  BY <1>1, <1>2, <1>3, <1>5, NextMultiple DEF Sa, Sk
<1>7. k * S = Sk
  BY <1>1, <1>3 DEF Sk
<1>8. Offsets = 0..(Sk - 1)
  BY <1>7 DEF Offsets, k
<1>9. Sa \in Int /\ Sk \in Int /\ Sa >= 0 /\ o - sector_ofs(o) = Sa
  BY <1>2, <1>4 DEF Sa, Sk
<1> QED
  BY <1>1, <1>6, <1>8, <1>9

LEMMA ChunkBounds ==
  ASSUME NEW o \in Nat, NEW left \in Nat
  PROVE  /\ chunk_size(o, left) \in Int
         /\ chunk_size(o, left) <= left
         /\ chunk_size(o, left) <= FileLength - o
         /\ chunk_size(o, left) <= sector_left(o)
         /\ left > 0 /\ o < FileLength => chunk_size(o, left) > 0
  BY SectorOffset, FileDataAssumption DEF chunk_size, Min2

-----------------------------------------------------------------------------
Byte == Writer \cup {0}
Request ==
  [op : {"none", "read", "read_at", "write", "write_at"}, locked : BOOLEAN,
   at : {"user", "enter", "loop", "store", "return"},
   first : Nat, size : Nat, done : Nat,
   buf : Seq(Byte), bounce : [1..DISK_SECTOR_SIZE -> Byte] \cup {<<>>}]

DataType ==
  /\ sectors \in [Offsets -> Byte]
  /\ pos \in [Writer -> Nat]
  /\ filesys_lock \in Writer \cup {Nobody}
  /\ request \in [Writer -> Request]

(* What a request has done stays within it and within the file. *)
Within(p) ==
  /\ request[p].done <= request[p].size
  /\ request[p].done > 0 => Offset(p) <= FileLength

(* Writers hold the lock, and what is in the bounce buffer is still on the disk. *)
WriteOK(p) ==
  /\ request[p].locked => filesys_lock = p
  /\ IsWrite(p) => request[p].locked
  /\ request[p].at = "store" => IsWrite(p) /\ More(p) /\ request[p].bounce = disk_read(p)

(* What a read under the lock has copied is still in the file. *)
ReadOK(p) ==
  IsRead(p) =>
    /\ Len(request[p].buf) = request[p].done
    /\ request[p].locked =>
         \A k \in 1..request[p].done : request[p].buf[k] = sectors[request[p].first + k - 1]
    /\ request[p].at = "return" /\ request[p].bounce # <<>> => ~More(p)

DataInv == DataType /\ \A p \in Writer : Within(p) /\ WriteOK(p) /\ ReadOK(p)

LEMMA DataInit == FileDataInit => DataInv
<1> SUFFICES ASSUME FileDataInit PROVE DataInv
  OBVIOUS
<1>1. Blank \in Request
  BY DEF Blank, Request
<1>2. DataType
  BY <1>1 DEF FileDataInit, DataType, Byte
<1>3. ASSUME NEW p \in Writer PROVE Within(p) /\ WriteOK(p) /\ ReadOK(p)
  BY <1>3 DEF FileDataInit, Blank, Within, WriteOK, ReadOK, IsWrite, IsRead
<1> QED
  BY <1>2, <1>3 DEF DataInv

(* The chunk of a request that has more to do. *)
LEMMA ChunkOK ==
  ASSUME DataInv, NEW p \in Writer
  PROVE  /\ request[p] \in Request
         /\ Offset(p) \in Nat /\ Chunk(p) \in Int
         /\ More(p) => /\ Chunk(p) > 0 /\ Offset(p) < FileLength
                       /\ request[p].done + Chunk(p) \in Nat
                       /\ request[p].done + Chunk(p) <= request[p].size
                       /\ Offset(p) + Chunk(p) <= FileLength
                       /\ disk_read(p) \in [1..DISK_SECTOR_SIZE -> Byte]
                       /\ Chunk(p) <= sector_left(Offset(p))
         /\ ~More(p) /\ request[p].done < request[p].size => Offset(p) >= FileLength
<1>1. /\ request[p] \in Request /\ Offset(p) \in Nat
      /\ request[p].size - request[p].done \in Nat
  BY DEF DataInv, DataType, Within, Request, Offset
<1>2. /\ Chunk(p) \in Int
      /\ Chunk(p) <= request[p].size - request[p].done
      /\ Chunk(p) <= FileLength - Offset(p)
      /\ Chunk(p) <= sector_left(Offset(p))
      /\ request[p].size - request[p].done > 0 /\ Offset(p) < FileLength => Chunk(p) > 0
  BY <1>1, ChunkBounds DEF Chunk
<1>3. ASSUME More(p) PROVE disk_read(p) \in [1..DISK_SECTOR_SIZE -> Byte]
  <2>1. Offset(p) < FileLength
    BY <1>1, <1>2, <1>3, FileDataAssumption DEF More
  <2>2. ASSUME NEW i \in 1..DISK_SECTOR_SIZE PROVE sectors[FirstByte(p) + i - 1] \in Byte
    BY <1>1, <2>1, <2>2, SectorInside DEF FirstByte, DataInv, DataType
  <2> QED
    BY <2>2 DEF disk_read
<1>4. request[p].done \in Nat /\ request[p].size \in Nat /\ FileLength \in Nat
  BY <1>1, FileDataAssumption DEF Request
<1>5. More(p) <=> request[p].size > request[p].done /\ Chunk(p) > 0
  BY DEF More
<1>6. ASSUME More(p)
      PROVE  /\ Chunk(p) > 0 /\ Offset(p) < FileLength
             /\ request[p].done + Chunk(p) \in Nat
             /\ request[p].done + Chunk(p) <= request[p].size
             /\ Offset(p) + Chunk(p) <= FileLength
  BY <1>1, <1>2, <1>4, <1>5, <1>6
<1>7. ~More(p) /\ request[p].done < request[p].size => Offset(p) >= FileLength
  BY <1>1, <1>2, <1>4, <1>5
<1> QED
  BY <1>1, <1>2, <1>3, <1>6, <1>7

(***************************************************************************)
(* A step that changes only the request of p, as far as the disk and the   *)
(* lock go.                                                                *)
(***************************************************************************)
LEMMA RequestFrame ==
  ASSUME DataInv, NEW p \in Writer, NEW r \in Request,
         request' = [request EXCEPT ![p] = r], sectors' = sectors, filesys_lock' = filesys_lock,
         pos' \in [Writer -> Nat],
         (Within(p) /\ WriteOK(p) /\ ReadOK(p))'
  PROVE  DataInv'
<1>1. DataType'
  BY Zenon DEF DataInv, DataType
<1>2. ASSUME NEW o \in Writer, o # p PROVE (Within(o) /\ WriteOK(o) /\ ReadOK(o))'
  <2>1. request'[o] = request[o]
    BY <1>2 DEF DataInv, DataType
  <2> QED
    BY <2>1, <1>2 DEF DataInv, Within, WriteOK, ReadOK, IsWrite, IsRead, More, Chunk, Offset, disk_read, FirstByte
<1> QED
  BY <1>1, <1>2 DEF DataInv

(* What is in two buffers put together, and in a part of a sector. *)
LEMMA JoinedBytes ==
  ASSUME NEW S, NEW s \in Seq(S), NEW t \in Seq(S)
  PROVE  /\ s \o t \in Seq(S) /\ Len(s \o t) = Len(s) + Len(t)
         /\ \A i \in 1..(Len(s) + Len(t)) :
              (s \o t)[i] = IF i <= Len(s) THEN s[i] ELSE t[i - Len(s)]
OBVIOUS

LEMMA PartOfSector ==
  ASSUME NEW S, NEW s, NEW m \in Int, NEW n \in Int, m <= n, \A i \in m..n : s[i] \in S
  PROVE  /\ SubSeq(s, m, n) \in Seq(S) /\ Len(SubSeq(s, m, n)) = (n - m) + 1
         /\ \A i \in 1..((n - m) + 1) : SubSeq(s, m, n)[i] = s[m + i - 1]
OBVIOUS

(* A buffer with the first bytes of f from first on, and the chunk that follows. *)
LEMMA BufferGrows ==
  ASSUME NEW buf \in Seq(Byte), NEW add \in Seq(Byte), NEW f, NEW first \in Nat,
         \A k \in 1..Len(buf) : buf[k] = f[first + k - 1],
         \A j \in 1..Len(add) : add[j] = f[first + Len(buf) + j - 1]
  PROVE  \A k \in 1..(Len(buf) + Len(add)) : (buf \o add)[k] = f[first + k - 1]
<1> DEFINE n == Len(buf)
           m == Len(add)
<1>1. n \in Nat /\ m \in Nat
  OBVIOUS
<1>2. \A i \in 1..(n + m) : (buf \o add)[i] = IF i <= n THEN buf[i] ELSE add[i - n]
  BY JoinedBytes
<1> HIDE DEF n, m
<1>3. ASSUME NEW k \in 1..(n + m), k > n PROVE (buf \o add)[k] = f[first + k - 1]
  <2>1. k - n \in 1..m /\ first + n + (k - n) - 1 = first + k - 1 /\ ~(k <= n)
    BY <1>1, <1>3
  <2>2. add[k - n] = f[first + n + (k - n) - 1]
    BY <2>1 DEF n, m
  <2> QED
    BY <1>2, <1>3, <2>1, <2>2, Zenon
<1>4. ASSUME NEW k \in 1..(n + m), k <= n PROVE (buf \o add)[k] = f[first + k - 1]
  <2>1. k \in 1..n
    BY <1>1, <1>4
  <2> QED
    BY <1>2, <1>4, <2>1 DEF n
<1>5. ASSUME NEW k \in 1..(n + m) PROVE (buf \o add)[k] = f[first + k - 1]
  <2>1. k > n \/ k <= n
    BY <1>1
  <2> QED
    BY <2>1, <1>3, <1>4, Zenon
<1> QED
  BY <1>5 DEF n, m

(* memcpy of the chunk: the bytes of the file from Offset(p) on. *)
LEMMA CopiedOK ==
  ASSUME DataInv, NEW p \in Writer, More(p)
  PROVE  /\ Copied(p) \in Seq(Byte)
         /\ Len(Copied(p)) = Chunk(p)
         /\ \A j \in 1..Chunk(p) : Copied(p)[j] = sectors[Offset(p) + j - 1]
<1> DEFINE o == sector_ofs(Offset(p))
           n == Chunk(p)
<1>1. /\ Offset(p) \in Nat /\ o \in 0..(DISK_SECTOR_SIZE - 1) /\ n \in Nat /\ n > 0
      /\ o + n <= DISK_SECTOR_SIZE /\ DISK_SECTOR_SIZE \in Nat
      /\ disk_read(p) \in [1..DISK_SECTOR_SIZE -> Byte]
      /\ FirstByte(p) = Offset(p) - o
  <2>1. /\ Offset(p) \in Nat /\ Chunk(p) \in Int /\ Chunk(p) > 0
        /\ Chunk(p) <= sector_left(Offset(p))
        /\ disk_read(p) \in [1..DISK_SECTOR_SIZE -> Byte]
    BY ChunkOK
  <2>2. sector_ofs(Offset(p)) \in 0..(DISK_SECTOR_SIZE - 1) /\ DISK_SECTOR_SIZE \in Nat
    BY <2>1, SectorOffset, FileDataAssumption
  <2> QED
    BY <2>1, <2>2 DEF sector_left, FirstByte
<1> HIDE DEF o, n
<1>2. \A i \in (o + 1)..(o + n) : disk_read(p)[i] \in Byte
  BY <1>1
<1>3. /\ SubSeq(disk_read(p), o + 1, o + n) \in Seq(Byte)
      /\ Len(SubSeq(disk_read(p), o + 1, o + n)) = n
      /\ \A j \in 1..n : SubSeq(disk_read(p), o + 1, o + n)[j] = disk_read(p)[o + j]
  <2>1. o + 1 \in Int /\ o + n \in Int /\ o + 1 <= o + n /\ (o + n) - (o + 1) + 1 = n
    BY <1>1
  <2>2. \A j \in 1..n : (o + 1) + j - 1 = o + j
    BY <1>1
  <2> QED
    BY <2>1, <2>2, <1>2, PartOfSector
<1>4. ASSUME NEW j \in 1..n PROVE disk_read(p)[o + j] = sectors[Offset(p) + j - 1]
  <2>1. o + j \in 1..DISK_SECTOR_SIZE /\ FirstByte(p) + (o + j) - 1 = Offset(p) + j - 1
    BY <1>1, <1>4
  <2> QED
    BY <2>1 DEF disk_read
<1> QED
  BY <1>3, <1>4 DEF Copied, o, n

LEMMA ReadStep ==
  ASSUME DataInv, NEW p \in Writer, inode_read_at(p)
  PROVE  DataInv'
<1> DEFINE r == request[p]
           b == IF WholeSector(p) THEN r.bounce ELSE disk_read(p)
           go == [r EXCEPT !.at = "loop", !.done = @ + Chunk(p), !.buf = @ \o Copied(p), !.bounce = b]
           stop == [r EXCEPT !.at = "return"]
<1>1. /\ r \in Request /\ More(p) /\ IsRead(p) /\ r.at \in {"enter", "loop"}
      /\ r.done \in Nat /\ r.size \in Nat /\ r.first \in Nat /\ FileLength \in Nat
      /\ r.buf \in Seq(Byte) /\ r.locked \in BOOLEAN
      /\ r.op \in {"none", "read", "read_at", "write", "write_at"}
      /\ sectors' = sectors /\ filesys_lock' = filesys_lock /\ pos' = pos /\ pos \in [Writer -> Nat]
      /\ request' = [request EXCEPT ![p] = go] \/ (request' = [request EXCEPT ![p] = stop] /\ r.bounce = <<>>)
  BY FileDataAssumption, Zenon DEF inode_read_at, Update, DataInv, DataType, Request
<1>2. request \in [Writer -> Request]
  BY DEF DataInv, DataType
<1>3. CASE request' = [request EXCEPT ![p] = stop] /\ r.bounce = <<>>
  <2>1. stop \in Request /\ request'[p] = stop
    BY <1>1, <1>2, <1>3, Zenon DEF Request
  <2>2. (Within(p) /\ WriteOK(p) /\ ReadOK(p))'
    BY <1>1, <1>3, <2>1 DEF DataInv, Within, WriteOK, ReadOK, IsWrite, IsRead, Offset
  <2> QED
    BY <1>1, <1>3, <2>1, <2>2, RequestFrame, Zenon
<1>4. CASE request' = [request EXCEPT ![p] = go]
  <2>1. /\ r.done + Chunk(p) \in Nat /\ r.done + Chunk(p) <= r.size
        /\ Offset(p) + Chunk(p) <= FileLength /\ Offset(p) \in Nat
        /\ disk_read(p) \in [1..DISK_SECTOR_SIZE -> Byte] /\ Chunk(p) \in Nat
    BY <1>1, ChunkOK
  <2>2. /\ Copied(p) \in Seq(Byte) /\ Len(Copied(p)) = Chunk(p)
        /\ \A j \in 1..Chunk(p) : Copied(p)[j] = sectors[Offset(p) + j - 1]
    BY <1>1, CopiedOK
  <2>3. r.buf \o Copied(p) \in Seq(Byte) /\ Len(r.buf \o Copied(p)) = Len(r.buf) + Chunk(p)
    <3> DEFINE old == r.buf
               new == Copied(p)
    <3>1. old \in Seq(Byte) /\ new \in Seq(Byte) /\ Len(new) = Chunk(p)
      BY <1>1, <2>2
    <3> HIDE DEF old, new
    <3>2. old \o new \in Seq(Byte) /\ Len(old \o new) = Len(old) + Len(new)
      BY <3>1, JoinedBytes, Zenon
    <3> QED
      BY <3>1, <3>2 DEF old, new
  <2>4. b \in [1..DISK_SECTOR_SIZE -> Byte] \cup {<<>>}
    BY <1>1, <2>1, SMTT(30) DEF Request
  <2>5. go \in Request /\ request'[p] = go
    BY <1>1, <1>2, <1>4, <2>1, <2>3, <2>4, Zenon DEF Request
  <2>6. /\ go.done = r.done + Chunk(p) /\ go.buf = r.buf \o Copied(p) /\ go.at = "loop"
        /\ go.op = r.op /\ go.first = r.first /\ go.size = r.size /\ go.locked = r.locked
    BY <1>1, SMTT(30) DEF Request
  <2> HIDE DEF go
  <2>7. Within(p)'
    <3>1. Offset(p)' = Offset(p) + Chunk(p)
      <4>1. Offset(p) = r.first + r.done /\ Offset(p)' = r.first + (r.done + Chunk(p))
        BY <2>5, <2>6, Zenon DEF Offset
      <4>2. r.first \in Nat /\ r.done \in Nat /\ Chunk(p) \in Nat
        BY <1>1, <2>1, Zenon
      <4> QED
        BY <4>1, <4>2
    <3> QED
      BY <2>1, <2>5, <2>6, <3>1 DEF Within
  <2>8. WriteOK(p)'
    BY <1>1, <2>5, <2>6 DEF DataInv, WriteOK, IsWrite, IsRead
  <2>9. Len(r.buf) = r.done /\ (r.locked => \A k \in 1..r.done : r.buf[k] = sectors[r.first + k - 1])
    BY <1>1 DEF DataInv, ReadOK
  <2>10. ASSUME r.locked
         PROVE \A k \in 1..(r.done + Chunk(p)) : (r.buf \o Copied(p))[k] = sectors[r.first + k - 1]
    <3>1. Offset(p) = r.first + Len(r.buf) /\ r.buf \in Seq(Byte) /\ r.first \in Nat
      BY <1>1, <2>9 DEF Offset
    <3>2. /\ \A k \in 1..Len(r.buf) : r.buf[k] = sectors[r.first + k - 1]
          /\ \A j \in 1..Len(Copied(p)) : Copied(p)[j] = sectors[r.first + Len(r.buf) + j - 1]
      BY <2>2, <2>9, <2>10, <3>1, Zenon
    <3> HIDE DEF r
    <3>3. \A k \in 1..(Len(r.buf) + Len(Copied(p))) : (r.buf \o Copied(p))[k] = sectors[r.first + k - 1]
      BY <2>2, <3>1, <3>2, BufferGrows, SMTT(30)
    <3> QED
      BY <2>2, <2>9, <3>3
  <2>11. ReadOK(p)'
    <3>1. request'[p].at # "return"
      BY <2>5, <2>6
    <3>2. Len(request'[p].buf) = request'[p].done
      BY <1>1, <2>3, <2>5, <2>6, <2>9
    <3>3. ASSUME request'[p].locked
          PROVE  \A k \in 1..request'[p].done : request'[p].buf[k] = sectors'[request'[p].first + k - 1]
      BY <1>1, <2>5, <2>6, <2>10, <3>3, ZenonT(60)
    <3> QED
      BY <3>1, <3>2, <3>3 DEF ReadOK
  <2> QED
    BY <1>1, <1>4, <2>5, <2>7, <2>8, <2>11, RequestFrame, Zenon
<1> QED
  BY <1>1, <1>3, <1>4

(* The parts of a write that leave the disk alone, and the ends of the loops. *)
LEMMA QuietStep ==
  ASSUME DataInv, NEW p \in Writer, inode_write_at(p) \/ WriteBounce(p) \/ LoopEnds(p)
  PROVE  DataInv'
<1> DEFINE r == request[p]
<1>1. /\ r \in Request /\ request \in [Writer -> Request]
      /\ sectors' = sectors /\ filesys_lock' = filesys_lock /\ pos' = pos /\ pos \in [Writer -> Nat]
      /\ Within(p) /\ WriteOK(p) /\ ReadOK(p)
  BY DEF inode_write_at, WriteBounce, LoopEnds, DataInv, DataType
<1>2. CASE inode_write_at(p) \/ LoopEnds(p)
  <2>1. PICK a \in {"return", "loop"} : /\ request' = [request EXCEPT ![p] = [r EXCEPT !.at = a]]
                                        /\ a = "return" /\ IsRead(p) => ~More(p)
    BY <1>2 DEF inode_write_at, LoopEnds, Update, IsRead, IsWrite
  <2> DEFINE n == [r EXCEPT !.at = a]
  <2>2. /\ n \in Request /\ request'[p] = n
        /\ n.op = r.op /\ n.locked = r.locked /\ n.at = a /\ n.first = r.first /\ n.size = r.size
        /\ n.done = r.done /\ n.buf = r.buf /\ n.bounce = r.bounce
    BY <1>1, <2>1, Zenon DEF Request
  <2> HIDE DEF n
  <2>3. Offset(p)' = Offset(p) /\ (IsWrite(p)' <=> IsWrite(p)) /\ (IsRead(p)' <=> IsRead(p)) /\ (More(p)' <=> More(p))
    BY <2>2 DEF Offset, IsWrite, IsRead, More, Chunk
  <2>4. (Within(p) /\ WriteOK(p) /\ ReadOK(p))'
    BY <1>1, <2>1, <2>2, <2>3 DEF Within, WriteOK, ReadOK
  <2> QED
    BY <1>1, <2>1, <2>2, <2>4, RequestFrame, Zenon DEF n
<1>3. CASE WriteBounce(p)
  <2>1. IsWrite(p) /\ More(p) /\ ~WholeSector(p) /\ r.at = "loop"
    BY <1>3 DEF WriteBounce
  <2>2. /\ Offset(p) \in Nat /\ Chunk(p) \in Int /\ Chunk(p) <= sector_left(Offset(p))
        /\ disk_read(p) \in [1..DISK_SECTOR_SIZE -> Byte]
    BY <2>1, ChunkOK
  <2>3. FillBounce(p) = disk_read(p)
    <3>1. sector_ofs(Offset(p)) \in 0..(DISK_SECTOR_SIZE - 1) /\ DISK_SECTOR_SIZE \in Nat
      BY <2>2, SectorOffset, FileDataAssumption
    <3>2. sector_ofs(Offset(p)) > 0 \/ Chunk(p) < sector_left(Offset(p))
      BY <2>1, <2>2, <3>1 DEF WholeSector, sector_left
    <3> QED
      BY <3>2 DEF FillBounce
  <2>4. PICK a \in {"store", "return"}, b \in [1..DISK_SECTOR_SIZE -> Byte] \cup {<<>>} :
          /\ request' = [request EXCEPT ![p] = [r EXCEPT !.at = a, !.bounce = b]]
          /\ a = "store" => b = disk_read(p)
    <3>1. CASE Update(p, [r EXCEPT !.at = "store", !.bounce = FillBounce(p)])
      BY <3>1, <2>2, <2>3, Zenon DEF Update
    <3>2. CASE Update(p, [r EXCEPT !.at = "return"])
      <4>1. [r EXCEPT !.at = "return"] = [r EXCEPT !.at = "return", !.bounce = r.bounce] /\ r.bounce \in [1..DISK_SECTOR_SIZE -> Byte] \cup {<<>>}
        BY <1>1, Zenon DEF Request
      <4> QED
        BY <3>2, <4>1, Zenon DEF Update
    <3> QED
      BY <1>3, <3>1, <3>2, Zenon DEF WriteBounce
  <2> DEFINE n == [r EXCEPT !.at = a, !.bounce = b]
  <2>5. /\ n \in Request /\ request'[p] = n
        /\ n.op = r.op /\ n.locked = r.locked /\ n.at = a /\ n.first = r.first /\ n.size = r.size
        /\ n.done = r.done /\ n.buf = r.buf /\ n.bounce = b
    BY <1>1, <2>4, Zenon DEF Request
  <2> HIDE DEF n
  <2>6. /\ Offset(p)' = Offset(p) /\ (IsWrite(p)' <=> IsWrite(p)) /\ (IsRead(p)' <=> IsRead(p)) /\ (More(p)' <=> More(p))
        /\ disk_read(p)' = disk_read(p)
    BY <1>1, <2>5 DEF Offset, IsWrite, IsRead, More, Chunk, disk_read, FirstByte
  <2>7. (Within(p) /\ WriteOK(p) /\ ReadOK(p))'
    BY <1>1, <2>1, <2>4, <2>5, <2>6 DEF Within, WriteOK, ReadOK, IsRead, IsWrite
  <2> QED
    BY <1>1, <2>4, <2>5, <2>7, RequestFrame, Zenon DEF n
<1> QED
  BY <1>2, <1>3

(* A sector goes to the disk: only the bytes of the chunk change. *)
LEMMA WriteChanges ==
  ASSUME DataInv, NEW p \in Writer, disk_write(p)
  PROVE  /\ IsWrite(p) /\ More(p)
         /\ \A i \in Offsets :
              sectors'[i] = IF i \in Offset(p)..(Offset(p) + Chunk(p) - 1) THEN p ELSE sectors[i]
<1>1. WriteOK(p) /\ IsWrite(p) /\ (request[p].at = "store" \/ (request[p].at = "loop" /\ More(p)))
  BY DEF DataInv, disk_write
<1>2. More(p)
  BY <1>1 DEF WriteOK
<1>3. /\ Offset(p) \in Nat /\ FirstByte(p) \in Int /\ DISK_SECTOR_SIZE \in Nat
  <2>1. Offset(p) \in Nat
    BY ChunkOK
  <2>2. sector_ofs(Offset(p)) \in 0..(DISK_SECTOR_SIZE - 1) /\ DISK_SECTOR_SIZE \in Nat
    BY <2>1, SectorOffset, FileDataAssumption
  <2> QED
    BY <2>1, <2>2 DEF FirstByte
<1>4. ASSUME NEW i \in Offsets, i \notin Offset(p)..(Offset(p) + Chunk(p) - 1)
      PROVE  sectors'[i] = sectors[i]
  <2>1. CASE request[p].at = "loop" \/ i \notin FirstByte(p)..(FirstByte(p) + DISK_SECTOR_SIZE - 1)
    BY <1>4, <2>1 DEF disk_write
  <2>2. CASE request[p].at # "loop" /\ i \in FirstByte(p)..(FirstByte(p) + DISK_SECTOR_SIZE - 1)
    <3>1. request[p].bounce = disk_read(p)
      BY <1>1, <2>2 DEF WriteOK
    <3>2. i \in Int /\ i - FirstByte(p) + 1 \in 1..DISK_SECTOR_SIZE /\ FirstByte(p) + (i - FirstByte(p) + 1) - 1 = i
      BY <1>3, <2>2
    <3>3. disk_read(p)[i - FirstByte(p) + 1] = sectors[i]
      BY <3>2 DEF disk_read
    <3> QED
      BY <1>4, <2>2, <3>1, <3>3 DEF disk_write
  <2> QED
    BY <2>1, <2>2
<1>5. ASSUME NEW i \in Offsets, i \in Offset(p)..(Offset(p) + Chunk(p) - 1) PROVE sectors'[i] = p
  BY <1>5 DEF disk_write
<1> QED
  BY <1>1, <1>2, <1>4, <1>5

LEMMA WriteStep ==
  ASSUME DataInv, NEW p \in Writer, disk_write(p)
  PROVE  DataInv'
<1> DEFINE r == request[p]
           n == [r EXCEPT !.at = "loop", !.done = @ + Chunk(p)]
<1>1. /\ r \in Request /\ request \in [Writer -> Request] /\ IsWrite(p) /\ More(p)
      /\ filesys_lock' = filesys_lock /\ pos' = pos /\ request' = [request EXCEPT ![p] = n]
      /\ Within(p) /\ WriteOK(p) /\ filesys_lock = p
  BY WriteChanges, Zenon DEF disk_write, Update, DataInv, DataType, WriteOK
<1>2. /\ r.done + Chunk(p) \in Nat /\ r.done + Chunk(p) <= r.size
      /\ Offset(p) + Chunk(p) <= FileLength /\ Chunk(p) \in Int
  BY <1>1, ChunkOK
<1>3. /\ n \in Request /\ request'[p] = n
      /\ n.op = r.op /\ n.locked = r.locked /\ n.at = "loop" /\ n.first = r.first /\ n.size = r.size
      /\ n.done = r.done + Chunk(p)
  BY <1>1, <1>2, Zenon DEF Request
<1>4. sectors' \in [Offsets -> Byte]
  <2>1. \A i \in Offsets : sectors'[i] \in Byte
    BY WriteChanges DEF DataInv, DataType, Byte
  <2>2. sectors' = [i \in Offsets |-> sectors'[i]]
    BY DEF disk_write
  <2> QED
    BY <2>1, <2>2
<1>5. DataType'
  BY <1>1, <1>3, <1>4 DEF DataInv, DataType
<1>6. Offset(p)' = Offset(p) + Chunk(p)
  <2>1. Offset(p) = r.first + r.done /\ Offset(p)' = r.first + (r.done + Chunk(p))
    BY <1>3, Zenon DEF Offset
  <2>2. r.first \in Nat /\ r.done \in Nat
    BY <1>1, Zenon DEF Request
  <2> QED
    BY <1>2, <2>1, <2>2
<1>7. (Within(p) /\ WriteOK(p) /\ ReadOK(p))'
  BY <1>1, <1>2, <1>3, <1>6, ZenonT(30) DEF Within, WriteOK, ReadOK, IsWrite, IsRead
<1>8. ASSUME NEW o \in Writer, o # p PROVE (Within(o) /\ WriteOK(o) /\ ReadOK(o))'
  <2>1. Within(o) /\ WriteOK(o) /\ ReadOK(o) /\ request'[o] = request[o]
    BY <1>1, <1>8 DEF DataInv
  <2>2. ~request[o].locked /\ ~IsWrite(o) /\ request[o].at # "store"
    BY <1>1, <1>8, <2>1, Zenon DEF WriteOK
  <2>3. /\ Offset(o)' = Offset(o) /\ (IsWrite(o)' <=> IsWrite(o)) /\ (IsRead(o)' <=> IsRead(o))
        /\ (More(o)' <=> More(o))
    BY <2>1, Zenon DEF Offset, IsWrite, IsRead, More, Chunk
  <2> QED
    BY <2>1, <2>2, <2>3 DEF Within, WriteOK, ReadOK
<1> QED
  BY <1>5, <1>7, <1>8 DEF DataInv

(* The request of p begins or ends; the lock is taken or given back. *)
LEMMA TurnFrame ==
  ASSUME DataInv, NEW p \in Writer, NEW r \in Request,
         request' = [request EXCEPT ![p] = r], sectors' = sectors,
         pos' \in [Writer -> Nat],
         filesys_lock' \in {filesys_lock, p, Nobody},
         filesys_lock' # filesys_lock => filesys_lock \in {Nobody, p},
         r.locked => filesys_lock' = p,
         r.op \in {"write", "write_at"} => r.locked,
         r.at \in {"user", "enter"}, r.done = 0, r.buf = <<>>
  PROVE  DataInv'
<1>1. DataType' /\ request'[p] = r
  BY Zenon DEF DataInv, DataType
<1>2. (Within(p) /\ WriteOK(p) /\ ReadOK(p))'
  BY <1>1 DEF Within, WriteOK, ReadOK, IsWrite, IsRead, Request
<1>3. ASSUME NEW o \in Writer, o # p PROVE (Within(o) /\ WriteOK(o) /\ ReadOK(o))'
  <2>1. Within(o) /\ WriteOK(o) /\ ReadOK(o) /\ request'[o] = request[o]
    BY <1>3 DEF DataInv, DataType
  <2>2. request[o].locked => filesys_lock' = o
    BY <1>3, <2>1, FileDataAssumption DEF WriteOK
  <2> QED
    BY <2>1, <2>2, ZenonT(60) DEF Within, WriteOK, ReadOK, IsWrite, IsRead, More, Chunk, Offset, disk_read, FirstByte
<1> QED
  BY <1>1, <1>2, <1>3 DEF DataInv

LEMMA StartStep ==
  ASSUME DataInv, NEW p \in Writer,
         NEW op \in {"read", "read_at", "write", "write_at"}, NEW first \in Nat, NEW size \in Nat,
         NEW locked \in BOOLEAN, op \in {"write", "write_at"} => locked,
         Start(p, op, first, size, locked)
  PROVE  DataInv'
<1> DEFINE r == [Blank EXCEPT !.op = op, !.locked = locked, !.at = "enter", !.first = first, !.size = size]
<1>1. Blank \in Request /\ Blank.done = 0 /\ Blank.buf = <<>>
  BY DEF Blank, Request
<1>2. r \in Request /\ r.op = op /\ r.locked = locked /\ r.at = "enter" /\ r.done = 0 /\ r.buf = <<>>
  BY <1>1, Zenon DEF Request
<1>3. /\ request' = [request EXCEPT ![p] = r] /\ sectors' = sectors /\ pos' = pos
      /\ locked => filesys_lock = Nobody
      /\ filesys_lock' = IF locked THEN p ELSE filesys_lock
  BY DEF Start, Update
<1> HIDE DEF r
<1> QED
  BY <1>2, <1>3, TurnFrame, Zenon DEF DataInv, DataType

LEMMA StartEnters ==
  ASSUME NEW p \in Writer, request \in [Writer -> Request], NEW op, NEW first, NEW size, NEW locked,
         Start(p, op, first, size, locked)
  PROVE  request'[p].at = "enter"
<1>1. Blank \in Request
  BY DEF Blank, Request
<1> QED
  BY <1>1 DEF Start, Update, Request

(* The data invariant does not look at the denials, and asks of the positions only their type. *)
LEMMA DataFrame ==
  ASSUME DataInv, pos' \in [Writer -> Nat], sectors' = sectors, filesys_lock' = filesys_lock, request' = request
  PROVE  DataInv'
<1>1. DataType'
  BY Zenon DEF DataInv, DataType
<1>2. ASSUME NEW p \in Writer PROVE (Within(p) /\ WriteOK(p) /\ ReadOK(p))'
  <2>1. Within(p) /\ WriteOK(p) /\ ReadOK(p)
    BY <1>2, Zenon DEF DataInv
  <2> QED
    BY <2>1, ZenonT(30) DEF Within, WriteOK, ReadOK, IsWrite, IsRead, More, Chunk, Offset, disk_read, FirstByte
<1> QED
  BY <1>1, <1>2, Zenon DEF DataInv

LEMMA DataNext == DataInv /\ [FileDataNext]_fdvars => DataInv'
<1> SUFFICES ASSUME DataInv, [FileDataNext]_fdvars PROVE DataInv'
  OBVIOUS
<1>1. CASE UNCHANGED fdvars
  <2>1. pos' \in [Writer -> Nat] /\ sectors' = sectors /\ filesys_lock' = filesys_lock /\ request' = request
    BY <1>1, Zenon DEF fdvars, DataInv, DataType
  <2> QED
    BY <2>1, DataFrame, Zenon
<1>2. ASSUME NEW p \in Writer, file_read(p) \/ file_read_at(p) \/ file_write(p) \/ file_write_at(p) PROVE DataInv'
  <2>1. pos[p] \in Nat /\ 1..MaxSize \subseteq Nat /\ 0..MaxPos \subseteq Nat
    BY FileDataAssumption DEF DataInv, DataType
  <2>2. CASE file_read(p) \/ file_read_at(p)
    BY <2>1, <2>2, StartStep DEF file_read, file_read_at
  <2>3. CASE file_write(p) \/ file_write_at(p)
    BY <2>1, <2>3, StartStep, Zenon DEF file_write, file_write_at
  <2> QED
    BY <1>2, <2>2, <2>3
<1>3. ASSUME NEW p \in Writer, Return(p) PROVE DataInv'
  <2>1. Blank \in Request /\ ~Blank.locked /\ Blank.op = "none" /\ Blank.at = "user" /\ Blank.done = 0 /\ Blank.buf = <<>>
    BY DEF Blank, Request
  <2>2. request[p] \in Request /\ WriteOK(p)
    BY Zenon DEF DataInv, DataType
  <2>3. pos' \in [Writer -> Nat]
    BY <1>3, <2>2, SMTT(30) DEF Return, DataInv, DataType, Request
  <2>4. /\ request' = [request EXCEPT ![p] = Blank] /\ sectors' = sectors
        /\ filesys_lock' = IF request[p].locked THEN Nobody ELSE filesys_lock
    BY <1>3 DEF Return, Update
  <2> QED
    BY <2>1, <2>2, <2>3, <2>4, TurnFrame, Zenon DEF WriteOK
<1>4. ASSUME NEW p \in Writer, file_seek(p) \/ file_deny_write(p) \/ file_allow_write(p) PROVE DataInv'
  <2>1. pos' \in [Writer -> Nat]
    BY <1>4, FileDataAssumption DEF file_seek, file_deny_write, file_allow_write, DataInv, DataType
  <2>2. sectors' = sectors /\ filesys_lock' = filesys_lock /\ request' = request
    BY <1>4, Zenon DEF file_seek, file_deny_write, file_allow_write
  <2> QED
    BY <2>1, <2>2, DataFrame, Zenon
<1> QED
  BY <1>1, <1>2, <1>3, <1>4, QuietStep, ReadStep, WriteStep DEF FileDataNext

(***************************************************************************)
(* A read under filesys_lock returns the bytes the file holds, whatever    *)
(* the other processes write before it and after it: inode_read_at and     *)
(* inode_write_at under the lock of syscall.c.                             *)
(***************************************************************************)
THEOREM ReadsReturnTheFile == FileDataSpec => []ReadsRight
<1>1. DataInv => ReadsRight
  <2> SUFFICES ASSUME DataInv, NEW p \in Writer, IsRead(p), request[p].at = "return", request[p].locked
               PROVE  LET r == request[p]
                          full == Min2(r.size, IF FileLength > r.first THEN FileLength - r.first ELSE 0)
                      IN  /\ Len(r.buf) = r.done /\ r.done <= full
                          /\ \A k \in 1..r.done : r.buf[k] = sectors[r.first + k - 1]
                          /\ r.bounce # <<>> => r.done = full
    BY DEF ReadsRight
  <2>1. Within(p) /\ ReadOK(p) /\ request[p] \in Request /\ FileLength \in Nat
    BY FileDataAssumption DEF DataInv, DataType
  <2> QED
    <3> DEFINE r == request[p]
               left == sector_left(Offset(p))
               full == Min2(r.size, IF FileLength > r.first THEN FileLength - r.first ELSE 0)
    <3>1. /\ r.size \in Nat /\ r.done \in Nat /\ r.first \in Nat /\ r.done <= r.size
          /\ Offset(p) = r.first + r.done
          /\ r.done > 0 => r.first + r.done <= FileLength
      BY <2>1 DEF Within, Request, Offset
    <3>2. left \in Int /\ left > 0
      <4>1. Offset(p) \in Nat
        BY ChunkOK
      <4>2. sector_left(Offset(p)) \in 1..DISK_SECTOR_SIZE
        BY <4>1, SectorOffset
      <4> QED
        BY <4>2, FileDataAssumption
    <3>3. Chunk(p) = Min2(r.size - r.done, Min2(FileLength - Offset(p), left))
      BY DEF Chunk, chunk_size
    <3>4. /\ Len(r.buf) = r.done /\ \A k \in 1..r.done : r.buf[k] = sectors[r.first + k - 1]
          /\ r.bounce # <<>> => ~(r.size > r.done /\ Chunk(p) > 0)
      BY <2>1 DEF ReadOK, More
    <3> HIDE DEF left
    <3>5. r.done <= full /\ (r.bounce # <<>> => r.done = full)
      <4>1. Chunk(p) = Min2(r.size - r.done, Min2(FileLength - (r.first + r.done), left))
        BY <3>1, <3>3
      <4>2. /\ r.done <= full
            /\ ~(r.size > r.done /\ Min2(r.size - r.done, Min2(FileLength - (r.first + r.done), left)) > 0) => r.done = full
        <5> DEFINE size == r.size
                   done == r.done
                   first == r.first
        <5>1. /\ size \in Nat /\ done \in Nat /\ first \in Nat /\ done <= size
              /\ done > 0 => first + done <= FileLength
          BY <3>1
        <5> HIDE DEF size, done, first
        <5>2. LET most == Min2(size, IF FileLength > first THEN FileLength - first ELSE 0)
              IN  /\ done <= most
                  /\ ~(size > done /\ Min2(size - done, Min2(FileLength - (first + done), left)) > 0) => done = most
          BY <2>1, <3>2, <5>1 DEF Min2
        <5> QED
          BY <5>2 DEF size, done, first
      <4> QED
        BY <3>4, <4>1, <4>2
    <3> QED
      BY <3>4, <3>5
<1> QED
  BY <1>1, DataInit, DataNext, PTL DEF FileDataSpec

(***************************************************************************)
(* A write changes only bytes it was asked to write, inside the file, and  *)
(* a sector that goes through the bounce buffer keeps its other bytes:     *)
(* inode_write_at.                                                         *)
(***************************************************************************)
THEOREM WritesStayInside == FileDataSpec => WritesOnlyTheirBytes
<1> DEFINE Stays == \A i \in Offsets : sectors'[i] # sectors[i] =>
                      \E p \in Writer : /\ IsWrite(p) /\ i < FileLength
                                        /\ i \in request[p].first..(request[p].first + request[p].size - 1)
                                        /\ sectors'[i] = p
<1>1. DataInv /\ [FileDataNext]_fdvars => [Stays]_fdvars
  <2> SUFFICES ASSUME DataInv, FileDataNext, NEW i \in Offsets, sectors'[i] # sectors[i]
               PROVE  \E p \in Writer : /\ IsWrite(p) /\ i < FileLength
                                        /\ i \in request[p].first..(request[p].first + request[p].size - 1)
                                        /\ sectors'[i] = p
    OBVIOUS
  <2>1. PICK p \in Writer : disk_write(p)
    BY Zenon DEF FileDataNext, file_read, file_read_at, file_write, file_write_at, Start, inode_write_at, WriteBounce,
           inode_read_at, LoopEnds, Return, file_seek, file_deny_write, file_allow_write
  <2>2. IsWrite(p)
    BY <2>1 DEF disk_write
  <2> QED
    <3>1. More(p) /\ i \in Offset(p)..(Offset(p) + Chunk(p) - 1) /\ sectors'[i] = p
      BY <2>1, WriteChanges
    <3>2. /\ Offset(p) \in Nat /\ Chunk(p) \in Int /\ Offset(p) + Chunk(p) <= FileLength
          /\ request[p].done + Chunk(p) <= request[p].size
          /\ request[p].first \in Nat /\ request[p].done \in Nat /\ request[p].size \in Nat
          /\ Offset(p) = request[p].first + request[p].done
      BY <3>1, ChunkOK DEF Request, Offset
    <3>3. i < FileLength /\ i \in request[p].first..(request[p].first + request[p].size - 1)
      BY <3>1, <3>2, FileDataAssumption
    <3> QED
      BY <2>2, <3>1, <3>3
<1> QED
  BY <1>1, DataInit, DataNext, PTL DEF FileDataSpec, WritesOnlyTheirBytes
-----------------------------------------------------------------------------
(* deny_write_cnt of the inode counts the struct files that deny writing. *)
Denying == {p \in Writer : deny_write[p]}

CountInv == deny_write \in [Writer -> BOOLEAN] /\ deny_write_cnt = Cardinality(Denying)

LEMMA DenyingFinite == IsFiniteSet(Denying)
  BY FileDataAssumption, FS_Subset DEF Denying

LEMMA CountInit == FileDataInit => CountInv
  BY FS_EmptySet, Zenon DEF FileDataInit, CountInv, Denying

LEMMA CountNext == CountInv /\ [FileDataNext]_fdvars => CountInv'
<1> SUFFICES ASSUME CountInv, [FileDataNext]_fdvars PROVE CountInv'
  OBVIOUS
<1>1. CASE UNCHANGED <<deny_write, deny_write_cnt>>
  BY <1>1 DEF CountInv, Denying
<1>2. ASSUME NEW p \in Writer, file_deny_write(p) PROVE CountInv'
  <2>1. Denying' = Denying \cup {p} /\ p \notin Denying
    BY <1>2 DEF file_deny_write, CountInv, Denying
  <2>2. Cardinality(Denying') = Cardinality(Denying) + 1
    BY <2>1, DenyingFinite, FS_AddElement, Zenon
  <2> QED
    BY <1>2, <2>2 DEF file_deny_write, CountInv
<1>3. ASSUME NEW p \in Writer, file_allow_write(p) PROVE CountInv'
  <2>1. Denying' = Denying \ {p} /\ p \in Denying
    BY <1>3 DEF file_allow_write, CountInv, Denying
  <2>2. Cardinality(Denying') = Cardinality(Denying) - 1
    BY <2>1, DenyingFinite, FS_RemoveElement
  <2> QED
    BY <1>3, <2>2 DEF file_allow_write, CountInv
<1> QED
  BY <1>1, <1>2, <1>3, Zenon DEF FileDataNext, fdvars, file_read, file_read_at, file_write, file_write_at, Start,
     inode_write_at, WriteBounce, disk_write, inode_read_at, LoopEnds, Return, file_seek

(***************************************************************************)
(* Once a struct file denies writing and no write is past inode_write_at's *)
(* test, the bytes of the file stay and no write gets past the test.       *)
(***************************************************************************)
THEOREM DenialHolds == FileDataSpec => DeniedFileKept
<1> DEFINE Past(p) == IsWrite(p) /\ request[p].at \in {"loop", "store"}
           Kept == /\ \E p \in Writer : deny_write[p]
                   /\ ~\E p \in Writer : IsWrite(p) /\ request[p].at \in {"loop", "store"}
                   => (sectors' = sectors /\ ~\E p \in Writer : IsWrite(p)' /\ request'[p].at \in {"loop", "store"})
<1>1. DataInv /\ CountInv /\ [FileDataNext]_fdvars => [Kept]_fdvars
  <2> SUFFICES ASSUME DataInv, CountInv, FileDataNext, \E p \in Writer : deny_write[p],
                      \A p \in Writer : ~Past(p)
               PROVE  sectors' = sectors /\ \A o \in Writer : ~(IsWrite(o)' /\ request'[o].at \in {"loop", "store"})
    OBVIOUS
  <2>1. deny_write_cnt > 0
    <3>1. Denying # {}
      BY Zenon DEF Denying
    <3> QED
      BY <3>1, DenyingFinite, FS_EmptySet, FS_CardinalityType DEF CountInv
  <2>2. PICK p \in Writer :
          \/ file_read(p) \/ file_read_at(p) \/ file_write(p) \/ file_write_at(p)
          \/ inode_write_at(p) \/ WriteBounce(p) \/ disk_write(p) \/ inode_read_at(p)
          \/ LoopEnds(p) \/ Return(p) \/ file_seek(p) \/ file_deny_write(p) \/ file_allow_write(p)
    BY DEF FileDataNext
  <2>3. ~WriteBounce(p) /\ ~disk_write(p)
    BY DEF WriteBounce, disk_write
  <2>4. sectors' = sectors
    BY <2>2, <2>3, Zenon DEF file_read, file_read_at, file_write, file_write_at, Start, inode_write_at,
           inode_read_at, LoopEnds, Return, file_seek, file_deny_write, file_allow_write
  <2>5. ASSUME NEW o \in Writer, o # p PROVE request'[o] = request[o]
    BY <2>2, <2>3, <2>5, Zenon DEF file_read, file_read_at, file_write, file_write_at, Start, inode_write_at, Update,
           inode_read_at, LoopEnds, Return, file_seek, file_deny_write, file_allow_write, DataInv, DataType
  <2>6. request \in [Writer -> Request]
    BY Zenon DEF DataInv, DataType
  <2>7. ~(IsWrite(p)' /\ request'[p].at \in {"loop", "store"})
    <3>1. CASE file_read(p) \/ file_read_at(p) \/ file_write(p) \/ file_write_at(p)
      <4>1. CASE file_read(p) \/ file_write(p)
        BY <4>1, <2>6, StartEnters, Zenon DEF file_read, file_write
      <4>2. CASE file_read_at(p) \/ file_write_at(p)
        BY <4>2, <2>6, StartEnters, Zenon DEF file_read_at, file_write_at
      <4> QED
        BY <3>1, <4>1, <4>2
    <3>2. CASE inode_write_at(p) \/ LoopEnds(p)
      BY <3>2, <2>1, <2>6 DEF inode_write_at, LoopEnds, Update, Request
    <3>3. CASE inode_read_at(p)
      <4> DEFINE go == [request[p] EXCEPT !.at = "loop", !.done = @ + Chunk(p), !.buf = @ \o Copied(p),
                          !.bounce = IF WholeSector(p) THEN @ ELSE disk_read(p)]
                 stop == [request[p] EXCEPT !.at = "return"]
      <4>1. go.op = request[p].op /\ stop.op = request[p].op
        BY <2>6 DEF Request
      <4>2. IsRead(p) /\ (request' = [request EXCEPT ![p] = go] \/ request' = [request EXCEPT ![p] = stop])
        BY <3>3 DEF inode_read_at, Update
      <4> HIDE DEF go, stop
      <4>3. request'[p].op = request[p].op
        BY <4>1, <4>2, <2>6
      <4> QED
        BY <4>2, <4>3 DEF IsRead, IsWrite
    <3>4. CASE Return(p)
      BY <3>4, <2>6 DEF Return, Update, Blank
    <3>5. CASE file_seek(p) \/ file_deny_write(p) \/ file_allow_write(p)
      BY <3>5, Zenon DEF file_seek, file_deny_write, file_allow_write, IsWrite
    <3> QED
      BY <2>2, <2>3, <3>1, <3>2, <3>3, <3>4, <3>5, Zenon
  <2> QED
    BY <2>4, <2>5, <2>7 DEF IsWrite
<1> QED
  BY <1>1, DataInit, DataNext, CountInit, CountNext, PTL DEF FileDataSpec, DeniedFileKept
=============================================================================

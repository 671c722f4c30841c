-------------------------- MODULE HandshakeProofs --------------------------
(***************************************************************************)
(* Proofs for the two handshakes over semaphores: of parent and child in   *)
(* Process, for any number of processes, and of the disk driver and its    *)
(* interrupt in Disk, for any number of threads and any sectors.           *)
(*                                                                         *)
(* Process: the inductive invariant is ProtocolInv.  Its heart is the      *)
(* notion of a struct thread being held: it is on a children_list, or a    *)
(* process_wait has unlinked it and has yet to release it.  A held struct  *)
(* is held by one process only, and its owner cannot leave process_exit.   *)
(*                                                                         *)
(* Disk: while a thread is between the lock and the release of the channel *)
(* it is the channel's owner, and the controller is in the state that its  *)
(* place in disk_read or disk_write calls for; the interrupt and the       *)
(* semaphore hold at most one signal between them.                         *)
(***************************************************************************)
EXTENDS Process, Disk, TLAPS

Owning == {"select", "issue", "wait", "poll", "release"}
CtlType == [dev : Dev, lba : Sector \cup {0}, state : {"idle", "busy", "drq"},
            cmd : {"none", "read", "write", "store", "identify"}, data : Data \cup {Blank}, irq : BOOLEAN]

DiskType ==
  /\ chan \in [lock : User \cup {NoUser}, expecting_interrupt : BOOLEAN, completion_wait : 0..1]
  /\ is_ata \in [Dev -> BOOLEAN] /\ capacity \in [Dev -> {0, 1}]
  /\ at \in [User -> {"out", "acquire"} \cup Owning]
  /\ job \in [User -> Job \cup {NoJob}] /\ \A t \in User : at[t] # "out" => job[t] \in Job
  /\ buffer \in [User -> Data \cup {Blank}]
  /\ ctl \in CtlType
  /\ media \in [Dev -> [Sector -> Data \cup {Blank}]]

(* No command is under way and no completion is left over. *)
Quiet == ctl.state = "idle" /\ ~ctl.irq /\ chan.completion_wait = 0

(* The one completion of a command: to come, signalled by the controller, or noted by the driver. *)
OneSignal ==
  \/ ctl.state = "busy" /\ ~ctl.irq /\ chan.completion_wait = 0
  \/ ctl.state # "busy" /\ ctl.irq /\ chan.completion_wait = 0
  \/ ctl.state # "busy" /\ ~ctl.irq /\ chan.completion_wait = 1

OnSector(t) == ctl.dev = job[t].dev /\ ctl.lba = job[t].sec
Stored(t) == media[job[t].dev][job[t].sec]

(* Where the command of the thread that owns the channel is. *)
CommandOK(t) ==
  /\ at[t] \in {"select", "issue", "release"} => Quiet
  /\ at[t] = "issue" => OnSector(t)
  /\ at[t] \in {"wait", "poll"} => OnSector(t) /\ chan.expecting_interrupt
  /\ at[t] = "wait" /\ job[t].op = "read" =>
       ctl.cmd = "read" /\ OneSignal /\ (ctl.state = "drq" => ctl.data = Stored(t))
  /\ at[t] = "poll" /\ job[t].op = "read" =>
       ctl.cmd = "read" /\ ~ctl.irq /\ chan.completion_wait = 0 /\ ctl.state # "busy" /\ (ctl.state = "drq" => ctl.data = Stored(t))
  /\ at[t] = "poll" /\ job[t].op = "write" =>
       ctl.cmd = "write" /\ \/ ctl.state # "idle" /\ ~ctl.irq /\ chan.completion_wait = 0
                            \/ ctl.state = "idle" /\ ctl.dev \in Broken /\ OneSignal
  /\ at[t] = "wait" /\ job[t].op = "write" =>
       /\ ctl.cmd = "store" /\ ctl.data = job[t].data /\ OneSignal /\ ctl.state # "drq"
       /\ ctl.state = "idle" => Stored(t) = job[t].data
  /\ at[t] = "release" => Stored(t) = IF job[t].op = "read" THEN buffer[t] ELSE job[t].data

HoldOK == \A t \in User : at[t] \in Owning <=> chan.lock = t

BootOK ==
  /\ boot # "ready" => chan.lock = NoUser /\ \A t \in User : at[t] = "out"
  /\ boot \in {"reset", "check0", "check1"} => ctl.state = "idle" /\ chan.completion_wait = 0 /\ ~chan.expecting_interrupt
  /\ boot \in {"identify0", "identify1"} => Quiet
  /\ boot \in {"wait0", "wait1"} => ctl.cmd = "identify" /\ chan.expecting_interrupt /\ OneSignal
  /\ boot = "ready" /\ chan.lock = NoUser => Quiet
  /\ boot \in {"identify1", "wait1", "ready"} => (is_ata[0] => capacity[0] > 0)
  /\ boot = "ready" => (is_ata[1] => capacity[1] > 0)
  /\ boot \in {"reset", "check0", "check1", "identify0", "identify1", "wait0", "wait1", "ready"}

SignatureType == signature \in [Dev -> [error : {0, 1, 129}, ready : BOOLEAN, ata : BOOLEAN]]

DiskInv == DiskType /\ HoldOK /\ BootOK /\ \A t \in User : CommandOK(t)

LEMMA JobFields ==
  ASSUME NEW j \in Job PROVE j.op \in {"read", "write"} /\ j.dev \in Dev /\ j.sec \in Sector /\ j.data \in Data \cup {Blank}
  BY DEF Job

(* A thread that does not own the channel has no command. *)
LEMMA NoCommand ==
  ASSUME NEW t \in User, at[t] \in {"out", "acquire"} PROVE CommandOK(t)
  BY DEF CommandOK

LEMMA DiskInitial == DiskInit => DiskInv
<1> SUFFICES ASSUME DiskInit PROVE DiskInv
  OBVIOUS
<1>1. DiskType
  BY DEF DiskInit, DiskType, CtlType, Dev
<1>2. HoldOK
  BY NoUserAssumption, Zenon DEF DiskInit, HoldOK, Owning
<1>3. BootOK
  BY DEF DiskInit, BootOK
<1>4. \A t \in User : CommandOK(t)
  BY NoCommand, Zenon DEF DiskInit
<1> QED
  BY <1>1, <1>2, <1>3, <1>4 DEF DiskInv

(* A step of the thread that owns the channel. *)
LEMMA OwnerFrame ==
  ASSUME DiskInv, NEW t \in User, chan.lock = t,
         DiskType', CommandOK(t)', boot' = boot, is_ata' = is_ata, capacity' = capacity,
         \A u \in User \ {t} : at'[u] = at[u],
         \/ chan'.lock = t /\ at'[t] \in Owning
         \/ chan'.lock = NoUser /\ at'[t] = "out" /\ Quiet'
  PROVE  DiskInv'
<1>1. boot = "ready" /\ t # NoUser
  BY NoUserAssumption DEF DiskInv, BootOK
<1>2. ASSUME NEW u \in User, u # t PROVE at'[u] \in {"out", "acquire"}
  <2>1. at[u] \notin Owning
    BY <1>2 DEF DiskInv, HoldOK
  <2> QED
    BY <2>1, <1>2 DEF DiskInv, DiskType
<1>3. HoldOK'
  BY <1>1, <1>2, NoUserAssumption DEF HoldOK, Owning
<1>4. BootOK'
  BY <1>1 DEF BootOK, DiskInv
<1>5. ASSUME NEW u \in User PROVE CommandOK(u)'
  BY <1>2, <1>5 DEF CommandOK
<1> QED
  BY <1>3, <1>4, <1>5 DEF DiskInv

LEMMA OwnerStep ==
  ASSUME DiskInv, NEW t \in User, DiskStep(t)
  PROVE  DiskInv'
<1>1. /\ DiskType /\ CommandOK(t) /\ job[t] \in Job /\ at[t] \in Owning
      /\ chan.lock = t
  BY DEF DiskInv, DiskType, HoldOK, Owning, DiskStep, select_sector, issue, AwaitInterrupt, Transfer, lock_release
<1>2. job[t].op \in {"read", "write"} /\ job[t].dev \in Dev /\ job[t].sec \in Sector /\ job[t].data \in Data \cup {Blank}
  BY <1>1, JobFields
<1>3. /\ ctl \in CtlType /\ at \in [User -> {"out", "acquire"} \cup Owning]
      /\ chan \in [lock : User \cup {NoUser}, expecting_interrupt : BOOLEAN, completion_wait : 0..1]
  BY <1>1 DEF DiskType
<1>4. CASE select_sector(t)
  <2> DEFINE c == [[ctl EXCEPT !.dev = job[t].dev, !.irq = FALSE] EXCEPT !.lba = job[t].sec]
  <2>1. c \in CtlType /\ c.dev = job[t].dev /\ c.lba = job[t].sec /\ c.irq = FALSE /\ c.state = ctl.state
    BY <1>2, <1>3, Zenon DEF CtlType
  <2>2. /\ ctl' = c /\ chan' = chan /\ job' = job /\ at' = [at EXCEPT ![t] = "issue"] /\ at[t] = "select"
        /\ is_ata' = is_ata /\ capacity' = capacity /\ buffer' = buffer /\ media' = media /\ boot' = boot
    BY <1>4 DEF select_sector, select_device, SetAt
  <2> HIDE DEF c
  <2>3. DiskType'
    BY <1>1, <2>1, <2>2 DEF DiskType, Owning
  <2>4. at'[t] = "issue" /\ \A u \in User \ {t} : at'[u] = at[u]
    BY <1>3, <2>2
  <2>5. CommandOK(t)'
    BY <1>1, <2>1, <2>2, <2>4 DEF CommandOK, Quiet, OnSector
  <2> QED
    BY <1>1, <2>2, <2>3, <2>4, <2>5, OwnerFrame DEF Owning
<1>5. CASE issue(t)
  <2> DEFINE c == [ctl EXCEPT !.cmd = job[t].op, !.state = "busy"]
             h == [chan EXCEPT !.expecting_interrupt = TRUE]
             n == IF job[t].op = "read" THEN "wait" ELSE "poll"
  <2>1. /\ c \in CtlType /\ c.dev = ctl.dev /\ c.lba = ctl.lba /\ c.irq = ctl.irq /\ c.state = "busy" /\ c.cmd = job[t].op
        /\ h.lock = chan.lock /\ h.expecting_interrupt = TRUE /\ h.completion_wait = chan.completion_wait
        /\ h \in [lock : User \cup {NoUser}, expecting_interrupt : BOOLEAN, completion_wait : 0..1]
    BY <1>2, <1>3, Zenon DEF CtlType
  <2>2. /\ ctl' = c /\ chan' = h /\ job' = job /\ at' = [at EXCEPT ![t] = n] /\ at[t] = "issue"
        /\ is_ata' = is_ata /\ capacity' = capacity /\ buffer' = buffer /\ media' = media /\ boot' = boot
    BY <1>5 DEF issue, issue_pio_command, SetAt
  <2> HIDE DEF c, h
  <2>3. DiskType'
    BY <1>1, <2>1, <2>2 DEF DiskType, Owning
  <2>4. at'[t] = n /\ \A u \in User \ {t} : at'[u] = at[u]
    BY <1>3, <2>2
  <2>5. CommandOK(t)'
    BY <1>1, <1>2, <2>1, <2>2, <2>4 DEF CommandOK, Quiet, OnSector, OneSignal
  <2> QED
    BY <1>1, <2>1, <2>2, <2>3, <2>4, <2>5, OwnerFrame DEF Owning
<1>6. CASE AwaitInterrupt(t)
  <2> DEFINE h == [chan EXCEPT !.completion_wait = @ - 1]
             n == IF job[t].op = "read" THEN "poll" ELSE "release"
  <2>0. chan.completion_wait = 1
    BY <1>3, <1>6 DEF AwaitInterrupt, sema_down
  <2>1. /\ h.lock = chan.lock /\ h.expecting_interrupt = chan.expecting_interrupt /\ h.completion_wait = 0
        /\ h \in [lock : User \cup {NoUser}, expecting_interrupt : BOOLEAN, completion_wait : 0..1]
    BY <1>3, <2>0
  <2>2. /\ ctl' = ctl /\ chan' = h /\ job' = job /\ at' = [at EXCEPT ![t] = n] /\ at[t] = "wait"
        /\ is_ata' = is_ata /\ capacity' = capacity /\ buffer' = buffer /\ media' = media /\ boot' = boot
    BY <1>6 DEF AwaitInterrupt, SetAt
  <2> HIDE DEF h
  <2>3. DiskType'
    BY <1>1, <2>1, <2>2 DEF DiskType, Owning
  <2>4. at'[t] = n /\ \A u \in User \ {t} : at'[u] = at[u]
    BY <1>3, <2>2
  <2>6. OneSignal /\ OnSector(t) /\ ctl.state # "busy" /\ ctl.irq = FALSE /\ ctl.state \in {"idle", "drq"}
    BY <1>1, <1>2, <1>3, <2>0, <2>2 DEF CommandOK, OneSignal, CtlType
  <2>5. CommandOK(t)'
    <3>1. CASE job[t].op = "read"
      BY <1>1, <2>1, <2>2, <2>4, <2>6, <3>1 DEF CommandOK, OnSector, Stored
    <3>2. CASE job[t].op = "write"
      BY <1>1, <2>1, <2>2, <2>4, <2>6, <3>2 DEF CommandOK, Quiet, Stored
    <3> QED
      BY <1>2, <3>1, <3>2
  <2> QED
    BY <1>1, <2>1, <2>2, <2>3, <2>4, <2>5, OwnerFrame DEF Owning
<1>8. CASE lock_release(t)
  <2> DEFINE h == [chan EXCEPT !.lock = NoUser]
  <2>1. /\ h.lock = NoUser /\ h.completion_wait = chan.completion_wait
        /\ h \in [lock : User \cup {NoUser}, expecting_interrupt : BOOLEAN, completion_wait : 0..1]
    BY <1>3
  <2>2. /\ ctl' = ctl /\ chan' = h /\ at' = [at EXCEPT ![t] = "out"] /\ at[t] = "release"
        /\ job' = [job EXCEPT ![t] = NoJob] /\ buffer' = [buffer EXCEPT ![t] = Blank]
        /\ is_ata' = is_ata /\ capacity' = capacity /\ media' = media /\ boot' = boot
    BY <1>8 DEF lock_release, SetAt
  <2> HIDE DEF h
  <2>4. at'[t] = "out" /\ \A u \in User \ {t} : at'[u] = at[u] /\ job'[u] = job[u]
    BY <1>1, <1>3, <2>2 DEF DiskType
  <2>3. DiskType'
    BY <1>1, <2>1, <2>2, <2>4 DEF DiskType, Owning
  <2>5. CommandOK(t)' /\ Quiet'
    BY <1>1, <2>1, <2>2, <2>4 DEF CommandOK, Quiet
  <2> QED
    BY <1>1, <2>1, <2>2, <2>3, <2>4, <2>5, OwnerFrame
<1>7. CASE Transfer(t)
  <2>0. /\ chan' = chan /\ job' = job /\ at[t] = "poll" /\ ctl.state # "busy"
        /\ is_ata' = is_ata /\ capacity' = capacity /\ media' = media /\ boot' = boot
    BY <1>7, SMTT(30) DEF Transfer, NotBusy
  <2>1. CASE UNCHANGED <<at, buffer, ctl>>
    BY <1>1, <2>0, <2>1, OwnerFrame, SMTT(30) DEF DiskType, CommandOK, OnSector, OneSignal, Quiet, Stored
  <2>2. CASE /\ ctl.state = "drq" /\ job[t].op = "read" /\ buffer' = [buffer EXCEPT ![t] = ctl.data]
             /\ ctl' = [ctl EXCEPT !.state = "idle"] /\ at' = [at EXCEPT ![t] = "release"]
    <3>1. /\ ctl' \in CtlType /\ ctl'.state = "idle" /\ ctl'.irq = ctl.irq /\ ctl.data \in Data \cup {Blank}
      BY <1>3, <2>2 DEF CtlType
    <3>2. at'[t] = "release" /\ buffer'[t] = ctl.data /\ \A u \in User \ {t} : at'[u] = at[u]
      BY <1>1, <1>3, <2>2 DEF DiskType
    <3>3. DiskType'
      BY <1>1, <2>0, <2>2, <3>1 DEF DiskType, Owning
    <3>4. CommandOK(t)'
      BY <1>1, <2>0, <2>2, <3>1, <3>2, SMTT(30) DEF CommandOK, Quiet, Stored
    <3> QED
      BY <1>1, <2>0, <3>2, <3>3, <3>4, OwnerFrame DEF Owning
  <2>3. CASE /\ ctl.state = "drq" /\ job[t].op = "write" /\ buffer' = buffer /\ at' = [at EXCEPT ![t] = "wait"]
             /\ ctl' = [ctl EXCEPT !.data = job[t].data, !.cmd = "store", !.state = "busy"]
    <3>1. /\ ctl' \in CtlType /\ ctl'.state = "busy" /\ ctl'.irq = ctl.irq /\ ctl'.data = job[t].data
          /\ ctl'.cmd = "store" /\ ctl'.dev = ctl.dev /\ ctl'.lba = ctl.lba
      BY <1>2, <1>3, <2>3, Zenon DEF CtlType
    <3>2. at'[t] = "wait" /\ \A u \in User \ {t} : at'[u] = at[u]
      BY <1>1, <1>3, <2>3 DEF DiskType
    <3>3. DiskType'
      BY <1>1, <2>0, <2>3, <3>1 DEF DiskType, Owning
    <3>4. CommandOK(t)'
      BY <1>1, <2>0, <2>3, <3>1, <3>2 DEF CommandOK, OnSector, OneSignal
    <3> QED
      BY <1>1, <2>0, <3>2, <3>3, <3>4, OwnerFrame DEF Owning
  <2> QED
    BY <1>7, <2>1, <2>2, <2>3 DEF Transfer, DataReady, SetAt
<1> QED
  BY <1>4, <1>5, <1>6, <1>7, <1>8 DEF DiskStep

(***************************************************************************)
(* A step of the controller or of the interrupt handler: it moves the      *)
(* completion of the one command there is.                                 *)
(***************************************************************************)
LEMMA CompleteStep == ASSUME DiskInv, Complete PROVE DiskInv'
<1>1. /\ DiskType /\ HoldOK /\ BootOK /\ ctl \in CtlType /\ ctl.state = "busy"
      /\ UNCHANGED <<chan, is_ata, capacity, at, job, buffer, boot>>
  BY DEF DiskInv, DiskType, Complete
<1>2. CASE chan.lock = NoUser
  <2>1. /\ boot \in {"wait0", "wait1"} /\ ctl.cmd = "identify" /\ ~ctl.irq /\ chan.completion_wait = 0
        /\ chan.expecting_interrupt /\ \A t \in User : at[t] \in {"out", "acquire"}
    BY <1>1, <1>2, NoUserAssumption DEF BootOK, Quiet, OneSignal, HoldOK, DiskType
  <2>2. media' = media /\ (ctl' = [ctl EXCEPT !.state = "drq", !.irq = TRUE] \/ ctl' = [ctl EXCEPT !.state = "idle", !.irq = TRUE])
    BY <2>1 DEF Complete
  <2>3. ctl' \in CtlType /\ ctl'.state # "busy" /\ ctl'.irq /\ ctl'.cmd = "identify"
    <3>1. CASE ctl' = [ctl EXCEPT !.state = "drq", !.irq = TRUE]
      BY <1>1, <2>1, <3>1, Zenon DEF CtlType
    <3>2. CASE ctl' = [ctl EXCEPT !.state = "idle", !.irq = TRUE]
      BY <1>1, <2>1, <3>2, Zenon DEF CtlType
    <3> QED
      BY <2>2, <3>1, <3>2
  <2>4. DiskType'
    BY <1>1, <2>2, <2>3 DEF DiskType
  <2>5. HoldOK' /\ BootOK'
    BY <1>1, <2>1, <2>3 DEF HoldOK, BootOK, OneSignal
  <2>6. ASSUME NEW t \in User PROVE CommandOK(t)'
    BY <1>1, <2>1, <2>6 DEF CommandOK
  <2> QED
    BY <2>4, <2>5, <2>6 DEF DiskInv
<1>3. ASSUME NEW t \in User, chan.lock = t PROVE DiskInv'
  <2>1. at[t] \in Owning /\ CommandOK(t) /\ job[t] \in Job
    BY <1>1, <1>3 DEF DiskInv, HoldOK, DiskType, Owning
  <2>2. job[t].op \in {"read", "write"} /\ job[t].dev \in Dev /\ job[t].sec \in Sector /\ job[t].data \in Data \cup {Blank}
    BY <2>1, JobFields
  <2>3. /\ at[t] \in {"wait", "poll"} /\ OnSector(t) /\ ~ctl.irq /\ chan.completion_wait = 0 /\ chan.expecting_interrupt
        /\ at[t] = "wait" /\ job[t].op = "read" => ctl.cmd = "read"
        /\ at[t] = "poll" => ctl.cmd = "write" /\ job[t].op = "write"
        /\ at[t] = "wait" /\ job[t].op = "write" => ctl.cmd = "store" /\ ctl.data = job[t].data
    BY <1>1, <2>1, <2>2 DEF CommandOK, Quiet, OneSignal, Owning
  <2>4. CASE ctl.cmd = "store"
    <3>1. /\ media' = [media EXCEPT ![ctl.dev][ctl.lba] = ctl.data]
          /\ ctl' = [ctl EXCEPT !.state = "idle", !.irq = TRUE]
      BY <2>4 DEF Complete
    <3>2. /\ ctl' \in CtlType /\ ctl'.state = "idle" /\ ctl'.irq /\ ctl'.cmd = "store" /\ ctl'.data = ctl.data
          /\ ctl'.dev = ctl.dev /\ ctl'.lba = ctl.lba
      BY <1>1, <2>4, <3>1, Zenon DEF CtlType
    <3>3. media' \in [Dev -> [Sector -> Data \cup {Blank}]] /\ media'[job[t].dev][job[t].sec] = job[t].data
      BY <1>1, <2>2, <2>3, <2>4, <3>1 DEF DiskType, OnSector
    <3>4. DiskType'
      BY <1>1, <3>2, <3>3 DEF DiskType
    <3>5. CommandOK(t)'
      BY <1>1, <2>3, <2>4, <3>2, <3>3 DEF CommandOK, OnSector, OneSignal, Stored
    <3> QED
      BY <1>1, <1>3, <2>1, <3>4, <3>5, OwnerFrame
  <2>5. CASE ctl.cmd # "store"
    <3>1. /\ media' = media
          /\ \/ ctl.cmd = "read" /\ ctl' = [ctl EXCEPT !.state = "drq", !.data = media[ctl.dev][ctl.lba], !.irq = TRUE]
             \/ ctl.cmd = "write" /\ ctl' = [ctl EXCEPT !.state = "drq"]
             \/ ctl.dev \in Broken /\ ctl' = [ctl EXCEPT !.state = "idle", !.irq = TRUE]
      BY <2>2, <2>3, <2>5 DEF Complete
    <3>2. media[ctl.dev][ctl.lba] = Stored(t) /\ Stored(t) \in Data \cup {Blank}
      BY <1>1, <2>2, <2>3 DEF OnSector, Stored, DiskType
    <3>3. /\ ctl' \in CtlType /\ ctl'.cmd = ctl.cmd /\ ctl'.dev = ctl.dev /\ ctl'.lba = ctl.lba
          /\ \/ ctl.cmd = "read" /\ ctl'.state = "drq" /\ ctl'.irq /\ ctl'.data = Stored(t)
             \/ ctl.cmd = "write" /\ ctl'.state = "drq" /\ ctl'.irq = ctl.irq
             \/ ctl.dev \in Broken /\ ctl'.state = "idle" /\ ctl'.irq
      BY <1>1, <3>1, <3>2, Zenon DEF CtlType
    <3>4. DiskType'
      BY <1>1, <3>1, <3>3 DEF DiskType
    <3>5. CommandOK(t)'
      BY <1>1, <2>2, <2>3, <2>5, <3>1, <3>3 DEF CommandOK, OnSector, OneSignal, Stored
    <3> QED
      BY <1>1, <1>3, <2>1, <3>4, <3>5, OwnerFrame
  <2> QED
    BY <2>4, <2>5
<1> QED
  BY <1>1, <1>2, <1>3 DEF DiskType

LEMMA InterruptStep == ASSUME DiskInv, interrupt_handler PROVE DiskInv'
<1>1. /\ DiskType /\ HoldOK /\ BootOK /\ ctl \in CtlType /\ ctl.irq
      /\ chan \in [lock : User \cup {NoUser}, expecting_interrupt : BOOLEAN, completion_wait : 0..1]
      /\ UNCHANGED <<is_ata, capacity, at, job, buffer, boot, media>>
      /\ ctl' = [ctl EXCEPT !.irq = FALSE]
      /\ chan' = IF chan.expecting_interrupt THEN [chan EXCEPT !.completion_wait = @ + 1] ELSE chan
  BY DEF DiskInv, DiskType, interrupt_handler
<1>2. /\ ctl' \in CtlType /\ ctl'.irq = FALSE /\ ctl'.state = ctl.state /\ ctl'.cmd = ctl.cmd
      /\ ctl'.dev = ctl.dev /\ ctl'.lba = ctl.lba /\ ctl'.data = ctl.data
  BY <1>1, Zenon DEF CtlType
<1>3. CASE chan.lock = NoUser
  <2>1. /\ \A t \in User : at[t] \in {"out", "acquire"}
        /\ \/ boot \in {"reset", "check0", "check1"} /\ ~chan.expecting_interrupt
           \/ boot \in {"wait0", "wait1"} /\ chan.expecting_interrupt /\ chan.completion_wait = 0 /\ ctl.state # "busy"
    BY <1>1, <1>3, NoUserAssumption DEF BootOK, Quiet, OneSignal, HoldOK, DiskType
  <2>2. /\ chan' \in [lock : User \cup {NoUser}, expecting_interrupt : BOOLEAN, completion_wait : 0..1]
        /\ chan'.lock = chan.lock /\ chan'.expecting_interrupt = chan.expecting_interrupt
        /\ chan'.completion_wait = IF chan.expecting_interrupt THEN 1 ELSE chan.completion_wait
    BY <1>1, <2>1
  <2>3. DiskType'
    BY <1>1, <1>2, <2>2 DEF DiskType
  <2>4. HoldOK' /\ BootOK'
    BY <1>1, <1>2, <2>1, <2>2 DEF HoldOK, BootOK, OneSignal
  <2>5. ASSUME NEW t \in User PROVE CommandOK(t)'
    BY <1>1, <2>1, <2>5 DEF CommandOK
  <2> QED
    BY <2>3, <2>4, <2>5 DEF DiskInv
<1>4. ASSUME NEW t \in User, chan.lock = t PROVE DiskInv'
  <2>1. at[t] \in Owning /\ CommandOK(t) /\ job[t] \in Job
    BY <1>1, <1>4 DEF DiskInv, HoldOK, DiskType, Owning
  <2>2. job[t].op \in {"read", "write"}
    BY <2>1, JobFields
  <2>3. /\ at[t] \in {"wait", "poll"} /\ OnSector(t) /\ chan.completion_wait = 0 /\ chan.expecting_interrupt
        /\ ctl.state # "busy"
        /\ at[t] = "poll" => job[t].op = "write" /\ ctl.state = "idle" /\ ctl.dev \in Broken
    BY <1>1, <2>1, <2>2 DEF CommandOK, Quiet, OneSignal, Owning
  <2>4. /\ chan' \in [lock : User \cup {NoUser}, expecting_interrupt : BOOLEAN, completion_wait : 0..1]
        /\ chan'.lock = chan.lock /\ chan'.expecting_interrupt /\ chan'.completion_wait = 1
    BY <1>1, <2>3
  <2>5. DiskType'
    BY <1>1, <1>2, <2>4 DEF DiskType
  <2>6. CommandOK(t)'
    BY <1>1, <1>2, <2>1, <2>2, <2>3, <2>4 DEF CommandOK, OnSector, OneSignal, Stored
  <2> QED
    BY <1>1, <1>4, <2>1, <2>4, <2>5, <2>6, OwnerFrame
<1> QED
  BY <1>1, <1>3, <1>4 DEF DiskType

(* disk_init: no thread has called the driver yet. *)
LEMMA BootStep == ASSUME DiskInv, SignatureType, DiskBoot PROVE DiskInv'
<1>1. /\ DiskType /\ HoldOK /\ BootOK /\ ctl \in CtlType
      /\ chan \in [lock : User \cup {NoUser}, expecting_interrupt : BOOLEAN, completion_wait : 0..1]
      /\ is_ata \in [Dev -> BOOLEAN] /\ capacity \in [Dev -> {0, 1}]
  BY DEF DiskInv, DiskType
<1>2. boot # "ready" /\ UNCHANGED <<at, job, buffer, media>>
  BY Zenon DEF DiskBoot, reset_channel, check_device_type, identify_ata_device, IdentifyAnswer
<1>3. chan.lock = NoUser /\ \A t \in User : at[t] = "out" /\ at'[t] = "out"
  BY <1>1, <1>2 DEF BootOK
<1>4. SUFFICES /\ ctl' \in CtlType /\ chan'.lock = NoUser
               /\ chan' \in [lock : User \cup {NoUser}, expecting_interrupt : BOOLEAN, completion_wait : 0..1]
               /\ is_ata' \in [Dev -> BOOLEAN] /\ capacity' \in [Dev -> {0, 1}]
               /\ BootOK'
  <2>1. HoldOK'
    BY <1>3, <1>4, NoUserAssumption DEF HoldOK, Owning
  <2>2. DiskType'
    BY <1>1, <1>2, <1>3, <1>4 DEF DiskType
  <2>3. ASSUME NEW t \in User PROVE CommandOK(t)'
    BY <1>3, <2>3 DEF CommandOK
  <2> QED
    BY <1>4, <2>1, <2>2, <2>3 DEF DiskInv
<1>5. CASE reset_channel
  <2>1. /\ boot' = "check0" /\ chan' = chan /\ is_ata' = is_ata /\ capacity' = capacity /\ boot = "reset"
        /\ \E raised \in BOOLEAN : ctl' = [ctl EXCEPT !.dev = 0, !.irq = raised]
    BY <1>5, Zenon DEF reset_channel
  <2>2. ctl' \in CtlType /\ ctl'.state = ctl.state
    BY <1>1, <2>1, Zenon DEF CtlType, Dev
  <2> QED
    BY <1>1, <1>3, <2>1, <2>2 DEF BootOK
<1>6. ASSUME NEW d \in Dev, check_device_type(d)
      PROVE  /\ ctl' \in CtlType /\ chan'.lock = NoUser
             /\ chan' \in [lock : User \cup {NoUser}, expecting_interrupt : BOOLEAN, completion_wait : 0..1]
             /\ is_ata' \in [Dev -> BOOLEAN] /\ capacity' \in [Dev -> {0, 1}]
             /\ BootOK'
  <2>1. /\ boot' \in {"check1", "identify0"} /\ chan' = chan /\ boot \in {"check0", "check1"} /\ capacity' = capacity
        /\ ctl' = [ctl EXCEPT !.dev = d, !.irq = FALSE] /\ is_ata' = [is_ata EXCEPT ![d] = TypeOf(d).is_ata]
    BY <1>6 DEF check_device_type, select_device
  <2>2. ctl' \in CtlType /\ ctl'.state = ctl.state /\ ctl'.irq = FALSE
    BY <1>1, <2>1, Zenon DEF CtlType
  <2>3. TypeOf(d).is_ata \in BOOLEAN
    BY Zenon DEF TypeOf, SignatureType
  <2> QED
    BY <1>1, <1>3, <2>1, <2>2, <2>3 DEF BootOK, Quiet
<1>7. ASSUME NEW d \in Dev, identify_ata_device(d)
      PROVE  /\ ctl' \in CtlType /\ chan'.lock = NoUser
             /\ chan' \in [lock : User \cup {NoUser}, expecting_interrupt : BOOLEAN, completion_wait : 0..1]
             /\ is_ata' \in [Dev -> BOOLEAN] /\ capacity' \in [Dev -> {0, 1}]
             /\ BootOK'
  <2>1. Quiet /\ boot = (IF d = 0 THEN "identify0" ELSE "identify1") /\ is_ata' = is_ata /\ capacity' = capacity
    BY <1>1, <1>7 DEF identify_ata_device, BootOK
  <2>2. CASE ~is_ata[d] /\ boot' = NextDevice(d) /\ UNCHANGED <<chan, ctl>>
    BY <1>1, <1>3, <2>1, <2>2 DEF BootOK, Quiet, NextDevice, Dev
  <2>3. CASE /\ boot' = IF d = 0 THEN "wait0" ELSE "wait1"
             /\ chan' = [chan EXCEPT !.expecting_interrupt = TRUE]
             /\ ctl' = [[ctl EXCEPT !.dev = d, !.irq = FALSE] EXCEPT !.cmd = "identify", !.state = "busy"]
    <3>1. ctl' \in CtlType /\ ctl'.state = "busy" /\ ctl'.irq = FALSE /\ ctl'.cmd = "identify"
      BY <1>1, <2>3, Zenon DEF CtlType
    <3>2. /\ chan' \in [lock : User \cup {NoUser}, expecting_interrupt : BOOLEAN, completion_wait : 0..1]
          /\ chan'.lock = NoUser /\ chan'.expecting_interrupt /\ chan'.completion_wait = 0
      BY <1>1, <1>3, <2>1, <2>3, Zenon DEF Quiet
    <3> QED
      BY <1>1, <1>3, <2>1, <2>3, <3>1, <3>2 DEF BootOK, OneSignal
  <2> QED
    BY <1>7, <2>2, <2>3 DEF identify_ata_device, select_device, issue_pio_command
<1>8. ASSUME NEW d \in Dev, IdentifyAnswer(d)
      PROVE  /\ ctl' \in CtlType /\ chan'.lock = NoUser
             /\ chan' \in [lock : User \cup {NoUser}, expecting_interrupt : BOOLEAN, completion_wait : 0..1]
             /\ is_ata' \in [Dev -> BOOLEAN] /\ capacity' \in [Dev -> {0, 1}]
             /\ BootOK'
  <2>1. /\ chan.completion_wait = 1 /\ OneSignal /\ boot = (IF d = 0 THEN "wait0" ELSE "wait1") /\ boot' = NextDevice(d)
        /\ chan' = [chan EXCEPT !.completion_wait = @ - 1] /\ ctl' = [ctl EXCEPT !.state = "idle"]
        /\ is_ata' = [is_ata EXCEPT ![d] = DataReady]
        /\ capacity' = [capacity EXCEPT ![d] = IF DataReady THEN 1 ELSE 0]
    BY <1>1, <1>8 DEF IdentifyAnswer, BootOK, sema_down
  <2>2. ctl' \in CtlType /\ ctl'.state = "idle" /\ ctl'.irq = FALSE
    BY <1>1, <2>1 DEF CtlType, OneSignal
  <2>3. /\ chan' \in [lock : User \cup {NoUser}, expecting_interrupt : BOOLEAN, completion_wait : 0..1]
        /\ chan'.lock = NoUser /\ chan'.completion_wait = 0
    BY <1>1, <1>3, <2>1
  <2>4. DataReady \in BOOLEAN
    BY DEF DataReady
  <2>5. is_ata' \in [Dev -> BOOLEAN] /\ capacity' \in [Dev -> {0, 1}]
    BY <1>1, <2>1, <2>4
  <2>6. /\ is_ata'[d] => capacity'[d] > 0
        /\ \A e \in Dev \ {d} : is_ata'[e] = is_ata[e] /\ capacity'[e] = capacity[e]
    BY <1>1, <2>1
  <2>7. BootOK'
    BY <1>1, <1>3, <2>1, <2>2, <2>3, <2>6 DEF BootOK, Quiet, NextDevice, Dev
  <2> QED
    BY <2>2, <2>3, <2>5, <2>7
<1> QED
  BY <1>5, <1>6, <1>7, <1>8 DEF DiskBoot

LEMMA CallStep == ASSUME DiskInv, NEW t \in User, CallDisk(t) \/ lock_acquire(t) PROVE DiskInv'
<1>1. /\ DiskType /\ HoldOK /\ BootOK /\ at[t] \in {"out", "acquire"} /\ at[t] \notin Owning /\ chan.lock # t
      /\ UNCHANGED <<is_ata, capacity, ctl, media, boot>>
      /\ chan \in [lock : User \cup {NoUser}, expecting_interrupt : BOOLEAN, completion_wait : 0..1]
  BY DEF DiskInv, DiskType, HoldOK, CallDisk, lock_acquire, Owning
<1>2. CASE CallDisk(t)
  <2>1. PICK j \in Job : job' = [job EXCEPT ![t] = j]
    BY <1>2, Zenon DEF CallDisk
  <2>2. boot = "ready" /\ at' = [at EXCEPT ![t] = "acquire"] /\ buffer' = [buffer EXCEPT ![t] = Blank] /\ chan' = chan
    BY <1>2 DEF CallDisk, SetAt
  <2>3. /\ at'[t] = "acquire" /\ job'[t] = j
        /\ \A u \in User \ {t} : at'[u] = at[u] /\ job'[u] = job[u] /\ buffer'[u] = buffer[u]
    BY <1>1, <2>1, <2>2 DEF DiskType
  <2>4. DiskType'
    BY <1>1, <2>1, <2>2, <2>3 DEF DiskType
  <2>5. HoldOK'
    BY <1>1, <2>2, <2>3 DEF HoldOK, Owning
  <2>6. BootOK'
    BY <1>1, <2>2 DEF BootOK, Quiet
  <2>7. ASSUME NEW u \in User PROVE CommandOK(u)'
    <3>1. CASE u = t
      BY <2>3, <3>1, SMTT(30) DEF CommandOK
    <3>2. CASE u # t
      <4>1. CommandOK(u) /\ at'[u] = at[u] /\ job'[u] = job[u] /\ buffer'[u] = buffer[u]
        BY <2>3, <3>2 DEF DiskInv
      <4> QED
        BY <1>1, <2>2, <4>1, SMTT(30) DEF CommandOK, OnSector, OneSignal, Quiet, Stored
    <3> QED
      BY <3>1, <3>2
  <2> QED
    BY <2>4, <2>5, <2>6, <2>7 DEF DiskInv
<1>3. CASE lock_acquire(t)
  <2>1. /\ chan.lock = NoUser /\ chan' = [chan EXCEPT !.lock = t] /\ at' = [at EXCEPT ![t] = "select"]
        /\ job' = job /\ buffer' = buffer /\ at[t] = "acquire"
    BY <1>3 DEF lock_acquire, SetAt
  <2>2. /\ chan' \in [lock : User \cup {NoUser}, expecting_interrupt : BOOLEAN, completion_wait : 0..1]
        /\ chan'.lock = t /\ chan'.completion_wait = chan.completion_wait
    BY <1>1, <2>1
  <2>3. boot = "ready" /\ Quiet
    BY <1>1, <2>1 DEF BootOK
  <2>4. at'[t] = "select" /\ \A u \in User \ {t} : at'[u] = at[u] /\ at[u] \in {"out", "acquire"}
    BY <1>1, <2>1, NoUserAssumption DEF DiskType, HoldOK
  <2>5. DiskType'
    BY <1>1, <2>1, <2>2, <2>4 DEF DiskType, Owning
  <2>6. HoldOK'
    BY <2>2, <2>4 DEF HoldOK, Owning
  <2>7. BootOK'
    BY <1>1, <2>2, <2>3, NoUserAssumption DEF BootOK
  <2>8. ASSUME NEW u \in User PROVE CommandOK(u)'
    BY <1>1, <2>2, <2>3, <2>4 DEF CommandOK, Quiet
  <2> QED
    BY <2>5, <2>6, <2>7, <2>8 DEF DiskInv
<1> QED
  BY <1>2, <1>3

LEMMA DiskSteps == DiskInv /\ SignatureType /\ [DiskNext]_dkvars => DiskInv' /\ SignatureType'
<1> SUFFICES ASSUME DiskInv, SignatureType, [DiskNext]_dkvars PROVE DiskInv' /\ SignatureType'
  OBVIOUS
<1>1. signature' = signature
  BY Zenon DEF DiskNext, dkvars, Complete, interrupt_handler, DiskBoot, reset_channel, check_device_type, identify_ata_device,
         IdentifyAnswer, CallDisk, lock_acquire, DiskStep, select_sector, issue, AwaitInterrupt, Transfer, lock_release
<1>2. ASSUME UNCHANGED dkvars PROVE DiskInv'
  <2>1. DiskType' /\ HoldOK'
    BY <1>2 DEF dkvars, DiskInv, DiskType, HoldOK
  <2>2. BootOK'
    BY <1>2, SMTT(30) DEF dkvars, DiskInv, BootOK, OneSignal, Quiet
  <2>3. ASSUME NEW t \in User PROVE CommandOK(t)'
    BY <1>2, <2>3 DEF dkvars, DiskInv, CommandOK, OnSector, OneSignal, Quiet, Stored
  <2> QED
    BY <2>1, <2>2, <2>3 DEF DiskInv
<1> QED
  BY <1>1, <1>2, CompleteStep, InterruptStep, BootStep, CallStep, OwnerStep DEF DiskNext, SignatureType

LEMMA DiskInvariant == DiskSpec => []DiskInv
<1>1. DiskInit => SignatureType
  BY DEF DiskInit, SignatureType
<1> QED
  BY <1>1, DiskInitial, DiskSteps, PTL DEF DiskSpec

(***************************************************************************)
(* A finished transfer left in the buffer what the sector holds, or in the *)
(* sector what the buffer held: disk_read and disk_write of any number of  *)
(* threads on the shared registers of a channel.                           *)
(***************************************************************************)
THEOREM TransfersAreRight == DiskSpec => []TransfersRight
<1>1. DiskInv => TransfersRight
  BY DEF DiskInv, CommandOK, Stored, TransfersRight
<1> QED
  BY <1>1, DiskInvariant, PTL

(***************************************************************************)
(* completion_wait carries one up per command, nobody waits for an         *)
(* interrupt that will not come, and only identified devices are disks.    *)
(***************************************************************************)
THEOREM DiskProtocolKept == DiskSpec => []DiskProtocol
<1>1. DiskInv => CompletionMatched
  <2> SUFFICES ASSUME DiskInv, chan.completion_wait = 1, boot \notin {"wait0", "wait1"}
               PROVE  \E t \in User : chan.lock = t /\ (at[t] = "wait" \/ (at[t] = "poll" /\ ctl.dev \in Broken))
    BY DEF DiskInv, DiskType, CompletionMatched
  <2>1. boot = "ready" /\ chan.lock # NoUser
    BY DEF DiskInv, BootOK, Quiet
  <2>2. PICK t \in User : chan.lock = t
    BY <2>1 DEF DiskInv, DiskType
  <2>3. at[t] \in Owning /\ CommandOK(t) /\ job[t] \in Job
    BY <2>2 DEF DiskInv, HoldOK, DiskType, Owning
  <2>4. job[t].op \in {"read", "write"}
    BY <2>3, JobFields
  <2> QED
    BY <2>2, <2>3, <2>4 DEF CommandOK, Owning, Quiet, OneSignal
<1>2. DiskInv => InterruptsReach
  <2> SUFFICES ASSUME DiskInv, NEW t \in User, at[t] = "wait"
               PROVE  chan.completion_wait = 1 \/ (chan.expecting_interrupt /\ (ctl.irq \/ ctl.state = "busy"))
    BY DEF InterruptsReach
  <2>1. CommandOK(t) /\ job[t].op \in {"read", "write"}
    BY JobFields DEF DiskInv, DiskType
  <2> QED
    BY <2>1 DEF CommandOK, OneSignal
<1>3. DiskInv => DisksIdentified
  BY DEF DiskInv, BootOK, DisksIdentified, Dev
<1> QED
  BY <1>1, <1>2, <1>3, DiskInvariant, PTL DEF DiskProtocol
-----------------------------------------------------------------------------
Holds(p, c) == c \in children[p] \/ (pc[p] = "wait_free" /\ arg[p] = c)

(* A held struct is held once, exists, and has not been released. *)
HeldOnce ==
  \A p, q, c \in Proc : Holds(p, c) /\ Holds(q, c) => p = q

HeldKept ==
  \A p, c \in Proc : Holds(p, c) => pc[c] \notin Gone /\ free_sema[c] = 0

FreshUnreleased ==
  \A c \in Proc : pc[c] = "none" => free_sema[c] = 0

(* What a call in progress knows of the child it works on. *)
CallsHold ==
  \A p \in Proc :
    /\ pc[p] \in {"fork_down", "fork_check", "wait_down", "wait_read"} => arg[p] \in children[p]
    /\ pc[p] = "wait_free" => arg[p] \notin children[p]

(* An exit is announced once, and a wait goes on only after it. *)
ExitAnnounced ==
  /\ \A c \in Proc : wait_sema[c] = 1 => pc[c] \in {"exit_down", "dying", "freed"}
  /\ \A p \in Proc : pc[p] \in {"wait_read", "wait_free"} => pc[arg[p]] = "exit_down"
  /\ \A p \in Proc : pc[p] = "wait_free" => rax[p] = Collected(exit_status[arg[p]])

ProtocolInv ==
  /\ TypeOK
  /\ ForkBlocksParent
  /\ HeldOnce
  /\ HeldKept
  /\ FreshUnreleased
  /\ CallsHold
  /\ ExitAnnounced

(* The invariant holds when initd starts. *)
LEMMA ProtocolInit == Init => ProtocolInv
<1> SUFFICES ASSUME Init PROVE ProtocolInv
  OBVIOUS
<1> USE ProcAssumption DEF Init, Copying, Exiting, Gone
<1>1. TypeOK
  BY DEF TypeOK, PC
<1>2. ForkBlocksParent
  BY DEF ForkBlocksParent
<1>3. HeldOnce /\ HeldKept /\ FreshUnreleased
  BY DEF HeldOnce, HeldKept, FreshUnreleased, Holds
<1>4. CallsHold /\ ExitAnnounced
  BY DEF CallsHold, ExitAnnounced
<1> QED
  BY <1>1, <1>2, <1>3, <1>4 DEF ProtocolInv


(* Every step keeps it: one case per action. *)
LEMMA ProtocolStep == ProtocolInv /\ [Next]_vars => ProtocolInv'
<1> SUFFICES ASSUME ProtocolInv, [Next]_vars PROVE ProtocolInv'
  OBVIOUS
<1> USE ProcAssumption DEF Copying, Exiting, Gone, At, Goto, Returns, InUserMode, TID_ERROR, semas
<1>1. ASSUME NEW p \in Proc, ForkDown(p) PROVE ProtocolInv'
  <2> USE <1>1 DEF ForkDown
  <2>1. TypeOK'
    BY DEF ProtocolInv, TypeOK, PC, ForkBlocksParent, HeldKept, Holds, ExitAnnounced, Collected
  <2>2. ForkBlocksParent'
    BY DEF ProtocolInv, TypeOK, ForkBlocksParent
  <2>3. HeldOnce'
    BY DEF ProtocolInv, TypeOK, HeldOnce, HeldKept, CallsHold, Holds
  <2>4. HeldKept' /\ FreshUnreleased'
    BY DEF ProtocolInv, TypeOK, HeldOnce, HeldKept, FreshUnreleased, CallsHold, Holds
  <2>5. CallsHold'
    BY DEF ProtocolInv, TypeOK, HeldOnce, HeldKept, CallsHold, Holds
  <2>6. ExitAnnounced'
    BY DEF ProtocolInv, TypeOK, HeldOnce, HeldKept, CallsHold, ExitAnnounced, Holds
  <2> QED
    BY <2>1, <2>2, <2>3, <2>4, <2>5, <2>6 DEF ProtocolInv
<1>2. ASSUME NEW p \in Proc, ForkCheck(p) PROVE ProtocolInv'
  <2> USE <1>2 DEF ForkCheck
  <2>1. TypeOK'
    BY DEF ProtocolInv, TypeOK, PC, ForkBlocksParent, HeldKept, Holds, ExitAnnounced, Collected
  <2>2. ForkBlocksParent'
    BY DEF ProtocolInv, TypeOK, ForkBlocksParent
  <2>3. HeldOnce'
    BY DEF ProtocolInv, TypeOK, HeldOnce, HeldKept, CallsHold, Holds
  <2>4. HeldKept' /\ FreshUnreleased'
    BY DEF ProtocolInv, TypeOK, HeldOnce, HeldKept, FreshUnreleased, CallsHold, Holds
  <2>5. CallsHold'
    BY DEF ProtocolInv, TypeOK, HeldOnce, HeldKept, CallsHold, Holds
  <2>6. ExitAnnounced'
    BY DEF ProtocolInv, TypeOK, HeldOnce, HeldKept, CallsHold, ExitAnnounced, Holds
  <2> QED
    BY <2>1, <2>2, <2>3, <2>4, <2>5, <2>6 DEF ProtocolInv
<1>3. ASSUME NEW p \in Proc, DoForkCopy(p) PROVE ProtocolInv'
  <2> USE <1>3 DEF DoForkCopy
  <2>1. TypeOK'
    BY DEF ProtocolInv, TypeOK, PC, ForkBlocksParent, HeldKept, Holds, ExitAnnounced, Collected
  <2>2. ForkBlocksParent'
    BY DEF ProtocolInv, TypeOK, ForkBlocksParent
  <2>3. HeldOnce'
    BY DEF ProtocolInv, TypeOK, HeldOnce, HeldKept, CallsHold, Holds
  <2>4. HeldKept' /\ FreshUnreleased'
    BY DEF ProtocolInv, TypeOK, HeldOnce, HeldKept, FreshUnreleased, CallsHold, Holds
  <2>5. CallsHold'
    BY DEF ProtocolInv, TypeOK, HeldOnce, HeldKept, CallsHold, Holds
  <2>6. ExitAnnounced'
    BY DEF ProtocolInv, TypeOK, HeldOnce, HeldKept, CallsHold, ExitAnnounced, Holds
  <2> QED
    BY <2>1, <2>2, <2>3, <2>4, <2>5, <2>6 DEF ProtocolInv
<1>4. ASSUME NEW p \in Proc, DoForkFails(p) PROVE ProtocolInv'
  <2> USE <1>4 DEF DoForkFails
  <2>1. TypeOK'
    BY DEF ProtocolInv, TypeOK, PC, ForkBlocksParent, HeldKept, Holds, ExitAnnounced, Collected
  <2>2. ForkBlocksParent'
    BY DEF ProtocolInv, TypeOK, ForkBlocksParent
  <2>3. HeldOnce'
    BY DEF ProtocolInv, TypeOK, HeldOnce, HeldKept, CallsHold, Holds
  <2>4. HeldKept' /\ FreshUnreleased'
    BY DEF ProtocolInv, TypeOK, HeldOnce, HeldKept, FreshUnreleased, CallsHold, Holds
  <2>5. CallsHold'
    BY DEF ProtocolInv, TypeOK, HeldOnce, HeldKept, CallsHold, Holds
  <2>6. ExitAnnounced'
    BY DEF ProtocolInv, TypeOK, HeldOnce, HeldKept, CallsHold, ExitAnnounced, Holds
  <2> QED
    BY <2>1, <2>2, <2>3, <2>4, <2>5, <2>6 DEF ProtocolInv
<1>5. ASSUME NEW p \in Proc, DoForkUp(p) PROVE ProtocolInv'
  <2> USE <1>5 DEF DoForkUp
  <2>1. TypeOK'
    BY DEF ProtocolInv, TypeOK, PC, ForkBlocksParent, HeldKept, Holds, ExitAnnounced, Collected
  <2>2. ForkBlocksParent'
    BY DEF ProtocolInv, TypeOK, ForkBlocksParent
  <2>3. HeldOnce'
    BY DEF ProtocolInv, TypeOK, HeldOnce, HeldKept, CallsHold, Holds
  <2>4. HeldKept' /\ FreshUnreleased'
    BY DEF ProtocolInv, TypeOK, HeldOnce, HeldKept, FreshUnreleased, CallsHold, Holds
  <2>5. CallsHold'
    BY DEF ProtocolInv, TypeOK, HeldOnce, HeldKept, CallsHold, Holds
  <2>6. ExitAnnounced'
    BY DEF ProtocolInv, TypeOK, HeldOnce, HeldKept, CallsHold, ExitAnnounced, Holds
  <2> QED
    BY <2>1, <2>2, <2>3, <2>4, <2>5, <2>6 DEF ProtocolInv
<1>6. ASSUME NEW p \in Proc, DoForkError(p) PROVE ProtocolInv'
  <2> USE <1>6 DEF DoForkError
  <2>1. TypeOK'
    BY DEF ProtocolInv, TypeOK, PC, ForkBlocksParent, HeldKept, Holds, ExitAnnounced, Collected
  <2>2. ForkBlocksParent'
    BY DEF ProtocolInv, TypeOK, ForkBlocksParent
  <2>3. HeldOnce'
    BY DEF ProtocolInv, TypeOK, HeldOnce, HeldKept, CallsHold, Holds
  <2>4. HeldKept' /\ FreshUnreleased'
    BY DEF ProtocolInv, TypeOK, HeldOnce, HeldKept, FreshUnreleased, CallsHold, Holds
  <2>5. CallsHold'
    BY DEF ProtocolInv, TypeOK, HeldOnce, HeldKept, CallsHold, Holds
  <2>6. ExitAnnounced'
    BY DEF ProtocolInv, TypeOK, HeldOnce, HeldKept, CallsHold, ExitAnnounced, Holds
  <2> QED
    BY <2>1, <2>2, <2>3, <2>4, <2>5, <2>6 DEF ProtocolInv
<1>7. ASSUME NEW p \in Proc, DoForkExit(p) PROVE ProtocolInv'
  <2> USE <1>7 DEF DoForkExit
  <2>1. TypeOK'
    BY DEF ProtocolInv, TypeOK, PC, ForkBlocksParent, HeldKept, Holds, ExitAnnounced, Collected
  <2>2. ForkBlocksParent'
    BY DEF ProtocolInv, TypeOK, ForkBlocksParent
  <2>3. HeldOnce'
    BY DEF ProtocolInv, TypeOK, HeldOnce, HeldKept, CallsHold, Holds
  <2>4. HeldKept' /\ FreshUnreleased'
    BY DEF ProtocolInv, TypeOK, HeldOnce, HeldKept, FreshUnreleased, CallsHold, Holds
  <2>5. CallsHold'
    BY DEF ProtocolInv, TypeOK, HeldOnce, HeldKept, CallsHold, Holds
  <2>6. ExitAnnounced'
    BY DEF ProtocolInv, TypeOK, HeldOnce, HeldKept, CallsHold, ExitAnnounced, Holds
  <2> QED
    BY <2>1, <2>2, <2>3, <2>4, <2>5, <2>6 DEF ProtocolInv
<1>8. ASSUME NEW p \in Proc, ProcessExitUp(p) PROVE ProtocolInv'
  <2> USE <1>8 DEF ProcessExitUp
  <2>0. wait_sema[p] = 0
    BY DEF ProtocolInv, TypeOK, ExitAnnounced
  <2>1. TypeOK'
    BY <2>0 DEF ProtocolInv, TypeOK, PC
  <2>2. ForkBlocksParent'
    BY DEF ProtocolInv, TypeOK, ForkBlocksParent
  <2>3. HeldOnce'
    BY DEF ProtocolInv, TypeOK, HeldOnce, HeldKept, CallsHold, Holds
  <2>4. HeldKept' /\ FreshUnreleased'
    BY DEF ProtocolInv, TypeOK, HeldOnce, HeldKept, FreshUnreleased, CallsHold, Holds
  <2>5. CallsHold'
    BY DEF ProtocolInv, TypeOK, HeldOnce, HeldKept, CallsHold, Holds
  <2>6. ExitAnnounced'
    BY DEF ProtocolInv, TypeOK, HeldOnce, HeldKept, CallsHold, ExitAnnounced, Holds
  <2> QED
    BY <2>1, <2>2, <2>3, <2>4, <2>5, <2>6 DEF ProtocolInv
<1>9. ASSUME NEW p \in Proc, ProcessExitDown(p) PROVE ProtocolInv'
  <2> USE <1>9 DEF ProcessExitDown
  <2>1. TypeOK'
    BY DEF ProtocolInv, TypeOK, PC, ForkBlocksParent, HeldKept, Holds, ExitAnnounced, Collected
  <2>2. ForkBlocksParent'
    BY DEF ProtocolInv, TypeOK, ForkBlocksParent
  <2>3. HeldOnce'
    BY DEF ProtocolInv, TypeOK, HeldOnce, HeldKept, CallsHold, Holds
  <2>4. HeldKept' /\ FreshUnreleased'
    BY DEF ProtocolInv, TypeOK, HeldOnce, HeldKept, FreshUnreleased, CallsHold, Holds
  <2>5. CallsHold'
    BY DEF ProtocolInv, TypeOK, HeldOnce, HeldKept, CallsHold, Holds
  <2>6. ExitAnnounced'
    BY DEF ProtocolInv, TypeOK, HeldOnce, HeldKept, CallsHold, ExitAnnounced, Holds
  <2> QED
    BY <2>1, <2>2, <2>3, <2>4, <2>5, <2>6 DEF ProtocolInv
<1>10. ASSUME NEW p \in Proc, DoScheduleFrees(p) PROVE ProtocolInv'
  <2> USE <1>10 DEF DoScheduleFrees
  <2>1. TypeOK'
    BY DEF ProtocolInv, TypeOK, PC, ForkBlocksParent, HeldKept, Holds, ExitAnnounced, Collected
  <2>2. ForkBlocksParent'
    BY DEF ProtocolInv, TypeOK, ForkBlocksParent
  <2>3. HeldOnce'
    BY DEF ProtocolInv, TypeOK, HeldOnce, HeldKept, CallsHold, Holds
  <2>4. HeldKept' /\ FreshUnreleased'
    BY DEF ProtocolInv, TypeOK, HeldOnce, HeldKept, FreshUnreleased, CallsHold, Holds
  <2>5. CallsHold'
    BY DEF ProtocolInv, TypeOK, HeldOnce, HeldKept, CallsHold, Holds
  <2>6. ExitAnnounced'
    BY DEF ProtocolInv, TypeOK, HeldOnce, HeldKept, CallsHold, ExitAnnounced, Holds
  <2> QED
    BY <2>1, <2>2, <2>3, <2>4, <2>5, <2>6 DEF ProtocolInv
<1>11. ASSUME NEW p \in Proc, WaitDown(p) PROVE ProtocolInv'
  <2> USE <1>11 DEF WaitDown
  <2>1. TypeOK'
    BY DEF ProtocolInv, TypeOK, PC, ForkBlocksParent, HeldKept, Holds, ExitAnnounced, Collected
  <2>2. ForkBlocksParent'
    BY DEF ProtocolInv, TypeOK, ForkBlocksParent
  <2>3. HeldOnce'
    BY DEF ProtocolInv, TypeOK, HeldOnce, HeldKept, CallsHold, Holds
  <2>4. HeldKept' /\ FreshUnreleased'
    BY DEF ProtocolInv, TypeOK, HeldOnce, HeldKept, FreshUnreleased, CallsHold, Holds
  <2>5. CallsHold'
    BY DEF ProtocolInv, TypeOK, HeldOnce, HeldKept, CallsHold, Holds
  <2>6. ExitAnnounced'
    BY SMTT(30) DEF ProtocolInv, TypeOK, HeldOnce, HeldKept, CallsHold, ExitAnnounced, Holds
  <2> QED
    BY <2>1, <2>2, <2>3, <2>4, <2>5, <2>6 DEF ProtocolInv
<1>12. ASSUME NEW p \in Proc, WaitRead(p) PROVE ProtocolInv'
  <2> USE <1>12 DEF WaitRead
  <2>1. TypeOK'
    BY DEF ProtocolInv, TypeOK, PC, ForkBlocksParent, HeldKept, Holds, ExitAnnounced, Collected
  <2>2. ForkBlocksParent'
    BY DEF ProtocolInv, TypeOK, ForkBlocksParent
  <2>3. HeldOnce'
    BY DEF ProtocolInv, TypeOK, HeldOnce, HeldKept, CallsHold, Holds
  <2>4. HeldKept' /\ FreshUnreleased'
    BY DEF ProtocolInv, TypeOK, HeldOnce, HeldKept, FreshUnreleased, CallsHold, Holds
  <2>5. CallsHold'
    BY DEF ProtocolInv, TypeOK, HeldOnce, HeldKept, CallsHold, Holds
  <2>6. ExitAnnounced'
    BY DEF ProtocolInv, TypeOK, HeldOnce, HeldKept, CallsHold, ExitAnnounced, Holds
  <2> QED
    BY <2>1, <2>2, <2>3, <2>4, <2>5, <2>6, ZenonT(30) DEF ProtocolInv
<1>13. ASSUME NEW p \in Proc, WaitFree(p) PROVE ProtocolInv'
  <2> USE <1>13 DEF WaitFree
  <2>1. TypeOK'
    BY DEF ProtocolInv, TypeOK, PC, ForkBlocksParent, HeldKept, Holds, ExitAnnounced, Collected
  <2>2. ForkBlocksParent'
    BY DEF ProtocolInv, TypeOK, ForkBlocksParent
  <2>3. HeldOnce'
    BY DEF ProtocolInv, TypeOK, HeldOnce, HeldKept, CallsHold, Holds
  <2>4. HeldKept' /\ FreshUnreleased'
    BY DEF ProtocolInv, TypeOK, HeldOnce, HeldKept, FreshUnreleased, CallsHold, Holds
  <2>5. CallsHold'
    BY DEF ProtocolInv, TypeOK, HeldOnce, HeldKept, CallsHold, Holds
  <2>6. ExitAnnounced'
    BY DEF ProtocolInv, TypeOK, HeldOnce, HeldKept, CallsHold, ExitAnnounced, Holds
  <2> QED
    BY <2>1, <2>2, <2>3, <2>4, <2>5, <2>6 DEF ProtocolInv
<1>14. ASSUME NEW p \in Proc, ProcessForkNoPage(p) PROVE ProtocolInv'
  <2> USE <1>14 DEF ProcessForkNoPage
  <2>1. TypeOK'
    BY DEF ProtocolInv, TypeOK, PC, ForkBlocksParent, HeldKept, Holds, ExitAnnounced, Collected
  <2>2. ForkBlocksParent'
    BY DEF ProtocolInv, TypeOK, ForkBlocksParent
  <2>3. HeldOnce'
    BY DEF ProtocolInv, TypeOK, HeldOnce, HeldKept, CallsHold, Holds
  <2>4. HeldKept' /\ FreshUnreleased'
    BY DEF ProtocolInv, TypeOK, HeldOnce, HeldKept, FreshUnreleased, CallsHold, Holds
  <2>5. CallsHold'
    BY DEF ProtocolInv, TypeOK, HeldOnce, HeldKept, CallsHold, Holds
  <2>6. ExitAnnounced'
    BY DEF ProtocolInv, TypeOK, HeldOnce, HeldKept, CallsHold, ExitAnnounced, Holds
  <2> QED
    BY <2>1, <2>2, <2>3, <2>4, <2>5, <2>6 DEF ProtocolInv
<1>15. ASSUME NEW p \in Proc, SysHalt(p) PROVE ProtocolInv'
  <2> USE <1>15 DEF SysHalt
  <2>1. TypeOK'
    BY Zenon DEF ProtocolInv, TypeOK, PC, ForkBlocksParent, HeldKept, Holds, ExitAnnounced, Collected
  <2>2. ForkBlocksParent'
    BY DEF ProtocolInv, TypeOK, ForkBlocksParent
  <2>3. HeldOnce'
    BY DEF ProtocolInv, TypeOK, HeldOnce, HeldKept, CallsHold, Holds
  <2>4. HeldKept' /\ FreshUnreleased'
    BY DEF ProtocolInv, TypeOK, HeldOnce, HeldKept, FreshUnreleased, CallsHold, Holds
  <2>5. CallsHold'
    BY DEF ProtocolInv, TypeOK, HeldOnce, HeldKept, CallsHold, Holds
  <2>6. ExitAnnounced'
    BY DEF ProtocolInv, TypeOK, HeldOnce, HeldKept, CallsHold, ExitAnnounced, Holds
  <2> QED
    BY <2>1, <2>2, <2>3, <2>4, <2>5, <2>6 DEF ProtocolInv
<1>16. ASSUME NEW p \in Proc, NEW c \in Proc, ProcessFork(p, c) PROVE ProtocolInv'
  <2> USE <1>16 DEF ProcessFork
  <2>1. c # p /\ \A q \in Proc : ~Holds(q, c)
    BY DEF ProtocolInv, TypeOK, HeldKept
  <2>2. pc' \in [Proc -> PC]
    BY DEF ProtocolInv, TypeOK, PC
  <2>3. children' \in [Proc -> SUBSET Proc]
    BY DEF ProtocolInv, TypeOK
  <2>4. TypeOK'
    BY <2>2, <2>3, Zenon DEF ProtocolInv, TypeOK
  <2>5. ForkBlocksParent'
    BY DEF ProtocolInv, TypeOK, ForkBlocksParent
  <2>6. HeldOnce'
    BY <2>1 DEF ProtocolInv, TypeOK, HeldOnce, Holds
  <2>7. free_sema[c] = 0
    BY DEF ProtocolInv, FreshUnreleased
  <2>8. HeldKept'
    BY <2>1, <2>7 DEF ProtocolInv, TypeOK, HeldKept, Holds
  <2>9. FreshUnreleased'
    BY DEF ProtocolInv, TypeOK, FreshUnreleased
  <2>10. CallsHold'
    BY <2>1 DEF ProtocolInv, TypeOK, CallsHold, Holds
  <2>11. ExitAnnounced'
    BY <2>1 DEF ProtocolInv, TypeOK, CallsHold, ExitAnnounced, Holds
  <2> QED
    BY <2>4, <2>5, <2>6, <2>8, <2>9, <2>10, <2>11 DEF ProtocolInv
<1>17. ASSUME NEW p \in Proc, NEW c \in Proc, ProcessWait(p, c) PROVE ProtocolInv'
  <2>1. CASE c \in children[p]
    <3>1. /\ pc' = [pc EXCEPT ![p] = "wait_down"]
          /\ arg' = [arg EXCEPT ![p] = c]
          /\ pc[p] = "user"
          /\ UNCHANGED <<on, rax, parent, children, exit_status, semas, forked>>
      BY <1>17, <2>1 DEF ProcessWait
    <3>2. TypeOK'
      BY <3>1 DEF ProtocolInv, TypeOK, PC
    <3>3. ForkBlocksParent' /\ FreshUnreleased'
      BY <3>1 DEF ProtocolInv, TypeOK, ForkBlocksParent, FreshUnreleased
    <3>4. \A q, d \in Proc : Holds(q, d)' => Holds(q, d)
      BY <3>1 DEF ProtocolInv, TypeOK, Holds
    <3>5. HeldOnce' /\ HeldKept'
      BY <3>1, <3>4 DEF ProtocolInv, TypeOK, HeldOnce, HeldKept
    <3>6. CallsHold'
      BY <3>1, <2>1 DEF ProtocolInv, TypeOK, CallsHold
    <3>7. ExitAnnounced'
      BY <3>1, <2>1, SMTT(30) DEF ProtocolInv, TypeOK, ExitAnnounced
    <3> QED
      BY <3>2, <3>3, <3>5, <3>6, <3>7 DEF ProtocolInv
  <2>2. CASE c \notin children[p]
    <3> USE <1>17, <2>2 DEF ProcessWait
    <3>1. UNCHANGED <<on, pc, arg, parent, children, exit_status, semas, forked>>
      OBVIOUS
    <3>2. rax' \in [Proc -> Proc \cup Int] /\ \A q \in Proc : q # p => rax'[q] = rax[q]
      BY SMTT(30) DEF ProtocolInv, TypeOK
    <3> HIDE <1>17 DEF ProcessWait
    <3>3. pc[p] = "user"
      BY <1>17 DEF ProcessWait
    <3>4. TypeOK' /\ ForkBlocksParent' /\ FreshUnreleased'
      BY <3>1, <3>2, SMTT(30) DEF ProtocolInv, TypeOK, ForkBlocksParent, FreshUnreleased
    <3>5. HeldOnce' /\ HeldKept' /\ CallsHold'
      BY <3>1, ZenonT(30) DEF ProtocolInv, HeldOnce, HeldKept, CallsHold, Holds
    <3>6. ExitAnnounced'
      BY <3>1, <3>2, <3>3 DEF ProtocolInv, ExitAnnounced
    <3> QED
      BY <3>4, <3>5, <3>6 DEF ProtocolInv
  <2> QED
    BY <2>1, <2>2
<1>18. ASSUME NEW p \in Proc, NEW status \in Status \cup {TID_ERROR}, SysExit(p, status) PROVE ProtocolInv'
  <2> USE <1>18 DEF SysExit
  <2>1. TypeOK'
    BY DEF ProtocolInv, TypeOK, PC, ForkBlocksParent, HeldKept, Holds, ExitAnnounced, Collected
  <2>2. ForkBlocksParent'
    BY DEF ProtocolInv, TypeOK, ForkBlocksParent
  <2>3. HeldOnce'
    BY DEF ProtocolInv, TypeOK, HeldOnce, HeldKept, CallsHold, Holds
  <2>4. HeldKept' /\ FreshUnreleased'
    BY DEF ProtocolInv, TypeOK, HeldOnce, HeldKept, FreshUnreleased, CallsHold, Holds
  <2>5. CallsHold'
    BY DEF ProtocolInv, TypeOK, HeldOnce, HeldKept, CallsHold, Holds
  <2>6. ExitAnnounced'
    BY SMTT(30) DEF ProtocolInv, TypeOK, HeldOnce, HeldKept, CallsHold, ExitAnnounced, Holds
  <2> QED
    BY <2>1, <2>2, <2>3, <2>4, <2>5, <2>6 DEF ProtocolInv
<1>19. CASE UNCHANGED vars
  BY <1>19 DEF vars, ProtocolInv, TypeOK, ForkBlocksParent, HeldOnce, HeldKept, FreshUnreleased, CallsHold, ExitAnnounced, Holds
<1> QED
  BY <1>1, <1>2, <1>3, <1>4, <1>5, <1>6, <1>7, <1>8, <1>9, <1>10, <1>11, <1>12, <1>13, <1>14, <1>15, <1>16, <1>17, <1>18, <1>19 DEF Next, KernelStep, UserStep, Off, Kill, SysExecFails

(* ProtocolInv is an invariant of the protocol. *)
LEMMA ProtocolAlways == Spec => []ProtocolInv
  BY ProtocolInit, ProtocolStep, PTL DEF Spec

(***************************************************************************)
(* The variables keep their types, and so the three semaphores of a        *)
(* process never pass 1: no sema_up of the protocol is ever left over.     *)
(***************************************************************************)
THEOREM ProcessTypeCorrect == Spec => []TypeOK
<1>1. ProtocolInv => TypeOK
  BY DEF ProtocolInv
<1> QED
  BY <1>1, ProtocolAlways, PTL

(***************************************************************************)
(* No struct thread is used after do_schedule has freed it, however forks, *)
(* waits and exits of any number of processes interleave.                  *)
(***************************************************************************)
THEOREM StructsOutliveUse == Spec => []NoUseAfterFree
<1>1. ProtocolInv => NoUseAfterFree
  BY DEF ProtocolInv, TypeOK, NoUseAfterFree, HeldKept, CallsHold, ForkBlocksParent, Holds, Gone, Copying
<1> QED
  BY <1>1, ProtocolAlways, PTL

(* While a child copies its parent, the parent sleeps in that very fork. *)
THEOREM ForkBlocks == Spec => []ForkBlocksParent
<1>1. ProtocolInv => ForkBlocksParent
  BY DEF ProtocolInv
<1> QED
  BY <1>1, ProtocolAlways, PTL

(* process_wait returns the status of a child that has exited, once. *)
THEOREM WaitsReport == Spec => WaitReports
<1> DEFINE Reports ==
      \A p \in Proc :
        pc[p] = "wait_free" /\ pc'[p] = "user" =>
          /\ pc[arg[p]] = "exit_down"
          /\ rax[p] = Collected(exit_status[arg[p]])
          /\ \A q \in Proc : arg[p] \notin children[q]
<1>1. ProtocolInv /\ [Next]_vars => [Reports]_vars
  BY DEF ProtocolInv, TypeOK, HeldOnce, CallsHold, ExitAnnounced, Holds
<1> QED
  BY <1>1, ProtocolAlways, PTL DEF Spec, WaitReports
=============================================================================

-------------------------------- MODULE Disk --------------------------------
(***************************************************************************)
(* One channel of the ATA driver, devices/disk.c: detection of its devices *)
(* at boot, then sector reads and writes by threads that share it.  The    *)
(* lock is the mutual exclusion of Mutex and completion_wait a counting    *)
(* semaphore, whose code Synch models.  The controller is external: its    *)
(* registers, its devices and its interrupt line.  Times are not modelled: *)
(* a wait ends when what it polls for holds, or when the device fails.     *)
(***************************************************************************)
EXTENDS Integers

CONSTANTS User, NoUser, Sector, Data, Blank, Broken

ASSUME NoUserAssumption == NoUser \notin User

Dev == {0, 1}

VARIABLES chan,      \* the driver's struct channel: lock, expecting_interrupt, completion_wait
          is_ata, capacity,
          at,        \* where each thread is
          job,       \* the call each thread makes
          buffer,    \* the sector each thread has read
          ctl,       \* the controller: selected device and sector, state, command, data, irq
          media,     \* what the sectors of each device hold
          signature, \* what each device shows after a reset
          boot,      \* how far disk_init is
          panicked

dkvars == <<chan, is_ata, capacity, at, job, buffer, ctl, media, signature, boot, panicked>>

NoJob == [op |-> "none", dev |-> 0, sec |-> 0, data |-> Blank]
Job == [op : {"read"}, dev : Dev, sec : Sector, data : {Blank}] \cup [op : {"write"}, dev : Dev, sec : Sector, data : Data]

(***************************************************************************)
(* The controller.  A command makes it busy; then it wants data or has it; *)
(* it interrupts when a read is ready and when a write is done.  Reading   *)
(* the status register clears the interrupt.                               *)
(***************************************************************************)
Complete ==
  /\ ctl.state = "busy"
  /\ \/ /\ ctl.cmd = "read"
        /\ ctl' = [ctl EXCEPT !.state = "drq", !.data = media[ctl.dev][ctl.lba], !.irq = TRUE]
        /\ UNCHANGED media
     \/ /\ ctl.cmd = "identify"
        /\ ctl' = [ctl EXCEPT !.state = "drq", !.irq = TRUE]
        /\ UNCHANGED media
     \/ /\ ctl.cmd = "write"
        /\ ctl' = [ctl EXCEPT !.state = "drq"]
        /\ UNCHANGED media
     \/ /\ ctl.cmd = "store"
        /\ media' = [media EXCEPT ![ctl.dev][ctl.lba] = ctl.data]
        /\ ctl' = [ctl EXCEPT !.state = "idle", !.irq = TRUE]
     \/ /\ ctl.dev \in Broken /\ ctl.cmd \in {"read", "write", "identify"}
        /\ ctl' = [ctl EXCEPT !.state = "idle", !.irq = TRUE]
        /\ UNCHANGED media
  /\ UNCHANGED <<chan, is_ata, capacity, at, job, buffer, signature, boot, panicked>>

(* Variant: the interrupt wakes a waiter whether it is expected or not. *)
interrupt_handler_always ==
  /\ ctl.irq /\ ~panicked
  /\ ctl' = [ctl EXCEPT !.irq = FALSE]
  /\ chan' = [chan EXCEPT !.completion_wait = @ + 1]
  /\ UNCHANGED <<is_ata, capacity, at, job, buffer, media, signature, boot, panicked>>

(* An unexpected interrupt is reported and otherwise ignored. *)
interrupt_handler ==
  /\ ctl.irq /\ ~panicked
  /\ ctl' = [ctl EXCEPT !.irq = FALSE]
  /\ chan' = IF chan.expecting_interrupt THEN [chan EXCEPT !.completion_wait = @ + 1] ELSE chan
  /\ UNCHANGED <<is_ata, capacity, at, job, buffer, media, signature, boot, panicked>>

(***************************************************************************)
(* What both the calls and disk_init do to the channel.                    *)
(***************************************************************************)
wait_until_idle == ctl.state = "idle"
NotBusy == ctl.state # "busy"
DataReady == ctl.state = "drq"
(* Its callers read the status register too, which clears a pending interrupt. *)
select_device(d) == [ctl EXCEPT !.dev = d, !.irq = FALSE]
issue_pio_command(c, cmd) == [c EXCEPT !.cmd = cmd, !.state = "busy"]
sema_down == chan.completion_wait > 0

(***************************************************************************)
(* disk_init: reset, which may raise an interrupt, check the types, then   *)
(* identify each device that is an ATA disk.                               *)
(***************************************************************************)
reset_channel ==
  /\ boot = "reset" /\ NotBusy
  /\ boot' = "check0"
  /\ \E raised \in BOOLEAN : ctl' = [ctl EXCEPT !.dev = 0, !.irq = raised]
  /\ UNCHANGED <<chan, is_ata, capacity, at, job, buffer, media, signature, panicked>>

(* The type by the signature; the first device also tells whether a second may exist. *)
TypeOf(d) ==
  LET s == signature[d]
  IN  IF (s.error # 1 /\ (s.error # 129 \/ d = 1)) \/ ~s.ready
      THEN [is_ata |-> FALSE, more |-> s.error # 129]
      ELSE [is_ata |-> s.ata, more |-> TRUE]

check_device_type(d) ==
  /\ boot = IF d = 0 THEN "check0" ELSE "check1"
  /\ boot' = IF d = 0 /\ TypeOf(d).more THEN "check1" ELSE "identify0"
  /\ ctl' = select_device(d)
  /\ is_ata' = [is_ata EXCEPT ![d] = TypeOf(d).is_ata]
  /\ UNCHANGED <<chan, capacity, at, job, buffer, media, signature, panicked>>

NextDevice(d) == IF d = 0 THEN "identify1" ELSE "ready"

identify_ata_device(d) ==
  /\ boot = IF d = 0 THEN "identify0" ELSE "identify1"
  /\ IF ~is_ata[d]
     THEN boot' = NextDevice(d) /\ UNCHANGED <<chan, ctl>>
     ELSE /\ wait_until_idle
          /\ boot' = IF d = 0 THEN "wait0" ELSE "wait1"
          /\ chan' = [chan EXCEPT !.expecting_interrupt = TRUE]
          /\ ctl' = issue_pio_command(select_device(d), "identify")
  /\ UNCHANGED <<is_ata, capacity, at, job, buffer, media, signature, panicked>>

(* Variant: a device that does not answer stays a disk. *)
IdentifyAnswerKept(d) ==
  /\ boot = (IF d = 0 THEN "wait0" ELSE "wait1") /\ sema_down /\ NotBusy
  /\ boot' = NextDevice(d)
  /\ chan' = [chan EXCEPT !.completion_wait = @ - 1]
  /\ capacity' = [capacity EXCEPT ![d] = IF DataReady THEN 1 ELSE 0]
  /\ ctl' = [ctl EXCEPT !.state = "idle"]
  /\ UNCHANGED <<is_ata, at, job, buffer, media, signature, panicked>>

(* A device that does not offer its identity is no disk. *)
IdentifyAnswer(d) ==
  /\ boot = (IF d = 0 THEN "wait0" ELSE "wait1") /\ sema_down /\ NotBusy
  /\ boot' = NextDevice(d)
  /\ chan' = [chan EXCEPT !.completion_wait = @ - 1]
  /\ is_ata' = [is_ata EXCEPT ![d] = DataReady]
  /\ capacity' = [capacity EXCEPT ![d] = IF DataReady THEN 1 ELSE 0]
  /\ ctl' = [ctl EXCEPT !.state = "idle"]
  /\ UNCHANGED <<at, job, buffer, media, signature, panicked>>

(***************************************************************************)
(* disk_read and disk_write on a disk that disk_get returns.               *)
(***************************************************************************)
SetAt(t, place) == at' = [at EXCEPT ![t] = place]

CallDisk(t) ==
  /\ boot = "ready" /\ at[t] = "out" /\ ~panicked
  /\ \E j \in Job : is_ata[j.dev] /\ job' = [job EXCEPT ![t] = j]
  /\ SetAt(t, "acquire")
  /\ buffer' = [buffer EXCEPT ![t] = Blank]
  /\ UNCHANGED <<chan, is_ata, capacity, ctl, media, signature, boot, panicked>>

(* Variant: the channel is not locked. *)
lock_acquire_not(t) ==
  /\ at[t] = "acquire" /\ ~panicked
  /\ chan' = [chan EXCEPT !.lock = t]
  /\ SetAt(t, "select")
  /\ UNCHANGED <<is_ata, capacity, job, buffer, ctl, media, signature, boot, panicked>>

lock_acquire(t) ==
  /\ at[t] = "acquire" /\ ~panicked
  /\ chan.lock = NoUser
  /\ chan' = [chan EXCEPT !.lock = t]
  /\ SetAt(t, "select")
  /\ UNCHANGED <<is_ata, capacity, job, buffer, ctl, media, signature, boot, panicked>>

select_sector(t) ==
  /\ at[t] = "select" /\ ~panicked /\ wait_until_idle
  /\ ctl' = [select_device(job[t].dev) EXCEPT !.lba = job[t].sec]
  /\ SetAt(t, "issue")
  /\ UNCHANGED <<chan, is_ata, capacity, job, buffer, media, signature, boot, panicked>>

(* Variant: a write waits for its interrupt before it gives its data. *)
issue_and_wait(t) ==
  /\ at[t] = "issue" /\ ~panicked
  /\ chan' = [chan EXCEPT !.expecting_interrupt = TRUE]
  /\ ctl' = issue_pio_command(ctl, job[t].op)
  /\ SetAt(t, "wait")
  /\ UNCHANGED <<is_ata, capacity, job, buffer, media, signature, boot, panicked>>

issue(t) ==
  /\ at[t] = "issue" /\ ~panicked
  /\ chan' = [chan EXCEPT !.expecting_interrupt = TRUE]
  /\ ctl' = issue_pio_command(ctl, job[t].op)
  /\ SetAt(t, IF job[t].op = "read" THEN "wait" ELSE "poll")
  /\ UNCHANGED <<is_ata, capacity, job, buffer, media, signature, boot, panicked>>

(* Waiting for the interrupt: a read has its data then, a write is over. *)
AwaitInterrupt(t) ==
  /\ at[t] = "wait" /\ ~panicked /\ sema_down
  /\ chan' = [chan EXCEPT !.completion_wait = @ - 1]
  /\ SetAt(t, IF job[t].op = "read" THEN "poll" ELSE "release")
  /\ UNCHANGED <<is_ata, capacity, job, buffer, ctl, media, signature, boot, panicked>>

(* wait_while_busy, and the data register in one direction or the other. *)
Transfer(t) ==
  /\ at[t] = "poll" /\ ~panicked /\ NotBusy
  /\ \/ /\ ~DataReady
        /\ panicked' = TRUE /\ UNCHANGED <<at, buffer, ctl>>
     \/ /\ DataReady /\ job[t].op = "read"
        /\ buffer' = [buffer EXCEPT ![t] = ctl.data]
        /\ ctl' = [ctl EXCEPT !.state = "idle"]
        /\ SetAt(t, "release") /\ UNCHANGED panicked
     \/ /\ DataReady /\ job[t].op = "write"
        /\ ctl' = [ctl EXCEPT !.data = job[t].data, !.cmd = "store", !.state = "busy"]
        /\ SetAt(t, "wait") /\ UNCHANGED <<buffer, panicked>>
  /\ UNCHANGED <<chan, is_ata, capacity, job, media, signature, boot>>

(* read_cnt and write_cnt are statistics and left out. *)
lock_release(t) ==
  /\ at[t] = "release" /\ ~panicked
  /\ chan' = [chan EXCEPT !.lock = NoUser]
  /\ SetAt(t, "out") /\ job' = [job EXCEPT ![t] = NoJob] /\ buffer' = [buffer EXCEPT ![t] = Blank]
  /\ UNCHANGED <<is_ata, capacity, ctl, media, signature, boot, panicked>>

DiskInit ==
  /\ chan = [lock |-> NoUser, expecting_interrupt |-> FALSE, completion_wait |-> 0]
  /\ is_ata = [d \in Dev |-> FALSE] /\ capacity = [d \in Dev |-> 0]
  /\ at = [t \in User |-> "out"] /\ job = [t \in User |-> NoJob] /\ buffer = [t \in User |-> Blank]
  /\ ctl = [dev |-> 0, lba |-> 0, state |-> "idle", cmd |-> "none", data |-> Blank, irq |-> FALSE]
  /\ media = [d \in Dev |-> [s \in Sector |-> Blank]]
  /\ signature \in [Dev -> [error : {0, 1, 129}, ready : BOOLEAN, ata : BOOLEAN]]
  /\ boot = "reset" /\ panicked = FALSE

DiskBoot == reset_channel \/ \E d \in Dev : check_device_type(d) \/ identify_ata_device(d) \/ IdentifyAnswer(d)
DiskStep(t) == select_sector(t) \/ issue(t) \/ AwaitInterrupt(t) \/ Transfer(t) \/ lock_release(t)
DiskNext ==
  \/ Complete \/ interrupt_handler \/ DiskBoot
  \/ \E t \in User : CallDisk(t) \/ lock_acquire(t) \/ DiskStep(t)

DiskSpec == DiskInit /\ [][DiskNext]_dkvars
-----------------------------------------------------------------------------
(***************************************************************************)
(* When a transfer is over, the thread's buffer holds what its sector on   *)
(* its device holds: the registers and the data port that all threads and  *)
(* both devices share are never mixed up.                                  *)
(***************************************************************************)
TransfersRight ==
  \A t \in User : at[t] = "release" =>
    media[job[t].dev][job[t].sec] = IF job[t].op = "read" THEN buffer[t] ELSE job[t].data

(***************************************************************************)
(* Every up of completion_wait belongs to the command that is under way:   *)
(* none is left over for the next one, not even from the reset, and only   *)
(* an unlocked channel or its owner sees it.                               *)
(***************************************************************************)
CompletionMatched ==
  /\ chan.completion_wait \in 0..1
  /\ chan.completion_wait = 1 =>
       \/ \E t \in User : chan.lock = t /\ (at[t] = "wait" \/ (at[t] = "poll" /\ ctl.dev \in Broken))
       \/ boot \in {"wait0", "wait1"}

(* Only a device that has identified itself is a disk, and so gets commands. *)
DisksIdentified ==
  boot = "ready" => \A d \in Dev : is_ata[d] => capacity[d] > 0

(***************************************************************************)
(* No thread waits for an interrupt that will not come: the semaphore is   *)
(* up already, or the driver expects the interrupt of a controller that is *)
(* at work or asks for it.                                                 *)
(***************************************************************************)
InterruptsReach ==
  \A t \in User : at[t] = "wait" =>
    \/ chan.completion_wait = 1
    \/ chan.expecting_interrupt /\ (ctl.irq \/ ctl.state = "busy")

(* The driver and the controller agree on commands, interrupts and disks. *)
DiskProtocol == CompletionMatched /\ InterruptsReach /\ DisksIdentified
=============================================================================

------------------------------- MODULE Input --------------------------------
(***************************************************************************)
(* The interrupt queues of devices/intq.c and what is built on them: the   *)
(* input buffer (devices/input.c), the serial port (devices/serial.c) and  *)
(* the keyboard (devices/kbd.c).  Threads run with interrupts off between  *)
(* the places where they block, so a step is everything up to there.       *)
(*                                                                         *)
(* Bytes are numbered in the order in which they enter a queue, so that    *)
(* what leaves it can be compared; MaxBytes bounds them.  The UART is      *)
(* external: a byte received (DR), an empty transmitter (THRE) and the     *)
(* interrupts its enable register lets through.                            *)
(***************************************************************************)
EXTENDS Integers, Sequences, FiniteSets

CONSTANTS Reader,          \* threads that call input_getc
          Writer,          \* threads that call serial_putc
          Nobody, INTQ_BUFSIZE, MaxBytes

ASSUME InputAssumption ==
  /\ INTQ_BUFSIZE \in Nat /\ INTQ_BUFSIZE >= 2
  /\ Nobody \notin Reader \cup Writer /\ Reader \cap Writer = {}

VARIABLES q,        \* q["rx"], the input buffer, and q["tx"]: buf, head, tail, lock, not_full, not_empty
          place,    \* where each thread is
          mode, ier, uart,
          counts,   \* bytes put into and taken out of the queues
          failed    \* an assertion has failed

ivars == <<q, place, mode, ier, uart, counts, failed>>

next(pos) == (pos + 1) % INTQ_BUFSIZE
intq_empty(x) == x.head = x.tail
intq_full(x) == next(x.head) = x.tail

(* signal: the thread that waits for the condition, if any, is unblocked. *)
Woken(waiter, p) == IF waiter = Nobody THEN p ELSE [p EXCEPT ![waiter] = "woken"]

Put(x, byte) == [x EXCEPT !.buf[x.head] = byte, !.head = next(@), !.not_empty = Nobody]

Taken(x) == [x EXCEPT !.tail = next(@), !.not_full = Nobody]
First(x) == x.buf[x.tail]

(* Variant: receiving stays off once it has been switched off. *)
write_ier_sticky(rx, tx) == [xmit |-> ~intq_empty(tx), recv |-> (mode # "QUEUE" \/ ier.recv) /\ ~intq_full(rx)]

write_ier(rx, tx) == [xmit |-> ~intq_empty(tx), recv |-> ~intq_full(rx)]

(* serial_notify, and the update at the end of every queue operation. *)
Notify(rx, tx) == ier' = IF mode = "QUEUE" THEN write_ier(rx, tx) ELSE ier

Stored(side) == [counts EXCEPT ![side].put = @ + 1]
Number(side) == counts[side].put + 1
Room(side) == counts[side].put < MaxBytes

(***************************************************************************)
(* Blocking, on either queue.  A thread that finds its condition false     *)
(* takes the queue's lock and waits, or blocks on the lock first; when it  *)
(* is woken it releases the lock and looks again.                          *)
(***************************************************************************)
Side(t) == IF t \in Reader THEN "rx" ELSE "tx"
MustWait(t) == IF t \in Reader THEN intq_empty(q["rx"]) ELSE intq_full(q["tx"])

(* wait: the assertion, then the thread is the queue's waiter. *)
Wait(t, x) ==
  IF MustWait(t)
  THEN /\ q' = [q EXCEPT ![Side(t)] = IF t \in Reader THEN [x EXCEPT !.not_empty = t] ELSE [x EXCEPT !.not_full = t]]
       /\ place' = [place EXCEPT ![t] = "asleep"] /\ UNCHANGED failed
  ELSE failed' = TRUE /\ UNCHANGED <<q, place>>

Sleep(t) ==
  /\ MustWait(t)
  /\ IF q[Side(t)].lock = Nobody
     THEN Wait(t, [q[Side(t)] EXCEPT !.lock = t])
     ELSE place' = [place EXCEPT ![t] = "lock"] /\ UNCHANGED <<q, failed>>
  /\ UNCHANGED <<mode, ier, uart, counts>>

Release(t) ==
  /\ place[t] = "woken"
  /\ q' = [q EXCEPT ![Side(t)].lock = Nobody]
  /\ place' = [place EXCEPT ![t] = "try"]
  /\ UNCHANGED <<mode, ier, uart, counts, failed>>

(* A thread that was blocked on the lock gets it, and goes on to wait. *)
Locked(t) ==
  /\ place[t] = "lock" /\ q[Side(t)].lock = Nobody
  /\ Wait(t, [q[Side(t)] EXCEPT !.lock = t])
  /\ UNCHANGED <<mode, ier, uart, counts>>

(***************************************************************************)
(* input_getc by a reader, serial_putc by a writer.                        *)
(***************************************************************************)
CallInput(t) ==
  /\ place[t] = "out" /\ mode = "QUEUE"
  /\ place' = [place EXCEPT ![t] = "try"]
  /\ UNCHANGED <<q, mode, ier, uart, counts, failed>>

input_getc(t) ==
  /\ t \in Reader /\ place[t] = "try" /\ ~intq_empty(q["rx"])
  /\ counts' = [counts EXCEPT !["rx"].got = IF First(q["rx"]) = @ + 1 THEN @ + 1 ELSE -1]
  /\ q' = [q EXCEPT !["rx"] = Taken(@)]
  /\ place' = [Woken(q["rx"].not_full, place) EXCEPT ![t] = "out"]
  /\ Notify(q'["rx"], q'["tx"])
  /\ UNCHANGED <<mode, uart, failed>>

(* The transmitter gets a byte; c counts it in its turn or marks the disorder. *)
Sent(c, byte) == [c EXCEPT !["tx"].got = IF byte = @ + 1 THEN @ + 1 ELSE -1]

(* Interrupts on: the caller may wait for room. *)
serial_putc(t) ==
  /\ t \in Writer /\ place[t] = "try" /\ ~intq_full(q["tx"]) /\ Room("tx")
  /\ q' = [q EXCEPT !["tx"] = Put(@, Number("tx"))]
  /\ counts' = Stored("tx")
  /\ place' = [Woken(q["tx"].not_empty, place) EXCEPT ![t] = "out"]
  /\ Notify(q'["rx"], q'["tx"])
  /\ UNCHANGED <<mode, uart, failed>>

(* Variant: the byte that is polled out is the new one. *)
serial_putc_polled_new(t) ==
  /\ t \in Writer /\ place[t] = "out" /\ mode = "QUEUE" /\ Room("tx")
  /\ IF intq_full(q["tx"])
     THEN counts' = Sent(Stored("tx"), Number("tx")) /\ UNCHANGED <<q, place>>
     ELSE /\ q' = [q EXCEPT !["tx"] = Put(@, Number("tx"))]
          /\ counts' = Stored("tx")
          /\ UNCHANGED place
  /\ Notify(q'["rx"], q'["tx"])
  /\ UNCHANGED <<mode, uart, failed>>

(* Interrupts off: a full queue's first byte is sent by polling to make room. *)
serial_putc_polled(t) ==
  /\ t \in Writer /\ place[t] = "out" /\ mode = "QUEUE" /\ Room("tx")
  /\ LET full == intq_full(q["tx"])
         x == IF full THEN Taken(q["tx"]) ELSE q["tx"]
     IN  /\ q' = [q EXCEPT !["tx"] = Put(x, Number("tx"))]
         /\ counts' = IF full THEN Sent(Stored("tx"), First(q["tx"])) ELSE Stored("tx")
         /\ place' = IF full THEN Woken(q["tx"].not_full, place) ELSE place
  /\ Notify(q'["rx"], q'["tx"])
  /\ UNCHANGED <<mode, uart, failed>>

(* Before the queues are in use a byte is polled out at once. *)
putc_poll ==
  /\ mode # "QUEUE" /\ Room("tx")
  /\ mode' = "POLL"
  /\ counts' = Sent(Stored("tx"), Number("tx"))
  /\ UNCHANGED <<q, place, ier, uart, failed>>

serial_init_queue ==
  /\ mode # "QUEUE"
  /\ mode' = "QUEUE"
  /\ ier' = write_ier(q["rx"], q["tx"])
  /\ UNCHANGED <<q, place, uart, counts, failed>>

(* serial_flush polls out one byte after the other; a waiter is woken by the first. *)
serial_flush ==
  /\ mode = "QUEUE" /\ ~intq_empty(q["tx"])
  /\ LET x == q["tx"]
         n == (x.head - x.tail) % INTQ_BUFSIZE
         inOrder == \A i \in 0..(n - 1) : x.buf[(x.tail + i) % INTQ_BUFSIZE] = counts["tx"].got + 1 + i
     IN  /\ counts' = [counts EXCEPT !["tx"].got = IF inOrder THEN @ + n ELSE -1]
         /\ q' = [q EXCEPT !["tx"] = [x EXCEPT !.tail = x.head, !.not_full = Nobody]]
         /\ place' = Woken(x.not_full, place)
  /\ UNCHANGED <<mode, ier, uart, failed>>

(***************************************************************************)
(* serial_interrupt: bytes are received while there is room and sent while *)
(* the transmitter is empty; each register holds one byte.                 *)
(***************************************************************************)
serial_interrupt ==
  /\ mode = "QUEUE" /\ ~failed
  /\ (uart.dr /\ ier.recv) \/ (uart.thre /\ ier.xmit)
  /\ LET receive == uart.dr /\ ~intq_full(q["rx"])
         send == uart.thre /\ ~intq_empty(q["tx"])
         c == IF receive THEN Stored("rx") ELSE counts
     IN  /\ q' = [s \in {"rx", "tx"} |-> IF s = "rx" THEN IF receive THEN Put(q["rx"], Number("rx")) ELSE q["rx"]
                                        ELSE IF send THEN Taken(q["tx"]) ELSE q["tx"]]
         /\ place' = LET p == IF receive THEN Woken(q["rx"].not_empty, place) ELSE place
                     IN  IF send THEN Woken(q["tx"].not_full, p) ELSE p
         /\ counts' = IF send THEN Sent(c, First(q["tx"])) ELSE c
         /\ uart' = [dr |-> uart.dr /\ ~receive, thre |-> uart.thre /\ ~send]
  /\ ier' = write_ier(q'["rx"], q'["tx"])
  /\ UNCHANGED <<mode, failed>>

(* keyboard_interrupt with a key that gives a character; Keyboard models which. *)
keyboard_interrupt ==
  /\ mode = "QUEUE" /\ ~failed
  /\ ~intq_full(q["rx"]) /\ Room("rx")
  /\ q' = [q EXCEPT !["rx"] = Put(@, Number("rx"))]
  /\ counts' = Stored("rx")
  /\ place' = Woken(q["rx"].not_empty, place)
  /\ Notify(q'["rx"], q'["tx"])
  /\ UNCHANGED <<mode, uart, failed>>

(* The UART: a byte arrives, the transmitter is ready again. *)
ByteArrives ==
  /\ ~uart.dr /\ Room("rx")
  /\ uart' = [uart EXCEPT !.dr = TRUE]
  /\ UNCHANGED <<q, place, mode, ier, counts, failed>>
TransmitterReady ==
  /\ ~uart.thre
  /\ uart' = [uart EXCEPT !.thre = TRUE]
  /\ UNCHANGED <<q, place, mode, ier, counts, failed>>

intq_init ==
  [buf |-> [i \in 0..(INTQ_BUFSIZE - 1) |-> 0], head |-> 0, tail |-> 0,
   lock |-> Nobody, not_full |-> Nobody, not_empty |-> Nobody]

InputInit ==
  /\ q = [s \in {"rx", "tx"} |-> intq_init]
  /\ place = [t \in Reader \cup Writer |-> "out"]
  /\ mode = "UNINIT" /\ ier = [xmit |-> FALSE, recv |-> FALSE] /\ uart = [dr |-> FALSE, thre |-> TRUE]
  /\ counts = [s \in {"rx", "tx"} |-> [put |-> 0, got |-> 0]]
  /\ failed = FALSE

InputStep(t) ==
  /\ ~failed
  /\ input_getc(t) \/ serial_putc(t) \/ Release(t) \/ Locked(t) \/ (place[t] = "try" /\ Sleep(t))
InputCall(t) == ~failed /\ (CallInput(t) \/ serial_putc_polled(t))

InputNext ==
  \/ serial_interrupt \/ keyboard_interrupt \/ ByteArrives \/ TransmitterReady
  \/ putc_poll \/ serial_init_queue \/ serial_flush
  \/ \E t \in Reader \cup Writer : InputStep(t) \/ InputCall(t)

InputSpec == InputInit /\ [][InputNext]_ivars
-----------------------------------------------------------------------------
(***************************************************************************)
(* Bytes leave each queue in the order they came in, each once: past the   *)
(* end of the circular buffer, when a thread polls a byte out of a full    *)
(* queue, and when the queue is flushed.                                   *)
(***************************************************************************)
BytesInOrder ==
  \A s \in {"rx", "tx"} :
    /\ counts[s].got >= 0
    /\ counts[s].put - counts[s].got = (q[s].head - q[s].tail) % INTQ_BUFSIZE

(***************************************************************************)
(* A thread sleeps on a queue only while its condition is false, and the   *)
(* interrupt that will change that is enabled: a full transmit queue sends *)
(* and an empty input buffer receives.                                     *)
(***************************************************************************)
SleeperWillWake ==
  /\ \A t \in Reader \cup Writer : place[t] = "asleep" => MustWait(t)
  /\ mode = "QUEUE" => /\ ~intq_empty(q["tx"]) => ier.xmit
                       /\ ~intq_full(q["rx"]) => ier.recv
=============================================================================

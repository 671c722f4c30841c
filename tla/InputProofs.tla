---------------------------- MODULE InputProofs -----------------------------
(***************************************************************************)
(* Proofs for Input, for any size of the interrupt queues and any number of*)
(* readers and writers.                                                    *)
(*                                                                         *)
(* A queue holds exactly the bytes put and not yet taken, in their order   *)
(* around the ring; a thread that sleeps on a queue owns its lock and is   *)
(* the one waiter that the queue records.                                  *)
(***************************************************************************)
EXTENDS Input, TLAPS

QThread == Reader \cup Writer
Queue == [buf : [0..(INTQ_BUFSIZE - 1) -> Int], head : 0..(INTQ_BUFSIZE - 1), tail : 0..(INTQ_BUFSIZE - 1),
          lock : QThread \cup {Nobody}, not_full : QThread \cup {Nobody}, not_empty : QThread \cup {Nobody}]
Count == [put : Int, got : Int]

(* The bytes in a queue are the ones put and not yet taken, in their order. *)
Used(x) == (x.head - x.tail) % INTQ_BUFSIZE
Ring(x, c) ==
  /\ c.got >= 0 /\ c.put - c.got = Used(x)
  /\ \A i \in 0..(Used(x) - 1) : x.buf[(x.tail + i) % INTQ_BUFSIZE] = c.got + 1 + i

InputType ==
  /\ q \in [{"rx", "tx"} -> Queue] /\ counts \in [{"rx", "tx"} -> Count]
  /\ place \in [QThread -> {"out", "try", "lock", "asleep", "woken"}]
  /\ mode \in {"UNINIT", "POLL", "QUEUE"} /\ ier \in [xmit : BOOLEAN, recv : BOOLEAN]

RingsOK ==
  /\ Ring(q["rx"], counts["rx"]) /\ Ring(q["tx"], counts["tx"])
  /\ mode # "QUEUE" => intq_empty(q["rx"]) /\ intq_empty(q["tx"]) /\ \A t \in QThread : place[t] = "out"

(* A sleeper owns the lock of its queue and is the one its condition wakes. *)
Waiter(t) == IF t \in Reader THEN q["rx"].not_empty ELSE q["tx"].not_full
SleepOK(t) ==
  /\ place[t] \in {"asleep", "woken"} => q[Side(t)].lock = t
  /\ place[t] = "asleep" => MustWait(t) /\ Waiter(t) = t
  /\ Waiter(t) = t => place[t] = "asleep"

WaitersOK ==
  /\ q["rx"].not_full = Nobody /\ q["tx"].not_empty = Nobody
  /\ q["rx"].not_empty \in Reader \cup {Nobody} /\ q["tx"].not_full \in Writer \cup {Nobody}
  /\ \A t \in QThread : SleepOK(t)

EnabledOK ==
  mode = "QUEUE" => (~intq_empty(q["tx"]) => ier.xmit) /\ (~intq_full(q["rx"]) => ier.recv)

InputInv == InputType /\ RingsOK /\ WaitersOK /\ EnabledOK

LEMMA Modulo ==
  ASSUME NEW B \in Nat, B > 0, NEW a \in Int
  PROVE  /\ a \in 0..(B - 1) => a % B = a
         /\ a \in B..(2 * B - 1) => a % B = a - B
         /\ a \in (-B)..(-1) => a % B = a + B
  OBVIOUS

LEMMA RingArithmetic ==
  ASSUME NEW h \in 0..(INTQ_BUFSIZE - 1), NEW t \in 0..(INTQ_BUFSIZE - 1), NEW i \in 0..(INTQ_BUFSIZE - 1)
  PROVE  /\ next(h) = IF h + 1 = INTQ_BUFSIZE THEN 0 ELSE h + 1
         /\ (h - t) % INTQ_BUFSIZE = IF h >= t THEN h - t ELSE h - t + INTQ_BUFSIZE
         /\ (t + i) % INTQ_BUFSIZE = IF t + i < INTQ_BUFSIZE THEN t + i ELSE t + i - INTQ_BUFSIZE
<1> DEFINE B == INTQ_BUFSIZE
<1>1. B \in Nat /\ B > 0
  BY InputAssumption
<1> HIDE DEF B
<1>2. h \in 0..(B - 1) /\ t \in 0..(B - 1) /\ i \in 0..(B - 1)
  BY DEF B
<1>3. (h + 1) % B = IF h + 1 = B THEN 0 ELSE h + 1
  <2>1. h + 1 \in 0..(B - 1) \/ h + 1 = B
    BY <1>1, <1>2
  <2> QED
    BY <1>1, <1>2, <2>1, Modulo
<1>4. (h - t) % B = IF h >= t THEN h - t ELSE h - t + B
  <2>1. h - t \in 0..(B - 1) \/ h - t \in (-B)..(-1)
    BY <1>1, <1>2
  <2> QED
    BY <1>1, <1>2, <2>1, Modulo
<1>5. (t + i) % B = IF t + i < B THEN t + i ELSE t + i - B
  <2>1. t + i \in 0..(B - 1) \/ t + i \in B..(2 * B - 1)
    BY <1>1, <1>2
  <2> QED
    BY <1>1, <1>2, <2>1, Modulo
<1> QED
  BY <1>3, <1>4, <1>5 DEF B, next

LEMMA NextInside ==
  ASSUME NEW h \in 0..(INTQ_BUFSIZE - 1) PROVE next(h) \in 0..(INTQ_BUFSIZE - 1)
<1>1. next(h) = IF h + 1 = INTQ_BUFSIZE THEN 0 ELSE h + 1
  BY RingArithmetic
<1> QED
  BY <1>1, InputAssumption

(* A full queue holds one byte less than its size, an empty one none. *)
LEMMA UsedFacts ==
  ASSUME NEW x \in Queue
  PROVE  /\ Used(x) \in 0..(INTQ_BUFSIZE - 1)
         /\ Used(x) = IF x.head >= x.tail THEN x.head - x.tail ELSE x.head - x.tail + INTQ_BUFSIZE
         /\ intq_empty(x) <=> Used(x) = 0
         /\ intq_full(x) <=> Used(x) = INTQ_BUFSIZE - 1
<1> DEFINE h == x.head
           t == x.tail
           B == INTQ_BUFSIZE
<1>1. h \in 0..(B - 1) /\ t \in 0..(B - 1) /\ B \in Nat /\ B >= 2
  BY InputAssumption DEF Queue
<1>2. /\ next(h) = IF h + 1 = B THEN 0 ELSE h + 1
      /\ (h - t) % B = IF h >= t THEN h - t ELSE h - t + B
  BY <1>1, RingArithmetic, Zenon
<1>3. Used(x) = (h - t) % B /\ (intq_empty(x) <=> h = t) /\ (intq_full(x) <=> next(h) = t)
  BY DEF Used, intq_empty, intq_full
<1> HIDE DEF h, t, B
<1>4. /\ Used(x) \in 0..(B - 1)
      /\ Used(x) = IF h >= t THEN h - t ELSE h - t + B
      /\ intq_empty(x) <=> Used(x) = 0
      /\ intq_full(x) <=> Used(x) = B - 1
  BY <1>1, <1>2, <1>3
<1> QED
  BY <1>4 DEF h, t, B

(* The fields of a queue after intq_putc and intq_getc. *)
LEMMA PutFields ==
  ASSUME NEW x \in Queue, NEW byte \in Int
  PROVE  /\ Put(x, byte) \in Queue
         /\ Put(x, byte).head = next(x.head) /\ Put(x, byte).tail = x.tail
         /\ Put(x, byte).lock = x.lock /\ Put(x, byte).not_full = x.not_full /\ Put(x, byte).not_empty = Nobody
         /\ \A j \in 0..(INTQ_BUFSIZE - 1) : Put(x, byte).buf[j] = IF j = x.head THEN byte ELSE x.buf[j]
<1>1. x.head \in 0..(INTQ_BUFSIZE - 1) /\ x.buf \in [0..(INTQ_BUFSIZE - 1) -> Int] /\ INTQ_BUFSIZE \in Nat /\ INTQ_BUFSIZE >= 2
  BY InputAssumption DEF Queue
<1>2. next(x.head) \in 0..(INTQ_BUFSIZE - 1)
  BY <1>1, NextInside
<1> QED
  BY <1>1, <1>2, Zenon DEF Put, Queue

LEMMA TakenFields ==
  ASSUME NEW x \in Queue
  PROVE  /\ Taken(x) \in Queue
         /\ Taken(x).head = x.head /\ Taken(x).tail = next(x.tail)
         /\ Taken(x).lock = x.lock /\ Taken(x).not_full = Nobody /\ Taken(x).not_empty = x.not_empty
         /\ Taken(x).buf = x.buf
<1>1. x.tail \in 0..(INTQ_BUFSIZE - 1) /\ INTQ_BUFSIZE \in Nat /\ INTQ_BUFSIZE >= 2
  BY InputAssumption DEF Queue
<1>2. next(x.tail) \in 0..(INTQ_BUFSIZE - 1)
  BY <1>1, NextInside
<1> QED
  BY <1>1, <1>2, Zenon DEF Taken, Queue

(* intq_putc appends the next byte. *)
LEMMA PutRing ==
  ASSUME NEW x \in Queue, NEW c \in Count, NEW d \in Count, Ring(x, c), ~intq_full(x), d.put = c.put + 1, d.got = c.got
  PROVE  Ring(Put(x, c.put + 1), d) /\ Used(Put(x, c.put + 1)) = Used(x) + 1
<1> DEFINE y == Put(x, c.put + 1)
           B == INTQ_BUFSIZE
           n == Used(x)
<1>1. /\ y \in Queue /\ y.head = next(x.head) /\ y.tail = x.tail
      /\ \A j \in 0..(B - 1) : y.buf[j] = IF j = x.head THEN c.put + 1 ELSE x.buf[j]
  <2>1. c.put + 1 \in Int
    BY DEF Count
  <2> QED
    BY <2>1, PutFields
<1>2. x.head \in 0..(B - 1) /\ x.tail \in 0..(B - 1) /\ B \in Nat /\ B >= 2 /\ c.put \in Int /\ c.got \in Int
  BY InputAssumption DEF Queue, Count
<1>3. /\ n \in 0..(B - 1) /\ n # B - 1
      /\ n = IF x.head >= x.tail THEN x.head - x.tail ELSE x.head - x.tail + B
  BY UsedFacts
<1>4. Used(y) = IF y.head >= y.tail THEN y.head - y.tail ELSE y.head - y.tail + B
  BY <1>1, UsedFacts
<1>5. next(x.head) = IF x.head + 1 = B THEN 0 ELSE x.head + 1
  BY <1>2, RingArithmetic, Zenon
<1>6. c.got >= 0 /\ c.put - c.got = n /\ \A i \in 0..(n - 1) : x.buf[(x.tail + i) % B] = c.got + 1 + i
  BY DEF Ring
<1> HIDE DEF y, B, n
<1>7. Used(y) = n + 1
  BY <1>1, <1>2, <1>3, <1>4, <1>5
<1>8. ASSUME NEW i \in 0..n PROVE y.buf[(y.tail + i) % B] = c.got + 1 + i
  <2> DEFINE j == (x.tail + i) % B
  <2>1. i \in 0..(B - 1)
    BY <1>2, <1>3
  <2>2. j = IF x.tail + i < B THEN x.tail + i ELSE x.tail + i - B
    BY <1>2, <2>1, RingArithmetic DEF B
  <2>3. j \in 0..(B - 1)
    BY <1>2, <2>1, <2>2
  <2>4. y.buf[j] = IF j = x.head THEN c.put + 1 ELSE x.buf[j]
    BY <1>1, <2>3
  <2>5. j = x.head <=> i = n
    BY <1>2, <1>3, <2>1, <2>2
  <2>6. i # n => x.buf[j] = c.got + 1 + i
    BY <1>3, <1>6
  <2> HIDE DEF j
  <2>7. y.buf[j] = c.got + 1 + i
    BY <1>2, <1>3, <1>6, <2>4, <2>5, <2>6
  <2> QED
    BY <1>1, <2>7 DEF j
<1> QED
  BY <1>2, <1>3, <1>6, <1>7, <1>8 DEF Ring, y, B, n

(* intq_getc takes the oldest byte. *)
LEMMA TakeRing ==
  ASSUME NEW x \in Queue, NEW c \in Count, NEW d \in Count, Ring(x, c), ~intq_empty(x), d.put = c.put, d.got = c.got + 1
  PROVE  First(x) = c.got + 1 /\ Ring(Taken(x), d) /\ Used(Taken(x)) = Used(x) - 1
<1> DEFINE y == Taken(x)
           B == INTQ_BUFSIZE
           n == Used(x)
<1>1. y \in Queue /\ y.head = x.head /\ y.tail = next(x.tail) /\ y.buf = x.buf
  BY TakenFields
<1>2. x.head \in 0..(B - 1) /\ x.tail \in 0..(B - 1) /\ B \in Nat /\ B >= 2 /\ c.put \in Int /\ c.got \in Int
  BY InputAssumption DEF Queue, Count
<1>3. /\ n \in 0..(B - 1) /\ n # 0
      /\ n = IF x.head >= x.tail THEN x.head - x.tail ELSE x.head - x.tail + B
  BY UsedFacts
<1>4. Used(y) = IF y.head >= y.tail THEN y.head - y.tail ELSE y.head - y.tail + B
  BY <1>1, UsedFacts
<1>5. next(x.tail) = IF x.tail + 1 = B THEN 0 ELSE x.tail + 1
  BY <1>2, RingArithmetic, Zenon
<1>6. c.got >= 0 /\ c.put - c.got = n /\ \A i \in 0..(n - 1) : x.buf[(x.tail + i) % B] = c.got + 1 + i
  BY DEF Ring
<1>11. 0 \in 0..(B - 1) /\ x.tail + 0 = x.tail /\ (x.tail + 0) % B = IF x.tail + 0 < B THEN x.tail + 0 ELSE x.tail + 0 - B
  BY <1>2, RingArithmetic
<1> HIDE DEF y, B, n
<1>7. Used(y) = n - 1
  BY <1>1, <1>2, <1>3, <1>4, <1>5
<1>8. x.buf[x.tail] = c.got + 1
  <2>1. x.buf[(x.tail + 0) % B] = c.got + 1 + 0
    BY <1>3, <1>6, <1>2
  <2> QED
    BY <2>1, <1>11, <1>2
<1>9. ASSUME NEW i \in 0..(n - 2) PROVE y.buf[(y.tail + i) % B] = c.got + 2 + i
  <2>1. i \in 0..(B - 1) /\ i + 1 \in 0..(B - 1) /\ y.tail \in 0..(B - 1) /\ i + 1 \in 0..(n - 1)
    BY <1>1, <1>2, <1>3, <1>5
  <2>2. /\ (y.tail + i) % B = IF y.tail + i < B THEN y.tail + i ELSE y.tail + i - B
        /\ (x.tail + (i + 1)) % B = IF x.tail + (i + 1) < B THEN x.tail + (i + 1) ELSE x.tail + (i + 1) - B
    BY <1>2, <2>1, RingArithmetic, ZenonT(60) DEF B
  <2>3. (y.tail + i) % B = (x.tail + (i + 1)) % B
    BY <1>1, <1>2, <1>3, <1>5, <2>1, <2>2
  <2>4. x.buf[(x.tail + (i + 1)) % B] = c.got + 1 + (i + 1)
    BY <1>6, <2>1
  <2> QED
    BY <1>1, <1>2, <2>1, <2>3, <2>4
<1>10. ASSUME NEW i \in 0..((n - 1) - 1) PROVE y.buf[(y.tail + i) % B] = (c.got + 1) + 1 + i
  BY <1>2, <1>3, <1>9, <1>10
<1> QED
  BY <1>2, <1>3, <1>6, <1>7, <1>8, <1>10 DEF Ring, First, y, B, n

(* Only the bytes and their places matter to a ring. *)
LEMMA SameRing ==
  ASSUME NEW x, NEW y, NEW c, Ring(x, c), y.buf = x.buf, y.head = x.head, y.tail = x.tail
  PROVE  Ring(y, c)
  BY DEF Ring, Used

LEMMA FlushRing ==
  ASSUME NEW x \in Queue, NEW y \in Queue, NEW c \in Count, NEW d \in Count, Ring(x, c), y.head = x.head, y.tail = x.head,
         d.put = c.put, d.got = c.got + Used(x)
  PROVE  Ring(y, d)
<1>1. Used(y) = 0 /\ x.head \in Int
  <2>1. y.head >= y.tail /\ y.head - y.tail = 0
    BY InputAssumption DEF Queue
  <2> QED
    BY <2>1, UsedFacts, InputAssumption DEF Queue
<1>2. Used(x) \in Int /\ Used(x) >= 0
  BY UsedFacts, InputAssumption
<1> QED
  BY <1>1, <1>2 DEF Ring, Count

LEMMA WokenFacts ==
  ASSUME InputType, NEW w \in QThread \cup {Nobody}
  PROVE  /\ Woken(w, place) \in [QThread -> {"out", "try", "lock", "asleep", "woken"}]
         /\ \A u \in QThread : Woken(w, place)[u] = IF u = w THEN "woken" ELSE place[u]
  BY InputAssumption DEF InputType, Woken, QThread

LEMMA InputInitial == InputInit => InputInv
<1> SUFFICES ASSUME InputInit PROVE InputInv
  OBVIOUS
<1> DEFINE B == INTQ_BUFSIZE
<1>0. B \in Nat /\ B >= 2
  BY InputAssumption
<1>1. intq_init \in Queue /\ intq_init.head = 0 /\ intq_init.tail = 0 /\ intq_init.lock = Nobody
      /\ intq_init.not_full = Nobody /\ intq_init.not_empty = Nobody
  BY <1>0 DEF intq_init, Queue
<1>2. q["rx"] = intq_init /\ q["tx"] = intq_init /\ counts["rx"] = [put |-> 0, got |-> 0] /\ counts["tx"] = [put |-> 0, got |-> 0]
  BY DEF InputInit
<1>3. InputType
  BY <1>1 DEF InputInit, InputType, QThread, Count
<1>4. Used(intq_init) = 0
  BY <1>1, UsedFacts DEF intq_empty
<1>5. Ring(intq_init, [put |-> 0, got |-> 0])
  BY <1>4 DEF Ring
<1>6. RingsOK
  BY <1>1, <1>2, <1>5 DEF RingsOK, InputInit, intq_empty, QThread
<1>7. ASSUME NEW t \in QThread PROVE SleepOK(t)
  BY <1>1, <1>2, <1>7, InputAssumption DEF SleepOK, InputInit, QThread, Waiter
<1>8. WaitersOK /\ EnabledOK
  BY <1>1, <1>2, <1>7 DEF WaitersOK, EnabledOK, InputInit
<1> QED
  BY <1>3, <1>6, <1>8 DEF InputInv

(***************************************************************************)
(* Sleepers across a step on the queues: a condition that is signalled     *)
(* wakes its waiter, and whoever sleeps on has to.                         *)
(***************************************************************************)
LEMMA WaitersFrame ==
  ASSUME WaitersOK,
         \A s \in {"rx", "tx"} : q'[s].lock = q[s].lock,
         q'["rx"].not_full = Nobody, q'["tx"].not_empty = Nobody,
         q'["rx"].not_empty \in {q["rx"].not_empty, Nobody}, q'["tx"].not_full \in {q["tx"].not_full, Nobody},
         \A u \in QThread : \/ place'[u] = place[u] /\ (place[u] = "asleep" => Waiter(u)' = Waiter(u) /\ MustWait(u)')
                            \/ place[u] = "asleep" /\ place'[u] = "woken" /\ Waiter(u)' = Nobody
                            \/ place[u] = "try" /\ place'[u] = "out"
                            \/ place[u] = "out" /\ place'[u] = "try"
  PROVE  WaitersOK'
<1>1. ASSUME NEW u \in QThread PROVE SleepOK(u)'
  <2>0. Nobody # u /\ Side(u)' = Side(u) /\ Side(u) \in {"rx", "tx"}
    BY InputAssumption DEF QThread, Side
  <2>1. SleepOK(u) /\ q'[Side(u)].lock = q[Side(u)].lock
    BY <2>0 DEF WaitersOK
  <2>2. Waiter(u)' \in {Waiter(u), Nobody}
    BY DEF Waiter
  <2>3. Waiter(u)' = u => Waiter(u) = u
    BY <2>0, <2>2
  <2>4. CASE place'[u] = place[u] /\ (place[u] = "asleep" => Waiter(u)' = Waiter(u) /\ MustWait(u)')
    BY <2>0, <2>1, <2>3, <2>4 DEF SleepOK
  <2>5. CASE place[u] = "asleep" /\ place'[u] = "woken" /\ Waiter(u)' = Nobody
    BY <2>0, <2>1, <2>5 DEF SleepOK
  <2>6. CASE (place[u] = "try" /\ place'[u] = "out") \/ (place[u] = "out" /\ place'[u] = "try")
    BY <2>0, <2>1, <2>3, <2>6 DEF SleepOK
  <2> QED
    BY <2>4, <2>5, <2>6
<1> QED
  BY <1>1 DEF WaitersOK

LEMMA SideOf ==
  ASSUME NEW t \in QThread
  PROVE  /\ Side(t) \in {"rx", "tx"} /\ t # Nobody
         /\ Side(t) = "rx" <=> t \in Reader
         /\ Side(t) = "tx" <=> t \notin Reader
  BY InputAssumption DEF Side, QThread

(* A step that leaves the bytes and the mode alone and changes one queue's lock or waiter. *)
LEMMA BlockFrame ==
  ASSUME InputInv, NEW t \in QThread, NEW y \in Queue, NEW pl \in {"try", "lock", "asleep"},
         q' = [q EXCEPT ![Side(t)] = y], place' = [place EXCEPT ![t] = pl],
         UNCHANGED <<mode, ier, counts>>, place[t] # "out",
         y.buf = q[Side(t)].buf, y.head = q[Side(t)].head, y.tail = q[Side(t)].tail,
         WaitersOK'
  PROVE  InputInv'
<1>1. /\ q \in [{"rx", "tx"} -> Queue] /\ Side(t) \in {"rx", "tx"}
      /\ \A s \in {"rx", "tx"} : /\ q'[s] \in Queue /\ q'[s].buf = q[s].buf
                                 /\ q'[s].head = q[s].head /\ q'[s].tail = q[s].tail
  BY SideOf DEF InputInv, InputType
<1>2. InputType'
  BY <1>1 DEF InputInv, InputType
<1>3. \A s \in {"rx", "tx"} : Ring(q[s], counts[s])
  BY DEF InputInv, RingsOK
<1>4. \A s \in {"rx", "tx"} : Ring(q'[s], counts[s])
  BY <1>1, <1>3, SameRing
<1>5. mode = "QUEUE" /\ counts' = counts
  BY DEF InputInv, RingsOK
<1>6. RingsOK'
  BY <1>4, <1>5 DEF RingsOK
<1>7. EnabledOK'
  BY <1>1, <1>5 DEF InputInv, EnabledOK, intq_empty, intq_full
<1> QED
  BY <1>2, <1>6, <1>7 DEF InputInv

LEMMA WaitStep ==
  ASSUME InputInv, NEW t \in QThread, place[t] \in {"try", "lock"}, q[Side(t)].lock = Nobody,
         Wait(t, [q[Side(t)] EXCEPT !.lock = t]), UNCHANGED <<mode, ier, counts>>
  PROVE  InputInv'
<1> DEFINE x == [q[Side(t)] EXCEPT !.lock = t]
           y == IF t \in Reader THEN [x EXCEPT !.not_empty = t] ELSE [x EXCEPT !.not_full = t]
<1>1. CASE MustWait(t)
  <2>1. q' = [q EXCEPT ![Side(t)] = y] /\ place' = [place EXCEPT ![t] = "asleep"]
    BY <1>1 DEF Wait
  <2>2. q[Side(t)] \in Queue /\ q \in [{"rx", "tx"} -> Queue] /\ Side(t) \in {"rx", "tx"} /\ t # Nobody
    BY SideOf DEF InputInv, InputType
  <2>3. /\ y \in Queue /\ y.buf = q[Side(t)].buf /\ y.head = q[Side(t)].head /\ y.tail = q[Side(t)].tail
        /\ y.lock = t /\ (t \in Reader => y.not_empty = t /\ y.not_full = q[Side(t)].not_full)
        /\ (t \notin Reader => y.not_full = t /\ y.not_empty = q[Side(t)].not_empty)
    BY <2>2, Zenon DEF Queue
  <2> HIDE DEF x, y
  <2>4. q'[Side(t)] = y /\ \A s \in {"rx", "tx"} : s # Side(t) => q'[s] = q[s]
    BY <2>1, <2>2
  <2>5. place'[t] = "asleep" /\ \A u \in QThread : u # t => place'[u] = place[u]
    BY <2>1 DEF InputInv, InputType
  <2>6. ASSUME NEW u \in QThread PROVE SleepOK(u)'
    <3>0. /\ SleepOK(u) /\ Side(u) \in {"rx", "tx"} /\ u # Nobody
          /\ Side(u) = "rx" <=> u \in Reader
          /\ Side(u) = "tx" <=> u \notin Reader
          /\ Side(t) = "rx" <=> t \in Reader
          /\ Side(t) = "tx" <=> t \notin Reader
          /\ Side(u)' = Side(u)
      BY SideOf DEF InputInv, WaitersOK, Side
    <3>1. CASE u = t
      <4>1. MustWait(t)'
        BY <1>1, <2>3, <2>4, <3>0, <3>1 DEF MustWait, intq_empty, intq_full
      <4>2. Waiter(t)' = t
        BY <2>3, <2>4, <3>0, <3>1 DEF Waiter
      <4> QED
        BY <2>3, <2>4, <2>5, <3>0, <3>1, <4>1, <4>2 DEF SleepOK
    <3>2. CASE u # t /\ Side(u) = Side(t)
      <4>1. place[u] \notin {"asleep", "woken"} /\ place'[u] = place[u]
        BY <2>5, <3>0, <3>2 DEF SleepOK
      <4>2. Waiter(u)' = t
        BY <2>3, <2>4, <3>0, <3>2 DEF Waiter
      <4> QED
        BY <3>2, <4>1, <4>2 DEF SleepOK
    <3>3. CASE Side(u) # Side(t)
      <4>1. q'[Side(u)] = q[Side(u)] /\ place'[u] = place[u]
        BY <2>4, <2>5, <3>0, <3>3
      <4> QED
        BY <3>0, <4>1 DEF SleepOK, Waiter, MustWait
    <3> QED
      BY <3>1, <3>2, <3>3
  <2>7. WaitersOK'
    <3>1. /\ q["rx"].not_full = Nobody /\ q["tx"].not_empty = Nobody
          /\ q["rx"].not_empty \in Reader \cup {Nobody} /\ q["tx"].not_full \in Writer \cup {Nobody}
      BY DEF InputInv, WaitersOK
    <3>2. CASE t \in Reader
      BY <2>3, <2>4, <2>6, <3>1, <3>2 DEF WaitersOK, Side
    <3>3. CASE t \notin Reader
      BY <2>3, <2>4, <2>6, <3>1, <3>3 DEF WaitersOK, Side, QThread
    <3> QED
      BY <3>2, <3>3
  <2> QED
    BY <2>1, <2>3, <2>7, BlockFrame, Zenon
<1>2. CASE ~MustWait(t)
  BY <1>2 DEF Wait, InputInv, InputType, RingsOK, WaitersOK, SleepOK, Waiter, MustWait, EnabledOK, Side
<1> QED
  BY <1>1, <1>2

LEMMA SleepStep ==
  ASSUME InputInv, NEW t \in QThread, place[t] = "try", Sleep(t)
  PROVE  InputInv'
<1>1. CASE q[Side(t)].lock = Nobody
  BY <1>1, WaitStep DEF Sleep
<1>2. CASE q[Side(t)].lock # Nobody
  <2>1. place' = [place EXCEPT ![t] = "lock"] /\ UNCHANGED <<q, mode, ier, counts>>
    BY <1>2 DEF Sleep
  <2>2. place'[t] = "lock" /\ \A u \in QThread : u # t => place'[u] = place[u]
    BY <2>1 DEF InputInv, InputType
  <2>3. ASSUME NEW u \in QThread PROVE SleepOK(u)'
    BY <2>1, <2>2, <2>3 DEF InputInv, WaitersOK, SleepOK, Waiter, MustWait, Side
  <2>4. InputType' /\ EnabledOK'
    BY <2>1 DEF InputInv, InputType, EnabledOK
  <2>5. RingsOK'
    <3>1. mode = "QUEUE"
      BY DEF InputInv, RingsOK
    <3> QED
      BY <2>1, <3>1 DEF InputInv, RingsOK
  <2> QED
    BY <2>1, <2>3, <2>4, <2>5 DEF InputInv, WaitersOK
<1> QED
  BY <1>1, <1>2

LEMMA ReleaseStep ==
  ASSUME InputInv, NEW t \in QThread, Release(t)
  PROVE  InputInv'
<1> DEFINE y == [q[Side(t)] EXCEPT !.lock = Nobody]
<1>1. /\ q[Side(t)] \in Queue /\ q \in [{"rx", "tx"} -> Queue] /\ Side(t) \in {"rx", "tx"} /\ t # Nobody
      /\ SleepOK(t) /\ place[t] = "woken"
  BY SideOf DEF InputInv, InputType, WaitersOK, Release
<1>2. /\ q' = [q EXCEPT ![Side(t)] = y] /\ place' = [place EXCEPT ![t] = "try"] /\ UNCHANGED <<mode, ier, counts>>
  BY <1>1 DEF Release
<1>3. /\ y \in Queue /\ y.buf = q[Side(t)].buf /\ y.head = q[Side(t)].head /\ y.tail = q[Side(t)].tail
      /\ y.not_empty = q[Side(t)].not_empty /\ y.not_full = q[Side(t)].not_full
  BY <1>1, Zenon DEF Queue
<1> HIDE DEF y
<1>4. q'[Side(t)] = y /\ \A s \in {"rx", "tx"} : s # Side(t) => q'[s] = q[s]
  BY <1>1, <1>2
<1>5. place'[t] = "try" /\ \A u \in QThread : u # t => place'[u] = place[u]
  BY <1>2 DEF InputInv, InputType
<1>6. \A s \in {"rx", "tx"} : /\ q'[s].not_empty = q[s].not_empty /\ q'[s].not_full = q[s].not_full
                              /\ q'[s].head = q[s].head /\ q'[s].tail = q[s].tail
  BY <1>3, <1>4
<1>7. ASSUME NEW u \in QThread PROVE SleepOK(u)'
  <2>1. SleepOK(u) /\ Side(u) \in {"rx", "tx"} /\ Side(u)' = Side(u) /\ Waiter(u)' = Waiter(u) /\ MustWait(u)' = MustWait(u)
    BY <1>6, SideOf DEF InputInv, WaitersOK, Side, Waiter, MustWait, intq_empty, intq_full
  <2>2. CASE u = t
    BY <1>1, <1>5, <2>1, <2>2 DEF SleepOK
  <2>3. CASE u # t /\ Side(u) = Side(t)
    <3>1. place[u] \notin {"asleep", "woken"}
      BY <1>1, <2>1, <2>3 DEF SleepOK
    <3> QED
      BY <1>5, <2>1, <2>3, <3>1 DEF SleepOK
  <2>4. CASE Side(u) # Side(t)
    <3>1. q'[Side(u)] = q[Side(u)] /\ place'[u] = place[u]
      BY <1>4, <1>5, <2>1, <2>4
    <3> QED
      BY <2>1, <3>1 DEF SleepOK
  <2> QED
    BY <2>2, <2>3, <2>4
<1>8. WaitersOK'
  BY <1>6, <1>7 DEF InputInv, WaitersOK
<1> QED
  BY <1>1, <1>2, <1>3, <1>8, BlockFrame, Zenon

(***************************************************************************)
(* A step on the queues: on each side either nobody is woken, and whoever  *)
(* sleeps still has to, or the one waiter is.                              *)
(***************************************************************************)
Leaves(u) == place'[u] = place[u] \/ (place[u] = "try" /\ place'[u] = "out")
WokenBy(w, u) == place'[u] = IF u = w THEN "woken" ELSE place[u]

LEMMA WakeFrame ==
  ASSUME InputInv,
         \A s \in {"rx", "tx"} : q'[s].lock = q[s].lock,
         q'["rx"].not_full = Nobody, q'["tx"].not_empty = Nobody,
         \/ /\ q'["rx"].not_empty = q["rx"].not_empty /\ \A u \in Reader : Leaves(u)
            /\ intq_empty(q["rx"]) => intq_empty(q'["rx"])
         \/ q'["rx"].not_empty = Nobody /\ \A u \in Reader : WokenBy(q["rx"].not_empty, u),
         \/ /\ q'["tx"].not_full = q["tx"].not_full /\ \A u \in Writer : Leaves(u)
            /\ intq_full(q["tx"]) => intq_full(q'["tx"])
         \/ q'["tx"].not_full = Nobody /\ \A u \in Writer : WokenBy(q["tx"].not_full, u)
  PROVE  WaitersOK'
<1> DEFINE OK(u) == \/ place'[u] = place[u] /\ (place[u] = "asleep" => Waiter(u)' = Waiter(u) /\ MustWait(u)')
                    \/ place[u] = "asleep" /\ place'[u] = "woken" /\ Waiter(u)' = Nobody
                    \/ place[u] = "try" /\ place'[u] = "out"
                    \/ place[u] = "out" /\ place'[u] = "try"
<1>1. ASSUME NEW u \in Reader PROVE OK(u)
  <2>1. SleepOK(u) /\ Waiter(u) = q["rx"].not_empty /\ Waiter(u)' = q'["rx"].not_empty
        /\ (MustWait(u) <=> intq_empty(q["rx"])) /\ (MustWait(u)' <=> intq_empty(q'["rx"]))
    BY <1>1 DEF InputInv, WaitersOK, QThread, Waiter, MustWait, intq_empty
  <2> QED
    BY <1>1, <2>1 DEF SleepOK, Leaves, WokenBy
<1>2. ASSUME NEW u \in Writer PROVE OK(u)
  <2>1. SleepOK(u) /\ Waiter(u) = q["tx"].not_full /\ Waiter(u)' = q'["tx"].not_full
        /\ (MustWait(u) <=> intq_full(q["tx"])) /\ (MustWait(u)' <=> intq_full(q'["tx"]))
    BY <1>2, InputAssumption DEF InputInv, WaitersOK, QThread, Waiter, MustWait, intq_full
  <2> QED
    BY <1>2, <2>1 DEF SleepOK, Leaves, WokenBy
<1>3. \A u \in QThread : OK(u)
  BY <1>1, <1>2 DEF QThread
<1>4. WaitersOK
  BY DEF InputInv
<1> QED
  BY <1>3, <1>4, WaitersFrame

LEMMA QueueStep ==
  ASSUME InputInv, mode = "QUEUE", mode' = mode,
         NEW x \in Queue, NEW y \in Queue, NEW c \in Count, NEW d \in Count,
         q' = [s \in {"rx", "tx"} |-> IF s = "rx" THEN x ELSE y],
         counts' = [s \in {"rx", "tx"} |-> IF s = "rx" THEN c ELSE d],
         Ring(x, c), Ring(y, d),
         place' \in [QThread -> {"out", "try", "lock", "asleep", "woken"}],
         ier' = write_ier(x, y), WaitersOK'
  PROVE  InputInv'
<1>1. q'["rx"] = x /\ q'["tx"] = y /\ counts'["rx"] = c /\ counts'["tx"] = d
  OBVIOUS
<1>2. InputType'
  BY DEF InputInv, InputType, write_ier, intq_empty, intq_full
<1>3. RingsOK'
  BY <1>1 DEF RingsOK
<1>4. EnabledOK'
  BY <1>1, Zenon DEF EnabledOK, write_ier
<1> QED
  BY <1>2, <1>3, <1>4 DEF InputInv

(* What the invariant says of each queue. *)
LEMMA QueueFacts ==
  ASSUME InputInv
  PROVE  /\ q["rx"] \in Queue /\ q["tx"] \in Queue /\ counts["rx"] \in Count /\ counts["tx"] \in Count
         /\ q = [s \in {"rx", "tx"} |-> IF s = "rx" THEN q["rx"] ELSE q["tx"]]
         /\ counts = [s \in {"rx", "tx"} |-> IF s = "rx" THEN counts["rx"] ELSE counts["tx"]]
         /\ Ring(q["rx"], counts["rx"]) /\ Ring(q["tx"], counts["tx"])
         /\ counts["rx"].put \in Int /\ counts["tx"].put \in Int /\ counts["rx"].got \in Int /\ counts["tx"].got \in Int
         /\ q["rx"].not_full = Nobody /\ q["tx"].not_empty = Nobody
         /\ q["rx"].not_empty \in Reader \cup {Nobody} /\ q["tx"].not_full \in Writer \cup {Nobody}
         /\ place \in [QThread -> {"out", "try", "lock", "asleep", "woken"}]
         /\ counts \in [{"rx", "tx"} -> Count]
  BY DEF InputInv, InputType, RingsOK, WaitersOK, Count

LEMMA CountFields ==
  ASSUME NEW e \in Count, NEW v \in Int
  PROVE  /\ [e EXCEPT !.got = v] = [put |-> e.put, got |-> v]
         /\ [e EXCEPT !.put = v] = [put |-> v, got |-> e.got]
  BY DEF Count

LEMMA CountsFields ==
  ASSUME NEW C \in [{"rx", "tx"} -> Count], NEW v \in Int
  PROVE  /\ [C EXCEPT !["rx"].got = v] = [s \in {"rx", "tx"} |-> IF s = "rx" THEN [put |-> C["rx"].put, got |-> v] ELSE C["tx"]]
         /\ [C EXCEPT !["rx"].put = v] = [s \in {"rx", "tx"} |-> IF s = "rx" THEN [put |-> v, got |-> C["rx"].got] ELSE C["tx"]]
         /\ [C EXCEPT !["tx"].got = v] = [s \in {"rx", "tx"} |-> IF s = "rx" THEN C["rx"] ELSE [put |-> C["tx"].put, got |-> v]]
         /\ [C EXCEPT !["tx"].put = v] = [s \in {"rx", "tx"} |-> IF s = "rx" THEN C["rx"] ELSE [put |-> v, got |-> C["tx"].got]]
<1>1. C["rx"] \in Count /\ C["tx"] \in Count
  OBVIOUS
<1>2. /\ [C["rx"] EXCEPT !.got = v] = [put |-> C["rx"].put, got |-> v]
      /\ [C["rx"] EXCEPT !.put = v] = [put |-> v, got |-> C["rx"].got]
      /\ [C["tx"] EXCEPT !.got = v] = [put |-> C["tx"].put, got |-> v]
      /\ [C["tx"] EXCEPT !.put = v] = [put |-> v, got |-> C["tx"].got]
  BY <1>1, CountFields
<1> QED
  BY <1>2, Zenon

LEMMA GetcStep ==
  ASSUME InputInv, NEW t \in QThread, input_getc(t)
  PROVE  InputInv'
<1> DEFINE x == Taken(q["rx"])
           c == [put |-> counts["rx"].put, got |-> counts["rx"].got + 1]
<1>0. t \in Reader /\ place[t] = "try" /\ ~intq_empty(q["rx"])
  BY DEF input_getc
<1>1. c \in Count /\ c.put = counts["rx"].put /\ c.got = counts["rx"].got + 1
  BY QueueFacts DEF Count
<1> HIDE DEF c
<1>2. First(q["rx"]) = counts["rx"].got + 1 /\ Ring(x, c)
  BY <1>0, <1>1, QueueFacts, TakeRing
<1>3. /\ x \in Queue /\ x.lock = q["rx"].lock /\ x.not_full = Nobody /\ x.not_empty = q["rx"].not_empty
  BY QueueFacts, TakenFields
<1>4. counts' = [s \in {"rx", "tx"} |-> IF s = "rx" THEN c ELSE counts["tx"]]
  <2>1. counts' = [counts EXCEPT !["rx"].got = counts["rx"].got + 1] /\ counts["rx"].got + 1 \in Int
    BY <1>2, QueueFacts DEF input_getc
  <2> QED
    BY <2>1, QueueFacts, CountsFields, ZenonT(60) DEF c
<1> HIDE DEF x
<1>5. q' = [s \in {"rx", "tx"} |-> IF s = "rx" THEN x ELSE q["tx"]]
  BY QueueFacts, Zenon DEF input_getc, x
<1>6. mode = "QUEUE"
  BY <1>0 DEF InputInv, RingsOK
<1>7. q'["rx"] = x /\ q'["tx"] = q["tx"] /\ mode' = mode /\ ier' = write_ier(x, q["tx"])
  BY <1>5, <1>6 DEF input_getc, Notify
<1>8. place' = [place EXCEPT ![t] = "out"]
  BY QueueFacts, Zenon DEF input_getc, Woken
<1>9. place' \in [QThread -> {"out", "try", "lock", "asleep", "woken"}] /\ \A u \in QThread : Leaves(u)
  BY <1>0, <1>8, QueueFacts DEF Leaves
<1>10. WaitersOK'
  <2>1. \A s \in {"rx", "tx"} : q'[s].lock = q[s].lock
    BY <1>3, <1>7
  <2>2. (\A u \in Reader : Leaves(u)) /\ \A u \in Writer : Leaves(u)
    BY <1>9 DEF QThread
  <2>3. intq_full(q["tx"]) => intq_full(q'["tx"])
    BY <1>7
  <2> QED
    BY <1>0, <1>3, <1>7, <2>1, <2>2, <2>3, QueueFacts, WakeFrame
<1> QED
  BY <1>1, <1>2, <1>3, <1>4, <1>5, <1>6, <1>7, <1>9, <1>10, QueueFacts, QueueStep

LEMMA PutcStep ==
  ASSUME InputInv, NEW t \in QThread, serial_putc(t)
  PROVE  InputInv'
<1> DEFINE y == Put(q["tx"], counts["tx"].put + 1)
           d == [put |-> counts["tx"].put + 1, got |-> counts["tx"].got]
<1>0. t \in Writer /\ place[t] = "try" /\ ~intq_full(q["tx"])
  BY DEF serial_putc
<1>1. d \in Count /\ d.put = counts["tx"].put + 1 /\ d.got = counts["tx"].got
  BY QueueFacts DEF Count
<1> HIDE DEF d
<1>2. Ring(y, d)
  BY <1>0, <1>1, QueueFacts, PutRing
<1>3. /\ y \in Queue /\ y.lock = q["tx"].lock /\ y.not_empty = Nobody /\ y.not_full = q["tx"].not_full
  <2>1. counts["tx"].put + 1 \in Int /\ q["tx"] \in Queue
    BY QueueFacts
  <2> QED
    BY <2>1, PutFields
<1>4. counts' = [s \in {"rx", "tx"} |-> IF s = "rx" THEN counts["rx"] ELSE d]
  <2>1. counts' = [counts EXCEPT !["tx"].put = counts["tx"].put + 1] /\ counts["tx"].put + 1 \in Int
    BY QueueFacts DEF serial_putc, Stored
  <2> QED
    BY <2>1, QueueFacts, CountsFields, ZenonT(60) DEF d
<1> HIDE DEF y
<1>5. q' = [s \in {"rx", "tx"} |-> IF s = "rx" THEN q["rx"] ELSE y]
  BY QueueFacts, Zenon DEF serial_putc, y, Number
<1>6. mode = "QUEUE"
  BY <1>0 DEF InputInv, RingsOK
<1>7. q'["rx"] = q["rx"] /\ q'["tx"] = y /\ mode' = mode /\ ier' = write_ier(q["rx"], y)
  BY <1>5, <1>6 DEF serial_putc, Notify
<1>8. place' = [place EXCEPT ![t] = "out"]
  BY QueueFacts, Zenon DEF serial_putc, Woken
<1>9. place' \in [QThread -> {"out", "try", "lock", "asleep", "woken"}] /\ \A u \in QThread : Leaves(u)
  BY <1>0, <1>8, QueueFacts DEF Leaves
<1>10. WaitersOK'
  <2>1. \A s \in {"rx", "tx"} : q'[s].lock = q[s].lock
    BY <1>3, <1>7
  <2>2. (\A u \in Reader : Leaves(u)) /\ \A u \in Writer : Leaves(u)
    BY <1>9 DEF QThread
  <2>3. intq_empty(q["rx"]) => intq_empty(q'["rx"])
    BY <1>7
  <2> QED
    BY <1>0, <1>3, <1>7, <2>1, <2>2, <2>3, QueueFacts, WakeFrame
<1> QED
  BY <1>1, <1>2, <1>3, <1>4, <1>5, <1>6, <1>7, <1>9, <1>10, QueueFacts, QueueStep

(* Both ends of the transmit queue move when a full queue is polled. *)
LEMMA PolledStep ==
  ASSUME InputInv, NEW t \in QThread, serial_putc_polled(t)
  PROVE  InputInv'
<1> DEFINE full == intq_full(q["tx"])
           x == IF full THEN Taken(q["tx"]) ELSE q["tx"]
           e == IF full THEN [put |-> counts["tx"].put, got |-> counts["tx"].got + 1] ELSE counts["tx"]
           n == counts["tx"].put + 1
           y == Put(x, n)
           d == [put |-> n, got |-> e.got]
<1>0. n \in Int /\ counts["tx"].got + 1 \in Int /\ q["tx"] \in Queue /\ counts["tx"] \in Count /\ mode = "QUEUE"
  BY QueueFacts DEF serial_putc_polled
<1>1. e \in Count /\ e.put = counts["tx"].put /\ e.got = IF full THEN counts["tx"].got + 1 ELSE counts["tx"].got
  BY <1>0, QueueFacts DEF Count
<1>2. d \in Count /\ d.put = e.put + 1 /\ d.got = e.got
  BY <1>0, <1>1, QueueFacts DEF Count
<1>3. /\ x \in Queue /\ x.lock = q["tx"].lock /\ x.not_empty = Nobody
      /\ x.not_full = IF full THEN Nobody ELSE q["tx"].not_full
  BY <1>0, QueueFacts, TakenFields
<1>4. Ring(x, e) /\ ~intq_full(x) /\ (full => First(q["tx"]) = counts["tx"].got + 1)
  <2>1. CASE full
    <3>1. Used(q["tx"]) = INTQ_BUFSIZE - 1 /\ ~intq_empty(q["tx"])
      BY <1>0, <2>1, UsedFacts, InputAssumption
    <3>2. /\ First(q["tx"]) = counts["tx"].got + 1 /\ Ring(Taken(q["tx"]), e)
          /\ Used(Taken(q["tx"])) = Used(q["tx"]) - 1
      BY <1>0, <1>1, <2>1, <3>1, QueueFacts, TakeRing
    <3>3. Used(x) # INTQ_BUFSIZE - 1
      BY <2>1, <3>1, <3>2, InputAssumption
    <3>4. ~intq_full(x)
      BY <1>3, <3>3, UsedFacts
    <3> QED
      BY <2>1, <3>2, <3>4
  <2>2. CASE ~full
    BY <2>2, QueueFacts
  <2> QED
    BY <2>1, <2>2
<1>5. counts' = [s \in {"rx", "tx"} |-> IF s = "rx" THEN counts["rx"] ELSE d]
  <2>1. Stored("tx") = [s \in {"rx", "tx"} |-> IF s = "rx" THEN counts["rx"] ELSE [put |-> n, got |-> counts["tx"].got]]
    BY <1>0, QueueFacts, CountsFields, ZenonT(60) DEF Stored
  <2>2. /\ Stored("tx")["rx"] = counts["rx"] /\ Stored("tx")["tx"] = [put |-> n, got |-> counts["tx"].got]
        /\ Stored("tx") \in [{"rx", "tx"} -> Count]
        /\ Stored("tx")["tx"].put = n /\ Stored("tx")["tx"].got = counts["tx"].got
    BY <1>0, <2>1, QueueFacts DEF Count
  <2>3. CASE full
    <3>1. counts' = [Stored("tx") EXCEPT !["tx"].got = counts["tx"].got + 1]
      BY <1>4, <2>2, <2>3 DEF serial_putc_polled, Sent
    <3> HIDE DEF n
    <3>2. counts' = [s \in {"rx", "tx"} |-> IF s = "rx" THEN counts["rx"] ELSE [put |-> n, got |-> counts["tx"].got + 1]]
      <4> DEFINE C == Stored("tx")
                 v == counts["tx"].got + 1
      <4>1. C \in [{"rx", "tx"} -> Count] /\ v \in Int /\ counts' = [C EXCEPT !["tx"].got = v]
        BY <1>0, <2>2, <3>1
      <4> HIDE DEF C, v
      <4>2. counts' = [s \in {"rx", "tx"} |-> IF s = "rx" THEN C["rx"] ELSE [put |-> C["tx"].put, got |-> v]]
        BY <4>1, CountsFields, Zenon
      <4> QED
        BY <2>2, <4>2 DEF C, v
    <3> QED
      BY <1>1, <2>3, <3>2
  <2>4. CASE ~full
    BY <1>1, <2>1, <2>4 DEF serial_putc_polled
  <2> QED
    BY <2>3, <2>4
<1>6. q' = [s \in {"rx", "tx"} |-> IF s = "rx" THEN q["rx"] ELSE y]
  BY QueueFacts, Zenon DEF serial_putc_polled, Number
<1>7. place' = IF full THEN Woken(q["tx"].not_full, place) ELSE place
  BY DEF serial_putc_polled
<1> HIDE DEF x, e, n, d
<1>8. /\ y \in Queue /\ y.lock = q["tx"].lock /\ y.not_empty = Nobody
      /\ y.not_full = IF full THEN Nobody ELSE q["tx"].not_full
  BY <1>0, <1>3, PutFields
<1>9. Ring(y, d)
  <2>1. n = e.put + 1
    BY <1>1 DEF n
  <2> QED
    BY <1>1, <1>2, <1>3, <1>4, <2>1, PutRing
<1> HIDE DEF y
<1>10. q'["rx"] = q["rx"] /\ q'["tx"] = y /\ mode' = mode /\ ier' = write_ier(q["rx"], y)
  BY <1>0, <1>6 DEF serial_putc_polled, Notify
<1>11. /\ place' \in [QThread -> {"out", "try", "lock", "asleep", "woken"}]
       /\ \A u \in QThread : place'[u] = IF full /\ u = q["tx"].not_full THEN "woken" ELSE place[u]
  <2>1. q["tx"].not_full \in QThread \cup {Nobody} /\ InputType
    BY QueueFacts DEF QThread, InputInv
  <2> QED
    BY <1>7, <2>1, QueueFacts, WokenFacts
<1>12. WaitersOK'
  <2>1. \A s \in {"rx", "tx"} : q'[s].lock = q[s].lock
    BY <1>8, <1>10
  <2>2. (\A u \in Reader : Leaves(u)) /\ (intq_empty(q["rx"]) => intq_empty(q'["rx"]))
    BY <1>10, <1>11, QueueFacts, InputAssumption DEF Leaves, QThread
  <2>3. full => \A u \in Writer : WokenBy(q["tx"].not_full, u)
    BY <1>11 DEF WokenBy, QThread
  <2>4. ~full => \A u \in Writer : Leaves(u)
    BY <1>11 DEF Leaves, QThread
  <2> QED
    BY <1>8, <1>10, <2>1, <2>2, <2>3, <2>4, QueueFacts, WakeFrame
<1> QED
  BY <1>0, <1>2, <1>5, <1>6, <1>8, <1>9, <1>10, <1>11, <1>12, QueueFacts, QueueStep

LEMMA KeyboardStep ==
  ASSUME InputInv, keyboard_interrupt
  PROVE  InputInv'
<1> DEFINE n == counts["rx"].put + 1
           x == Put(q["rx"], n)
           c == [put |-> n, got |-> counts["rx"].got]
<1>0. n \in Int /\ q["rx"] \in Queue /\ ~intq_full(q["rx"]) /\ mode = "QUEUE"
  BY QueueFacts DEF keyboard_interrupt
<1>1. c \in Count /\ c.put = counts["rx"].put + 1 /\ c.got = counts["rx"].got
  BY QueueFacts DEF Count
<1> HIDE DEF c
<1>2. Ring(x, c)
  BY <1>0, <1>1, QueueFacts, PutRing
<1>3. counts' = [s \in {"rx", "tx"} |-> IF s = "rx" THEN c ELSE counts["tx"]]
  <2>1. counts' = [counts EXCEPT !["rx"].put = n]
    BY DEF keyboard_interrupt, Stored
  <2> QED
    BY <1>0, <2>1, QueueFacts, CountsFields, ZenonT(60) DEF c
<1>4. q' = [s \in {"rx", "tx"} |-> IF s = "rx" THEN x ELSE q["tx"]]
  BY QueueFacts, Zenon DEF keyboard_interrupt, Number
<1> HIDE DEF n
<1>5. x \in Queue /\ x.lock = q["rx"].lock /\ x.not_empty = Nobody /\ x.not_full = q["rx"].not_full
  BY <1>0, PutFields
<1> HIDE DEF x
<1>6. q'["rx"] = x /\ q'["tx"] = q["tx"] /\ mode' = mode /\ ier' = write_ier(x, q["tx"])
  BY <1>0, <1>4 DEF keyboard_interrupt, Notify
<1>7. /\ place' \in [QThread -> {"out", "try", "lock", "asleep", "woken"}]
      /\ \A u \in QThread : place'[u] = IF u = q["rx"].not_empty THEN "woken" ELSE place[u]
  <2>1. q["rx"].not_empty \in QThread \cup {Nobody} /\ InputType
    BY QueueFacts DEF QThread, InputInv
  <2> QED
    BY <2>1, WokenFacts DEF keyboard_interrupt
<1>8. WaitersOK'
  <2>1. \A s \in {"rx", "tx"} : q'[s].lock = q[s].lock
    BY <1>5, <1>6
  <2>2. \A u \in Reader : WokenBy(q["rx"].not_empty, u)
    BY <1>7 DEF WokenBy, QThread
  <2>3. (\A u \in Writer : Leaves(u)) /\ (intq_full(q["tx"]) => intq_full(q'["tx"]))
    BY <1>6, <1>7, QueueFacts, InputAssumption DEF Leaves, QThread
  <2> QED
    BY <1>5, <1>6, <2>1, <2>2, <2>3, QueueFacts, WakeFrame
<1> QED
  BY <1>0, <1>1, <1>2, <1>3, <1>4, <1>5, <1>6, <1>7, <1>8, QueueFacts, QueueStep

LEMMA FlushStep ==
  ASSUME InputInv, serial_flush
  PROVE  InputInv'
<1> DEFINE x == q["tx"]
           n == Used(x)
           y == [x EXCEPT !.tail = x.head, !.not_full = Nobody]
           d == [put |-> counts["tx"].put, got |-> counts["tx"].got + n]
<1>0. x \in Queue /\ n \in Int /\ Ring(x, counts["tx"]) /\ mode = "QUEUE"
  BY QueueFacts, UsedFacts, InputAssumption DEF serial_flush
<1>1. d \in Count /\ d.put = counts["tx"].put /\ d.got = counts["tx"].got + n
  BY <1>0, QueueFacts DEF Count
<1>2. y \in Queue /\ y.head = x.head /\ y.tail = x.head /\ y.lock = x.lock /\ y.not_full = Nobody /\ y.not_empty = x.not_empty
  BY <1>0, QueueFacts, Zenon DEF Queue
<1>3. counts' = [s \in {"rx", "tx"} |-> IF s = "rx" THEN counts["rx"] ELSE d]
  <2>1. \A i \in 0..(n - 1) : x.buf[(x.tail + i) % INTQ_BUFSIZE] = counts["tx"].got + 1 + i
    BY <1>0 DEF Ring
  <2>2. counts' = [counts EXCEPT !["tx"].got = counts["tx"].got + n] /\ counts["tx"].got + n \in Int
    <3>1. n = (x.head - x.tail) % INTQ_BUFSIZE
      BY DEF Used
    <3> DEFINE inOrder == \A i \in 0..(n - 1) : x.buf[(x.tail + i) % INTQ_BUFSIZE] = counts["tx"].got + 1 + i
    <3>2. counts' = [counts EXCEPT !["tx"].got = IF inOrder THEN counts["tx"].got + n ELSE -1]
      BY <3>1, Zenon DEF serial_flush, Used
    <3> HIDE DEF n, inOrder
    <3>3. inOrder
      BY <2>1 DEF inOrder
    <3> QED
      BY <1>0, <3>2, <3>3, QueueFacts
  <2> HIDE DEF n
  <2> QED
    BY <2>2, QueueFacts, CountsFields, ZenonT(60)
<1>4. q' = [s \in {"rx", "tx"} |-> IF s = "rx" THEN q["rx"] ELSE y]
  BY QueueFacts, Zenon DEF serial_flush
<1>5. place' = Woken(x.not_full, place) /\ ier' = ier /\ mode' = mode
  BY DEF serial_flush
<1> HIDE DEF y, d
<1>6. q'["rx"] = q["rx"] /\ q'["tx"] = y /\ counts'["rx"] = counts["rx"] /\ counts'["tx"] = d
  BY <1>3, <1>4
<1>7. Ring(y, d)
  BY <1>0, <1>1, <1>2, QueueFacts, FlushRing
<1>8. /\ place' \in [QThread -> {"out", "try", "lock", "asleep", "woken"}]
      /\ \A u \in QThread : place'[u] = IF u = x.not_full THEN "woken" ELSE place[u]
  <2>1. x.not_full \in QThread \cup {Nobody} /\ InputType
    BY QueueFacts DEF QThread, InputInv
  <2> QED
    BY <1>5, <2>1, WokenFacts
<1>9. WaitersOK'
  <2>1. \A s \in {"rx", "tx"} : q'[s].lock = q[s].lock
    BY <1>2, <1>6
  <2>2. (\A u \in Reader : Leaves(u)) /\ (intq_empty(q["rx"]) => intq_empty(q'["rx"]))
    BY <1>6, <1>8, QueueFacts, InputAssumption DEF Leaves, QThread
  <2>3. \A u \in Writer : WokenBy(q["tx"].not_full, u)
    BY <1>8 DEF WokenBy, QThread
  <2> QED
    BY <1>2, <1>6, <2>1, <2>2, <2>3, QueueFacts, WakeFrame
<1>10. InputType'
  BY <1>1, <1>2, <1>3, <1>4, <1>5, <1>8, QueueFacts DEF InputInv, InputType
<1>11. RingsOK'
  BY <1>0, <1>5, <1>6, <1>7, QueueFacts DEF RingsOK
<1>12. EnabledOK'
  BY <1>2, <1>5, <1>6 DEF InputInv, EnabledOK, intq_empty, intq_full
<1> QED
  BY <1>9, <1>10, <1>11, <1>12 DEF InputInv

LEMMA SerialStep ==
  ASSUME InputInv, serial_interrupt
  PROVE  InputInv'
<1> DEFINE receive == uart.dr /\ ~intq_full(q["rx"])
           send == uart.thre /\ ~intq_empty(q["tx"])
           n == counts["rx"].put + 1
           x == IF receive THEN Put(q["rx"], n) ELSE q["rx"]
           y == IF send THEN Taken(q["tx"]) ELSE q["tx"]
           c == IF receive THEN [put |-> n, got |-> counts["rx"].got] ELSE counts["rx"]
           d == IF send THEN [put |-> counts["tx"].put, got |-> counts["tx"].got + 1] ELSE counts["tx"]
           p == IF receive THEN Woken(q["rx"].not_empty, place) ELSE place
<1>0. n \in Int /\ q["rx"] \in Queue /\ q["tx"] \in Queue /\ counts["tx"].got + 1 \in Int /\ mode = "QUEUE"
  BY QueueFacts DEF serial_interrupt
<1>1. /\ x \in Queue /\ x.lock = q["rx"].lock /\ x.not_full = Nobody
      /\ x.not_empty = IF receive THEN Nobody ELSE q["rx"].not_empty
  <2> HIDE DEF n
  <2> QED
    BY <1>0, QueueFacts, PutFields, ZenonT(60)
<1>2. /\ y \in Queue /\ y.lock = q["tx"].lock /\ y.not_empty = Nobody
      /\ y.not_full = IF send THEN Nobody ELSE q["tx"].not_full
  BY <1>0, QueueFacts, TakenFields
<1>3. c \in Count /\ d \in Count
  BY <1>0, QueueFacts DEF Count
<1>4. Ring(x, c)
  <2>1. CASE receive
    <3>1. c.put = counts["rx"].put + 1 /\ c.got = counts["rx"].got
      BY <2>1
    <3> HIDE DEF c
    <3> QED
      BY <1>3, <2>1, <3>1, QueueFacts, PutRing
  <2>2. CASE ~receive
    BY <2>2, QueueFacts
  <2> QED
    BY <2>1, <2>2
<1>5. Ring(y, d) /\ (send => First(q["tx"]) = counts["tx"].got + 1)
  <2>1. CASE send
    <3>1. d.put = counts["tx"].put /\ d.got = counts["tx"].got + 1
      BY <2>1
    <3> HIDE DEF d
    <3> QED
      BY <1>3, <2>1, <3>1, QueueFacts, TakeRing
  <2>2. CASE ~send
    BY <2>2, QueueFacts
  <2> QED
    BY <2>1, <2>2
<1>6. counts' = [s \in {"rx", "tx"} |-> IF s = "rx" THEN c ELSE d]
  <2> DEFINE C == IF receive THEN Stored("rx") ELSE counts
             v == counts["tx"].got + 1
  <2>1. C = [s \in {"rx", "tx"} |-> IF s = "rx" THEN c ELSE counts["tx"]]
    <3>1. Stored("rx") = [s \in {"rx", "tx"} |-> IF s = "rx" THEN [put |-> n, got |-> counts["rx"].got] ELSE counts["tx"]]
      BY <1>0, QueueFacts, CountsFields, ZenonT(60) DEF Stored
    <3> QED
      BY <3>1, QueueFacts
  <2>2. counts' = IF send THEN Sent(C, First(q["tx"])) ELSE C
    BY DEF serial_interrupt
  <2> HIDE DEF C, c
  <2>3. C \in [{"rx", "tx"} -> Count] /\ C["rx"] = c /\ C["tx"] = counts["tx"] /\ v \in Int
    BY <1>0, <1>3, <2>1, QueueFacts
  <2>4. CASE send
    <3>1. counts' = [C EXCEPT !["tx"].got = v]
      BY <1>5, <2>2, <2>3, <2>4 DEF Sent
    <3> HIDE DEF v
    <3>2. counts' = [s \in {"rx", "tx"} |-> IF s = "rx" THEN C["rx"] ELSE [put |-> C["tx"].put, got |-> v]]
      BY <2>3, <3>1, CountsFields, Zenon
    <3> QED
      BY <2>3, <2>4, <3>2 DEF v
  <2>5. CASE ~send
    BY <2>1, <2>2, <2>5
  <2> QED
    BY <2>4, <2>5
<1>7. q' = [s \in {"rx", "tx"} |-> IF s = "rx" THEN x ELSE y]
  BY DEF serial_interrupt, Number
<1>8. place' = (IF send THEN Woken(q["tx"].not_full, p) ELSE p)
  BY DEF serial_interrupt
<1>9. ier' = write_ier(q'["rx"], q'["tx"]) /\ mode' = mode
  BY DEF serial_interrupt
<1> HIDE DEF x, y, c, d, n
<1>10. q'["rx"] = x /\ q'["tx"] = y /\ ier' = write_ier(x, y)
  BY <1>7, <1>9
<1>11. /\ place' \in [QThread -> {"out", "try", "lock", "asleep", "woken"}]
       /\ \A u \in QThread : place'[u] = IF \/ send /\ u = q["tx"].not_full
                                            \/ receive /\ u = q["rx"].not_empty
                                         THEN "woken" ELSE place[u]
  <2>1. /\ q["rx"].not_empty \in QThread \cup {Nobody} /\ q["tx"].not_full \in QThread \cup {Nobody} /\ InputType
        /\ Nobody \notin QThread
    BY QueueFacts, InputAssumption DEF QThread, InputInv
  <2>2. /\ p \in [QThread -> {"out", "try", "lock", "asleep", "woken"}]
        /\ \A u \in QThread : p[u] = IF receive /\ u = q["rx"].not_empty THEN "woken" ELSE place[u]
    BY <2>1, QueueFacts, WokenFacts
  <2> HIDE DEF p
  <2> QED
    BY <1>8, <2>1, <2>2 DEF Woken
<1>12. WaitersOK'
  <2>1. \A s \in {"rx", "tx"} : q'[s].lock = q[s].lock
    BY <1>1, <1>2, <1>10
  <2>2. /\ receive => \A u \in Reader : WokenBy(q["rx"].not_empty, u)
        /\ ~receive => \A u \in Reader : Leaves(u)
    BY <1>11, QueueFacts, InputAssumption DEF WokenBy, Leaves, QThread
  <2>3. /\ send => \A u \in Writer : WokenBy(q["tx"].not_full, u)
        /\ ~send => \A u \in Writer : Leaves(u)
    BY <1>11, QueueFacts, InputAssumption DEF WokenBy, Leaves, QThread
  <2>4. (~receive => q'["rx"] = q["rx"]) /\ (~send => q'["tx"] = q["tx"])
    BY <1>10 DEF x, y
  <2> QED
    BY <1>1, <1>2, <1>10, <2>1, <2>2, <2>3, <2>4, QueueFacts, WakeFrame
<1> QED
  BY <1>0, <1>1, <1>2, <1>3, <1>4, <1>5, <1>6, <1>7, <1>9, <1>10, <1>11, <1>12, QueueStep

(* The steps that leave the queues alone. *)
LEMMA OtherSteps ==
  ASSUME InputInv, \/ ByteArrives \/ TransmitterReady \/ putc_poll \/ serial_init_queue
                   \/ \E t \in QThread : CallInput(t)
  PROVE  InputInv'
<1>1. q' = q
  BY DEF ByteArrives, TransmitterReady, putc_poll, serial_init_queue, CallInput
<1>2. CASE ByteArrives \/ TransmitterReady
  BY <1>2 DEF ByteArrives, TransmitterReady, InputInv, InputType, RingsOK, WaitersOK, SleepOK, Waiter, MustWait, EnabledOK, Side
<1>3. CASE putc_poll
  <2> DEFINE v == counts["tx"].put + 1
             d == [put |-> v, got |-> v]
  <2>1. mode # "QUEUE" /\ intq_empty(q["tx"]) /\ Used(q["tx"]) = 0
    BY <1>3, QueueFacts, UsedFacts DEF putc_poll, InputInv, RingsOK
  <2>2. counts["tx"].got = counts["tx"].put /\ counts["tx"].got >= 0 /\ v \in Int
    BY <2>1, QueueFacts DEF Ring
  <2>3. d \in Count /\ d.put = v /\ d.got = v /\ v >= 0
    BY <2>2, QueueFacts DEF Count
  <2>4. Ring(q["tx"], d)
    BY <2>1, <2>2, <2>3 DEF Ring
  <2>5. counts' = [s \in {"rx", "tx"} |-> IF s = "rx" THEN counts["rx"] ELSE d]
    <3>1. Stored("tx") = [s \in {"rx", "tx"} |-> IF s = "rx" THEN counts["rx"] ELSE [put |-> v, got |-> counts["tx"].got]]
      BY <2>2, QueueFacts, CountsFields, ZenonT(60) DEF Stored
    <3> DEFINE C == Stored("tx")
    <3>2. C["rx"] = counts["rx"] /\ C \in [{"rx", "tx"} -> Count] /\ C["tx"].put = v /\ C["tx"].got = counts["tx"].got
      BY <2>2, <3>1, QueueFacts DEF Count
    <3>3. counts' = [C EXCEPT !["tx"].got = v]
      BY <1>3, <2>2, <3>2 DEF putc_poll, Sent, Number
    <3> HIDE DEF C, v
    <3>4. counts' = [s \in {"rx", "tx"} |-> IF s = "rx" THEN C["rx"] ELSE [put |-> C["tx"].put, got |-> v]]
      BY <2>2, <3>2, <3>3, CountsFields, Zenon
    <3> QED
      BY <3>2, <3>4
  <2> HIDE DEF d
  <2>6. mode' = "POLL" /\ UNCHANGED <<q, place, ier>>
    BY <1>3 DEF putc_poll
  <2>7. InputType' /\ EnabledOK'
    BY <2>3, <2>5, <2>6, QueueFacts DEF InputInv, InputType, EnabledOK
  <2>8. RingsOK'
    BY <2>1, <2>4, <2>5, <2>6, QueueFacts DEF InputInv, RingsOK
  <2>9. WaitersOK'
    BY <2>6 DEF InputInv, WaitersOK, SleepOK, Waiter, MustWait, Side
  <2> QED
    BY <2>7, <2>8, <2>9 DEF InputInv
<1>4. CASE serial_init_queue
  <2>1. mode' = "QUEUE" /\ ier' = write_ier(q["rx"], q["tx"]) /\ UNCHANGED <<q, place, counts>>
    BY <1>4 DEF serial_init_queue
  <2>2. InputType' /\ RingsOK' /\ EnabledOK'
    BY <2>1, Zenon DEF InputInv, InputType, RingsOK, EnabledOK, write_ier, intq_empty, intq_full
  <2>3. WaitersOK'
    BY <2>1 DEF InputInv, WaitersOK, SleepOK, Waiter, MustWait, Side
  <2> QED
    BY <2>2, <2>3 DEF InputInv
<1>5. ASSUME NEW t \in QThread, CallInput(t) PROVE InputInv'
  <2>1. place' = [place EXCEPT ![t] = "try"] /\ place[t] = "out" /\ mode = "QUEUE" /\ UNCHANGED <<q, mode, ier, counts>>
    BY <1>5 DEF CallInput
  <2>2. InputType' /\ RingsOK' /\ EnabledOK'
    BY <2>1 DEF InputInv, InputType, RingsOK, EnabledOK
  <2>3. ASSUME NEW u \in QThread PROVE SleepOK(u)'
    BY <2>1, <2>3 DEF InputInv, InputType, WaitersOK, SleepOK, Waiter, MustWait, Side
  <2> QED
    BY <2>1, <2>2, <2>3 DEF InputInv, WaitersOK
<1> QED
  BY <1>2, <1>3, <1>4, <1>5

LEMMA InputSteps == InputInv /\ [InputNext]_ivars => InputInv'
<1> SUFFICES ASSUME InputInv, [InputNext]_ivars PROVE InputInv'
  OBVIOUS
<1>1. ASSUME NEW t \in QThread, InputStep(t) \/ InputCall(t) PROVE InputInv'
  <2>1. CASE input_getc(t)
    BY <2>1, GetcStep
  <2>2. CASE serial_putc(t)
    BY <2>2, PutcStep
  <2>3. CASE Release(t)
    BY <2>3, ReleaseStep
  <2>4. CASE Locked(t)
    BY <2>4, WaitStep DEF Locked
  <2>5. CASE place[t] = "try" /\ Sleep(t)
    BY <2>5, SleepStep
  <2>6. CASE CallInput(t)
    BY <2>6, OtherSteps
  <2>7. CASE serial_putc_polled(t)
    BY <2>7, PolledStep
  <2> QED
    BY <1>1, <2>1, <2>2, <2>3, <2>4, <2>5, <2>6, <2>7 DEF InputStep, InputCall
<1>2. CASE UNCHANGED ivars
  BY <1>2 DEF ivars, InputInv, InputType, RingsOK, WaitersOK, SleepOK, Waiter, MustWait, EnabledOK, Side
<1> QED
  BY <1>1, <1>2, SerialStep, KeyboardStep, FlushStep, OtherSteps DEF InputNext, QThread

LEMMA InputInvariant == InputSpec => []InputInv
  BY InputInitial, InputSteps, PTL DEF InputSpec

(***************************************************************************)
(* Bytes leave the input buffer and the transmit queue in the order they   *)
(* came in, each once, for any buffer size and any number of readers and   *)
(* writers: intq_putc, intq_getc, polling and flushing between them.       *)
(***************************************************************************)
THEOREM BytesKeepOrder == InputSpec => []BytesInOrder
<1>1. InputInv => BytesInOrder
  BY DEF InputInv, RingsOK, Ring, Used, BytesInOrder
<1> QED
  BY <1>1, InputInvariant, PTL

(***************************************************************************)
(* A thread asleep in intq_getc or intq_putc has to be, and the serial     *)
(* interrupt that ends its wait is enabled in the UART.                    *)
(***************************************************************************)
THEOREM SleepersCanBeWoken == InputSpec => []SleeperWillWake
<1>1. InputInv => SleeperWillWake
  BY DEF InputInv, WaitersOK, SleepOK, EnabledOK, SleeperWillWake, QThread
<1> QED
  BY <1>1, InputInvariant, PTL
=============================================================================

------------------------------- MODULE BitSpec ------------------------------
(* What lib/kernel/bitmap.c promises: a set of numbers below a fixed size. *)
EXTENDS Integers, FiniteSets

CONSTANTS BitCnt, BITMAP_ERROR

VARIABLES
  marked,    \* the bits that are true
  answer     \* what the last call returned

Span(start, cnt) == start..(start + cnt - 1)
With(bits, value) == IF value THEN marked \cup bits ELSE marked \ bits
Having(s, c, value) == {i \in Span(s, c) : (i \in marked) = value}

(* The first place from s on where c bits have the value. *)
First(s, c, value) ==
  LET places == {i \in s..(BitCnt - c) : Having(i, c, ~value) = {}}
  IN  IF places = {} THEN BITMAP_ERROR ELSE CHOOSE i \in places : \A j \in places : i <= j

Fill(s, c, value) == marked' = With(Span(s, c), value) /\ UNCHANGED answer
Load(bits)        == marked' = bits /\ UNCHANGED answer
Bool(p)           == IF p THEN 1 ELSE 0
Ask(a)            == answer' = a /\ UNCHANGED marked

ScanAndFlip(s, c, value) ==
  /\ answer' = First(s, c, value)
  /\ marked' = IF answer' = BITMAP_ERROR THEN marked ELSE With(Span(answer', c), ~value)

Init == marked = {} /\ answer = 0

Next ==
  \/ \E s \in 0..BitCnt : \E c \in 0..(BitCnt - s), v \in BOOLEAN :
       \/ Fill(s, c, v)
       \/ Ask(Cardinality(Having(s, c, v))) \/ Ask(Bool(Having(s, c, v) # {})) \/ Ask(Bool(Having(s, c, v) = {}))
  \/ \E s, c \in 0..BitCnt, v \in BOOLEAN : Ask(First(s, c, v)) \/ ScanAndFlip(s, c, v)
  \/ \E bits \in SUBSET (0..(BitCnt - 1)) : Load(bits)

Spec == Init /\ [][Next]_<<marked, answer>>
=============================================================================

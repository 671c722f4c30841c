------------------------------- MODULE Bitmap -------------------------------
(***************************************************************************)
(* The bitmaps of lib/kernel/bitmap.c as the array of words they are.      *)
(***************************************************************************)
EXTENDS Integers, Sequences, FiniteSets, Null, Bitwise

LOCAL SX == INSTANCE SequencesExt

CONSTANTS
  ELEM_BITS,      \* the width of an element; 64 in the build
  BitCnt,
  BITMAP_ERROR    \* SIZE_MAX

VARIABLES
  bits,      \* the elements, numbered from 0
  answer     \* what the last call returned

bvars == <<bits, answer>>

elem_idx(i) == i \div ELEM_BITS
bit_mask(i) == 2^(i % ELEM_BITS)
elem_cnt_of(n) == (n + ELEM_BITS - 1) \div ELEM_BITS
Ones == 2^ELEM_BITS - 1
last_mask ==
  IF BitCnt % ELEM_BITS # 0 THEN 2^(BitCnt % ELEM_BITS) - 1 ELSE Ones

(* bitmap_create, once its malloc has succeeded: every bit is false. *)
BitmapInit == bits = [w \in 0..(elem_cnt_of(BitCnt) - 1) |-> 0] /\ answer = 0

(* Variant: the element keeps the bit and loses the others. *)
bitmap_reset_others(b, i) == [b EXCEPT ![elem_idx(i)] = @ & bit_mask(i)]

bitmap_mark(b, i)  == [b EXCEPT ![elem_idx(i)] = @ | bit_mask(i)]
bitmap_reset(b, i) == [b EXCEPT ![elem_idx(i)] = @ & (Ones - bit_mask(i))]
bitmap_flip(b, i)  == [b EXCEPT ![elem_idx(i)] = @ ^^ bit_mask(i)]
bitmap_test(b, i)  == b[elem_idx(i)] & bit_mask(i) # 0
bitmap_set(b, i, value) == IF value THEN bitmap_mark(b, i) ELSE bitmap_reset(b, i)

(* The loop over the cnt bits from start on, in order. *)
bitmap_set_multiple(b, start, cnt, value) ==
  SX!FoldLeft(LAMBDA acc, i : bitmap_set(acc, start + i - 1, value), b, [i \in 1..cnt |-> i])

bitmap_count(b, start, cnt, value) ==
  Cardinality({i \in 0..(cnt - 1) : bitmap_test(b, start + i) = value})
bitmap_contains(b, start, cnt, value) ==
  \E i \in 0..(cnt - 1) : bitmap_test(b, start + i) = value

bitmap_scan(b, start, cnt, value) ==
  LET hits == {i \in start..(BitCnt - cnt) : ~bitmap_contains(b, i, cnt, ~value)}
  IN  IF hits = {} THEN BITMAP_ERROR ELSE CHOOSE i \in hits : \A j \in hits : i <= j

Bool(p) == IF p THEN 1 ELSE 0

SetBits(i, value) ==
  /\ bits' = bitmap_set(bits, i, value)
  /\ UNCHANGED answer

FlipBits(i) ==
  /\ bits' = bitmap_flip(bits, i)
  /\ UNCHANGED answer

SetMultiple(start, cnt, value) ==
  /\ bits' = bitmap_set_multiple(bits, start, cnt, value)
  /\ UNCHANGED answer

Question(start, cnt, value) ==
  /\ answer' \in {bitmap_count(bits, start, cnt, value),
                  Bool(bitmap_contains(bits, start, cnt, value)),
                  Bool(~bitmap_contains(bits, start, cnt, value))}
  /\ UNCHANGED bits

Scan(start, cnt, value) ==
  /\ answer' = bitmap_scan(bits, start, cnt, value)
  /\ UNCHANGED bits

bitmap_scan_and_flip(start, cnt, value) ==
  LET idx == bitmap_scan(bits, start, cnt, value)
  IN  /\ answer' = idx
      /\ bits' = IF idx = BITMAP_ERROR THEN bits ELSE bitmap_set_multiple(bits, idx, cnt, ~value)

(* Variant: the bits behind the last one come from the file. *)
bitmap_read_unmasked(file, n) ==
  /\ bits' = [w \in DOMAIN bits |-> IF w < n THEN file[w] ELSE bits[w]]
  /\ UNCHANGED answer

(* The file may hold anything, and may end after any number of elements. *)
bitmap_read(file, n) ==
  LET got == [w \in DOMAIN bits |-> IF w < n THEN file[w] ELSE bits[w]]
  IN  /\ bits' = [got EXCEPT ![elem_cnt_of(BitCnt) - 1] = @ & last_mask]
      /\ UNCHANGED answer

BitmapNext ==
  \/ \E i \in 0..(BitCnt - 1) : FlipBits(i) \/ \E v \in BOOLEAN : SetBits(i, v)
  \/ \E s \in 0..BitCnt : \E c \in 0..(BitCnt - s), v \in BOOLEAN :
       SetMultiple(s, c, v) \/ Question(s, c, v)
  \/ \E s, c \in 0..BitCnt, v \in BOOLEAN : Scan(s, c, v) \/ bitmap_scan_and_flip(s, c, v)
  \/ \E file \in [DOMAIN bits -> {0, Ones}], n \in 0..elem_cnt_of(BitCnt) : bitmap_read(file, n)

BitmapBehavior == BitmapInit /\ [][BitmapNext]_bvars
-----------------------------------------------------------------------------
(* The bits behind the last one. *)
SpareBits == bits[elem_cnt_of(BitCnt) - 1] & (Ones - last_mask)

(***************************************************************************)
(* The words implement a set of bits: no call touches a bit it was not     *)
(* asked about, and a scan returns the first place, past the boundaries of *)
(* the elements and at the last, partly used one, whose spare bits stay    *)
(* clear, also after a bitmap_read, and never count.                       *)
(***************************************************************************)
BitSet == INSTANCE BitSpec WITH marked <- {i \in 0..(BitCnt - 1) : bitmap_test(bits, i)}
ImplementsBits == [](SpareBits = 0) /\ BitSet!Spec
=============================================================================

------------------------------- MODULE StdLib -------------------------------
(***************************************************************************)
(* Sorting, searching, number parsing (lib/stdlib.c), the generator of     *)
(* pseudo-random bytes (lib/random.c) and 64-bit division                  *)
(* (lib/arithmetic.c).  An array is a sequence of keys; a character is its *)
(* code; bytes count modulo Bytes.                                         *)
(***************************************************************************)
EXTENDS Calls

LOCAL SX == INSTANCE SequencesExt

CONSTANTS SortKey, MaxArray, INT_MAX, Bytes
INT_MIN == -INT_MAX - 1

do_swap(a, i, j) == [a EXCEPT ![i] = a[j], ![j] = a[i]]

Larger(a, cnt, i, max) == IF i <= cnt /\ a[i] > a[max] THEN i ELSE max

RECURSIVE heapify(_, _, _)
heapify(a, i, cnt) ==
  LET max == Larger(a, cnt, 2 * i + 1, Larger(a, cnt, 2 * i, i))
  IN  IF max = i THEN a ELSE heapify(do_swap(a, i, max), max, cnt)

(* Variant: the heap is built without its root. *)
BuildHeapBelow(a) ==
  SX!FoldLeft(LAMBDA h, k : heapify(h, Len(a) \div 2 + 1 - k, Len(a)), a,
              [k \in 1..(Len(a) \div 2 - 1) |-> k])

BuildHeap(a) ==
  SX!FoldLeft(LAMBDA h, k : heapify(h, Len(a) \div 2 + 1 - k, Len(a)), a,
              [k \in 1..(Len(a) \div 2) |-> k])

RECURSIVE SortHeap(_, _)
SortHeap(a, i) == IF i <= 1 THEN a ELSE SortHeap(heapify(do_swap(a, 1, i), 1, i - 1), i - 1)

sort(a) == SortHeap(BuildHeap(a), Len(a))

(* Variant: the element before the middle one is left out as well. *)
SearchSkipping(key, a, first, last) ==
  LET RECURSIVE Go(_, _)
      Go(f, l) == IF f >= l THEN NULL
                  ELSE LET middle == f + (l - f) \div 2
                       IN  IF key < a[middle] THEN Go(f, middle - 1)
                           ELSE IF key > a[middle] THEN Go(middle + 1, l)
                           ELSE middle
  IN  Go(first, last)

(* The elements from first up to, and without, last. *)
RECURSIVE Search(_, _, _, _)
Search(key, a, first, last) ==
  IF first >= last THEN NULL
  ELSE LET middle == first + (last - first) \div 2
       IN  IF key < a[middle] THEN Search(key, a, first, middle)
           ELSE IF key > a[middle] THEN Search(key, a, middle + 1, last)
           ELSE middle

binary_search(key, a) == Search(key, a, 1, Len(a) + 1)

(***************************************************************************)
(* atoi: blanks, a sign, digits.  The value is held negative while it is   *)
(* read; a value outside of int is undefined and has no value.              *)
(***************************************************************************)
Space == 32
Plus == 43
Minus == 45
DigitOf(c) == c - 48
isdigit(c) == DigitOf(c) \in 0..9
InRange(x) == IF x \in INT_MIN..INT_MAX THEN <<x>> ELSE <<>>

RECURSIVE Digits(_, _, _)
Digits(s, i, value) ==
  IF value = <<>> \/ i > Len(s) \/ ~isdigit(s[i]) THEN value
  ELSE Digits(s, i + 1, InRange(value[1] * 10 - DigitOf(s[i])))

DigitsPositive(s, i) ==
  LET RECURSIVE Go(_, _)
      Go(k, v) == IF v = <<>> \/ k > Len(s) \/ ~isdigit(s[k]) THEN v
                  ELSE Go(k + 1, InRange(v[1] * 10 + DigitOf(s[k])))
  IN  Go(i, <<0>>)

SkipSpace(s) == SX!SelectInSeq(Append(s, 0), LAMBDA c : c # Space)

(* Variant: the value is held positive while it is read. *)
atoi_positive(s) ==
  LET k == SkipSpace(s)
      negative == k <= Len(s) /\ s[k] = Minus
      value == DigitsPositive(s, IF k <= Len(s) /\ s[k] \in {Plus, Minus} THEN k + 1 ELSE k)
  IN  IF value = <<>> \/ ~negative THEN value ELSE InRange(-value[1])

atoi(s) ==
  LET k == SkipSpace(s)
      negative == k <= Len(s) /\ s[k] = Minus
      value == Digits(s, IF k <= Len(s) /\ s[k] \in {Plus, Minus} THEN k + 1 ELSE k, <<0>>)
  IN  IF value = <<>> \/ negative THEN value ELSE InRange(-value[1])

(***************************************************************************)
(* The generator: the permutation s and the indices s_i and s_j.           *)
(***************************************************************************)
VARIABLE rng

(* Variant: one half of the swap. *)
swap_byte_half(s, i, j) == [s EXCEPT ![i] = s[j]]

swap_byte(s, i, j) == [s EXCEPT ![i] = s[j], ![j] = s[i]]

RECURSIVE Mix(_, _, _, _)
Mix(s, i, j, seedp) ==
  IF i = Bytes THEN s
  ELSE LET k == (j + s[i] + seedp[(i % Len(seedp)) + 1]) % Bytes
       IN  Mix(swap_byte(s, i, k), i + 1, k, seedp)

random_init(seedp) ==
  [s |-> Mix([i \in 0..(Bytes - 1) |-> i], 0, 0, seedp), i |-> 0, j |-> 0, byte |-> 0, inited |-> TRUE]

RandomStart == rng = [s |-> [i \in 0..(Bytes - 1) |-> 0], i |-> 0, j |-> 0, byte |-> 0, inited |-> FALSE]

(* One byte of random_bytes. *)
random_byte ==
  LET g == IF rng.inited THEN rng ELSE random_init(<<0, 0>>)
      i == (g.i + 1) % Bytes
      j == (g.j + g.s[i]) % Bytes
      s == swap_byte(g.s, i, j)
  IN  rng' = [g EXCEPT !.s = s, !.i = i, !.j = j, !.byte = s[(s[i] + s[j]) % Bytes]]

RandomSeed == \E seedp \in [1..2 -> 0..(Bytes - 1)] : rng' = random_init(seedp)

(***************************************************************************)
(* Division.  A word has 2 * Half bits; Half is 32 in the source and a     *)
(* power of two here.                                                      *)
(***************************************************************************)
CONSTANT Half

Radix == 2^Half
Word == 0..(Radix * Radix - 1)
Wrap(x) == x % (Radix * Radix)

(* The instruction traps when the quotient does not fit into half a word. *)
Trap == -1
divl(n, d) == IF n \div d < Radix THEN n \div d ELSE Trap

(* The halving search: a step of k bits when the top k bits are clear. *)
RECURSIVE nlzFrom(_, _)
nlzFrom(x, k) ==
  IF k = 0 THEN 0
  ELSE IF x < 2^(Half - k) THEN k + nlzFrom(x * 2^k, k \div 2) ELSE nlzFrom(x, k \div 2)
nlz(x) == nlzFrom(x, Half \div 2)

(* Variant: the estimate is never corrected. *)
BigDivisorUncorrected(n, d) ==
  LET s == nlz(d \div Radix)
      e == divl(n \div 2, Wrap(d * 2^s) \div Radix)
  IN  IF e = Trap THEN Trap ELSE e \div 2^(Half - 1 - s)

(* A divisor of more than half a word: an estimate, at most one too large. *)
BigDivisor(n, d) ==
  LET s == nlz(d \div Radix)
      e == divl(n \div 2, Wrap(d * 2^s) \div Radix)
      q == e \div 2^(Half - 1 - s)
  IN  IF e = Trap THEN Trap ELSE IF Wrap(n - Wrap((q - 1) * d)) < d THEN Wrap(q - 1) ELSE q

udiv64(n, d) ==
  IF d \div Radix = 0
  THEN LET n1 == n \div Radix
           low == divl(Radix * (n1 % d) + (n % Radix), d)
       IN  IF low = Trap THEN Trap ELSE low + Radix * (n1 \div d)
  ELSE IF n < d THEN 0 ELSE BigDivisor(n, d)

(* The remainder is returned in half a word. *)
umod64(n, d) == Wrap(n - d * udiv64(n, d)) % Radix

(* Two's complement: a signed word and its bits. *)
Signed(x) == IF x < (Radix * Radix) \div 2 THEN x ELSE x - Radix * Radix
Least == -((Radix * Radix) \div 2)
Magnitude(x) == IF x >= 0 THEN x ELSE Wrap(-x)

sdiv64(n, d) ==
  LET q == udiv64(Magnitude(n), Magnitude(d))
  IN  IF (n < 0) = (d < 0) THEN Signed(q) ELSE Signed(Wrap(-q))

smod64(n, d) ==
  LET r == Wrap(n - d * sdiv64(n, d)) % Radix IN IF r < Radix \div 2 THEN r ELSE r - Radix

(***************************************************************************)
(* The four divisions of the same two words.  The quotient of the least    *)
(* number by -1 has no value and is not asked for.                         *)
(***************************************************************************)
CallDivide ==
  /\ Idle
  /\ \E n \in Word, d \in Word \ {0} :
       /\ ~(Signed(d) = -1 /\ Signed(n) = Least)
       /\ Called("divide", [n |-> n, d |-> d],
                 [u |-> <<udiv64(n, d), umod64(n, d)>>,
                  s |-> <<sdiv64(Signed(n), Signed(d)), smod64(Signed(n), Signed(d))>>])

Arrays == UNION {[1..n -> SortKey] : n \in 0..MaxArray}
Sorted(a) == \A i, j \in DOMAIN a : i < j => a[i] <= a[j]

CallSort == Idle /\ \E a \in Arrays : Called("sort", a, sort(a))
CallSearch ==
  /\ Idle
  /\ \E a \in {x \in Arrays : Sorted(x)}, key \in SortKey : Called("bsearch", <<a, key>>, binary_search(key, a))

(* A number as it is written: blanks, sign, digits. *)
RECURSIVE Numeral(_)
Numeral(n) == IF n < 10 THEN <<48 + n>> ELSE Append(Numeral(n \div 10), 48 + (n % 10))
CallAtoi ==
  /\ Idle
  /\ \E n \in INT_MIN..INT_MAX, blank \in {<<>>, <<Space, Space>>}, plus \in {<<>>, <<Plus>>}, rest \in {<<>>, <<Space, 49>>} :
       Called("atoi", n, atoi(blank \o (IF n < 0 THEN <<Minus>> \o Numeral(-n) ELSE plus \o Numeral(n)) \o rest))
-----------------------------------------------------------------------------
(***************************************************************************)
(* sort puts the elements of the array, each as often as it occurs, in     *)
(* order, for every length and every pattern of equal keys.                *)
(***************************************************************************)
SortSorts ==
  Is("sort") =>
    /\ Sorted(call.result) /\ Len(call.result) = Len(call.args)
    /\ \A k \in SortKey : Cardinality({i \in DOMAIN call.result : call.result[i] = k})
                            = Cardinality({i \in DOMAIN call.args : call.args[i] = k})

(* binary_search finds a key exactly when the sorted array holds it. *)
SearchFinds ==
  Is("bsearch") =>
    LET a == call.args[1]
        hits == {i \in DOMAIN a : a[i] = call.args[2]}
    IN  IF hits = {} THEN call.result = NULL ELSE call.result \in hits

(***************************************************************************)
(* atoi returns every int from its numeral, the least one included, and no *)
(* intermediate value overflows.                                           *)
(***************************************************************************)
AtoiReadsBack == Is("atoi") => call.result = <<call.args>>

(* Once seeded, s stays a permutation of the bytes: no value is ever lost. *)
StatePermutes == rng.inited => {rng.s[i] : i \in DOMAIN rng.s} = DOMAIN rng.s

(***************************************************************************)
(* udiv64 returns the quotient for every pair of words, and divl does not  *)
(* trap on the way: the estimate of the second case is never more than one *)
(* too large.  The signed quotient is rounded towards zero.  A remainder   *)
(* is right in the half word that is returned.                             *)
(***************************************************************************)
DivisionExact ==
  Is("divide") =>
    LET n == call.args.n
        d == call.args.d
        q == call.result.s[1]
        r == Signed(n) - Signed(d) * q
    IN  /\ call.result.u = <<n \div d, (n % d) % Radix>>
        /\ Magnitude(r) < Magnitude(Signed(d))
        /\ r # 0 => (r < 0) = (Signed(n) < 0)
        /\ (call.result.s[2] - r) % Radix = 0
-----------------------------------------------------------------------------
(***************************************************************************)
(* The string functions of lib/string.c on a memory of small bytes.  An    *)
(* address is an index of the memory m, 0 is the null byte, and a string   *)
(* is the address of its first byte.                                       *)
(***************************************************************************)
CONSTANTS Byte, MemSize, Delimiters

Addr == 1..MemSize
Memories == [Addr -> Byte]

(* The address of the first null byte from s on, and what lies before it. *)
End(m, s) == CHOOSE e \in s..MemSize : m[e] = 0 /\ \A i \in s..(e - 1) : m[i] # 0
IsString(m, s) == \E e \in s..MemSize : m[e] = 0
strlen(m, s) == End(m, s) - s
Text(m, s) == SubSeq(m, s, End(m, s) - 1)

(* Bytes are copied one at a time, upwards or downwards. *)
RECURSIVE CopyUp(_, _, _, _)
CopyUp(m, dst, src, size) ==
  IF size = 0 THEN m ELSE CopyUp([m EXCEPT ![dst] = m[src]], dst + 1, src + 1, size - 1)
RECURSIVE CopyDown(_, _, _, _)
CopyDown(m, dst, src, size) ==
  IF size = 0 THEN m
  ELSE CopyDown([m EXCEPT ![dst + size - 1] = m[src + size - 1]], dst, src, size - 1)

memcpy(m, dst, src, size) == CopyUp(m, dst, src, size)

(* Variant: the overlap with dst above src is not looked at. *)
memmove_up(m, dst, src, size) == [m |-> CopyUp(m, dst, src, size), dst |-> dst + size]

(* What is returned is the pointer that was advanced, where it was. *)
memmove(m, dst, src, size) ==
  IF dst < src THEN [m |-> CopyUp(m, dst, src, size), dst |-> dst + size]
  ELSE [m |-> CopyDown(m, dst, src, size), dst |-> dst]

memcmp(m, s, t, size) ==
  LET differ == {i \in 0..(size - 1) : m[s + i] # m[t + i]}
      i == CHOOSE k \in differ : \A j \in differ : k <= j
  IN  IF differ = {} THEN 0 ELSE IF m[s + i] > m[t + i] THEN 1 ELSE -1

(* The first differing characters; the loop stops at the end of A. *)
RECURSIVE strcmp(_, _, _)
strcmp(m, s, t) ==
  IF m[s] # 0 /\ m[s] = m[t] THEN strcmp(m, s + 1, t + 1)
  ELSE IF m[s] < m[t] THEN -1 ELSE IF m[s] > m[t] THEN 1 ELSE 0

(* Variant: the last place the needle fits into is not tried. *)
strstr_short(m, haystack, needle) ==
  LET n == strlen(m, needle)
      hits == {i \in 0..(strlen(m, haystack) - n - 1) : memcmp(m, haystack + i, needle, n) = 0}
  IN  IF hits = {} THEN NULL ELSE haystack + (CHOOSE i \in hits : \A j \in hits : i <= j)

strstr(m, haystack, needle) ==
  LET n == strlen(m, needle)
      hits == {i \in 0..(strlen(m, haystack) - n) : memcmp(m, haystack + i, needle, n) = 0}
  IN  IF hits = {} THEN NULL ELSE haystack + (CHOOSE i \in hits : \A j \in hits : i <= j)

(***************************************************************************)
(* strtok_r.  The delimiters are a set of bytes; strchr also finds the     *)
(* null byte that ends them.                                               *)
(***************************************************************************)
RECURSIVE Skip(_, _, _)
Skip(m, s, set) == IF m[s] \in set THEN Skip(m, s + 1, set) ELSE s

(* Variant: the rest of the string begins at the delimiter's place. *)
TokenAgain(m, s, token) ==
  LET e == Skip(m, s, Byte \ (Delimiters \cup {0}))
  IN  [m |-> [m EXCEPT ![e] = 0], save |-> e, token |-> token]

Token(m, s, token) ==
  LET e == Skip(m, s, Byte \ (Delimiters \cup {0}))
  IN  [m |-> [m EXCEPT ![e] = 0], save |-> IF m[e] # 0 THEN e + 1 ELSE e, token |-> token]

strtok_r(m, s) ==
  LET k == Skip(m, s, Delimiters)
  IN  IF m[k] = 0 THEN [m |-> m, save |-> k, token |-> NULL] ELSE Token(m, k, k)

(* The loop of the callers: tokens until NULL, as texts. *)
RECURSIVE Tokenize(_, _)
Tokenize(m, s) ==
  LET r == strtok_r(m, s)
  IN  IF r.token = NULL THEN <<>> ELSE <<Text(r.m, r.token)>> \o Tokenize(r.m, r.save)

(***************************************************************************)
(* Bounded copies, from a string at src into the size bytes at dst.        *)
(***************************************************************************)
Smaller(x, y) == IF x < y THEN x ELSE y

(* Variant: the terminator is written behind a full copy. *)
strlcpy_full(m, dst, src, size) ==
  LET n == strlen(m, src)
      k == Smaller(n, size)
  IN  [m |-> IF size > 0 THEN [memcpy(m, dst, src, k) EXCEPT ![dst + k] = 0] ELSE m, n |-> n]

strlcpy(m, dst, src, size) ==
  LET n == strlen(m, src)
      k == Smaller(n, size - 1)
  IN  [m |-> IF size > 0 THEN [memcpy(m, dst, src, k) EXCEPT ![dst + k] = 0] ELSE m, n |-> n]

strlcat(m, dst, src, size) ==
  LET n == strlen(m, src)
      l == strlen(m, dst)
      k == Smaller(n, size - l - 1)
  IN  [m |-> IF size > 0 /\ l < size THEN [memcpy(m, dst + l, src, k) EXCEPT ![dst + l + k] = 0] ELSE m,
       n |-> n + l]

(* What an ordinary call passes: the destination ends before the source begins. *)
Middle == MemSize \div 2
CallMove ==
  /\ Idle
  /\ \E m \in Memories, dst, src \in Addr, size \in 0..MemSize :
       /\ dst + size - 1 <= MemSize /\ src + size - 1 <= MemSize
       /\ Called("memmove", <<m, dst, src, size>>, memmove(m, dst, src, size))
CallTokens ==
  /\ Idle
  /\ \E m \in Memories : m[MemSize] = 0 /\ Called("strtok_r", m, Tokenize(m, 1))
CallSearches ==
  /\ Idle
  /\ \E m \in Memories : /\ m[Middle] = 0 /\ m[MemSize] = 0
                         /\ Called("strstr", m, <<strstr(m, 1, Middle + 1), strcmp(m, 1, Middle + 1)>>)
CallCopies ==
  /\ Idle
  /\ \E m \in Memories, size \in 0..Middle :
       /\ m[MemSize] = 0
       /\ \/ Called("strlcpy", <<m, size>>, strlcpy(m, 1, Middle + 1, size))
          \/ m[Middle] = 0 /\ Called("strlcat", <<m, size>>, strlcat(m, 1, Middle + 1, size))
-----------------------------------------------------------------------------
(***************************************************************************)
(* memmove copies what the source held before the call, however the two    *)
(* ranges overlap, and touches nothing else.                               *)
(***************************************************************************)
MoveKeepsSource ==
  Is("memmove") =>
    LET m == call.args[1]
        dst == call.args[2]
        src == call.args[3]
    IN  call.result.m = [i \in Addr |-> IF i \in dst..(dst + call.args[4] - 1) THEN m[src + i - dst] ELSE m[i]]

(***************************************************************************)
(* strtok_r returns exactly the longest runs of other characters, in       *)
(* order: a character belongs to a token if and only if it is no           *)
(* delimiter, and two tokens are cut only at a delimiter.                  *)
(***************************************************************************)
TokensComplete ==
  Is("strtok_r") =>
    LET text == Text(call.args, 1)
        plain(c) == c \notin Delimiters
        starts == {i \in DOMAIN text : plain(text[i]) /\ (i = 1 \/ ~plain(text[i - 1]))}
    IN  /\ \A k \in DOMAIN call.result : call.result[k] # <<>>
        /\ Len(call.result) = Cardinality(starts)
        /\ SX!FlattenSeq(call.result) = SelectSeq(text, plain)

(* strstr finds the needle exactly when it occurs; strcmp is the order of texts. *)
SearchesRight ==
  Is("strstr") =>
    LET h == Text(call.args, 1)
        n == Text(call.args, Middle + 1)
        at == {i \in 1..(Len(h) - Len(n) + 1) : SubSeq(h, i, i + Len(n) - 1) = n}
    IN  /\ IF at = {} THEN call.result[1] = NULL ELSE call.result[1] \in at
        /\ \A i \in at : call.result[1] <= i
        /\ (call.result[2] = 0) = (h = n)
        /\ call.result[2] < 0 => SX!IsStrictPrefix(h, n) \/ \E i \in DOMAIN h \cap DOMAIN n :
             h[i] < n[i] /\ SubSeq(h, 1, i - 1) = SubSeq(n, 1, i - 1)

(***************************************************************************)
(* A bounded copy writes only the size bytes it was given, ends them with  *)
(* a null byte, keeps the longest prefix that fits and returns the length  *)
(* it wanted.                                                              *)
(***************************************************************************)
CopyBounded ==
  Is("strlcpy") \/ Is("strlcat") =>
    LET m == call.args[1]
        size == call.args[2]
        before == IF Is("strlcat") THEN Text(m, 1) ELSE <<>>
        wanted == before \o Text(m, Middle + 1)
    IN  /\ \A i \in Addr : i > size => call.result.m[i] = m[i]
        /\ call.result.n = Len(wanted)
        /\ size > Len(before) => Text(call.result.m, 1) = SubSeq(wanted, 1, Smaller(Len(wanted), size - 1))
=============================================================================

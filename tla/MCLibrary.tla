----------------------------- MODULE MCLibrary -----------------------------
(***************************************************************************)
(* The data structures and algorithms that the rest of the kernel is built *)
(* on, each on its own instance: a behaviour is about one unit, chosen in  *)
(* the initial state.  "functions" are those without state, where a call   *)
(* is made, returns, and the next one is made.                             *)
(***************************************************************************)
EXTENDS LinkedList, HashTable, Bitmap, PageTables, Keyboard,
        StdLib, Format, Loader, BootPools, TLC

CONSTANTS e1, e2, e3, e4, e5

(* Lists with two equal keys; a hash table with two equal items and chains. *)
MCKey == e1 :> 1 @@ e2 :> 1 @@ e3 :> 2 @@ e4 :> 3
MCHashKey == e1 :> 1 @@ e2 :> 2 @@ e3 :> 3 @@ e4 :> 4 @@ e5 :> 1
MCHash == e1 :> 0 @@ e2 :> 1 @@ e3 :> 2 @@ e4 :> 5 @@ e5 :> 0

(* Two addresses under one directory, one under another. *)
MCVa == {<<0, 0, 0, 0>>, <<1, 0, 0, 0>>, <<0, 0, 1, 0>>}

(* The keys A, space, [ and 1. *)
MCInvariantKeymap == 30 :> 65 @@ 57 :> 32
MCUnshiftedKeymap == 26 :> 91 @@ 2 :> 49
MCShiftedKeymap == 26 :> 123 @@ 2 :> 33

(* The widths of the integer types that printf tells apart. *)
MCBits == [t \in {"LONG", "LONGLONG", "INTMAX", "PTRDIFFT", "SIZET"} |-> 10]
            @@ "CHAR" :> 3 @@ "SHORT" :> 4 @@ "INT" :> 5

(* Programs of one segment at every place, and of two small ones. *)
Segment(type, offset, vaddr, filesz, memsz, writable) ==
  [type |-> type, offset |-> offset, vaddr |-> vaddr, filesz |-> filesz, memsz |-> memsz,
   writable |-> writable]
OneSegment ==
  {<<Segment("PT_LOAD", o, v, f, m, TRUE)>> : o \in 0..6, v \in 0..21, f \in 0..6, m \in (0..7) \cup {45}}
SmallSegments ==
  {Segment(type, o, v, 3, m, w) :
     type \in {"PT_LOAD", "PT_INTERP", "PT_NOTE"}, o \in {1, 5}, v \in {5, 9, 12}, m \in {3, 6}, w \in BOOLEAN}
MCHeaders == OneSegment \cup {<<a, b>> : a \in SmallSegments, b \in SmallSegments}
MCArgLists == UNION {[1..n -> {<<>>, <<1>>, <<1, 2>>, <<1, 2, 3>>}] : n \in 0..3}

(* Memory of one, two or three usable ranges, with holes between them. *)
Usable(start, size) == [start |-> start, size |-> size]
MCMemoryMaps ==
  {map \in {<<Usable(a, b)>> : a \in {0, 2}, b \in {8, 12}} \cup
           {<<Usable(a, b), Usable(a + b + g, d)>> :
              a \in {0, 2}, b \in {4, 5, 8}, g \in 1..3, d \in {4, 6, 8, 12}} \cup
           {<<Usable(0, b), Usable(b + g, d), Usable(b + g + d + h, f)>> :
              b \in {4, 5}, g \in 1..2, d \in {4, 8}, h \in 1..2, f \in {2, 4, 8}} :
     \A i \in 1..Len(map) : map[i].start % PoolPage = 0}

VARIABLE unit

all == <<unit, lvars, hvars, bvars, ptvars, kvars, rng, call>>

Return == ~Idle /\ call' = NoCall

Functions ==
  \/ CallDivide
  \/ CallSort \/ CallSearch \/ CallAtoi
  \/ CallMove \/ CallTokens \/ CallSearches \/ CallCopies
  \/ CallPrintf \/ CallSnprintf
  \/ CallLoad \/ CallArguments
  \/ CallBoot
  \/ Return

LibraryInit ==
  /\ unit \in {"list", "hash", "bitmap", "page tables", "keyboard", "random", "functions"}
  /\ ListInit /\ HashInit /\ BitmapInit /\ PageTablesInit /\ KeyboardInit /\ RandomStart /\ Idle

LibraryNext ==
  /\ UNCHANGED unit
  /\ \/ /\ unit = "list" /\ ListNext
        /\ UNCHANGED <<hvars, bvars, ptvars, kvars, rng, call>>
     \/ /\ unit = "hash" /\ HashNext
        /\ UNCHANGED <<lvars, bvars, ptvars, kvars, rng, call>>
     \/ /\ unit = "bitmap" /\ BitmapNext
        /\ UNCHANGED <<lvars, hvars, ptvars, kvars, rng, call>>
     \/ /\ unit = "page tables" /\ PageTablesNext
        /\ UNCHANGED <<lvars, hvars, bvars, kvars, rng, call>>
     \/ /\ unit = "keyboard" /\ KeyboardNext
        /\ UNCHANGED <<lvars, hvars, bvars, ptvars, rng, call>>
     \/ /\ unit = "random" /\ (random_byte \/ RandomSeed)
        /\ UNCHANGED <<lvars, hvars, bvars, ptvars, kvars, call>>
     \/ /\ unit = "functions" /\ Functions
        /\ UNCHANGED <<lvars, hvars, bvars, ptvars, kvars, rng>>

LibrarySpec == LibraryInit /\ [][LibraryNext]_all

-----------------------------------------------------------------------------
(* The C library: arithmetic, sorting, random numbers, strings, formatting. *)
LibraryAnswers ==
  /\ DivisionExact /\ SortSorts /\ SearchFinds /\ AtoiReadsBack /\ StatePermutes
  /\ MoveKeepsSource /\ TokensComplete /\ SearchesRight /\ CopyBounded
  /\ ParseReadsBack /\ FieldReadsBack /\ FormatBufferHolds /\ SnprintfBounded

(* What is worked out once, for a program or for the kernel, before it runs. *)
StartsRight == SegmentImage /\ ArgumentsReadBack /\ PoolsRight
=============================================================================

------------------------------- MODULE Loader -------------------------------
(***************************************************************************)
(* Program loading in userprog/process.c: load with the program headers,   *)
(* validate_segment, load_segment, lazy_load_segment and the arguments on  *)
(* the stack.  A page is PGSIZE bytes, addresses wrap at Addresses and a   *)
(* uint32_t at Counts; byte k of the file is the value k + 1.              *)
(***************************************************************************)
EXTENDS Calls

CONSTANTS
  PGSIZE, KERN_BASE, Addresses, Counts,
  LengthOfFile,
  Headers,      \* the lists of program headers a file may have
  ArgLists,    \* the argument lists, as sequences of strings
  USER_STACK, PTR

pg_round_down(a) == a - (a % PGSIZE)
ROUND_UP(a) == pg_round_down(a + PGSIZE - 1)
is_user_vaddr(a) == a < KERN_BASE
pg_ofs(a) == a % PGSIZE

validate_segment(h) ==
  LET end == (h.vaddr + h.memsz) % Addresses IN
  /\ pg_ofs(h.offset) = pg_ofs(h.vaddr)
  /\ h.offset <= LengthOfFile
  /\ h.memsz >= h.filesz
  /\ h.memsz # 0
  /\ is_user_vaddr(h.vaddr) /\ is_user_vaddr(end)
  /\ end >= h.vaddr
  /\ h.vaddr >= PGSIZE

(* How much of the segment comes from the file, as uint32_t. *)
ReadBytes(h) == (IF h.filesz > 0 THEN pg_ofs(h.vaddr) + h.filesz ELSE 0) % Counts
ZeroBytes(h) ==
  (ROUND_UP(pg_ofs(h.vaddr) + h.memsz) - (IF h.filesz > 0 THEN pg_ofs(h.vaddr) + h.filesz ELSE 0)) % Counts

LesserOf(a, b) == IF a < b THEN a ELSE b

(***************************************************************************)
(* load_segment: pages maps the addresses that have a page to what their   *)
(* struct file_info says; <<>> if vm_alloc_page_with_initializer finds the *)
(* address taken.                                                          *)
(***************************************************************************)
RECURSIVE load_segment(_, _, _, _, _, _)
load_segment(pages, ofs, upage, read_bytes, zero_bytes, writable) ==
  IF read_bytes = 0 /\ zero_bytes = 0 THEN <<pages>>
  ELSE IF upage \in DOMAIN pages THEN <<>>
  ELSE LET here == LesserOf(read_bytes, PGSIZE)
           info == [ofs |-> ofs, read_bytes |-> read_bytes, writable |-> writable]
       IN  load_segment([u \in DOMAIN pages \cup {upage} |-> IF u = upage THEN info ELSE pages[u]],
                        ofs + here, upage + PGSIZE, read_bytes - here,
                        zero_bytes - (PGSIZE - here), writable)

(* The loop of load over the program headers from i on. *)
RECURSIVE LoadHeaders(_, _, _)
LoadHeaders(hs, i, pages) ==
  IF i > Len(hs) THEN <<pages>>
  ELSE LET h == hs[i] IN
    CASE h.type \in {"PT_DYNAMIC", "PT_INTERP", "PT_SHLIB", "beyond the file"} -> <<>>
      [] h.type = "PT_LOAD" ->
           IF ~validate_segment(h) THEN <<>>
           ELSE LET r == load_segment(pages, pg_round_down(h.offset), pg_round_down(h.vaddr),
                                      ReadBytes(h), ZeroBytes(h), h.writable)
                IN  IF r = <<>> THEN <<>> ELSE LoadHeaders(hs, i + 1, r[1])
      [] OTHER -> LoadHeaders(hs, i + 1, pages)

(* load, without the stack: fails (ehdr_ok: the ELF header is read whole and is  *)
(* one of this machine's), or has given pages to the segments.                   *)
load(ehdr_ok, hs) == IF ehdr_ok THEN LoadHeaders(hs, 1, [u \in {} |-> 0]) ELSE <<>>

(* Variant: a page that reads to the end of the file is filled from it anyway. *)
lazy_load_segment_remaining(info) ==
  [i \in 0..(PGSIZE - 1) |-> IF i < info.read_bytes THEN info.ofs + i + 1 ELSE 0]

(* The page a fault brings in; file_remaining is unsigned. *)
lazy_load_segment(info) ==
  LET file_remaining == (LengthOfFile - info.ofs) % Addresses
      page_read_bytes == LesserOf(LesserOf(info.read_bytes, PGSIZE), file_remaining)
      bytes_read == IF info.ofs > LengthOfFile THEN 0 ELSE LesserOf(page_read_bytes, LengthOfFile - info.ofs)
  IN  [i \in 0..(PGSIZE - 1) |-> IF i < bytes_read THEN info.ofs + i + 1 ELSE 0]

CallLoad == /\ Idle /\ \E hs \in Headers, ehdr_ok \in BOOLEAN : Called("load", hs, load(ehdr_ok, hs))
-----------------------------------------------------------------------------
(* Variant: the pointers are pushed without aligning the stack. *)
Aligned_not(rsp) == rsp

Aligned(rsp) == rsp - (rsp % PTR)

(* The stack as a function: bytes of the strings, and the pointers as a whole. *)
Pushed(stack, a, s) == [x \in DOMAIN stack \cup (a..(a + Len(s))) |->
                          IF x \in a..(a + Len(s) - 1) THEN s[x - a + 1] ELSE IF x = a + Len(s) THEN 0 ELSE stack[x]]
StackWord(stack, a, v) == [x \in DOMAIN stack \cup {a} |-> IF x = a THEN v ELSE stack[x]]

RECURSIVE PushStrings(_, _, _, _, _)
PushStrings(argv, i, rsp, stack, rsp_arr) ==
  IF i = 0 THEN [rsp |-> rsp, stack |-> stack, rsp_arr |-> rsp_arr]
  ELSE LET a == rsp - (Len(argv[i]) + 1)
       IN  PushStrings(argv, i - 1, a, Pushed(stack, a, argv[i]), [rsp_arr EXCEPT ![i] = a])

RECURSIVE PushPointers(_, _, _, _)
PushPointers(rsp_arr, i, rsp, stack) ==
  IF i = 0 THEN [rsp |-> rsp, stack |-> stack]
  ELSE PushPointers(rsp_arr, i - 1, rsp - PTR, StackWord(stack, rsp - PTR, rsp_arr[i]))

(* The end of load: strings, padding, the null pointer, the pointers, the return address. *)
ArgumentStack(argv) ==
  LET argc == Len(argv)
      s == PushStrings(argv, argc, USER_STACK, [x \in {} |-> 0], [i \in 1..argc |-> 0])
      top == Aligned(s.rsp) - PTR
      p == PushPointers(s.rsp_arr, argc, top, StackWord(s.stack, top, 0))
      rsp == p.rsp - PTR
  IN  [rsp |-> rsp, rdi |-> argc, rsi |-> rsp + PTR, stack |-> StackWord(p.stack, rsp, 0)]

CallArguments == /\ Idle /\ \E argv \in ArgLists : Called("arguments", argv, ArgumentStack(argv))
-----------------------------------------------------------------------------
(***************************************************************************)
(* What load accepts is loaded as the headers say: every byte of every     *)
(* segment is in user memory at its address, from the file as far as       *)
(* p_filesz and the file go and 0 after that, whatever the offsets within  *)
(* the pages, and no page is taken by two segments.  (Segments of less     *)
(* than Counts bytes: read_bytes and zero_bytes are uint32_t.)             *)
(***************************************************************************)
SegmentImage ==
  Is("load") /\ call.result # <<>> =>
    LET pages == call.result[1]
        loads == {i \in 1..Len(call.args) : call.args[i].type = "PT_LOAD"}
    IN  \A i \in loads : LET h == call.args[i] IN
          ROUND_UP(pg_ofs(h.vaddr) + h.memsz) < Counts =>
          \A k \in 0..(h.memsz - 1) :
            LET a == h.vaddr + k
                u == pg_round_down(a)
            IN  /\ a \in PGSIZE..(KERN_BASE - 1) /\ u \in DOMAIN pages
                /\ pages[u].writable = h.writable
                /\ lazy_load_segment(pages[u])[a - u] =
                     IF k < h.filesz /\ h.offset + k < LengthOfFile THEN h.offset + k + 1 ELSE 0

(***************************************************************************)
(* The program finds its arguments: rdi is argc and rsi an aligned array   *)
(* of argc pointers to the strings and a null pointer, with a zero return  *)
(* address below, and nothing lies above USER_STACK.                       *)
(***************************************************************************)
ArgumentsReadBack ==
  Is("arguments") =>
    LET argv == call.args
        r == call.result
    IN  /\ r.rdi = Len(argv) /\ r.rsi % PTR = 0 /\ r.stack[r.rsp] = 0 /\ r.rsi = r.rsp + PTR
        /\ r.stack[r.rsi + PTR * Len(argv)] = 0
        /\ \A x \in DOMAIN r.stack : r.rsp <= x /\ x < USER_STACK
        /\ \A i \in 1..Len(argv) :
             LET a == r.stack[r.rsi + PTR * (i - 1)] IN
             /\ a >= r.rsi + PTR * (Len(argv) + 1)
             /\ \A k \in 1..Len(argv[i]) : r.stack[a + k - 1] = argv[i][k]
             /\ r.stack[a + Len(argv[i])] = 0
=============================================================================

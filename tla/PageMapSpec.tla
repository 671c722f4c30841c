---------------------------- MODULE PageMapSpec -----------------------------
(***************************************************************************)
(* What threads/mmu.c promises of one process's page tables: a function    *)
(* from user pages to entries.  The tables that hold the entries, and that *)
(* there may be no memory for them, show only in a pml4_set_page that      *)
(* changes nothing and says so.                                            *)
(***************************************************************************)
CONSTANTS Va, Kpage, Zero

VARIABLES
  entry,    \* the entry of every user page
  result    \* what the last call returned

Entry(k, rw) == [kpage |-> k, P |-> TRUE, W |-> rw, D |-> FALSE]

(* A step changes the entry of one page at most, and the result if it asks. *)
Change(va, e)  == entry' = [entry EXCEPT ![va] = e] /\ UNCHANGED result
Ask(r)         == UNCHANGED entry /\ result' = r

SetPage(va, k, rw) ==
  \/ entry' = [entry EXCEPT ![va] = Entry(k, rw)] /\ result' = TRUE
  \/ Ask(FALSE)

ClearPage(va) == Change(va, [entry[va] EXCEPT !.P = FALSE])

(* A page that was never mapped may have no entry to hold the bit. *)
SetDirty(va, d) ==
  \/ Change(va, [entry[va] EXCEPT !.D = d])
  \/ entry[va].kpage = Zero.kpage /\ UNCHANGED <<entry, result>>

GetPage(va) == Ask(IF entry[va].P THEN entry[va].kpage ELSE Zero.kpage)
IsDirty(va) == Ask(entry[va].D)

(* The processor writes a page that it may. *)
Write(va) == entry[va].P /\ entry[va].W /\ Change(va, [entry[va] EXCEPT !.D = TRUE])

Destroy == entry' = [va \in Va |-> Zero] /\ UNCHANGED result

Init == entry = [va \in Va |-> Zero] /\ result = FALSE

Next ==
  \/ Destroy
  \/ \E va \in Va :
       \/ \E k \in Kpage, rw \in BOOLEAN : SetPage(va, k, rw)
       \/ ClearPage(va) \/ GetPage(va) \/ IsDirty(va) \/ Write(va)
       \/ \E b \in BOOLEAN : SetDirty(va, b)

Spec == Init /\ [][Next]_<<entry, result>>
=============================================================================

---------------------------- MODULE ElementLoops ----------------------------
(***************************************************************************)
(* The loops of GenericAllocationManager.h, element by element, over a     *)
(* memory m: its cells and faults (ElementMemory), the kind of its         *)
(* elements, the contents of the objects destroyed so far, how many        *)
(* objects were constructed (counter), which of them fails (errorOn), the  *)
(* status and the round of the loop that failed.  The objects of a         *)
(* numbered memory are ErrorProne: they hold the number of their           *)
(* construction, and one whose init fails is Blank.                        *)
(***************************************************************************)
EXTENDS ElementMemory, SequencesExt

Numbers == <<"0", "1", "2", "3", "4", "5", "6", "7", "8", "9">>
Never == 1000

MemoryOf(kind, numbered, cells) ==
  [class |-> "Memory", kind |-> kind, numbered |-> numbered, cells |-> cells, faults |-> {},
   destroyed |-> <<>>, counter |-> 0, errorOn |-> Never, status |-> "NoError", round |-> 0]

Failed(m) == m.status # "NoError"

(* construct of the allocator: the object is there even if its init fails, *)
(* as ConstructorNoexceptAllocator default-constructs it first.            *)
construct(m, at, x) ==
  LET fails == m.kind = "copied" /\ m.counter = m.errorOn
      object == IF fails THEN Blank ELSE IF m.numbered THEN Numbers[m.counter + 1] ELSE x
  IN  [m EXCEPT !.cells[at + 1] = object, !.counter = @ + 1,
                !.status = IF fails THEN "ErrorElement" ELSE @,
                !.faults = @ \cup Blame("built over",
                             {i \in {at + 1} : Constructs(m.kind) /\ m.cells[i] \in Values})]

destroy(m, at) ==
  IF ~Constructs(m.kind) THEN m
  ELSE [m EXCEPT !.cells[at + 1] = Raw, !.destroyed = Append(@, m.cells[at + 1]),
                 !.faults = @ \cup Blame("destroyed dead", {i \in {at + 1} : m.cells[i] = Raw})]

destroyN(m, at, n) == FoldLeftDomain(LAMBDA r, i : destroy(r, at + i - 1), m, RawCells(n))

(* The rounds of a loop until one of them fails.                           *)
Rounds(m, n, Round(_, _)) ==
  FoldLeftDomain(LAMBDA r, i : IF Failed(r) THEN r ELSE [Round(r, i - 1) EXCEPT !.round = i - 1],
                 m, RawCells(n))

(* Mutation: the objects built before the failure are left alone.          *)
UndoneNot(m, at, n) == m

Undone(m, at, n) == IF Failed(m) THEN destroyN(m, at, n) ELSE m

constructN(m, at, n, x) ==
  LET r == Rounds(m, n, LAMBDA s, i : construct(s, at + i, x)) IN Undone(r, at, r.round)

allocateAndConstruct(m, n, x) ==
  LET r == constructN([m EXCEPT !.cells = RawCells(n)], 0, n, x)
  IN  IF Failed(r) THEN [r EXCEPT !.cells = <<>>] ELSE r

(* One element copied or moved from one cell to another, whose object is   *)
(* destroyed first if it stands before finish.                             *)
Transferred(m, to, finish, from, moves) ==
  LET d == IF to < finish THEN destroy(m, to) ELSE m
      r == construct(d, to, d.cells[from + 1])
      s == [r EXCEPT !.faults =
              @ \cup Blame("read dead", {i \in {from + 1} : Constructs(m.kind) /\ d.cells[i] \notin Values})]
  IN  IF moves /\ ~Failed(s) /\ to # from
      THEN [s EXCEPT !.cells[from + 1] = LeftBehind(m.kind, @)] ELSE s

(* copyToRawNoOverlap and moveToRawNoOverlap (nothing stands before        *)
(* finish), copyToDirtyNoOverlap and moveToDirtyNoOverlap.                 *)
Forward(m, to, finish, from, n, moves) ==
  LET r == Rounds(m, n, LAMBDA s, i : Transferred(s, to + i, finish, from + i, moves))
  IN  Undone(r, to, r.round)

Backward(m, to, finish, from, n, moves) ==
  LET r == Rounds(m, n,
             LAMBDA s, i : Transferred(s, to + n - 1 - i, finish, from + n - 1 - i, moves))
  IN  Undone(r, to + n - r.round, r.round)

(* memcpy and memmove.                                                     *)
Bytes(m, to, from, n) ==
  [m EXCEPT !.cells = MovedCells(m.kind, @, to, from, n)]

Overlap(to, from, n) == from < to + n /\ to < from + n

ToRawNoOverlap(m, to, from, n, moves) ==
  IF Constructs(m.kind) THEN Forward(m, to, to, from, n, moves) ELSE Bytes(m, to, from, n)

ToDirtyNoOverlap(m, to, finish, from, n, moves) ==
  IF Constructs(m.kind) THEN Forward(m, to, finish, from, n, moves) ELSE Bytes(m, to, from, n)

(* copyToDirty and moveToDirty.                                            *)
ToDirty(m, to, finish, from, n, moves) ==
  IF to = from THEN m
  ELSE IF Constructs(m.kind) /\ Overlap(to, from, n) /\ from < to
       THEN Backward(m, to, finish, from, n, moves)
  ELSE ToDirtyNoOverlap(m, to, finish, from, n, moves)

(* Objects still in the block are not destroyed with it.                   *)
destroyAndDeallocate(m, n) == [destroyN(m, 0, n) EXCEPT !.cells = <<>>]
=============================================================================

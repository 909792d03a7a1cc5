--------------------------- MODULE ElementMemory ---------------------------
(***************************************************************************)
(* The memory primitives of GenericAllocationManager over the cells of one *)
(* block.  A cell is Raw (no object), Moved (an object that was moved      *)
(* from), Blank (an object whose init failed) or holds an element.  Calls  *)
(* that break what IAllocationManager asks of its callers are recorded in  *)
(* faults; a position counts from 0, as the pointers of the code do.       *)
(*                                                                         *)
(* The kind of the elements: "bytes" are trivially copyable and are        *)
(* neither constructed nor destroyed, "movable" elements are left empty by *)
(* a move, "copied" elements have no move constructor and stay as they     *)
(* were.                                                                   *)
(***************************************************************************)
EXTENDS Integers, Sequences

CONSTANTS Values, Raw, Moved, Blank

Kinds == {"bytes", "movable", "copied"}
Faults == {"destroyed dead", "built over", "read dead", "overlap", "out of block", "lost"}

Constructs(kind) == kind # "bytes"

(* The cells of the n elements from position at.                           *)
Cells(at, n) == (at + 1) .. (at + n)

RawCells(n) == [i \in 1 .. n |-> Raw]

(* "fault", if some cell is guilty of it.                                  *)
Blame(fault, guilty) == IF guilty = {} THEN {} ELSE {fault}

DestroyN(kind, m, at, n) ==
  IF ~Constructs(kind) THEN m
  ELSE [cells  |-> [i \in DOMAIN m.cells |->
                      IF i \in Cells(at, n) THEN Raw ELSE m.cells[i]],
        faults |-> m.faults \cup
                     Blame("destroyed dead",
                           {i \in Cells(at, n) : i \notin DOMAIN m.cells \/ m.cells[i] = Raw})]

(* The elements s built from position at.  When element number fail cannot *)
(* be copied, those before it are destroyed again and its own cell keeps   *)
(* the object whose init failed; 0 stands for no failure.                  *)
Built(cells, at, s, fail) ==
  [i \in DOMAIN cells |->
     IF i \notin Cells(at, Len(s)) THEN cells[i]
     ELSE IF fail = 0 THEN s[i - at]
     ELSE IF i < at + fail THEN Raw
     ELSE IF i = at + fail THEN Blank
     ELSE cells[i]]

CopyToRawNoOverlap(kind, m, at, s, fail) ==
  LET touched == IF fail = 0 THEN Cells(at, Len(s)) ELSE Cells(at, fail)
  IN  [cells  |-> Built(m.cells, at, s, fail),
       faults |-> m.faults
          \cup Blame("out of block", touched \ DOMAIN m.cells)
          \cup Blame("built over", {i \in touched \cap DOMAIN m.cells :
                                      Constructs(kind) /\ m.cells[i] \in Values})]

(* What a move leaves behind.                                              *)
LeftBehind(kind, c) == IF kind = "movable" THEN Moved ELSE c

(* The n elements at position from, moved to position to of the block.     *)
MovedCells(kind, cells, to, from, n) ==
  [i \in DOMAIN cells |->
     IF i \in Cells(to, n) THEN cells[i - to + from]
     ELSE IF i \in Cells(from, n) THEN LeftBehind(kind, cells[i])
     ELSE cells[i]]

DeadSources(kind, cells, from, n) ==
  Blame("read dead", {i \in Cells(from, n) :
                        Constructs(kind) /\ (i \notin DOMAIN cells \/ cells[i] \notin Values)})

(* The cells after the n places of built, filled in the order given by     *)
(* rank (1 is built first), fail at element number fail: the objects       *)
(* before it are destroyed again, its own stays, whose init failed.        *)
FailedMove(cells, to, n, rank(_), fail) ==
  [i \in DOMAIN cells |->
     IF i \notin Cells(to, n) \/ rank(i) > fail THEN cells[i]
     ELSE IF rank(i) = fail THEN Blank ELSE Raw]

(* Towards the front of the block, in the order of the cells: a cell that  *)
(* is both source and destination has been moved from when it is built.    *)
(* Only elements that a move copies can fail.                              *)
MoveToRawNoOverlap(kind, m, to, from, n, fail) ==
  LET Before(i) == IF i \in Cells(from, n) THEN LeftBehind(kind, m.cells[i]) ELSE m.cells[i]
      Rank(i)   == i - to
  IN  [cells  |-> IF fail = 0 THEN MovedCells(kind, m.cells, to, from, n)
                  ELSE FailedMove(m.cells, to, n, Rank, fail),
       faults |-> m.faults
          \cup DeadSources(kind, m.cells, from, n)
          \cup Blame("overlap", Cells(to, n) \cap Cells(from, n))
          \cup Blame("built over", {i \in Cells(to, n) : Constructs(kind) /\ Before(i) \in Values})]

(* Towards the end, from the last cell if the regions overlap: what stands *)
(* before finish is destroyed before it is built over.                     *)
MoveToDirty(kind, m, to, finish, from, n, fail) ==
  LET Rank(i) == IF Cells(to, n) \cap Cells(from, n) = {} THEN i - to ELSE to + n + 1 - i
  IN  [cells  |-> IF fail = 0 THEN MovedCells(kind, m.cells, to, from, n)
                  ELSE FailedMove(m.cells, to, n, Rank, fail),
       faults |-> m.faults
          \cup DeadSources(kind, m.cells, from, n)
          \cup Blame("out of block", Cells(to, n) \ DOMAIN m.cells)
          \cup Blame("destroyed dead", {i \in Cells(to, n) :
                                          Constructs(kind) /\ i <= finish /\ m.cells[i] = Raw})
          \cup Blame("built over", {i \in Cells(to, n) \cap DOMAIN m.cells :
                                      Constructs(kind) /\ i > finish /\ m.cells[i] \in Values})]

(* A block that is given back after its first n elements were destroyed:   *)
(* whatever element is left in it is never destroyed.                      *)
Deallocate(kind, m) ==
  m.faults \cup Blame("lost", {i \in DOMAIN m.cells : Constructs(kind) /\ m.cells[i] \in Values})

DestroyAndDeallocate(kind, m, n) == Deallocate(kind, DestroyN(kind, m, 0, n))
=============================================================================
